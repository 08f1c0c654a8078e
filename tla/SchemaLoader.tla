---------------------------- MODULE SchemaLoader ----------------------------
(***************************************************************************)
(* Loading schemas: load_protocol_definition() on a text, and              *)
(* load_protocol_definition_from_file() with SchemaImportResolver, which   *)
(* follows the imports of a file depth first.  The recursion is a stack of *)
(* frames, one per load_recursive() that is under way.                     *)
(*                                                                         *)
(* The disk is external: files, symbolic links, the directories that hold  *)
(* a Bazel marker, and what the caller may ask for.  How a text is read is *)
(* the parameter Parse, which SchemaFormats gives for both formats.        *)
(***************************************************************************)
EXTENDS SchemaDefinition, FiniteSetsExt

CONSTANTS
  Disks,         \* the disks to look at: [files, links, markers, calls]
  ImportWords,   \* import path -> [how, up, path]
  Parse(_, _, _) \* of a file, with a format hint, with or without the need for a root
                 \* declaration: an Outcome

\* What a call returns, and where the .upr parser stopped if it ran: [at, tokens].
Error == [status |-> "error", v |-> ProtocolDefinition]
Spins == [status |-> "spins", v |-> ProtocolDefinition]
Loaded(definition) == [status |-> "ok", v |-> definition]
Outcome(result_, cursor_) == [result |-> result_, cursor |-> cursor_]

\* No file lies here.
Unused == [dir |-> <<>>, base |-> "", ext |-> ""]

ASSUME ImportAssumption ==
  \A w \in DOMAIN ImportWords : ImportWords[w].how \in {"absolute", "relative", "workspace"}

\* A link leads to what is no link; parsing answers with a definition, an error or not at all.
ASSUME DiskAssumption ==
  \A d \in Disks :
    /\ Unused \notin DOMAIN d.files
    /\ \A path \in DOMAIN d.links : d.links[path] \notin DOMAIN d.links
    /\ \A path \in DOMAIN d.files :
         LET parsed == Parse(d.files[path], path.ext, FALSE).result
         IN /\ parsed.status \in {"ok", "error", "spins"}
            /\ parsed.status = "ok" => /\ DOMAIN parsed.v = DOMAIN ProtocolDefinition
                                       /\ parsed.v.imports \in Seq(DOMAIN ImportWords)

VARIABLES
  disk,            \* never changes
  call,            \* the call under way
  pc,              \* where the calling thread is
  workspace_root_, \* of the resolver: <<>> or <<directory>>
  target,          \* the path load_recursive() has been called with
  stack,           \* frames [index, imports]: what a frame has still to import
  definitions_, root_paths_, postorder_, states_,    \* of the resolver
  result,          \* what the call returns: [status, v]
  cursor           \* where the last .upr parser stopped: [at, tokens]

resolver == <<workspace_root_, target, stack, definitions_, root_paths_, postorder_, states_>>
vars == <<disk, call, pc, resolver, result, cursor>>

-----------------------------------------------------------------------------
\* Paths: [dir, base, ext], dir a sequence of names.

weakly_canonical(path) == IF path \in DOMAIN disk.links THEN disk.links[path] ELSE path
IsOpen(path) == path \in DOMAIN disk.files

\* The directory nearest to the path, upwards, that has a marker.
find_workspace_root(path) ==
  LET above == {n \in 0..Len(path.dir) : SubSeq(path.dir, 1, n) \in disk.markers}
  IN IF above = {} THEN <<>> ELSE <<SubSeq(path.dir, 1, Max(above))>>

\* The path an import leads to, or none: the directory to look in is sought first.
resolve_import_path(word, importer_path) ==
  LET import == ImportWords[word]
      base == CASE import.how = "absolute" -> << <<>> >>
                [] import.how = "relative" ->
                     <<SubSeq(importer_path.dir, 1, Len(importer_path.dir) - import.up)>>
                [] import.how = "workspace" -> workspace_root_
  IN IF base = <<>> THEN <<>>
     ELSE <<weakly_canonical([import.path EXCEPT !.dir = base[1] \o @])>>

-----------------------------------------------------------------------------
Init ==
  /\ disk \in Disks
  /\ call = <<>> /\ pc = "idle" /\ result = Error /\ cursor = <<>>
  /\ workspace_root_ = <<>> /\ target = Unused /\ stack = <<>>
  /\ definitions_ = <<>> /\ root_paths_ = <<>> /\ postorder_ = <<>>
  /\ states_ = [p \in {} |-> "done"]

Return(outcome) == result' = outcome /\ pc' = "returned"

\* What a call returns that loads one text.
ReturnLoaded(outcome) ==
  /\ result' = outcome.result /\ cursor' = outcome.cursor
  /\ pc' = IF outcome.result = Spins THEN "spinning" ELSE "returned"

\* A call on a text, with or without a hint; load_protocol_definition_from_yaml() and
\* ..._from_upr() are the ones with a hint.
LoadText(c) ==
  /\ c.entry = "text"
  /\ ReturnLoaded(Parse(disk.files[c.path], c.hint, TRUE))
  /\ UNCHANGED resolver

\* A file without its imports: options.resolve_imports is false.
LoadSingle(c) ==
  LET file == disk.files[weakly_canonical(c.path)]
  IN /\ c.entry = "single"
     /\ IF IsOpen(weakly_canonical(c.path))
          THEN ReturnLoaded(Parse(file, c.path.ext, TRUE))
        ELSE Return(Error) /\ UNCHANGED cursor
     /\ UNCHANGED resolver

\* The workspace is the one the path lies in, as it was given.
LoadFile(c) ==
  /\ c.entry = "file"
  /\ workspace_root_' = find_workspace_root(c.path)
  /\ target' = c.path /\ pc' = "entering"
  /\ UNCHANGED <<stack, definitions_, root_paths_, postorder_, states_, result, cursor>>

Call ==
  /\ pc = "idle"
  /\ \E c \in disk.calls : call' = <<c>> /\ (LoadText(c) \/ LoadSingle(c) \/ LoadFile(c))
  /\ UNCHANGED disk

-----------------------------------------------------------------------------
\* load_recursive, up to its loop over the imports.

normalized == weakly_canonical(target)

Fail == Return(Error) /\ UNCHANGED <<resolver, cursor>>

EnterVisiting_Skipped ==
  /\ normalized \in DOMAIN states_ /\ states_[normalized] = "visiting"
  /\ pc' = "importing"
  /\ UNCHANGED <<resolver, result, cursor>>

EnterVisiting ==    \* an import cycle
  /\ normalized \in DOMAIN states_ /\ states_[normalized] = "visiting"
  /\ Fail

EnterDone ==
  /\ normalized \in DOMAIN states_ /\ states_[normalized] = "done"
  /\ pc' = "importing"
  /\ UNCHANGED <<resolver, result, cursor>>

EnterMissing ==
  /\ normalized \notin DOMAIN states_ /\ ~IsOpen(normalized)
  /\ Fail

\* The definition is kept and its imports come next; a file that is refused ends the call.
Register(parsed) ==
  /\ cursor' = parsed.cursor
  /\ definitions_' = Append(definitions_, parsed.result.v)
  /\ root_paths_' = Append(root_paths_, normalized)
  /\ states_' = [p \in {normalized} \cup DOMAIN states_ |->
                  IF p = normalized THEN "visiting" ELSE states_[p]]
  /\ stack' = Append(stack, [index |-> Len(definitions_) + 1, imports |-> parsed.result.v.imports])
  /\ pc' = "importing"
  /\ UNCHANGED <<workspace_root_, target, postorder_, result>>
RegisterLoaded(parsed) ==
  IF parsed.result.status = "ok" THEN Register(parsed) ELSE ReturnLoaded(parsed) /\ UNCHANGED resolver
EnterNew ==
  /\ normalized \notin DOMAIN states_ /\ IsOpen(normalized)
  /\ RegisterLoaded(Parse(disk.files[normalized], normalized.ext, FALSE))

Enter ==
  /\ pc = "entering"
  /\ EnterVisiting \/ EnterDone \/ EnterMissing \/ EnterNew
  /\ UNCHANGED <<disk, call>>

-----------------------------------------------------------------------------
\* The loop over the imports, and what follows it.

Top == Last(stack)

ImportNext_Again(frame) == frame
ImportNext(frame) == [frame EXCEPT !.imports = Tail(@)]

NextImport ==
  LET resolved == resolve_import_path(Head(Top.imports), root_paths_[Top.index])
  IN /\ pc = "importing" /\ stack # <<>> /\ Top.imports # <<>>
     /\ IF resolved = <<>> THEN Fail
        ELSE /\ target' = resolved[1]
             /\ stack' = Append(Front(stack), ImportNext(Top))
             /\ pc' = "entering"
             /\ UNCHANGED <<workspace_root_, definitions_, root_paths_, postorder_, states_,
                            result, cursor>>
     /\ UNCHANGED <<disk, call>>

Leave_RootFirst ==
  /\ pc = "importing" /\ stack # <<>> /\ Top.imports = <<>>
  /\ definitions_' = [definitions_ EXCEPT ![Top.index].imports = <<>>]
  /\ states_' = [states_ EXCEPT ![root_paths_[Top.index]] = "done"]
  /\ postorder_' = <<Top.index>> \o postorder_
  /\ stack' = Front(stack)
  /\ UNCHANGED <<disk, call, pc, workspace_root_, target, root_paths_, result, cursor>>

Leave ==
  /\ pc = "importing" /\ stack # <<>> /\ Top.imports = <<>>
  /\ definitions_' = [definitions_ EXCEPT ![Top.index].imports = <<>>]
  /\ states_' = [states_ EXCEPT ![root_paths_[Top.index]] = "done"]
  /\ postorder_' = Append(postorder_, Top.index)
  /\ stack' = Front(stack)
  /\ UNCHANGED <<disk, call, pc, workspace_root_, target, root_paths_, result, cursor>>

Merge(part) ==
  FlattenSeq([k \in DOMAIN postorder_ |-> definitions_[postorder_[k]][part]])

\* The rest of resolve(); the root is the first that was loaded.
Resolve ==
  LET root == definitions_[1]
      merged == [name |-> root.name, imports |-> <<>>, enums |-> Merge("enums"),
                 structs |-> Merge("structs"), messages |-> Merge("messages")]
  IN /\ pc = "importing" /\ stack = <<>>
     /\ Return(IF root.name = "" \/ root.messages = <<>> THEN Error ELSE Loaded(merged))
     /\ UNCHANGED <<disk, call, resolver, cursor>>

\* The loop in tokenize() goes on without reading anything.
Spin == pc = "spinning" /\ UNCHANGED vars

\* The caller has its answer and the resolver is gone.
Forget ==
  /\ pc = "returned"
  /\ call' = <<>> /\ pc' = "idle" /\ result' = Error /\ cursor' = <<>>
  /\ workspace_root_' = <<>> /\ target' = Unused /\ stack' = <<>>
  /\ definitions_' = <<>> /\ root_paths_' = <<>> /\ postorder_' = <<>>
  /\ states_' = [p \in {} |-> "done"]
  /\ UNCHANGED disk

Load == Enter \/ NextImport \/ Leave \/ Resolve \/ Spin
Next == Call \/ Load \/ Forget

Spec == Init /\ [][Next]_vars
\* The thread that called goes on: weak fairness of Load, with the condition under which a
\* step of it changes anything written out.
Underway == pc \in {"entering", "importing"}
Fairness == []<>~Underway \/ []<><<Load>>_vars
FairSpec == Spec /\ Fairness

-----------------------------------------------------------------------------
\* Properties.

\* The file that a call is about.
CallFile == weakly_canonical(call[1].path)

\* The .upr parser reads tokens without looking at their number.  Wherever a text is wrong or
\* cut off, the parser stops, or reports its error, at a token that exists.
ParserStaysInside == cursor # <<>> => cursor[1].at \in 1..cursor[1].tokens

\* What is read from a file that is imported, and the files it imports in its turn.
Content(path) == Parse(disk.files[path], path.ext, FALSE).result
Readable(path) == IsOpen(path) /\ Content(path).status = "ok"

Paths == DOMAIN disk.files \cup {Unused}
Imported(word, path) ==    \* Unused stands for an import that leads nowhere
  LET resolved == resolve_import_path(word, path)
  IN IF resolved # <<>> /\ IsOpen(resolved[1]) THEN resolved[1] ELSE Unused
ImportsOf(path) ==
  LET content == Content(path)
  IN IF IsOpen(path) /\ content.status = "ok"
       THEN {Imported(word, path) : word \in ToSet(content.v.imports)} ELSE {}
ImportGraph == UNION {{path} \X ImportsOf(path) : path \in Paths}

\* The files a file needs, over any number of imports: those that are in every set of files
\* that has its imports and the imports of its members.
Closed(graph, path, files) == \A edge \in graph : edge[1] \in {path} \cup files => edge[2] \in files
NeededBy(graph, path) ==
  {p \in Paths : \A files \in SUBSET Paths : Closed(graph, path, files) => p \in files}
Needed(graph) == {CallFile} \cup NeededBy(graph, CallFile)

FileReturned == pc = "returned" /\ call[1].entry = "file"

\* A schema file is loaded exactly if it and all files it needs can be read, none of them
\* needs itself, and the file itself names a protocol and has a message.
CyclesAreRefused ==
  FileReturned =>
    (result.status = "ok" <=>
       LET graph == ImportGraph
       IN /\ \A p \in Needed(graph) : Readable(p) /\ p \notin NeededBy(graph, p)
          /\ LET root == Content(CallFile).v IN root.name # "" /\ root.messages # <<>>)

\* Every file that is needed is in the result once, whatever paths and links lead to it, and
\* after all the files it needs; nothing else is in the result.
Order == [k \in DOMAIN postorder_ |-> root_paths_[postorder_[k]]]
Parts(part) == [k \in DOMAIN Order |-> Content(Order[k]).v[part]]
MergedOnce ==
  FileReturned /\ result.status = "ok" =>
    LET graph == ImportGraph
    IN /\ IsInjective(Order) /\ Range(Order) = Needed(graph)
       /\ \A k \in DOMAIN Order : NeededBy(graph, Order[k]) \subseteq {Order[j] : j \in 1..(k - 1)}
       /\ result.v = [name |-> Content(CallFile).v.name, imports |-> <<>>,
                      enums |-> FlattenSeq(Parts("enums")),
                      structs |-> FlattenSeq(Parts("structs")),
                      messages |-> FlattenSeq(Parts("messages"))]

=============================================================================
