------------------------- MODULE SchemaLoaderProofs -------------------------
(***************************************************************************)
(* Proofs about the import resolver of SchemaLoader, for every set of      *)
(* disks and however a text is parsed: CyclesAreRefused and MergedOnce are *)
(* invariants.  The files a file needs are a least closed set; the         *)
(* resolver finds them with a stack and a table of states.                 *)
(***************************************************************************)
EXTENDS SchemaLoader, TLAPS

-----------------------------------------------------------------------------
\* The inductive invariant.

File(i) == root_paths_[stack[i].index]
Done == {p \in DOMAIN states_ : states_[p] = "done"}

\* What the path that load_recursive() has been called with stands for in the graph.
Aim == IF IsOpen(target) THEN target ELSE Unused

\* The resolver before and between the calls.
Fresh ==
  /\ stack = <<>> /\ definitions_ = <<>> /\ root_paths_ = <<>> /\ postorder_ = <<>>
  /\ states_ = [p \in {} |-> "done"]

\* A call on a file begins with that file, and it is the first that is kept.
Begun ==
  /\ call[1].entry = "file"
  /\ root_paths_ = <<>> => pc = "entering" /\ target = call[1].path
  /\ root_paths_ # <<>> => root_paths_[1] = CallFile
  /\ pc = "entering" /\ stack = <<>> => root_paths_ = <<>>

\* Files are kept once each, with what was read from them, and only if they are needed.
Kept ==
  /\ root_paths_ \in Seq(DOMAIN disk.files) /\ IsInjective(root_paths_)
  /\ states_ \in [Range(root_paths_) -> {"visiting", "done"}]
  /\ \A k \in DOMAIN root_paths_ : /\ Content(root_paths_[k]).status = "ok"
                                   /\ root_paths_[k] \in Needed(ImportGraph)
  /\ definitions_ = [k \in DOMAIN root_paths_ |->
                       IF root_paths_[k] \in Done
                         THEN [Content(root_paths_[k]).v EXCEPT !.imports = <<>>]
                       ELSE Content(root_paths_[k]).v]

\* The frames are those of the files being visited, each needed by all the frames below it.
Stacked ==
  /\ stack \in Seq([index : DOMAIN root_paths_, imports : Seq(DOMAIN ImportWords)])
  /\ \A i, j \in DOMAIN stack :
       i < j => stack[i].index < stack[j].index /\ File(j) \in NeededBy(ImportGraph, File(i))
  /\ \A k \in DOMAIN root_paths_ :
       root_paths_[k] \notin Done <=> \E i \in DOMAIN stack : stack[i].index = k
  /\ \A i \in DOMAIN stack : ToSet(stack[i].imports) \subseteq ToSet(Content(File(i)).v.imports)

\* load_recursive() is called with an import of the file on top.
Aimed ==
  pc = "entering" /\ stack # <<>> =>
    weakly_canonical(target) = target /\ Aim \in ImportsOf(File(Len(stack)))

\* Where an import of a frame can be: still in its list, done, in the next frame, or just
\* being entered.
Ahead(i) ==
  IF i < Len(stack) THEN {File(i + 1)} ELSE IF pc = "entering" THEN {Aim} ELSE {}
Pending ==
  \A i \in DOMAIN stack :
    ImportsOf(File(i)) \subseteq
      {Imported(word, File(i)) : word \in ToSet(stack[i].imports)} \cup Done \cup Ahead(i)

\* The order in which files were done has each after its imports.
Ordered ==
  /\ postorder_ \in Seq(DOMAIN root_paths_) /\ IsInjective(postorder_)
  /\ Range(Order) = Done
  /\ \A k \in DOMAIN Order : ImportsOf(Order[k]) \subseteq {Order[j] : j \in 1..(k - 1)}

LoadInv == Begun /\ Kept /\ Stacked /\ Aimed /\ Pending /\ Ordered

Inv ==
  /\ disk \in Disks
  /\ pc = "idle" => Fresh
  /\ pc \in {"entering", "importing"} => LoadInv
  /\ CyclesAreRefused /\ MergedOnce

-----------------------------------------------------------------------------
\* The files that a file needs.

\* Sequences with values in a set.

LEMMA LargerSeq ==
  ASSUME NEW S, NEW T, S \subseteq T, NEW s \in Seq(S)
  PROVE  s \in Seq(T)
OBVIOUS

LEMMA SeqFromValues ==
  ASSUME NEW S, NEW n \in Nat, NEW s, s = [k \in 1..n |-> s[k]], \A k \in 1..n : s[k] \in S
  PROVE  s \in Seq(S) /\ Len(s) = n
OBVIOUS

LEMMA GraphEdges ==
  \A p, q : <<p, q>> \in ImportGraph <=> p \in Paths /\ q \in ImportsOf(p)
BY DEF ImportGraph

LEMMA ImportsArePaths ==
  \A p : ImportsOf(p) \subseteq Paths
BY DEF ImportsOf, Imported, IsOpen, Paths

\* A file needs what it imports.
LEMMA NeedsImports ==
  ASSUME NEW p \in Paths
  PROVE  ImportsOf(p) \subseteq NeededBy(ImportGraph, p)
<1> SUFFICES ASSUME NEW q \in ImportsOf(p)
             PROVE  q \in NeededBy(ImportGraph, p)
  OBVIOUS
<1>1. <<p, q>> \in ImportGraph BY GraphEdges
<1>2. q \in Paths BY ImportsArePaths
<1> QED BY <1>1, <1>2 DEF NeededBy, Closed

\* It needs the imports of what it needs, ...
LEMMA NeedsImportsOfNeeded ==
  ASSUME NEW p, NEW q \in NeededBy(ImportGraph, p)
  PROVE  ImportsOf(q) \subseteq NeededBy(ImportGraph, p)
<1> SUFFICES ASSUME NEW r \in ImportsOf(q)
             PROVE  r \in NeededBy(ImportGraph, p)
  OBVIOUS
<1>0. q \in Paths BY DEF NeededBy
<1>1. <<q, r>> \in ImportGraph BY <1>0, GraphEdges
<1>2. r \in Paths BY ImportsArePaths
<1> QED BY <1>1, <1>2 DEF NeededBy, Closed

\* ... all that is needed by what it needs, ...
LEMMA NeedsNeeded ==
  ASSUME NEW p, NEW q \in NeededBy(ImportGraph, p)
  PROVE  NeededBy(ImportGraph, q) \subseteq NeededBy(ImportGraph, p)
BY DEF NeededBy, Closed

\* ... and nothing outside a set of files that has its imports and those of its members.
LEMMA NeedsNothingElse ==
  ASSUME NEW p \in Paths, NEW files \in SUBSET Paths, ImportsOf(p) \subseteq files,
         \A q \in files : ImportsOf(q) \subseteq files
  PROVE  NeededBy(ImportGraph, p) \subseteq files
<1>1. \A edge \in ImportGraph : edge = <<edge[1], edge[2]>> BY DEF ImportGraph
<1>2. Closed(ImportGraph, p, files) BY <1>1, GraphEdges DEF Closed
<1> QED BY <1>2 DEF NeededBy

\* What is read from the disk depends on the disk and the workspace alone.
LEMMA SameGraph ==
  ASSUME UNCHANGED <<disk, workspace_root_>>
  PROVE  /\ \A p : Content(p)' = Content(p)
         /\ \A p : IsOpen(p)' = IsOpen(p)
         /\ \A p : weakly_canonical(p)' = weakly_canonical(p)
         /\ \A w, p : Imported(w, p)' = Imported(w, p)
         /\ \A p : ImportsOf(p)' = ImportsOf(p)
         /\ ImportGraph' = ImportGraph
         /\ \A p : NeededBy(ImportGraph, p)' = NeededBy(ImportGraph, p)
<1>1. \A p : Content(p)' = Content(p) BY DEF Content
<1>2. \A w, p : resolve_import_path(w, p)' = resolve_import_path(w, p)
  BY SMT DEF resolve_import_path, weakly_canonical
<1>3. Paths' = Paths BY DEF Paths
<1>4. \A w, p : Imported(w, p)' = Imported(w, p)
  BY <1>2 DEF Imported, IsOpen
<1>5. \A p : ImportsOf(p)' = ImportsOf(p)
  BY <1>1, <1>4 DEF ImportsOf, IsOpen
<1>6. ImportGraph' = ImportGraph BY <1>3, <1>5 DEF ImportGraph
<1>7. \A p : NeededBy(ImportGraph, p)' = NeededBy(ImportGraph, p)
  BY <1>3, <1>6 DEF NeededBy, Closed
<1>8. \A p : IsOpen(p)' = IsOpen(p) BY DEF IsOpen
<1>9. \A p : weakly_canonical(p)' = weakly_canonical(p) BY DEF weakly_canonical
<1> QED BY <1>1, <1>4, <1>5, <1>6, <1>7, <1>8, <1>9

\* A path made canonical once stays as it is, and an import leads to such a path or nowhere.
LEMMA Canonical ==
  ASSUME disk \in Disks
  PROVE  /\ \A p : weakly_canonical(weakly_canonical(p)) = weakly_canonical(p)
         /\ \A w, p : resolve_import_path(w, p) # <<>> =>
                        weakly_canonical(resolve_import_path(w, p)[1]) = resolve_import_path(w, p)[1]
<1>1. \A p : weakly_canonical(weakly_canonical(p)) = weakly_canonical(p)
  BY DiskAssumption DEF weakly_canonical
<1>2. ASSUME NEW w, NEW p, resolve_import_path(w, p) # <<>>
      PROVE  \E q : resolve_import_path(w, p) = <<weakly_canonical(q)>>
  BY <1>2, Zenon DEF resolve_import_path
<1>3. \A q : <<weakly_canonical(q)>>[1] = weakly_canonical(q) OBVIOUS
<1> QED BY <1>1, <1>2, <1>3

-----------------------------------------------------------------------------
\* What a call returns.

NoCycles == \A p \in Needed(ImportGraph) : Readable(p) /\ p \notin NeededBy(ImportGraph, p)

LEMMA SameNeeded ==
  ASSUME UNCHANGED <<disk, call, workspace_root_>>
  PROVE  /\ CallFile' = CallFile
         /\ Needed(ImportGraph)' = Needed(ImportGraph)
         /\ \A p : Readable(p)' = Readable(p)
         /\ NoCycles' = NoCycles
<1>1. CallFile' = CallFile BY DEF CallFile, weakly_canonical
<1>2. Needed(ImportGraph)' = Needed(ImportGraph) BY <1>1, SameGraph DEF Needed
<1>3. \A p : Readable(p)' = Readable(p) BY DEF Readable, IsOpen, Content
<1>4. NoCycles' = NoCycles BY <1>2, <1>3, SameGraph DEF NoCycles
<1> QED BY <1>1, <1>2, <1>3, <1>4

\* A call that has not returned, or is not about a file with its imports, owes nothing.
LEMMA NothingReturned ==
  ASSUME ~FileReturned'
  PROVE  CyclesAreRefused' /\ MergedOnce'
BY DEF CyclesAreRefused, MergedOnce

\* A call may refuse a file if one that it needs cannot be read or needs itself.
LEMMA Refused ==
  ASSUME UNCHANGED <<disk, call, workspace_root_>>, ~NoCycles, result'.status # "ok"
  PROVE  CyclesAreRefused' /\ MergedOnce'
<1>1. ~NoCycles' BY SameNeeded
<1> QED BY <1>1 DEF CyclesAreRefused, MergedOnce, NoCycles

-----------------------------------------------------------------------------
\* The beginning and the end of a call.

LEMMA CallStep ==
  ASSUME Inv, Call
  PROVE  Inv'
<1>1. PICK c \in disk.calls : call' = <<c>> /\ (LoadText(c) \/ LoadSingle(c) \/ LoadFile(c))
  BY DEF Call
<1>2. disk' \in Disks BY DEF Inv, Call
<1>3. Fresh BY DEF Inv, Call
<1>4. CASE LoadText(c) \/ LoadSingle(c)
  <2>1. call'[1].entry # "file" BY <1>1, <1>4 DEF LoadText, LoadSingle
  <2>2. pc' \in {"returned", "spinning"} BY <1>4 DEF LoadText, LoadSingle, ReturnLoaded, Return
  <2>3. ~FileReturned' BY <2>1 DEF FileReturned
  <2> QED BY <1>2, <2>2, <2>3, NothingReturned DEF Inv
<1>5. CASE LoadFile(c)
  <2>1. /\ call'[1].entry = "file" /\ target' = call'[1].path /\ pc' = "entering"
        /\ stack' = <<>> /\ definitions_' = <<>> /\ root_paths_' = <<>> /\ postorder_' = <<>>
        /\ states_' = [p \in {} |-> "done"]
    BY <1>1, <1>3, <1>5 DEF LoadFile, Fresh
  <2>2. Begun' BY <2>1 DEF Begun
  <2>3. Kept' BY <2>1 DEF Kept, IsInjective, Range
  <2>4. Stacked' /\ Aimed' /\ Pending'
    <3>1. DOMAIN stack' = {} /\ DOMAIN root_paths_' = {} BY <2>1
    <3> QED BY <2>1, <3>1 DEF Stacked, Aimed, Pending
  <2>5. Ordered' BY <2>1 DEF Ordered, IsInjective, Range, Order, Done
  <2>6. ~FileReturned' BY <2>1 DEF FileReturned
  <2> QED BY <1>2, <2>1, <2>2, <2>3, <2>4, <2>5, <2>6, NothingReturned DEF Inv, LoadInv
<1> QED BY <1>1, <1>4, <1>5

LEMMA ForgetStep ==
  ASSUME Inv, Forget
  PROVE  Inv'
<1>1. disk' \in Disks /\ pc' = "idle" /\ Fresh' BY DEF Inv, Forget, Fresh
<1>2. ~FileReturned' BY <1>1 DEF FileReturned
<1> QED BY <1>1, <1>2, NothingReturned DEF Inv

-----------------------------------------------------------------------------
\* Parts of the invariant that a step leaves alone.

LEMMA SameKept ==
  ASSUME Kept, UNCHANGED <<disk, call, workspace_root_, root_paths_, definitions_, states_>>
  PROVE  Kept'
<1>1. Done' = Done BY DEF Done
<1> QED BY <1>1, SameGraph, SameNeeded DEF Kept

LEMMA SameStacked ==
  ASSUME Stacked, UNCHANGED <<disk, workspace_root_, root_paths_, stack, states_>>
  PROVE  Stacked'
<1>1. Done' = Done BY DEF Done
<1>2. \A i : File(i)' = File(i) BY DEF File
<1> QED BY <1>1, <1>2, SameGraph DEF Stacked

LEMMA SameOrdered ==
  ASSUME Ordered, UNCHANGED <<disk, workspace_root_, root_paths_, postorder_, states_>>
  PROVE  Ordered'
<1>1. Done' = Done BY DEF Done
<1>2. Order' = Order BY DEF Order
<1> QED BY <1>1, <1>2, SameGraph DEF Ordered

-----------------------------------------------------------------------------
\* load_recursive() up to its loop.

LEMMA FrameFiles ==
  ASSUME LoadInv
  PROVE  /\ Len(stack) \in Nat /\ DOMAIN stack = 1..Len(stack)
         /\ \A i \in DOMAIN stack : /\ stack[i].index \in DOMAIN root_paths_
                                    /\ File(i) \in DOMAIN disk.files /\ File(i) \in Paths
                                    /\ File(i) \in Needed(ImportGraph)
                                    /\ Content(File(i)).status = "ok"
         /\ stack # <<>> => Len(stack) \in DOMAIN stack
         /\ stack = <<>> <=> Len(stack) = 0
<1>1. stack \in Seq([index : DOMAIN root_paths_, imports : Seq(DOMAIN ImportWords)])
  BY DEF LoadInv, Stacked
<1>2. \A i \in DOMAIN stack : stack[i].index \in DOMAIN root_paths_
  <2> DEFINE F == [index : DOMAIN root_paths_, imports : Seq(DOMAIN ImportWords)]
  <2>1. \A i \in DOMAIN stack : stack[i] \in F
    <3>1. stack \in Seq(F) BY <1>1
    <3> HIDE DEF F
    <3> QED BY <3>1
  <2> QED BY <2>1
<1>3. \A i \in DOMAIN stack : File(i) \in DOMAIN disk.files /\ File(i) \in Paths
  BY <1>2 DEF LoadInv, Kept, File, Paths
<1>4. \A i \in DOMAIN stack : /\ File(i) \in Needed(ImportGraph)
                              /\ Content(File(i)).status = "ok"
  BY <1>2 DEF LoadInv, Kept, File
<1> QED BY <1>1, <1>2, <1>3, <1>4

LEMMA NeededImports ==
  ASSUME NEW p \in Needed(ImportGraph), p \in Paths
  PROVE  ImportsOf(p) \subseteq Needed(ImportGraph)
BY NeedsImports, NeedsImportsOfNeeded DEF Needed

\* What load_recursive() is called with is needed.
LEMMA TargetNeeded ==
  ASSUME disk \in Disks, LoadInv, pc = "entering"
  PROVE  /\ stack # <<>> => normalized = target
         /\ IsOpen(normalized) => normalized \in Needed(ImportGraph)
         /\ ~IsOpen(normalized) => ~NoCycles
<1>1. CASE stack = <<>>
  <2>1. normalized = CallFile BY <1>1 DEF LoadInv, Begun, normalized, CallFile
  <2> QED BY <1>1, <2>1 DEF Needed, NoCycles, Readable
<1>2. CASE stack # <<>>
  <2>1. normalized = target BY <1>2 DEF LoadInv, Aimed, normalized
  <2>2. Aim \in ImportsOf(File(Len(stack))) BY <1>2 DEF LoadInv, Aimed
  <2>3. Aim \in Needed(ImportGraph) BY <1>2, <2>2, FrameFiles, NeededImports
  <2>4. ~Readable(Unused) BY DiskAssumption DEF Readable, IsOpen
  <2> QED BY <2>1, <2>3, <2>4 DEF Aim, NoCycles
<1> QED BY <1>1, <1>2

LEMMA EnterVisitingStep ==
  ASSUME Inv, Enter, EnterVisiting
  PROVE  Inv'
<1>1. /\ disk \in Disks /\ LoadInv /\ pc = "entering"
      /\ UNCHANGED <<disk, call, workspace_root_>>
      /\ result'.status # "ok" /\ pc' = "returned"
  BY DEF Inv, Enter, EnterVisiting, Fail, Return, Error, resolver
<1>2. normalized \in Range(root_paths_) /\ normalized \notin Done
  BY <1>1 DEF EnterVisiting, LoadInv, Kept, Done
<1>3. PICK k \in DOMAIN root_paths_ : root_paths_[k] = normalized BY <1>2 DEF Range
<1>4. stack # <<>>
  <2>1. root_paths_ # <<>> BY <1>3, SMT
  <2> QED BY <1>1, <2>1 DEF LoadInv, Begun
<1>5. normalized = target BY <1>1, <1>4, TargetNeeded
<1>6. PICK i \in DOMAIN stack : File(i) = target
  BY <1>1, <1>2, <1>3, <1>5 DEF LoadInv, Stacked, File
<1>7. IsOpen(target) BY <1>1, <1>6, FrameFiles DEF IsOpen
<1>8. target \in ImportsOf(File(Len(stack)))
  BY <1>1, <1>4, <1>7 DEF LoadInv, Aimed, Aim
<1>9. target \in NeededBy(ImportGraph, target)
  <2>1. CASE i = Len(stack) BY <1>1, <1>6, <1>8, <2>1, FrameFiles, NeedsImports
  <2>2. CASE i # Len(stack)
    <3>1. i < Len(stack) /\ Len(stack) \in DOMAIN stack BY <1>1, <1>4, <1>6, <2>2, FrameFiles
    <3>2. File(Len(stack)) \in NeededBy(ImportGraph, target)
      BY <1>1, <1>6, <3>1 DEF LoadInv, Stacked
    <3> QED BY <1>8, <3>2, NeedsImportsOfNeeded
  <2> QED BY <2>1, <2>2
<1>10. ~NoCycles BY <1>1, <1>6, <1>9, FrameFiles DEF NoCycles
<1> QED BY <1>1, <1>10, Refused DEF Inv

LEMMA EnterDoneStep ==
  ASSUME Inv, Enter, EnterDone
  PROVE  Inv'
<1>1. /\ disk \in Disks /\ LoadInv /\ pc = "entering" /\ pc' = "importing"
      /\ UNCHANGED <<disk, call, workspace_root_, target, stack, definitions_, root_paths_,
                     postorder_, states_>>
  BY DEF Inv, Enter, EnterDone, resolver
<1>2. normalized \in Range(root_paths_) /\ normalized \in Done
  BY <1>1 DEF EnterDone, LoadInv, Kept, Done
<1>3. root_paths_ # <<>> BY <1>2 DEF Range
<1>4. stack # <<>> BY <1>1, <1>3 DEF LoadInv, Begun
<1>5. Aim \in Done
  <2>1. normalized = target BY <1>1, <1>4, TargetNeeded
  <2>2. IsOpen(target) BY <1>1, <1>2, <2>1 DEF LoadInv, Kept, Range, IsOpen
  <2> QED BY <1>2, <2>1, <2>2 DEF Aim
<1>6. Begun' BY <1>1, <1>3 DEF LoadInv, Begun, CallFile, weakly_canonical
<1>7. Kept' /\ Stacked' /\ Ordered'
  BY <1>1, SameKept, SameStacked, SameOrdered DEF LoadInv
<1>8. Aimed' BY <1>1 DEF Aimed
<1>9. Pending'
  <2> SUFFICES ASSUME NEW i \in DOMAIN stack, NEW p \in ImportsOf(File(i)),
                      p \notin {Imported(word, File(i)) : word \in ToSet(stack[i].imports)}
               PROVE  p \in Done \/ p \in Ahead(i)'
    <3>1. Done' = Done BY <1>1 DEF Done
    <3>2. \A i : File(i)' = File(i) BY <1>1 DEF File
    <3> QED BY <1>1, <3>1, <3>2, SameGraph DEF Pending
  <2>1. p \in Done \/ p \in Ahead(i) BY <1>1 DEF LoadInv, Pending
  <2> QED BY <1>1, <1>5, <2>1 DEF Ahead, File
<1>10. ~FileReturned' BY <1>1 DEF FileReturned
<1> QED BY <1>1, <1>6, <1>7, <1>8, <1>9, <1>10, NothingReturned DEF Inv, LoadInv

LEMMA EnterMissingStep ==
  ASSUME Inv, Enter, EnterMissing
  PROVE  Inv'
<1>1. /\ disk \in Disks /\ LoadInv /\ pc = "entering"
      /\ UNCHANGED <<disk, call, workspace_root_>>
      /\ result'.status # "ok" /\ pc' = "returned" /\ ~IsOpen(normalized)
  BY DEF Inv, Enter, EnterMissing, Fail, Return, Error, resolver
<1>2. ~NoCycles BY <1>1, TargetNeeded
<1> QED BY <1>1, <1>2, Refused DEF Inv

\* A new file is kept and gets a frame, or the call ends because it cannot be read.
LEMMA EnterNewStep ==
  ASSUME Inv, Enter, EnterNew
  PROVE  Inv'
<1> DEFINE parsed == Parse(disk.files[normalized], normalized.ext, FALSE)
<1>0. PICK m, n : m = Len(stack) /\ n = Len(root_paths_) OBVIOUS
<1>1. /\ disk \in Disks /\ LoadInv /\ pc = "entering"
      /\ UNCHANGED <<disk, call>>
      /\ normalized \notin DOMAIN states_ /\ IsOpen(normalized)
      /\ RegisterLoaded(parsed)
  BY DEF Inv, Enter, EnterNew
<1>2. Content(normalized) = parsed.result BY DEF Content
<1>3. CASE parsed.result.status # "ok"
  <2>1. /\ UNCHANGED <<disk, call, workspace_root_>>
        /\ result' = parsed.result /\ pc' \in {"returned", "spinning"}
    BY <1>1, <1>3 DEF RegisterLoaded, ReturnLoaded, resolver
  <2>2. ~NoCycles BY <1>1, <1>2, <1>3, TargetNeeded DEF NoCycles, Readable
  <2> QED BY <1>1, <1>3, <2>1, <2>2, Refused DEF Inv
<1>4. CASE parsed.result.status = "ok"
  <2> DEFINE words == Content(normalized).v.imports
             frame == [index |-> n + 1, imports |-> words]
  <2>0. /\ root_paths_ \in Seq(DOMAIN disk.files)
        /\ stack \in Seq([index : DOMAIN root_paths_, imports : Seq(DOMAIN ImportWords)])
    BY <1>1 DEF LoadInv, Kept, Stacked
  <2>1. /\ n \in Nat /\ n = Len(root_paths_) /\ DOMAIN root_paths_ = 1..n
        /\ m \in Nat /\ m = Len(stack) /\ DOMAIN stack = 1..m
    BY <1>0, <2>0
  <2>2. Len(definitions_) = n /\ DOMAIN definitions_ = 1..n
    <3> DEFINE D(k) == IF root_paths_[k] \in Done
                         THEN [Content(root_paths_[k]).v EXCEPT !.imports = <<>>]
                       ELSE Content(root_paths_[k]).v
    <3>1. definitions_ = [k \in 1..n |-> D(k)] BY <1>1, <2>1 DEF LoadInv, Kept
    <3> HIDE DEF D
    <3> QED BY <2>1, <3>1
  <2>3. /\ root_paths_' = Append(root_paths_, normalized)
        /\ definitions_' = Append(definitions_, Content(normalized).v)
        /\ states_' = [p \in {normalized} \cup DOMAIN states_ |->
                         IF p = normalized THEN "visiting" ELSE states_[p]]
        /\ stack' = Append(stack, frame)
        /\ pc' = "importing"
        /\ UNCHANGED <<disk, call, workspace_root_, target, postorder_>>
    BY <1>1, <1>2, <1>4, <2>2 DEF RegisterLoaded, Register
  <2>4. words \in Seq(DOMAIN ImportWords)
    BY <1>1, <1>2, <1>4, DiskAssumption DEF IsOpen
  <2>5. /\ DOMAIN root_paths_' = 1..(n + 1) /\ root_paths_'[n + 1] = normalized
        /\ \A k \in 1..n : root_paths_'[k] = root_paths_[k]
        /\ root_paths_' \in Seq(DOMAIN disk.files)
        /\ Range(root_paths_') = {normalized} \cup Range(root_paths_)
        /\ normalized \notin Range(root_paths_)
    <3>1. normalized \in DOMAIN disk.files BY <1>1 DEF IsOpen
    <3>2. /\ DOMAIN root_paths_' = 1..(n + 1) /\ root_paths_'[n + 1] = normalized
          /\ \A k \in 1..n : root_paths_'[k] = root_paths_[k]
          /\ root_paths_' \in Seq(DOMAIN disk.files)
      BY <2>0, <2>1, <2>3, <3>1
    <3>3. Range(root_paths_') = {normalized} \cup Range(root_paths_)
      BY <2>1, <3>2 DEF Range
    <3>4. normalized \notin Range(root_paths_) BY <1>1 DEF LoadInv, Kept
    <3> QED BY <3>2, <3>3, <3>4
  <2>6. Done' = Done
    <3>1. DOMAIN states_' = {normalized} \cup DOMAIN states_ BY <2>3
    <3>2. \A p \in DOMAIN states_ : states_'[p] = states_[p] BY <1>1, <2>3
    <3>3. states_'[normalized] # "done" BY <2>3
    <3> QED BY <3>1, <3>2, <3>3 DEF Done
  <2>7. normalized \notin Done BY <1>1 DEF Done
  <2>8. /\ DOMAIN stack' = 1..(m + 1) /\ Len(stack') = m + 1
        /\ stack'[m + 1].index = n + 1 /\ stack'[m + 1].imports = words
        /\ \A i \in 1..m : stack'[i] = stack[i] /\ stack[i].index \in 1..n
        /\ \A i \in 1..m : File(i)' = File(i)
        /\ File(m + 1)' = normalized
    <3>1. frame \in [index : 1..(n + 1), imports : Seq(DOMAIN ImportWords)] BY <2>1, <2>4
    <3> HIDE DEF frame, words
    <3>2. /\ DOMAIN stack' = 1..(m + 1) /\ Len(stack') = m + 1 /\ stack'[m + 1] = frame
          /\ \A i \in 1..m : stack'[i] = stack[i]
      BY <2>0, <2>1, <2>3
    <3>3. \A i \in 1..m : stack[i].index \in 1..n BY <1>0, <1>1, <2>1, FrameFiles
    <3>4. \A i \in 1..m : File(i)' = File(i) BY <2>5, <3>2, <3>3 DEF File
    <3>5. frame.index = n + 1 /\ frame.imports = words BY DEF frame
    <3>6. File(m + 1)' = normalized BY <2>5, <3>2, <3>5 DEF File
    <3> QED BY <3>2, <3>3, <3>4, <3>5, <3>6
  <2>9. Begun'
    <3>1. root_paths_' # <<>> BY <2>1, <2>5
    <3>2. root_paths_'[1] = CallFile'
      <4>1. CASE n = 0
        <5>1. target = call[1].path BY <1>1, <2>1, <4>1 DEF LoadInv, Begun
        <5> QED BY <2>3, <2>5, <4>1, <5>1, SMTT(30) DEF normalized, CallFile, weakly_canonical
      <4>2. CASE n # 0
        <5>1. root_paths_[1] = CallFile BY <1>1, <2>1, <4>2 DEF LoadInv, Begun
        <5> QED BY <2>1, <2>3, <2>5, <4>2, <5>1, SameNeeded
      <4> QED BY <4>1, <4>2
    <3> QED BY <1>1, <2>3, <3>1, <3>2 DEF LoadInv, Begun
  <2>10. Kept'
    <3>1. root_paths_' \in Seq(DOMAIN disk'.files) BY <2>3, <2>5
    <3>2. IsInjective(root_paths_')
      <4>1. \A k \in 1..n : root_paths_[k] # normalized BY <2>1, <2>5 DEF Range
      <4>2. \A j, k \in 1..n : root_paths_[j] = root_paths_[k] => j = k
        BY <1>1, <2>1 DEF LoadInv, Kept, IsInjective
      <4>3. \A j, k \in 1..(n + 1) : root_paths_'[j] = root_paths_'[k] => j = k
        <5> SUFFICES ASSUME NEW j \in 1..(n + 1), NEW k \in 1..(n + 1),
                            root_paths_'[j] = root_paths_'[k]
                     PROVE  j = k
          OBVIOUS
        <5>1. /\ j = n + 1 \/ (j \in 1..n /\ root_paths_'[j] = root_paths_[j])
              /\ k = n + 1 \/ (k \in 1..n /\ root_paths_'[k] = root_paths_[k])
              /\ root_paths_'[n + 1] = normalized
          BY <2>1, <2>5
        <5> QED BY <4>1, <4>2, <5>1
      <4> QED BY <2>5, <4>3 DEF IsInjective
    <3>3. states_' \in [Range(root_paths_') -> {"visiting", "done"}]
      BY <1>1, <2>3, <2>5 DEF LoadInv, Kept
    <3>4. \A k \in 1..(n + 1) : /\ Content(root_paths_'[k]).status = "ok"
                                /\ root_paths_'[k] \in Needed(ImportGraph)
      <4>1. ASSUME NEW k \in 1..n
            PROVE  /\ Content(root_paths_'[k]).status = "ok"
                   /\ root_paths_'[k] \in Needed(ImportGraph)
        <5>1. Content(root_paths_[k]).status = "ok" /\ root_paths_[k] \in Needed(ImportGraph)
          BY <1>1, <2>1 DEF LoadInv, Kept
        <5>2. root_paths_'[k] = root_paths_[k] BY <2>5
        <5> QED BY <5>1, <5>2
      <4>2. Content(normalized).status = "ok" BY <1>2, <1>4
      <4>3. normalized \in Needed(ImportGraph) BY <1>1, TargetNeeded
      <4>4. root_paths_'[n + 1] = normalized BY <2>5
      <4>5. \A k \in 1..(n + 1) : k = n + 1 \/ k \in 1..n BY <2>1
      <4> QED BY <4>1, <4>2, <4>3, <4>4, <4>5
    <3> DEFINE D(p) == IF p \in Done THEN [Content(p).v EXCEPT !.imports = <<>>]
                       ELSE Content(p).v
    <3>5. definitions_' = [k \in 1..(n + 1) |-> D(root_paths_'[k])]
      <4>1. definitions_ = [k \in 1..n |-> D(root_paths_[k])] BY <1>1, <2>1 DEF LoadInv, Kept
      <4>2. D(normalized) = Content(normalized).v BY <2>7
      <4>3. definitions_' = Append(definitions_, D(normalized)) BY <2>3, <4>2
      <4> HIDE DEF D
      <4> DEFINE S == {D(root_paths_'[k]) : k \in 1..(n + 1)}
      <4>4. \A k \in 1..n : definitions_[k] = D(root_paths_'[k]) BY <2>5, <4>1
      <4>5. \A k \in 1..n : definitions_[k] \in S BY <2>1, <4>4
      <4>6. definitions_ = [k \in 1..n |-> definitions_[k]] BY <4>1
      <4>7. definitions_ \in Seq(S) BY <2>1, <4>5, <4>6, SeqFromValues
      <4>8. D(normalized) \in S
        <5>1. n + 1 \in 1..(n + 1) /\ root_paths_'[n + 1] = normalized BY <2>1, <2>5
        <5> QED BY <5>1
      <4> HIDE DEF S
      <4>9. /\ definitions_' = [k \in 1..(n + 1) |-> definitions_'[k]]
            /\ \A k \in 1..n : definitions_'[k] = definitions_[k]
            /\ definitions_'[n + 1] = D(normalized)
        <5> DEFINE last == D(normalized)
        <5>1. definitions_' = Append(definitions_, last) /\ last \in S BY <4>3, <4>8
        <5> HIDE DEF last
        <5>2. /\ definitions_' \in Seq(S) /\ Len(definitions_') = n + 1
              /\ \A k \in 1..n : definitions_'[k] = definitions_[k]
              /\ definitions_'[n + 1] = last
          BY <2>1, <2>2, <4>7, <5>1
        <5>3. definitions_' = [k \in 1..(n + 1) |-> definitions_'[k]] BY <5>2
        <5> QED BY <5>2, <5>3 DEF last
      <4>10. \A k \in 1..(n + 1) : definitions_'[k] = D(root_paths_'[k])
        <5>1. \A k \in 1..(n + 1) : k = n + 1 \/ k \in 1..n BY <2>1
        <5>2. root_paths_'[n + 1] = normalized BY <2>5
        <5> QED BY <4>4, <4>9, <5>1, <5>2
      <4> QED BY <4>9, <4>10
    <3>6. \A k : Content(root_paths_[k])' = Content(root_paths_'[k]) BY <2>3 DEF Content
    <3>7. Needed(ImportGraph)' = Needed(ImportGraph) BY <2>3, SameNeeded
    <3>8. \A k \in DOMAIN root_paths_' : (Content(root_paths_[k]).status = "ok"
                                          /\ root_paths_[k] \in Needed(ImportGraph))'
      BY <2>5, <3>4, <3>6, <3>7
    <3>9. (definitions_ = [k \in DOMAIN root_paths_ |->
                            IF root_paths_[k] \in Done
                              THEN [Content(root_paths_[k]).v EXCEPT !.imports = <<>>]
                            ELSE Content(root_paths_[k]).v])'
      BY <2>5, <2>6, <3>5, <3>6
    <3> QED BY <3>1, <3>2, <3>3, <3>8, <3>9 DEF Kept
  <2>11. Stacked'
    <3>1. stack' \in Seq([index : DOMAIN root_paths_', imports : Seq(DOMAIN ImportWords)])
      <4> DEFINE F == [index : 1..(n + 1), imports : Seq(DOMAIN ImportWords)]
      <4>1. frame \in F BY <2>1, <2>4
      <4>2. stack \in Seq(F)
        <5>1. stack \in Seq([index : 1..n, imports : Seq(DOMAIN ImportWords)]) BY <2>0, <2>1
        <5>2. [index : 1..n, imports : Seq(DOMAIN ImportWords)] \subseteq F BY <2>1
        <5> HIDE DEF F
        <5> QED BY <5>1, <5>2, LargerSeq
      <4> HIDE DEF F, frame
      <4>3. stack' \in Seq(F) BY <2>3, <4>1, <4>2
      <4> QED BY <2>5, <4>3 DEF F
    <3>2. \A i, j \in DOMAIN stack' :
            i < j => stack'[i].index < stack'[j].index /\ File(j)' \in NeededBy(ImportGraph, File(i)')
      <4> SUFFICES ASSUME NEW i \in 1..(m + 1), NEW j \in 1..(m + 1), i < j
                   PROVE  /\ stack'[i].index < stack'[j].index
                          /\ File(j)' \in NeededBy(ImportGraph, File(i)')
        BY <2>8
      <4>1. i \in 1..m BY <2>1
      <4>2. CASE j \in 1..m
        <5>1. stack[i].index < stack[j].index /\ File(j) \in NeededBy(ImportGraph, File(i))
          BY <1>1, <2>1, <4>1, <4>2 DEF LoadInv, Stacked
        <5> QED BY <2>8, <4>1, <4>2, <5>1
      <4>3. CASE j = m + 1
        <5>1. stack'[i].index < stack'[j].index BY <2>1, <2>8, <4>1, <4>3
        <5>2. stack # <<>> BY <2>1, <4>1
        <5>3. normalized \in ImportsOf(File(m))
          BY <1>1, <2>1, <5>2, TargetNeeded DEF LoadInv, Aimed, Aim
        <5>4. CASE i = m
          BY <1>1, <2>1, <2>8, <4>3, <5>3, <5>4, FrameFiles, NeedsImports
        <5>5. CASE i # m
          <6>1. File(m) \in NeededBy(ImportGraph, File(i))
            <7>1. i < m /\ m \in DOMAIN stack BY <2>1, <4>1, <5>5
            <7> QED BY <1>1, <2>1, <4>1, <7>1 DEF LoadInv, Stacked
          <6> QED BY <2>1, <2>8, <4>1, <4>3, <5>1, <5>3, <6>1, NeedsImportsOfNeeded
        <5> QED BY <5>1, <5>4, <5>5
      <4> QED BY <2>1, <4>2, <4>3
    <3>3. \A i, j \in DOMAIN stack' :
            i < j => stack'[i].index < stack'[j].index /\ (File(j) \in NeededBy(ImportGraph, File(i)))'
      <4>1. \A i, j : NeededBy(ImportGraph, File(i))' = NeededBy(ImportGraph, File(i)')
        BY <2>3, SameGraph DEF NeededBy, Closed, Paths
      <4> QED BY <3>2, <4>1
    <3>4. \A k \in DOMAIN root_paths_' :
            root_paths_'[k] \notin Done' <=> \E i \in DOMAIN stack' : stack'[i].index = k
      <4>1. ASSUME NEW k \in 1..n
            PROVE  root_paths_[k] \notin Done <=> \E i \in 1..m : stack[i].index = k
        BY <1>1, <2>1 DEF LoadInv, Stacked
      <4>2. \A i \in DOMAIN stack' : stack'[i].index = n + 1 <=> i = m + 1
        BY <2>1, <2>8
      <4>3. ASSUME NEW k \in 1..n
            PROVE  root_paths_'[k] \notin Done' <=> \E i \in DOMAIN stack' : stack'[i].index = k
        <5>1. (\E i \in 1..m : stack[i].index = k) <=> \E i \in 1..(m + 1) : stack'[i].index = k
          BY <2>1, <2>8, <4>2
        <5> QED BY <2>5, <2>6, <2>8, <4>1, <5>1
      <4>4. /\ root_paths_'[n + 1] \notin Done'
            /\ \E i \in DOMAIN stack' : stack'[i].index = n + 1
        BY <2>1, <2>5, <2>6, <2>7, <2>8
      <4> QED BY <2>1, <2>5, <4>3, <4>4
    <3>5. \A i \in DOMAIN stack' : ToSet(stack'[i].imports) \subseteq ToSet(Content(File(i)).v.imports)'
      <4>1. \A i : Content(File(i))' = Content(File(i)') BY <2>3 DEF Content
      <4>2. \A i \in 1..m : ToSet(stack[i].imports) \subseteq ToSet(Content(File(i)).v.imports)
        BY <1>1, <2>1 DEF LoadInv, Stacked
      <4>3. stack'[m + 1].imports = Content(File(m + 1)').v.imports BY <2>8
      <4>4. \A i \in 1..(m + 1) : i = m + 1 \/ i \in 1..m BY <2>1
      <4>5. \A i \in 1..(m + 1) : ToSet(stack'[i].imports) \subseteq ToSet(Content(File(i)').v.imports)
        BY <2>8, <4>2, <4>3, <4>4
      <4> QED BY <2>8, <4>1, <4>5 DEF ToSet
    <3> QED BY <3>1, <3>3, <3>4, <3>5 DEF Stacked
  <2>12. Aimed' BY <2>3 DEF Aimed
  <2>13. Pending'
    <3> SUFFICES ASSUME NEW i \in 1..(m + 1), NEW p \in ImportsOf(File(i)'),
                        p \notin {Imported(word, File(i)') : word \in ToSet(stack'[i].imports)}
                 PROVE  p \in Done \/ p \in Ahead(i)'
      <4>1. \A i : ImportsOf(File(i))' = ImportsOf(File(i)')
        BY <2>3, SameGraph
      <4>2. \A word, i : Imported(word, File(i))' = Imported(word, File(i)')
        BY <2>3, SameGraph
      <4> QED BY <2>6, <2>8, <4>1, <4>2 DEF Pending
    <3>1. CASE i = m + 1
      <4>1. ImportsOf(normalized) = {Imported(word, normalized) : word \in ToSet(words)}
        BY <1>1, <1>2, <1>4 DEF ImportsOf
      <4> QED BY <2>8, <3>1, <4>1
    <3>2. CASE i \in 1..m
      <4>1. p \in Done \/ p \in Ahead(i)
        BY <1>1, <2>1, <2>8, <3>2 DEF LoadInv, Pending
      <4>2. CASE i = m
        <5>1. Ahead(i) = {normalized}
          <6>1. stack # <<>> BY <2>1, <3>2
          <6> QED BY <1>1, <2>1, <4>2, <6>1, TargetNeeded DEF Ahead, Aim
        <5>2. Ahead(i)' = {normalized} BY <2>1, <2>8, <4>2 DEF Ahead
        <5> QED BY <4>1, <5>1, <5>2
      <4>3. CASE i # m
        <5>1. Ahead(i) = {File(i + 1)} BY <2>1, <3>2, <4>3 DEF Ahead
        <5>2. Ahead(i)' = {File(i + 1)'} BY <2>1, <2>8, <3>2, <4>3 DEF Ahead
        <5>3. File(i + 1)' = File(i + 1) BY <2>1, <2>8, <3>2, <4>3
        <5> QED BY <4>1, <5>1, <5>2, <5>3
      <4> QED BY <4>2, <4>3
    <3> QED BY <2>1, <3>1, <3>2
  <2>14. Ordered'
    <3>1. postorder_' \in Seq(DOMAIN root_paths_') /\ IsInjective(postorder_')
      <4>1. postorder_ \in Seq(1..n) /\ IsInjective(postorder_)
        BY <1>1, <2>1 DEF LoadInv, Ordered
      <4>2. postorder_ \in Seq(1..(n + 1))
        <5>1. 1..n \subseteq 1..(n + 1) BY <2>1
        <5> QED BY <4>1, <5>1, LargerSeq
      <4> QED BY <2>3, <2>5, <4>1, <4>2
    <3>2. Order' = Order
      <4>1. postorder_ \in Seq(1..n) BY <1>1, <2>1 DEF LoadInv, Ordered
      <4>2. \A k \in DOMAIN postorder_ : postorder_[k] \in 1..n BY <2>1, <4>1
      <4>3. \A k \in DOMAIN postorder_ : root_paths_'[postorder_[k]] = root_paths_[postorder_[k]]
        BY <2>5, <4>2
      <4> QED BY <2>3, <4>3 DEF Order
    <3>3. \A k : ImportsOf(Order[k])' = ImportsOf(Order[k])
      BY <2>3, <3>2, SameGraph
    <3> QED BY <1>1, <2>6, <3>1, <3>2, <3>3 DEF LoadInv, Ordered
  <2>15. ~FileReturned' BY <2>3 DEF FileReturned
  <2> QED
    BY <1>1, <2>3, <2>9, <2>10, <2>11, <2>12, <2>13, <2>14, <2>15, NothingReturned DEF Inv, LoadInv
<1> QED BY <1>3, <1>4

-----------------------------------------------------------------------------
\* The loop over the imports.

LEMMA NextImportStep ==
  ASSUME Inv, NextImport
  PROVE  Inv'
<1>0. PICK m : m = Len(stack) OBVIOUS
<1> DEFINE word == Head(stack[m].imports)
           resolved == resolve_import_path(word, File(m))
<1>1. /\ disk \in Disks /\ LoadInv /\ pc = "importing" /\ stack # <<>> /\ UNCHANGED <<disk, call>>
      /\ m \in Nat /\ m \in DOMAIN stack /\ DOMAIN stack = 1..m
      /\ Top = stack[m] /\ Top.imports # <<>>
      /\ IF resolved = <<>> THEN Fail
         ELSE /\ target' = resolved[1]
              /\ stack' = Append(Front(stack), ImportNext(stack[m]))
              /\ pc' = "entering"
              /\ UNCHANGED <<workspace_root_, definitions_, root_paths_, postorder_, states_,
                             result, cursor>>
  <2>1. /\ disk \in Disks /\ LoadInv /\ pc = "importing" /\ stack # <<>> /\ UNCHANGED <<disk, call>>
    BY DEF Inv, NextImport
  <2>2. Top = stack[m] BY <1>0 DEF Top, Last
  <2>3. root_paths_[Top.index] = File(m) BY <2>2 DEF File
  <2> QED BY <1>0, <2>1, <2>2, <2>3, FrameFiles DEF NextImport
<1>2. \A i \in DOMAIN stack : stack[i].imports \in Seq(DOMAIN ImportWords)
  <2> DEFINE F == [index : DOMAIN root_paths_, imports : Seq(DOMAIN ImportWords)]
  <2>1. stack \in Seq(F) BY <1>1 DEF LoadInv, Stacked
  <2>2. \A i \in DOMAIN stack : stack[i] \in F
    <3> HIDE DEF F
    <3> QED BY <2>1
  <2> QED BY <2>2
<1>3. ToSet(stack[m].imports) = {word} \cup ToSet(Tail(stack[m].imports))
  <2> DEFINE s == stack[m].imports
  <2>1. s \in Seq(DOMAIN ImportWords) /\ s # <<>> BY <1>1, <1>2
  <2> HIDE DEF s
  <2>2. /\ Len(s) \in Nat \ {0} /\ DOMAIN s = 1..Len(s) /\ Head(s) = s[1]
        /\ DOMAIN Tail(s) = 1..(Len(s) - 1)
        /\ \A k \in 1..(Len(s) - 1) : Tail(s)[k] = s[k + 1]
    BY <2>1
  <2>3. \A k \in 1..Len(s) : k = 1 \/ k - 1 \in 1..(Len(s) - 1) BY <2>2
  <2>4. ToSet(s) = {Head(s)} \cup ToSet(Tail(s))
    <3>1. ASSUME NEW k \in 1..Len(s) PROVE s[k] \in {Head(s)} \cup ToSet(Tail(s))
      <4>1. CASE k = 1 BY <2>2, <4>1
      <4>2. CASE k # 1
        <5>1. k - 1 \in 1..(Len(s) - 1) BY <2>3, <4>2
        <5>2. Tail(s)[k - 1] = s[k] BY <2>2, <5>1
        <5> QED BY <2>2, <5>1, <5>2 DEF ToSet
      <4> QED BY <4>1, <4>2
    <3>2. ASSUME NEW k \in 1..(Len(s) - 1) PROVE Tail(s)[k] \in ToSet(s)
      BY <2>2 DEF ToSet
    <3>3. Head(s) \in ToSet(s) BY <2>2 DEF ToSet
    <3> QED BY <2>2, <3>1, <3>2, <3>3 DEF ToSet
  <2> QED BY <2>4 DEF s
<1>4. Imported(word, File(m)) \in ImportsOf(File(m))
  <2>1. word \in ToSet(Content(File(m)).v.imports) BY <1>1, <1>3 DEF LoadInv, Stacked
  <2>2. IsOpen(File(m)) /\ Content(File(m)).status = "ok" BY <1>1, FrameFiles DEF IsOpen
  <2> QED BY <2>1, <2>2 DEF ImportsOf
<1>5. CASE resolved = <<>>
  <2>1. /\ UNCHANGED <<disk, call, workspace_root_>>
        /\ result'.status # "ok" /\ pc' = "returned"
    BY <1>1, <1>5 DEF Fail, Return, Error, resolver
  <2>2. Imported(word, File(m)) = Unused BY <1>5 DEF Imported
  <2>3. Unused \in Needed(ImportGraph) BY <1>1, <1>4, <2>2, FrameFiles, NeededImports
  <2>4. ~Readable(Unused) BY <1>1, DiskAssumption DEF Readable, IsOpen
  <2> QED BY <1>1, <2>1, <2>3, <2>4, Refused DEF Inv, NoCycles
<1>6. CASE resolved # <<>>
  <2>1. /\ target' = resolved[1] /\ pc' = "entering"
        /\ stack' = Append(Front(stack), [stack[m] EXCEPT !.imports = Tail(@)])
        /\ UNCHANGED <<disk, call, workspace_root_, definitions_, root_paths_, postorder_, states_>>
    BY <1>1, <1>6 DEF ImportNext
  <2>2. /\ stack' \in Seq([index : DOMAIN root_paths_, imports : Seq(DOMAIN ImportWords)])
        /\ Len(stack') = m /\ DOMAIN stack' = 1..m
        /\ \A i \in 1..m : i # m => stack'[i] = stack[i]
        /\ stack'[m].index = stack[m].index /\ stack'[m].imports = Tail(stack[m].imports)
    <3> DEFINE F == [index : DOMAIN root_paths_, imports : Seq(DOMAIN ImportWords)]
               frame == [stack[m] EXCEPT !.imports = Tail(@)]
    <3>1. stack \in Seq(F) BY <1>1 DEF LoadInv, Stacked
    <3>2. stack[m] \in F
      <4> HIDE DEF F
      <4> QED BY <1>1, <3>1
    <3>3. Tail(stack[m].imports) \in Seq(DOMAIN ImportWords)
      <4> DEFINE s == stack[m].imports
      <4>1. s \in Seq(DOMAIN ImportWords) /\ s # <<>> BY <1>1, <1>2
      <4> HIDE DEF s
      <4>2. Tail(s) \in Seq(DOMAIN ImportWords) BY <4>1
      <4> QED BY <4>2 DEF s
    <3>4. /\ frame \in F /\ frame.index = stack[m].index
          /\ frame.imports = Tail(stack[m].imports)
      BY <3>2, <3>3
    <3>5. stack' = Append(SubSeq(stack, 1, m - 1), frame) BY <1>0, <2>1 DEF Front
    <3> HIDE DEF F, frame
    <3>6. /\ SubSeq(stack, 1, m - 1) \in Seq(F) /\ Len(SubSeq(stack, 1, m - 1)) = m - 1
          /\ \A i \in 1..(m - 1) : SubSeq(stack, 1, m - 1)[i] = stack[i]
      BY <1>0, <1>1, <3>1
    <3>7. /\ stack' \in Seq(F) /\ Len(stack') = m /\ DOMAIN stack' = 1..m /\ stack'[m] = frame
          /\ \A i \in 1..(m - 1) : stack'[i] = stack[i]
      BY <1>1, <3>4, <3>5, <3>6
    <3>8. \A i \in 1..m : i # m => i \in 1..(m - 1) BY <1>1
    <3> QED BY <3>4, <3>7, <3>8 DEF F
  <2>3. \A i \in 1..m : File(i)' = File(i) BY <2>1, <2>2 DEF File
  <2>4. Begun'
    <3>1. root_paths_ # <<>>
      <4>1. stack[m].index \in DOMAIN root_paths_ BY <1>1, FrameFiles
      <4> QED BY <4>1
    <3>2. stack' # <<>> BY <1>1, <2>2
    <3>3. CallFile' = CallFile BY <2>1, SameNeeded
    <3> QED BY <1>1, <2>1, <3>1, <3>2, <3>3 DEF LoadInv, Begun
  <2>5. Kept' /\ Ordered' BY <1>1, <2>1, SameKept, SameOrdered DEF LoadInv
  <2>6. Stacked'
    <3>1. Done' = Done BY <2>1 DEF Done
    <3>2. \A i \in 1..m : stack'[i].index = stack[i].index BY <2>2
    <3>3. \A i \in 1..m : ToSet(stack'[i].imports) \subseteq ToSet(stack[i].imports)
      BY <1>3, <2>2
    <3>4. \A i, j \in 1..m : i < j => /\ stack[i].index < stack[j].index
                                      /\ File(j) \in NeededBy(ImportGraph, File(i))
      BY <1>1 DEF LoadInv, Stacked
    <3>5. \A i, j \in DOMAIN stack' : i < j => /\ stack'[i].index < stack'[j].index
                                               /\ (File(j) \in NeededBy(ImportGraph, File(i)))'
      BY <2>1, <2>2, <2>3, <3>2, <3>4, SameGraph
    <3>6. \A k \in DOMAIN root_paths_ :
            root_paths_[k] \notin Done <=> \E i \in 1..m : stack[i].index = k
      BY <1>1 DEF LoadInv, Stacked
    <3>7. \A k \in DOMAIN root_paths_' :
            root_paths_'[k] \notin Done' <=> \E i \in DOMAIN stack' : stack'[i].index = k
      <4>1. \A k : (\E i \in 1..m : stack'[i].index = k) <=> \E i \in 1..m : stack[i].index = k
        BY <3>2
      <4>2. root_paths_' = root_paths_ /\ DOMAIN stack' = 1..m BY <2>1, <2>2
      <4> QED BY <3>1, <3>6, <4>1, <4>2
    <3>8. \A i \in 1..m : ToSet(stack[i].imports) \subseteq ToSet(Content(File(i)).v.imports)
      BY <1>1 DEF LoadInv, Stacked
    <3>9. \A i \in DOMAIN stack' :
            ToSet(stack'[i].imports) \subseteq ToSet(Content(File(i))'.v.imports)
      BY <2>1, <2>2, <2>3, <3>3, <3>8, SameGraph, ZenonT(30)
    <3> QED BY <2>1, <2>2, <3>5, <3>7, <3>9 DEF Stacked, ToSet
  <2>7. Aim' = Imported(word, File(m)) BY <1>6, <2>1 DEF Aim, Imported, IsOpen
  <2>8. Aimed'
    <3>1. weakly_canonical(target') = target' BY <1>1, <1>6, <2>1, Canonical
    <3>2. weakly_canonical(target)' = weakly_canonical(target') BY <2>1 DEF weakly_canonical
    <3>3. ImportsOf(File(Len(stack)))' = ImportsOf(File(m))
      BY <1>1, <2>1, <2>2, <2>3, SameGraph
    <3> QED BY <1>4, <2>7, <3>1, <3>2, <3>3 DEF Aimed
  <2>9. Pending'
    <3> SUFFICES ASSUME NEW i \in 1..m, NEW p \in ImportsOf(File(i)),
                        p \notin {Imported(w, File(i)) : w \in ToSet(stack'[i].imports)}
                 PROVE  p \in Done \/ p \in Ahead(i)'
      <4>1. Done' = Done BY <2>1 DEF Done
      <4>2. \A i \in 1..m : ImportsOf(File(i))' = ImportsOf(File(i))
        BY <2>1, <2>3, SameGraph
      <4>3. \A w, i : i \in 1..m => Imported(w, File(i))' = Imported(w, File(i))
        BY <2>1, <2>3, SameGraph
      <4> QED BY <2>2, <4>1, <4>2, <4>3 DEF Pending
    <3>1. \/ p \in {Imported(w, File(i)) : w \in ToSet(stack[i].imports)}
          \/ p \in Done \/ p \in Ahead(i)
      BY <1>1 DEF LoadInv, Pending
    <3>2. CASE i # m
      <4>1. i < Len(stack) /\ i < Len(stack') /\ i + 1 \in 1..m BY <1>0, <1>1, <2>2, <3>2
      <4>2. stack'[i] = stack[i] BY <2>2, <3>2
      <4>3. Ahead(i)' = Ahead(i) BY <2>3, <4>1 DEF Ahead
      <4> QED BY <3>1, <4>2, <4>3
    <3>3. CASE i = m
      <4>1. Ahead(i) = {} BY <1>0, <1>1, <3>3 DEF Ahead
      <4>2. Ahead(i)' = {Imported(word, File(m))} BY <1>1, <2>1, <2>2, <2>7, <3>3 DEF Ahead
      <4> QED BY <1>3, <2>2, <3>1, <3>3, <4>1, <4>2
    <3> QED BY <3>2, <3>3
  <2>10. ~FileReturned' BY <2>1 DEF FileReturned
  <2> QED BY <1>1, <2>1, <2>4, <2>5, <2>6, <2>8, <2>9, <2>10, NothingReturned DEF Inv, LoadInv
<1> QED BY <1>5, <1>6

-----------------------------------------------------------------------------
\* The end of a frame.

LEMMA LeaveStep ==
  ASSUME Inv, Leave
  PROVE  Inv'
<1>0. PICK m, n : m = Len(stack) /\ n = Len(root_paths_) OBVIOUS
<1>1. PICK k : k = stack[m].index OBVIOUS
<1>2. PICK p : p = File(m) OBVIOUS
<1>3. /\ disk \in Disks /\ LoadInv /\ pc = "importing" /\ stack # <<>>
      /\ stack[m].imports = <<>>
      /\ definitions_' = [definitions_ EXCEPT ![k].imports = <<>>]
      /\ states_' = [states_ EXCEPT ![root_paths_[k]] = "done"]
      /\ postorder_' = Append(postorder_, k)
      /\ stack' = SubSeq(stack, 1, m - 1)
      /\ UNCHANGED <<disk, call, pc, workspace_root_, target, root_paths_>>
  <2>1. Top = stack[m] BY <1>0 DEF Top, Last
  <2> QED BY <1>0, <1>1, <2>1 DEF Inv, Leave, Front
<1>4. /\ m \in Nat /\ m \in DOMAIN stack /\ DOMAIN stack = 1..m
      /\ stack \in Seq([index : DOMAIN root_paths_, imports : Seq(DOMAIN ImportWords)])
      /\ n \in Nat /\ DOMAIN root_paths_ = 1..n
      /\ k \in 1..n /\ root_paths_[k] = p
  <2>1. stack \in Seq([index : DOMAIN root_paths_, imports : Seq(DOMAIN ImportWords)])
    BY <1>3 DEF LoadInv, Stacked
  <2>2. root_paths_ \in Seq(DOMAIN disk.files) BY <1>3 DEF LoadInv, Kept
  <2>3. m \in Nat /\ m \in DOMAIN stack /\ DOMAIN stack = 1..m
    BY <1>0, <1>3, FrameFiles
  <2>4. n \in Nat /\ DOMAIN root_paths_ = 1..n BY <1>0, <2>2
  <2>5. k \in DOMAIN root_paths_ BY <1>1, <1>3, <2>3, FrameFiles
  <2>6. root_paths_[k] = p BY <1>1, <1>2 DEF File
  <2> QED BY <2>1, <2>3, <2>4, <2>5, <2>6
<1>5. p \in Range(root_paths_) /\ p \notin Done
  <2>1. p \in Range(root_paths_) BY <1>4 DEF Range
  <2>2. root_paths_[k] \notin Done BY <1>1, <1>3, <1>4 DEF LoadInv, Stacked
  <2> QED BY <1>4, <2>1, <2>2
<1>6. DOMAIN states_' = DOMAIN states_ /\ Done' = {p} \cup Done
  <2>1. DOMAIN states_ = Range(root_paths_) BY <1>3 DEF LoadInv, Kept
  <2>2. states_' = [q \in DOMAIN states_ |-> IF q = p THEN "done" ELSE states_[q]]
    BY <1>3, <1>4, <1>5, <2>1
  <2> QED BY <1>5, <2>1, <2>2 DEF Done
<1>7. \A j \in 1..n : root_paths_[j] = p => j = k
  BY <1>3, <1>4 DEF LoadInv, Kept, IsInjective
<1>8. /\ stack' \in Seq([index : DOMAIN root_paths_, imports : Seq(DOMAIN ImportWords)])
      /\ Len(stack') = m - 1 /\ DOMAIN stack' = 1..(m - 1)
      /\ \A i \in 1..(m - 1) : i \in 1..m /\ i # m /\ stack'[i] = stack[i]
  <2> DEFINE F == [index : DOMAIN root_paths_, imports : Seq(DOMAIN ImportWords)]
  <2>1. stack \in Seq(F) BY <1>4
  <2>2. stack' = SubSeq(stack, 1, m - 1) BY <1>3
  <2> HIDE DEF F
  <2>3. /\ stack' \in Seq(F)
        /\ Len(stack') = m - 1 /\ DOMAIN stack' = 1..(m - 1)
        /\ \A i \in 1..(m - 1) : i \in 1..m /\ i # m /\ stack'[i] = stack[i]
    BY <1>0, <1>4, <2>1, <2>2
  <2> QED BY <2>3 DEF F
<1>9. \A i \in 1..(m - 1) : File(i)' = File(i) BY <1>3, <1>8 DEF File
<1>10. Begun'
  <2>1. root_paths_ # <<>> BY <1>4
  <2>2. CallFile' = CallFile BY <1>3, SameNeeded
  <2> QED BY <1>3, <2>1, <2>2 DEF LoadInv, Begun
<1>11. Kept'
  <2>1. states_' \in [Range(root_paths_) -> {"visiting", "done"}]
    BY <1>3 DEF LoadInv, Kept
  <2> DEFINE D(j) == IF root_paths_[j] \in Done
                       THEN [Content(root_paths_[j]).v EXCEPT !.imports = <<>>]
                     ELSE Content(root_paths_[j]).v
             E(j) == IF root_paths_[j] \in Done'
                       THEN [Content(root_paths_[j]).v EXCEPT !.imports = <<>>]
                     ELSE Content(root_paths_[j]).v
  <2>2. definitions_ = [j \in 1..n |-> D(j)] BY <1>3, <1>4 DEF LoadInv, Kept
  <2>3. definitions_' = [j \in 1..n |-> E(j)]
    <3>1. \A j \in 1..n : j # k => E(j) = D(j)
      <4>1. \A j \in 1..n : j # k => (root_paths_[j] \in Done' <=> root_paths_[j] \in Done)
        BY <1>6, <1>7
      <4> QED BY <4>1
    <3>2. E(k) = [D(k) EXCEPT !.imports = <<>>] BY <1>4, <1>5, <1>6
    <3>3. definitions_' = [definitions_ EXCEPT ![k] = [D(k) EXCEPT !.imports = <<>>]]
      <4>1. definitions_[k] = D(k) BY <1>4, <2>2
      <4>2. definitions_' = [definitions_ EXCEPT ![k] = [definitions_[k] EXCEPT !.imports = <<>>]]
        BY <1>3
      <4> HIDE DEF D
      <4> QED BY <4>1, <4>2
    <3>4. definitions_' = [definitions_ EXCEPT ![k] = E(k)] BY <3>2, <3>3
    <3> HIDE DEF D, E
    <3> QED BY <1>4, <2>2, <3>1, <3>4
  <2>4. (definitions_ = [j \in DOMAIN root_paths_ |->
                          IF root_paths_[j] \in Done
                            THEN [Content(root_paths_[j]).v EXCEPT !.imports = <<>>]
                          ELSE Content(root_paths_[j]).v])'
    BY <1>3, <1>4, <2>3, SameGraph
  <2>5. \A j \in DOMAIN root_paths_' : (Content(root_paths_[j]).status = "ok"
                                        /\ root_paths_[j] \in Needed(ImportGraph))'
    <3>1. \A j \in DOMAIN root_paths_ : /\ Content(root_paths_[j]).status = "ok"
                                        /\ root_paths_[j] \in Needed(ImportGraph)
      BY <1>3 DEF LoadInv, Kept
    <3> QED BY <1>3, <3>1, SameGraph, SameNeeded
  <2> QED BY <1>3, <2>1, <2>4, <2>5 DEF LoadInv, Kept
<1>12. Stacked'
  <2>1. \A i, j \in 1..m : i < j => /\ stack[i].index < stack[j].index
                                    /\ File(j) \in NeededBy(ImportGraph, File(i))
    BY <1>3, <1>4 DEF LoadInv, Stacked
  <2>2. \A i, j \in DOMAIN stack' : i < j => /\ stack'[i].index < stack'[j].index
                                             /\ (File(j) \in NeededBy(ImportGraph, File(i)))'
    BY <1>3, <1>8, <1>9, <2>1, SameGraph
  <2>3. \A j \in DOMAIN root_paths_' :
          root_paths_'[j] \notin Done' <=> \E i \in DOMAIN stack' : stack'[i].index = j
    <3> SUFFICES ASSUME NEW j \in 1..n
                 PROVE  root_paths_[j] \notin Done' <=> \E i \in 1..(m - 1) : stack[i].index = j
      <4>1. \A j : (\E i \in DOMAIN stack' : stack'[i].index = j)
                     <=> \E i \in 1..(m - 1) : stack[i].index = j
        BY <1>8
      <4>2. root_paths_' = root_paths_ /\ DOMAIN root_paths_ = 1..n BY <1>3, <1>4
      <4> QED BY <4>1, <4>2
    <3>1. root_paths_[j] \notin Done <=> \E i \in 1..m : stack[i].index = j
      BY <1>3, <1>4 DEF LoadInv, Stacked
    <3>2. \A i \in 1..m : i = m \/ i \in 1..(m - 1) BY <1>4
    <3>3. \A i \in 1..(m - 1) : stack[i].index # k
      <4> SUFFICES ASSUME NEW i \in 1..(m - 1) PROVE stack[i].index # k OBVIOUS
      <4>1. i \in 1..m /\ m \in 1..m /\ i < m BY <1>4
      <4>2. stack[i].index < stack[m].index BY <2>1, <4>1
      <4>3. stack[i].index \in 1..n BY <1>3, <1>4, <4>1, FrameFiles
      <4> QED BY <1>1, <1>4, <4>2, <4>3
    <3>4. CASE j = k
      BY <1>4, <1>6, <3>3, <3>4
    <3>5. CASE j # k
      <4>1. root_paths_[j] \notin Done' <=> root_paths_[j] \notin Done BY <1>6, <1>7, <3>5
      <4> QED BY <1>1, <1>8, <3>1, <3>2, <3>5, <4>1
    <3> QED BY <3>4, <3>5
  <2>4. \A i \in 1..m : ToSet(stack[i].imports) \subseteq ToSet(Content(File(i)).v.imports)
    BY <1>3, <1>4 DEF LoadInv, Stacked
  <2>5. \A i \in DOMAIN stack' :
          ToSet(stack'[i].imports) \subseteq ToSet(Content(File(i))'.v.imports)
    BY <1>3, <1>8, <1>9, <2>4, SameGraph
  <2> QED BY <1>3, <1>8, <2>2, <2>3, <2>5 DEF Stacked, ToSet
<1>13. Aimed' BY <1>3 DEF Aimed
<1>14. Pending'
  <2> SUFFICES ASSUME NEW i \in 1..(m - 1), NEW q \in ImportsOf(File(i)),
                      q \notin {Imported(w, File(i)) : w \in ToSet(stack[i].imports)}
               PROVE  q \in Done' \/ q \in Ahead(i)'
    <3>1. \A i \in 1..(m - 1) : ImportsOf(File(i))' = ImportsOf(File(i))
      BY <1>3, <1>9, SameGraph
    <3>2. \A w, i : i \in 1..(m - 1) => Imported(w, File(i))' = Imported(w, File(i))
      BY <1>3, <1>9, SameGraph
    <3> QED BY <1>8, <3>1, <3>2 DEF Pending
  <2>1. q \in Done \/ q \in Ahead(i) BY <1>3, <1>4, <1>8 DEF LoadInv, Pending
  <2>2. i < m /\ i + 1 \in 1..m BY <1>4
  <2>3. Ahead(i) = {File(i + 1)} BY <1>0, <2>2 DEF Ahead
  <2>4. CASE i + 1 = m BY <1>2, <1>6, <2>1, <2>3, <2>4
  <2>5. CASE i + 1 # m
    <3>1. i < m - 1 /\ i + 1 \in 1..(m - 1) BY <1>4, <2>2, <2>5
    <3>2. Ahead(i)' = {File(i + 1)} BY <1>8, <1>9, <3>1 DEF Ahead
    <3> QED BY <1>6, <2>1, <2>3, <3>2
  <2> QED BY <2>4, <2>5
<1>15. Ordered'
  <2>1. PICK l : l = Len(postorder_) OBVIOUS
  <2>2. postorder_ \in Seq(1..n) /\ IsInjective(postorder_) BY <1>3, <1>4 DEF LoadInv, Ordered
  <2>3. l \in Nat /\ DOMAIN postorder_ = 1..l /\ \A j \in 1..l : postorder_[j] \in 1..n
    BY <1>4, <2>1, <2>2
  <2>4. /\ postorder_' \in Seq(1..n) /\ DOMAIN postorder_' = 1..(l + 1)
        /\ postorder_'[l + 1] = k /\ \A j \in 1..l : postorder_'[j] = postorder_[j]
    BY <1>3, <1>4, <2>1, <2>2
  <2>5. /\ DOMAIN Order = 1..l /\ \A j \in 1..l : Order[j] = root_paths_[postorder_[j]]
    BY <2>3 DEF Order
  <2>6. /\ DOMAIN Order' = 1..(l + 1) /\ Order'[l + 1] = p
        /\ \A j \in 1..l : Order'[j] = Order[j]
    <3>1. Order' = [j \in 1..(l + 1) |-> root_paths_[postorder_'[j]]] BY <1>3, <2>4 DEF Order
    <3>2. l + 1 \in 1..(l + 1) /\ \A j \in 1..l : j \in 1..(l + 1) BY <2>3
    <3> QED BY <1>4, <2>4, <2>5, <3>1, <3>2
  <2>7. \A j \in 1..(l + 1) : j = l + 1 \/ j \in 1..l BY <2>3
  <2>8. l + 1 \in 1..(l + 1) /\ \A j \in 1..l : j \in 1..(l + 1) BY <2>3
  <2>9. Range(Order) = Done BY <1>3 DEF LoadInv, Ordered
  <2>10. IsInjective(postorder_')
    <3>1. \A j \in 1..l : postorder_[j] # k
      BY <1>4, <1>5, <2>5, <2>9 DEF Range
    <3> QED BY <2>2, <2>3, <2>4, <2>7, <3>1 DEF IsInjective
  <2>11. Range(Order') = {p} \cup Range(Order) BY <2>5, <2>6, <2>7, <2>8 DEF Range
  <2>12. \A j \in DOMAIN Order' : ImportsOf(Order'[j]) \subseteq {Order'[i] : i \in 1..(j - 1)}
    <3> SUFFICES ASSUME NEW j \in 1..(l + 1)
                 PROVE  ImportsOf(Order'[j]) \subseteq {Order'[i] : i \in 1..(j - 1)}
      BY <2>6
    <3>1. CASE j \in 1..l
      <4>1. ImportsOf(Order[j]) \subseteq {Order[i] : i \in 1..(j - 1)}
        BY <1>3, <2>5, <3>1 DEF LoadInv, Ordered
      <4>2. \A i \in 1..(j - 1) : i \in 1..l BY <2>3, <3>1
      <4> QED BY <2>6, <3>1, <4>1, <4>2
    <3>2. CASE j = l + 1
      <4>1. Ahead(m) = {} BY <1>0, <1>3, <1>4 DEF Ahead
      <4>2. ToSet(stack[m].imports) = {} BY <1>3 DEF ToSet
      <4>3. ImportsOf(p) \subseteq Done
        BY <1>2, <1>3, <1>4, <4>1, <4>2 DEF LoadInv, Pending
      <4>4. Done = {Order[i] : i \in 1..l} BY <2>5, <2>9 DEF Range
      <4>5. j - 1 = l BY <2>3, <3>2
      <4> QED BY <2>6, <3>2, <4>3, <4>4, <4>5
    <3> QED BY <2>7, <3>1, <3>2
  <2>13. \A j : ImportsOf(Order[j])' = ImportsOf(Order'[j]) BY <1>3, SameGraph
  <2> QED BY <1>3, <1>4, <1>6, <2>4, <2>9, <2>10, <2>11, <2>12, <2>13 DEF Ordered
<1>16. ~FileReturned' BY <1>3 DEF FileReturned
<1> QED
  BY <1>3, <1>10, <1>11, <1>12, <1>13, <1>14, <1>15, <1>16, NothingReturned DEF Inv, LoadInv

-----------------------------------------------------------------------------
\* The end of resolve(): everything that is needed is done.

LEMMA AllDone ==
  ASSUME disk \in Disks, LoadInv, pc = "importing", stack = <<>>
  PROVE  /\ IsInjective(Order) /\ Range(Order) = Needed(ImportGraph)
         /\ \A k \in DOMAIN Order :
              NeededBy(ImportGraph, Order[k]) \subseteq {Order[j] : j \in 1..(k - 1)}
         /\ NoCycles
<1>1. PICK n, l : n = Len(root_paths_) /\ l = Len(postorder_) OBVIOUS
<1>2. n \in Nat /\ DOMAIN root_paths_ = 1..n
  <2>1. root_paths_ \in Seq(DOMAIN disk.files) BY DEF LoadInv, Kept
  <2> QED BY <1>1, <2>1
<1>3. l \in Nat /\ DOMAIN postorder_ = 1..l /\ \A k \in 1..l : postorder_[k] \in 1..n
  <2>1. postorder_ \in Seq(1..n) BY <1>2 DEF LoadInv, Ordered
  <2> QED BY <1>1, <1>2, <2>1
<1>4. DOMAIN Order = 1..l /\ \A k \in 1..l : Order[k] = root_paths_[postorder_[k]]
  BY <1>3 DEF Order
<1>5. IsInjective(Order)
  <2>1. \A j, k \in 1..n : root_paths_[j] = root_paths_[k] => j = k
    BY <1>2 DEF LoadInv, Kept, IsInjective
  <2>2. \A j, k \in 1..l : postorder_[j] = postorder_[k] => j = k
    BY <1>3 DEF LoadInv, Ordered, IsInjective
  <2> QED BY <1>3, <1>4, <2>1, <2>2 DEF IsInjective
<1>6. Range(Order) = Range(root_paths_)
  <2>1. Range(Order) = Done BY DEF LoadInv, Ordered
  <2>2. \A k \in DOMAIN root_paths_ : root_paths_[k] \in Done BY DEF LoadInv, Stacked
  <2>3. Done \subseteq Range(root_paths_) BY DEF LoadInv, Kept, Done
  <2> QED BY <2>1, <2>2, <2>3 DEF Range
<1>7. Range(Order) \subseteq Paths
  <2>1. \A k \in DOMAIN root_paths_ : root_paths_[k] \in DOMAIN disk.files BY DEF LoadInv, Kept
  <2> QED BY <1>6, <2>1 DEF Paths, Range
<1>8. \A k \in 1..l : ImportsOf(Order[k]) \subseteq {Order[j] : j \in 1..(k - 1)}
  BY <1>4 DEF LoadInv, Ordered
<1>9. \A k \in 1..l : {Order[j] : j \in 1..(k - 1)} \subseteq Range(Order)
  BY <1>3, <1>4 DEF Range
<1>10. ASSUME NEW k \in 1..l
       PROVE  NeededBy(ImportGraph, Order[k]) \subseteq {Order[j] : j \in 1..(k - 1)}
  <2> DEFINE earlier == {Order[j] : j \in 1..(k - 1)}
  <2>1. ImportsOf(Order[k]) \subseteq earlier BY <1>8
  <2>2. \A q \in earlier : ImportsOf(q) \subseteq earlier
    <3> SUFFICES ASSUME NEW j \in 1..(k - 1) PROVE ImportsOf(Order[j]) \subseteq earlier
      OBVIOUS
    <3>1. j \in 1..l /\ \A i \in 1..(j - 1) : i \in 1..(k - 1) BY <1>3
    <3> QED BY <1>8, <3>1
  <2>3. Order[k] \in Paths BY <1>4, <1>7 DEF Range
  <2>4. earlier \in SUBSET Paths BY <1>7, <1>9
  <2> HIDE DEF earlier
  <2>5. NeededBy(ImportGraph, Order[k]) \subseteq earlier
    BY <2>1, <2>2, <2>3, <2>4, NeedsNothingElse
  <2> QED BY <2>5 DEF earlier
<1>11. CallFile \in Range(Order)
  <2>1. root_paths_ # <<>> /\ root_paths_[1] = CallFile BY DEF LoadInv, Begun
  <2>2. root_paths_ \in Seq(DOMAIN disk.files) BY DEF LoadInv, Kept
  <2>3. 1 \in DOMAIN root_paths_ BY <2>1, <2>2
  <2> QED BY <1>6, <2>1, <2>3 DEF Range
<1>12. Range(Order) = Needed(ImportGraph)
  <2>1. \A q \in Range(Order) : ImportsOf(q) \subseteq Range(Order)
    BY <1>4, <1>8, <1>9 DEF Range
  <2>2. NeededBy(ImportGraph, CallFile) \subseteq Range(Order)
    BY <1>7, <1>11, <2>1, NeedsNothingElse
  <2>3. Range(root_paths_) \subseteq Needed(ImportGraph) BY DEF LoadInv, Kept, Range
  <2> QED BY <1>6, <1>11, <2>2, <2>3 DEF Needed
<1>13. NoCycles
  <2> SUFFICES ASSUME NEW p \in Needed(ImportGraph)
               PROVE  Readable(p) /\ p \notin NeededBy(ImportGraph, p)
    BY DEF NoCycles
  <2>1. PICK k \in 1..l : p = Order[k] BY <1>4, <1>12 DEF Range
  <2>2. p \notin NeededBy(ImportGraph, p)
    <3>1. \A j \in 1..(k - 1) : j \in 1..l /\ j # k BY <1>3
    <3>2. \A j \in 1..(k - 1) : Order[j] # Order[k] BY <1>4, <1>5, <3>1 DEF IsInjective
    <3> QED BY <1>10, <2>1, <3>2
  <2>3. Readable(p)
    <3>1. \A j \in DOMAIN root_paths_ : /\ Content(root_paths_[j]).status = "ok"
                                        /\ root_paths_[j] \in DOMAIN disk.files
      BY DEF LoadInv, Kept
    <3> QED BY <1>6, <1>12, <3>1 DEF Range, Readable, IsOpen
  <2> QED BY <2>2, <2>3
<1> QED BY <1>4, <1>5, <1>10, <1>12, <1>13

\* What is kept of a file is what was read from it, but for its imports.
LEMMA KeptParts ==
  ASSUME disk \in Disks, LoadInv, NEW part \in {"name", "enums", "structs", "messages"}
  PROVE  /\ \A k \in DOMAIN root_paths_ : definitions_[k][part] = Content(root_paths_[k]).v[part]
         /\ [k \in DOMAIN postorder_ |-> definitions_[postorder_[k]][part]] = Parts(part)
<1>1. ASSUME NEW k \in DOMAIN root_paths_
      PROVE  definitions_[k][part] = Content(root_paths_[k]).v[part]
  <2> DEFINE v == Content(root_paths_[k]).v
  <2>1. /\ Content(root_paths_[k]).status = "ok" /\ root_paths_[k] \in DOMAIN disk.files
        /\ definitions_[k] = IF root_paths_[k] \in Done THEN [v EXCEPT !.imports = <<>>] ELSE v
    BY DEF LoadInv, Kept
  <2>2. DOMAIN v = DOMAIN ProtocolDefinition BY <2>1, DiskAssumption DEF Content
  <2>3. part \in DOMAIN v /\ part # "imports" BY <2>2 DEF ProtocolDefinition
  <2> HIDE DEF v
  <2>4. [v EXCEPT !.imports = <<>>][part] = v[part] BY <2>3
  <2> QED BY <2>1, <2>4 DEF v
<1>2. ASSUME NEW k \in DOMAIN postorder_
      PROVE  definitions_[postorder_[k]][part] = Content(root_paths_[postorder_[k]]).v[part]
  <2>1. postorder_ \in Seq(DOMAIN root_paths_) BY DEF LoadInv, Ordered
  <2>2. postorder_[k] \in DOMAIN root_paths_ BY <2>1
  <2> QED BY <1>1, <2>2
<1>3. DOMAIN Order = DOMAIN postorder_
      /\ \A k \in DOMAIN postorder_ : Order[k] = root_paths_[postorder_[k]]
  BY DEF Order
<1> QED BY <1>1, <1>2, <1>3 DEF Parts

LEMMA ResolveStep ==
  ASSUME Inv, Resolve
  PROVE  Inv'
<1> DEFINE root == definitions_[1]
           merged == [name |-> root.name, imports |-> <<>>, enums |-> Merge("enums"),
                      structs |-> Merge("structs"), messages |-> Merge("messages")]
           content == Content(CallFile).v
<1>1. /\ disk \in Disks /\ LoadInv /\ pc = "importing" /\ stack = <<>> /\ pc' = "returned"
      /\ result' = (IF root.name = "" \/ root.messages = <<>> THEN Error ELSE Loaded(merged))
      /\ UNCHANGED <<disk, call, workspace_root_, root_paths_, postorder_>>
  BY DEF Inv, Resolve, Return, resolver
<1>2. root.name = content.name /\ root.messages = content.messages
  <2>1. root_paths_ # <<>> /\ root_paths_[1] = CallFile BY <1>1 DEF LoadInv, Begun
  <2>2. root_paths_ \in Seq(DOMAIN disk.files) BY <1>1 DEF LoadInv, Kept
  <2>3. 1 \in DOMAIN root_paths_ BY <2>1, <2>2
  <2> QED BY <1>1, <2>1, <2>3, KeptParts
<1>3. merged = [name |-> content.name, imports |-> <<>>, enums |-> FlattenSeq(Parts("enums")),
                structs |-> FlattenSeq(Parts("structs")), messages |-> FlattenSeq(Parts("messages"))]
  <2>1. \A part \in {"enums", "structs", "messages"} : Merge(part) = FlattenSeq(Parts(part))
    BY <1>1, KeptParts DEF Merge
  <2> QED BY <1>2, <2>1
<1>4. result'.status = "ok" <=> content.name # "" /\ content.messages # <<>>
  BY <1>1, <1>2 DEF Error, Loaded
<1>5. result'.status = "ok" => result'.v = merged
  BY <1>1 DEF Error, Loaded
<1>6. /\ CallFile' = CallFile /\ Content(CallFile)' = Content(CallFile)
      /\ Needed(ImportGraph)' = Needed(ImportGraph) /\ NoCycles' = NoCycles
  BY <1>1, SameNeeded, SameGraph
<1>7. CyclesAreRefused'
  <2>1. NoCycles' BY <1>1, <1>6, AllDone
  <2> QED BY <1>4, <1>6, <2>1 DEF CyclesAreRefused, NoCycles
<1>8. MergedOnce'
  <2>1. Order' = Order BY <1>1 DEF Order
  <2>2. \A part : Parts(part)' = Parts(part) BY <1>1, <2>1, SameGraph DEF Parts
  <2>3. /\ (IsInjective(Order) /\ Range(Order) = Needed(ImportGraph))'
        /\ (\A k \in DOMAIN Order :
              NeededBy(ImportGraph, Order[k]) \subseteq {Order[j] : j \in 1..(k - 1)})'
    BY <1>1, <1>6, <2>1, AllDone, SameGraph, ZenonT(30)
  <2>4. result'.status = "ok" =>
          (result.v = [name |-> Content(CallFile).v.name, imports |-> <<>>,
                       enums |-> FlattenSeq(Parts("enums")),
                       structs |-> FlattenSeq(Parts("structs")),
                       messages |-> FlattenSeq(Parts("messages"))])'
    BY <1>3, <1>5, <1>6, <2>2
  <2> QED BY <2>3, <2>4 DEF MergedOnce
<1> QED BY <1>1, <1>7, <1>8 DEF Inv

-----------------------------------------------------------------------------

LEMMA SameInv ==
  ASSUME Inv, UNCHANGED vars
  PROVE  Inv'
<1>1. UNCHANGED <<disk, call, pc, workspace_root_, target, stack, definitions_, root_paths_,
                  postorder_, states_, result>>
  BY DEF vars, resolver
<1>2. Fresh' = Fresh BY <1>1 DEF Fresh
<1>3. CyclesAreRefused'
  <2>1. FileReturned' = FileReturned BY <1>1 DEF FileReturned
  <2>2. Content(CallFile)' = Content(CallFile) BY <1>1, SameNeeded, SameGraph
  <2>3. FileReturned => (result.status = "ok" <=>
          NoCycles /\ Content(CallFile).v.name # "" /\ Content(CallFile).v.messages # <<>>)
    BY DEF Inv, CyclesAreRefused, NoCycles
  <2>4. (FileReturned => (result.status = "ok" <=>
          NoCycles /\ Content(CallFile).v.name # "" /\ Content(CallFile).v.messages # <<>>))'
    BY <1>1, <2>1, <2>2, <2>3, SameNeeded
  <2> QED BY <2>4 DEF CyclesAreRefused, NoCycles
<1>4. MergedOnce'
  <2>1. FileReturned' = FileReturned BY <1>1 DEF FileReturned
  <2>2. Order' = Order BY <1>1 DEF Order
  <2>3. \A part : Parts(part)' = Parts(part) BY <1>1, <2>2, SameGraph DEF Parts
  <2>4. Content(CallFile)' = Content(CallFile) BY <1>1, SameNeeded, SameGraph
  <2>5. \A k : NeededBy(ImportGraph, Order[k])' = NeededBy(ImportGraph, Order[k])
    BY <1>1, <2>2, SameGraph
  <2> QED BY <1>1, <2>1, <2>2, <2>3, <2>4, <2>5, SameNeeded DEF Inv, MergedOnce
<1>5. LoadInv => LoadInv'
  <2> SUFFICES ASSUME LoadInv PROVE LoadInv' OBVIOUS
  <2>1. Begun' BY <1>1, SameNeeded DEF LoadInv, Begun
  <2>2. Kept' /\ Stacked' /\ Ordered'
    BY <1>1, SameKept, SameStacked, SameOrdered DEF LoadInv
  <2>3. \A i : File(i)' = File(i) BY <1>1 DEF File
  <2>4. Aim' = Aim BY <1>1 DEF Aim, IsOpen
  <2>5. Aimed'
    <3>1. ImportsOf(File(Len(stack)))' = ImportsOf(File(Len(stack))) BY <1>1, <2>3, SameGraph
    <3> QED BY <1>1, <2>4, <3>1, SameGraph DEF LoadInv, Aimed
  <2>6. Pending'
    <3>1. Done' = Done BY <1>1 DEF Done
    <3>2. \A i : Ahead(i)' = Ahead(i) BY <1>1, <2>3, <2>4 DEF Ahead
    <3> QED BY <1>1, <2>3, <3>1, <3>2, SameGraph DEF LoadInv, Pending
  <2> QED BY <2>1, <2>2, <2>5, <2>6 DEF LoadInv
<1> QED BY <1>1, <1>2, <1>3, <1>4, <1>5 DEF Inv

\* The invariant holds in every state of every run.
THEOREM InvAlways == Spec => []Inv
<1>1. Init => Inv
  <2> SUFFICES ASSUME Init PROVE Inv OBVIOUS
  <2>1. disk \in Disks /\ pc = "idle" /\ Fresh BY DEF Init, Fresh
  <2> QED BY <2>1 DEF Inv, CyclesAreRefused, MergedOnce, FileReturned
<1>2. Inv /\ [Next]_vars => Inv'
  <2> SUFFICES ASSUME Inv, [Next]_vars PROVE Inv' OBVIOUS
  <2>1. CASE Call BY <2>1, CallStep
  <2>2. CASE Enter
    <3>1. CASE EnterVisiting BY <2>2, <3>1, EnterVisitingStep
    <3>2. CASE EnterDone BY <2>2, <3>2, EnterDoneStep
    <3>3. CASE EnterMissing BY <2>2, <3>3, EnterMissingStep
    <3>4. CASE EnterNew BY <2>2, <3>4, EnterNewStep
    <3> QED BY <2>2, <3>1, <3>2, <3>3, <3>4 DEF Enter
  <2>3. CASE NextImport BY <2>3, NextImportStep
  <2>4. CASE Leave BY <2>4, LeaveStep
  <2>5. CASE Resolve BY <2>5, ResolveStep
  <2>6. CASE Spin BY <2>6, SameInv DEF Spin
  <2>7. CASE Forget BY <2>7, ForgetStep
  <2>8. CASE UNCHANGED vars BY <2>8, SameInv
  <2> QED BY <2>1, <2>2, <2>3, <2>4, <2>5, <2>6, <2>7, <2>8 DEF Next, Load
<1> QED BY <1>1, <1>2, PTL DEF Spec

\* A schema file is refused exactly if it or a file that it needs, over any number of
\* imports, cannot be read or needs itself, or if it names no protocol or has no message.
THEOREM CyclesAreRefusedAlways == Spec => []CyclesAreRefused
<1>1. Inv => CyclesAreRefused BY DEF Inv
<1> QED BY <1>1, InvAlways, PTL

\* Every file that is needed is in the result once and after all that it needs, and nothing
\* else is: along whatever paths and links it is reached.
THEOREM MergedOnceAlways == Spec => []MergedOnce
<1>1. Inv => MergedOnce BY DEF Inv
<1> QED BY <1>1, InvAlways, PTL

=============================================================================
