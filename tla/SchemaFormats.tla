---------------------------- MODULE SchemaFormats ----------------------------
(***************************************************************************)
(* load_protocol_definition_impl(): a text read as .upr or as YAML, and    *)
(* what the calls of SchemaLoader return with it.                          *)
(*                                                                         *)
(* A file holds what an author has written in one of the formats (with one *)
(* symbol changed, if "change" says so), or raw symbols.                   *)
(***************************************************************************)
EXTENDS SchemaLoader, SchemaAuthor, UprParser

\* What a file holds, as the .upr lexer and as yaml-cpp see it.

Changed(text, change) ==
  IF change = <<>> THEN text
  ELSE IF change[2] = "cut" THEN SubSeq(text, 1, change[1] - 1)
  ELSE [text EXCEPT ![change[1]] = change[2]]

Symbols(file) ==
  CASE file.form = "raw" -> file.symbols
    [] file.form = "upr" -> Changed(UprText(file.written), file.change)
    [] file.form = "yaml" -> <<"protocol", ":", " ", "word">>
    [] OTHER -> <<"%">>
Tree(file) ==
  CASE file.form = "yaml" -> YamlTree(file.written)
    [] file.form = "raw" /\ file.symbols = <<>> -> Y!Undefined
    [] OTHER -> Y!Scalar("text")

-----------------------------------------------------------------------------
\* load_protocol_definition_impl

Stopped(tokens, parsed) ==
  Outcome(IF parsed.ok THEN Loaded(parsed.v) ELSE Error,
          <<[at |-> IF parsed.at < 0 THEN -parsed.at ELSE parsed.at, tokens |-> Len(tokens)]>>)
LoadTokens(tokens, require_root_declaration) ==
  CASE Last(tokens).kind = "spins" -> Outcome(Spins, <<>>)
    [] Last(tokens).kind = "error" -> Outcome(Error, <<>>)
    [] OTHER -> Stopped(tokens, parse(tokens, require_root_declaration))
LoadUpr(file, require_root_declaration) ==
  LoadTokens(tokenize(Symbols(file)), require_root_declaration)

LoadYaml(file, require_root_declaration) ==
  LET Answer(loaded) == IF loaded.ok THEN Loaded(loaded.v) ELSE Error
  IN Answer(Y!load_yaml(Tree(file), require_root_declaration))

RECURSIVE load_protocol_definition_impl(_, _, _)
load_protocol_definition_impl(file, hint, require_root_declaration) ==
  LET As(format) == load_protocol_definition_impl(file, format, require_root_declaration)
  IN CASE to_lower(hint) \in {"yaml", "yml"} -> Outcome(LoadYaml(file, require_root_declaration), <<>>)
       [] to_lower(hint) = "upr" -> LoadUpr(file, require_root_declaration)
       [] OTHER -> IF As("upr").result.status # "error" THEN As("upr")
                   ELSE [As("upr") EXCEPT !.result = As("yaml").result]

-----------------------------------------------------------------------------
\* Properties.

\* What a call tells of the format of the file that it is about.
Hint == to_lower(IF call[1].entry = "text" THEN call[1].hint
                 ELSE IF call[1].entry = "single" THEN call[1].path.ext ELSE CallFile.ext)

Sound(file, hint) ==
  /\ file.form \in {"upr", "yaml"} /\ file.valid /\ file.change = <<>>
  /\ hint \in {"upr", "yaml", "yml"} => (hint = "upr" <=> file.form = "upr")

\* Whatever the format, with or without a hint, from a text or from a file: what is loaded is
\* what the author has declared, to the last part of the last field, and nothing that the
\* author has declared well is refused; the same of what is read from a file that is imported.
LoadsWhatIsDeclared ==
  pc = "returned" =>
    /\ (/\ CallFile \in DOMAIN disk.files
        /\ Sound(disk.files[CallFile], Hint)
        /\ call[1].entry = "file" => disk.files[CallFile].written.imports = <<>>)
         => LET declared == Declared(disk.files[CallFile].written)
            IN result = IF declared.name = "" \/ declared.messages = <<>> THEN Error
                        ELSE Loaded(declared)
    /\ call[1].entry = "file" =>
         \A path \in ToSet(root_paths_) : Sound(disk.files[path], to_lower(path.ext)) =>
           Content(path) = Loaded(Declared(disk.files[path].written))

\* The differences between the formats: a number too wide for its byte is refused in .upr
\* and cut to its low byte in YAML; .upr has the words ascii and utf8 for strings; YAML
\* gives a struct whose type word has "_be" in it a byte order.
Wide(def) ==
  \/ \E k \in DOMAIN def.bit_fields : \/ def.bit_fields[k].offset_bits >= U8
                                      \/ def.bit_fields[k].width_bits >= U8
  \/ \E k \in DOMAIN def.presence : def.presence[k].bit_index >= U8
Divergent(field) ==
  \/ Wide(field.def)
  \/ field.def.kind \in {"struct", "collection"}
     /\ (to_lower(field.type) \in {"ascii", "utf8"} \/ ByteOrder(to_lower(field.type)) = "big")

WrittenFields(written) ==
  UNION {ToSet(layout.fields) : layout \in ToSet(written.structs) \cup ToSet(written.messages)}

\* One protocol written in both formats is loaded as one definition, or refused in both;
\* also one that no author should write.
FormatsAgree ==
  LET file == disk.files[CallFile]
  IN (/\ pc = "returned" /\ CallFile \in DOMAIN disk.files /\ Hint = "upr"
      /\ file.form = "upr" /\ file.change = <<>> /\ call[1].entry = "text")
       => \/ result = load_protocol_definition_impl([file EXCEPT !.form = "yaml"], "yaml", TRUE).result
          \/ \E field \in WrittenFields(file.written) : Divergent(field)

\* Every call returns.  One does not: a text with "$" where a word would begin is read over
\* and over, because "$" begins an identifier and is no part of one.
HasDollar == \E p \in DOMAIN disk.files : disk.files[p].form = "raw" /\ "$" \in ToSet(disk.files[p].symbols)
LoadsReturn == (pc # "idle" /\ ~HasDollar) ~> (pc = "returned")

=============================================================================
