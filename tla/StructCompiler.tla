--------------------------- MODULE StructCompiler ---------------------------
(***************************************************************************)
(* compile_struct(): the structs of a definition compiled depth first.  A  *)
(* struct that is met again while it is being compiled is refused.  A      *)
(* struct never allows trailing bytes.                                     *)
(***************************************************************************)
EXTENDS SchemaCompiler

RECURSIVE CompileStruct(_, _, _)
CompileStruct(structs, t, visiting) ==
  LET visited == visiting \cup {t}
  IN  CompileLayout([structs[t] EXCEPT !.trailing = FALSE],
                    [s \in DOMAIN structs \ visited |-> CompileStruct(structs, s, visited)])

compile_structs(definition) ==
  [t \in DOMAIN definition.structs |-> CompileStruct(definition.structs, t, {})]

=============================================================================
