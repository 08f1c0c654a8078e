--------------------------- MODULE MCSchemaLoader ---------------------------
(***************************************************************************)
(* SchemaLoader for TLC.  Four kinds of disks:                             *)
(* one file with one field of every sort, in either format; a text with    *)
(* one symbol changed or cut off; short texts of arbitrary symbols; three  *)
(* files and a link that import each other in every way.                   *)
(***************************************************************************)
EXTENDS SchemaFormats

Spelled(prefix, digits, big) == [prefix |-> prefix, digits |-> digits, big |-> big]
MCTypeWords ==
  "uint8" :> Spelled("uint", <<8>>, FALSE) @@ "uint16" :> Spelled("uint", <<1, 6>>, FALSE)
  @@ "uint16_be" :> Spelled("uint", <<1, 6>>, TRUE) @@ "int32_be" :> Spelled("int", <<3, 2>>, TRUE)
  @@ "float32" :> Spelled("float32", <<>>, FALSE) @@ "float64_be" :> Spelled("float64", <<>>, TRUE)
  @@ "uint12" :> Spelled("uint", <<1, 2>>, FALSE) @@ "uint" :> Spelled("uint", <<>>, FALSE)
  @@ "uint4104" :> Spelled("uint", <<4, 1, 0, 4>>, FALSE) @@ "int2048" :> Spelled("int", <<2, 0, 4, 8>>, FALSE)
  @@ "interval" :> Spelled("int", <<10, 10, 10, 10, 10>>, FALSE)
  @@ "line_be" :> Spelled("", <<>>, TRUE)
MCLowerCase == "UINT16_BE" :> "uint16_be" @@ "Bytes" :> "bytes" @@ "Enum" :> "enum" @@ "UPR" :> "upr"

\* Fields that any author may write.
Field(type, parts) == [type |-> type, def |-> parts @@ "name" :> "f" @@ FieldDefinition]
Scalars ==
  {Field("uint8", [width_bytes |-> 1]),
   Field("uint16_be", [width_bytes |-> 2, byte_order |-> "big"]),
   Field("UINT16_BE", [width_bytes |-> 2, byte_order |-> "big"]),
   Field("int32_be", [kind |-> "signed", width_bytes |-> 4, byte_order |-> "big"]),
   Field("float32", [kind |-> "float32", width_bytes |-> 4]),
   Field("float64_be", [kind |-> "float64", width_bytes |-> 8, byte_order |-> "big"]),
   Field("uint16_be", [kind |-> "enum", width_bytes |-> 2, byte_order |-> "big",
                       enum_values |-> <<[value |-> 31, name |-> "a"], [value |-> 1, name |-> "b"]>>])}
Plain ==
  Scalars \cup
  {Field("bytes", [kind |-> "bytes", fixed_size |-> 31]),
   Field("bytes", [kind |-> "bytes", size_from_field |-> "n"]),
   Field("reserved", [kind |-> "bytes", is_reserved |-> TRUE, fixed_size |-> 2]),
   Field("string", [kind |-> "string", fixed_size |-> 4]),
   Field("string", [kind |-> "string", string_encoding |-> "utf8", size_from_field |-> "validate"]),
   Field("variant", [kind |-> "variant", tag_from_field |-> "n",
                     variant_cases |-> <<[tag_value |-> 31, referenced_type |-> "s"]>>]),
   Field("s", [kind |-> "struct", referenced_type |-> "s"]),
   Field("s", [kind |-> "collection", referenced_type |-> "s", fixed_count |-> 3]),
   Field("s", [kind |-> "collection", referenced_type |-> "s", count_from_field |-> "n"]),
   [Field("uint8", [width_bytes |-> 1]) EXCEPT !.def.name = "validate"]}

Bit(offset, width) == [name |-> "b", offset_bits |-> offset, width_bits |-> width,
                       is_signed |-> FALSE, enum_values |-> <<>>]
Gate(bit) == <<[field |-> "n", bit_index |-> bit]>>
Additions ==
  {Nothing, [expected |-> <<31>>], [alignment |-> 4],
   [checksum |-> <<[algorithm |-> "crc", from |-> "frame_start", to |-> "before_self"]>>],
   [checksum |-> <<[algorithm |-> "crc", from |-> "f", to |-> "before_self"]>>],
   [condition |-> <<[field |-> "n", equals |-> 1]>>, alignment |-> 2],
   [condition |-> <<[field |-> "n", equals |-> 1]>>, presence |-> Gate(7), expected |-> <<0>>],
   [checksum |-> <<[algorithm |-> "crc", from |-> "n", to |-> "f"]>>, presence |-> Gate(0)]}
Bits ==
  {[bit_fields |-> <<Bit(13, 3), [Bit(0, 1) EXCEPT !.is_signed = TRUE]>>],
   [bit_fields |-> <<[Bit(0, 2) EXCEPT !.enum_values = <<[value |-> 2, name |-> "x"]>>]>>],
   [bit_fields |-> <<Bit(0, 1)>>, expected |-> <<1>>]}

With(field, parts) == [field EXCEPT !.def = parts @@ @]
GoodFields ==
  {With(field, parts) : field \in Plain, parts \in Additions}
    \cup {With(field, parts) : field \in {f \in Scalars : f.def.kind # "enum"}, parts \in Bits}

\* Fields that one loader or both refuse, or that they take for something else.
OddFields ==
  {Field(type, [width_bytes |-> 1]) : type \in {"uint12", "uint", "uint4104", "int2048"}}
    \cup {Field(type, [kind |-> "struct", referenced_type |-> type]) :
            type \in {"interval", "line_be", "Bytes", "Enum", "ascii", "utf8"}}
    \cup {With(Field("uint16", [width_bytes |-> 2]), [bit_fields |-> <<bit>>]) :
            bit \in {Bit(264, 1), Bit(0, 256), Bit(255, 255)}}
    \cup {With(Field("uint8", [width_bytes |-> 1]), parts) :
            parts \in {[presence |-> Gate(256)], [expected |-> <<9000>>],
                       [alignment |-> 9001], [condition |-> <<[field |-> "n", equals |-> 9000]>>]}}
    \cup {Field(type, [kind |-> "enum", enum_values |-> <<[value |-> value, name |-> "a"]>>]) :
            type \in {"uint8", "int32_be", "s"}, value \in {1, 9000}}

Rules ==
  {<<>>,
   <<[RuleDefinition EXCEPT !.field = "f", !.op = "le", !.value = 12],
     [RuleDefinition EXCEPT !.field = "f", !.op = "ne", !.other_field = "n", !.compare_to_field = TRUE,
                            !.multiplier = 10]>>,
   <<[RuleDefinition EXCEPT !.field = "n", !.op = "gt", !.when = <<[field |-> "f", equals |-> 1]>>]>>}

Counter == [Field("uint8", [width_bytes |-> 1]) EXCEPT !.def.name = "n"]
StructOf(name, fields, rules) == [name |-> name, fields |-> fields, validations |-> rules]
MessageOf(name, fields, rules, trailing) == StructOf(name, fields, rules) @@ "allow_trailing_bytes" :> trailing

ProtocolOf(field, rules, trailing) ==
  [ProtocolDefinition EXCEPT
    !.name = "p",
    !.enums = <<[type |-> "uint16_be", def |-> [name |-> "e", width_bytes |-> 2, byte_order |-> "big",
                                                values |-> <<[value |-> 3, name |-> "c"]>>]]>>,
    !.structs = <<StructOf("s", <<Counter>>, <<>>)>>,
    !.messages = <<MessageOf("m", <<Counter, field>>, rules, trailing)>>]
GoodProtocols ==
  {ProtocolOf(field, <<>>, FALSE) : field \in GoodFields}
    \cup {ProtocolOf(Counter, rules, trailing) : rules \in Rules, trailing \in BOOLEAN}
Roots ==    \* without a name, without a message, with an import
  {[ProtocolOf(Counter, <<>>, FALSE) EXCEPT !.name = ""],
   [ProtocolOf(Counter, <<>>, FALSE) EXCEPT !.messages = <<>>],
   [ProtocolOf(Counter, <<>>, FALSE) EXCEPT !.imports = <<"./b.upr">>]}
OddProtocols ==
  {ProtocolOf(field, <<>>, FALSE) : field \in OddFields}
    \cup {[ProtocolOf(Counter, <<>>, FALSE) EXCEPT !.enums[1].type = type] : type \in {"int32_be", "uint12", "e"}}

-----------------------------------------------------------------------------
Path(dir, base, ext) == [dir |-> dir, base |-> base, ext |-> ext]
Written(form, written, valid) == [form |-> form, written |-> written, valid |-> valid, change |-> <<>>]
NoLinks == [p \in {} |-> Path(<<>>, "", "")]

TextCall(path, hint) == [entry |-> "text", path |-> path, hint |-> hint]
PathCalls(path) == {[entry |-> "single", path |-> path], [entry |-> "file", path |-> path]}
One(path, file, calls) ==
  [files |-> path :> file, links |-> NoLinks, markers |-> {}, calls |-> calls]

Here(ext) == Path(<<"w">>, "a", ext)
Hints(form) == IF form = "upr" THEN {"UPR", "upr", ""} ELSE {"yaml", "yml", ""}
OneFile ==
  {One(Here(ext), Written(form, protocol, TRUE),
       {TextCall(Here(ext), hint) : hint \in Hints(form)} \cup PathCalls(Here(ext))) :
     <<form, ext>> \in {<<"upr", "upr">>, <<"yaml", "yml">>, <<"upr", "txt">>},
     protocol \in GoodProtocols \cup Roots}
    \cup {One(Here("upr"), Written("upr", protocol, FALSE), {TextCall(Here("upr"), "upr")}) :
            protocol \in OddProtocols}

Rich ==
  With(With(Field("uint16_be", [width_bytes |-> 2, byte_order |-> "big"]),
            [bit_fields |-> <<[Bit(0, 2) EXCEPT !.enum_values = <<[value |-> 2, name |-> "x"]>>]>>]),
       [checksum |-> <<[algorithm |-> "crc", from |-> "n", to |-> "f"]>>, presence |-> Gate(0),
        condition |-> <<[field |-> "n", equals |-> 1]>>, alignment |-> 4, expected |-> <<31>>])
RichProtocol ==
  ProtocolOf(Rich, <<[RuleDefinition EXCEPT !.field = "n", !.multiplier = 3,
                                            !.when = <<[field |-> "f", equals |-> 1]>>]>>, TRUE)
ChangedText ==
  {One(Here("upr"), [Written("upr", RichProtocol, FALSE) EXCEPT !.change = <<k, symbol>>],
       {TextCall(Here("upr"), "upr")}) :
     k \in DOMAIN UprText(RichProtocol), symbol \in {"cut", "}", "{", "word", "7", ",", "("}}

RawText ==
  {One(Here("upr"), [form |-> "raw", symbols |-> symbols],
       {TextCall(Here("upr"), hint) : hint \in {"upr", ""}} \cup PathCalls(Here("upr"))) :
     symbols \in UNION {[1..n -> {"protocol", "7", "0", "x", "\"", "\\", "#", "newline", "{", "$"}] : n \in 0..3}}

\* Three files a, b and c of one workspace, a link to c outside of it, and files that are
\* missing or broken.
AtA == Path(<<"w">>, "a", "upr")
AtB == Path(<<"w", "d">>, "b", "yaml")
AtC == Path(<<"w", "d">>, "c", "upr")
LinkToC == Path(<<>>, "l", "upr")
Import3(how, up, path) == [how |-> how, up |-> up, path |-> path]
MCImportWords ==
  "d/b.yaml" :> Import3("workspace", 0, Path(<<"d">>, "b", "yaml"))
  @@ "./b.yaml" :> Import3("relative", 0, Path(<<>>, "b", "yaml"))
  @@ "./c.upr" :> Import3("relative", 0, Path(<<>>, "c", "upr"))
  @@ "./b.upr" :> Import3("relative", 0, Path(<<>>, "b", "upr"))
  @@ "../a.upr" :> Import3("relative", 1, Path(<<>>, "a", "upr"))
  @@ "/l.upr" :> Import3("absolute", 0, LinkToC)

Piece(name, struct, imports, message) ==
  [ProtocolDefinition EXCEPT !.name = name, !.imports = imports,
     !.structs = <<StructOf(struct, <<Counter>>, <<>>)>>,
     !.messages = IF message THEN <<MessageOf("m", <<Counter>>, <<>>, FALSE)>> ELSE <<>>]
Lists(words) == {<<>>} \cup {<<w>> : w \in words} \cup (words \X words)
Broken == [form |-> "malformed", written |-> ProtocolDefinition]

Imports ==
  {[files |-> (IF c = "missing" THEN Nothing
               ELSE AtC :> IF c = "broken" THEN Broken
                           ELSE Written("upr", Piece("", "sc", IF c = "leaf" THEN <<>> ELSE <<c>>, FALSE), TRUE))
              @@ AtA :> Written("upr", Piece("p", "sa", as, message), TRUE)
              @@ AtB :> Written("yaml", Piece("", "sb", bs, FALSE), TRUE),
    links |-> LinkToC :> AtC, markers |-> markers,
    calls |-> {[entry |-> "file", path |-> path] : path \in {AtA, LinkToC}}] :
     as \in Lists({"d/b.yaml", "/l.upr", "./b.yaml"}), bs \in Lists({"./c.upr", "/l.upr", "../a.upr"}),
     c \in {"missing", "broken", "leaf", "../a.upr", "./b.yaml", "d/b.yaml"},
     <<markers, message>> \in {<<{}, TRUE>>, <<{<<"w">>}, TRUE>>, <<{<<"w">>, <<"w", "d">>}, TRUE>>,
                               <<{<<"w">>}, FALSE>>}}

MCDisks == OneFile \cup ChangedText \cup RawText \cup Imports

=============================================================================
