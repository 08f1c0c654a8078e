----------------------------- MODULE YamlSchema -----------------------------
(***************************************************************************)
(* The YAML format: from the node tree that yaml-cpp gives to a protocol   *)
(* definition.                                                             *)
(*                                                                         *)
(* A node is a mapping with words as keys, a table with numbers as keys, a *)
(* list, a word, a number or a truth value.  Reading a node gives [ok, v]; *)
(* a conversion yaml-cpp refuses throws, the loader turns every exception  *)
(* into an error status, and so neither is told from an error of its own.  *)
(***************************************************************************)
EXTENDS SchemaDefinition

Mapping(at) == [tag |-> "mapping", at |-> at]
Table(rows) == [tag |-> "table", rows |-> rows]    \* a sequence of <<number, node>>
List(items) == [tag |-> "list", items |-> items]
Scalar(word) == [tag |-> "word", word |-> word]
Numeral(n) == [tag |-> "number", n |-> n]
Truth(b) == [tag |-> "truth", b |-> b]
Undefined == [tag |-> "undefined"]

Has(node, key) == node.tag = "mapping" /\ key \in DOMAIN node.at
At(node, key) == IF Has(node, key) THEN node.at[key] ELSE Undefined

Ok(v) == [ok |-> TRUE, v |-> v]
Failed == [ok |-> FALSE]

\* node.as<std::string>(), as<uint64_t>(), as<uint32_t>() and as<bool>()
AsWord(node) == IF node.tag = "word" THEN Ok(node.word) ELSE Failed
AsU64(node) == IF node.tag = "number" /\ node.n < U64 THEN Ok(node.n) ELSE Failed
AsU32(node) == IF node.tag = "number" /\ node.n < U32 THEN Ok(node.n) ELSE Failed
AsBool(node) == IF node.tag = "truth" THEN Ok(node.b) ELSE Failed

\* static_cast<uint8_t>(node.as<uint32_t>()): the low byte
AsU8(node) == IF AsU32(node).ok THEN Ok(node.n % U8) ELSE Failed

\* A record, and a list, of what was read; it fails when one of them does.
Together(parts) ==
  IF \A f \in DOMAIN parts : parts[f].ok THEN Ok([f \in DOMAIN parts |-> parts[f].v]) ELSE Failed
Optional(node, key, Reading(_), default) ==
  IF Has(node, key) THEN Reading(At(node, key)) ELSE Ok(default)
Single(read) == IF read.ok THEN Ok(<<read.v>>) ELSE Failed
Maybe(node, key, Reading(_)) ==
  IF Has(node, key) THEN Single(Reading(At(node, key))) ELSE Ok(<<>>)
Over(read, record) == IF read.ok THEN Ok(read.v @@ record) ELSE Failed
Listed(node, Reading(_)) ==
  IF node.tag = "list" THEN Together([k \in DOMAIN node.items |-> Reading(node.items[k])])
  ELSE Failed

OperatorNames ==
  [eq |-> {"eq", "=="}, ne |-> {"ne", "!="}, lt |-> {"lt", "<"},
   le |-> {"le", "<="}, gt |-> {"gt", ">"}, ge |-> {"ge", ">="}]
parse_validation_operator(node) ==
  LET named == {op \in DOMAIN OperatorNames :
                  node.tag = "word" /\ to_lower(node.word) \in OperatorNames[op]}
  IN IF named = {} THEN Failed ELSE Ok(CHOOSE op \in named : TRUE)

parse_byte_order(node) ==
  IF node.tag # "word" THEN Failed
  ELSE IF to_lower(node.word) \in {"little", "le", "little_endian"} THEN Ok("little")
  ELSE IF to_lower(node.word) \in {"big", "be", "big_endian"} THEN Ok("big")
  ELSE Failed

parse_string_encoding(node) ==
  IF node.tag # "word" THEN Failed
  ELSE IF to_lower(node.word) = "ascii" THEN Ok("ascii")
  ELSE IF to_lower(node.word) \in {"utf8", "utf-8"} THEN Ok("utf8")
  ELSE Failed

\* The rows of a table, each of them a number and a word.
Rows(node, number, word) ==
  IF \/ node.tag # "table"
     \/ \E k \in DOMAIN node.rows : node.rows[k][1] >= U64 \/ ~AsWord(node.rows[k][2]).ok
    THEN Failed
  ELSE Ok([k \in DOMAIN node.rows |->
             number :> node.rows[k][1] @@ word :> AsWord(node.rows[k][2]).v])

parse_enum_values(node) == Rows(node, "value", "name")
parse_variant_cases(node) == Rows(node, "tag_value", "referenced_type")

parse_bit_field(node) ==
  Together([name |-> AsWord(At(node, "name")),
            offset_bits |-> AsU8(At(node, "offset")),
            width_bits |-> AsU8(At(node, "width")),
            is_signed |-> Optional(node, "signed", AsBool, FALSE),
            enum_values |-> Optional(node, "values", parse_enum_values, <<>>)])

parse_checksum(node) ==
  Together([algorithm |-> AsWord(At(node, "algorithm")),
            from |-> Optional(node, "from", AsWord, ChecksumDefinition.from),
            to |-> Optional(node, "to", AsWord, ChecksumDefinition.to)])

parse_condition(node) ==
  Together([field |-> AsWord(At(node, "field")), equals |-> AsU64(At(node, "equals"))])

parse_presence(node) ==
  Together([field |-> AsWord(At(node, "field")), bit_index |-> AsU8(At(node, "bit"))])

parse_validation_rule(node) ==
  LET named == Has(node, "other_field")
  IN Together([field |-> AsWord(At(node, "field")),
               op |-> parse_validation_operator(At(node, "op")),
               other_field |-> Optional(node, "other_field", AsWord, ""),
               compare_to_field |-> Ok(named),
               value |-> IF named THEN Ok(0) ELSE AsU64(At(node, "value")),
               multiplier |-> Optional(node, "multiplier", AsU64, RuleDefinition.multiplier),
               when |-> Maybe(node, "if", parse_condition)])

\* "underlying" or "width" of an enum, and the byte order the type word names.
Number(type, kind, width) ==
  IF width = 0 THEN Failed
  ELSE Ok([kind |-> kind, width_bytes |-> width, byte_order |-> ByteOrder(type)])
Underlying(node) ==
  IF ~Has(node, "underlying")
    THEN Together([kind |-> Ok("enum"), width_bytes |-> AsU8(At(node, "width")),
                   byte_order |-> Ok("little")])
  ELSE IF ~AsWord(At(node, "underlying")).ok THEN Failed
  ELSE LET type == to_lower(At(node, "underlying").word)
       IN Number(type, "enum", EnumWidth(type))

NumberKinds ==
  [uint |-> "unsigned", int |-> "signed", float32 |-> "float32", float64 |-> "float64"]

\* What the type of a field sets.
WithValues(node, underlying, values) ==
  IF values.ok THEN Over(underlying, [enum_values |-> values.v]) ELSE Failed

FieldType(node, declared, type) ==
  LET kind == NumberKinds[Prefix(type)]
      width == IF kind = "float32" THEN 4 ELSE IF kind = "float64" THEN 8
               ELSE parse_width_token(type)
  IN CASE type = "bytes" -> Ok([kind |-> "bytes"])
       [] type = "reserved" -> Ok([kind |-> "bytes", is_reserved |-> TRUE])
       [] type = "string" ->
            Together([kind |-> Ok("string"),
                      string_encoding |-> Optional(node, "encoding", parse_string_encoding, "ascii")])
       [] type = "enum" -> WithValues(node, Underlying(node), parse_enum_values(At(node, "values")))
       [] type = "variant" ->
            Together([kind |-> Ok("variant"), tag_from_field |-> AsWord(At(node, "tag_from")),
                      variant_cases |-> parse_variant_cases(At(node, "cases"))])
       [] Prefix(type) # "" -> Number(type, kind, width)
       [] OTHER -> Ok([kind |-> "struct", referenced_type |-> declared,
                      byte_order |-> ByteOrder(type)])

\* The parts any field may have; field: what its type has set.
FieldParts(node, field) ==
  LET collection == Has(node, "count") \/ Has(node, "count_from")
  IN Together([name |-> AsWord(At(node, "name")),
               byte_order |-> Optional(node, "endianness", parse_byte_order, field.byte_order),
               fixed_size |-> Optional(node, "size", AsU64, 0),
               size_from_field |-> Optional(node, "size_from", AsWord, ""),
               alignment |-> Optional(node, "align", AsU64, FieldDefinition.alignment),
               is_reserved |-> Ok(field.is_reserved \/ Has(node, "reserved_fill")),
               reserved_fill_byte |-> Optional(node, "reserved_fill", AsU8, 0),
               kind |-> Ok(IF collection THEN "collection" ELSE field.kind),
               fixed_count |-> Optional(node, "count", AsU64, 0),
               count_from_field |-> Optional(node, "count_from", AsWord, ""),
               expected |-> Maybe(node, "expect", AsU64),
               bit_fields |-> Optional(node, "bits", LAMBDA n : Listed(n, parse_bit_field), <<>>),
               checksum |-> Maybe(node, "checksum", parse_checksum),
               condition |-> Maybe(node, "if", parse_condition),
               presence |-> Maybe(node, "present", parse_presence)])

Complete(node, typed) ==
  IF typed.ok THEN Over(FieldParts(node, typed.v), typed.v) ELSE Failed
parse_field(node) ==
  LET Typed(word) == FieldType(node, word, to_lower(word))
  IN IF AsWord(At(node, "type")).ok
       THEN Complete(node, Over(Typed(At(node, "type").word), FieldDefinition))
     ELSE Failed

Layout(node) ==
  [name |-> AsWord(At(node, "name")),
   fields |-> Listed(At(node, "fields"), parse_field),
   validations |-> Optional(node, "validations",
                            LAMBDA n : Listed(n, parse_validation_rule), <<>>)]
Struct(node) == Together(Layout(node))
Message(node) ==
  Together(Layout(node) @@
           "allow_trailing_bytes" :> Optional(node, "allow_trailing_bytes", AsBool, FALSE))

\* A sequence at the root that may be left out; Layouts is for structs and for messages.
parse_layout_sequence(node, key) ==
  IF key = "structs" THEN Optional(node, key, LAMBDA n : Listed(n, Struct), <<>>)
  ELSE Optional(node, key, LAMBDA n : Listed(n, Message), <<>>)

NamedEnum(node, underlying) ==
  IF ~underlying.ok THEN Failed
  ELSE Together([name |-> AsWord(At(node, "name")), width_bytes |-> Ok(underlying.v.width_bytes),
                 byte_order |-> Optional(node, "endianness", parse_byte_order,
                                         underlying.v.byte_order),
                 values |-> parse_enum_values(At(node, "values"))])
Enum(node) == NamedEnum(node, Underlying(node))
parse_enum_sequence(node) == Optional(node, "enums", LAMBDA n : Listed(n, Enum), <<>>)
parse_import_sequence(node) == Optional(node, "imports", LAMBDA n : Listed(n, AsWord), <<>>)

RootName(root, require_root_declaration) ==
  CASE Has(root, "protocol") -> AsWord(At(root, "protocol"))
    [] ~Has(root, "protocol") /\ Has(root, "name") -> AsWord(At(root, "name"))
    [] OTHER -> IF require_root_declaration THEN Failed ELSE Ok("")
Checked(definition, require_root_declaration) ==
  IF definition.ok /\ (require_root_declaration => definition.v.messages # <<>>)
    THEN definition
  ELSE Failed

\* The YAML branch of load_protocol_definition_impl.  An empty text has an undefined root;
\* a text that is no YAML, and one that is a single word, throw.
load_yaml(root, require_root_declaration) ==
  IF root.tag \in {"mapping", "undefined", "list"}
    THEN Checked(Together([name |-> RootName(root, require_root_declaration),
                           imports |-> parse_import_sequence(root),
                           enums |-> parse_enum_sequence(root),
                           structs |-> parse_layout_sequence(root, "structs"),
                           messages |-> parse_layout_sequence(root, "messages")]),
                 require_root_declaration)
  ELSE Failed

=============================================================================
