---------------------------- MODULE SchemaAuthor ----------------------------
(***************************************************************************)
(* How the author of a schema writes a protocol down, in either format.    *)
(*                                                                         *)
(* A written protocol is a ProtocolDefinition whose fields and enums have  *)
(* their type word beside them: [type, def].  Only what both formats can   *)
(* express is written: no endianness key, no reserved fill, counts for     *)
(* collections of structs only.                                            *)
(***************************************************************************)
EXTENDS SchemaDefinition

\* What a written protocol declares.
Fields(layout) == [k \in DOMAIN layout.fields |-> layout.fields[k].def]
Declared(written) ==
  [written EXCEPT !.enums = [k \in DOMAIN @ |-> @[k].def],
                  !.structs = [k \in DOMAIN @ |-> [@[k] EXCEPT !.fields = Fields(written.structs[k])]],
                  !.messages = [k \in DOMAIN @ |-> [@[k] EXCEPT !.fields = Fields(written.messages[k])]]]

-----------------------------------------------------------------------------
\* The .upr format: a sequence of lexemes, each a sequence of symbols.

Digits == <<"0", "1", "2", "3", "4", "5", "6", "7", "8", "9">>
Decimal(n) ==
  LET digits[m \in 0..n] ==
        IF m < 10 THEN <<Digits[m + 1]>> ELSE digits[m \div 10] \o <<Digits[(m % 10) + 1]>>
  IN digits[n]
Literal(n) == IF n = 31 THEN <<"0", "x", "1", "F">> ELSE Decimal(n)

\* A name that the parser would take for a keyword is quoted.
Name(name) == IF name \in {"validate", "allow_trailing_bytes"} THEN <<"\"", name, "\"">> ELSE <<name>>

Marks(marks) == [k \in DOMAIN marks |-> <<marks[k]>>]    \* punctuation and keywords
Joined(seqs) == FlattenSeq(seqs)
Separated(items) == Joined([k \in DOMAIN items |-> items[k] \o Marks(<<",">>)])

UprValues(values) ==
  Separated([k \in DOMAIN values |-> <<Literal(values[k].value), <<"=">>, Name(values[k].name)>>])
UprCondition(c) ==
  Marks(<<"if", "(">>) \o <<Name(c.field)>> \o Marks(<<"=", "=">>) \o <<Literal(c.equals), <<")">>>>
UprBits(bits) ==
  Joined([k \in DOMAIN bits |->
            <<Name(bits[k].name), <<"@">>, Literal(bits[k].offset_bits), <<":">>,
              Literal(bits[k].width_bits)>>
            \o (IF bits[k].is_signed THEN Marks(<<"signed">>) ELSE <<>>)
            \o (IF bits[k].enum_values = <<>> THEN <<>>
                ELSE Marks(<<"{">>) \o UprValues(bits[k].enum_values) \o Marks(<<"}">>))])

UprType(field) ==
  LET def == field.def
      bracket == IF def.size_from_field # "" THEN <<Name(def.size_from_field)>>
                 ELSE IF def.count_from_field # "" THEN <<Name(def.count_from_field)>>
                 ELSE IF def.fixed_size # 0 THEN <<Literal(def.fixed_size)>>
                 ELSE IF def.fixed_count # 0 THEN <<Literal(def.fixed_count)>> ELSE <<>>
      cases == [k \in DOMAIN def.variant_cases |->
                  [value |-> def.variant_cases[k].tag_value,
                   name |-> def.variant_cases[k].referenced_type]]
  IN CASE def.kind = "enum" -> Marks(<<"enum", "<", field.type, ">", "{">>)
                                 \o UprValues(def.enum_values) \o Marks(<<"}">>)
       [] def.kind = "variant" ->
            Marks(<<"variant", "(">>) \o <<Name(def.tag_from_field)>> \o Marks(<<")", "{">>)
              \o UprValues(cases) \o Marks(<<"}">>)
       [] OTHER -> Marks(<<IF def.kind = "string" THEN def.string_encoding ELSE field.type>>)
                     \o (IF bracket = <<>> THEN <<>>
                         ELSE Marks(<<"[">>) \o bracket \o Marks(<<"]">>))

UprSuffixes(def) ==
  LET Each(optional, Write(_)) == IF optional = <<>> THEN <<>> ELSE Write(optional[1])
      checksum(c) == Marks(<<"checksum", "(", c.algorithm>>)
                       \o (IF c.from = "frame_start" /\ c.to = "before_self" THEN <<>>
                           ELSE <<<<",">>, Name(c.from), <<",">>, Name(c.to)>>) \o Marks(<<")">>)
      presence(p) == Marks(<<"present", "(">>)
                       \o <<Name(p.field), <<",">>, Literal(p.bit_index), <<")">>>>
      expected(n) == <<<<"=">>, Literal(n)>>
  IN Each(def.expected, expected) \o Each(def.checksum, checksum)
       \o Each(def.condition, UprCondition) \o Each(def.presence, presence)
       \o (IF def.alignment = 1 THEN <<>>
           ELSE Marks(<<"align", "(">>) \o <<Literal(def.alignment), <<")">>>>)
       \o (IF def.bit_fields = <<>> THEN <<>>
           ELSE Marks(<<"{">>) \o UprBits(def.bit_fields) \o Marks(<<"}">>))

Operators == [eq |-> <<"=", "=">>, ne |-> <<"!", "=">>, lt |-> <<"<">>, le |-> <<"<", "=">>,
              gt |-> <<">">>, ge |-> <<">", "=">>]
UprRule(rule) ==
  Marks(<<"validate", "(">>) \o <<Name(rule.field)>> \o Marks(Operators[rule.op])
    \o <<IF rule.compare_to_field THEN Name(rule.other_field) ELSE Literal(rule.value)>>
    \o (IF rule.multiplier = 1 THEN <<>> ELSE <<<<"*">>, Literal(rule.multiplier)>>)
    \o (IF rule.when = <<>> THEN <<>> ELSE Marks(<<",">>) \o UprCondition(rule.when[1]))
    \o Marks(<<")">>)

UprLayout(keyword, layout, trailing) ==
  <<<<keyword>>, Name(layout.name)>>
    \o Marks(IF trailing THEN <<"{", "allow_trailing_bytes", ",">> ELSE <<"{">>)
    \o Joined([k \in DOMAIN layout.fields |->
                 <<Name(layout.fields[k].def.name), <<":">>>> \o UprType(layout.fields[k])
                   \o UprSuffixes(layout.fields[k].def)])
    \o Separated([k \in DOMAIN layout.validations |-> UprRule(layout.validations[k])])
    \o Marks(<<"}">>)

UprLexemes(written) ==
  (IF written.name = "" THEN <<>> ELSE <<<<"protocol">>, Name(written.name)>>)
    \o Joined([k \in DOMAIN written.imports |->
                 <<<<"import">>, <<"'", written.imports[k], "'">>>>])
    \o Joined([k \in DOMAIN written.enums |->
                 <<<<"enum">>, Name(written.enums[k].def.name)>>
                   \o Marks(<<":", written.enums[k].type, "{">>)
                   \o UprValues(written.enums[k].def.values) \o Marks(<<"}">>)])
    \o Joined([k \in DOMAIN written.structs |-> UprLayout("struct", written.structs[k], FALSE)])
    \o Joined([k \in DOMAIN written.messages |->
                 UprLayout("message", written.messages[k], written.messages[k].allow_trailing_bytes)])

\* A text has comments before and after its lexemes, which are a space apart.
UprText(written) ==
  LET lexemes == UprLexemes(written)
  IN <<"#", "\"", "$", "newline">> \o Joined([k \in DOMAIN lexemes |-> lexemes[k] \o <<" ">>])
       \o <<"/", "/", "{">>

-----------------------------------------------------------------------------
\* The YAML format: constructors of YamlSchema's nodes.

Y == INSTANCE YamlSchema

Key(condition, key, node) == IF condition THEN key :> node ELSE Nothing
Words(record, names) ==    \* keys whose value is a word; names: part -> key
  [key \in {names[part] : part \in {p \in DOMAIN names : record[p] # ""}} |->
     Y!Scalar(record[CHOOSE part \in DOMAIN names : names[part] = key])]

YamlRows(rows, number, word) ==
  Y!Table([k \in DOMAIN rows |-> <<rows[k][number], Y!Scalar(rows[k][word])>>])
YamlList(items, Write(_)) == Y!List([k \in DOMAIN items |-> Write(items[k])])

YamlCondition(c) == Y!Mapping([field |-> Y!Scalar(c.field), equals |-> Y!Numeral(c.equals)])
YamlPresence(p) == Y!Mapping([field |-> Y!Scalar(p.field), bit |-> Y!Numeral(p.bit_index)])
YamlChecksum(c) ==
  Y!Mapping("algorithm" :> Y!Scalar(c.algorithm)
            @@ Key(c.from # "frame_start", "from", Y!Scalar(c.from))
            @@ Key(c.to # "before_self", "to", Y!Scalar(c.to)))
YamlBit(b) ==
  Y!Mapping([name |-> Y!Scalar(b.name), offset |-> Y!Numeral(b.offset_bits),
             width |-> Y!Numeral(b.width_bits)]
            @@ Key(b.is_signed, "signed", Y!Truth(TRUE))
            @@ Key(b.enum_values # <<>>, "values", YamlRows(b.enum_values, "value", "name")))
YamlRule(r) ==
  Y!Mapping([field |-> Y!Scalar(r.field), op |-> Y!Scalar(r.op)]
            @@ (IF r.compare_to_field THEN "other_field" :> Y!Scalar(r.other_field)
                ELSE "value" :> Y!Numeral(r.value))
            @@ Key(r.multiplier # 1, "multiplier", Y!Numeral(r.multiplier))
            @@ Key(r.when # <<>>, "if", YamlCondition(r.when[1])))

YamlField(field) ==
  LET def == field.def
      Each(key, optional, Write(_)) == IF optional = <<>> THEN Nothing ELSE key :> Write(optional[1])
      Count(key, n, default) == Key(n # default, key, Y!Numeral(n))
      builtin == def.kind \in {"enum", "variant"}
  IN Y!Mapping([name |-> Y!Scalar(def.name), type |-> Y!Scalar(IF builtin THEN def.kind ELSE field.type)]
       @@ Words(def, [size_from_field |-> "size_from", count_from_field |-> "count_from",
                      tag_from_field |-> "tag_from"])
       @@ Key(def.kind = "enum", "underlying", Y!Scalar(field.type))
       @@ Key(def.kind = "enum", "values", YamlRows(def.enum_values, "value", "name"))
       @@ Key(def.kind = "variant", "cases",
              YamlRows(def.variant_cases, "tag_value", "referenced_type"))
       @@ Key(def.kind = "string", "encoding", Y!Scalar(def.string_encoding))
       @@ Count("size", def.fixed_size, 0) @@ Count("count", def.fixed_count, 0)
       @@ Count("align", def.alignment, 1)
       @@ Each("expect", def.expected, Y!Numeral) @@ Each("checksum", def.checksum, YamlChecksum)
       @@ Each("if", def.condition, YamlCondition) @@ Each("present", def.presence, YamlPresence)
       @@ Key(def.bit_fields # <<>>, "bits", YamlList(def.bit_fields, YamlBit)))

YamlLayout(layout, trailing) ==
  Y!Mapping([name |-> Y!Scalar(layout.name), fields |-> YamlList(layout.fields, YamlField)]
            @@ Key(layout.validations # <<>>, "validations", YamlList(layout.validations, YamlRule))
            @@ Key(trailing, "allow_trailing_bytes", Y!Truth(TRUE)))
YamlEnum(e) ==
  Y!Mapping([name |-> Y!Scalar(e.def.name), underlying |-> Y!Scalar(e.type),
             values |-> YamlRows(e.def.values, "value", "name")])

YamlTree(written) ==
  Y!Mapping(Words(written, [name |-> "protocol"])
    @@ Key(written.imports # <<>>, "imports", YamlList(written.imports, Y!Scalar))
    @@ Key(written.enums # <<>>, "enums", YamlList(written.enums, YamlEnum))
    @@ Key(written.structs # <<>>, "structs",
           YamlList(written.structs, LAMBDA layout : YamlLayout(layout, FALSE)))
    @@ Key(written.messages # <<>>, "messages",
           YamlList(written.messages, LAMBDA m : YamlLayout(m, m.allow_trailing_bytes))))

=============================================================================
