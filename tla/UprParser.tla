----------------------------- MODULE UprParser ------------------------------
(***************************************************************************)
(* The .upr format: UprLexer and UprParser.                                *)
(*                                                                         *)
(* A text is a sequence of symbols: a symbol is one character, or a run of *)
(* letters that stands for a word.  A parse function takes the tokens and  *)
(* the index of the parser and returns [at, v]: the index it leaves and    *)
(* what it read.  A negative index is an error that was reported at that   *)
(* token; it goes through every later step unchanged, as the early returns *)
(* do.  Which error it is, its wording, is left out.                       *)
(***************************************************************************)
EXTENDS SchemaDefinition

Punctuation == {"{", "}", "[", "]", "(", ")", ":", ",", "@", "!", "*", "=", "<", ">"}
DecimalDigits == {"0", "1", "2", "3", "4", "5", "6", "7", "8", "9"}
HexDigits == DecimalDigits \cup {"A", "F"}
DigitOf == [c \in HexDigits |->
              CASE c = "0" -> 0 [] c = "1" -> 1 [] c = "2" -> 2 [] c = "3" -> 3
                [] c = "4" -> 4 [] c = "5" -> 5 [] c = "6" -> 6 [] c = "7" -> 7
                [] c = "8" -> 8 [] c = "9" -> 9 [] c = "A" -> 10 [] c = "F" -> 15]
Spaces == {" ", "newline"}
Others == {"#", "/", "\"", "'", "\\", "$", "_", ".", "-", "%"}

NoLetters == Punctuation \cup Spaces \cup Others \cup DecimalDigits
isxdigit(c) == c \in HexDigits
isdigit(c) == c \in DecimalDigits
isalpha(c) == c \notin NoLetters

is_identifier_start(c) == isalpha(c) \/ c \in {"_", "$"}
is_identifier_part(c) == isalpha(c) \/ isdigit(c) \/ c \in {"_", ".", "-"}

-----------------------------------------------------------------------------
\* UprLexer.

\* The first position from i on whose symbol fails Test, or the end.
Beyond(text, i, Test(_)) ==
  CHOOSE j \in i..Len(text) + 1 : /\ j > Len(text) \/ ~Test(text[j])
                                  /\ \A k \in i..j - 1 : Test(text[k])

CommentAt(text, i) ==
  i <= Len(text) /\ \/ text[i] = "#"
                    \/ text[i] = "/" /\ i < Len(text) /\ text[i + 1] = "/"

skip_whitespace_and_comments(text, i) ==
  LET skip[j \in 1..Len(text) + 1] ==
        IF CommentAt(text, j) THEN skip[Beyond(text, j, LAMBDA c : c # "newline")]
        ELSE IF j <= Len(text) /\ text[j] \in Spaces THEN skip[j + 1]
        ELSE j
  IN skip[i]

\* A word is the symbols it is made of; one that is no single symbol is none of the words
\* the parser looks for.
Word(symbols) ==
  IF Len(symbols) = 1 THEN symbols[1] ELSE IF symbols = <<>> THEN "" ELSE "other word"

Token(kind, text, next) == [kind |-> kind, text |-> text, next |-> next]

read_identifier(text, i) ==
  LET end == Beyond(text, i, is_identifier_part)
  IN Token("identifier", Word(SubSeq(text, i, end - 1)), end)

read_number(text, i) ==
  LET hex == text[i] = "0" /\ i < Len(text) /\ text[i + 1] = "x"
      end == IF hex THEN Beyond(text, i + 2, isxdigit) ELSE Beyond(text, i, isdigit)
  IN Token(IF hex /\ end = i + 2 THEN "error" ELSE "number", SubSeq(text, i, end - 1), end)

\* The escapes stand for the character they name; "n" and the like are words here.
Escapes == {"\\", "'", "\"", "n", "r", "t"}
read_string(text, i) ==
  LET unescaped[j \in i..Len(text) + 2] ==    \* from j on, up to the next quote or backslash
        LET special == Beyond(text, j, LAMBDA c : c \notin {text[i], "\\"})
            plain == SubSeq(text, j, special - 1)
            Escaped(rest) == [rest EXCEPT !.text = plain \o <<text[special + 1]>> \o @]
        IN CASE j > Len(text) \/ special > Len(text) -> Token("error", <<>>, Len(text))
             [] text[special] = text[i] -> Token("string", plain, special + 1)
             [] OTHER -> IF special < Len(text) /\ text[special + 1] \in Escapes
                           THEN Escaped(unescaped[special + 2])
                         ELSE Token("error", <<>>, special)
      Whole(string) == [string EXCEPT !.text = Word(@)]
  IN Whole(unescaped[i + 1])

read_punctuation(text, i) == Token("punctuation", text[i], i + 1)

\* One turn of the loop in tokenize().
NextToken(text, i) ==
  IF i > Len(text) THEN Token("end", "", i)
  ELSE IF is_identifier_start(text[i]) THEN read_identifier(text, i)
  ELSE IF isdigit(text[i]) THEN read_number(text, i)
  ELSE IF text[i] \in {"\"", "'"} THEN read_string(text, i)
  ELSE IF text[i] \in Punctuation THEN read_punctuation(text, i)
  ELSE Token("error", "", i)

\* The tokens of a text.  A turn that consumes nothing is repeated for ever: the last token
\* is then "spins".  An error ends the loop with the token "error".
RECURSIVE TokensFrom(_, _)
Follow(text, i, token) ==
  IF token.kind \in {"end", "error"} THEN <<[kind |-> token.kind, text |-> ""]>>
  ELSE IF token.next = i THEN <<[kind |-> "spins", text |-> ""]>>
  ELSE <<[kind |-> token.kind, text |-> token.text]>> \o TokensFrom(text, token.next)
TokensFrom(text, i) ==
  LET start == skip_whitespace_and_comments(text, i)
  IN Follow(text, start, NextToken(text, start))
tokenize(text) == TokensFrom(text, 1)

-----------------------------------------------------------------------------
\* UprParser: reading tokens.  A token behind the last one does not exist: C++ would read
\* past the end of the vector.

Read(at, v) == [at |-> at, v |-> v]

Missing == [kind |-> "missing", text |-> ""]
peek(t, i) == IF i \in DOMAIN t THEN t[i] ELSE Missing
At(t, i, kind, text) == i > 0 /\ peek(t, i).kind = kind /\ peek(t, i).text = text
Punct(t, i, text) == At(t, i, "punctuation", text)
error(i) == IF i > 0 THEN -i ELSE i

match_punctuation(t, i, text) == IF Punct(t, i, text) THEN i + 1 ELSE i
expect_punctuation(t, i, text) == IF Punct(t, i, text) THEN i + 1 ELSE error(i)
IsName(t, i) == i > 0 /\ peek(t, i).kind \in {"identifier", "string"}
parse_name_AtEnd(t, i) ==
  IF IsName(t, i) \/ (i > 0 /\ peek(t, i).kind = "end") THEN Read(i + 1, peek(t, i).text)
  ELSE Read(error(i), "")
parse_name(t, i) == IF IsName(t, i) THEN Read(i + 1, peek(t, i).text) ELSE Read(error(i), "")
parse_identifier(t, i) ==
  IF i > 0 /\ peek(t, i).kind = "identifier" THEN Read(i + 1, peek(t, i).text)
  ELSE Read(error(i), "")

\* The value of a number token; stoull() refuses what does not fit.
ValueOf_Decimal(digits) ==
  FoldLeft(LAMBDA n, c : IF n >= U64 THEN n ELSE n * 10 + DigitOf[c], 0, SelectSeq(digits, isxdigit))
ValueOf(digits) ==
  LET base == IF Len(digits) > 1 /\ digits[2] = "x" THEN 16 ELSE 10
  IN FoldLeft(LAMBDA n, c : IF n >= U64 THEN n ELSE n * base + DigitOf[c], 0,
              SelectSeq(digits, isxdigit))

IsNumber(t, i) == i > 0 /\ peek(t, i).kind = "number"
NumberBelow_Inclusive(t, i, limit) ==
  IF IsNumber(t, i) /\ ValueOf(peek(t, i).text) <= limit THEN Read(i + 1, ValueOf(peek(t, i).text))
  ELSE Read(error(i), 0)
NumberBelow(t, i, limit) ==
  IF IsNumber(t, i) /\ ValueOf(peek(t, i).text) < limit THEN Read(i + 1, ValueOf(peek(t, i).text))
  ELSE Read(error(i), 0)
parse_u64(t, i) == NumberBelow(t, i, U64)

peek_punctuation_after_current(t, i, text) == Punct(t, i + 1, text)
SuffixAt(t, i, word) ==
  At(t, i, "identifier", word) /\ peek_punctuation_after_current(t, i, "(")

-----------------------------------------------------------------------------
\* A phrase is read part by part.  A part is [want, as]: a punctuation mark, or something
\* whose value becomes the field "as" of the record that is read.

Mark(mark) == [want |-> "mark", as |-> mark]
Part(want, as) == [want |-> want, as |-> as]

RECURSIVE ReadPart(_, _, _)
Phrase(t, i, parts) ==
  LET Add(read, next) == Read(next.at, next.v @@ read.v)
  IN FoldLeft(LAMBDA read, part : Add(read, ReadPart(t, read.at, part)), Read(i, Nothing), parts)

\* What was read, over the parts that are there anyway.
Over(read, parts) == Read(read.at, read.v @@ parts)

\* while (!match_punctuation("}")) { an item, and a comma that may be left out }
RECURSIVE Items(_, _, _)
Prepend(item, rest) == Read(rest.at, <<item.v>> \o rest.v)
FollowItem(t, item, want) == Prepend(item, Items(t, match_punctuation(t, item.at, ","), want))
Items(t, i, want) ==
  IF i < 0 THEN Read(i, <<>>)
  ELSE IF Punct(t, i, "}") THEN Read(i + 1, <<>>)
  ELSE FollowItem(t, ReadPart(t, i, Part(want, "item")), want)

EnumValue == <<Part("number", "value"), Mark("="), Part("name", "name")>>
parse_enum_body(t, i) == Items(t, i, "enum value")

VariantCase == <<Part("number", "tag_value"), Mark("="), Part("name", "referenced_type")>>
parse_variant_case_body(t, i) == Items(t, i, "variant case")

BitField ==
  <<Part("name", "name"), Mark("@"), Part("byte", "offset_bits"), Mark(":"),
    Part("byte", "width_bits"), Part("signed", "is_signed"), Part("optional body", "enum_values")>>
parse_bit_field_body(t, i) == Items(t, i, "bit field")

parse_checksum_suffix(t, i) ==
  Over(Phrase(t, i, <<Mark("("), Part("identifier", "algorithm"), Part("further name", "from"),
                      Part("further name", "to"), Mark(")")>>),
       ChecksumDefinition)

parse_condition_suffix(t, i) ==
  Phrase(t, i, <<Mark("("), Part("name", "field"), Mark("="), Mark("="), Part("number", "equals"),
                 Mark(")")>>)

parse_presence_suffix(t, i) ==
  Phrase(t, i, <<Mark("("), Part("name", "field"), Mark(","), Part("byte", "bit_index"), Mark(")")>>)

parse_alignment_suffix(t, i) ==
  Phrase(t, i, <<Mark("("), Part("number", "alignment"), Mark(")")>>)

OperatorAt(t, i) ==    \* by the first symbol, without and with a second "="
  LET double == Punct(t, i + 1, "=")
  IN CASE Punct(t, i, "<") -> IF double THEN "le" ELSE "lt"
       [] Punct(t, i, ">") -> IF double THEN "ge" ELSE "gt"
       [] Punct(t, i, "=") /\ double -> "eq"
       [] Punct(t, i, "!") /\ double -> "ne"
       [] OTHER -> "none"
AfterOperator(t, i, op) ==
  CASE op \in {"lt", "gt"} -> i + 1
    [] op \in {"le", "ge", "eq", "ne"} -> i + 2
    [] OTHER -> error(IF Punct(t, i, "=") \/ Punct(t, i, "!") THEN i + 1 ELSE i)
parse_validation_operator_tokens(t, i) ==
  LET Taken(op) == Read(AfterOperator(t, i, op), op) IN Taken(OperatorAt(t, i))

\* What a rule compares with: the name of a field or a number.
Compared(t, i) ==
  IF IsName(t, i) THEN Read(i + 1, [compare_to_field |-> TRUE, other_field |-> peek(t, i).text])
  ELSE Phrase(t, i, <<Part("number", "value")>>)

\* ", if (...)", which may be left out
Conditional(t, i) ==
  IF ~Punct(t, i, ",") THEN Read(i, Nothing)
  ELSE IF ~At(t, i + 1, "identifier", "if") THEN Read(error(i + 1), Nothing)
  ELSE Phrase(t, i + 2, <<Part("condition", "when")>>)

parse_validation_statement(t, i) ==
  Over(Phrase(t, i, <<Mark("("), Part("name", "field"), Part("operator", "op"),
                      Part("compared", ""), Part("multiplier", "multiplier"),
                      Part("conditional", ""), Mark(")")>>),
       RuleDefinition)

\* The unsigned type of an enum sets two parts.
Unsigned(i, type, width) ==
  Read(IF width = 0 THEN error(i) ELSE i, [width_bytes |-> width, byte_order |-> ByteOrder(type)])
Underlying(word) == Unsigned(word.at, to_lower(word.v), EnumWidth(to_lower(word.v)))

-----------------------------------------------------------------------------
\* UprParser: fields.  The type of a field sets several parts of it.

\* [number] or [name of a field], which may be left out
Bracketed(t, i, fixed, referenced) ==
  IF ~Punct(t, i, "[") THEN Read(i, Nothing)
  ELSE Phrase(t, i + 1, <<IF IsNumber(t, i + 1) THEN Part("number", fixed)
                          ELSE Part("name", referenced), Mark("]")>>)

Having(parts, read) == Read(read.at, parts @@ read.v)

parse_optional_size_suffix(t, i) == Bracketed(t, i, "fixed_size", "size_from_field")

parse_optional_count_suffix(t, i) ==
  Having(IF Punct(t, i, "[") THEN [kind |-> "collection"] ELSE [kind |-> "struct"],
         Bracketed(t, i, "fixed_count", "count_from_field"))

Number(i, type, kind, width) == Having([kind |-> kind], Unsigned(i, type, width))

FieldType(t, i, word, type) ==
  CASE type = "bytes" -> Having([kind |-> "bytes"], parse_optional_size_suffix(t, i))
    [] type = "reserved" -> Having([kind |-> "bytes", is_reserved |-> TRUE],
                                   parse_optional_size_suffix(t, i))
    [] type = "string" -> Having([kind |-> "string"], parse_optional_size_suffix(t, i))
    [] type \in {"ascii", "utf8"} -> Having([kind |-> "string", string_encoding |-> type],
                                            parse_optional_size_suffix(t, i))
    [] type = "enum" ->
         Having([kind |-> "enum"], Phrase(t, i, <<Mark("<"), Part("underlying", ""), Mark(">")>>))
    [] type = "variant" ->
         Having([kind |-> "variant"],
                Phrase(t, i, <<Mark("("), Part("name", "tag_from_field"), Mark(")")>>))
    [] Prefix(type) = "uint" -> Number(i, type, "unsigned", parse_width_token(type))
    [] Prefix(type) = "int" -> Number(i, type, "signed", parse_width_token(type))
    [] Prefix(type) = "float32" -> Number(i, type, "float32", 4)
    [] Prefix(type) = "float64" -> Number(i, type, "float64", 8)
    [] OTHER -> Having([referenced_type |-> word], parse_optional_count_suffix(t, i))
NamedType(t, word) ==
  IF word.at < 0 THEN Read(word.at, Nothing) ELSE FieldType(t, word.at, word.v, to_lower(word.v))
parse_field_type(t, i) == NamedType(t, parse_identifier(t, i))

\* One turn of the loop over what may follow a type: the part it sets and its value.
Suffix(t, i, kind) ==
  CASE Punct(t, i, "=") -> Phrase(t, i + 1, <<Part("expected", "expected")>>)
    [] SuffixAt(t, i, "checksum") -> Phrase(t, i + 1, <<Part("checksum", "checksum")>>)
    [] SuffixAt(t, i, "if") -> Phrase(t, i + 1, <<Part("condition", "condition")>>)
    [] SuffixAt(t, i, "present") -> Phrase(t, i + 1, <<Part("presence", "presence")>>)
    [] SuffixAt(t, i, "align") -> parse_alignment_suffix(t, i + 1)
    [] Punct(t, i, "{") ->
         Phrase(t, i, <<IF kind = "enum" THEN Part("value body", "enum_values")
                        ELSE IF kind = "variant" THEN Part("case body", "variant_cases")
                        ELSE Part("bit body", "bit_fields")>>)
    [] OTHER -> Read(i, Nothing)

\* A suffix given again replaces the earlier one.
RECURSIVE FieldSuffixes(_, _, _)
FollowSuffix(t, i, kind, suffix) ==
  IF suffix.at = i THEN suffix
  ELSE Over(FieldSuffixes(t, suffix.at, kind), suffix.v)
FieldSuffixes(t, i, kind) ==
  IF i < 0 THEN Read(i, Nothing) ELSE FollowSuffix(t, i, kind, Suffix(t, i, kind))

WithSuffixes(t, read) ==
  Over(FieldSuffixes(t, read.at, read.v.kind), read.v)
parse_field_definition(t, i) ==
  WithSuffixes(t, Over(Phrase(t, i, <<Part("name", "name"), Mark(":"), Part("type", "")>>),
                       FieldDefinition))

-----------------------------------------------------------------------------
\* UprParser: declarations.

\* What stands in the body of a struct or a message, tagged with where it goes.
Tagged(to, read) == Read(read.at, [to |-> to, v |-> read.v])
LayoutItem(t, i) ==
  IF At(t, i, "identifier", "validate") THEN Tagged("rules", parse_validation_statement(t, i + 1))
  ELSE Tagged("fields", parse_field_definition(t, i))
MessageItem(t, i) ==
  IF At(t, i, "identifier", "allow_trailing_bytes") THEN Tagged("trailing", Read(i + 1, TRUE))
  ELSE LayoutItem(t, i)

Collected(items, to) ==
  LET chosen == SelectSeq(items, LAMBDA item : item.to = to)
  IN [k \in DOMAIN chosen |-> chosen[k].v]
Layout(v) ==
  [name |-> v.name, fields |-> Collected(v.body, "fields"),
   validations |-> Collected(v.body, "rules")]
MessageLayout(v) ==
  Layout(v) @@ "allow_trailing_bytes" :> (v.before \/ Collected(v.body, "trailing") # <<>>)
NoBody == [body |-> <<>>, before |-> FALSE]    \* of a declaration with an error

parse_struct(t, i) ==
  LET Struct(read) == Read(read.at, Layout(read.v))
  IN Struct(Over(Phrase(t, i, <<Part("name", "name"), Mark("{"), Part("struct body", "body")>>),
                 NoBody))

parse_message(t, i) ==
  LET Message(read) == Read(read.at, MessageLayout(read.v))
  IN Message(Over(Phrase(t, i, <<Part("name", "name"), Part("trailing", "before"), Mark("{"),
                                 Part("message body", "body")>>),
                  NoBody))

parse_enum_declaration(t, i) ==
  Phrase(t, i, <<Part("name", "name"), Mark(":"), Part("underlying", ""),
                 Part("value body", "values")>>)

\* The value of one part.
Optional(read) == Read(read.at, <<read.v>>)
Flag(t, i, word) ==
  IF At(t, i, "identifier", word) THEN Read(i + 1, TRUE) ELSE Read(i, FALSE)
Value(t, i, part) ==
  CASE part.want = "name" -> parse_name(t, i)
    [] part.want = "identifier" -> parse_identifier(t, i)
    [] part.want = "number" -> parse_u64(t, i)
    [] part.want = "byte" -> NumberBelow(t, i, U8)
    [] part.want = "expected" -> Optional(parse_u64(t, i))
    [] part.want = "operator" -> parse_validation_operator_tokens(t, i)
    [] part.want = "checksum" -> Optional(parse_checksum_suffix(t, i))
    [] part.want = "condition" -> Optional(parse_condition_suffix(t, i))
    [] part.want = "presence" -> Optional(parse_presence_suffix(t, i))
    [] part.want = "signed" -> Flag(t, i, "signed")
    [] part.want = "trailing" -> Flag(t, i, "allow_trailing_bytes")
    [] part.want = "value body" -> parse_enum_body(t, expect_punctuation(t, i, "{"))
    [] part.want = "optional body" ->
         IF Punct(t, i, "{") THEN parse_enum_body(t, i + 1) ELSE Read(i, <<>>)
    [] part.want = "case body" -> parse_variant_case_body(t, expect_punctuation(t, i, "{"))
    [] part.want = "bit body" -> parse_bit_field_body(t, expect_punctuation(t, i, "{"))
    [] part.want = "struct body" -> Items(t, i, "struct item")
    [] part.want = "message body" -> Items(t, i, "message item")

\* One part: its value under the name "as", or the parts that it sets itself, or an item.
ReadPart(t, i, part) ==
  LET As(read) == Read(read.at, part.as :> read.v)
  IN CASE i < 0 -> Read(i, Nothing)
       [] part.want = "mark" -> Read(expect_punctuation(t, i, part.as), Nothing)
       [] part.want = "type" -> parse_field_type(t, i)
       [] part.want = "underlying" -> Underlying(parse_identifier(t, i))
       [] part.want = "compared" -> Compared(t, i)
       [] part.want = "conditional" -> Conditional(t, i)
       [] part.want = "further name" ->
            IF Punct(t, i, ",") THEN As(parse_name(t, i + 1)) ELSE Read(i, Nothing)
       [] part.want = "multiplier" ->
            IF Punct(t, i, "*") THEN As(parse_u64(t, i + 1)) ELSE Read(i, Nothing)
       [] part.want = "enum value" -> Phrase(t, i, EnumValue)
       [] part.want = "variant case" -> Phrase(t, i, VariantCase)
       [] part.want = "bit field" -> Phrase(t, i, BitField)
       [] part.want = "struct item" -> LayoutItem(t, i)
       [] part.want = "message item" -> MessageItem(t, i)
       [] OTHER -> As(Value(t, i, part))

-----------------------------------------------------------------------------
\* UprParser: the whole text.

\* One turn of the loop in parse().
Declaration(t, i, named) ==
  CASE At(t, i, "identifier", "protocol") ->
         Tagged("name", IF named THEN Read(error(i + 1), "") ELSE parse_name(t, i + 1))
    [] At(t, i, "identifier", "import") -> Tagged("imports", parse_name(t, i + 1))
    [] At(t, i, "identifier", "enum") -> Tagged("enums", parse_enum_declaration(t, i + 1))
    [] At(t, i, "identifier", "struct") -> Tagged("structs", parse_struct(t, i + 1))
    [] At(t, i, "identifier", "message") -> Tagged("messages", parse_message(t, i + 1))
    [] OTHER -> Tagged("none", Read(error(i), ""))

RECURSIVE Declarations(_, _, _)
AfterDeclaration(t, item) ==    \* a comma may follow an import
  IF item.v.to = "imports" THEN match_punctuation(t, item.at, ",") ELSE item.at
FollowDeclaration(t, item, named) ==
  Prepend(item, Declarations(t, AfterDeclaration(t, item),
                             named \/ (item.v.to = "name" /\ item.v.v # "")))
Declarations(t, i, named) ==
  IF i < 0 \/ At(t, i, "end", "") THEN Read(i, <<>>)
  ELSE FollowDeclaration(t, Declaration(t, i, named), named)

Protocol(items) ==
  LET Named(names) == IF names = <<>> THEN "" ELSE Last(names)
  IN [name |-> Named(Collected(items, "name")), imports |-> Collected(items, "imports"),
      enums |-> Collected(items, "enums"), structs |-> Collected(items, "structs"),
      messages |-> Collected(items, "messages")]

Parsed(at, definition, require_root_declaration) ==
  [at |-> at, v |-> definition,
   ok |-> at > 0 /\ (require_root_declaration => definition.name # "" /\ definition.messages # <<>>)]
parse(t, require_root_declaration) ==
  LET Whole(read) == Parsed(read.at, IF read.at < 0 THEN ProtocolDefinition ELSE Protocol(read.v),
                            require_root_declaration)
  IN Whole(Declarations(t, 1, FALSE))

=============================================================================
