-------------------------- MODULE SchemaDefinition --------------------------
(***************************************************************************)
(* What the two schema formats share: the definition of a protocol that    *)
(* both loaders build, and the reading of type words, which the .upr       *)
(* parser and the YAML loader do alike.                                    *)
(*                                                                         *)
(* A word of a schema is a string that is never taken apart.  What the     *)
(* code sees in it is given by tables: LowerCase holds the words that      *)
(* to_lower() changes, TypeWords the words that look like a number type.   *)
(***************************************************************************)
EXTENDS Integers, SequencesExt

CONSTANTS
  LowerCase,    \* word -> word, for the words with capitals
  TypeWords,    \* word -> [prefix, digits, big], for the words that begin like a number type,
                \* or have "_be" in them
  U8, U32, U64  \* the number of values of the integer types, scaled down

ASSUME WidthAssumption == U8 \in Nat \ {0} /\ U32 \in Nat \ {0} /\ U64 \in Nat \ {0}
ASSUME WordAssumption ==
  /\ \A w \in DOMAIN LowerCase : LowerCase[w] # w
  /\ \A w \in DOMAIN TypeWords : /\ TypeWords[w].prefix \in {"uint", "int", "float32", "float64", ""}
                                 /\ TypeWords[w].big \in BOOLEAN

\* The definitions nothing was set in; an optional part is a sequence of at most one.
FieldDefinition ==
  [name |-> "", kind |-> "unsigned", width_bytes |-> 0, byte_order |-> "little",
   string_encoding |-> "ascii", fixed_size |-> 0, size_from_field |-> "",
   referenced_type |-> "", alignment |-> 1, is_reserved |-> FALSE,
   reserved_fill_byte |-> 0, fixed_count |-> 0, count_from_field |-> "",
   tag_from_field |-> "", expected |-> <<>>, enum_values |-> <<>>,
   bit_fields |-> <<>>, checksum |-> <<>>, condition |-> <<>>,
   presence |-> <<>>, variant_cases |-> <<>>]

ChecksumDefinition == [algorithm |-> "", from |-> "frame_start", to |-> "before_self"]

RuleDefinition ==
  [field |-> "", op |-> "eq", other_field |-> "", compare_to_field |-> FALSE,
   value |-> 0, multiplier |-> 1, when |-> <<>>]

ProtocolDefinition ==
  [name |-> "", imports |-> <<>>, enums |-> <<>>, structs |-> <<>>, messages |-> <<>>]

Nothing == [f \in {} |-> 0]    \* the record without fields

to_lower(word) == IF word \in DOMAIN LowerCase THEN LowerCase[word] ELSE word

Prefix(type) == IF type \in DOMAIN TypeWords THEN TypeWords[type].prefix ELSE ""
ByteOrder(type) ==
  IF type \in DOMAIN TypeWords /\ TypeWords[type].big THEN "big" ELSE "little"

\* The width in bytes that a type word such as uint16 names, 0 when the word is refused.
\* The digits end at the first underscore; a digit 10 stands for any other character.
parse_width_token(type) ==
  LET digits == TypeWords[type].digits
      bits == FoldLeft(LAMBDA n, d : (n * 10 + d) % U32, 0, digits)
  IN IF 10 \in ToSet(digits) \/ bits % 8 # 0 \/ bits \div 8 >= U8 THEN 0 ELSE bits \div 8

\* The width of an enum; its underlying type has to be an unsigned number.
EnumWidth(type) == IF Prefix(type) = "uint" THEN parse_width_token(type) ELSE 0

=============================================================================
