--------------------------- MODULE MCMessageCodec ---------------------------
(***************************************************************************)
(* Protocol definitions for MessageCodec, small enough for every frame to  *)
(* be tried: a byte has 4 values, so 0 and 1 are ASCII, 3 followed by 2 is *)
(* a character of two bytes.                                               *)
(***************************************************************************)
EXTENDS MessageCodec

Field(parts) == parts @@ FieldDefinition
Plain(fields) == [fields |-> fields, rules |-> <<>>, trailing |-> FALSE]

U8 == FieldDefinition
U16(order) == Field([width |-> 2, order |-> order])
Constant(value) == Field([expect |-> <<value>>])
Dynamic(kind, from) == Field([kind |-> kind, size_from |-> <<from>>])
Float(width) == Field([kind |-> "float", width |-> width])
Fixed(kind, size) == Field([kind |-> kind, size |-> size])
StructOf(type) == Field([kind |-> "struct", type |-> type])
Many(type, from) == Field([kind |-> "collection", type |-> type, count_from |-> <<from>>])
Array(type, count) == Field([kind |-> "collection", type |-> type, count |-> count])
Variant(from, cases) == Field([kind |-> "variant", tag_from |-> <<from>>, cases |-> cases])
Filler(size, fill) == Field([kind |-> "bytes", size |-> size, reserved |-> TRUE, fill |-> fill])
Sum(from, to) ==
  LET anchor(kind) == [kind |-> kind, field |-> 1]
  IN  Field([checksum |-> <<[width |-> 1, from |-> anchor(from), to |-> anchor(to)]>>])
If(field, equals) == [condition |-> <<[field |-> field, equals |-> equals]>>]
IfBit(field, bit) == [presence |-> <<[field |-> field, bit |-> bit]>>]
Aligned(alignment) == [alignment |-> alignment]
Case(tag, type) == [tag |-> tag, type |-> type]
Rule(field, op, value) ==
  [field |-> field, op |-> op, value |-> value, other |-> <<>>, multiplier |-> 1, when |-> <<>>]

\* Two messages that start with the same constant, one with two, and one tried
\* for any frame.
Frames ==
  [structs |-> <<>>,
   messages |-> <<Plain(<<Constant(1), U8, Dynamic("bytes", 2),
                          Sum("frame_start", "before_self")>>),
                  Plain(<<Constant(1), Constant(2), U8>>),
                  Plain(<<Constant(2), U8, Dynamic("string", 2) >>),
                  [Plain(<<U8, Fixed("bytes", 1)>>) EXCEPT !.trailing = TRUE]>>]

\* Floats after bytes of any number, by themselves and in structs.
Floats ==
  [structs |-> <<Plain(<<U8, Dynamic("bytes", 1), Float(1)>>)>>,
   messages |-> <<Plain(<<U8, Dynamic("bytes", 1), Float(2)>>), Plain(<<U8, Many(1, 1)>>),
                  Plain(<<U8, IfBit(1, 0) @@ Float(2), U8>>)>>]

\* Fields that are there or not, and bytes with a fixed content.
Gates ==
  [structs |-> <<>>,
   messages |-> <<Plain(<<U8, If(1, 3) @@ U8, IfBit(1, 1) @@ U16("big"),
                          Aligned(2) @@ Filler(1, 3)>>)>>]

\* Checksums over what follows, and one over another, one over itself.
Sums ==
  [structs |-> <<>>,
   messages |-> <<Plain(<<Sum("after_self", "frame_end"), U8, Dynamic("bytes", 2)>>),
                  Plain(<<U8, Aligned(2) @@ Constant(1), Sum("frame_start", "before_self"),
                          Sum("field_start", "before_self")>>),
                  Plain(<<U8, Sum("frame_start", "frame_end")>>)>>]

\* Structs in structs.
Structs ==
  [structs |-> <<Plain(<<U8, Dynamic("bytes", 1)>>), Plain(<<StructOf(1), U8>>),
                 Plain(<<U8, Aligned(2) @@ U8>>),
                 Plain(<<U8, Dynamic("bytes", 1), Sum("field_start", "before_self")>>)>>,
   messages |-> <<Plain(<<StructOf(2), U8>>), Plain(<<U8, StructOf(3)>>),
                  Plain(<<U8, Many(4, 1)>>)>>]

\* Elements of one size and of varying size.
Collections ==
  [structs |-> <<Plain(<<U8, Aligned(2) @@ U8>>), Plain(<<U8, Dynamic("string", 1)>>)>>,
   messages |-> <<Plain(<<U8, Many(1, 1)>>), Plain(<<U8, Many(2, 1)>>),
                  Plain(<<Array(2, 2)>>)>>]

\* Cases looked up in a table and by search, of sizes that differ.
Variants ==
  [structs |-> <<Plain(<<U8>>), Plain(<<U8, U8>>)>>,
   messages |-> <<[Plain(<<U8, Variant(1, <<Case(1, 1), Case(0, 2)>>)>>) EXCEPT !.trailing = TRUE],
                  Plain(<<U8, Variant(1, <<Case(3, 1), Case(0, 2)>>), U8>>),
                  Plain(<<U8, Variant(1, <<Case(3, 1), Case(2, 1)>>), U8>>)>>]

\* Rules between fields.
Rules ==
  [structs |-> <<>>,
   messages |-> <<[Plain(<<U8, U16("little"), U8>>) EXCEPT
      !.rules = <<[Rule(1, "lt", 0) EXCEPT !.other = <<2>>, !.multiplier = 5],
                  [Rule(3, "ge", 2) EXCEPT !.when = <<[field |-> 1, equals |-> 1]>>]>>]>>]

\* Signed numbers and text.
Texts ==
  [structs |-> <<>>,
   messages |-> <<Plain(<<Field([kind |-> "signed"]), U8,
                          [Dynamic("string", 2) EXCEPT !.encoding = "utf8"],
                          Field([kind |-> "signed", width |-> 2, order |-> "big"])>>),
                  Plain(<<Fixed("string", 2), U8>>)>>]

\* A field with two gates, one gated by a field that may be absent, two cases of
\* one tag.
Unusual ==
  [structs |-> <<Plain(<<U8>>), Plain(<<U8, U8>>)>>,
   messages |-> <<Plain(<<U8, If(1, 1) @@ U8, If(2, 0) @@ IfBit(1, 0) @@ U8>>),
                  Plain(<<U8, Variant(1, <<Case(1, 1), Case(1, 2)>>)>>)>>]

\* Definitions the compiler refuses: a struct in itself, a size that comes late.
Refused_ ==
  {[structs |-> <<Plain(<<U8, StructOf(1)>>)>>, messages |-> <<Plain(<<StructOf(1)>>)>>],
    [structs |-> <<>>, messages |-> <<Plain(<<Dynamic("bytes", 2), U8>>)>>]}

MCDefinitions ==
  {Frames, Floats, Gates, Sums, Structs, Collections, Variants, Rules, Texts, Unusual} \cup Refused_

MCNumbers == {-1, 0, 1, 2, 3, 5}
MCPayloads == {<<>>, <<1>>, <<0, 1>>, <<3, 2>>, <<2, 3, 1>>}
MCScalarWidths == {1, 2}

\* A field the caller sets after a byte, with an alignment of two.
MCAlignmentDefinitions ==
  {[structs |-> <<>>, messages |-> <<Plain(<<U8, Aligned(2) @@ U8>>)>>]}

\* Bytes of any number, then a float.
MCLanguageDefinitions ==
  {[structs |-> <<>>, messages |-> <<Plain(<<U8, Dynamic("bytes", 1), Float(1)>>)>>]}

=============================================================================
