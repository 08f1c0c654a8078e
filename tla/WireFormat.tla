----------------------------- MODULE WireFormat -----------------------------
(***************************************************************************)
(* What the compiler, the decoders and the encoders share: alignment, the  *)
(* byte order of scalars, text validation, checksums, anchors and          *)
(* validation rules.                                                       *)
(*                                                                         *)
(* A byte is a number below ByteBase (256 in the code).  A uint64_t is a   *)
(* number below WordBase, the values of the widest scalar.  A field is     *)
(* named by its position in its layout, from 1.  An optional value is <<>> *)
(* or <<v>>.                                                               *)
(***************************************************************************)
EXTENDS Integers, SequencesExt

CONSTANTS
  ByteBase,      \* number of values of a byte
  ScalarWidths,  \* the widths a scalar may have, in bytes ({1, 2, 4, 8} in the code)
  FloatWidths    \* those a float may have ({4, 8})

ASSUME WireAssumption ==
  /\ ByteBase \in Nat /\ ByteBase > 0 /\ ByteBase % 4 = 0
  /\ ScalarWidths # {} /\ ScalarWidths \subseteq 1..8 /\ FloatWidths \subseteq ScalarWidths

Bytes == 0..(ByteBase - 1)

\* The number of values that so many bytes have.
Values(width) ==
  LET power[n \in 0..width] == IF n = 0 THEN 1 ELSE ByteBase * power[n - 1]
  IN  power[width]
WordBase == Values(Max(ScalarWidths))

Has(optional) == optional # <<>>

\* The least multiple of the alignment that is not below the offset.
AlignUp(offset, alignment) ==
  IF alignment <= 1 \/ offset % alignment = 0 THEN offset
  ELSE offset + (alignment - (offset % alignment))

\* frame.subspan(offset, size)
Slice(frame, offset, size) == SubSeq(frame, offset + 1, offset + size)
Rest(frame, offset) == SubSeq(frame, offset + 1, Len(frame))

Zeros(n) == [i \in 1..n |-> 0]

\* The bytes from the offset replaced by the patch; what is past the end is added.
Overwrite(bytes, offset, patch) ==
  SubSeq(bytes, 1, offset) \o patch \o Rest(bytes, offset + Len(patch))

\* The low bytes of a value, in the byte order of the field; what does not fit
\* is cut off.
WriteUnsigned(value, width, order) ==
  LET shifted[i \in 0..width] == IF i = 0 THEN value ELSE shifted[i - 1] \div ByteBase
      little == [i \in 1..width |-> shifted[i - 1] % ByteBase]
  IN  IF order = "little" THEN little ELSE Reverse(little)

ReadUnsigned(bytes, order) ==
  LET big == IF order = "little" THEN Reverse(bytes) ELSE bytes
      value[i \in 0..Len(bytes)] == IF i = 0 THEN 0 ELSE value[i - 1] * ByteBase + big[i]
  IN  value[Len(bytes)]

SignExtend(value, width) ==
  IF value < Values(width) \div 2 THEN value ELSE value - Values(width)

Bit(value, index) == (value \div 2 ^ index) % 2 = 1

\* UTF-8 with characters of one and of two bytes: a byte of the third quarter
\* continues a character, one of the last quarter starts a character of two.
IsAscii(bytes) == \A i \in DOMAIN bytes : bytes[i] < ByteBase \div 2
IsContinuation(byte) == byte >= ByteBase \div 2 /\ byte < (3 * ByteBase) \div 4
IsLead(byte) == byte >= (3 * ByteBase) \div 4
IsUtf8(bytes) ==
  \A i \in DOMAIN bytes :
    /\ IsLead(bytes[i]) => i < Len(bytes) /\ IsContinuation(bytes[i + 1])
    /\ IsContinuation(bytes[i]) => i > 1 /\ IsLead(bytes[i - 1])

ValidText(encoding, bytes) == IF encoding = "ascii" THEN IsAscii(bytes) ELSE IsUtf8(bytes)

\* Stands for every checksum algorithm of the registry: a number of the width
\* of its field that depends on every byte and on their order.
Digest(bytes, width) ==
  LET sum[i \in 0..Len(bytes)] ==
        IF i = 0 THEN 0 ELSE (3 * sum[i - 1] + bytes[i] + 1) % Values(width)
  IN  sum[Len(bytes)]

\* The offset a checksum anchor stands for, given where each field starts and ends.
AnchorOffset(anchor, starts, ends, total) ==
  CASE anchor.kind = "frame_start" -> 0
    [] anchor.kind = "frame_end" -> total
    [] anchor.kind \in {"field_start", "before_self"} -> starts[anchor.field]
    [] OTHER -> ends[anchor.field]

ComparisonHolds(op, lhs, rhs) ==
  CASE op = "eq" -> lhs = rhs
    [] op = "ne" -> lhs # rhs
    [] op = "lt" -> lhs < rhs
    [] op = "le" -> lhs <= rhs
    [] op = "gt" -> lhs > rhs
    [] OTHER -> lhs >= rhs

\* The outcome of one rule over the raw unsigned values known: "skipped" (its
\* when clause does not hold), "unknown" (a value it compares is missing),
\* "holds" or "fails".  The product wraps like uint64_t.
RuleOutcome(rule, scalars) ==
  LET known(f) == f \in DOMAIN scalars
      right == IF Has(rule.other) THEN scalars[rule.other[1]] ELSE rule.value
  IN  IF Has(rule.when)
         /\ ~(known(rule.when[1].field) /\ scalars[rule.when[1].field] = rule.when[1].equals)
      THEN "skipped"
      ELSE IF ~known(rule.field) \/ (Has(rule.other) /\ ~known(rule.other[1])) THEN "unknown"
      ELSE IF ComparisonHolds(rule.op, scalars[rule.field],
                              (right * rule.multiplier) % WordBase)
      THEN "holds" ELSE "fails"

=============================================================================
