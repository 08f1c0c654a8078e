-------------------------- MODULE MessageBuilders --------------------------
(***************************************************************************)
(* MessageBuilder, which writes a message into one buffer, and             *)
(* SegmentedMessageBuilder, which writes it as a list of segments, some in *)
(* a scratch buffer and some borrowed from the caller.                     *)
(*                                                                         *)
(* A builder is a record: the next field, the status of the last call, the *)
(* flags failed and finalized, where each written field starts and ends,   *)
(* the raw value of each written scalar, and the output: "bytes", or       *)
(* "segments" with the segment of each field and the scratch bytes used.   *)
(***************************************************************************)
EXTENDS SchemaCompiler

CONSTANT
  BufferSize      \* the buffer of a MessageBuilder, the scratch buffer of the other

ASSUME BuilderAssumption == BufferSize \in Nat

\* SegmentedMessageBuilder::kMaxSegments
MaxSegments == 2 * MaxFields + 1

Refused(builder) == [builder EXCEPT !.status = "invalid_data"]
Fails(builder, status) == [builder EXCEPT !.status = status, !.failed = TRUE]

-----------------------------------------------------------------------------
\* MessageBuilder

NewContiguous(layout) ==
  LET none == [i \in DOMAIN layout.fields |-> 0]
  IN  [next |-> 1, status |-> "ok", failed |-> FALSE, finalized |-> FALSE,
       starts |-> none, ends |-> none, written |-> none, bytes |-> <<>>]

ContiguousPut(builder, i, bytes) ==
  IF Len(bytes) > BufferSize - Len(builder.bytes) THEN Fails(builder, "buffer_too_small")
  ELSE [builder EXCEPT !.bytes = @ \o bytes, !.status = "ok",
                       !.starts[i] = Len(builder.bytes),
                       !.ends[i] = Len(builder.bytes) + Len(bytes)]

ContiguousPad(layout, builder, i) ==
  LET aligned == AlignUp(Len(builder.bytes), layout.fields[i].alignment)
  IN  IF aligned > BufferSize THEN Fails(builder, "buffer_too_small")
      ELSE [builder EXCEPT !.bytes = @ \o Zeros(aligned - Len(@))]

\* The placeholder of a checksum is left as it is.
ContiguousPatch_None(layout, builder, i, digest) == builder

ContiguousPatch(layout, builder, i, digest) ==
  [builder EXCEPT !.bytes = Overwrite(@, builder.starts[i],
     WriteUnsigned(digest, layout.fields[i].width, layout.fields[i].order))]

-----------------------------------------------------------------------------
\* SegmentedMessageBuilder

NewSegmented(layout) ==
  LET none == [i \in DOMAIN layout.fields |-> 0]
  IN  [next |-> 1, status |-> "ok", failed |-> FALSE, finalized |-> FALSE,
       starts |-> none, ends |-> none, written |-> none,
       segments |-> <<>>, scratch |-> 0, segment |-> none]

Joined(builder) == FlattenSeq(builder.segments)

\* What a segment holds: bytes copied to the scratch buffer, bytes borrowed from
\* the caller, or a scalar written to the scratch buffer.
Storages == {"owned", "borrowed", "scalar"}

\* append_scalar() does not ask whether the table has room.
AppendSegment(builder, bytes, storage) ==
  LET scratch == IF storage = "borrowed" THEN 0 ELSE Len(bytes)
      full == storage # "scalar" /\ Len(builder.segments) >= MaxSegments
  IN  IF scratch > BufferSize - builder.scratch \/ full
      THEN Fails(builder, "buffer_too_small")
      ELSE [builder EXCEPT !.segments = Append(@, bytes), !.status = "ok",
                           !.scratch = @ + scratch]

SegmentedPut(builder, i, bytes, storage) ==
  LET start == Len(Joined(builder))
      note(b) == IF b.status # "ok" THEN b
                 ELSE [b EXCEPT !.starts[i] = start, !.ends[i] = start + Len(bytes),
                                !.segment[i] = Len(b.segments)]
  IN  note(AppendSegment(builder, bytes, storage))

\* No gap is emitted.
SegmentedPad_None(layout, builder, i) == builder

\* emit_alignment_gap()
SegmentedPad(layout, builder, i) ==
  LET total == Len(Joined(builder))
      gap == AlignUp(total, layout.fields[i].alignment) - total
  IN  IF gap = 0 THEN builder ELSE AppendSegment(builder, Zeros(gap), "owned")

SegmentedPatch(layout, builder, i, digest) ==
  [builder EXCEPT !.segments[builder.segment[i]] =
     WriteUnsigned(digest, layout.fields[i].width, layout.fields[i].order)]

\* copy_to() an output of some size: its status and the bytes it wrote.
CopyTo(builder, size) ==
  IF ~builder.finalized THEN [status |-> "invalid_data", bytes |-> <<>>]
  ELSE IF size < Len(Joined(builder)) THEN [status |-> "buffer_too_small", bytes |-> <<>>]
  ELSE [status |-> "ok", bytes |-> Joined(builder)]

-----------------------------------------------------------------------------
\* What the two have in common, over what they do differently.

IsContiguous(builder) == "bytes" \in DOMAIN builder
Output(builder) == IF IsContiguous(builder) THEN builder.bytes ELSE Joined(builder)
Pad(layout, builder, i) ==
  IF IsContiguous(builder) THEN ContiguousPad(layout, builder, i)
  ELSE SegmentedPad(layout, builder, i)
Put(builder, i, bytes, storage) ==
  IF IsContiguous(builder) THEN ContiguousPut(builder, i, bytes)
  ELSE SegmentedPut(builder, i, bytes, storage)
Patch(layout, builder, i, digest) ==
  IF IsContiguous(builder) THEN ContiguousPatch(layout, builder, i, digest)
  ELSE SegmentedPatch(layout, builder, i, digest)

PutScalar(layout, builder, i, value) ==
  LET field == layout.fields[i]
      note(put) == IF put.status # "ok" THEN put ELSE [put EXCEPT !.written[i] = value]
  IN  note(Put(builder, i, WriteUnsigned(value, field.width, field.order), "scalar"))

\* A field the caller passed over is filled in when the schema says what it holds.
FillIn(layout, builder, i) ==
  LET field == layout.fields[i]
      fill(size, byte) == Put(builder, i, [k \in 1..size |-> byte], "owned")
  IN  IF Has(field.checksum) THEN [fill(field.width, 0) EXCEPT !.written[i] = 0]
      ELSE IF Has(field.expect) THEN PutScalar(layout, builder, i, field.expect[1])
      ELSE IF field.reserved THEN fill(field.size, field.fill)
      ELSE Fails(builder, "invalid_data")

\* A field passed over, padded for its alignment and filled in.
PassOver(layout, builder, i) ==
  LET fill(b) == IF b.status # "ok" THEN b ELSE FillIn(layout, b, i)
  IN  IF builder.status # "ok" THEN builder ELSE fill(Pad(layout, builder, i))

AdvanceTo(layout, builder, target) ==
  LET before == builder.next - 1
      passed[i \in before..(target - 1)] ==
        IF i = before THEN [builder EXCEPT !.status = "ok"] ELSE PassOver(layout, passed[i - 1], i)
      arrive(b) == IF b.status # "ok" THEN b ELSE [b EXCEPT !.next = target]
  IN  IF builder.failed THEN Refused(builder) ELSE arrive(passed[target - 1])

\* The shape of every call that sets a field: advance to it and write it, a
\* number or a payload.
MaySet(layout, builder, i, accepted) ==
  ~builder.failed /\ i \in DOMAIN layout.fields /\ i >= builder.next /\ accepted
Written(put, i) == IF put.status # "ok" THEN put ELSE [put EXCEPT !.next = i + 1]

SetScalar(layout, builder, i, accepted, value) ==
  LET write(b) == IF b.status # "ok" THEN b ELSE Written(PutScalar(layout, b, i, value), i)
  IN  IF ~MaySet(layout, builder, i, accepted) THEN Refused(builder)
      ELSE write(AdvanceTo(layout, builder, i))

SetPayload(layout, builder, i, accepted, payload, storage) ==
  LET write(b) == IF b.status # "ok" THEN b ELSE Written(Put(b, i, payload, storage), i)
  IN  IF ~MaySet(layout, builder, i, accepted) THEN Refused(builder)
      ELSE write(AdvanceTo(layout, builder, i))

\* What a set_ call copies: the payload of a field of varying size, otherwise
\* as many bytes as the field has.
CopiedBytes(field, payload) ==
  IF IsDynamic(field) THEN payload ELSE SubSeq(payload, 1, field.size)

UnsignedAccepted(field) == field.kind \in {"unsigned", "enum"}
SignedAccepted(field) == field.kind = "signed"
FloatAccepted(field) == field.kind = "float"
BytesAccepted(field) == field.kind \in {"bytes", "struct"} /\ ~field.reserved
StringAccepted(field) == field.kind = "string"
AttachBytesAccepted(field) == field.kind = "bytes" /\ IsDynamic(field) /\ ~field.reserved
AttachStringAccepted(field) == field.kind = "string" /\ IsDynamic(field)

BuilderSetUnsigned(layout, builder, i, value) ==
  SetScalar(layout, builder, i, UnsignedAccepted(layout.fields[i]), value)
BuilderSetSigned(layout, builder, i, value) ==
  SetScalar(layout, builder, i, SignedAccepted(layout.fields[i]), value % WordBase)
\* set_float32() and set_float64(), the one of the width of the field.
BuilderSetFloat(layout, builder, i, bits) ==
  SetScalar(layout, builder, i, FloatAccepted(layout.fields[i]),
            bits % Values(layout.fields[i].width))
BuilderSetBytes(layout, builder, i, payload) ==
  SetPayload(layout, builder, i, BytesAccepted(layout.fields[i]),
             CopiedBytes(layout.fields[i], payload), "owned")
BuilderSetString(layout, builder, i, payload) ==
  SetPayload(layout, builder, i, StringAccepted(layout.fields[i]),
             CopiedBytes(layout.fields[i], payload), "owned")
BuilderAttachBytes(layout, builder, i, payload) ==
  SetPayload(layout, builder, i, AttachBytesAccepted(layout.fields[i]), payload, "borrowed")
BuilderAttachString(layout, builder, i, payload) ==
  SetPayload(layout, builder, i, AttachStringAccepted(layout.fields[i]), payload, "borrowed")

\* validations_pass(): over the values given to the builder.
RulesPass(layout, written) ==
  \A k \in DOMAIN layout.rules :
    RuleOutcome(layout.rules[k], written) \in {"holds", "skipped"}

\* The checksums of finalize(), in order, each over its placeholder.
WriteChecksum(layout, builder, checksum) ==
  LET total == Len(Output(builder))
      from == AnchorOffset(checksum.from, builder.starts, builder.ends, total)
      to == AnchorOffset(checksum.to, builder.starts, builder.ends, total)
      digest == Digest(Slice(Output(builder), from, to - from), checksum.width)
  IN  IF builder.status # "ok" THEN builder
      ELSE IF from > to \/ to > total THEN Fails(builder, "invalid_data")
      ELSE [Patch(layout, builder, checksum.field, digest) EXCEPT !.written[checksum.field] = digest]

WriteChecksums(layout, builder) ==
  LET summed[k \in 0..Len(layout.checksums)] ==
        IF k = 0 THEN builder ELSE WriteChecksum(layout, summed[k - 1], layout.checksums[k])
  IN  summed[Len(layout.checksums)]

\* The first finalize(), and the ones after it.
Complete(layout, builder) ==
  LET check(b) == IF b.status # "ok" THEN b
                  ELSE IF ~RulesPass(layout, b.written) THEN Fails(b, "invalid_data")
                  ELSE [b EXCEPT !.finalized = TRUE]
  IN  check(WriteChecksums(layout, AdvanceTo(layout, builder, Len(layout.fields) + 1)))

BuilderFinalize(layout, builder) ==
  IF builder.failed THEN Refused(builder)
  ELSE IF builder.finalized THEN [builder EXCEPT !.status = "ok"]
  ELSE Complete(layout, builder)

=============================================================================
