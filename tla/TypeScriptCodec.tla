--------------------------- MODULE TypeScriptCodec ---------------------------
(***************************************************************************)
(* The codec of the TypeScript runtime.  It decodes as the Python one does *)
(* but for what ValueCodec says; it encodes a message and all that is      *)
(* nested in it into one ByteWriter, whose buffer grows as it is written.  *)
(*                                                                         *)
(* A writer is a record of the bytes written, the capacity of its buffer   *)
(* and how the encoding goes.  Numbers above 2^53, which the code rounds   *)
(* when it compares them, are left out.                                    *)
(***************************************************************************)
EXTENDS ValueCodec

CONSTANT MinCapacity    \* MIN_ENCODE_BUFFER_CAPACITY

ASSUME WriterAssumption == MinCapacity \in Nat \ {0}

-----------------------------------------------------------------------------
\* ByteWriter.

NewWriter(capacity) == [status |-> "ok", bytes |-> <<>>, capacity |-> capacity]

\* A buffer that is too short is replaced by one twice as long or as long as
\* it takes.
ensureCapacity(writer, length) ==
  LET least == IF writer.capacity < MinCapacity THEN MinCapacity ELSE writer.capacity
  IN  IF length <= writer.capacity THEN writer
      ELSE [writer EXCEPT !.capacity = IF length <= least THEN least
                                       ELSE IF length <= 2 * least THEN 2 * least ELSE length]

writeBytes(writer, bytes) ==
  [ensureCapacity(writer, Len(writer.bytes) + Len(bytes)) EXCEPT !.bytes = @ \o bytes]

padTo(writer, length) == writeBytes(writer, Zeros(length - Len(writer.bytes)))

\* writeFloat32() and writeFloat64() take the view of the buffer before they
\* reserve the room: when that replaces the buffer, the offset is past the end of
\* the old one, and DataView throws a RangeError.
writeFloat(writer, bits, field) ==
  IF Len(writer.bytes) + field.width > writer.capacity
  THEN [writer EXCEPT !.status = "range_error"]
  ELSE writeBytes(writer, WriteUnsigned(bits, field.width, field.order))

\* patchUnsigned() over bytes written before; what is past the end is not kept.
patchUnsigned(writer, start, value, field) ==
  [writer EXCEPT !.bytes =
     Slice(Overwrite(@, start, WriteUnsigned(value, field.width, field.order)), 0, Len(@))]

-----------------------------------------------------------------------------
\* Encoding.

\* A number that does not fit wraps.
toUnsigned(value, width) == value % Values(width)

encodeScalar(writer, field, number) ==
  IF field.kind = "float" THEN writeFloat(writer, number, field)
  ELSE writeBytes(writer, WriteUnsigned(toUnsigned(number, field.width),
                                        field.width, field.order))

Throws(writer) == [writer EXCEPT !.status = "error"]

RECURSIVE encodeLayoutInto(_, _, _, _)

encodeField(protocol, writer, layout, i, values) ==
  LET field == layout.fields[i]
      value == values[i]
      nested(w, type, mapping) ==
        IF w.status # "ok" THEN w
        ELSE encodeLayoutInto(protocol, protocol.structs[type], mapping, w)
      tag == field.tag_from[1]
      k == IF tag \in DOMAIN values
           THEN SelectInSeq(field.cases, LAMBDA case : case.tag = values[tag].number)
           ELSE 0
  IN  CASE IsScalar(field) -> encodeScalar(writer, field, value.number)
        [] IsText(field) ->
             IF ~IsDynamic(field) /\ Len(value.bytes) # field.size THEN Throws(writer)
             ELSE writeBytes(writer, value.bytes)
        [] field.kind = "struct" -> nested(writer, field.type, value.fields)
        [] field.kind = "collection" ->
             FoldLeft(LAMBDA w, element : nested(w, field.type, element.fields),
                      writer, value.elements)
        [] OTHER -> IF k = 0 THEN Throws(writer)
                    ELSE nested(writer, field.cases[k].type, value.fields)

\* One round of the field loop of encodeLayoutInto(), in a layout that starts at
\* first; out is the writer and where the fields start and end.
encodeStep(protocol, layout, values, lengths, first, out, i) ==
  LET field == layout.fields[i]
      here == Len(out.writer.bytes) - first
      start == AlignUp(here, field.alignment)
      padded == padTo(out.writer, first + start)
      writer == CASE Has(field.checksum) -> writeBytes(padded, Zeros(field.width))
                  [] i \in DOMAIN lengths -> encodeScalar(padded, field, lengths[i])
                  [] Has(field.expect) -> encodeScalar(padded, field, field.expect[1])
                  [] field.reserved ->
                       writeBytes(padded, [k \in 1..field.size |-> field.fill])
                  [] i \notin DOMAIN values -> Throws(padded)
                  [] OTHER -> encodeField(protocol, padded, layout, i, values)
      mark(w, from) == [writer |-> w, starts |-> (i :> from) @@ out.starts,
                        ends |-> (i :> Len(w.bytes) - first) @@ out.ends]
  IN  IF out.writer.status # "ok" THEN out
      ELSE IF ~FieldPresent("typescript", field, values) THEN mark(out.writer, here)
      ELSE mark(writer, start)

\* One round of its checksum loop.
encodeChecksum(layout, first, out, checksum) ==
  LET at(anchor) == AnchorOffset(anchor, out.starts, out.ends, Len(out.writer.bytes) - first)
      covered == Slice(out.writer.bytes, first + at(checksum.from),
                       at(checksum.to) - at(checksum.from))
  IN  [out EXCEPT !.writer = patchUnsigned(@, first + out.starts[checksum.field],
                                           Digest(covered, checksum.width),
                                           layout.fields[checksum.field])]

encodeLayoutInto(protocol, layout, values, writer) ==
  LET first == Len(writer.bytes)
      lengths == DerivedLengths("typescript", layout, values)
      walked == FoldLeft(LAMBDA out, i : encodeStep(protocol, layout, values, lengths,
                                                    first, out, i),
                         [writer |-> writer, starts |-> <<>>, ends |-> <<>>],
                         [i \in DOMAIN layout.fields |-> i])
  IN  IF walked.writer.status # "ok" THEN walked.writer
      ELSE FoldLeft(LAMBDA out, checksum : encodeChecksum(layout, first, out, checksum),
                    walked, layout.checksums).writer

encode(protocol, layout, values) ==
  encodeLayoutInto(protocol, layout, values, NewWriter(layout.minimum_size))

\* Decoding: decode() of a message layout.
decode(protocol, layout, frame) == DecodeLayout("typescript", protocol, layout, frame, TRUE)

=============================================================================
