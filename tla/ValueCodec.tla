----------------------------- MODULE ValueCodec -----------------------------
(***************************************************************************)
(* The codec of the Python runtime: a whole message is encoded from a      *)
(* mapping of values, and decoded into one, along the layouts the C++      *)
(* compiler made.  The decoder of the TypeScript runtime is this one but   *)
(* for the places where the language is asked for.                         *)
(*                                                                         *)
(* A mapping is a function from the positions of the fields that have a    *)
(* value; the values have the form View() of MessageDecoder gives them:    *)
(* [number], [bytes], [fields] or [elements].                              *)
(***************************************************************************)
EXTENDS DecodedMessage

CONSTANT ShiftBits      \* width of the numbers TypeScript shifts (32)

ASSUME ShiftAssumption == ShiftBits \in Nat \ {0}

\* values.get(name, 0)
NumberOr0(values, i) == IF i \in DOMAIN values THEN values[i].number ELSE 0

\* The presence bit is not looked at.
FieldPresent_ConditionOnly(language, field, values) ==
  Has(field.condition) =>
    NumberOr0(values, field.condition[1].field) = field.condition[1].equals

\* _field_present() and _decoded_present(): the presence bit is only looked at
\* when the field has no condition, and what has no value counts as 0.  A shift in
\* TypeScript is by the bit modulo the width.
FieldPresent(language, field, values) ==
  IF Has(field.condition)
  THEN NumberOr0(values, field.condition[1].field) = field.condition[1].equals
  ELSE Has(field.presence) =>
         LET gate == field.presence[1]
             bit == IF language = "typescript" THEN gate.bit % ShiftBits ELSE gate.bit
         IN  Bit(NumberOr0(values, gate.field), bit)

-----------------------------------------------------------------------------
\* Encoding.

\* _derived_fields(): the sizes and counts that follow from the other values.
DerivedLengths(language, layout, values) ==
  FoldLeft(LAMBDA lengths, i :
             LET field == layout.fields[i]
             IN  IF ~FieldPresent(language, field, values) \/ i \notin DOMAIN values THEN lengths
                 ELSE IF IsDynamic(field)
                 THEN (field.size_from[1] :> Len(values[i].bytes)) @@ lengths
                 ELSE IF field.kind = "collection" /\ Has(field.count_from)
                 THEN (field.count_from[1] :> Len(values[i].elements)) @@ lengths
                 ELSE lengths,
           <<>>, [i \in DOMAIN layout.fields |-> i])

Encoded(bytes) == [status |-> "ok", bytes |-> bytes]
NotEncoded == [status |-> "error", bytes |-> <<>>]

\* _encode_scalar(): a number that does not fit raises.
EncodeScalar(field, number) ==
  LET values == Values(field.width)
      low == IF field.kind = "signed" THEN -(values \div 2) ELSE 0
  IN  IF number \in low..(low + values - 1)
      THEN Encoded(WriteUnsigned(number % values, field.width, field.order))
      ELSE NotEncoded

Joining(parts) ==
  IF \E k \in DOMAIN parts : parts[k].status # "ok" THEN NotEncoded
  ELSE Encoded(FlattenSeq([k \in DOMAIN parts |-> parts[k].bytes]))

RECURSIVE EncodeLayout(_, _, _)

\* _encode_field()
EncodeField(protocol, layout, i, values) ==
  LET field == layout.fields[i]
      value == values[i]
      nested(type, mapping) == EncodeLayout(protocol, protocol.structs[type], mapping)
  IN  CASE IsScalar(field) -> EncodeScalar(field, value.number)
        [] IsText(field) ->
             IF ~IsDynamic(field) /\ Len(value.bytes) # field.size THEN NotEncoded
             ELSE Encoded(value.bytes)
        [] field.kind = "struct" -> nested(field.type, value.fields)
        [] field.kind = "collection" ->
             Joining([k \in DOMAIN value.elements |->
                        nested(field.type, value.elements[k].fields)])
        [] OTHER ->
             LET tag == field.tag_from[1]
                 k == IF tag \in DOMAIN values
                      THEN SelectInSeq(field.cases, LAMBDA case : case.tag = values[tag].number)
                      ELSE 0
             IN  IF k = 0 THEN NotEncoded ELSE nested(field.cases[k].type, value.fields)

\* One round of the field loop of _encode_layout_into(); a derived length wins
\* over the value given for the field.
EncodeStep(protocol, layout, values, lengths, out, i) ==
  LET field == layout.fields[i]
      start == AlignUp(Len(out.bytes), field.alignment)
      part == CASE Has(field.checksum) -> Encoded(Zeros(field.width))
                [] i \in DOMAIN lengths -> EncodeScalar(field, lengths[i])
                [] Has(field.expect) -> EncodeScalar(field, field.expect[1])
                [] field.reserved -> Encoded([k \in 1..field.size |-> field.fill])
                [] i \notin DOMAIN values -> NotEncoded
                [] OTHER -> EncodeField(protocol, layout, i, values)
      mark(first, bytes) == [out EXCEPT !.bytes = bytes,
                                        !.starts = (i :> first) @@ @,
                                        !.ends = (i :> Len(bytes)) @@ @]
      add(encoded) ==
        IF encoded.status # "ok" THEN [out EXCEPT !.status = "error"]
        ELSE mark(start, out.bytes \o Zeros(start - Len(out.bytes)) \o encoded.bytes)
  IN  IF out.status # "ok" THEN out
      ELSE IF ~FieldPresent("python", field, values) THEN mark(Len(out.bytes), out.bytes)
      ELSE add(part)

\* The checksum loop of _encode_layout_into().  A slice whose end comes before
\* its start is empty.
EncodeChecksum(layout, out, checksum) ==
  LET at(anchor) == AnchorOffset(anchor, out.starts, out.ends, Len(out.bytes))
      field == layout.fields[checksum.field]
      digest == Digest(Slice(out.bytes, at(checksum.from), at(checksum.to) - at(checksum.from)),
                       checksum.width)
  IN  [out EXCEPT !.bytes = Overwrite(@, out.starts[checksum.field],
                                      WriteUnsigned(digest, field.width, field.order))]

\* A nested layout is aligned from its own start, so it is encoded by itself
\* and appended.
EncodeLayout(protocol, layout, values) ==
  LET lengths == DerivedLengths("python", layout, values)
      walked == FoldLeft(LAMBDA out, i : EncodeStep(protocol, layout, values, lengths, out, i),
                         [status |-> "ok", bytes |-> <<>>, starts |-> <<>>, ends |-> <<>>],
                         [i \in DOMAIN layout.fields |-> i])
  IN  IF walked.status # "ok" THEN NotEncoded
      ELSE Encoded(FoldLeft(LAMBDA out, checksum : EncodeChecksum(layout, out, checksum),
                            walked, layout.checksums).bytes)

-----------------------------------------------------------------------------
\* Decoding.

Stopped(status) == [status |-> status, values |-> <<>>, consumed |-> 0]

RECURSIVE DecodeLayout(_, _, _, _, _)

\* The loop over the elements of a collection.
DecodeElements(language, protocol, element, frame, count) ==
  FoldLeft(LAMBDA done, k :
             LET add(one) ==
                   IF one.status # "ok" THEN [done EXCEPT !.status = one.status]
                   ELSE IF one.consumed = 0 THEN [done EXCEPT !.status = "schema_mismatch"]
                   ELSE [done EXCEPT !.elements = Append(@, [fields |-> one.values]),
                                     !.consumed = @ + one.consumed]
             IN  IF done.status # "ok" THEN done
                 ELSE add(DecodeLayout(language, protocol, element,
                                       Rest(frame, done.consumed), FALSE)),
           [status |-> "ok", elements |-> <<>>, consumed |-> 0], [k \in 1..count |-> k])

\* _decode_field(): the status, the value and the size of one field.  Where a
\* size, count or tag has no value, Python raises KeyError; in TypeScript it is
\* NaN: no element is decoded, no case has the tag, and bytes of that size make
\* the offset NaN, which a message refuses that has to fill its frame.  (What one
\* that allows trailing bytes reads from there on is left out.)
DecodeField(language, protocol, field, frame, offset, values) ==
  LET available == Len(frame) - offset
      result(status, value, size) == [status |-> status, value |-> value, size |-> size]
      fails(status) == result(status, NoValue, 0)
      bytes(size) == Slice(frame, offset, size)
      whole(one) == IF one.status # "ok" THEN fails(one.status)
                    ELSE result("ok", [fields |-> one.values], one.consumed)
      nested(type) ==
        whole(DecodeLayout(language, protocol, protocol.structs[type], Rest(frame, offset), FALSE))
      text(size) ==
        IF size > available THEN fails("schema_mismatch")
        ELSE IF field.kind = "string" /\ ~ValidText(field.encoding, bytes(size))
        THEN fails("invalid_data")
        ELSE IF field.reserved /\ \E k \in 1..size : bytes(size)[k] # field.fill
        THEN fails("invalid_data")
        ELSE result("ok", [bytes |-> bytes(size)], size)
      listed(done) == IF done.status # "ok" THEN fails(done.status)
                      ELSE result("ok", [elements |-> done.elements], done.consumed)
      elements(count) ==
        IF count > available \div protocol.structs[field.type].minimum_size
        THEN fails("schema_mismatch")
        ELSE listed(DecodeElements(language, protocol, protocol.structs[field.type],
                                   Rest(frame, offset), count))
      from(dependency, fixed, Use(_)) ==
        IF ~Has(dependency) THEN Use(fixed)
        ELSE IF dependency[1] \in DOMAIN values THEN Use(values[dependency[1]].number)
        ELSE IF language = "python" THEN fails("key_error")
        ELSE IF field.kind = "collection" THEN result("ok", [elements |-> <<>>], 0)
        ELSE fails(IF IsText(field) THEN "not_a_number" ELSE "invalid_data")
      chosen(tag) == SelectInSeq(field.cases, LAMBDA case : case.tag = tag)
      number == LET raw == ReadUnsigned(bytes(field.width), field.order)
                IN  IF field.kind = "signed" THEN SignExtend(raw, field.width) ELSE raw
  IN  CASE IsScalar(field) ->
             IF field.width > available THEN fails("schema_mismatch")
             ELSE IF Has(field.expect) /\ number # field.expect[1] THEN fails("invalid_data")
             ELSE result("ok", [number |-> number], field.width)
        [] IsText(field) -> from(field.size_from, field.size, text)
        [] field.kind = "struct" -> nested(field.type)
        [] field.kind = "collection" -> from(field.count_from, field.count, elements)
        [] OTHER -> from(field.tag_from, 0, LAMBDA tag :
                      IF chosen(tag) = 0 THEN fails("invalid_data")
                      ELSE nested(field.cases[chosen(tag)].type))

DecodeStep(language, protocol, layout, frame, walk, i) ==
  LET field == layout.fields[i]
      start == AlignUp(walk.consumed, field.alignment)
      mark(first, end) == [walk EXCEPT !.consumed = end,
                                       !.starts = (i :> first) @@ @,
                                       !.ends = (i :> end) @@ @]
      add(decoded) ==
        IF decoded.status # "ok" THEN [walk EXCEPT !.status = decoded.status]
        ELSE [mark(start, start + decoded.size) EXCEPT !.values = (i :> decoded.value) @@ @]
  IN  IF walk.status # "ok" THEN walk
      ELSE IF ~FieldPresent(language, field, walk.values) THEN mark(walk.consumed, walk.consumed)
      ELSE add(DecodeField(language, protocol, field, frame, start, walk.values))

\* The checksum loop of _decode_layout(); limit is where the layout ends.
DecodedChecksumStatus(language, checksum, frame, walk, limit) ==
  LET at(anchor) == AnchorOffset(anchor, walk.starts, walk.ends, limit)
      covered == Slice(frame, at(checksum.from), at(checksum.to) - at(checksum.from))
  IN  IF at(checksum.from) > at(checksum.to) \/ at(checksum.to) > limit THEN "schema_mismatch"
      ELSE IF checksum.field \notin DOMAIN walk.values
      THEN IF language = "python" THEN "key_error" ELSE "checksum_mismatch"
      ELSE IF walk.values[checksum.field].number = Digest(covered, checksum.width) THEN "ok"
      ELSE "checksum_mismatch"

\* _decode_layout(): message says that the layout is one of a message, which
\* has to fill the frame and starts with its dispatch prefix.  The rules of the
\* layout are not in the metadata and are not checked.
DecodedWalk(language, layout, frame, message, walk) ==
  LET limit == IF message /\ layout.trailing THEN Len(frame) ELSE walk.consumed
      sums == FirstFailure([k \in DOMAIN layout.checksums |->
                DecodedChecksumStatus(language, layout.checksums[k], frame, walk, limit)])
  IN  IF walk.status # "ok" THEN Stopped(walk.status)
      ELSE IF message /\ ~layout.trailing /\ walk.consumed # Len(frame)
      THEN Stopped("schema_mismatch")
      ELSE IF sums # "ok" THEN Stopped(sums)
      ELSE [status |-> "ok", values |-> walk.values, consumed |-> walk.consumed]

DecodeLayout(language, protocol, layout, frame, message) ==
  IF \/ Len(frame) < layout.minimum_size
     \/ message /\ ~IsPrefix(layout.prefix, frame)
  THEN Stopped("schema_mismatch")
  ELSE DecodedWalk(language, layout, frame, message,
         FoldLeft(LAMBDA walk, i : DecodeStep(language, protocol, layout, frame, walk, i),
                  [status |-> "ok", values |-> <<>>, consumed |-> 0,
                   starts |-> <<>>, ends |-> <<>>],
                  [i \in DOMAIN layout.fields |-> i]))

=============================================================================
