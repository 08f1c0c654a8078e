--------------------------- MODULE MessageDecoder ---------------------------
(***************************************************************************)
(* DecodedMessage and ProtocolDecoder: walking a frame along a compiled    *)
(* layout, and the choice of the message a frame is decoded as.            *)
(*                                                                         *)
(* A walk records where each present field lies ("starts", "ends") and the *)
(* raw value of each present scalar ("scalars"), by the field's position.  *)
(***************************************************************************)
EXTENDS SchemaCompiler

CONSTANT
  DecodeNested(_, _, _)    \* bytes decoded as a struct of a protocol (DecodedMessage)

NotDecoded(status) == [status |-> status, consumed |-> 0]

\* The unsigned values a dependency may be read from: raw_unsigned().
RawUnsigned(fields, scalars) ==
  [i \in {k \in DOMAIN scalars : Unsigned(fields, k)} |-> scalars[i]]

\* condition_matches() and presence_matches(): a gate that is itself absent
\* matches nothing.
IsSelected(field, unsigned) ==
  /\ \A k \in DOMAIN field.condition :
       /\ field.condition[k].field \in DOMAIN unsigned
       /\ unsigned[field.condition[k].field] = field.condition[k].equals
  /\ \A k \in DOMAIN field.presence :
       /\ field.presence[k].field \in DOMAIN unsigned
       /\ Bit(unsigned[field.presence[k].field], field.presence[k].bit)

\* The index of the case of a tag, 0 for none: the dense table, or the first
\* case in sorted order that has the tag.
FindVariantCase(field, tag) ==
  IF Has(field.lookup) /\ tag \in DOMAIN field.lookup[1] THEN field.lookup[1][tag]
  ELSE SelectInSeq(field.cases, LAMBDA case : case.tag = tag)

Sized(size) == [status |-> "ok", size |-> size]
Unsized(status) == [status |-> status, size |-> 0]

\* The size of a bytes or string field.
TextSize(field, unsigned, frame) ==
  IF ~IsDynamic(field) THEN Sized(field.size)
  ELSE LET source == field.size_from[1]
       IN  IF source \notin DOMAIN unsigned THEN Unsized("invalid_data")
           ELSE IF unsigned[source] > Len(frame) THEN Unsized("invalid_data")
           ELSE Sized(unsigned[source])

\* What the bytes of a field must satisfy by themselves.
FieldStatus(field, bytes) ==
  IF Has(field.expect) /\ ReadUnsigned(bytes, field.order) # field.expect[1]
  THEN "schema_mismatch"
  ELSE IF field.kind = "string" /\ ~ValidText(field.encoding, bytes) THEN "invalid_data"
  ELSE IF field.reserved /\ \E k \in DOMAIN bytes : bytes[k] # field.fill
  THEN "schema_mismatch"
  ELSE "ok"

\* An anchor on a field that is absent cannot be resolved.
ChecksumStatus(layout, checksum, frame, walk) ==
  LET known(anchor) == anchor.kind \in {"frame_start", "frame_end"}
                       \/ anchor.field \in DOMAIN walk.starts
      at(anchor) == AnchorOffset(anchor, walk.starts, walk.ends, Len(frame))
  IN  IF \/ ~known(checksum.from) \/ ~known(checksum.to)
         \/ at(checksum.from) > at(checksum.to)
      THEN "schema_mismatch"
      ELSE IF /\ checksum.field \in DOMAIN walk.scalars
              /\ walk.scalars[checksum.field] =
                   Digest(Slice(frame, at(checksum.from), at(checksum.to) - at(checksum.from)),
                          checksum.width)
      THEN "ok" ELSE "checksum_mismatch"

RuleStatus(rule, unsigned) ==
  CASE RuleOutcome(rule, unsigned) \in {"holds", "skipped"} -> "ok"
    [] RuleOutcome(rule, unsigned) = "unknown" -> "invalid_data"
    [] OTHER -> "schema_mismatch"

\* The first status that is not "ok", in the order of the sequence.
FirstFailure(statuses) ==
  LET failure == SelectInSeq(statuses, LAMBDA status : status # "ok")
  IN  IF failure = 0 THEN "ok" ELSE statuses[failure]

-----------------------------------------------------------------------------
\* assign_from_layout().  prefix says that bytes may follow, as they do after
\* a nested layout.

\* Elements of varying size are decoded one after the other.
AddElement(protocol, type, bytes, total) ==
  LET decoded == DecodeNested(protocol, type, Rest(bytes, total.size))
  IN  IF total.status # "ok" THEN total
      ELSE IF decoded.status # "ok" THEN Unsized(decoded.status)
      ELSE IF decoded.consumed = 0 THEN Unsized("schema_mismatch")
      ELSE Sized(total.size + decoded.consumed)

ElementsSize(protocol, type, bytes, count) ==
  LET upto[k \in 0..count] ==
        IF k = 0 THEN Sized(0) ELSE AddElement(protocol, type, bytes, upto[k - 1])
  IN  upto[count]

\* Elements of one size are only counted here; at() decodes them.
CollectionSize(protocol, field, unsigned, frame, offset) ==
  IF Has(field.count_from) /\ field.count_from[1] \notin DOMAIN unsigned
  THEN Unsized("invalid_data")
  ELSE LET element == protocol.structs[field.type]
           count == IF Has(field.count_from) THEN unsigned[field.count_from[1]] ELSE field.count
       IN  IF ~element.fixed \/ count = 0
           THEN ElementsSize(protocol, field.type, Rest(frame, offset), count)
           ELSE IF count > (Len(frame) - offset) \div element.minimum_size
           THEN Unsized("schema_mismatch")
           ELSE Sized(count * element.minimum_size)

FieldSize(protocol, field, unsigned, frame, offset) ==
  LET sizeOf(decoded) == IF decoded.status = "ok" THEN Sized(decoded.consumed)
                         ELSE Unsized(decoded.status)
      nested(t) == sizeOf(DecodeNested(protocol, t, Rest(frame, offset)))
  IN  CASE IsScalar(field) -> Sized(field.width)
        [] IsText(field) -> TextSize(field, unsigned, frame)
        [] field.kind = "struct" -> nested(field.type)
        [] field.kind = "collection" -> CollectionSize(protocol, field, unsigned, frame, offset)
        [] OTHER ->
             IF field.tag_from[1] \notin DOMAIN unsigned THEN Unsized("invalid_data")
             ELSE LET k == FindVariantCase(field, unsigned[field.tag_from[1]])
                  IN  IF k = 0 THEN Unsized("invalid_data")
                      ELSE nested(field.cases[k].type)

\* What is known of the fields, and of one more.
WithFound(known, i, value) ==
  [k \in DOMAIN known \cup {i} |-> IF k = i THEN value ELSE known[k]]

\* One field of the walk: found at its offset with its size, then recorded.
Record(field, frame, walk, i, offset, sized) ==
  LET end == offset + sized.size
      bytes == Slice(frame, offset, sized.size)
      stop(status) == [walk EXCEPT !.status = status]
  IN  IF offset > Len(frame) THEN stop("schema_mismatch")
      ELSE IF sized.status # "ok" THEN stop(sized.status)
      ELSE IF end > Len(frame) THEN stop("schema_mismatch")
      ELSE [status |-> FieldStatus(field, bytes),
            consumed |-> end,
            starts |-> WithFound(walk.starts, i, offset),
            ends |-> WithFound(walk.ends, i, end),
            scalars |-> IF IsScalar(field)
                        THEN WithFound(walk.scalars, i, ReadUnsigned(bytes, field.order))
                        ELSE walk.scalars]

Step(protocol, layout, frame, walk, i) ==
  LET field == layout.fields[i]
      unsigned == RawUnsigned(layout.fields, walk.scalars)
      offset == AlignUp(walk.consumed, field.alignment)
  IN  IF walk.status # "ok" \/ ~IsSelected(field, unsigned) THEN walk
      ELSE Record(field, frame, walk, i, offset,
                  FieldSize(protocol, field, unsigned, frame, offset))

Walk(protocol, layout, frame) ==
  LET start == [status |-> "ok", consumed |-> 0, starts |-> <<>>, ends |-> <<>>, scalars |-> <<>>]
      walk[i \in 0..Len(layout.fields)] ==
        IF i = 0 THEN start ELSE Step(protocol, layout, frame, walk[i - 1], i)
  IN  walk[Len(layout.fields)]

\* What is looked at once all fields are found.
WalkStatus(layout, frame, prefix, walk) ==
  LET unsigned == RawUnsigned(layout.fields, walk.scalars)
  IN  IF walk.status # "ok" THEN walk.status
      ELSE IF ~prefix /\ ~layout.trailing /\ walk.consumed # Len(frame)
      THEN "schema_mismatch"
      ELSE FirstFailure(
             [k \in DOMAIN layout.checksums |->
                ChecksumStatus(layout, layout.checksums[k], frame, walk)]
             \o [k \in DOMAIN layout.rules |-> RuleStatus(layout.rules[k], unsigned)])

Assigned(layout, frame, walk, status) ==
  IF status # "ok" THEN NotDecoded(status)
  ELSE [status |-> "ok",
        consumed |-> walk.consumed,
        starts |-> walk.starts, ends |-> walk.ends, scalars |-> walk.scalars,
        frame |-> IF layout.trailing THEN frame ELSE SubSeq(frame, 1, walk.consumed)]

Checked(layout, frame, prefix, walk) ==
  Assigned(layout, frame, walk, WalkStatus(layout, frame, prefix, walk))

AssignFromLayout(protocol, layout, frame, prefix) ==
  IF Len(frame) < layout.minimum_size THEN NotDecoded("schema_mismatch")
  ELSE Checked(layout, frame, prefix, Walk(protocol, layout, frame))

-----------------------------------------------------------------------------
\* ProtocolDecoder

DecodeAs(protocol, i, frame) == AssignFromLayout(protocol, protocol.messages[i], frame, FALSE)

MatchesPrefix(layout, frame) == IsPrefix(layout.prefix, frame)

\* The first candidate decides.
TryCandidates_First(protocol, candidates, frame, before) ==
  IF candidates = {} \/ before.status = "ok" THEN before
  ELSE LET decoded == DecodeAs(protocol, Min(candidates), frame)
       IN  [status |-> decoded.status,
            message |-> IF decoded.status = "ok" THEN Min(candidates) ELSE 0]

\* try_decode_candidates(), the candidates in their order: the first that
\* decodes, otherwise the failure kept for the report.
BestOf(best, i, decoded) ==
  IF decoded.status = "ok" THEN [status |-> "ok", message |-> i]
  ELSE IF best.status \in {"message_not_found", "schema_mismatch"}
  THEN [status |-> decoded.status, message |-> 0]
  ELSE best

TryCandidate(protocol, candidates, best, i, frame) ==
  IF i \notin candidates \/ best.status = "ok" \/ ~MatchesPrefix(protocol.messages[i], frame)
  THEN best
  ELSE BestOf(best, i, DecodeAs(protocol, i, frame))

TryCandidates(protocol, candidates, frame, before) ==
  LET best[i \in 0..Len(protocol.messages)] ==
        IF i = 0 THEN before ELSE TryCandidate(protocol, candidates, best[i - 1], i, frame)
  IN  best[Len(protocol.messages)]

DecodeAny(protocol, frame) ==
  TryCandidates(protocol, FallbackCandidates(protocol), frame,
    TryCandidates(protocol, DispatchCandidates(protocol, frame), frame,
      [status |-> "message_not_found", message |-> 0]))

=============================================================================
