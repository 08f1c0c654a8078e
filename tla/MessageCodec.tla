---------------------------- MODULE MessageCodec ----------------------------
(***************************************************************************)
(* The codec of a process, whole: the messages it builds and the frames it *)
(* receives, decoded with the C++ decoder, the Python one and the          *)
(* TypeScript one.                                                         *)
(*                                                                         *)
(* Decoding changes no state, so it appears in the properties: each of     *)
(* them is about every frame the process holds.                            *)
(***************************************************************************)
EXTENDS TypeScriptCodec, MessageProcess, StructCompiler

-----------------------------------------------------------------------------
\* The frame at hand decoded as message i by the other decoders.
DecodedBy(language, i) ==
  IF language = "python" THEN DecodeLayout("python", protocol, protocol.messages[i], frame[1], TRUE)
  ELSE decode(protocol, protocol.messages[i], frame[1])
Seen(i) == View(protocol, protocol.messages[i], Decoded(i))

\* No checksum covers itself or one that is written after it.
SumsSettle(layout, placed, total) ==
  \A k \in DOMAIN layout.checksums : \A later \in k..Len(layout.checksums) :
    LET sum == layout.checksums[k]
        field == layout.checksums[later].field
    IN  \/ placed.ends[field] <= AnchorOffset(sum.from, placed.starts, placed.ends, total)
        \/ placed.starts[field] >= AnchorOffset(sum.to, placed.starts, placed.ends, total)

\* Elements of one size are counted when the frame is decoded and decoded when
\* they are asked for: no bytes of theirs are refused then.
ElementsChecked(layout) ==
  \A i \in DOMAIN layout.fields : layout.fields[i].kind = "collection" =>
    LET element == protocol.structs[layout.fields[i].type]
    IN  \/ ~element.fixed
        \/ /\ element.checksums = <<>> /\ element.rules = <<>>
           /\ \A k \in DOMAIN element.fields :
                /\ element.fields[k].kind \in {"unsigned", "signed", "enum", "bytes"}
                /\ element.fields[k].expect = <<>> /\ ~element.fields[k].reserved

\* No checksum of a struct reaches to the end of the frame around it.
SumsStayInside ==
  \A t \in DOMAIN protocol.structs : \A k \in DOMAIN protocol.structs[t].checksums :
    LET sum == protocol.structs[t].checksums[k]
    IN  "frame_end" \notin {sum.from.kind, sum.to.kind}

NestedDecodesAlone ==
  SumsStayInside /\ \A layout \in Layouts : ElementsChecked(layout)

\* The schemas on which the C++ and the other codecs agree.  They differ on rules
\* (C++ only), on constants that are padded or gated (only the others compare the
\* prefix), on checksums of absent fields, on constants of signed fields, on two
\* gates of one field (the others take the condition), on gates that are absent
\* (0 for them), and on two cases of one tag.
Portable ==
  /\ NestedDecodesAlone
  /\ \A layout \in Layouts :
       LET gated(i) == i \in DOMAIN layout.fields /\ IsGated(layout.fields[i])
       IN  /\ layout.rules = <<>> /\ PrefixIsPlain(layout)
           /\ \A k \in DOMAIN layout.checksums :
                LET sum == layout.checksums[k]
                IN  ~gated(sum.field) /\ ~gated(sum.from.field) /\ ~gated(sum.to.field)
           /\ \A i \in DOMAIN layout.fields :
                LET field == layout.fields[i]
                IN  /\ field.kind = "signed" => field.expect = <<>>
                    /\ ~(Has(field.condition) /\ Has(field.presence))
                    /\ Has(field.condition) => ~gated(field.condition[1].field)
                    /\ Has(field.presence) => ~gated(field.presence[1].field)
                    /\ IsInjective([k \in DOMAIN field.cases |-> field.cases[k].tag])

-----------------------------------------------------------------------------
\* What the schema asks of the values, and the builders do not check.
KeepsSchema(i) ==
  LET field == Layout.fields[i]
      number == contiguous.written[i]
      raw == number % Values(field.width)
      bytes == FieldBytes([contiguous EXCEPT !.bytes = <<>>] @@ [frame |-> contiguous.bytes], i)
      nested == AssignFromLayout(protocol, protocol.structs[field.type], bytes, TRUE)
  IN  /\ IsSelected(field, RawUnsigned(Layout.fields, contiguous.written))
      /\ IsScalar(field) =>
           /\ number = (IF field.kind = "signed" THEN SignExtend(raw, field.width) % WordBase
                        ELSE raw)
           /\ Has(field.expect) => number = field.expect[1]
      /\ IsDynamic(field) => Len(bytes) = contiguous.written[field.size_from[1]]
      /\ field.kind = "string" => ValidText(field.encoding, bytes)
      /\ field.kind = "struct" => nested.status = "ok" /\ nested.consumed = Len(bytes)

DecodesAsBuilt ==
  LET decoded == DecodeAs(protocol, message, contiguous.bytes)
  IN  /\ decoded.status = "ok"
      /\ decoded.starts = contiguous.starts /\ decoded.ends = contiguous.ends
      /\ \A i \in DOMAIN decoded.scalars :
           decoded.scalars[i] = contiguous.written[i] % Values(Layout.fields[i].width)

\* The schema is kept, up to where the caller's fields were put.
WellBuilt ==
  /\ contiguous.finalized /\ SumsStayInside
  /\ \A i \in DOMAIN Layout.fields : KeepsSchema(i)
  /\ SumsSettle(Layout, contiguous, Len(contiguous.bytes))

Placed == \A i \in DOMAIN Layout.fields :
            contiguous.starts[i] % Layout.fields[i].alignment = 0

\* A message built from values that keep the schema, in fields that lie where
\* their alignment wants them, decodes to those values.
BuiltFramesDecode == WellBuilt /\ Placed => DecodesAsBuilt

\* What the schema documentation says of alignment: a builder places the fields
\* so that the message decodes.  It does not pad before a field the caller sets.
AlignedFramesDecode == WellBuilt => DecodesAsBuilt

RECURSIVE IsTotal(_)
IsTotal(view) ==
  \A i \in DOMAIN view :
    CASE view[i] = NoValue -> FALSE
      [] "fields" \in DOMAIN view[i] -> IsTotal(view[i].fields)
      [] "elements" \in DOMAIN view[i] -> IsTotal(view[i].elements)
      [] OTHER -> TRUE

\* Once a frame has decoded, every accessor of a present field answers, however
\* deep: what get_struct(), get_variant() and at() decode again decodes again.
AccessorsTotal ==
  NestedDecodesAlone =>
    \A i \in DOMAIN protocol.messages : Decodes(i) => IsTotal(Seen(i))

\* The TypeScript codec differs further where a size or a count may be missing
\* and on presence bits above the width of its shifts.
PortableTo(language) ==
  /\ Portable
  /\ language = "typescript" =>
       \A layout \in Layouts : \A i \in DOMAIN layout.fields :
         LET field == layout.fields[i]
             refs == Range(field.size_from) \cup Range(field.count_from)
         IN  /\ \A ref \in refs : ~IsGated(layout.fields[ref])
             /\ Has(field.presence) => field.presence[1].bit < ShiftBits

Languages == {"python", "typescript"}

Agrees(language, i) ==
  LET other == DecodedBy(language, i)
  IN  /\ (other.status = "ok") <=> Decodes(i)
      /\ Decodes(i) => other.values = Seen(i)

\* The languages accept the same frames and read the same values from them.
ReadAlike ==
  \A language \in Languages :
    Has(frame) /\ PortableTo(language) =>
      \A i \in DOMAIN protocol.messages : Agrees(language, i)

\* The values but those of checksums, which cover padding that nothing reads.
Content(layout, view) ==
  Restrict(view, {i \in DOMAIN view : ~Has(layout.fields[i].checksum)})

WrittenBy(language, layout, values) ==
  IF language = "python" THEN EncodeLayout(protocol, layout, values)
  ELSE encode(protocol, layout, values)

CanBeWritten(i) ==
  Decodes(i) /\ SumsSettle(protocol.messages[i], Decoded(i), Len(frame[1]))

ReadsAgain(i, written) ==
  LET layout == protocol.messages[i]
      again == DecodeAs(protocol, i, written.bytes)
  IN  /\ written.status = "ok" /\ again.status = "ok"
      /\ Content(layout, View(protocol, layout, again)) = Content(layout, Seen(i))

\* What C++ reads from a frame, the other languages write so that C++ reads it
\* again; but for TypeScript when its buffer has to grow for a float.
TranscodeStable ==
  \A language \in Languages, i \in DOMAIN protocol.messages :
    PortableTo(language) /\ CanBeWritten(i) =>
      LET written == WrittenBy(language, protocol.messages[i], Seen(i))
      IN  written.status = "range_error" \/ ReadsAgain(i, written)

\* The same with no exception, as codec.ts says of itself: a frame that C++
\* reads, TypeScript reads alike and writes again.
FramesAreInterchangeable ==
  PortableTo("typescript") =>
    \A i \in DOMAIN protocol.messages :
      Decodes(i) => /\ Agrees("typescript", i)
                    /\ ReadsAgain(i, encode(protocol, protocol.messages[i], Seen(i)))

\* One codec in three languages: what one side reads or writes, the others
\* read as the same values.
LanguagesAgree == ReadAlike /\ TranscodeStable

=============================================================================
