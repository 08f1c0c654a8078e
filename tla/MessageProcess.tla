--------------------------- MODULE MessageProcess ---------------------------
(***************************************************************************)
(* One process at work with messages: an application that builds a message *)
(* with the two builders, called alike, and sends what they made, or       *)
(* receives any frame at all.                                              *)
(***************************************************************************)
EXTENDS MessageBuilders, MessageDecoder

CONSTANTS
  Definitions,   \* the protocol definitions compiled, a set
  Numbers,       \* the numbers passed to set_unsigned, set_signed and set_float
  Payloads,      \* the byte strings passed to set_bytes and set_string
  MaxFrame       \* bound: the longest frame received

ASSUME CodecAssumption ==
  /\ Numbers \subseteq Int /\ Payloads \subseteq Seq(Bytes) /\ MaxFrame \in Nat

\* The messages of a definition are a sequence, their fields have their types, and
\* a compiled struct has a size.
ASSUME DefinitionAssumption ==
  \A definition \in Definitions :
    /\ Len(definition.messages) \in Nat
    /\ DOMAIN definition.messages = 1..Len(definition.messages)
    /\ \A i \in DOMAIN definition.messages :
         definition.messages[i].fields \in Seq(FieldDefinitions)
    /\ LET structs == CompileStructs(definition)
       IN  \A t \in DOMAIN structs : structs[t].ok => structs[t].minimum_size \in Nat

\* The types nested in a field.
TypesIn(field) ==
  IF field.kind \in {"struct", "collection"} THEN {field.type}
  ELSE IF field.kind = "variant" THEN {field.cases[k].type : k \in DOMAIN field.cases}
  ELSE {}

\* A struct is compiled as a layout is, once the structs nested in it are, and so
\* they can be ranked.
ASSUME StructAssumption ==
  \A definition \in Definitions :
    LET structs == CompileStructs(definition)
        layout(t) == [definition.structs[t] EXCEPT !.trailing = FALSE]
    IN  (\A t \in DOMAIN structs : structs[t].ok) =>
          /\ DOMAIN structs \subseteq Nat
          /\ \A t \in DOMAIN structs :
               /\ layout(t).fields \in Seq(FieldDefinitions)
               /\ structs[t] = CompileLayout(layout(t), structs)
          /\ \E rank \in [DOMAIN structs -> DOMAIN structs] :
               \A t \in DOMAIN structs : \A i \in DOMAIN structs[t].fields :
                 \A nested \in TypesIn(structs[t].fields[i]) : rank[nested] < rank[t]

\* Bytes nested in a frame are decoded as a frame is, except that bytes may follow.
ASSUME NestedAssumption ==
  \A definition \in Definitions :
    LET compiled == Compile(definition)
    IN  compiled.ok =>
          \A t \in DOMAIN compiled.structs, bytes \in BoundedSeq(Bytes, MaxFrame) :
            DecodeNested(compiled, t, bytes) =
              AssignFromLayout(compiled, compiled.structs[t], bytes, TRUE)

VARIABLES
  protocol,      \* the compiled protocol in use
  message,       \* the message being built, by position
  contiguous,    \* the MessageBuilder
  segmented,     \* the SegmentedMessageBuilder
  frame          \* the frame at hand, <<>> before there is one
vars == <<protocol, message, contiguous, segmented, frame>>

Layout == protocol.messages[message]

Init ==
  /\ protocol \in {compiled \in {Compile(d) : d \in Definitions} : compiled.ok}
  /\ message \in DOMAIN protocol.messages
  /\ contiguous = NewContiguous(Layout)
  /\ segmented = NewSegmented(Layout)
  /\ frame = <<>>

Building == /\ frame = <<>>
            /\ UNCHANGED <<protocol, message, frame>>

SetUnsigned(i, number) ==
  /\ Building /\ number >= 0
  /\ contiguous' = BuilderSetUnsigned(Layout, contiguous, i, number)
  /\ segmented' = BuilderSetUnsigned(Layout, segmented, i, number)

SetSigned(i, number) ==
  /\ Building
  /\ contiguous' = BuilderSetSigned(Layout, contiguous, i, number)
  /\ segmented' = BuilderSetSigned(Layout, segmented, i, number)

\* A float is passed as its bits.
SetFloat(i, bits) ==
  /\ Building /\ bits >= 0
  /\ contiguous' = BuilderSetFloat(Layout, contiguous, i, bits)
  /\ segmented' = BuilderSetFloat(Layout, segmented, i, bits)

\* A payload shorter than a field of fixed size is read past its end: the
\* caller has to pass enough.
LongEnough(i, payload) ==
  IsDynamic(Layout.fields[i]) \/ Len(payload) >= Layout.fields[i].size

SetBytes(i, payload) ==
  /\ Building /\ LongEnough(i, payload)
  /\ contiguous' = BuilderSetBytes(Layout, contiguous, i, payload)
  /\ segmented' = BuilderSetBytes(Layout, segmented, i, payload)

SetString(i, payload) ==
  /\ Building /\ LongEnough(i, payload)
  /\ contiguous' = BuilderSetString(Layout, contiguous, i, payload)
  /\ segmented' = BuilderSetString(Layout, segmented, i, payload)

\* The segmented builder borrows what the other copies.
AttachBytes(i, payload) ==
  /\ Building /\ IsDynamic(Layout.fields[i])
  /\ contiguous' = BuilderSetBytes(Layout, contiguous, i, payload)
  /\ segmented' = BuilderAttachBytes(Layout, segmented, i, payload)

AttachString(i, payload) ==
  /\ Building /\ IsDynamic(Layout.fields[i])
  /\ contiguous' = BuilderSetString(Layout, contiguous, i, payload)
  /\ segmented' = BuilderAttachString(Layout, segmented, i, payload)

Finalize ==
  /\ Building
  /\ contiguous' = BuilderFinalize(Layout, contiguous)
  /\ segmented' = BuilderFinalize(Layout, segmented)

\* The segments are copied out and sent.
Send ==
  /\ frame = <<>>
  /\ CopyTo(segmented, MaxFrame).status = "ok"
  /\ frame' = <<CopyTo(segmented, MaxFrame).bytes>>
  /\ UNCHANGED <<protocol, message, contiguous, segmented>>

\* Any bytes may come in.  (The bound: only where nothing was built.)
Receive ==
  /\ frame = <<>> /\ message = 1
  /\ contiguous = NewContiguous(Layout)
  /\ \E bytes \in BoundedSeq(Bytes, MaxFrame) : frame' = <<bytes>>
  /\ UNCHANGED <<protocol, message, contiguous, segmented>>

Next ==
  \/ \E i \in DOMAIN Layout.fields :
       \/ \E number \in Numbers : \/ SetUnsigned(i, number) \/ SetSigned(i, number)
                                   \/ SetFloat(i, number)
       \/ \E payload \in Payloads : \/ SetBytes(i, payload) \/ SetString(i, payload)
                                    \/ AttachBytes(i, payload) \/ AttachString(i, payload)
  \/ Finalize \/ Send \/ Receive

Spec == Init /\ [][Next]_vars

-----------------------------------------------------------------------------
\* Given the same calls and room enough, the two builders build the same bytes
\* and answer alike; the segmented one needs no more room than the other.
BuildersAgree ==
  ~contiguous.failed =>
    /\ ~segmented.failed
    /\ Joined(segmented) = contiguous.bytes
    /\ \A part \in {"next", "status", "finalized", "starts", "ends", "written"} :
         segmented[part] = contiguous[part]

-----------------------------------------------------------------------------
\* The frame at hand decoded as message i.
Decoded(i) == DecodeAs(protocol, i, frame[1])
Decodes(i) == Has(frame) /\ Decoded(i).status = "ok"

\* The constants a layout starts with lie next to each other, as the dispatch
\* prefix has them.
PrefixIsPlain(layout) ==
  \A i \in 1..Len(layout.prefix) : i \in DOMAIN layout.fields =>
    ~IsGated(layout.fields[i]) /\ layout.fields[i].alignment = 1

\* decode_any() finds a message exactly when decode_as() accepts the frame as one,
\* and it finds such a one: trying by the first byte loses nothing.
DispatchComplete ==
  Has(frame) /\ (\A i \in DOMAIN protocol.messages : PrefixIsPlain(protocol.messages[i])) =>
    LET found == DecodeAny(protocol, frame[1])
    IN  /\ (found.status = "ok") <=> \E i \in DOMAIN protocol.messages : Decodes(i)
        /\ found.status = "ok" => Decodes(found.message)

Layouts == Range(protocol.messages) \cup Range(protocol.structs)

\* The compiled sizes are true of every frame that decodes: what a layout takes is
\* never below its minimum size and exactly that when it is said to be fixed,
\* which is what the count limits and the strides of collections rely on.
SizeBounds ==
  Has(frame) =>
    \A layout \in Layouts :
      LET decoded == AssignFromLayout(protocol, layout, frame[1], TRUE)
      IN  decoded.status = "ok" =>
            /\ decoded.consumed \in layout.minimum_size..Len(frame[1])
            /\ layout.fixed => decoded.consumed = layout.minimum_size

=============================================================================
