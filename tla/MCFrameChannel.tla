--------------------------- MODULE MCFrameChannel ---------------------------
(***************************************************************************)
(* FrameChannel's receiver as a source of frames, beside the decoders of   *)
(* the other runtimes.                                                     *)
(***************************************************************************)
EXTENDS FrameDecoder

\* The reader of a stream that LengthPrefixedFramer frames, little-endian.
Source == INSTANCE FrameSource WITH
  bytes <- SubSeq(wire, 1, read_count), offset <- consumed, frames <- delivered,
  FramerKind <- "length_prefixed", FrameSize <- 1, BigEndian <- FALSE,
  MaxPayload <- MaxFrameSize, IncludePrefix <- FALSE

\* The channel cuts a stream into the frames that LengthPrefixedFramer cuts
\* it into, damaged or not: the two keep the same framing contract.
ImplementsFrameSource == Source!Spec

\* Three languages, one framing: so do the decoders of Python and TypeScript
\* until they raise.
ReadersFrameAlike == ImplementsFrameSource /\ DecodesAsFramed

=============================================================================
