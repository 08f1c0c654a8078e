-------------------------- MODULE MCStreamRuntime --------------------------
(***************************************************************************)
(* StreamRuntime as a source of frames, and its instances for TLC.         *)
(***************************************************************************)
EXTENDS StreamRuntime

\* The runtime seen as a reader of the bytes that have arrived.
Source == INSTANCE FrameSource WITH
  bytes <- SubSeq(stream, 1, received), offset <- consumed, frames <- frames

\* poll() hands out the frames of the byte stream: the pieces the transport
\* cut it into and the ring's wrapping do not show.
ImplementsFrameSource == Source!Spec

=============================================================================
