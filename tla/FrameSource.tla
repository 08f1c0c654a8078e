---------------------------- MODULE FrameSource ----------------------------
(***************************************************************************)
(* What a framed reader of a byte stream promises: it hands out the frames *)
(* of the stream, in order and each once, whatever pieces the bytes come   *)
(* in.  Where one frame ends and the next begins depends on the bytes      *)
(* alone.                                                                  *)
(***************************************************************************)
EXTENDS Framers

VARIABLES
  bytes,    \* the stream so far
  offset,   \* how many of its bytes belong to the frames handed out
  frames    \* the frames handed out, oldest first

vars == <<bytes, offset, frames>>

Init == bytes = << >> /\ offset = 0 /\ frames = << >>

Unread == SubSeq(bytes, offset + 1, Len(bytes))

Arrive ==
  /\ bytes' \in Seq(Bytes)
  /\ Len(bytes) <= Len(bytes') /\ SubSeq(bytes', 1, Len(bytes)) = bytes
  /\ UNCHANGED <<offset, frames>>

Deliver ==
  LET slice == try_frame(Unread)
  IN  /\ slice.status = "ready"
      /\ frames' = Append(frames, SliceOf(Unread, slice))
      /\ offset' = offset + slice.bytes_consumed
      /\ UNCHANGED bytes

Next == Arrive \/ Deliver

Spec == Init /\ [][Next]_vars

=============================================================================
