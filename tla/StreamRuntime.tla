--------------------------- MODULE StreamRuntime ---------------------------
(***************************************************************************)
(* StreamRuntime<Capacity>: poll() reads from a transport into the byte    *)
(* ring, cuts frames off it with a framer and decodes them.                *)
(*                                                                         *)
(* One action is one round of the loop in poll(); result is "polling"      *)
(* between the rounds of one call and what the call returned otherwise.    *)
(* The transport hands over the bytes of a stream in pieces of any size,   *)
(* with or without pauses, errors in between and the end of the stream     *)
(* announced with the last bytes or after them.  The decoder is part of    *)
(* another component: here it accepts or refuses any frame.                *)
(***************************************************************************)
EXTENDS Framers, ByteRingBuffer

CONSTANTS MaxStream   \* bound on the bytes of the stream

ASSUME MaxStreamAssumption == MaxStream \in Nat

VARIABLES
  stream,          \* every byte the transport will ever hand over
  received,        \* how many of them it has handed over
  end_of_stream,   \* end_of_stream_
  result,          \* PollResult::status of the last call
  consumed,        \* history: how many bytes were consumed
  frames           \* history: the frames given to the decoder

vars == <<buffer, stream, received, end_of_stream, result, consumed, frames>>

PollStatus == {"message_ready", "need_more_data", "end_of_stream", "frame_invalid",
               "decode_error", "buffer_exhausted", "transport_error"}

Init ==
  /\ stream \in UNION {[1..n -> Bytes] : n \in 0..MaxStream}
  /\ head = 0 /\ tail = 0 /\ storage = [i \in Indices |-> 0]
  /\ received = 0 /\ end_of_stream = FALSE
  /\ result = "polling" /\ consumed = 0 /\ frames = << >>

-----------------------------------------------------------------------------
\* (A faulty variant, see ByteRingBuffer.)
try_extract_frame_Contiguous ==
  [slice |-> try_frame(readable_span), from |-> readable_span]

\* The slice found, and the bytes it is a slice of.
try_extract_frame ==
  IF has_wrapped_readable_data /\ try_frame(readable_span).status # "ready"
    THEN [slice |-> try_frame(linearize), from |-> linearize]
    ELSE [slice |-> try_frame(readable_span), from |-> readable_span]

frame_status == try_extract_frame.slice.status

DecodeFrame ==
  LET found == try_extract_frame
  IN  /\ found.slice.status = "ready"
      /\ frames' = Append(frames, SliceOf(found.from, found.slice))
      /\ Consume(found.slice.bytes_consumed)
      /\ consumed' = consumed + found.slice.bytes_consumed
      /\ result' \in {"message_ready", "decode_error"}
      /\ UNCHANGED <<stream, received, end_of_stream>>

RejectFrame ==
  /\ frame_status = "invalid_frame"
  /\ result' = "frame_invalid"
  /\ UNCHANGED <<buffer, stream, received, end_of_stream, consumed, frames>>

Finish ==
  /\ frame_status = "need_more_data" /\ end_of_stream
  /\ result' = IF size = 0 THEN "end_of_stream" ELSE "frame_invalid"
  /\ UNCHANGED <<buffer, stream, received, end_of_stream, consumed, frames>>

\* The rounds that call fill_buffer().
Filling == frame_status = "need_more_data" /\ ~end_of_stream

NoSpace ==
  /\ Filling /\ writable_length = 0
  /\ result' = "buffer_exhausted"
  /\ UNCHANGED <<buffer, stream, received, end_of_stream, consumed, frames>>

TransportError ==
  /\ Filling /\ writable_length > 0
  /\ result' = "transport_error"
  /\ UNCHANGED <<buffer, stream, received, end_of_stream, consumed, frames>>

\* The transport has nothing to hand over now.
WouldBlock ==
  /\ Filling /\ writable_length > 0
  /\ result' = "need_more_data"
  /\ UNCHANGED <<buffer, stream, received, end_of_stream, consumed, frames>>

\* The transport hands over n bytes; end_of_stream may come with the last.
ReadSome(n) ==
  /\ Filling
  /\ n \in 1..writable_length /\ received + n <= Len(stream)
  /\ CommitWrite(SubSeq(stream, received + 1, received + n))
  /\ received' = received + n
  /\ end_of_stream' \in {FALSE, received' = Len(stream)}
  /\ result' = "polling"
  /\ UNCHANGED <<stream, consumed, frames>>

ReadEndOfStream ==
  /\ Filling /\ writable_length > 0
  /\ received = Len(stream)
  /\ end_of_stream' = TRUE
  /\ result' = "polling"
  /\ UNCHANGED <<buffer, stream, received, consumed, frames>>

Next ==
  \/ DecodeFrame \/ RejectFrame \/ Finish
  \/ NoSpace \/ TransportError \/ WouldBlock \/ ReadEndOfStream
  \/ \E n \in 1..Capacity : ReadSome(n)

Spec == Init /\ [][Next]_vars

\* The application keeps polling, and the transport is not silent for ever:
\* it hands over the rest of the stream and then says that it ended.
FairSpec ==
  /\ Spec
  /\ WF_vars(DecodeFrame \/ RejectFrame \/ Finish \/ NoSpace)
  /\ WF_vars(ReadEndOfStream \/ \E n \in 1..Capacity : ReadSome(n))

-----------------------------------------------------------------------------
(* Properties.                                                             *)

\* Every variable stays in its type.
TypeOK ==
  /\ head \in Indices /\ tail \in Indices /\ storage \in [Indices -> Bytes]
  /\ stream \in Seq(Bytes)
  /\ received \in 0..Len(stream) /\ consumed \in 0..received
  /\ end_of_stream \in BOOLEAN
  /\ result \in PollStatus \cup {"polling"}
  /\ frames \in Seq(Seq(Bytes))

Unread == SubSeq(stream, consumed + 1, received)

\* The ring holds exactly the bytes read and not consumed, in order, however
\* reads and frames fell across the end of the storage.
RingHoldsUnread == linearize = Unread

\* poll() asks for more data, or reports a full ring, only when what it has
\* does not contain a whole frame: a frame split by the end of the storage
\* is not overlooked.
NoFrameOverlooked ==
  result \in {"need_more_data", "buffer_exhausted", "end_of_stream"} =>
    try_frame(Unread).status = "need_more_data"

\* The ring is reported full only when it holds as many bytes as it can:
\* a frame of up to Capacity - 1 bytes is never given up for lack of space.
ExhaustedMeansFull ==
  result = "buffer_exhausted" => Len(Unread) = Capacity - 1

\* The end of the stream is reported when every byte of it was part of a
\* frame that was handed out.
EndMeansAllConsumed ==
  result = "end_of_stream" => consumed = Len(stream)

\* What poll() says of a stream that yields no more frames is true.
AnswersAreTrue == ExhaustedMeansFull /\ EndMeansAllConsumed

\* Where the reader of the stream ends up after its first k frames: -1 when
\* there is no such frame or it does not fit in the ring.  This is stated on
\* the whole stream, without reads and rings.
FrameEnd[k \in Nat] ==
  IF k = 0 THEN 0
  ELSE LET start == FrameEnd[k - 1]
           slice == try_frame(SubSeq(stream, start + 1, Len(stream)))
       IN  IF start = -1 \/ slice.status # "ready" \/ slice.bytes_consumed > capacity
             THEN -1 ELSE start + slice.bytes_consumed

\* Every frame of the stream that fits in the ring, up to the first that is
\* invalid or does not fit, is handed out in the end.
EveryFrameComes ==
  \A k \in 1..MaxStream : (FrameEnd[k] # -1) ~> (Len(frames) >= k)

=============================================================================
