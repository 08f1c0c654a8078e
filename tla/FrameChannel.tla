---------------------------- MODULE FrameChannel ----------------------------
(***************************************************************************)
(* A pair of FrameChannels over a byte stream: send_frame() on one side,   *)
(* try_acquire_frame() and release_frame() on the other.  receive_frame()  *)
(* is an acquire, a copy and a release in one call.                        *)
(*                                                                         *)
(* The two sides are different programs, so the steps of a send, which     *)
(* waits for a transport that takes the frame in pieces, interleave with   *)
(* the rounds of try_acquire_frame().  Every byte the transport took is   *)
(* in wire; the reader's transport hands them over in pieces of any size.  *)
(* The application may send again after a send that failed half way.       *)
(*                                                                         *)
(* The path over transports that keep frame boundaries, which forwards     *)
(* every call to the transport, is not in this module.                     *)
(***************************************************************************)
EXTENDS Integers, Sequences

CONSTANTS
  ByteBase,       \* number of values of a byte, 256 in the code
  PrefixWidth,    \* options_.prefix_width_bytes
  MaxFrameSize,   \* options_.max_frame_size
  ReadSize,       \* target_read_size, what one read asks for
  MaxWire         \* bound on the bytes sent

\* The widths above four are left out.  A width of zero, which the code does
\* not refuse, gives every frame the length zero.
ASSUME ChannelAssumption ==
  /\ ByteBase \in Nat /\ ByteBase >= 2
  /\ PrefixWidth \in 1..4
  /\ MaxFrameSize \in Nat /\ ReadSize \in Nat \ {0} /\ MaxWire \in Nat

Bytes == 0..(ByteBase - 1)

VARIABLES
  outgoing,     \* the spans of write_spans_fully(): the prefix, then the frame
  written,      \* span_index and span_offset: how much of them was taken
  send_state,   \* where send_frame() is
  send_status,  \* what the last send_frame() returned
  wire,         \* every byte the transport took, oldest first
  closed,       \* the sender has closed its transport
  read_count,   \* how many bytes of wire the reader has read
  stream_buffer, stream_buffer_offset,
  lease,        \* the lease given out, as a position in stream_buffer
  receive_status,  \* what the last try_acquire_frame() returned
  sent,         \* history: the frames on the wire, up to the first damage
  damaged,      \* history: the wire is no longer a sequence of whole frames
  consumed,     \* history: how many bytes were released
  delivered     \* history: the frames released

sender == <<outgoing, written, send_state, send_status, wire, closed, sent, damaged>>
receiver == <<read_count, stream_buffer, stream_buffer_offset, lease, receive_status,
              consumed, delivered>>
vars == <<sender, receiver>>

NoLease == [offset |-> 0, size |-> 0, valid |-> FALSE]

Init ==
  /\ outgoing = << >> /\ written = 0 /\ send_state = "idle" /\ send_status = "ok"
  /\ wire = << >> /\ closed = FALSE /\ sent = << >> /\ damaged = FALSE
  /\ read_count = 0 /\ stream_buffer = << >> /\ stream_buffer_offset = 0
  /\ lease = NoLease /\ receive_status = "polling"
  /\ consumed = 0 /\ delivered = << >>

-----------------------------------------------------------------------------
(* The prefix.                                                             *)

PlaceValue(i) ==
  CASE i = 1 -> 1
    [] i = 2 -> ByteBase
    [] i = 3 -> ByteBase * ByteBase
    [] OTHER -> ByteBase * ByteBase * ByteBase

\* The width truncates: a value that needs more bytes loses the upper ones.
encode_little_endian(value) ==
  [i \in 1..PrefixWidth |-> (value \div PlaceValue(i)) % ByteBase]

decode_little_endian(bytes) ==
  LET digit(i) == IF i <= Len(bytes) THEN bytes[i] ELSE 0
  IN  digit(1) + ByteBase * (digit(2) + ByteBase * (digit(3) + ByteBase * digit(4)))

\* The prefix of a frame of this size says its size.
PrefixHolds(size) == decode_little_endian(encode_little_endian(size)) = size

-----------------------------------------------------------------------------
(* The sender.                                                             *)

Remaining == Len(outgoing) - written
FrameOf(spans) == SubSeq(spans, PrefixWidth + 1, Len(spans))
IsEmptyFrame == Len(outgoing) = PrefixWidth

RefuseFrame(frame) ==
  /\ send_state = "idle" /\ ~closed
  /\ Len(frame) > MaxFrameSize
  /\ send_status' = "exhausted"
  /\ UNCHANGED <<outgoing, written, send_state, wire, closed, sent, damaged, receiver>>

SendFrame(frame) ==
  /\ send_state = "idle" /\ ~closed
  /\ Len(frame) <= MaxFrameSize
  /\ Len(wire) + PrefixWidth + Len(frame) <= MaxWire
  /\ outgoing' = encode_little_endian(Len(frame)) \o frame
  /\ written' = 0
  /\ send_state' = "writing"
  /\ UNCHANGED <<send_status, wire, closed, sent, damaged, receiver>>

(* Faulty variants, named after the definition they stand in for and the   *)
(* fault, show that the properties can fail; no specification uses them.   *)
Take_ForgetOffset(n) ==
  LET size  == Len(outgoing) - PrefixWidth
      whole == n > 0 /\ n = Remaining
  IN  /\ wire' = wire \o SubSeq(outgoing, written + 1, written + n)
      /\ written' = IF written + n < PrefixWidth THEN 0
                    ELSE IF whole THEN Len(outgoing) ELSE PrefixWidth
      /\ sent' = IF whole /\ ~damaged /\ PrefixHolds(size)
                   THEN Append(sent, [payload |-> FrameOf(outgoing), end |-> Len(wire')])
                   ELSE sent

\* The transport takes the next n bytes.  The history says what that does to
\* the stream: the last byte of a frame makes it a frame sent.
Take(n) ==
  LET size  == Len(outgoing) - PrefixWidth
      whole == n > 0 /\ n = Remaining
  IN  /\ wire' = wire \o SubSeq(outgoing, written + 1, written + n)
      /\ written' = written + n
      /\ sent' = IF whole /\ ~damaged /\ PrefixHolds(size)
                   THEN Append(sent, [payload |-> FrameOf(outgoing), end |-> Len(wire')])
                   ELSE sent

Return(status) ==
  /\ send_state' = "idle"
  /\ send_status' = status
  /\ damaged' = (damaged \/ written' \in 1..(Len(outgoing) - 1)
                         \/ (written' > 0 /\ ~PrefixHolds(Len(outgoing) - PrefixWidth)))

Wait == send_state' = "waiting" /\ UNCHANGED <<send_status, damaged>>

Writev_OneCall(n) ==
  /\ send_state = "writing" /\ n \in 0..Remaining /\ Remaining > 0
  /\ Take(n)
  /\ IF n > 0 THEN Return("ok") ELSE Wait \/ Return("io_error")
  /\ UNCHANGED <<outgoing, closed, receiver>>

\* One writev().  A write that took part of the rest, or nothing because it
\* would block, is followed by a wait; so is the prefix of an empty frame,
\* because the loop still has its empty second span.
Writev(n) ==
  /\ send_state = "writing" /\ n \in 0..Remaining /\ Remaining > 0
  /\ Take(n)
  /\ IF n = Remaining /\ ~IsEmptyFrame THEN Return("ok")
     ELSE Wait \/ (n = 0 /\ Return("io_error"))
  /\ UNCHANGED <<outgoing, closed, receiver>>

\* A transport that writes span by span may have taken some when it fails.
WritevError(n) ==
  /\ send_state = "writing" /\ n \in 0..(Remaining - 1)
  /\ Take(n)
  /\ Return("io_error")
  /\ UNCHANGED <<outgoing, closed, receiver>>

\* Nothing is left but empty spans.
NothingLeft ==
  /\ send_state = "writing" /\ Remaining = 0
  /\ UNCHANGED <<outgoing, written, wire, closed, sent, receiver>>
  /\ Return("ok")

Writable ==
  /\ send_state = "waiting"
  /\ send_state' = "writing"
  /\ UNCHANGED <<outgoing, written, send_status, wire, closed, sent, damaged, receiver>>

\* wait_until_writable(1000) runs out, or fails.
WaitFails ==
  /\ send_state = "waiting"
  /\ UNCHANGED <<outgoing, written, wire, closed, sent, receiver>>
  /\ Return("exhausted") \/ Return("io_error")

CloseSender ==
  /\ send_state = "idle" /\ ~closed
  /\ closed' = TRUE
  /\ UNCHANGED <<outgoing, written, send_state, send_status, wire, sent, damaged, receiver>>

-----------------------------------------------------------------------------
(* The receiver.                                                           *)

unread_bytes == Len(stream_buffer) - stream_buffer_offset

try_parse_frame_length ==
  LET length == decode_little_endian(
                  SubSeq(stream_buffer, stream_buffer_offset + 1,
                                        stream_buffer_offset + PrefixWidth))
  IN  IF unread_bytes < PrefixWidth THEN [code |-> "not_found", length |-> 0]
      ELSE IF length > MaxFrameSize THEN [code |-> "exhausted", length |-> 0]
      ELSE [code |-> "ok", length |-> length]

parsed == try_parse_frame_length

FrameIsThere_OffByOne ==
  parsed.code = "ok" /\ unread_bytes > PrefixWidth + parsed.length

FrameIsThere == parsed.code = "ok" /\ unread_bytes >= PrefixWidth + parsed.length

LeaseBytes == SubSeq(stream_buffer, lease.offset + 1, lease.offset + lease.size)

\* compact_stream_buffer() on the buffer whose first offset bytes are released.
Compacted(offset) ==
  IF offset >= Len(stream_buffer) THEN << >>
  ELSE SubSeq(stream_buffer, offset + 1, Len(stream_buffer))

Acquire_Advance ==
  /\ FrameIsThere
  /\ lease' = [offset |-> stream_buffer_offset + PrefixWidth, size |-> parsed.length,
               valid |-> TRUE]
  /\ stream_buffer_offset' = stream_buffer_offset + PrefixWidth + parsed.length
  /\ receive_status' = "ready"
  /\ UNCHANGED <<read_count, stream_buffer, consumed, delivered, sender>>

Acquire ==
  /\ FrameIsThere
  /\ lease' = [offset |-> stream_buffer_offset + PrefixWidth, size |-> parsed.length,
               valid |-> TRUE]
  /\ receive_status' = "ready"
  /\ UNCHANGED <<read_count, stream_buffer, stream_buffer_offset, consumed, delivered, sender>>

RefuseLength ==
  /\ parsed.code = "exhausted"
  /\ receive_status' = "exhausted"
  /\ UNCHANGED <<read_count, stream_buffer, stream_buffer_offset, lease, consumed, delivered,
                 sender>>

Filling_Eager == parsed.code # "exhausted"

\* The rounds that call fill_stream_buffer().
Filling == parsed.code # "exhausted" /\ ~FrameIsThere

\* Which first compacts when everything is released, or half of the buffer.
MustCompact ==
  stream_buffer_offset > 0 /\ (unread_bytes = 0 \/ stream_buffer_offset >= Len(stream_buffer) \div 2)

Fill(bytes) ==
  /\ stream_buffer' = (IF MustCompact THEN Compacted(stream_buffer_offset) ELSE stream_buffer)
                        \o bytes
  /\ stream_buffer_offset' = IF MustCompact THEN 0 ELSE stream_buffer_offset

ReadSome(n) ==
  /\ Filling
  /\ n \in 1..ReadSize /\ read_count + n <= Len(wire)
  /\ Fill(SubSeq(wire, read_count + 1, read_count + n))
  /\ read_count' = read_count + n
  /\ receive_status' = "polling"
  /\ UNCHANGED <<lease, consumed, delivered, sender>>

\* Nothing to read now, or nothing any more: both are "not found".
ReadNothing ==
  /\ Filling
  /\ Fill(<< >>)
  /\ receive_status' = "not_found"
  /\ UNCHANGED <<read_count, lease, consumed, delivered, sender>>

\* A transport error is returned only while the prefix is incomplete.
ReadError ==
  /\ Filling
  /\ Fill(<< >>)
  /\ receive_status' = IF parsed.code = "ok" THEN "not_found" ELSE "io_error"
  /\ UNCHANGED <<read_count, lease, consumed, delivered, sender>>

\* release_frame(); the application has read the lease's bytes by then, and
\* releases a lease once.
Release ==
  /\ lease.valid
  /\ delivered' = Append(delivered, LeaseBytes)
  /\ consumed' = consumed + PrefixWidth + lease.size
  /\ stream_buffer' = Compacted(stream_buffer_offset + PrefixWidth + lease.size)
  /\ stream_buffer_offset' = 0
  /\ lease' = NoLease
  /\ UNCHANGED <<read_count, receive_status, sender>>

-----------------------------------------------------------------------------
Frames == UNION {[1..n -> Bytes] : n \in 0..(MaxFrameSize + 1)}

SenderStep ==
  \/ \E frame \in Frames : SendFrame(frame) \/ RefuseFrame(frame)
  \/ \E n \in 0..MaxWire : Writev(n) \/ WritevError(n)
  \/ NothingLeft \/ Writable \/ WaitFails \/ CloseSender

ReceiverStep ==
  \/ Acquire \/ RefuseLength \/ ReadNothing \/ ReadError \/ Release
  \/ \E n \in 1..ReadSize : ReadSome(n)

Next == SenderStep \/ ReceiverStep

Spec == Init /\ [][Next]_vars

-----------------------------------------------------------------------------
(* Properties.                                                             *)

\* The buffer holds what was read and not released, whatever was compacted.
BufferIsUnread == stream_buffer = SubSeq(wire, consumed + 1, read_count)

\* The buffer holds what it must, and never more than an incomplete frame
\* and one read.
BufferBounded ==
  /\ BufferIsUnread
  /\ Len(stream_buffer) < PrefixWidth + MaxFrameSize + ReadSize

\* Up to the first frame that was cut short or does not fit its prefix, the
\* receiver gets the frames that were sent, whole, in order and each once;
\* it gets more than that only when such a frame was sent.
FramesIntact ==
  /\ \A k \in 1..Len(delivered) : k <= Len(sent) => delivered[k] = sent[k].payload
  /\ Len(delivered) > Len(sent) => damaged \/ send_state # "idle"

\* A lease is a view into stream_buffer: no call made while it is held moves
\* or overwrites the bytes it shows, or cuts them off.
LeaseStable ==
  [][lease.valid /\ lease'.valid =>
       /\ lease'.offset + lease'.size <= Len(stream_buffer')
       /\ LeaseBytes' = LeaseBytes]_vars

\* send_frame() returns ok only when the whole frame was taken, and an error
\* only when a part is missing - save for an empty frame, whose last wait can
\* time out when there is nothing left to write.
SendOutcome ==
  [][send_state # "idle" /\ send_state' = "idle" =>
       IF send_status' = "ok" THEN written' = Len(outgoing)
       ELSE written' < Len(outgoing) \/ IsEmptyFrame]_vars

=============================================================================
