---------------------------- MODULE FrameDecoder ----------------------------
(***************************************************************************)
(* The FrameDecoder classes of the Python and the TypeScript runtime as    *)
(* readers of the stream a FrameChannel writes, in place of the            *)
(* FrameChannel that reads it in C++.                                      *)
(*                                                                         *)
(* feed() appends the bytes received to its buffer and scans it for whole  *)
(* frames, one turn of its loop a step here.  A length above the limit     *)
(* raises out of the loop.  The TypeScript decoder scans the bytes         *)
(* received themselves when its buffer is empty, and appends what is left. *)
(***************************************************************************)
EXTENDS FrameChannel

CONSTANTS
  Readers,   \* which of "cpp", "python" and "typescript" may read
  FeedSize   \* most bytes given to one feed()

ASSUME DecoderAssumption ==
  /\ Readers \subseteq {"cpp", "python", "typescript"}
  /\ FeedSize \in Nat

VARIABLES
  reader,    \* which one does
  buffer, read_offset, write_offset,
  scan,      \* the feed() in progress: what it scans, how far, what it found
  fed,       \* how many bytes of the wire were fed to it
  frames,    \* the frames feed() returned
  cut,       \* history: how many bytes the frames found so far took
  raised     \* history: whether feed() raised, and what became of its bytes

decoder == <<buffer, read_offset, write_offset, scan, fed, frames, cut, raised>>
all_vars == <<vars, reader, decoder>>

NoScan == [at |-> "idle", view |-> << >>, offset |-> 0, batch |-> << >>]

DecoderInit ==
  /\ Init
  /\ reader \in Readers
  /\ buffer = << >> /\ read_offset = 0 /\ write_offset = 0
  /\ scan = NoScan /\ fed = 0 /\ frames = << >> /\ cut = 0 /\ raised = "no"

Buffered == SubSeq(buffer, read_offset + 1, write_offset)

\* What try_read_frame() makes of the bytes it is given.
try_read_frame_NoLimit(bytes) ==
  LET size  == decode_little_endian(SubSeq(bytes, 1, PrefixWidth))
      total == PrefixWidth + size
  IN  IF Len(bytes) < PrefixWidth \/ Len(bytes) < total THEN [kind |-> "none"]
      ELSE [kind |-> "frame", payload |-> SubSeq(bytes, PrefixWidth + 1, total),
            total |-> total]

try_read_frame_OffByOne(bytes) ==
  LET size  == decode_little_endian(SubSeq(bytes, 1, PrefixWidth))
      total == PrefixWidth + size
  IN  IF Len(bytes) < PrefixWidth THEN [kind |-> "none"]
      ELSE IF size > MaxFrameSize THEN [kind |-> "oversize"]
      ELSE IF Len(bytes) <= total THEN [kind |-> "none"]
      ELSE [kind |-> "frame", payload |-> SubSeq(bytes, PrefixWidth + 1, total),
            total |-> total]

try_read_frame(bytes) ==
  LET size  == decode_little_endian(SubSeq(bytes, 1, PrefixWidth))
      total == PrefixWidth + size
  IN  IF Len(bytes) < PrefixWidth THEN [kind |-> "none"]
      ELSE IF size > MaxFrameSize THEN [kind |-> "oversize"]
      ELSE IF Len(bytes) < total THEN [kind |-> "none"]
      ELSE [kind |-> "frame", payload |-> SubSeq(bytes, PrefixWidth + 1, total),
            total |-> total]

\* Python's _append(): what was read is cut off once it is half the buffer.
PythonAppend(data) ==
  LET compact == read_offset > 0 /\ read_offset * 2 >= Len(buffer)
  IN  IF compact
      THEN [buffer |-> Buffered \o data, read |-> 0, write |-> Len(Buffered \o data)]
      ELSE [buffer |-> buffer \o data, read |-> read_offset,
            write |-> write_offset + Len(data)]

\* Where the data goes in a buffer that has room behind it.
Placed(bytes, at, data) ==
  SubSeq(bytes, 1, at) \o data \o SubSeq(bytes, at + Len(data) + 1, Len(bytes))

\* Doubling a buffer until the bytes fit is the larger of one doubling and
\* the need.
Grown(required) ==
  LET capacity == IF Len(buffer) >= required THEN Len(buffer)
                  ELSE IF 2 * Len(buffer) > required /\ Len(buffer) > 0
                       THEN 2 * Len(buffer) ELSE required
  IN  Buffered \o [i \in 1..(capacity - Len(Buffered)) |-> 0]

\* TypeScript's append(): the data goes behind the rest, which moves to the
\* front, in this array or a larger one, when there is no room.
TypeScriptAppend(read, write, data) ==
  LET rest == write - read
      required == rest + Len(data)
      moved == IF read > 0 /\ Len(buffer) >= required
               THEN Placed(buffer, 0, Buffered) ELSE Grown(required)
  IN  IF Len(data) = 0
      THEN [buffer |-> buffer, read |-> read, write |-> write]
      ELSE IF Len(buffer) - write < Len(data)
      THEN [buffer |-> Placed(moved, rest, data), read |-> 0, write |-> required]
      ELSE [buffer |-> Placed(buffer, write, data), read |-> read,
            write |-> write + Len(data)]

Append_(data) ==
  IF reader = "python" THEN PythonAppend(data)
  ELSE TypeScriptAppend(read_offset, write_offset, data)

\* The buffer is empty: only TypeScript cares.
Direct == reader = "typescript" /\ read_offset = write_offset

SetBuffer(next) ==
  /\ buffer' = next.buffer /\ read_offset' = next.read /\ write_offset' = next.write

Feed(n) ==
  /\ reader # "cpp" /\ scan.at = "idle"
  /\ fed + n <= Len(wire)
  /\ LET data == SubSeq(wire, fed + 1, fed + n)
         next == Append_(data)
     IN  IF Direct
         THEN /\ SetBuffer([buffer |-> buffer, read |-> 0, write |-> 0])
              /\ scan' = [NoScan EXCEPT !.at = "data", !.view = data]
         ELSE /\ SetBuffer(next)
              /\ scan' = [NoScan EXCEPT !.at = "buffer",
                            !.view = SubSeq(next.buffer, next.read + 1, next.write)]
  /\ fed' = fed + n
  /\ UNCHANGED <<frames, cut, raised, reader, vars>>

Scanning == scan.at # "idle"
Rest == SubSeq(scan.view, scan.offset + 1, Len(scan.view))
Seen == try_read_frame(Rest)

ScanFrame ==
  /\ Scanning /\ Seen.kind = "frame"
  /\ scan' = [scan EXCEPT !.batch = Append(@, Seen.payload), !.offset = @ + Seen.total]
  /\ cut' = cut + Seen.total
  /\ UNCHANGED <<buffer, read_offset, write_offset, fed, frames, raised, reader, vars>>

\* The position is set back to 0 when everything was read.
Advanced(offset) ==
  IF read_offset + offset = write_offset
  THEN [buffer |-> IF reader = "python" THEN << >> ELSE buffer, read |-> 0, write |-> 0]
  ELSE [buffer |-> buffer, read |-> read_offset + offset, write |-> write_offset]

FeedReturns_Stays ==
  /\ Scanning /\ Seen.kind = "none"
  /\ SetBuffer(IF scan.at = "data" THEN TypeScriptAppend(0, 0, Rest) ELSE Advanced(0))
  /\ frames' = frames \o scan.batch
  /\ scan' = NoScan
  /\ UNCHANGED <<fed, cut, raised, reader, vars>>

\* No whole frame is left: feed() returns what it found.
FeedReturns ==
  /\ Scanning /\ Seen.kind = "none"
  /\ SetBuffer(IF scan.at = "data" THEN TypeScriptAppend(0, 0, Rest)
               ELSE Advanced(scan.offset))
  /\ frames' = frames \o scan.batch
  /\ scan' = NoScan
  /\ UNCHANGED <<fed, cut, raised, reader, vars>>

\* The frames found are dropped with the exception.  The buffer still has
\* their bytes; bytes that were scanned directly never got there.
FeedRaises ==
  /\ Scanning /\ Seen.kind = "oversize"
  /\ raised' = IF scan.at = "data" THEN "lost" ELSE IF raised = "no" THEN "kept" ELSE raised
  /\ cut' = cut - scan.offset
  /\ scan' = NoScan
  /\ UNCHANGED <<buffer, read_offset, write_offset, fed, frames, reader, vars>>

DecoderStep ==
  \/ ScanFrame \/ FeedReturns \/ FeedRaises
  \/ \E n \in 0..FeedSize : Feed(n)

\* The sender is the same whoever reads.
DecoderNext ==
  \/ DecoderStep
  \/ SenderStep /\ UNCHANGED <<reader, decoder>>
  \/ reader = "cpp" /\ ReceiverStep /\ UNCHANGED <<reader, decoder>>

DecoderSpec == DecoderInit /\ [][DecoderNext]_all_vars

\* The C++ application keeps asking and gives its leases back, and the
\* transport hands over what it took.
DecoderFairSpec ==
  /\ DecoderSpec
  /\ WF_all_vars(reader = "cpp" /\ Acquire /\ ~lease.valid /\ UNCHANGED <<reader, decoder>>)
  /\ WF_all_vars(reader = "cpp" /\ Release /\ UNCHANGED <<reader, decoder>>)
  /\ WF_all_vars(reader = "cpp" /\ UNCHANGED <<reader, decoder>>
                       /\ \E n \in 1..ReadSize : ReadSome(n))

-----------------------------------------------------------------------------
(* Properties.                                                             *)

\* Between two calls of feed() the buffer holds the bytes fed and not yet
\* returned, wherever they were moved, and no whole frame is among them; a
\* decoder that raised with bytes in its buffer keeps them all.
DecoderKeepsUnread ==
  scan.at = "idle" /\ raised # "lost" =>
    /\ Buffered = SubSeq(wire, cut + 1, fed)
    /\ raised = "no" => try_read_frame(Buffered).kind = "none"

\* Until it raises a decoder cuts the stream where LengthPrefixedFramer does.
Decoded == INSTANCE FrameSource WITH
  bytes <- SubSeq(wire, 1, fed), offset <- cut, frames <- frames \o scan.batch,
  FramerKind <- "length_prefixed", FrameSize <- 1, BigEndian <- FALSE,
  MaxPayload <- MaxFrameSize, IncludePrefix <- FALSE

DecodesAsFramed ==
  [][raised' = "no" => [Decoded!Next]_(Decoded!vars)]_all_vars

\* Every frame sent before any damage reaches the C++ reader's application.
EverySentArrives ==
  reader = "cpp" => \A k \in 1..MaxWire : (Len(sent) >= k) ~> (Len(delivered) >= k)

=============================================================================
