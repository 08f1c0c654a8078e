------------------------------ MODULE Framers ------------------------------
(***************************************************************************)
(* The framers: how LengthPrefixedFramer and FixedSizeFramer cut the first *)
(* frame off a run of unread bytes.                                        *)
(*                                                                         *)
(* A byte is a number below ByteBase.  ByteBase is 256 in the code; the    *)
(* instances checked by TLC use a smaller one, so that frames whose length *)
(* needs the second byte of a prefix stay short.                           *)
(***************************************************************************)
EXTENDS Integers, Sequences

CONSTANTS
  ByteBase,       \* number of values of a byte
  FramerKind,     \* "length_prefixed" or "fixed_size"
  FrameSize,      \* FixedSizeFramer::frame_size_
  PrefixWidth,    \* LengthPrefixedFramer: options_.prefix_width_bytes
  BigEndian,      \* LengthPrefixedFramer: options_.byte_order
  MaxPayload,     \* LengthPrefixedFramer: options_.max_payload_size
  IncludePrefix   \* LengthPrefixedFramer: options_.include_prefix_in_payload

ASSUME FramerAssumption ==
  /\ ByteBase \in Nat /\ ByteBase >= 1
  /\ FramerKind \in {"length_prefixed", "fixed_size"}
  /\ FrameSize \in Nat /\ PrefixWidth \in Nat /\ MaxPayload \in Nat
  /\ BigEndian \in BOOLEAN /\ IncludePrefix \in BOOLEAN

Bytes == 0..(ByteBase - 1)

\* A FrameStatus together with the FrameSlice try_frame() fills in.
FrameResult == [status : {"ready", "need_more_data", "invalid_frame"},
                offset : Nat, size : Nat, bytes_consumed : Nat]

NeedMoreData == [status |-> "need_more_data", offset |-> 0, size |-> 0, bytes_consumed |-> 0]
InvalidFrame == [status |-> "invalid_frame", offset |-> 0, size |-> 0, bytes_consumed |-> 0]

Ready(offset, size, bytes_consumed) ==
  [status |-> "ready", offset |-> offset, size |-> size, bytes_consumed |-> bytes_consumed]

TryFixedSize(bytes) ==
  IF FrameSize = 0 THEN InvalidFrame
  ELSE IF Len(bytes) < FrameSize THEN NeedMoreData
  ELSE Ready(0, FrameSize, FrameSize)

\* The unsigned number in the first two bytes, as its byte order reads it.
Pair(first, second) ==
  IF BigEndian THEN first * ByteBase + second ELSE second * ByteBase + first

\* read_prefix() for the widths try_frame() lets through.
read_prefix(bytes) ==
  LET high == Pair(bytes[1], bytes[2])
      low  == Pair(bytes[3], bytes[4])
      base == ByteBase * ByteBase
  IN  CASE PrefixWidth = 1 -> bytes[1]
        [] PrefixWidth = 2 -> high
        [] OTHER -> IF BigEndian THEN high * base + low ELSE low * base + high

TryLengthPrefixed(bytes) ==
  IF PrefixWidth \notin {1, 2, 4} THEN InvalidFrame
  ELSE IF Len(bytes) < PrefixWidth THEN NeedMoreData
  ELSE LET payload_size == read_prefix(bytes)
           total_size == PrefixWidth + payload_size
       IN  IF payload_size > MaxPayload THEN InvalidFrame
           ELSE IF Len(bytes) < total_size THEN NeedMoreData
           ELSE IF IncludePrefix THEN Ready(0, total_size, total_size)
           ELSE Ready(PrefixWidth, payload_size, total_size)

\* IFramer::try_frame
try_frame(bytes) ==
  IF FramerKind = "fixed_size" THEN TryFixedSize(bytes) ELSE TryLengthPrefixed(bytes)

\* The bytes a slice denotes.
SliceOf(bytes, slice) == SubSeq(bytes, slice.offset + 1, slice.offset + slice.size)

=============================================================================
