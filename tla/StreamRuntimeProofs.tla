------------------------ MODULE StreamRuntimeProofs ------------------------
(***************************************************************************)
(* Proofs about StreamRuntime for every capacity, stream and framer.       *)
(***************************************************************************)
EXTENDS MCStreamRuntime, SequenceTheorems, TLAPS

-----------------------------------------------------------------------------
(* The framers.                                                            *)

\* A prefix of one, two or four bytes is read as a natural number.
LEMMA PrefixIsNat ==
  ASSUME NEW b \in Seq(Bytes), PrefixWidth \in {1, 2, 4}, Len(b) >= PrefixWidth
  PROVE  read_prefix(b) \in Nat
<1>. USE FramerAssumption
<1>1. \A i \in 1..Len(b) : b[i] \in Nat
  BY DEF Bytes
<1>2. ASSUME NEW x \in Nat, NEW y \in Nat
      PROVE  Pair(x, y) \in Nat /\ x * ByteBase \in Nat
  BY <1>2 DEF Pair
<1>3. CASE PrefixWidth = 1
  BY <1>1, <1>3 DEF read_prefix
<1>4. CASE PrefixWidth = 2
  <2>1. b[1] \in Nat /\ b[2] \in Nat
    BY <1>1, <1>4
  <2>. QED
    BY <1>2, <1>4, <2>1 DEF read_prefix
<1>5. CASE PrefixWidth = 4
  <2>. DEFINE high == Pair(b[1], b[2])
              low  == Pair(b[3], b[4])
              base == ByteBase * ByteBase
  <2>1. b[1] \in Nat /\ b[2] \in Nat /\ b[3] \in Nat /\ b[4] \in Nat
    BY <1>1, <1>5
  <2>2. high \in Nat /\ low \in Nat /\ base \in Nat
    BY <1>2, <2>1
  <2>3. read_prefix(b) = IF BigEndian THEN high * base + low ELSE low * base + high
    BY <1>5 DEF read_prefix
  <2>. HIDE DEF high, low, base
  <2>. QED
    BY <2>2, <2>3
<1>. QED
  BY <1>3, <1>4, <1>5

\* What a framer returns is a result, and a frame it found lies within the
\* bytes it was given and takes up at least one of them.
LEMMA FramerResult ==
  ASSUME NEW b \in Seq(Bytes)
  PROVE  /\ try_frame(b) \in FrameResult
         /\ try_frame(b).status = "ready" =>
              /\ try_frame(b).bytes_consumed \in 1..Len(b)
              /\ try_frame(b).offset + try_frame(b).size = try_frame(b).bytes_consumed
<1>. USE FramerAssumption
<1>1. TryFixedSize(b) \in FrameResult
      /\ (TryFixedSize(b).status = "ready" =>
            /\ TryFixedSize(b).bytes_consumed \in 1..Len(b)
            /\ TryFixedSize(b).offset + TryFixedSize(b).size = TryFixedSize(b).bytes_consumed)
  BY DEF TryFixedSize, FrameResult, NeedMoreData, InvalidFrame, Ready
<1>2. TryLengthPrefixed(b) \in FrameResult
      /\ (TryLengthPrefixed(b).status = "ready" =>
            /\ TryLengthPrefixed(b).bytes_consumed \in 1..Len(b)
            /\ TryLengthPrefixed(b).offset + TryLengthPrefixed(b).size
                 = TryLengthPrefixed(b).bytes_consumed)
  <2>1. CASE PrefixWidth \notin {1, 2, 4} \/ Len(b) < PrefixWidth
    BY <2>1 DEF TryLengthPrefixed, FrameResult, NeedMoreData, InvalidFrame
  <2>2. CASE PrefixWidth \in {1, 2, 4} /\ ~(Len(b) < PrefixWidth)
    <3>1. read_prefix(b) \in Nat
      BY <2>2, PrefixIsNat
    <3>. QED
      BY <2>2, <3>1 DEF TryLengthPrefixed, FrameResult, NeedMoreData, InvalidFrame, Ready
  <2>. QED
    BY <2>1, <2>2
<1>. QED
  BY <1>1, <1>2 DEF try_frame

\* A framer decides by the first bytes: once it has found a frame or refused
\* one, more bytes behind it change nothing.
LEMMA FramerStable ==
  ASSUME NEW short \in Seq(Bytes), NEW long \in Seq(Bytes),
         Len(short) <= Len(long), \A i \in 1..Len(short) : short[i] = long[i],
         try_frame(short).status # "need_more_data"
  PROVE  try_frame(long) = try_frame(short)
<1>. USE FramerAssumption
<1>1. CASE FramerKind = "fixed_size"
  BY <1>1 DEF try_frame, TryFixedSize, NeedMoreData
<1>2. CASE FramerKind # "fixed_size"
  <2>1. CASE PrefixWidth \notin {1, 2, 4}
    BY <1>2, <2>1 DEF try_frame, TryLengthPrefixed
  <2>2. CASE PrefixWidth \in {1, 2, 4}
    <3>1. Len(short) >= PrefixWidth
      BY <1>2, <2>2 DEF try_frame, TryLengthPrefixed, NeedMoreData
    <3>2. read_prefix(long) = read_prefix(short)
      <4>1. CASE PrefixWidth = 1
        <5>1. short[1] = long[1]
          BY <3>1, <4>1
        <5>. QED
          BY <4>1, <5>1 DEF read_prefix
      <4>2. CASE PrefixWidth = 2
        <5>1. short[1] = long[1] /\ short[2] = long[2]
          BY <3>1, <4>2
        <5>. QED
          BY <4>2, <5>1 DEF read_prefix
      <4>3. CASE PrefixWidth = 4
        <5>1. /\ short[1] = long[1] /\ short[2] = long[2]
              /\ short[3] = long[3] /\ short[4] = long[4]
          BY <3>1, <4>3
        <5>. QED
          BY <4>3, <5>1 DEF read_prefix
      <4>. QED
        BY <2>2, <4>1, <4>2, <4>3
    <3>3. read_prefix(short) \in Nat
      BY <2>2, <3>1, PrefixIsNat
    <3>. QED
      BY <1>2, <2>2, <3>1, <3>2, <3>3 DEF try_frame, TryLengthPrefixed, NeedMoreData
  <2>. QED
    BY <2>1, <2>2
<1>. QED
  BY <1>1, <1>2

-----------------------------------------------------------------------------
(* The ring.                                                               *)

\* Where the k-th unread byte is.
At(h, k) == IF h + k - 1 < Capacity THEN h + k - 1 ELSE h + k - 1 - Capacity

\* The types of the ring.
RingOK == head \in Indices /\ tail \in Indices /\ storage \in [Indices -> Bytes]

\* Sizes stay within the ring, and the two parts linearize() copies make up
\* all of it.
LEMMA RingSizes ==
  ASSUME RingOK
  PROVE  /\ size \in 0..capacity
         /\ readable_length \in 0..size
         /\ ~has_wrapped_readable_data => readable_length = size
         /\ writable_length \in 0..free_space
         /\ writable_length = 0 => size = capacity
         /\ tail + writable_length <= Capacity
BY CapacityAssumption DEF RingOK, Indices, size, readable_length, has_wrapped_readable_data,
   writable_length, free_space, capacity, Smaller

\* linearize() yields the unread bytes one after the other.
LEMMA LinearizeAt ==
  ASSUME RingOK
  PROVE  /\ linearize \in Seq(Bytes) /\ Len(linearize) = size
         /\ \A k \in 1..size : At(head, k) \in Indices /\ linearize[k] = storage[At(head, k)]
<1>1. ASSUME NEW k \in 1..size
      PROVE  /\ At(head, k) \in Indices
             /\ (IF k <= readable_length THEN storage[head + k - 1]
                                         ELSE storage[k - readable_length - 1])
                = storage[At(head, k)]
  <2>1. CASE k <= readable_length
    BY <1>1, <2>1, CapacityAssumption DEF RingOK, Indices, At, size, readable_length
  <2>2. CASE ~(k <= readable_length)
    BY <1>1, <2>2, CapacityAssumption DEF RingOK, Indices, At, size, readable_length
  <2>. QED
    BY <2>1, <2>2
<1>2. size \in Nat
  BY RingSizes, CapacityAssumption DEF capacity
<1>3. \A k \in 1..size : linearize[k] = storage[At(head, k)]
  BY <1>1 DEF linearize
<1>4. linearize \in [1..size -> Bytes]
  BY <1>1 DEF linearize, RingOK
<1>. QED
  BY <1>1, <1>2, <1>3, <1>4

\* readable_span() is the first part of what linearize() yields.
LEMMA ReadableSpanAt ==
  ASSUME RingOK
  PROVE  /\ readable_span \in Seq(Bytes) /\ Len(readable_span) = readable_length
         /\ readable_length <= size
         /\ \A k \in 1..readable_length : readable_span[k] = linearize[k]
<1>1. readable_length \in Nat /\ readable_length <= size
  BY RingSizes, CapacityAssumption DEF capacity
<1>2. \A k \in 1..readable_length : head + k - 1 \in Indices
  BY CapacityAssumption DEF RingOK, Indices, readable_length, size
<1>3. readable_span \in [1..readable_length -> Bytes]
  BY <1>2 DEF readable_span, RingOK
<1>4. \A k \in 1..readable_length : readable_span[k] = linearize[k]
  <2>1. size \in Nat
    BY RingSizes, CapacityAssumption DEF capacity
  <2>2. \A k \in 1..readable_length : k \in 1..size
    BY <1>1, <2>1
  <2>. QED
    BY <1>1, <2>2 DEF readable_span, linearize
<1>. QED
  BY <1>1, <1>3, <1>4

-----------------------------------------------------------------------------
(* The inductive invariant.                                                *)

\* The unread part of the ring is the part of the stream that was received
\* and not consumed, byte by byte.
RingContents ==
  /\ size = received - consumed
  /\ \A k \in 1..size : storage[At(head, k)] = stream[consumed + k]

\* The last answer of poll() was right: what it said of the unread bytes
\* still holds, because only an answer that asks for another round is
\* followed by a change.
ResultInv ==
  /\ NoFrameOverlooked
  /\ result = "buffer_exhausted" => size = capacity
  /\ result = "end_of_stream" => end_of_stream /\ size = 0
  /\ end_of_stream => received = Len(stream)

IInv == TypeOK /\ RingContents /\ ResultInv

\* The bytes poll() looks at are those of the stream.
LEMMA UnreadProperties ==
  ASSUME TypeOK
  PROVE  /\ Unread \in Seq(Bytes)
         /\ Len(Unread) = received - consumed
         /\ \A k \in 1..(received - consumed) : Unread[k] = stream[consumed + k]
<1>1. /\ stream \in Seq(Bytes) /\ Len(stream) \in Nat
      /\ received \in 0..Len(stream) /\ consumed \in 0..received
  BY DEF TypeOK
<1>2. \A i \in (consumed + 1)..received : stream[i] \in Bytes
  BY <1>1
<1>3. consumed + 1 \in Int /\ received \in Int
  BY <1>1
<1>4. /\ Unread \in Seq(Bytes)
      /\ Len(Unread) = IF consumed + 1 <= received THEN received - (consumed + 1) + 1 ELSE 0
      /\ \A k \in 1..(received - (consumed + 1) + 1) : Unread[k] = stream[consumed + 1 + k - 1]
  BY <1>2, <1>3, SubSeqProperties DEF Unread
<1>. QED
  BY <1>1, <1>4

\* The ring's bytes, put in line, are the unread bytes of the stream.
LEMMA RingIsUnread ==
  ASSUME TypeOK, RingContents
  PROVE  linearize = Unread
<1>1. RingOK
  BY DEF TypeOK, RingOK
<1>2. /\ linearize \in Seq(Bytes) /\ Len(linearize) = size
      /\ \A k \in 1..size : linearize[k] = storage[At(head, k)]
  BY <1>1, LinearizeAt
<1>3. /\ Unread \in Seq(Bytes) /\ Len(Unread) = size
      /\ \A k \in 1..size : Unread[k] = stream[consumed + k]
  BY UnreadProperties DEF RingContents
<1>4. \A k \in 1..Len(linearize) : linearize[k] = Unread[k]
  BY <1>2, <1>3 DEF RingContents
<1>. QED
  BY <1>2, <1>3, <1>4, SeqEqual

\* try_extract_frame() finds what a framer finds in the unread bytes of the
\* stream, whether it looked at the contiguous part or at the copy.
LEMMA ExtractIsTryFrame ==
  ASSUME TypeOK, RingContents
  PROVE  /\ try_extract_frame.slice = try_frame(Unread)
         /\ try_frame(Unread).status = "ready" =>
              SliceOf(try_extract_frame.from, try_extract_frame.slice)
                = SliceOf(Unread, try_frame(Unread))
<1>1. RingOK
  BY DEF TypeOK, RingOK
<1>2. linearize = Unread /\ linearize \in Seq(Bytes) /\ Len(linearize) = size
  BY <1>1, RingIsUnread, LinearizeAt
<1>3. /\ readable_span \in Seq(Bytes) /\ Len(readable_span) = readable_length
      /\ readable_length \in 0..size /\ size \in Nat
      /\ \A k \in 1..readable_length : readable_span[k] = linearize[k]
  BY <1>1, ReadableSpanAt, RingSizes, CapacityAssumption DEF capacity
<1>4. CASE has_wrapped_readable_data /\ try_frame(readable_span).status # "ready"
  BY <1>2, <1>4 DEF try_extract_frame
<1>5. CASE ~has_wrapped_readable_data
  <2>1. readable_span = linearize
    <3>1. readable_length = size
      BY <1>1, <1>5, RingSizes
    <3>. QED
      BY <1>2, <1>3, <3>1, SeqEqual
  <2>. QED
    BY <1>2, <1>5, <2>1 DEF try_extract_frame
<1>6. CASE try_frame(readable_span).status = "ready"
  <2>1. try_frame(linearize) = try_frame(readable_span)
    BY <1>2, <1>3, <1>6, FramerStable
  <2>2. try_extract_frame = [slice |-> try_frame(readable_span), from |-> readable_span]
    BY <1>6 DEF try_extract_frame
  <2>. DEFINE slice == try_frame(readable_span)
  <2>3. /\ slice \in FrameResult /\ slice.bytes_consumed \in 1..Len(readable_span)
        /\ slice.offset + slice.size = slice.bytes_consumed
    BY <1>3, <1>6, FramerResult
  <2>4. SliceOf(readable_span, slice) = SliceOf(linearize, slice)
    <3>. HIDE DEF slice
    <3>. DEFINE m == slice.offset + 1
                n == slice.offset + slice.size
    <3>1. m \in Int /\ n \in Int /\ m >= 1 /\ n <= readable_length
      BY <1>3, <2>3 DEF FrameResult
    <3>2. \A i \in m..n : readable_span[i] \in Bytes /\ linearize[i] = readable_span[i]
      BY <1>3, <3>1
    <3>. HIDE DEF m, n
    <3>3. /\ SubSeq(readable_span, m, n) \in Seq(Bytes)
          /\ Len(SubSeq(readable_span, m, n)) = IF m <= n THEN n - m + 1 ELSE 0
          /\ \A i \in 1..(n - m + 1) : SubSeq(readable_span, m, n)[i] = readable_span[m + i - 1]
      BY <3>1, <3>2, SubSeqProperties
    <3>4. /\ SubSeq(linearize, m, n) \in Seq(Bytes)
          /\ Len(SubSeq(linearize, m, n)) = IF m <= n THEN n - m + 1 ELSE 0
          /\ \A i \in 1..(n - m + 1) : SubSeq(linearize, m, n)[i] = linearize[m + i - 1]
      BY <3>1, <3>2, SubSeqProperties
    <3>5. \A i \in 1..Len(SubSeq(readable_span, m, n)) :
            SubSeq(readable_span, m, n)[i] = SubSeq(linearize, m, n)[i]
      BY <3>1, <3>2, <3>3, <3>4
    <3>6. SubSeq(readable_span, m, n) = SubSeq(linearize, m, n)
      BY <3>3, <3>4, <3>5, SeqEqual
    <3>. QED
      BY <3>6 DEF m, n, SliceOf
  <2>. QED
    BY <1>2, <2>1, <2>2, <2>4
<1>. QED
  BY <1>4, <1>5, <1>6

-----------------------------------------------------------------------------
(* What consume() and commit_write() do to the contents.                   *)

\* Index arithmetic of consume() and commit_write().
LEMMA Wraps ==
  ASSUME NEW i \in Indices, NEW n \in 0..Capacity
  PROVE  (i + n) % Capacity = IF i + n < Capacity THEN i + n ELSE i + n - Capacity
<1>1. CASE i + n < Capacity
  BY <1>1, CapacityAssumption DEF Indices
<1>2. CASE ~(i + n < Capacity)
  BY <1>2, CapacityAssumption DEF Indices
<1>. QED
  BY <1>1, <1>2

\* consume(n) drops the n oldest bytes.
LEMMA ConsumeDrops ==
  ASSUME RingOK, NEW n \in 1..size, Consume(n)
  PROVE  /\ RingOK'
         /\ size' = size - n
         /\ \A k \in 1..(size - n) : At(head', k) = At(head, n + k)
<1>1. size \in 0..capacity /\ n \in 0..Capacity
  BY RingSizes, CapacityAssumption DEF capacity
<1>2. /\ head' = IF head + n < Capacity THEN head + n ELSE head + n - Capacity
      /\ UNCHANGED <<tail, storage>>
  BY <1>1, Wraps DEF Consume, RingOK
<1>3. RingOK'
  BY <1>1, <1>2, CapacityAssumption DEF RingOK, Indices, capacity
<1>4. size' = size - n
  BY <1>1, <1>2, CapacityAssumption DEF RingOK, Indices, capacity, size
<1>5. ASSUME NEW k \in 1..(size - n)
      PROVE  At(head', k) = At(head, n + k)
  BY <1>1, <1>2, CapacityAssumption DEF RingOK, Indices, capacity, At
<1>. QED
  BY <1>3, <1>4, <1>5

\* Bytes committed at writable_span() follow the unread ones, and no unread
\* byte is overwritten.
LEMMA CommitAppends ==
  ASSUME RingOK, NEW b \in Seq(Bytes), Len(b) \in 1..writable_length, CommitWrite(b)
  PROVE  /\ RingOK'
         /\ size' = size + Len(b)
         /\ \A k \in 1..size : storage'[At(head', k)] = storage[At(head, k)]
         /\ \A k \in 1..Len(b) : storage'[At(head', size + k)] = b[k]
<1>. DEFINE n == Len(b)
<1>1. /\ size \in 0..capacity /\ writable_length \in 0..free_space
      /\ tail + writable_length <= Capacity
  BY RingSizes
<1>2. /\ n \in 1..(capacity - size) /\ n \in 0..Capacity /\ tail + n <= Capacity
      /\ n <= writable_length
  BY <1>1, CapacityAssumption DEF capacity, free_space, RingOK, Indices
<1>3. /\ tail' = IF tail + n < Capacity THEN tail + n ELSE tail + n - Capacity
      /\ head' = head
      /\ \A i \in Indices : storage'[i] = IF i \in tail..(tail + n - 1)
                                            THEN b[i - tail + 1] ELSE storage[i]
  BY <1>2, Wraps DEF CommitWrite, RingOK
<1>4. RingOK'
  <2>1. ASSUME NEW i \in Indices
        PROVE  (IF i \in tail..(tail + n - 1) THEN b[i - tail + 1] ELSE storage[i]) \in Bytes
    <3>1. CASE i \in tail..(tail + n - 1)
      <4>1. i - tail + 1 \in 1..Len(b)
        BY <2>1, <3>1, CapacityAssumption DEF RingOK, Indices
      <4>. QED
        BY <3>1, <4>1
    <3>2. CASE i \notin tail..(tail + n - 1)
      BY <2>1, <3>2 DEF RingOK
    <3>. QED
      BY <3>1, <3>2
  <2>2. storage' \in [Indices -> Bytes]
    BY <2>1 DEF CommitWrite
  <2>3. tail' \in Indices /\ head' \in Indices
    BY <1>2, <1>3, CapacityAssumption DEF RingOK, Indices
  <2>. QED
    BY <2>2, <2>3 DEF RingOK
<1>5. size' = size + n
  <2>. HIDE DEF n
  <2>. QED
    BY <1>1, <1>2, <1>3, CapacityAssumption DEF RingOK, Indices, capacity, size
<1>6. ASSUME NEW k \in 1..size
      PROVE  storage'[At(head', k)] = storage[At(head, k)]
  <2>. HIDE DEF n
  <2>1. At(head, k) \in Indices /\ At(head, k) \notin tail..(tail + n - 1)
    BY <1>1, <1>2, CapacityAssumption DEF RingOK, Indices, capacity, size, At
  <2>. QED
    BY <1>3, <2>1
<1>7. ASSUME NEW k \in 1..n
      PROVE  storage'[At(head', size + k)] = b[k]
  <2>. HIDE DEF n
  <2>1. At(head, size + k) = tail + k - 1
    BY <1>1, <1>2, CapacityAssumption DEF RingOK, Indices, capacity, size, At
  <2>2. PICK i \in Indices : i = tail + k - 1
    BY <1>2, CapacityAssumption DEF RingOK, Indices
  <2>3. i \in tail..(tail + n - 1) /\ i - tail + 1 = k
    BY <1>2, <2>2, CapacityAssumption DEF RingOK, Indices
  <2>4. storage'[i] = b[i - tail + 1]
    BY <1>3, <2>3
  <2>. QED
    BY <1>3, <2>1, <2>2, <2>3, <2>4
<1>. QED
  BY <1>4, <1>5, <1>6, <1>7

-----------------------------------------------------------------------------
(* The invariant is inductive.                                             *)

\* A fresh runtime has the invariant.
LEMMA InitIInv == Init => IInv
<1>. SUFFICES ASSUME Init PROVE IInv
  OBVIOUS
<1>1. PICK n \in 0..MaxStream : stream \in [1..n -> Bytes]
  BY DEF Init
<1>2. n \in Nat
  BY <1>1, MaxStreamAssumption
<1>3. stream \in Seq(Bytes) /\ Len(stream) \in Nat
  BY <1>1, <1>2
<1>4. TypeOK
  <2>1. storage \in [Indices -> Bytes]
    BY FramerAssumption DEF Init, Bytes
  <2>2. head \in Indices /\ tail \in Indices
    BY CapacityAssumption DEF Init, Indices
  <2>3. received \in 0..Len(stream) /\ consumed \in 0..received
    BY <1>3 DEF Init
  <2>. QED
    BY <1>3, <2>1, <2>2, <2>3 DEF Init, TypeOK
<1>5. RingContents
  BY DEF Init, RingContents, size
<1>6. ResultInv
  BY DEF Init, ResultInv, NoFrameOverlooked
<1>. QED
  BY <1>4, <1>5, <1>6 DEF IInv

\* A round that leaves the ring and the stream alone keeps the invariant if
\* its answer is right.
LEMMA QuietStep ==
  ASSUME IInv, UNCHANGED <<buffer, stream, received, consumed, frames>>,
         end_of_stream' = end_of_stream \/ (end_of_stream' = TRUE /\ received = Len(stream)),
         result' \in PollStatus \cup {"polling"},
         result' \in {"need_more_data", "buffer_exhausted", "end_of_stream"} =>
           frame_status = "need_more_data",
         result' = "buffer_exhausted" => size = capacity,
         result' = "end_of_stream" => end_of_stream /\ size = 0
  PROVE  IInv'
<1>1. /\ UNCHANGED <<size, Unread, head, tail, storage, stream, received, consumed, frames>>
      /\ try_frame(Unread)' = try_frame(Unread)
  BY DEF buffer, size, Unread
<1>2. TypeOK'
  BY <1>1 DEF IInv, TypeOK
<1>3. RingContents'
  BY <1>1 DEF IInv, RingContents, At
<1>4. NoFrameOverlooked'
  <2>1. frame_status = try_frame(Unread).status
    BY ExtractIsTryFrame DEF IInv, frame_status
  <2>. QED
    BY <1>1, <2>1 DEF NoFrameOverlooked
<1>5. ResultInv'
  BY <1>1, <1>4 DEF IInv, ResultInv
<1>. QED
  BY <1>2, <1>3, <1>5 DEF IInv

\* Consuming the frame that was found.
LEMMA DecodeStep ==
  ASSUME IInv, DecodeFrame
  PROVE  IInv'
<1>. DEFINE slice == try_frame(Unread)
<1>1. RingOK /\ TypeOK /\ RingContents
  BY DEF IInv, TypeOK, RingOK
<1>2. /\ slice.status = "ready"
      /\ frames' = Append(frames, SliceOf(Unread, slice))
      /\ Consume(slice.bytes_consumed)
      /\ consumed' = consumed + slice.bytes_consumed
      /\ result' \in {"message_ready", "decode_error"}
      /\ UNCHANGED <<stream, received, end_of_stream>>
  BY <1>1, ExtractIsTryFrame DEF DecodeFrame
<1>3. /\ Unread \in Seq(Bytes) /\ Len(Unread) = size /\ size = received - consumed
      /\ size \in Nat
  BY <1>1, UnreadProperties, RingSizes, CapacityAssumption DEF RingContents, capacity
<1>4. /\ slice \in FrameResult /\ slice.bytes_consumed \in 1..size
      /\ slice.offset + slice.size = slice.bytes_consumed
  BY <1>2, <1>3, FramerResult
<1>5. SliceOf(Unread, slice) \in Seq(Bytes)
  <2>. HIDE DEF slice
  <2>. DEFINE m == slice.offset + 1
              n == slice.offset + slice.size
  <2>1. m \in Int /\ n \in Int /\ m >= 1 /\ n <= size
    BY <1>3, <1>4 DEF FrameResult
  <2>2. \A i \in m..n : Unread[i] \in Bytes
    BY <1>3, <2>1
  <2>. HIDE DEF m, n
  <2>3. SubSeq(Unread, m, n) \in Seq(Bytes)
    BY <2>1, <2>2, SubSeqProperties
  <2>. QED
    BY <2>3 DEF m, n, SliceOf
<1>. HIDE DEF slice
<1>. DEFINE n == slice.bytes_consumed
<1>6. n \in 1..size
  BY <1>4
<1>. HIDE DEF n
<1>7. Consume(n) /\ consumed' = consumed + n
  BY <1>2 DEF n
<1>8. /\ RingOK' /\ size' = size - n /\ storage' = storage
      /\ \A k \in 1..(size - n) : At(head', k) = At(head, n + k)
  BY <1>1, <1>6, <1>7, ConsumeDrops DEF Consume
<1>9. /\ stream \in Seq(Bytes) /\ Len(stream) \in Nat
      /\ received \in 0..Len(stream) /\ consumed \in 0..received
  BY <1>1 DEF TypeOK
<1>10. TypeOK'
  <2>1. consumed' \in 0..received
    BY <1>3, <1>6, <1>7, <1>9
  <2>2. frames' \in Seq(Seq(Bytes))
    BY <1>1, <1>2, <1>5 DEF TypeOK
  <2>3. result' \in PollStatus
    BY <1>2 DEF PollStatus
  <2>. QED
    BY <1>1, <1>2, <1>8, <2>1, <2>2, <2>3 DEF TypeOK, RingOK
<1>11. RingContents'
  <2>1. size' = received' - consumed'
    BY <1>2, <1>3, <1>6, <1>7, <1>8, <1>9
  <2>2. ASSUME NEW k \in 1..size'
        PROVE  storage'[At(head', k)] = stream'[consumed' + k]
    <3>1. n + k \in 1..size /\ At(head', k) = At(head, n + k)
      BY <1>3, <1>6, <1>8, <2>2
    <3>2. consumed' + k = consumed + (n + k)
      BY <1>3, <1>6, <1>7, <1>8, <1>9, <2>2
    <3>. QED
      BY <1>1, <1>2, <1>8, <3>1, <3>2 DEF RingContents
  <2>. QED
    BY <2>1, <2>2 DEF RingContents
<1>12. ResultInv'
  BY <1>2 DEF IInv, ResultInv, NoFrameOverlooked
<1>. QED
  BY <1>10, <1>11, <1>12 DEF IInv

\* Reading more of the stream into the ring.
LEMMA ReadStep ==
  ASSUME IInv, NEW n \in 1..Capacity, ReadSome(n)
  PROVE  IInv'
<1>. DEFINE b == SubSeq(stream, received + 1, received + n)
<1>1. RingOK /\ TypeOK /\ RingContents
  BY DEF IInv, TypeOK, RingOK
<1>2. /\ stream \in Seq(Bytes) /\ Len(stream) \in Nat
      /\ received \in 0..Len(stream) /\ consumed \in 0..received
      /\ n \in 1..writable_length /\ n \in Nat /\ received + n <= Len(stream)
  BY <1>1, CapacityAssumption DEF TypeOK, ReadSome
<1>3. b \in Seq(Bytes) /\ Len(b) = n /\ \A k \in 1..n : b[k] = stream[received + k]
  <2>. DEFINE first == received + 1
              last == received + n
  <2>1. first \in Int /\ last \in Int /\ \A i \in first..last : stream[i] \in Bytes
    BY <1>2
  <2>2. first <= last /\ last - first + 1 = n /\ \A k \in 1..n : first + k - 1 = received + k
    BY <1>2
  <2>3. b = SubSeq(stream, first, last)
    OBVIOUS
  <2>. HIDE DEF first, last, b
  <2>4. /\ SubSeq(stream, first, last) \in Seq(Bytes)
        /\ Len(SubSeq(stream, first, last)) = IF first <= last THEN last - first + 1 ELSE 0
        /\ \A k \in 1..(last - first + 1) :
             SubSeq(stream, first, last)[k] = stream[first + k - 1]
    BY <2>1, SubSeqProperties
  <2>. QED
    BY <2>2, <2>3, <2>4
<1>4. CommitWrite(b)
  BY DEF ReadSome
<1>. HIDE DEF b
<1>5. /\ RingOK' /\ size' = size + n
      /\ \A k \in 1..size : storage'[At(head', k)] = storage[At(head, k)]
      /\ \A k \in 1..n : storage'[At(head', size + k)] = b[k]
  BY <1>1, <1>2, <1>3, <1>4, CommitAppends
<1>6. /\ UNCHANGED <<stream, consumed, frames>>
      /\ received' = received + n /\ result' = "polling"
      /\ end_of_stream' \in {FALSE, received' = Len(stream)}
  BY DEF ReadSome
<1>7. TypeOK'
  <2>1. received' \in 0..Len(stream) /\ consumed \in 0..received'
    BY <1>2, <1>6
  <2>2. end_of_stream' \in BOOLEAN
    BY <1>6
  <2>. QED
    BY <1>1, <1>5, <1>6, <2>1, <2>2 DEF TypeOK, RingOK
<1>8. RingContents'
  <2>1. size \in Nat /\ size = received - consumed
    BY <1>1, RingSizes, CapacityAssumption DEF RingContents, capacity
  <2>2. size' = received' - consumed'
    BY <1>2, <1>5, <1>6, <2>1
  <2>3. ASSUME NEW k \in 1..size'
        PROVE  storage'[At(head', k)] = stream'[consumed' + k]
    <3>1. CASE k \in 1..size
      BY <1>1, <1>5, <1>6, <3>1 DEF RingContents
    <3>2. CASE k \notin 1..size
      <4>1. k - size \in 1..n /\ size + (k - size) = k /\ received + (k - size) = consumed + k
        BY <1>2, <1>5, <2>1, <2>3, <3>2
      <4>. QED
        BY <1>3, <1>5, <1>6, <4>1
    <3>. QED
      BY <3>1, <3>2
  <2>. QED
    BY <2>2, <2>3 DEF RingContents
<1>9. ResultInv'
  BY <1>6 DEF ResultInv, NoFrameOverlooked
<1>. QED
  BY <1>7, <1>8, <1>9 DEF IInv

\* Every round of the loop keeps the invariant.
LEMMA NextIInv == IInv /\ [Next]_vars => IInv'
<1>. SUFFICES ASSUME IInv, [Next]_vars PROVE IInv'
  OBVIOUS
<1>Decode. CASE DecodeFrame
  BY <1>Decode, DecodeStep
<1>Read. CASE \E n \in 1..Capacity : ReadSome(n)
  BY <1>Read, ReadStep
<1>Reject. CASE RejectFrame
  BY <1>Reject, QuietStep DEF RejectFrame, PollStatus
<1>Finish. CASE Finish
  BY <1>Finish, QuietStep DEF Finish, PollStatus
<1>NoSpace. CASE NoSpace
  <2>1. size = capacity
    <3>1. RingOK
      BY DEF IInv, TypeOK, RingOK
    <3>. QED
      BY <1>NoSpace, <3>1, RingSizes DEF NoSpace
  <2>. QED
    BY <1>NoSpace, <2>1, QuietStep DEF NoSpace, Filling, PollStatus
<1>Error. CASE TransportError
  BY <1>Error, QuietStep DEF TransportError, PollStatus
<1>Block. CASE WouldBlock
  BY <1>Block, QuietStep DEF WouldBlock, Filling, PollStatus
<1>End. CASE ReadEndOfStream
  BY <1>End, QuietStep DEF ReadEndOfStream, PollStatus
<1>Stutter. CASE UNCHANGED vars
  <2>1. /\ UNCHANGED <<head, tail, storage, stream, received, consumed, frames, end_of_stream,
                       result, size, Unread>>
        /\ try_frame(Unread)' = try_frame(Unread)
    BY <1>Stutter DEF vars, buffer, size, Unread
  <2>. QED
    BY <2>1 DEF IInv, TypeOK, RingContents, At, ResultInv, NoFrameOverlooked
<1>. QED
  BY <1>Decode, <1>Read, <1>Reject, <1>Finish, <1>NoSpace, <1>Error, <1>Block, <1>End, <1>Stutter
     DEF Next

\* The invariant holds throughout.
LEMMA Invariance == Spec => []IInv
BY InitIInv, NextIInv, PTL DEF Spec

-----------------------------------------------------------------------------
(* The theorems.                                                           *)

\* The ring's indices and contents stay in their types, whatever sizes the
\* transport delivers and the framer cuts.
THEOREM TypeCorrect == Spec => []TypeOK
<1>1. IInv => TypeOK
  BY DEF IInv
<1>. QED
  BY Invariance, <1>1, PTL

\* The ring holds exactly the bytes that were read and not consumed.
THEOREM RingIsExact == Spec => []RingHoldsUnread
<1>1. IInv => RingHoldsUnread
  BY RingIsUnread DEF IInv, RingHoldsUnread
<1>. QED
  BY Invariance, <1>1, PTL

\* poll() asks for more, gives up or ends only when no whole frame is left.
THEOREM NothingOverlooked == Spec => []NoFrameOverlooked
<1>1. IInv => NoFrameOverlooked
  BY DEF IInv, ResultInv
<1>. QED
  BY Invariance, <1>1, PTL

\* kBufferExhausted means that Capacity - 1 bytes are buffered.
THEOREM FullMeansFull == Spec => []ExhaustedMeansFull
<1>1. IInv => ExhaustedMeansFull
  BY UnreadProperties DEF IInv, ResultInv, RingContents, ExhaustedMeansFull, capacity
<1>. QED
  BY Invariance, <1>1, PTL

\* kEndOfStream means that every byte of the stream was handed out in a frame.
THEOREM EndIsComplete == Spec => []EndMeansAllConsumed
<1>1. IInv => EndMeansAllConsumed
  BY DEF IInv, TypeOK, ResultInv, RingContents, EndMeansAllConsumed
<1>. QED
  BY Invariance, <1>1, PTL

\* poll() gives up on a stream only when it must.
THEOREM AnswersTrue == Spec => []AnswersAreTrue
BY FullMeansFull, EndIsComplete, PTL DEF AnswersAreTrue

\* A prefix of a sequence of bytes.
LEMMA PrefixProperties ==
  ASSUME NEW s \in Seq(Bytes), NEW n \in 0..Len(s)
  PROVE  /\ SubSeq(s, 1, n) \in Seq(Bytes)
         /\ Len(SubSeq(s, 1, n)) = n
         /\ \A k \in 1..n : SubSeq(s, 1, n)[k] = s[k]
<1>1. n \in Int /\ \A i \in 1..n : s[i] \in Bytes
  OBVIOUS
<1>2. /\ SubSeq(s, 1, n) \in Seq(Bytes)
      /\ Len(SubSeq(s, 1, n)) = IF 1 <= n THEN n - 1 + 1 ELSE 0
      /\ \A k \in 1..(n - 1 + 1) : SubSeq(s, 1, n)[k] = s[1 + k - 1]
  BY <1>1, SubSeqProperties
<1>. QED
  BY <1>1, <1>2

\* The abstract source cuts frames with the framer of the runtime.
LEMMA SameFramer ==
  /\ \A b : Source!try_frame(b) = try_frame(b)
  /\ \A b, slice : Source!SliceOf(b, slice) = SliceOf(b, slice)
BY DEF Source!try_frame, Source!TryFixedSize, Source!TryLengthPrefixed, Source!read_prefix,
       Source!Pair, Source!NeedMoreData, Source!InvalidFrame, Source!Ready, Source!SliceOf,
       try_frame, TryFixedSize, TryLengthPrefixed, read_prefix, Pair, NeedMoreData, InvalidFrame,
       Ready, SliceOf

\* The runtime hands out the frames of the byte stream: however the transport
\* cuts the bytes up and wherever they fall in the ring, each frame it decodes
\* is the one a framer finds next in the stream.
THEOREM RuntimeImplementsSource == Spec => ImplementsFrameSource
<1>1. ASSUME TypeOK
      PROVE  /\ SubSeq(stream, 1, received) \in Seq(Bytes)
             /\ Len(SubSeq(stream, 1, received)) = received
             /\ \A k \in 1..received : SubSeq(stream, 1, received)[k] = stream[k]
  BY <1>1, PrefixProperties DEF TypeOK
<1>2. ASSUME TypeOK
      PROVE  Source!Unread = Unread
  <2>. DEFINE all == SubSeq(stream, 1, received)
  <2>1. /\ stream \in Seq(Bytes) /\ Len(stream) \in Nat
        /\ received \in 0..Len(stream) /\ consumed \in 0..received
    BY <1>2 DEF TypeOK
  <2>2. /\ all \in Seq(Bytes) /\ Len(all) = received
        /\ \A k \in 1..received : all[k] = stream[k]
    BY <1>1, <1>2
  <2>3. Source!Unread = SubSeq(all, consumed + 1, received)
    BY <2>2 DEF Source!Unread
  <2>. HIDE DEF all
  <2>. DEFINE first == consumed + 1
  <2>4. /\ first \in Int /\ received \in Int
        /\ \A i \in first..received : all[i] \in Bytes /\ all[i] = stream[i]
    BY <2>1, <2>2
  <2>. HIDE DEF first
  <2>5. /\ SubSeq(all, first, received) \in Seq(Bytes)
        /\ Len(SubSeq(all, first, received)) = IF first <= received THEN received - first + 1 ELSE 0
        /\ \A k \in 1..(received - first + 1) : SubSeq(all, first, received)[k] = all[first + k - 1]
    BY <2>4, SubSeqProperties
  <2>6. /\ Unread \in Seq(Bytes) /\ Len(Unread) = received - consumed
        /\ \A k \in 1..(received - consumed) : Unread[k] = stream[consumed + k]
    BY <1>2, UnreadProperties
  <2>7. Len(SubSeq(all, first, received)) = Len(Unread)
    BY <2>1, <2>5, <2>6 DEF first
  <2>8. \A k \in 1..Len(Unread) : SubSeq(all, first, received)[k] = Unread[k]
    <3>. TAKE k \in 1..Len(Unread)
    <3>1. /\ k \in 1..(received - first + 1) /\ k \in 1..(received - consumed)
          /\ first + k - 1 \in first..received /\ first + k - 1 = consumed + k
      BY <2>1, <2>6 DEF first
    <3>2. SubSeq(all, first, received)[k] = all[first + k - 1] /\ Unread[k] = stream[consumed + k]
      BY <2>5, <2>6, <3>1
    <3>3. all[first + k - 1] = stream[first + k - 1]
      BY <2>4, <3>1
    <3>. QED
      BY <3>1, <3>2, <3>3
  <2>9. SubSeq(all, first, received) = Unread
    BY <2>5, <2>6, <2>7, <2>8, SeqEqual
  <2>. QED
    BY <2>3, <2>9 DEF first
<1>3. IInv /\ Init => Source!Init
  <2>. SUFFICES ASSUME IInv, Init PROVE Source!Init
    OBVIOUS
  <2>1. SubSeq(stream, 1, 0) = << >>
    BY SubSeqEmpty
  <2>. QED
    BY <2>1 DEF Init, Source!Init
<1>4. ASSUME IInv, IInv', [Next]_vars
      PROVE  [Source!Next]_Source!vars
  <2>1. TypeOK /\ TypeOK' /\ RingContents
    BY <1>4 DEF IInv
  <2>2. CASE DecodeFrame
    <3>1. Source!Unread = Unread
      BY <1>2, <2>1
    <3>2. /\ try_extract_frame.slice = try_frame(Unread)
          /\ try_frame(Unread).status = "ready"
          /\ SliceOf(try_extract_frame.from, try_extract_frame.slice)
               = SliceOf(Unread, try_frame(Unread))
      BY <2>1, <2>2, ExtractIsTryFrame DEF DecodeFrame
    <3>3. Source!Deliver
      <4>1. UNCHANGED SubSeq(stream, 1, received)
        BY <2>2 DEF DecodeFrame
      <4>2. /\ frames' = Append(frames, SliceOf(Unread, try_frame(Unread)))
            /\ consumed' = consumed + try_frame(Unread).bytes_consumed
        BY <2>2, <3>2 DEF DecodeFrame
      <4>. QED
        BY <3>1, <3>2, <4>1, <4>2, SameFramer DEF Source!Deliver
    <3>. QED
      BY <3>3 DEF Source!Next
  <2>3. ASSUME NEW n \in 1..Capacity, ReadSome(n)
        PROVE  Source!Arrive
    <3>. DEFINE old == SubSeq(stream, 1, received)
                new == SubSeq(stream, 1, received')
    <3>1. /\ received' = received + n /\ UNCHANGED <<stream, consumed, frames>>
          /\ received \in Nat /\ n \in Nat
      BY <2>1, <2>3, CapacityAssumption DEF ReadSome, TypeOK
    <3>2. /\ old \in Seq(Bytes) /\ Len(old) = received
          /\ \A k \in 1..received : old[k] = stream[k]
      BY <1>1, <2>1
    <3>3. /\ new \in Seq(Bytes) /\ Len(new) = received'
          /\ \A k \in 1..received' : new[k] = stream[k]
      <4>1. stream \in Seq(Bytes) /\ received' \in 0..Len(stream)
        BY <2>1, <3>1 DEF TypeOK
      <4>. QED
        BY <4>1, PrefixProperties
    <3>. HIDE DEF old, new
    <3>4. SubSeq(new, 1, received) = old
      <4>1. \A i \in 1..received : new[i] \in Bytes /\ new[i] = old[i]
        BY <3>1, <3>2, <3>3
      <4>2. /\ SubSeq(new, 1, received) \in Seq(Bytes)
            /\ Len(SubSeq(new, 1, received)) = IF 1 <= received THEN received - 1 + 1 ELSE 0
            /\ \A k \in 1..(received - 1 + 1) : SubSeq(new, 1, received)[k] = new[1 + k - 1]
        BY <3>1, <4>1, SubSeqProperties
      <4>3. Len(SubSeq(new, 1, received)) = Len(old)
        BY <3>1, <3>2, <4>2
      <4>4. \A k \in 1..Len(old) : SubSeq(new, 1, received)[k] = old[k]
        BY <3>1, <3>2, <4>1, <4>2
      <4>. QED
        BY <3>2, <4>2, <4>3, <4>4, SeqEqual
    <3>5. new \in Seq(Source!Bytes) /\ Len(old) <= Len(new) /\ SubSeq(new, 1, Len(old)) = old
      BY <3>1, <3>2, <3>3, <3>4 DEF Bytes, Source!Bytes
    <3>6. (SubSeq(stream, 1, received))' = new
      BY <3>1 DEF new
    <3>. QED
      BY <3>1, <3>5, <3>6 DEF old, Source!Arrive
  <2>4. CASE UNCHANGED <<stream, received, consumed, frames>>
    BY <2>4 DEF Source!vars
  <2>. QED
    BY <1>4, <2>2, <2>3, <2>4 DEF Next, vars, RejectFrame, Finish, NoSpace, TransportError,
       WouldBlock, ReadEndOfStream, Source!Next
<1>. QED
  BY Invariance, <1>3, <1>4, PTL DEF Spec, ImplementsFrameSource, Source!Spec

=============================================================================
