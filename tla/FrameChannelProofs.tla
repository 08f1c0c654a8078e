------------------------- MODULE FrameChannelProofs -------------------------
(***************************************************************************)
(* Proofs about FrameChannel for every number of byte values, prefix       *)
(* width, frame limit and read size.                                       *)
(*                                                                         *)
(* The argument: the frames sent lie on the wire back to back, each behind *)
(* the prefix that says its length, and the receiver stands at the start   *)
(* of the next of them: what it parses there is that frame.                *)
(***************************************************************************)
EXTENDS MCFrameChannel, SequenceTheorems, TLAPS

-----------------------------------------------------------------------------
(* The inductive invariant.                                                *)

\* The type of every variable but the two statuses.  The offset of the buffer
\* is always zero: release_frame() compacts at once.
TypeOK ==
  /\ outgoing \in Seq(Bytes) /\ written \in 0..Len(outgoing)
  /\ send_state \in {"idle", "writing", "waiting"}
  /\ wire \in Seq(Bytes) /\ closed \in BOOLEAN /\ damaged \in BOOLEAN
  /\ sent \in Seq([payload : Seq(Bytes), end : Nat])
  /\ read_count \in 0..Len(wire) /\ consumed \in 0..read_count
  /\ stream_buffer \in Seq(Bytes) /\ stream_buffer_offset = 0
  /\ lease \in [offset : Nat, size : Nat, valid : BOOLEAN]
  /\ delivered \in Seq(Seq(Bytes))

\* A lease is the frame at the start of the buffer.
ReaderInv ==
  /\ BufferBounded
  /\ lease.valid => /\ FrameIsThere
                    /\ lease.offset = PrefixWidth /\ lease.size = parsed.length

Size == Len(outgoing) - PrefixWidth

\* What a send in progress writes: the prefix of a frame within the limit.
SenderInv ==
  /\ send_state # "idle" =>
       /\ Size \in 0..MaxFrameSize
       /\ \A i \in 1..PrefixWidth : outgoing[i] = encode_little_endian(Size)[i]
  /\ send_state = "waiting" => written < Len(outgoing) \/ IsEmptyFrame

\* Where the k-th frame sent starts on the wire; the next one starts where
\* the last one ends.
StartOf(k) == IF k = 1 THEN 0 ELSE sent[k - 1].end

OnWire(k) ==
  LET length == Len(sent[k].payload)
  IN  /\ length <= MaxFrameSize /\ PrefixHolds(length)
      /\ sent[k].end = StartOf(k) + PrefixWidth + length
      /\ sent[k].end <= Len(wire)
      /\ \A i \in 1..PrefixWidth : wire[StartOf(k) + i] = encode_little_endian(length)[i]
      /\ \A i \in 1..length : wire[StartOf(k) + PrefixWidth + i] = sent[k].payload[i]

NextStart == StartOf(Len(sent) + 1)

\* A send in progress has put a part of its frame on the wire that is not yet
\* a frame sent, or never will be because the prefix does not hold its size.
Unfinished ==
  send_state # "idle" /\ (written < Len(outgoing) \/ ~PrefixHolds(Size))

\* Behind the frames sent there is what the send in progress has written.
WireInv ==
  /\ \A k \in 1..Len(sent) : OnWire(k)
  /\ ~damaged =>
       IF Unfinished
       THEN /\ Len(wire) = NextStart + written
            /\ \A i \in 1..written : wire[NextStart + i] = outgoing[i]
       ELSE Len(wire) = NextStart

\* The receiver stands at the start of the next frame sent, until it runs
\* into bytes that are no frame.
HistoryInv ==
  /\ \A k \in 1..Len(delivered) : k <= Len(sent) => delivered[k] = sent[k].payload
  /\ Len(delivered) <= Len(sent) => consumed = StartOf(Len(delivered) + 1)
  /\ Len(delivered) > Len(sent) =>
       damaged \/ (send_state # "idle" /\ written > 0 /\ ~PrefixHolds(Size))

IInv == TypeOK /\ ReaderInv /\ SenderInv /\ WireInv /\ HistoryInv

-----------------------------------------------------------------------------
(* Sequences.                                                              *)

\* What is cut from the front part of a sequence does not depend on the rest.
LEMMA CutOfFront ==
  ASSUME NEW S, NEW s \in Seq(S), NEW t \in Seq(S), Len(s) <= Len(t),
         \A i \in 1..Len(s) : t[i] = s[i],
         NEW a \in Nat \ {0}, NEW b \in 0..Len(s)
  PROVE  SubSeq(t, a, b) = SubSeq(s, a, b)
<1>1. \A i \in a..b : i \in 1..Len(s) /\ s[i] \in S /\ t[i] = s[i] /\ t[i] \in S
  BY ElementOfSeq
<1>2. /\ SubSeq(s, a, b) \in Seq(S)
      /\ Len(SubSeq(s, a, b)) = IF a <= b THEN b - a + 1 ELSE 0
      /\ \A i \in 1..(b - a + 1) : SubSeq(s, a, b)[i] = s[a + i - 1]
  BY <1>1, SubSeqProperties
<1>3. /\ SubSeq(t, a, b) \in Seq(S)
      /\ Len(SubSeq(t, a, b)) = IF a <= b THEN b - a + 1 ELSE 0
      /\ \A i \in 1..(b - a + 1) : SubSeq(t, a, b)[i] = t[a + i - 1]
  BY <1>1, SubSeqProperties
<1>4. \A i \in 1..Len(SubSeq(s, a, b)) : SubSeq(t, a, b)[i] = SubSeq(s, a, b)[i]
  BY <1>1, <1>2, <1>3
<1>. QED
  BY <1>2, <1>3, <1>4, SeqEqual

\* The elements of a part of a sequence.
LEMMA CutElements ==
  ASSUME NEW S, NEW s \in Seq(S), NEW a \in Nat, NEW b \in a..Len(s)
  PROVE  /\ SubSeq(s, a + 1, b) \in Seq(S)
         /\ Len(SubSeq(s, a + 1, b)) = b - a
         /\ \A i \in 1..(b - a) : SubSeq(s, a + 1, b)[i] = s[a + i]
<1>1. \A i \in (a + 1)..b : s[i] \in S
  BY ElementOfSeq
<1>2. a + 1 \in Int /\ b \in Int
  OBVIOUS
<1>3. /\ SubSeq(s, a + 1, b) \in Seq(S)
      /\ Len(SubSeq(s, a + 1, b)) = IF a + 1 <= b THEN b - (a + 1) + 1 ELSE 0
      /\ \A i \in 1..(b - (a + 1) + 1) : SubSeq(s, a + 1, b)[i] = s[(a + 1) + i - 1]
  BY <1>1, <1>2, SubSeqProperties
<1>. QED
  BY <1>3

\* The end of a part of a sequence.
LEMMA CutOfCut ==
  ASSUME NEW S, NEW s \in Seq(S), NEW a \in Nat, NEW b \in a..Len(s), NEW m \in 0..(b - a)
  PROVE  SubSeq(SubSeq(s, a + 1, b), m + 1, b - a) = SubSeq(s, a + m + 1, b)
<1>. DEFINE t == SubSeq(s, a + 1, b)
            u == SubSeq(t, m + 1, b - a)
            v == SubSeq(s, a + m + 1, b)
            n == b - a - m
<1>1. t \in Seq(S) /\ Len(t) = b - a /\ \A i \in 1..(b - a) : t[i] = s[a + i]
  BY CutElements
<1>. HIDE DEF t
<1>2. u \in Seq(S) /\ Len(u) = n /\ \A i \in 1..n : u[i] = t[m + i]
  BY <1>1, CutElements, SMTT(30)
<1>3. v \in Seq(S) /\ Len(v) = n /\ \A i \in 1..n : v[i] = s[a + m + i]
  <2>1. a + m \in Nat /\ b \in (a + m)..Len(s) /\ b - (a + m) = n
    OBVIOUS
  <2>. QED
    BY <2>1, CutElements
<1>. HIDE DEF u, v
<1>4. \A i \in 1..n : u[i] = v[i]
  <2>. TAKE i \in 1..n
  <2>1. m + i \in 1..(b - a) /\ a + (m + i) = a + m + i
    OBVIOUS
  <2>. QED
    BY <1>1, <1>2, <1>3, <2>1
<1>5. u = v
  BY <1>2, <1>3, <1>4, SeqEqual
<1>. QED
  BY <1>5 DEF t, u, v

-----------------------------------------------------------------------------
(* The prefix.                                                             *)

LEMMA Products == \A a, b \in Nat : a * b \in Nat
  OBVIOUS

LEMMA Remainder ==
  ASSUME NEW a \in Nat, NEW b \in Nat, b > 0
  PROVE  a \div b \in Nat /\ a % b \in 0..(b - 1)
  OBVIOUS

LEMMA PlaceValues == \A i \in 1..4 : PlaceValue(i) \in Nat /\ PlaceValue(i) > 0
<1>1. ByteBase \in Nat /\ ByteBase > 0
  BY ChannelAssumption
<1>2. ByteBase * ByteBase \in Nat /\ ByteBase * ByteBase > 0
  BY <1>1
<1>3. ByteBase * ByteBase * ByteBase \in Nat /\ ByteBase * ByteBase * ByteBase > 0
  BY <1>1, <1>2
<1>. QED
  BY <1>1, <1>2, <1>3 DEF PlaceValue

\* encode_little_endian() fills the prefix with bytes.
LEMMA EncodeType ==
  ASSUME NEW value \in Nat
  PROVE  /\ encode_little_endian(value) \in Seq(Bytes)
         /\ Len(encode_little_endian(value)) = PrefixWidth
         /\ \A i \in 1..PrefixWidth : encode_little_endian(value)[i] \in Bytes
<1>1. \A i \in 1..PrefixWidth : (value \div PlaceValue(i)) % ByteBase \in Bytes
  <2>. TAKE i \in 1..PrefixWidth
  <2>1. value \div PlaceValue(i) \in Nat
    BY PlaceValues, Remainder, ChannelAssumption
  <2>. QED
    BY <2>1, Remainder, ChannelAssumption DEF Bytes
<1>. QED
  BY <1>1, ChannelAssumption DEF encode_little_endian

\* decode_little_endian() reads a length.
LEMMA DecodeType ==
  ASSUME NEW bytes \in Seq(Bytes)
  PROVE  decode_little_endian(bytes) \in Nat
<1>. DEFINE digit(i) == IF i <= Len(bytes) THEN bytes[i] ELSE 0
<1>1. \A i \in 1..4 : digit(i) \in Nat
  BY ChannelAssumption DEF Bytes
<1>2. ByteBase \in Nat
  BY ChannelAssumption
<1>. HIDE DEF digit
<1>3. ByteBase * digit(4) \in Nat
  BY <1>1, <1>2, Products
<1>4. ByteBase * (digit(3) + ByteBase * digit(4)) \in Nat
  BY <1>1, <1>2, <1>3, Products, SMTT(30)
<1>5. ByteBase * (digit(2) + ByteBase * (digit(3) + ByteBase * digit(4))) \in Nat
  BY <1>1, <1>2, <1>4, Products, SMTT(30)
<1>6. digit(1) + ByteBase * (digit(2) + ByteBase * (digit(3) + ByteBase * digit(4))) \in Nat
  BY <1>1, <1>5
<1>. QED
  BY <1>6 DEF decode_little_endian, digit

\* The outcome of parsing the buffer.
LEMMA ParsedType ==
  ASSUME TypeOK
  PROVE  /\ parsed.length \in 0..MaxFrameSize
         /\ parsed.code = "ok" =>
              /\ Len(stream_buffer) >= PrefixWidth
              /\ parsed.length = decode_little_endian(SubSeq(stream_buffer, 1, PrefixWidth))
         /\ unread_bytes = Len(stream_buffer)
         /\ Len(stream_buffer) < PrefixWidth => parsed.code = "not_found"
<1>. DEFINE length == decode_little_endian(SubSeq(stream_buffer, 1, PrefixWidth))
<1>1. /\ stream_buffer \in Seq(Bytes) /\ stream_buffer_offset = 0
      /\ unread_bytes = Len(stream_buffer)
      /\ PrefixWidth \in Nat /\ MaxFrameSize \in Nat
  BY ChannelAssumption DEF TypeOK, unread_bytes
<1>2. stream_buffer_offset + 1 = 1 /\ stream_buffer_offset + PrefixWidth = PrefixWidth
  BY <1>1
<1>3. Len(stream_buffer) >= PrefixWidth => length \in Nat
  <2>. SUFFICES ASSUME Len(stream_buffer) >= PrefixWidth PROVE length \in Nat
    OBVIOUS
  <2>1. SubSeq(stream_buffer, 1, PrefixWidth) \in Seq(Bytes)
    <3>1. 0 \in Nat /\ PrefixWidth \in 0..Len(stream_buffer) /\ 0 + 1 = 1
      BY <1>1
    <3>2. SubSeq(stream_buffer, 0 + 1, PrefixWidth) \in Seq(Bytes)
      BY <1>1, <3>1, CutElements
    <3>. QED
      BY <3>1, <3>2
  <2>. QED
    BY <2>1, DecodeType
<1>4. parsed = IF Len(stream_buffer) < PrefixWidth THEN [code |-> "not_found", length |-> 0]
               ELSE IF length > MaxFrameSize THEN [code |-> "exhausted", length |-> 0]
               ELSE [code |-> "ok", length |-> length]
  BY <1>1, <1>2 DEF parsed, try_parse_frame_length
<1>. HIDE DEF length
<1>5. CASE Len(stream_buffer) < PrefixWidth
  BY <1>1, <1>4, <1>5
<1>6. CASE Len(stream_buffer) >= PrefixWidth
  BY <1>1, <1>3, <1>4, <1>6 DEF length
<1>. QED
  BY <1>1, <1>5, <1>6

-----------------------------------------------------------------------------
(* The sender's steps.                                                     *)

LEMMA InitIInv == Init => IInv
<1>. SUFFICES ASSUME Init PROVE IInv
  OBVIOUS
<1>1. PrefixWidth \in Nat /\ PrefixWidth > 0 /\ MaxFrameSize \in Nat /\ ReadSize \in Nat /\ ReadSize > 0
  BY ChannelAssumption
<1>2. TypeOK
  <2>1. Len(<< >>) = 0 /\ << >> \in Seq(Bytes) /\ << >> \in Seq(Seq(Bytes))
        /\ << >> \in Seq([payload : Seq(Bytes), end : Nat])
    BY EmptySeq
  <2>2. /\ outgoing \in Seq(Bytes) /\ wire \in Seq(Bytes) /\ stream_buffer \in Seq(Bytes)
        /\ sent \in Seq([payload : Seq(Bytes), end : Nat]) /\ delivered \in Seq(Seq(Bytes))
    BY <2>1 DEF Init
  <2>3. written \in 0..Len(outgoing) /\ read_count \in 0..Len(wire) /\ consumed \in 0..read_count
    BY <2>1 DEF Init
  <2>4. lease \in [offset : Nat, size : Nat, valid : BOOLEAN]
    BY DEF Init, NoLease
  <2>. QED
    BY <2>2, <2>3, <2>4 DEF Init, TypeOK
<1>3. SubSeq(<< >>, 0 + 1, 0) = << >>
  OBVIOUS
<1>4. ReaderInv
  BY <1>1, <1>3 DEF Init, ReaderInv, BufferBounded, BufferIsUnread, NoLease
<1>5. /\ Len(wire) = 0 /\ Len(sent) = 0 /\ Len(delivered) = 0
      /\ send_state = "idle" /\ consumed = 0
  BY EmptySeq DEF Init
<1>6. SenderInv
  BY <1>5 DEF SenderInv
<1>7. WireInv
  BY <1>5 DEF WireInv, Unfinished, NextStart, StartOf
<1>8. HistoryInv
  BY <1>5 DEF HistoryInv, StartOf
<1>. QED
  BY <1>2, <1>4, <1>6, <1>7, <1>8 DEF IInv

\* The receiver's part of the invariant survives what a sender does: the wire
\* only grows.
LEMMA SenderKeepsReader ==
  ASSUME IInv, UNCHANGED receiver,
         wire' \in Seq(Bytes), Len(wire) <= Len(wire'),
         \A i \in 1..Len(wire) : wire'[i] = wire[i]
  PROVE  /\ ReaderInv'
         /\ read_count' \in 0..Len(wire') /\ consumed' \in 0..read_count'
         /\ stream_buffer' \in Seq(Bytes) /\ stream_buffer_offset' = 0
         /\ lease' \in [offset : Nat, size : Nat, valid : BOOLEAN]
         /\ delivered' \in Seq(Seq(Bytes))
<1>1. /\ UNCHANGED <<read_count, stream_buffer, stream_buffer_offset, lease, consumed, delivered>>
      /\ wire \in Seq(Bytes) /\ read_count \in 0..Len(wire) /\ consumed \in 0..read_count
      /\ Len(wire) \in Nat /\ Len(wire') \in Nat
  BY DEF IInv, TypeOK, receiver
<1>2. consumed + 1 \in Nat \ {0}
  BY <1>1
<1>3. SubSeq(wire', consumed + 1, read_count) = SubSeq(wire, consumed + 1, read_count)
  BY <1>1, <1>2, CutOfFront
<1>4. ReaderInv'
  BY <1>1, <1>3 DEF IInv, ReaderInv, BufferBounded, BufferIsUnread, FrameIsThere, parsed,
     try_parse_frame_length, unread_bytes
<1>. QED
  BY <1>1, <1>4 DEF IInv, TypeOK

\* Refusing a frame, going on after a wait and closing write nothing.
LEMMA QuietStep ==
  ASSUME IInv, (\E frame \in Frames : RefuseFrame(frame)) \/ Writable \/ CloseSender
  PROVE  IInv'
<1>1. /\ UNCHANGED <<outgoing, written, wire, sent, damaged, receiver>>
      /\ send_state' \in {"idle", "writing"} /\ closed' \in BOOLEAN
      /\ send_state' = "idle" <=> send_state = "idle"
  BY DEF IInv, TypeOK, RefuseFrame, Writable, CloseSender
<1>2. ReaderInv' /\ TypeOK'
  BY <1>1, SenderKeepsReader DEF IInv, TypeOK
<1>3. UNCHANGED <<delivered, consumed>>
  BY <1>1 DEF receiver
<1>4. SenderInv'
  BY <1>1 DEF IInv, SenderInv, Size, IsEmptyFrame
<1>5. WireInv'
  BY <1>1 DEF IInv, WireInv, OnWire, Unfinished, NextStart, StartOf, Size
<1>6. HistoryInv'
  BY <1>1, <1>3 DEF IInv, HistoryInv, StartOf, Size
<1>. QED
  BY <1>2, <1>4, <1>5, <1>6 DEF IInv

LEMMA SendFrameStep == ASSUME IInv, NEW frame \in Frames, SendFrame(frame) PROVE IInv'
<1>1. /\ send_state = "idle" /\ Len(frame) <= MaxFrameSize
      /\ outgoing' = encode_little_endian(Len(frame)) \o frame
      /\ written' = 0 /\ send_state' = "writing"
      /\ UNCHANGED <<wire, closed, sent, damaged, receiver>>
  BY DEF SendFrame
<1>2. frame \in Seq(Bytes) /\ Len(frame) \in Nat /\ PrefixWidth \in Nat
  BY ChannelAssumption DEF Frames
<1>3. /\ outgoing' \in Seq(Bytes) /\ Len(outgoing') = PrefixWidth + Len(frame)
      /\ \A i \in 1..PrefixWidth : outgoing'[i] = encode_little_endian(Len(frame))[i]
  <2>. DEFINE prefix == encode_little_endian(Len(frame))
  <2>1. prefix \in Seq(Bytes) /\ Len(prefix) = PrefixWidth /\ outgoing' = prefix \o frame
    BY <1>1, <1>2, EncodeType
  <2>. HIDE DEF prefix
  <2>2. /\ prefix \o frame \in Seq(Bytes) /\ Len(prefix \o frame) = Len(prefix) + Len(frame)
        /\ \A i \in 1..(Len(prefix) + Len(frame)) :
             (prefix \o frame)[i] = IF i <= Len(prefix) THEN prefix[i] ELSE frame[i - Len(prefix)]
    BY <1>2, <2>1, ConcatProperties
  <2>3. \A i \in 1..PrefixWidth : (prefix \o frame)[i] = prefix[i]
    BY <1>2, <2>1, <2>2
  <2>. QED
    BY <2>1, <2>2, <2>3 DEF prefix
<1>4. ReaderInv' /\ TypeOK'
  BY <1>1, <1>3, SenderKeepsReader DEF IInv, TypeOK
<1>5. Size' = Len(frame)
  BY <1>2, <1>3 DEF Size
<1>6. SenderInv'
  BY <1>1, <1>2, <1>3, <1>5 DEF SenderInv
<1>7. UNCHANGED <<delivered, consumed>>
  BY <1>1 DEF receiver
<1>8. WireInv'
  <2>1. \A k \in 1..Len(sent') : OnWire(k)'
    BY <1>1 DEF IInv, WireInv, OnWire, StartOf
  <2>2. Len(wire') = NextStart' \/ damaged'
    BY <1>1 DEF IInv, WireInv, Unfinished, NextStart, StartOf
  <2>3. Len(wire') \in Nat
    BY <1>1 DEF IInv, TypeOK
  <2>. QED
    BY <1>1, <2>1, <2>2, <2>3 DEF WireInv
<1>9. HistoryInv'
  BY <1>1, <1>7 DEF IInv, HistoryInv, StartOf
<1>. QED
  BY <1>4, <1>6, <1>8, <1>9 DEF IInv

\* What the transport takes goes behind the wire, byte by byte.
LEMMA TakeStep ==
  ASSUME IInv, NEW n \in 0..Remaining, Take(n)
  PROVE  /\ n \in Nat /\ written' = written + n /\ written' \in 0..Len(outgoing)
         /\ wire' \in Seq(Bytes) /\ Len(wire') = Len(wire) + n
         /\ \A i \in 1..Len(wire) : wire'[i] = wire[i]
         /\ \A i \in 1..n : wire'[Len(wire) + i] = outgoing[written + i]
<1>1. /\ outgoing \in Seq(Bytes) /\ wire \in Seq(Bytes) /\ written \in 0..Len(outgoing)
      /\ n \in Nat /\ written + n \in written..Len(outgoing) /\ written \in Nat
      /\ Len(wire) \in Nat /\ Len(outgoing) \in Nat
  BY DEF IInv, TypeOK, Remaining
<1>. DEFINE taken == SubSeq(outgoing, written + 1, written + n)
<1>2. taken \in Seq(Bytes) /\ Len(taken) = n /\ \A i \in 1..n : taken[i] = outgoing[written + i]
  BY <1>1, CutElements
<1>3. wire' = wire \o taken /\ written' = written + n
  BY DEF Take
<1>. HIDE DEF taken
<1>4. /\ wire \o taken \in Seq(Bytes) /\ Len(wire \o taken) = Len(wire) + n
      /\ \A i \in 1..(Len(wire) + n) :
           (wire \o taken)[i] = IF i <= Len(wire) THEN wire[i] ELSE taken[i - Len(wire)]
  BY <1>1, <1>2, ConcatProperties
<1>5. \A i \in 1..n : (wire \o taken)[Len(wire) + i] = taken[i]
  <2>. TAKE i \in 1..n
  <2>1. Len(wire) + i \in 1..(Len(wire) + n) /\ ~(Len(wire) + i <= Len(wire))
        /\ (Len(wire) + i) - Len(wire) = i
    BY <1>1
  <2>. QED
    BY <1>4, <2>1
<1>. QED
  BY <1>1, <1>2, <1>3, <1>4, <1>5

\* A frame becomes a frame sent with its last byte.
Completes(n) == n > 0 /\ n = Remaining /\ ~damaged /\ PrefixHolds(Size)

\* The record of the frame that is being sent.
LEMMA SentRecord ==
  ASSUME IInv, send_state # "idle"
  PROVE  /\ Size \in 0..MaxFrameSize /\ PrefixWidth \in Nat /\ PrefixWidth > 0
         /\ Len(outgoing) = PrefixWidth + Size
         /\ FrameOf(outgoing) \in Seq(Bytes) /\ Len(FrameOf(outgoing)) = Size
         /\ \A i \in 1..Size : FrameOf(outgoing)[i] = outgoing[PrefixWidth + i]
<1>1. /\ outgoing \in Seq(Bytes) /\ Len(outgoing) \in Nat /\ Size \in 0..MaxFrameSize
      /\ PrefixWidth \in Nat /\ PrefixWidth > 0 /\ MaxFrameSize \in Nat
  BY ChannelAssumption DEF IInv, TypeOK, SenderInv
<1>2. Len(outgoing) = PrefixWidth + Size /\ Len(outgoing) - PrefixWidth = Size
  BY <1>1 DEF Size
<1>3. Len(outgoing) \in PrefixWidth..Len(outgoing)
  BY <1>1, <1>2
<1>. QED
  BY <1>1, <1>2, <1>3, CutElements DEF FrameOf

\* How the frames sent grow.
LEMMA SentGrows ==
  ASSUME IInv, send_state # "idle", NEW n \in 0..Remaining, Take(n)
  PROVE  /\ sent' \in Seq([payload : Seq(Bytes), end : Nat])
         /\ \A k \in 1..Len(sent) : sent'[k] = sent[k]
         /\ ~Completes(n) => Len(sent') = Len(sent)
         /\ Completes(n) => /\ Len(sent') = Len(sent) + 1
                            /\ sent'[Len(sent) + 1] =
                                 [payload |-> FrameOf(outgoing), end |-> Len(wire')]
<1>. DEFINE new == [payload |-> FrameOf(outgoing), end |-> Len(wire')]
<1>1. sent' = IF Completes(n) THEN Append(sent, new) ELSE sent
  BY DEF Take, Completes, Size
<1>2. FrameOf(outgoing) \in Seq(Bytes) /\ Len(wire') \in Nat
  BY SentRecord, TakeStep
<1>3. new \in [payload : Seq(Bytes), end : Nat] /\ sent \in Seq([payload : Seq(Bytes), end : Nat])
  BY <1>2 DEF IInv, TypeOK
<1>. HIDE DEF new
<1>4. /\ Append(sent, new) \in Seq([payload : Seq(Bytes), end : Nat])
      /\ Len(Append(sent, new)) = Len(sent) + 1
      /\ \A i \in 1..Len(sent) : Append(sent, new)[i] = sent[i]
      /\ Append(sent, new)[Len(sent) + 1] = new
  BY <1>3, AppendProperties
<1>5. CASE Completes(n)
  BY <1>1, <1>4, <1>5 DEF new
<1>6. CASE ~Completes(n)
  BY <1>1, <1>3, <1>6
<1>. QED
  BY <1>5, <1>6

\* Every step that ends or goes on with a write takes some bytes, or none.
WriteOf(n) ==
  /\ send_state # "idle" /\ n \in 0..Remaining /\ Take(n)
  /\ \/ (\E status \in {"ok", "exhausted", "io_error"} : Return(status))
     \/ Wait /\ (written' < Len(outgoing) \/ IsEmptyFrame)
  /\ UNCHANGED <<outgoing, closed, receiver>>

\* The frames that were on the wire stay there, and the frame just completed
\* lies behind them.
LEMMA WriteKeepsSent ==
  ASSUME IInv, NEW n, WriteOf(n)
  PROVE  \A k \in 1..Len(sent') : OnWire(k)'
<1>1. /\ send_state # "idle" /\ n \in 0..Remaining /\ Take(n)
      /\ Len(wire) \in Nat /\ Len(sent) \in Nat /\ written \in Nat
      /\ Len(outgoing) \in Nat /\ PrefixWidth \in Nat
  BY ChannelAssumption DEF WriteOf, IInv, TypeOK
<1>2. ASSUME NEW k \in 1..Len(sent)
      PROVE  Len(sent[k].payload) \in Nat /\ sent[k].end \in Nat
  <2>1. sent[k] \in [payload : Seq(Bytes), end : Nat]
    BY <1>2, ElementOfSeq DEF IInv, TypeOK
  <2>2. sent[k].payload \in Seq(Bytes) /\ sent[k].end \in Nat
    BY <2>1
  <2>. QED
    BY <2>2, LenProperties
<1>3. /\ n \in Nat /\ Len(wire') = Len(wire) + n /\ Len(wire') \in Nat
      /\ \A i \in 1..Len(wire) : wire'[i] = wire[i]
      /\ \A i \in 1..n : wire'[Len(wire) + i] = outgoing[written + i]
  <2>1. /\ n \in Nat /\ Len(wire') = Len(wire) + n
        /\ \A i \in 1..Len(wire) : wire'[i] = wire[i]
        /\ \A i \in 1..n : wire'[Len(wire) + i] = outgoing[written + i]
    BY <1>1, TakeStep
  <2>. QED
    BY <1>1, <2>1
<1>4. /\ \A k \in 1..Len(sent) : sent'[k] = sent[k]
      /\ ~Completes(n) => Len(sent') = Len(sent)
      /\ Completes(n) => /\ Len(sent') = Len(sent) + 1
                         /\ sent'[Len(sent) + 1] =
                              [payload |-> FrameOf(outgoing), end |-> Len(wire')]
  BY <1>1, SentGrows
<1>5. ASSUME NEW k \in 1..(Len(sent) + 1)
      PROVE  StartOf(k)' = StartOf(k) /\ StartOf(k) \in Nat
  <2>1. k # 1 => k - 1 \in 1..Len(sent)
    BY <1>1
  <2>. QED
    BY <1>4, <1>2, <2>1 DEF StartOf
<1>6. ASSUME NEW k \in 1..Len(sent) PROVE OnWire(k)'
  <2>. DEFINE length == Len(sent[k].payload)
              start == StartOf(k)
  <2>1. /\ length \in Nat /\ start \in Nat /\ k \in 1..(Len(sent) + 1)
    BY <1>1, <1>5, <1>6, <1>2
  <2>2. /\ length <= MaxFrameSize /\ PrefixHolds(length)
        /\ sent[k].end = start + PrefixWidth + length
        /\ sent[k].end <= Len(wire)
        /\ \A i \in 1..PrefixWidth : wire[start + i] = encode_little_endian(length)[i]
        /\ \A i \in 1..length : wire[start + PrefixWidth + i] = sent[k].payload[i]
    BY <1>6 DEF IInv, WireInv, OnWire
  <2>3. sent'[k] = sent[k] /\ StartOf(k)' = start
    BY <1>4, <1>5, <2>1
  <2>. HIDE DEF length, start
  <2>4. \A i \in 1..PrefixWidth : wire'[start + i] = encode_little_endian(length)[i]
    <3>1. \A i \in 1..PrefixWidth : start + i \in 1..Len(wire)
      BY <1>1, <2>1, <2>2
    <3>. QED
      BY <1>3, <2>2, <3>1
  <2>5. \A i \in 1..length : wire'[start + PrefixWidth + i] = sent[k].payload[i]
    <3>1. \A i \in 1..length : start + PrefixWidth + i \in 1..Len(wire)
      BY <1>1, <2>1, <2>2
    <3>. QED
      BY <1>3, <2>2, <3>1
  <2>6. sent[k].end <= Len(wire')
    BY <1>1, <1>3, <2>1, <2>2
  <2>. QED
    BY <2>2, <2>3, <2>4, <2>5, <2>6 DEF OnWire, length
<1>7. ASSUME NEW k, k = Len(sent) + 1, Completes(n) PROVE OnWire(k)'
  <2>1. /\ Size \in 0..MaxFrameSize /\ PrefixWidth > 0
        /\ Len(outgoing) = PrefixWidth + Size
        /\ n = Len(outgoing) - written /\ n > 0
        /\ Len(FrameOf(outgoing)) = Size
        /\ \A i \in 1..Size : FrameOf(outgoing)[i] = outgoing[PrefixWidth + i]
    BY <1>1, <1>7, SentRecord DEF Completes, Remaining
  <2>2. MaxFrameSize \in Nat /\ Size \in Nat
    BY <2>1, ChannelAssumption
  <2>. DEFINE start == NextStart
              length == Size
  <2>3. start \in Nat /\ StartOf(k)' = start
    BY <1>1, <1>5, <1>7 DEF NextStart
  <2>4. Len(wire) = start + written /\ \A i \in 1..written : wire[start + i] = outgoing[i]
    <3>1. Unfinished /\ ~damaged
      BY <1>1, <1>7, <2>1 DEF Unfinished, Completes
    <3>. QED
      BY <3>1 DEF IInv, WireInv
  <2>5. /\ \A i \in 1..PrefixWidth : outgoing[i] = encode_little_endian(length)[i]
        /\ PrefixHolds(length) /\ length <= MaxFrameSize
    BY <1>1, <1>7, <2>1, <2>2 DEF Completes, IInv, SenderInv
  <2>6. sent'[k].payload = FrameOf(outgoing) /\ sent'[k].end = Len(wire')
    BY <1>4, <1>7
  <2>. HIDE DEF start, length
  <2>7. Len(outgoing) = PrefixWidth + length /\ length \in Nat
        /\ Len(FrameOf(outgoing)) = length
        /\ \A i \in 1..length : FrameOf(outgoing)[i] = outgoing[PrefixWidth + i]
    BY <2>1, <2>2 DEF length
  <2>8. \A i \in 1..Len(outgoing) : wire'[start + i] = outgoing[i]
    <3>. TAKE i \in 1..Len(outgoing)
    <3>1. CASE i <= written
      <4>1. i \in 1..written /\ start + i \in 1..Len(wire)
        BY <1>1, <2>3, <2>4, <3>1
      <4>. QED
        BY <1>3, <2>4, <4>1
    <3>2. CASE ~(i <= written)
      <4>1. i - written \in 1..n /\ Len(wire) + (i - written) = start + i
            /\ written + (i - written) = i
        BY <1>1, <2>1, <2>3, <2>4, <3>2
      <4>2. wire'[Len(wire) + (i - written)] = outgoing[written + (i - written)]
        BY <1>3, <4>1
      <4>. QED
        BY <4>1, <4>2
    <3>. QED
      BY <3>1, <3>2
  <2>9. Len(wire') = start + PrefixWidth + length
    BY <1>1, <1>3, <2>1, <2>3, <2>4, <2>7
  <2>10. \A i \in 1..PrefixWidth : wire'[start + i] = encode_little_endian(length)[i]
    <3>1. \A i \in 1..PrefixWidth : i \in 1..Len(outgoing)
      BY <1>1, <2>7
    <3>. QED
      BY <2>5, <2>8, <3>1
  <2>11. \A i \in 1..length : wire'[start + PrefixWidth + i] = FrameOf(outgoing)[i]
    <3>1. \A i \in 1..length : /\ PrefixWidth + i \in 1..Len(outgoing)
                               /\ start + PrefixWidth + i = start + (PrefixWidth + i)
      BY <1>1, <2>3, <2>7
    <3>. QED
      BY <2>7, <2>8, <3>1
  <2>12. Len(wire') <= Len(wire')
    BY <1>3
  <2>. QED
    BY <2>3, <2>5, <2>6, <2>7, <2>9, <2>10, <2>11, <2>12 DEF OnWire
<1>8. \A k \in 1..Len(sent') : k \in 1..Len(sent) \/ (k = Len(sent) + 1 /\ Completes(n))
  BY <1>1, <1>4
<1>. QED
  BY <1>6, <1>7, <1>8

\* Behind them is what the send in progress has written.
LEMMA WriteKeepsTail ==
  ASSUME IInv, NEW n, WriteOf(n), ~damaged'
  PROVE  IF Unfinished'
         THEN /\ Len(wire') = NextStart' + written'
              /\ \A i \in 1..written' : wire'[NextStart' + i] = outgoing'[i]
         ELSE Len(wire') = NextStart'
<1>1. /\ send_state # "idle" /\ n \in 0..Remaining /\ Take(n) /\ outgoing' = outgoing
      /\ Len(wire) \in Nat /\ Len(sent) \in Nat /\ written \in Nat /\ written <= Len(outgoing)
      /\ Len(outgoing) \in Nat /\ Len(outgoing) > 0
  BY SentRecord, SMTT(30) DEF WriteOf, IInv, TypeOK
<1>2. /\ n \in Nat /\ Len(wire') = Len(wire) + n /\ written' = written + n
      /\ written + n <= Len(outgoing)
      /\ \A i \in 1..Len(wire) : wire'[i] = wire[i]
      /\ \A i \in 1..n : wire'[Len(wire) + i] = outgoing[written + i]
  <2>1. /\ n \in Nat /\ Len(wire') = Len(wire) + n /\ written' = written + n
        /\ written' \in 0..Len(outgoing)
        /\ \A i \in 1..Len(wire) : wire'[i] = wire[i]
        /\ \A i \in 1..n : wire'[Len(wire) + i] = outgoing[written + i]
    BY <1>1, TakeStep
  <2>. QED
    BY <1>1, <2>1
<1>3. ~damaged /\ Size' = Size
  <2>1. damaged => damaged'
    BY DEF WriteOf, Return, Wait
  <2>. QED
    BY <1>1, <2>1 DEF Size
<1>4. /\ send_state' = "idle" =>
           ~(written' \in 1..(Len(outgoing) - 1)) /\ ~(written' > 0 /\ ~PrefixHolds(Size))
      /\ send_state' = "idle" \/ send_state' = "waiting"
  BY <1>1, <1>3 DEF WriteOf, Return, Wait, Size
<1>5. NextStart \in Nat
  <2>1. Len(sent) # 0 => sent[Len(sent)] \in [payload : Seq(Bytes), end : Nat]
    <3>1. Len(sent) # 0 => Len(sent) \in 1..Len(sent)
      BY <1>1
    <3>. QED
      BY <3>1, ElementOfSeq DEF IInv, TypeOK
  <2>2. Len(sent) # 0 => sent[Len(sent)].end \in Nat
    BY <2>1
  <2>3. NextStart = IF Len(sent) = 0 THEN 0 ELSE sent[Len(sent)].end
    BY <1>1 DEF NextStart, StartOf
  <2>. QED
    BY <2>2, <2>3
<1>6. CASE Completes(n)
  <2>1. Len(sent') = Len(sent) + 1 /\ sent'[Len(sent')].end = Len(wire')
    BY <1>1, <1>6, SentGrows, SMTT(30)
  <2>2. NextStart' = Len(wire')
    BY <1>1, <2>1 DEF NextStart, StartOf
  <2>3. ~Unfinished'
    BY <1>1, <1>2, <1>3, <1>6 DEF Unfinished, Completes, Remaining, PrefixHolds
  <2>. QED
    BY <2>2, <2>3
<1>7. CASE ~Completes(n)
  <2>1. NextStart' = NextStart
    <3>1. Len(sent') = Len(sent) /\ \A k \in 1..Len(sent) : sent'[k] = sent[k]
      BY <1>1, <1>7, SentGrows
    <3>. QED
      BY <1>1, <3>1 DEF NextStart, StartOf
  <2>2. Unfinished => /\ Len(wire) = NextStart + written
                      /\ \A i \in 1..written : wire[NextStart + i] = outgoing[i]
    BY <1>3 DEF IInv, WireInv
  <2>3. ~Unfinished => Len(wire) = NextStart
    BY <1>3 DEF IInv, WireInv
  <2>4. Unfinished <=> (written < Len(outgoing) \/ ~PrefixHolds(Size))
    BY <1>1 DEF Unfinished
  <2>5. Unfinished' <=> (send_state' # "idle" /\ (written' < Len(outgoing) \/ ~PrefixHolds(Size)))
    BY <1>1, <1>3 DEF Unfinished, PrefixHolds
  <2>. HIDE DEF Unfinished
  <2>6. CASE n = 0
    BY <1>1, <1>2, <1>4, <1>5, <2>1, <2>2, <2>3, <2>4, <2>5, <2>6
  <2>7. CASE n > 0
    <3>1. Unfinished
      BY <1>1, <1>2, <2>4, <2>7
    <3>2. Len(wire') = NextStart + written'
      BY <1>1, <1>2, <1>5, <2>2, <3>1
    <3>3. \A i \in 1..written' : wire'[NextStart + i] = outgoing[i]
      <4>. TAKE i \in 1..written'
      <4>1. CASE i <= written
        <5>1. i \in 1..written /\ NextStart + i \in 1..Len(wire)
          BY <1>1, <1>2, <1>5, <2>2, <3>1, <4>1
        <5>. QED
          BY <1>2, <2>2, <3>1, <5>1
      <4>2. CASE ~(i <= written)
        <5>1. i - written \in 1..n /\ Len(wire) + (i - written) = NextStart + i
              /\ written + (i - written) = i
          BY <1>1, <1>2, <1>5, <2>2, <3>1, <4>2, SMTT(30)
        <5>2. wire'[Len(wire) + (i - written)] = outgoing[written + (i - written)]
          BY <1>2, <5>1
        <5>. QED
          BY <5>1, <5>2
      <4>. QED
        BY <4>1, <4>2
    <3>4. Unfinished'
      <4>1. written + n < Len(outgoing) \/ ~PrefixHolds(Size)
        BY <1>1, <1>2, <1>3, <1>7, <2>7 DEF Completes, Remaining
      <4>2. send_state' # "idle"
        BY <1>1, <1>2, <1>4, <2>7, <4>1
      <4>. QED
        BY <1>2, <2>5, <4>1, <4>2
    <3>. QED
      BY <1>1, <2>1, <3>2, <3>3, <3>4
  <2>. QED
    BY <1>2, <2>6, <2>7
<1>. QED
  BY <1>6, <1>7

LEMMA WriteKeepsHistory == ASSUME IInv, NEW n, WriteOf(n) PROVE HistoryInv'
<1>1. /\ send_state # "idle" /\ n \in 0..Remaining /\ Take(n) /\ UNCHANGED <<outgoing, receiver>>
      /\ Len(sent) \in Nat /\ Len(delivered) \in Nat /\ written \in Nat
  BY DEF WriteOf, IInv, TypeOK
<1>2. n \in Nat /\ written' = written + n
  BY <1>1, TakeStep
<1>3. /\ \A k \in 1..Len(sent) : sent'[k] = sent[k]
      /\ ~Completes(n) => Len(sent') = Len(sent)
      /\ Completes(n) => Len(sent') = Len(sent) + 1
  BY <1>1, SentGrows
<1>4. delivered' = delivered /\ consumed' = consumed /\ Size' = Size
  BY <1>1 DEF receiver, Size
<1>5. Len(delivered) > Len(sent) => damaged \/ (written > 0 /\ ~PrefixHolds(Size))
  BY DEF IInv, HistoryInv
<1>6. Completes(n) => Len(delivered) <= Len(sent)
  BY <1>1, <1>5 DEF Completes
<1>7. Len(delivered) <= Len(sent) \/ Len(sent') = Len(sent)
  BY <1>3, <1>6
<1>8. ASSUME NEW k \in 1..Len(delivered), k <= Len(sent')
      PROVE  delivered[k] = sent'[k].payload
  <2>1. k \in 1..Len(sent)
    BY <1>1, <1>3, <1>6, <1>8
  <2>. QED
    BY <1>3, <2>1 DEF IInv, HistoryInv
<1>9. ASSUME Len(delivered) <= Len(sent') PROVE consumed = StartOf(Len(delivered) + 1)'
  <2>1. Len(delivered) <= Len(sent)
    BY <1>3, <1>6, <1>9
  <2>2. consumed = StartOf(Len(delivered) + 1)
    BY <2>1 DEF IInv, HistoryInv
  <2>3. Len(delivered) # 0 => sent'[Len(delivered)] = sent[Len(delivered)]
    BY <1>1, <1>3, <2>1
  <2>. QED
    BY <1>1, <1>4, <2>2, <2>3 DEF StartOf
<1>10. ASSUME Len(delivered) > Len(sent')
       PROVE  damaged' \/ (send_state' # "idle" /\ written' > 0 /\ ~PrefixHolds(Size))
  <2>1. damaged \/ (written > 0 /\ ~PrefixHolds(Size))
    BY <1>1, <1>3, <1>5, <1>10
  <2>2. damaged => damaged'
    BY DEF WriteOf, Return, Wait
  <2>3. written > 0 => written' > 0
    BY <1>1, <1>2
  <2>4. send_state' = "idle" => damaged' = (damaged \/ written' \in 1..(Len(outgoing) - 1)
                                                    \/ (written' > 0 /\ ~PrefixHolds(Size)))
    BY DEF WriteOf, Return, Wait, Size
  <2>. QED
    BY <2>1, <2>2, <2>3, <2>4
<1>. QED
  BY <1>4, <1>8, <1>9, <1>10 DEF HistoryInv

LEMMA WriteStep == ASSUME IInv, NEW n, WriteOf(n) PROVE IInv'
<1>1. /\ send_state # "idle" /\ n \in 0..Remaining /\ Take(n)
      /\ UNCHANGED <<outgoing, closed, receiver>>
      /\ send_state' \in {"idle", "waiting"} /\ damaged' \in BOOLEAN
      /\ send_state' = "waiting" => written' < Len(outgoing) \/ IsEmptyFrame
  BY DEF WriteOf, Return, Wait, IInv, TypeOK
<1>2. /\ wire' \in Seq(Bytes) /\ Len(wire) <= Len(wire')
      /\ \A i \in 1..Len(wire) : wire'[i] = wire[i]
      /\ written' \in 0..Len(outgoing)
  <2>1. /\ n \in Nat /\ Len(wire') = Len(wire) + n /\ wire' \in Seq(Bytes)
        /\ \A i \in 1..Len(wire) : wire'[i] = wire[i]
        /\ written' \in 0..Len(outgoing)
    BY <1>1, TakeStep
  <2>2. Len(wire) \in Nat
    BY DEF IInv, TypeOK
  <2>. QED
    BY <2>1, <2>2
<1>3. sent' \in Seq([payload : Seq(Bytes), end : Nat])
  BY <1>1, SentGrows
<1>4. ReaderInv' /\ TypeOK'
  BY <1>1, <1>2, <1>3, SenderKeepsReader DEF IInv, TypeOK
<1>5. SenderInv'
  BY <1>1 DEF IInv, SenderInv, Size, IsEmptyFrame
<1>6. WireInv'
  BY WriteKeepsSent, WriteKeepsTail DEF WireInv
<1>. QED
  BY <1>4, <1>5, <1>6, WriteKeepsHistory DEF IInv

LEMMA WritingStep ==
  ASSUME IInv, (\E n \in 0..MaxWire : Writev(n) \/ WritevError(n)) \/ NothingLeft \/ WaitFails
  PROVE  \E n : WriteOf(n)
<1>1. /\ written \in 0..Len(outgoing) /\ Len(outgoing) \in Nat /\ PrefixWidth \in Nat
      /\ wire \in Seq(Bytes) /\ outgoing \in Seq(Bytes)
  BY ChannelAssumption DEF IInv, TypeOK
<1>2. ASSUME NEW n, Writev(n) PROVE WriteOf(n)
  <2>1. /\ send_state # "idle" /\ n \in 0..Remaining /\ Take(n)
        /\ UNCHANGED <<outgoing, closed, receiver>>
        /\ IF n = Remaining /\ ~IsEmptyFrame THEN Return("ok")
           ELSE Wait \/ (n = 0 /\ Return("io_error"))
    BY <1>2 DEF Writev
  <2>2. written' = written + n
    BY <2>1 DEF Take
  <2>3. n = Remaining \/ written' < Len(outgoing)
    BY <1>1, <2>1, <2>2 DEF Remaining
  <2>. QED
    BY <2>1, <2>3 DEF WriteOf
<1>3. ASSUME NEW n, WritevError(n) PROVE WriteOf(n)
  BY <1>1, <1>3 DEF WritevError, WriteOf, Remaining
<1>4. CASE NothingLeft \/ WaitFails
  <2>1. /\ send_state # "idle" /\ UNCHANGED <<outgoing, written, wire, closed, sent, receiver>>
        /\ \E status \in {"ok", "exhausted", "io_error"} : Return(status)
    BY <1>4 DEF NothingLeft, WaitFails
  <2>2. SubSeq(outgoing, written + 1, written + 0) = << >>
    BY <1>1, SubSeqEmpty
  <2>3. wire \o << >> = wire
    BY <1>1, ConcatEmptySeq
  <2>4. Take(0)
    BY <1>1, <2>1, <2>2, <2>3 DEF Take
  <2>5. 0 \in 0..Remaining
    BY <1>1 DEF Remaining
  <2>6. WriteOf(0)
    BY <2>1, <2>4, <2>5 DEF WriteOf
  <2>. QED
    BY <2>6
<1>. QED
  BY <1>2, <1>3, <1>4

LEMMA SenderIInv == ASSUME IInv, SenderStep PROVE IInv'
  BY QuietStep, SendFrameStep, WritingStep, WriteStep DEF SenderStep

-----------------------------------------------------------------------------
(* The receiver's steps.                                                   *)

\* The sender's part of the invariant survives what a receiver does.
LEMMA ReceiverKeepsSender == ASSUME IInv, UNCHANGED sender PROVE SenderInv' /\ WireInv'
<1>1. UNCHANGED <<outgoing, written, send_state, wire, sent, damaged>>
  BY DEF sender
<1>2. SenderInv'
  BY <1>1 DEF IInv, SenderInv, Size, IsEmptyFrame
<1>3. WireInv'
  BY <1>1 DEF IInv, WireInv, OnWire, Unfinished, NextStart, StartOf, Size
<1>. QED
  BY <1>2, <1>3

LEMMA AcquireStep == ASSUME IInv, Acquire \/ RefuseLength PROVE IInv'
<1>1. /\ UNCHANGED <<read_count, stream_buffer, stream_buffer_offset, consumed, delivered, sender>>
      /\ \/ lease' = lease
         \/ /\ FrameIsThere
            /\ lease' = [offset |-> stream_buffer_offset + PrefixWidth, size |-> parsed.length,
                         valid |-> TRUE]
  BY DEF Acquire, RefuseLength
<1>2. UNCHANGED <<outgoing, written, send_state, wire, closed, sent, damaged>>
  BY <1>1 DEF sender
<1>3. /\ stream_buffer_offset = 0 /\ parsed.length \in Nat /\ PrefixWidth \in Nat
      /\ stream_buffer_offset + PrefixWidth = PrefixWidth
  BY ParsedType, ChannelAssumption DEF IInv, TypeOK
<1>4. lease' \in [offset : Nat, size : Nat, valid : BOOLEAN]
  <2>1. lease \in [offset : Nat, size : Nat, valid : BOOLEAN]
    BY DEF IInv, TypeOK
  <2>2. [offset |-> stream_buffer_offset + PrefixWidth, size |-> parsed.length, valid |-> TRUE]
          \in [offset : Nat, size : Nat, valid : BOOLEAN]
    BY <1>3
  <2>. QED
    BY <1>1, <2>1, <2>2
<1>5. TypeOK'
  BY <1>1, <1>2, <1>4 DEF IInv, TypeOK
<1>6. parsed' = parsed /\ FrameIsThere' = FrameIsThere
  BY <1>1 DEF parsed, try_parse_frame_length, unread_bytes, FrameIsThere
<1>7. ReaderInv'
  <2>1. BufferBounded'
    BY <1>1, <1>2 DEF IInv, ReaderInv, BufferBounded, BufferIsUnread
  <2>2. lease'.valid => /\ FrameIsThere
                        /\ lease'.offset = PrefixWidth /\ lease'.size = parsed.length
    BY <1>1, <1>3 DEF IInv, ReaderInv
  <2>. QED
    BY <1>6, <2>1, <2>2 DEF ReaderInv
<1>8. HistoryInv'
  BY <1>1, <1>2 DEF IInv, HistoryInv, StartOf, Size
<1>. QED
  BY <1>1, <1>5, <1>7, <1>8, ReceiverKeepsSender DEF IInv

\* Reading some bytes, or none.  No lease is held: the frame it shows would
\* have ended the rounds.
FillOf(n) ==
  /\ Filling
  /\ n \in 0..ReadSize /\ read_count + n <= Len(wire)
  /\ Fill(SubSeq(wire, read_count + 1, read_count + n))
  /\ read_count' = read_count + n
  /\ UNCHANGED <<lease, consumed, delivered, sender>>

LEMMA FillStep == ASSUME IInv, NEW n, FillOf(n) PROVE IInv'
<1>1. /\ Filling /\ n \in Nat /\ n <= ReadSize /\ read_count + n <= Len(wire)
      /\ read_count' = read_count + n
      /\ UNCHANGED <<lease, consumed, delivered, sender>>
      /\ wire \in Seq(Bytes) /\ Len(wire) \in Nat /\ read_count \in Nat /\ consumed \in 0..read_count
      /\ stream_buffer \in Seq(Bytes) /\ stream_buffer_offset = 0
      /\ ReadSize \in Nat /\ PrefixWidth \in Nat /\ MaxFrameSize \in Nat
  BY ChannelAssumption DEF FillOf, IInv, TypeOK
<1>2. UNCHANGED <<outgoing, written, send_state, wire, closed, sent, damaged>>
  BY <1>1 DEF sender
<1>. DEFINE data == SubSeq(wire, read_count + 1, read_count + n)
<1>3. stream_buffer' = stream_buffer \o data /\ stream_buffer_offset' = 0
  <2>1. ~MustCompact
    BY <1>1 DEF MustCompact
  <2>. QED
    BY <1>1, <2>1 DEF FillOf, Fill
<1>4. /\ data \in Seq(Bytes) /\ Len(data) = n
  <2>1. read_count + n \in read_count..Len(wire) /\ (read_count + n) - read_count = n
    BY <1>1
  <2>. QED
    BY <1>1, <2>1, CutElements
<1>5. SubSeq(wire, consumed + 1, read_count) \o data = SubSeq(wire, consumed + 1, read_count + n)
  <2>1. /\ consumed + 1 \in 1..(Len(wire) + 1) /\ read_count \in ((consumed + 1) - 1)..Len(wire)
        /\ read_count + n \in read_count..Len(wire)
    BY <1>1
  <2>. QED
    BY <1>1, <2>1, ConcatAdjacentSubSeq
<1>. HIDE DEF data
<1>6. stream_buffer' \in Seq(Bytes) /\ Len(stream_buffer') = Len(stream_buffer) + n
  BY <1>1, <1>3, <1>4, ConcatProperties
<1>7. BufferIsUnread'
  BY <1>1, <1>2, <1>3, <1>5 DEF IInv, ReaderInv, BufferBounded, BufferIsUnread
<1>8. Len(stream_buffer') < PrefixWidth + MaxFrameSize + ReadSize
  <2>1. Len(stream_buffer) < PrefixWidth + MaxFrameSize
    <3>1. /\ parsed.length \in 0..MaxFrameSize /\ unread_bytes = Len(stream_buffer)
          /\ Len(stream_buffer) \in Nat
      BY <1>1, ParsedType DEF IInv
    <3>2. CASE Len(stream_buffer) < PrefixWidth
      BY <1>1, <3>1, <3>2
    <3>3. CASE Len(stream_buffer) >= PrefixWidth
      <4>1. parsed.code = "ok"
        BY <1>1, <3>1, <3>3 DEF Filling, parsed, try_parse_frame_length
      <4>2. Len(stream_buffer) < PrefixWidth + parsed.length
        BY <1>1, <3>1, <4>1 DEF Filling, FrameIsThere
      <4>. QED
        BY <1>1, <3>1, <4>2
    <3>. QED
      BY <1>1, <3>1, <3>2, <3>3
  <2>2. Len(stream_buffer) \in Nat
    BY <1>1
  <2>. QED
    BY <1>1, <1>6, <2>1, <2>2
<1>9. ~lease'.valid
  BY <1>1 DEF Filling, IInv, ReaderInv
<1>10. ReaderInv'
  BY <1>1, <1>2, <1>7, <1>8, <1>9 DEF ReaderInv, BufferBounded
<1>11. read_count' \in 0..Len(wire') /\ consumed' \in 0..read_count'
  BY <1>1, <1>2
<1>12. TypeOK'
  BY <1>1, <1>2, <1>3, <1>6, <1>11 DEF IInv, TypeOK
<1>13. HistoryInv'
  BY <1>1, <1>2 DEF IInv, HistoryInv, StartOf, Size
<1>. QED
  BY <1>1, <1>10, <1>12, <1>13, ReceiverKeepsSender DEF IInv

LEMMA ReadingStep ==
  ASSUME IInv, ReadNothing \/ ReadError \/ (\E n \in 1..ReadSize : ReadSome(n))
  PROVE  \E n : FillOf(n)
<1>1. /\ read_count \in 0..Len(wire) /\ Len(wire) \in Nat /\ ReadSize \in Nat
      /\ wire \in Seq(Bytes)
  BY ChannelAssumption DEF IInv, TypeOK
<1>2. CASE ReadNothing \/ ReadError
  <2>1. SubSeq(wire, read_count + 1, read_count + 0) = << >>
    BY <1>1, SubSeqEmpty
  <2>2. 0 \in 0..ReadSize /\ read_count + 0 <= Len(wire) /\ read_count + 0 = read_count
    BY <1>1
  <2>3. FillOf(0)
    BY <1>2, <2>1, <2>2 DEF FillOf, ReadNothing, ReadError
  <2>. QED
    BY <2>3
<1>3. ASSUME NEW n \in 1..ReadSize, ReadSome(n) PROVE FillOf(n)
  BY <1>1, <1>3 DEF FillOf, ReadSome
<1>. QED
  BY <1>2, <1>3

\* What a lease shows: the bytes behind the prefix of the frame at the start of
\* the buffer, and where they are on the wire.
LEMMA LeaseShows ==
  ASSUME IInv, lease.valid
  PROVE  /\ lease.size \in 0..MaxFrameSize /\ lease.size \in Nat
         /\ lease.size = decode_little_endian(SubSeq(stream_buffer, 1, PrefixWidth))
         /\ PrefixWidth + lease.size <= Len(stream_buffer)
         /\ Len(stream_buffer) = read_count - consumed
         /\ \A i \in 1..Len(stream_buffer) : stream_buffer[i] = wire[consumed + i]
         /\ LeaseBytes \in Seq(Bytes) /\ Len(LeaseBytes) = lease.size
         /\ \A i \in 1..lease.size : LeaseBytes[i] = stream_buffer[PrefixWidth + i]
         /\ LeaseBytes = SubSeq(stream_buffer, PrefixWidth + 1, PrefixWidth + lease.size)
<1>1. /\ stream_buffer \in Seq(Bytes) /\ wire \in Seq(Bytes) /\ read_count \in 0..Len(wire)
      /\ consumed \in 0..read_count /\ read_count \in consumed..Len(wire) /\ consumed \in Nat
      /\ PrefixWidth \in Nat /\ MaxFrameSize \in Nat
      /\ Len(stream_buffer) \in Nat /\ Len(wire) \in Nat
  BY ChannelAssumption DEF IInv, TypeOK
<1>2. /\ FrameIsThere /\ lease.offset = PrefixWidth /\ lease.size = parsed.length
      /\ stream_buffer = SubSeq(wire, consumed + 1, read_count)
  BY DEF IInv, ReaderInv, BufferBounded, BufferIsUnread
<1>3. /\ lease.size \in 0..MaxFrameSize
      /\ lease.size = decode_little_endian(SubSeq(stream_buffer, 1, PrefixWidth))
      /\ PrefixWidth + lease.size <= Len(stream_buffer)
  BY <1>2, ParsedType DEF IInv, FrameIsThere
<1>4. /\ Len(stream_buffer) = read_count - consumed
      /\ \A i \in 1..Len(stream_buffer) : stream_buffer[i] = wire[consumed + i]
  BY <1>1, <1>2, CutElements
<1>5. LeaseBytes = SubSeq(stream_buffer, PrefixWidth + 1, PrefixWidth + lease.size)
  BY <1>2 DEF LeaseBytes
<1>6. /\ LeaseBytes \in Seq(Bytes) /\ Len(LeaseBytes) = lease.size
      /\ \A i \in 1..lease.size : LeaseBytes[i] = stream_buffer[PrefixWidth + i]
  <2>. DEFINE end == PrefixWidth + lease.size
              shown == SubSeq(stream_buffer, PrefixWidth + 1, end)
  <2>1. end \in PrefixWidth..Len(stream_buffer) /\ end - PrefixWidth = lease.size
    BY <1>1, <1>3
  <2>. HIDE DEF end
  <2>2. /\ shown \in Seq(Bytes) /\ Len(shown) = end - PrefixWidth
        /\ \A i \in 1..(end - PrefixWidth) : shown[i] = stream_buffer[PrefixWidth + i]
    BY <1>1, <2>1, CutElements
  <2>3. LeaseBytes = shown
    BY <1>5 DEF end
  <2>. HIDE DEF shown
  <2>. QED
    BY <2>1, <2>2, <2>3
<1>7. lease.size \in Nat
  BY <1>1, <1>3
<1>. QED
  BY <1>3, <1>4, <1>5, <1>6, <1>7

\* A receiver at the start of a frame sent takes that frame.
LEMMA LeaseIsSent ==
  ASSUME IInv, lease.valid, NEW k \in 1..Len(sent), consumed = StartOf(k)
  PROVE  /\ LeaseBytes = sent[k].payload
         /\ consumed + PrefixWidth + lease.size = sent[k].end
<1>. DEFINE payload == sent[k].payload
            length == Len(payload)
<1>1. sent[k] \in [payload : Seq(Bytes), end : Nat]
  BY ElementOfSeq DEF IInv, TypeOK
<1>2. payload \in Seq(Bytes) /\ length \in Nat
  BY <1>1
<1>3. /\ PrefixHolds(length)
      /\ sent[k].end = consumed + PrefixWidth + length
      /\ \A i \in 1..PrefixWidth : wire[consumed + i] = encode_little_endian(length)[i]
      /\ \A i \in 1..length : wire[consumed + PrefixWidth + i] = payload[i]
  BY DEF IInv, WireInv, OnWire
<1>. HIDE DEF length, payload
<1>4. PrefixWidth \in Nat /\ consumed \in Nat /\ stream_buffer \in Seq(Bytes)
  BY ChannelAssumption DEF IInv, TypeOK
<1>5. SubSeq(stream_buffer, 1, PrefixWidth) = encode_little_endian(length)
  <2>. DEFINE prefix == SubSeq(stream_buffer, 0 + 1, PrefixWidth)
              code == encode_little_endian(length)
  <2>1. 0 \in Nat /\ PrefixWidth \in 0..Len(stream_buffer) /\ PrefixWidth - 0 = PrefixWidth
    BY <1>4, LeaseShows
  <2>2. /\ prefix \in Seq(Bytes) /\ Len(prefix) = PrefixWidth
        /\ \A i \in 1..PrefixWidth : prefix[i] = stream_buffer[0 + i]
    BY <1>4, <2>1, CutElements
  <2>3. code \in Seq(Bytes) /\ Len(code) = PrefixWidth
    BY <1>2, EncodeType
  <2>4. \A i \in 1..PrefixWidth : prefix[i] = code[i]
    <3>. TAKE i \in 1..PrefixWidth
    <3>1. i \in 1..Len(stream_buffer) /\ 0 + i = i
      BY <1>4, LeaseShows
    <3>2. prefix[i] = wire[consumed + i]
      BY <2>2, <3>1, LeaseShows
    <3>. QED
      BY <1>3, <3>2
  <2>. HIDE DEF prefix, code
  <2>5. prefix = code
    BY <2>2, <2>3, <2>4, SeqEqual
  <2>. QED
    BY <2>5 DEF prefix, code
<1>6. lease.size = length
  BY <1>3, <1>5, LeaseShows DEF PrefixHolds
<1>7. \A i \in 1..length : LeaseBytes[i] = payload[i]
  <2>. TAKE i \in 1..length
  <2>1. /\ PrefixWidth + i \in 1..Len(stream_buffer)
        /\ consumed + (PrefixWidth + i) = consumed + PrefixWidth + i
    BY <1>2, <1>4, <1>6, LeaseShows
  <2>2. LeaseBytes[i] = wire[consumed + (PrefixWidth + i)]
    BY <1>6, <2>1, LeaseShows
  <2>. QED
    BY <1>3, <2>1, <2>2
<1>8. LeaseBytes = payload
  BY <1>2, <1>6, <1>7, LeaseShows, SeqEqual DEF length
<1>. QED
  BY <1>3, <1>6, <1>8 DEF payload

\* A frame beyond the frames sent is there only when the wire is damaged, or
\* about to be: its prefix does not hold the size of the frame behind it.
LEMMA LeaseBeyondSent ==
  ASSUME IInv, lease.valid, consumed = NextStart, ~damaged
  PROVE  send_state # "idle" /\ written > 0 /\ ~PrefixHolds(Size)
<1>1. /\ PrefixWidth \in Nat /\ PrefixWidth > 0 /\ consumed \in Nat /\ written \in 0..Len(outgoing)
      /\ Len(outgoing) \in Nat /\ Len(wire) \in Nat /\ read_count \in 0..Len(wire)
      /\ stream_buffer \in Seq(Bytes) /\ Len(stream_buffer) \in Nat
  BY ChannelAssumption DEF IInv, TypeOK
<1>2. /\ lease.size \in Nat /\ PrefixWidth + lease.size <= Len(stream_buffer)
      /\ Len(stream_buffer) = read_count - consumed
      /\ \A i \in 1..Len(stream_buffer) : stream_buffer[i] = wire[consumed + i]
      /\ lease.size = decode_little_endian(SubSeq(stream_buffer, 1, PrefixWidth))
  BY LeaseShows
<1>3. Len(wire) >= consumed + PrefixWidth + lease.size
  BY <1>1, <1>2
<1>4. Unfinished
  <2>1. Len(wire) # NextStart
    BY <1>1, <1>2, <1>3
  <2>. QED
    BY <2>1 DEF IInv, WireInv
<1>5. /\ Len(wire) = consumed + written
      /\ \A i \in 1..written : wire[consumed + i] = outgoing[i]
  BY <1>4 DEF IInv, WireInv
<1>6. /\ send_state # "idle" /\ written >= PrefixWidth + lease.size
      /\ written < Len(outgoing) \/ ~PrefixHolds(Size)
  BY <1>1, <1>2, <1>3, <1>4, <1>5 DEF Unfinished
<1>7. /\ Size \in Nat /\ Len(outgoing) = PrefixWidth + Size
      /\ \A i \in 1..PrefixWidth : outgoing[i] = encode_little_endian(Size)[i]
  BY <1>6, SentRecord, ChannelAssumption DEF IInv, SenderInv
<1>8. SubSeq(stream_buffer, 1, PrefixWidth) = encode_little_endian(Size)
  <2>. DEFINE prefix == SubSeq(stream_buffer, 0 + 1, PrefixWidth)
              code == encode_little_endian(Size)
  <2>1. 0 \in Nat /\ PrefixWidth \in 0..Len(stream_buffer) /\ PrefixWidth - 0 = PrefixWidth
    BY <1>1, <1>2
  <2>2. /\ prefix \in Seq(Bytes) /\ Len(prefix) = PrefixWidth
        /\ \A i \in 1..PrefixWidth : prefix[i] = stream_buffer[0 + i]
    BY <1>1, <2>1, CutElements
  <2>3. code \in Seq(Bytes) /\ Len(code) = PrefixWidth
    BY <1>7, EncodeType
  <2>4. \A i \in 1..PrefixWidth : prefix[i] = code[i]
    <3>. TAKE i \in 1..PrefixWidth
    <3>1. i \in 1..Len(stream_buffer) /\ i \in 1..written /\ 0 + i = i
      BY <1>1, <1>2, <1>6
    <3>. QED
      BY <1>2, <1>5, <1>7, <2>2, <3>1, SMTT(30)
  <2>. HIDE DEF prefix, code
  <2>5. prefix = code
    BY <2>2, <2>3, <2>4, SeqEqual
  <2>. QED
    BY <2>5 DEF prefix, code
<1>9. ~PrefixHolds(Size)
  <2>1. PrefixHolds(Size) => lease.size = Size
    BY <1>2, <1>8 DEF PrefixHolds
  <2>. QED
    BY <1>1, <1>2, <1>6, <1>7, <2>1
<1>. QED
  BY <1>1, <1>2, <1>6, <1>9

LEMMA ReleaseStep == ASSUME IInv, Release PROVE IInv'
<1>. DEFINE taken == PrefixWidth + lease.size
<1>1. /\ lease.valid
      /\ delivered' = Append(delivered, LeaseBytes)
      /\ consumed' = consumed + taken
      /\ stream_buffer' = Compacted(taken) /\ stream_buffer_offset' = 0
      /\ lease' = NoLease /\ read_count' = read_count
      /\ UNCHANGED sender
  <2>1. lease.valid /\ lease.size \in Nat
    BY LeaseShows DEF Release
  <2>2. stream_buffer_offset + PrefixWidth + lease.size = taken
        /\ consumed + PrefixWidth + lease.size = consumed + taken
    BY <2>1, ChannelAssumption DEF IInv, TypeOK
  <2>. QED
    BY <2>1, <2>2 DEF Release
<1>2. UNCHANGED <<outgoing, written, send_state, wire, closed, sent, damaged>>
  BY <1>1 DEF sender
<1>3. /\ wire \in Seq(Bytes) /\ read_count \in 0..Len(wire) /\ consumed \in 0..read_count
      /\ consumed \in Nat /\ read_count \in consumed..Len(wire) /\ Len(wire) \in Nat
      /\ PrefixWidth \in Nat /\ lease.size \in Nat /\ taken \in 0..(read_count - consumed)
      /\ Len(stream_buffer) = read_count - consumed
      /\ MaxFrameSize \in Nat /\ ReadSize \in Nat /\ ReadSize > 0
      /\ delivered \in Seq(Seq(Bytes)) /\ Len(delivered) \in Nat /\ Len(sent) \in Nat
      /\ LeaseBytes \in Seq(Bytes)
  <2>1. /\ lease.size \in Nat /\ PrefixWidth + lease.size <= Len(stream_buffer)
        /\ Len(stream_buffer) = read_count - consumed /\ LeaseBytes \in Seq(Bytes)
    BY <1>1, LeaseShows
  <2>2. /\ wire \in Seq(Bytes) /\ read_count \in 0..Len(wire) /\ consumed \in 0..read_count
        /\ Len(wire) \in Nat /\ delivered \in Seq(Seq(Bytes)) /\ Len(delivered) \in Nat
        /\ Len(sent) \in Nat
    BY DEF IInv, TypeOK
  <2>3. /\ PrefixWidth \in Nat /\ MaxFrameSize \in Nat /\ ReadSize \in Nat /\ ReadSize > 0
    BY ChannelAssumption
  <2>4. consumed \in Nat /\ read_count \in consumed..Len(wire)
        /\ taken \in 0..(read_count - consumed)
    BY <2>1, <2>2, <2>3
  <2>. QED
    BY <2>1, <2>2, <2>3, <2>4
<1>4. stream_buffer = SubSeq(wire, consumed + 1, read_count)
  BY DEF IInv, ReaderInv, BufferBounded, BufferIsUnread
<1>. HIDE DEF taken
<1>5. stream_buffer' = SubSeq(wire, consumed + taken + 1, read_count)
  <2>1. CASE taken >= Len(stream_buffer)
    <3>1. stream_buffer' = << >>
      BY <1>1, <2>1 DEF Compacted
    <3>2. consumed + taken + 1 \in Int /\ read_count \in Int /\ read_count < consumed + taken + 1
      BY <1>3, <2>1
    <3>. QED
      BY <3>1, <3>2, SubSeqEmpty
  <2>2. CASE ~(taken >= Len(stream_buffer))
    <3>1. stream_buffer' = SubSeq(stream_buffer, taken + 1, read_count - consumed)
      BY <1>1, <1>3, <2>2 DEF Compacted
    <3>. QED
      BY <1>3, <1>4, <3>1, CutOfCut
  <2>. QED
    BY <2>1, <2>2
<1>6. stream_buffer' \in Seq(Bytes) /\ Len(stream_buffer') = read_count - (consumed + taken)
  <2>1. consumed + taken \in Nat /\ read_count \in (consumed + taken)..Len(wire)
    BY <1>3
  <2>. QED
    BY <1>3, <1>5, <2>1, CutElements
<1>7. /\ delivered' \in Seq(Seq(Bytes)) /\ Len(delivered') = Len(delivered) + 1
      /\ \A k \in 1..Len(delivered) : delivered'[k] = delivered[k]
      /\ delivered'[Len(delivered) + 1] = LeaseBytes
  BY <1>1, <1>3, AppendProperties
<1>8. TypeOK'
  <2>1. consumed' \in 0..read_count' /\ read_count' \in 0..Len(wire')
    BY <1>1, <1>2, <1>3
  <2>2. lease' \in [offset : Nat, size : Nat, valid : BOOLEAN]
    BY <1>1 DEF NoLease
  <2>. QED
    BY <1>1, <1>2, <1>6, <1>7, <2>1, <2>2 DEF IInv, TypeOK
<1>9. ReaderInv'
  <2>1. BufferIsUnread'
    BY <1>1, <1>2, <1>5 DEF BufferIsUnread
  <2>2. Len(stream_buffer') < PrefixWidth + MaxFrameSize + ReadSize
    <3>1. Len(stream_buffer) < PrefixWidth + MaxFrameSize + ReadSize
      BY DEF IInv, ReaderInv, BufferBounded
    <3>. QED
      BY <1>3, <1>6, <3>1
  <2>3. ~lease'.valid
    BY <1>1 DEF NoLease
  <2>. QED
    BY <2>1, <2>2, <2>3 DEF ReaderInv, BufferBounded
<1>10. CASE Len(delivered) < Len(sent)
  <2>. DEFINE k == Len(delivered) + 1
  <2>1. k \in 1..Len(sent) /\ consumed = StartOf(k) /\ k + 1 - 1 = k /\ k + 1 # 1
    BY <1>3, <1>10 DEF IInv, HistoryInv
  <2>2. LeaseBytes = sent[k].payload /\ consumed + PrefixWidth + lease.size = sent[k].end
    BY <1>1, <2>1, LeaseIsSent
  <2>3. consumed' = sent[k].end
    BY <1>1, <1>3, <2>2, SMTT(30) DEF taken
  <2>4. consumed' = StartOf(Len(delivered) + 1)'
    BY <1>2, <1>3, <1>7, <2>1, <2>3 DEF StartOf
  <2>5. ASSUME NEW j \in 1..Len(delivered') PROVE delivered'[j] = sent'[j].payload
    <3>1. CASE j \in 1..Len(delivered)
      <4>1. j <= Len(sent)
        BY <1>3, <1>10, <3>1
      <4>. QED
        BY <1>2, <1>7, <3>1, <4>1 DEF IInv, HistoryInv
    <3>2. CASE j = k
      BY <1>2, <1>7, <2>2, <3>2
    <3>. QED
      BY <1>3, <1>7, <2>5, <3>1, <3>2
  <2>6. Len(delivered') <= Len(sent')
    BY <1>2, <1>3, <1>7, <1>10
  <2>7. HistoryInv'
    BY <1>2, <1>3, <1>7, <2>4, <2>5, <2>6 DEF HistoryInv
  <2>. QED
    BY <1>1, <1>8, <1>9, <2>7, ReceiverKeepsSender DEF IInv
<1>11. CASE Len(delivered) >= Len(sent)
  <2>1. damaged \/ (send_state # "idle" /\ written > 0 /\ ~PrefixHolds(Size))
    <3>1. CASE Len(delivered) = Len(sent)
      <4>1. consumed = NextStart
        BY <1>3, <3>1 DEF IInv, HistoryInv, NextStart
      <4>. QED
        BY <1>1, <4>1, LeaseBeyondSent
    <3>2. CASE Len(delivered) > Len(sent)
      BY <3>2 DEF IInv, HistoryInv
    <3>. QED
      BY <1>3, <1>11, <3>1, <3>2
  <2>2. Size' = Size
    BY <1>2 DEF Size
  <2>3. ~(Len(delivered') <= Len(sent'))
    BY <1>2, <1>3, <1>7, <1>11
  <2>4. ASSUME NEW j \in 1..Len(delivered'), j <= Len(sent')
        PROVE  delivered'[j] = sent'[j].payload
    <3>1. j \in 1..Len(delivered) /\ j <= Len(sent)
      BY <1>2, <1>3, <1>7, <1>11, <2>4
    <3>. QED
      BY <1>2, <1>7, <3>1 DEF IInv, HistoryInv
  <2>5. HistoryInv'
    BY <1>2, <2>1, <2>2, <2>3, <2>4 DEF HistoryInv
  <2>. QED
    BY <1>1, <1>8, <1>9, <2>5, ReceiverKeepsSender DEF IInv
<1>. QED
  BY <1>3, <1>10, <1>11

LEMMA ReceiverIInv == ASSUME IInv, ReceiverStep PROVE IInv'
  BY AcquireStep, ReadingStep, FillStep, ReleaseStep DEF ReceiverStep

LEMMA NextIInv == ASSUME IInv, [Next]_vars PROVE IInv'
<1>1. CASE Next
  BY <1>1, SenderIInv, ReceiverIInv DEF Next
<1>2. CASE UNCHANGED vars
  <2>1. UNCHANGED sender /\ UNCHANGED receiver
    BY <1>2 DEF vars
  <2>2. /\ UNCHANGED <<outgoing, written, send_state, wire, closed, sent, damaged>>
        /\ UNCHANGED <<read_count, stream_buffer, stream_buffer_offset, lease, consumed, delivered>>
    BY <2>1 DEF sender, receiver
  <2>3. TypeOK'
    BY <2>2 DEF IInv, TypeOK
  <2>4. ReaderInv'
    BY <2>2 DEF IInv, ReaderInv, BufferBounded, BufferIsUnread, FrameIsThere, parsed,
       try_parse_frame_length, unread_bytes
  <2>5. HistoryInv'
    BY <2>2 DEF IInv, HistoryInv, StartOf, Size
  <2>. QED
    BY <2>1, <2>3, <2>4, <2>5, ReceiverKeepsSender DEF IInv
<1>. QED
  BY <1>1, <1>2

LEMMA Invariance == Spec => []IInv
<1>1. Init => IInv
  BY InitIInv
<1>2. IInv /\ [Next]_vars => IInv'
  BY NextIInv
<1>. QED
  BY <1>1, <1>2, PTL DEF Spec

-----------------------------------------------------------------------------
(* The theorems.                                                           *)

\* Every variable keeps its type; no offset into the receiver's buffer is ever
\* left standing, so compact_stream_buffer() in fill_stream_buffer() never
\* has anything to do.
THEOREM TypeCorrect == Spec => []TypeOK
<1>1. IInv => TypeOK
  BY DEF IInv
<1>. QED
  BY <1>1, Invariance, PTL

\* The receiver gets the frames of send_frame() whole, in order and each once,
\* until one was cut short or its size did not fit the prefix.
THEOREM FramesIntactAlways == Spec => []FramesIntact
<1>1. IInv => FramesIntact
  BY DEF IInv, HistoryInv, FramesIntact
<1>. QED
  BY <1>1, Invariance, PTL

\* stream_buffer_ holds the bytes read and not released, and stays below one
\* frame, its prefix and one read.
THEOREM BufferBoundedAlways == Spec => []BufferBounded
<1>1. IInv => BufferBounded
  BY DEF IInv, ReaderInv
<1>. QED
  BY <1>1, Invariance, PTL

\* The bytes a lease shows stay where they are until it is released.
THEOREM LeaseStableAlways == Spec => LeaseStable
<1>. DEFINE Stable == lease.valid /\ lease'.valid =>
                        /\ lease'.offset + lease'.size <= Len(stream_buffer')
                        /\ LeaseBytes' = LeaseBytes
<1>1. ASSUME IInv, [Next]_vars, lease.valid, lease'.valid
      PROVE  lease'.offset + lease'.size <= Len(stream_buffer') /\ LeaseBytes' = LeaseBytes
  <2>1. IInv'
    BY <1>1, NextIInv
  <2>2. lease'.offset = PrefixWidth /\ PrefixWidth + lease'.size <= Len(stream_buffer')
    <3>1. /\ FrameIsThere' /\ lease'.offset = PrefixWidth /\ lease'.size = parsed'.length
          /\ TypeOK'
      BY <1>1, <2>1 DEF IInv, ReaderInv
    <3>2. unread_bytes' = Len(stream_buffer')
      BY <3>1 DEF TypeOK, unread_bytes
    <3>. QED
      BY <3>1, <3>2 DEF FrameIsThere
  <2>3. FrameIsThere /\ lease.offset = PrefixWidth /\ lease.size = parsed.length
        /\ stream_buffer_offset = 0
    BY <1>1 DEF IInv, TypeOK, ReaderInv
  <2>4. stream_buffer' = stream_buffer /\ lease'.offset = lease.offset /\ lease'.size = lease.size
    <3>1. CASE SenderStep \/ UNCHANGED vars
      <4>1. UNCHANGED receiver
        BY <3>1 DEF SenderStep, SendFrame, RefuseFrame, Writev, WritevError, NothingLeft,
           Writable, WaitFails, CloseSender, vars
      <4>. QED
        BY <4>1 DEF receiver
    <3>2. CASE Acquire \/ RefuseLength
      <4>1. UNCHANGED <<stream_buffer, stream_buffer_offset>>
        BY <3>2 DEF Acquire, RefuseLength
      <4>2. lease' = lease \/ lease'.size = parsed.length
        BY <3>2 DEF Acquire, RefuseLength
      <4>. QED
        BY <2>2, <2>3, <4>1, <4>2
    <3>3. CASE ReadNothing \/ ReadError \/ (\E n \in 1..ReadSize : ReadSome(n))
      BY <2>3, <3>3 DEF ReadNothing, ReadError, ReadSome, Filling
    <3>4. CASE Release
      BY <1>1, <3>4 DEF Release, NoLease
    <3>. QED
      BY <1>1, <3>1, <3>2, <3>3, <3>4 DEF Next, ReceiverStep
  <2>5. LeaseBytes' = LeaseBytes
    BY <2>4 DEF LeaseBytes
  <2>. QED
    BY <2>2, <2>5
<1>2. IInv /\ [Next]_vars => [Stable]_vars
  BY <1>1
<1>. HIDE DEF Stable
<1>3. Spec => [][Stable]_vars
  BY <1>2, Invariance, PTL DEF Spec
<1>. QED
  BY <1>3 DEF LeaseStable, Stable

\* send_frame() returns ok only when the transport took the whole frame, and an
\* error only when a part is missing or the frame was empty.
THEOREM SendOutcomeAlways == Spec => SendOutcome
<1>. DEFINE Outcome == send_state # "idle" /\ send_state' = "idle" =>
                         IF send_status' = "ok" THEN written' = Len(outgoing)
                         ELSE written' < Len(outgoing) \/ IsEmptyFrame
<1>1. ASSUME IInv, [Next]_vars, send_state # "idle", send_state' = "idle"
      PROVE  IF send_status' = "ok" THEN written' = Len(outgoing)
             ELSE written' < Len(outgoing) \/ IsEmptyFrame
  <2>1. /\ written \in Nat /\ Len(outgoing) \in Nat /\ written <= Len(outgoing)
        /\ send_state = "waiting" => written < Len(outgoing) \/ IsEmptyFrame
    BY <1>1 DEF IInv, TypeOK, SenderInv
  <2>2. CASE \E n \in 0..MaxWire : Writev(n) \/ WritevError(n)
    <3>1. PICK n \in 0..MaxWire : Writev(n) \/ WritevError(n)
      BY <2>2
    <3>2. n \in Nat /\ written' = written + n
      BY <3>1 DEF Writev, WritevError, Take
    <3>3. CASE Writev(n)
      BY <1>1, <2>1, <3>2, <3>3 DEF Writev, Wait, Return, Remaining
    <3>4. CASE WritevError(n)
      BY <1>1, <2>1, <3>2, <3>4 DEF WritevError, Return, Remaining
    <3>. QED
      BY <3>1, <3>3, <3>4
  <2>3. CASE NothingLeft
    BY <1>1, <2>1, <2>3 DEF NothingLeft, Return, Remaining
  <2>4. CASE WaitFails
    BY <1>1, <2>1, <2>4 DEF WaitFails, Return
  <2>5. ~(\E frame \in Frames : SendFrame(frame) \/ RefuseFrame(frame)) /\ ~Writable /\ ~CloseSender
    BY <1>1 DEF SendFrame, RefuseFrame, Writable, CloseSender
  <2>6. ~ReceiverStep /\ ~UNCHANGED vars
    BY <1>1 DEF ReceiverStep, Acquire, RefuseLength, ReadNothing, ReadError, Release, ReadSome,
       vars, sender
  <2>. QED
    BY <1>1, <2>2, <2>3, <2>4, <2>5, <2>6 DEF Next, SenderStep
<1>2. IInv /\ [Next]_vars => [Outcome]_vars
  BY <1>1
<1>. HIDE DEF Outcome
<1>3. Spec => [][Outcome]_vars
  BY <1>2, Invariance, PTL DEF Spec
<1>. QED
  BY <1>3 DEF SendOutcome, Outcome

-----------------------------------------------------------------------------
(* The channel as a framed reader.                                         *)

\* A prefix holds its first bytes as decode_little_endian() sees them.
LEMMA DecodeDigits ==
  ASSUME NEW bytes \in Seq(Bytes), Len(bytes) = PrefixWidth, PrefixWidth \in {1, 2, 4}
  PROVE  decode_little_endian(bytes) =
           CASE PrefixWidth = 1 -> bytes[1]
             [] PrefixWidth = 2 -> bytes[2] * ByteBase + bytes[1]
             [] OTHER -> (bytes[4] * ByteBase + bytes[3]) * (ByteBase * ByteBase)
                           + (bytes[2] * ByteBase + bytes[1])
<1>1. ByteBase \in Nat /\ ByteBase * 0 = 0
  BY ChannelAssumption
<1>2. \A i \in 1..PrefixWidth : bytes[i] \in Bytes
  BY ElementOfSeq
<1>3. \A i \in 1..PrefixWidth : bytes[i] \in Nat
  BY <1>2, ChannelAssumption DEF Bytes
<1>4. CASE PrefixWidth = 1
  <2>1. bytes[1] \in Nat
    BY <1>4, <1>3
  <2>2. decode_little_endian(bytes) = bytes[1] + ByteBase * (0 + ByteBase * (0 + ByteBase * 0))
    BY <1>4 DEF decode_little_endian
  <2>. QED
    BY <1>1, <1>4, <2>1, <2>2
<1>5. CASE PrefixWidth = 2
  <2>1. bytes[1] \in Nat /\ bytes[2] \in Nat
    BY <1>5, <1>3
  <2>2. decode_little_endian(bytes) =
          bytes[1] + ByteBase * (bytes[2] + ByteBase * (0 + ByteBase * 0))
    BY <1>5 DEF decode_little_endian
  <2>. QED
    BY <1>1, <1>5, <2>1, <2>2
<1>6. CASE PrefixWidth = 4
  <2>. DEFINE a == bytes[1]
              b == bytes[2]
              c == bytes[3]
              d == bytes[4]
  <2>1. a \in Nat /\ b \in Nat /\ c \in Nat /\ d \in Nat
    BY <1>6, <1>3
  <2>2. decode_little_endian(bytes) = a + ByteBase * (b + ByteBase * (c + ByteBase * d))
    BY <1>6 DEF decode_little_endian
  <2>. HIDE DEF a, b, c, d
  <2>3. a + ByteBase * (b + ByteBase * (c + ByteBase * d)) =
          (d * ByteBase + c) * (ByteBase * ByteBase) + (b * ByteBase + a)
    BY <1>1, <2>1
  <2>. QED
    BY <1>6, <2>2, <2>3 DEF a, b, c, d
<1>. QED
  BY <1>4, <1>5, <1>6

\* What LengthPrefixedFramer makes of a run of bytes, in the channel's terms.
LEMMA FramerIsChannel ==
  ASSUME NEW bytes \in Seq(Bytes), PrefixWidth \in {1, 2, 4}, Len(bytes) >= PrefixWidth
  PROVE  Source!try_frame(bytes) =
           LET size == decode_little_endian(SubSeq(bytes, 1, PrefixWidth))
           IN  IF size > MaxFrameSize
                 THEN [status |-> "invalid_frame", offset |-> 0, size |-> 0, bytes_consumed |-> 0]
               ELSE IF Len(bytes) < PrefixWidth + size
                 THEN [status |-> "need_more_data", offset |-> 0, size |-> 0, bytes_consumed |-> 0]
               ELSE [status |-> "ready", offset |-> PrefixWidth, size |-> size,
                     bytes_consumed |-> PrefixWidth + size]
<1>. DEFINE prefix == SubSeq(bytes, 0 + 1, PrefixWidth)
<1>1. 0 \in Nat /\ PrefixWidth \in 0..Len(bytes) /\ PrefixWidth - 0 = PrefixWidth
  OBVIOUS
<1>2. /\ prefix \in Seq(Bytes) /\ Len(prefix) = PrefixWidth
      /\ \A i \in 1..PrefixWidth : prefix[i] = bytes[0 + i]
  BY <1>1, CutElements
<1>3. \A i \in 1..PrefixWidth : prefix[i] = bytes[i]
  BY <1>1, <1>2
<1>. HIDE DEF prefix
<1>4. Source!read_prefix(bytes) = decode_little_endian(prefix)
  BY <1>2, <1>3, DecodeDigits DEF Source!read_prefix, Source!Pair
<1>5. prefix = SubSeq(bytes, 1, PrefixWidth)
  BY DEF prefix
<1>. QED
  BY <1>4, <1>5 DEF Source!try_frame, Source!TryLengthPrefixed, Source!InvalidFrame,
     Source!NeedMoreData, Source!Ready

\* The bytes that were read, and those of them that were not released.
LEMMA ReadBytes ==
  ASSUME IInv
  PROVE  LET read == SubSeq(wire, 1, read_count)
         IN  /\ read \in Seq(Bytes) /\ Len(read) = read_count
             /\ \A i \in 1..read_count : read[i] = wire[i]
             /\ Source!Unread = stream_buffer
<1>. DEFINE read == SubSeq(wire, 1, read_count)
<1>1. /\ wire \in Seq(Bytes) /\ Len(wire) \in Nat /\ read_count \in 0..Len(wire)
      /\ consumed \in 0..read_count /\ consumed \in Nat /\ read_count \in Nat
      /\ stream_buffer = SubSeq(wire, consumed + 1, read_count)
  BY DEF IInv, TypeOK, ReaderInv, BufferBounded, BufferIsUnread
<1>2. 0 \in Nat /\ 0 + 1 = 1 /\ read_count - 0 = read_count /\ \A i \in 1..read_count : 0 + i = i
  BY <1>1
<1>3. /\ SubSeq(wire, 0 + 1, read_count) \in Seq(Bytes)
      /\ Len(SubSeq(wire, 0 + 1, read_count)) = read_count - 0
      /\ \A i \in 1..(read_count - 0) : SubSeq(wire, 0 + 1, read_count)[i] = wire[0 + i]
  BY <1>1, <1>2, CutElements
<1>4. /\ read \in Seq(Bytes) /\ Len(read) = read_count
      /\ \A i \in 1..read_count : read[i] = wire[i]
  BY <1>2, <1>3
<1>. HIDE DEF read
<1>5. SubSeq(wire, consumed + 1, read_count) = SubSeq(read, consumed + 1, read_count)
  <2>1. consumed + 1 \in Nat \ {0} /\ read_count \in 0..Len(read) /\ Len(read) <= Len(wire)
        /\ \A i \in 1..Len(read) : wire[i] = read[i]
    BY <1>1, <1>4
  <2>. QED
    BY <1>1, <1>4, <2>1, CutOfFront
<1>6. Source!Unread = SubSeq(read, consumed + 1, Len(read))
  BY DEF Source!Unread, read
<1>. QED
  BY <1>1, <1>4, <1>5, <1>6

\* Nothing that was written is overwritten.
LEMMA WireGrows ==
  ASSUME IInv, SenderStep
  PROVE  Len(wire) <= Len(wire') /\ \A i \in 1..Len(wire) : wire'[i] = wire[i]
<1>1. Len(wire) \in Nat
  BY DEF IInv, TypeOK
<1>2. CASE \E n \in 0..MaxWire : Writev(n) \/ WritevError(n)
  <2>1. PICK n \in 0..MaxWire : Writev(n) \/ WritevError(n)
    BY <1>2
  <2>2. Remaining \in Int
    BY DEF Remaining, IInv, TypeOK
  <2>3. n \in 0..Remaining /\ Take(n)
    BY <2>1, <2>2 DEF Writev, WritevError
  <2>4. n \in Nat /\ Len(wire') = Len(wire) + n /\ \A i \in 1..Len(wire) : wire'[i] = wire[i]
    BY <2>3, TakeStep
  <2>. QED
    BY <1>1, <2>4
<1>3. CASE \E frame \in Frames : SendFrame(frame) \/ RefuseFrame(frame)
  BY <1>1, <1>3 DEF SendFrame, RefuseFrame
<1>4. CASE NothingLeft \/ Writable \/ WaitFails \/ CloseSender
  BY <1>1, <1>4 DEF NothingLeft, Writable, WaitFails, CloseSender
<1>. QED
  BY <1>2, <1>3, <1>4 DEF SenderStep

\* For the widths LengthPrefixedFramer knows, try_acquire_frame() and
\* release_frame() hand out the frames it would cut from the bytes read.
THEOREM ChannelImplementsSource ==
  ASSUME PrefixWidth \in {1, 2, 4}
  PROVE  Spec => ImplementsFrameSource
<1>. DEFINE read == SubSeq(wire, 1, read_count)
<1>. DEFINE Held == /\ read \in Seq(Bytes) /\ Len(read) = read_count
                   /\ \A i \in 1..read_count : read[i] = wire[i]
<1>1. ASSUME IInv PROVE Source!Unread = stream_buffer
  BY <1>1, ReadBytes
<1>2. IInv => Held
  BY ReadBytes
<1>. HIDE DEF Held
<1>3. IInv' => Held'
  BY <1>2, PTL
<1>4. Init => Source!Init
  <2>. SUFFICES ASSUME Init PROVE Source!Init
    OBVIOUS
  <2>1. SubSeq(<< >>, 1, 0) = << >>
    OBVIOUS
  <2>. QED
    BY <2>1 DEF Init, Source!Init
<1>5. ASSUME IInv, Next
      PROVE  [Source!Next]_Source!vars
  <2>1. IInv'
    BY <1>5, NextIInv
  <2>2. /\ wire \in Seq(Bytes) /\ wire' \in Seq(Bytes) /\ read_count \in Nat
        /\ read_count <= Len(wire) /\ Len(wire) \in Nat /\ Len(wire') \in Nat
    <3>1. TypeOK /\ TypeOK'
      BY <1>5, <2>1 DEF IInv
    <3>2. wire \in Seq(Bytes) /\ wire' \in Seq(Bytes) /\ read_count \in 0..Len(wire)
      BY <3>1 DEF TypeOK
    <3>. QED
      BY <3>2
  <2>3. ASSUME UNCHANGED <<read_count, consumed, delivered>>, Len(wire) <= Len(wire'),
               \A i \in 1..Len(wire) : wire'[i] = wire[i]
        PROVE  UNCHANGED Source!vars
    <3>1. SubSeq(wire', 1, read_count) = SubSeq(wire, 1, read_count)
      BY <2>2, <2>3, CutOfFront
    <3>. QED
      BY <2>3, <3>1 DEF Source!vars
  <2>4. CASE SenderStep
    <3>1. UNCHANGED <<read_count, consumed, delivered>>
      <4>1. receiver' = receiver
        BY <2>4 DEF SenderStep, SendFrame, RefuseFrame, Writev, WritevError, NothingLeft, Writable,
           WaitFails, CloseSender
      <4>. QED
        BY <4>1 DEF receiver
    <3>2. Len(wire) <= Len(wire') /\ \A i \in 1..Len(wire) : wire'[i] = wire[i]
      BY <1>5, <2>4, WireGrows
    <3>. QED
      BY <2>3, <3>1, <3>2
  <2>5. CASE Acquire \/ RefuseLength \/ ReadNothing \/ ReadError
    <3>1. UNCHANGED <<read_count, consumed, delivered, wire>>
      BY <2>5 DEF Acquire, RefuseLength, ReadNothing, ReadError, sender
    <3>. QED
      BY <3>1 DEF Source!vars
  <2>6. ASSUME NEW n \in 1..ReadSize, ReadSome(n) PROVE Source!Arrive
    <3>1. /\ wire' = wire /\ read_count' = read_count + n /\ UNCHANGED <<consumed, delivered>>
          /\ n \in Nat
      BY <2>6, ChannelAssumption DEF ReadSome, sender
    <3>2. /\ read \in Seq(Bytes) /\ Len(read) = read_count
          /\ \A i \in 1..read_count : read[i] = wire[i]
          /\ read' \in Seq(Bytes) /\ Len(read') = read_count'
          /\ \A i \in 1..read_count' : read'[i] = wire'[i]
      BY <1>5, <2>1, <1>2, <1>3 DEF Held
    <3>. HIDE DEF read
    <3>3. SubSeq(read', 1, Len(read)) = SubSeq(read, 1, Len(read))
      <4>1. Len(read) <= Len(read') /\ (\A i \in 1..Len(read) : read'[i] = read[i])
            /\ Len(read) \in 0..Len(read)
        BY <2>2, <3>1, <3>2
      <4>. QED
        BY <3>2, <4>1, CutOfFront
    <3>4. SubSeq(read, 1, Len(read)) = read
      BY <3>2, SubSeqFull
    <3>5. /\ read' \in Seq(Source!Bytes) /\ Len(read) <= Len(read')
          /\ SubSeq(read', 1, Len(read)) = read
      BY <2>2, <3>1, <3>2, <3>3, <3>4 DEF Bytes, Source!Bytes
    <3>. QED
      BY <3>1, <3>5 DEF read, Source!Arrive
  <2>7. CASE Release
    <3>0. lease.valid
      BY <2>7 DEF Release
    <3>1. /\ lease.size \in 0..MaxFrameSize /\ lease.size \in Nat
          /\ lease.size = decode_little_endian(SubSeq(stream_buffer, 1, PrefixWidth))
          /\ PrefixWidth + lease.size <= Len(stream_buffer)
          /\ LeaseBytes = SubSeq(stream_buffer, PrefixWidth + 1, PrefixWidth + lease.size)
          /\ stream_buffer \in Seq(Bytes) /\ Len(stream_buffer) \in Nat /\ MaxFrameSize \in Nat
          /\ consumed \in Nat
      <4>1. /\ stream_buffer \in Seq(Bytes) /\ Len(stream_buffer) \in Nat /\ MaxFrameSize \in Nat
            /\ consumed \in Nat
        BY <1>5, ChannelAssumption DEF IInv, TypeOK
      <4>. QED
        BY <1>5, <3>0, <4>1, LeaseShows
    <3>2. /\ Len(stream_buffer) >= PrefixWidth /\ ~(lease.size > MaxFrameSize)
          /\ ~(Len(stream_buffer) < PrefixWidth + lease.size)
      BY <3>1
    <3>3. Source!try_frame(stream_buffer) =
            [status |-> "ready", offset |-> PrefixWidth, size |-> lease.size,
             bytes_consumed |-> PrefixWidth + lease.size]
      BY <3>1, <3>2, FramerIsChannel
    <3>4. Source!SliceOf(stream_buffer, Source!try_frame(stream_buffer)) = LeaseBytes
      BY <3>1, <3>3 DEF Source!SliceOf
    <3>5. /\ delivered' = Append(delivered, LeaseBytes)
          /\ consumed' = consumed + (PrefixWidth + lease.size)
          /\ UNCHANGED <<wire, read_count>>
      BY <2>7, <3>1 DEF Release, sender
    <3>6. Source!Unread = stream_buffer
      BY <1>1, <1>5
    <3>7. Source!Deliver
      BY <3>3, <3>4, <3>5, <3>6 DEF Source!Deliver
    <3>. QED
      BY <3>7 DEF Source!Next
  <2>. QED
    BY <1>5, <2>4, <2>5, <2>6, <2>7 DEF Next, ReceiverStep, Source!Next
<1>6. UNCHANGED vars => UNCHANGED Source!vars
  BY DEF vars, sender, receiver, Source!vars
<1>7. IInv /\ [Next]_vars => [Source!Next]_Source!vars
  BY <1>5, <1>6
<1>. QED
  BY <1>4, <1>7, Invariance, PTL DEF Spec, ImplementsFrameSource, Source!Spec

-----------------------------------------------------------------------------
(***************************************************************************)
(* The decoders of the Python and TypeScript runtimes, for every feed size.*)
(*                                                                         *)
(* The argument: what feed() scans is what was fed and not cut off yet,    *)
(* wherever the buffer keeps it, so the rest of the scan is what the       *)
(* framer has before it.  A decoder that raised out of a direct scan has   *)
(* lost bytes, and nothing but the types is claimed of it from then on.    *)
(***************************************************************************)

-----------------------------------------------------------------------------
(* The inductive invariant.                                                *)

\* Python's buffer ends where its bytes end; TypeScript's has room behind
\* them.
DecoderTypeOK ==
  /\ buffer \in Seq(Bytes) /\ write_offset \in 0..Len(buffer) /\ read_offset \in 0..write_offset
  /\ reader = "python" => write_offset = Len(buffer)
  /\ scan \in [at : {"idle", "data", "buffer"}, view : Seq(Bytes), offset : Nat,
               batch : Seq(Seq(Bytes))]
  /\ fed \in 0..Len(wire) /\ cut \in Nat
  /\ frames \in Seq(Seq(Bytes)) /\ raised \in {"no", "kept", "lost"}

\* A scan sees the whole buffer, or with an empty one the bytes received, and
\* what it cut off it counts.
ScanInv ==
  /\ scan.at = "idle" => scan = NoScan
  /\ scan.at = "data" => reader # "python" /\ read_offset = 0 /\ write_offset = 0
  /\ scan.at = "buffer" => scan.view = Buffered
  /\ scan.offset <= Len(scan.view) /\ scan.offset <= cut

\* What was fed and not cut off when the scan began is in the buffer, or in
\* the hands of the scan.
UnreadInv ==
  raised # "lost" =>
    /\ cut <= fed
    /\ scan.at # "idle" => scan.view = SubSeq(wire, cut - scan.offset + 1, fed)

DecoderInv == IInv /\ DecoderTypeOK /\ ScanInv /\ UnreadInv /\ DecoderKeepsUnread

-----------------------------------------------------------------------------
(* Where a buffer keeps its bytes.                                         *)

\* Two sequences that lie next to each other in a third.
LEMMA Window ==
  ASSUME NEW S, NEW p \in Seq(S), NEW t \in Seq(S), NEW u \in Seq(S), NEW c \in Nat,
         c + Len(p) + Len(t) <= Len(u),
         \A i \in 1..Len(p) : u[c + i] = p[i],
         \A i \in 1..Len(t) : u[c + Len(p) + i] = t[i]
  PROVE  SubSeq(u, c + 1, c + Len(p) + Len(t)) = p \o t
<1>. DEFINE d == c + Len(p) + Len(t)
            v == SubSeq(u, c + 1, d)
            w == p \o t
<1>1. d \in c..Len(u) /\ d - c = Len(p) + Len(t) /\ Len(p) \in Nat /\ Len(t) \in Nat
  OBVIOUS
<1>. HIDE DEF d
<1>2. /\ v \in Seq(S) /\ Len(v) = Len(p) + Len(t)
      /\ \A i \in 1..(Len(p) + Len(t)) : v[i] = u[c + i]
  BY <1>1, CutElements
<1>3. /\ w \in Seq(S) /\ Len(w) = Len(p) + Len(t)
      /\ \A i \in 1..(Len(p) + Len(t)) : w[i] = IF i <= Len(p) THEN p[i] ELSE t[i - Len(p)]
  BY ConcatProperties
<1>4. ASSUME NEW i \in 1..(Len(p) + Len(t)) PROVE u[c + i] = w[i]
  <2>1. CASE i <= Len(p)
    BY <1>1, <1>3, <2>1
  <2>2. CASE i > Len(p)
    <3>1. i - Len(p) \in 1..Len(t) /\ c + Len(p) + (i - Len(p)) = c + i
      BY <1>1, <2>2
    <3>2. u[c + i] = t[i - Len(p)]
      BY <3>1
    <3>. QED
      BY <1>1, <1>3, <2>2, <3>2
  <2>. QED
    BY <1>1, <2>1, <2>2
<1>. HIDE DEF v, w
<1>5. \A i \in 1..Len(v) : v[i] = w[i]
  BY <1>2, <1>4
<1>6. v = w
  BY <1>2, <1>3, <1>5, SeqEqual
<1>. QED
  BY <1>6 DEF v, w, d

\* What lies in a buffer after bytes were placed in it.
LEMMA PlacedBytes ==
  ASSUME NEW S, NEW s \in Seq(S), NEW t \in Seq(S), NEW at \in Nat, at + Len(t) <= Len(s)
  PROVE  /\ Placed(s, at, t) \in Seq(S) /\ Len(Placed(s, at, t)) = Len(s)
         /\ \A i \in 1..at : Placed(s, at, t)[i] = s[i]
         /\ \A i \in 1..Len(t) : Placed(s, at, t)[at + i] = t[i]
<1>. DEFINE p == SubSeq(s, 0 + 1, at)
            q == SubSeq(s, (at + Len(t)) + 1, Len(s))
            r == p \o t
<1>1. /\ 0 \in Nat /\ at \in 0..Len(s) /\ at + Len(t) \in Nat /\ Len(s) \in (at + Len(t))..Len(s)
      /\ Len(t) \in Nat /\ at - 0 = at
  OBVIOUS
<1>2. p \in Seq(S) /\ Len(p) = at /\ \A i \in 1..at : p[i] = s[0 + i]
  BY <1>1, CutElements
<1>3. q \in Seq(S) /\ Len(q) = Len(s) - (at + Len(t))
  BY <1>1, CutElements
<1>. HIDE DEF p, q
<1>4. /\ r \in Seq(S) /\ Len(r) = at + Len(t)
      /\ \A i \in 1..(at + Len(t)) : r[i] = IF i <= at THEN p[i] ELSE t[i - at]
  BY <1>2, ConcatProperties
<1>. HIDE DEF r
<1>5. /\ r \o q \in Seq(S) /\ Len(r \o q) = (at + Len(t)) + (Len(s) - (at + Len(t)))
      /\ \A i \in 1..(at + Len(t)) : (r \o q)[i] = r[i]
  <2>1. /\ r \o q \in Seq(S) /\ Len(r \o q) = Len(r) + Len(q)
        /\ \A i \in 1..(Len(r) + Len(q)) : (r \o q)[i] = IF i <= Len(r) THEN r[i] ELSE q[i - Len(r)]
    <3>1. r \in Seq(S) /\ q \in Seq(S)
      BY <1>3, <1>4
    <3>. QED
      BY <3>1, ConcatProperties
  <2>2. \A i \in 1..(at + Len(t)) : i \in 1..(Len(r) + Len(q)) /\ i <= Len(r)
    BY <1>1, <1>3, <1>4
  <2>3. \A i \in 1..(at + Len(t)) : (r \o q)[i] = r[i]
    BY <2>1, <2>2
  <2>. QED
    BY <1>3, <1>4, <2>1, <2>3
<1>6. Placed(s, at, t) = r \o q
  BY DEF Placed, p, q, r
<1>7. \A i \in 1..at : i \in 1..(at + Len(t)) /\ i <= at /\ 0 + i = i
  BY <1>1
<1>8. \A i \in 1..Len(t) : at + i \in 1..(at + Len(t)) /\ ~(at + i <= at) /\ (at + i) - at = i
  BY <1>1
<1>9. (at + Len(t)) + (Len(s) - (at + Len(t))) = Len(s)
  BY <1>1
<1>10. \A i \in 1..at : (r \o q)[i] = s[i]
  BY <1>2, <1>4, <1>5, <1>7
<1>11. \A i \in 1..Len(t) : (r \o q)[at + i] = t[i]
  BY <1>4, <1>5, <1>8
<1>. QED
  BY <1>5, <1>6, <1>9, <1>10, <1>11

\* The unread bytes of a buffer.
LEMMA BufferedBytes ==
  ASSUME DecoderTypeOK
  PROVE  /\ Buffered \in Seq(Bytes) /\ Len(Buffered) = write_offset - read_offset
         /\ \A i \in 1..(write_offset - read_offset) : Buffered[i] = buffer[read_offset + i]
<1>1. buffer \in Seq(Bytes) /\ read_offset \in Nat /\ write_offset \in read_offset..Len(buffer)
  BY DEF DecoderTypeOK
<1>. QED
  BY <1>1, CutElements DEF Buffered

\* A grown buffer begins with the unread bytes and has the room asked for.
LEMMA GrownBytes ==
  ASSUME DecoderTypeOK, NEW required \in Nat, Len(Buffered) <= required
  PROVE  /\ Grown(required) \in Seq(Bytes) /\ Len(Grown(required)) >= required
         /\ \A i \in 1..Len(Buffered) : Grown(required)[i] = Buffered[i]
<1>. DEFINE capacity == IF Len(buffer) >= required THEN Len(buffer)
                        ELSE IF 2 * Len(buffer) > required /\ Len(buffer) > 0
                             THEN 2 * Len(buffer) ELSE required
            room == [i \in 1..(capacity - Len(Buffered)) |-> 0]
<1>1. Buffered \in Seq(Bytes) /\ Len(Buffered) \in Nat /\ Len(buffer) \in Nat
  BY BufferedBytes DEF DecoderTypeOK
<1>2. capacity \in Nat /\ capacity >= required /\ capacity - Len(Buffered) \in Nat
  BY <1>1
<1>. HIDE DEF capacity
<1>3. room \in Seq(Bytes) /\ Len(room) = capacity - Len(Buffered)
  <2>1. 0 \in Bytes
    BY ChannelAssumption DEF Bytes
  <2>2. \A i \in 1..(capacity - Len(Buffered)) : 0 \in Bytes
    BY <2>1
  <2>3. room \in Seq(Bytes)
    BY <1>2, <2>2, IsASeq
  <2>. QED
    BY <1>2, <2>3
<1>. HIDE DEF room
<1>4. /\ Buffered \o room \in Seq(Bytes)
      /\ Len(Buffered \o room) = Len(Buffered) + (capacity - Len(Buffered))
      /\ \A i \in 1..Len(Buffered) : (Buffered \o room)[i] = Buffered[i]
  <2>1. \A i \in 1..Len(Buffered) : i \in 1..(Len(Buffered) + Len(room)) /\ i <= Len(Buffered)
    BY <1>1, <1>2, <1>3
  <2>. QED
    BY <1>1, <1>3, <2>1, ConcatProperties
<1>5. Grown(required) = Buffered \o room
  BY DEF Grown, room, capacity
<1>6. Len(Buffered) + (capacity - Len(Buffered)) >= required
  BY <1>1, <1>2
<1>. QED
  BY <1>4, <1>5, <1>6

-----------------------------------------------------------------------------
(* Appending.                                                              *)

\* A buffer that keeps these bytes, and is one the decoder can have.
Keeps(next, bytes) ==
  /\ next.buffer \in Seq(Bytes) /\ next.write \in 0..Len(next.buffer) /\ next.read \in 0..next.write
  /\ reader = "python" => next.write = Len(next.buffer)
  /\ SubSeq(next.buffer, next.read + 1, next.write) = bytes

LEMMA PythonAppendKeeps ==
  ASSUME DecoderTypeOK, reader = "python", NEW data \in Seq(Bytes)
  PROVE  Keeps(PythonAppend(data), Buffered \o data)
<1>1. /\ buffer \in Seq(Bytes) /\ Len(buffer) \in Nat /\ write_offset = Len(buffer)
      /\ read_offset \in 0..write_offset /\ read_offset \in Nat /\ Len(data) \in Nat
  BY DEF DecoderTypeOK
<1>2. /\ Buffered \in Seq(Bytes) /\ Len(Buffered) = write_offset - read_offset
      /\ \A i \in 1..(write_offset - read_offset) : Buffered[i] = buffer[read_offset + i]
  BY BufferedBytes
<1>3. CASE read_offset > 0 /\ read_offset * 2 >= Len(buffer)
  <2>. DEFINE joined == Buffered \o data
  <2>1. joined \in Seq(Bytes) /\ Len(joined) \in Nat
    <3>1. joined \in Seq(Bytes)
      BY <1>2, ConcatProperties
    <3>. QED
      BY <3>1
  <2>. HIDE DEF joined
  <2>2. SubSeq(joined, 0 + 1, Len(joined)) = joined
    <3>1. 0 + 1 = 1
      OBVIOUS
    <3>. QED
      BY <2>1, <3>1, SubSeqFull
  <2>3. PythonAppend(data) = [buffer |-> joined, read |-> 0, write |-> Len(joined)]
    BY <1>3 DEF PythonAppend, joined
  <2>4. Keeps([buffer |-> joined, read |-> 0, write |-> Len(joined)], joined)
    BY <2>1, <2>2 DEF Keeps
  <2>. QED
    BY <2>3, <2>4 DEF joined
<1>4. CASE ~(read_offset > 0 /\ read_offset * 2 >= Len(buffer))
  <2>. DEFINE joined == buffer \o data
  <2>1. /\ joined \in Seq(Bytes) /\ Len(joined) = Len(buffer) + Len(data)
        /\ \A i \in 1..(Len(buffer) + Len(data)) :
             joined[i] = IF i <= Len(buffer) THEN buffer[i] ELSE data[i - Len(buffer)]
    BY <1>1, ConcatProperties
  <2>. HIDE DEF joined
  <2>2. \A i \in 1..Len(Buffered) : joined[read_offset + i] = Buffered[i]
    <3>1. \A i \in 1..Len(Buffered) :
            /\ read_offset + i \in 1..(Len(buffer) + Len(data)) /\ read_offset + i <= Len(buffer)
            /\ i \in 1..(write_offset - read_offset)
      BY <1>1, <1>2
    <3>. QED
      BY <1>2, <2>1, <3>1
  <2>3. \A i \in 1..Len(data) : joined[read_offset + Len(Buffered) + i] = data[i]
    <3>1. \A i \in 1..Len(data) :
            /\ read_offset + Len(Buffered) + i = Len(buffer) + i
            /\ Len(buffer) + i \in 1..(Len(buffer) + Len(data)) /\ ~(Len(buffer) + i <= Len(buffer))
            /\ (Len(buffer) + i) - Len(buffer) = i
      BY <1>1, <1>2
    <3>. QED
      BY <2>1, <3>1
  <2>4. /\ read_offset + Len(Buffered) + Len(data) = write_offset + Len(data)
        /\ write_offset + Len(data) = Len(joined)
        /\ read_offset + Len(Buffered) + Len(data) <= Len(joined)
        /\ write_offset + Len(data) \in 0..Len(joined)
        /\ read_offset \in 0..(write_offset + Len(data))
    BY <1>1, <1>2, <2>1
  <2>5. SubSeq(joined, read_offset + 1, read_offset + Len(Buffered) + Len(data)) = Buffered \o data
    BY <1>1, <1>2, <2>1, <2>2, <2>3, <2>4, Window
  <2>6. PythonAppend(data) =
          [buffer |-> joined, read |-> read_offset, write |-> write_offset + Len(data)]
    BY <1>4 DEF PythonAppend, joined
  <2>7. Keeps([buffer |-> joined, read |-> read_offset, write |-> write_offset + Len(data)],
              Buffered \o data)
    BY <2>1, <2>4, <2>5 DEF Keeps
  <2>. QED
    BY <2>6, <2>7
<1>. QED
  BY <1>3, <1>4

LEMMA TypeScriptAppendKeeps ==
  ASSUME DecoderTypeOK, reader # "python", NEW data \in Seq(Bytes)
  PROVE  Keeps(TypeScriptAppend(read_offset, write_offset, data), Buffered \o data)
<1>1. /\ buffer \in Seq(Bytes) /\ Len(buffer) \in Nat /\ write_offset \in 0..Len(buffer)
      /\ write_offset \in Nat /\ read_offset \in 0..write_offset /\ read_offset \in Nat
      /\ Len(data) \in Nat
  BY DEF DecoderTypeOK
<1>2. /\ Buffered \in Seq(Bytes) /\ Len(Buffered) = write_offset - read_offset
      /\ \A i \in 1..(write_offset - read_offset) : Buffered[i] = buffer[read_offset + i]
  BY BufferedBytes
<1>. DEFINE rest == write_offset - read_offset
            required == rest + Len(data)
            moved == IF read_offset > 0 /\ Len(buffer) >= required
                     THEN Placed(buffer, 0, Buffered) ELSE Grown(required)
<1>3. rest \in Nat /\ required \in Nat /\ Len(Buffered) = rest /\ rest <= required
      /\ rest <= Len(buffer)
  BY <1>1, <1>2
<1>4. CASE Len(data) = 0
  <2>1. data = << >>
    BY <1>4
  <2>2. Buffered \o data = Buffered
    BY <1>2, <2>1, ConcatEmptySeq
  <2>3. TypeScriptAppend(read_offset, write_offset, data) =
          [buffer |-> buffer, read |-> read_offset, write |-> write_offset]
    BY <1>4 DEF TypeScriptAppend
  <2>4. Keeps([buffer |-> buffer, read |-> read_offset, write |-> write_offset], Buffered)
    BY <1>1 DEF Keeps, Buffered
  <2>. QED
    BY <2>2, <2>3, <2>4
<1>5. CASE Len(data) # 0 /\ Len(buffer) - write_offset < Len(data)
  <2>1. /\ moved \in Seq(Bytes) /\ Len(moved) >= required
        /\ \A i \in 1..rest : moved[i] = Buffered[i]
    <3>1. CASE read_offset > 0 /\ Len(buffer) >= required
      <4>1. 0 \in Nat /\ 0 + Len(Buffered) <= Len(buffer)
        BY <1>1, <1>3
      <4>2. /\ Placed(buffer, 0, Buffered) \in Seq(Bytes)
            /\ Len(Placed(buffer, 0, Buffered)) = Len(buffer)
            /\ \A i \in 1..Len(Buffered) : Placed(buffer, 0, Buffered)[0 + i] = Buffered[i]
        BY <1>1, <1>2, <4>1, PlacedBytes
      <4>3. \A i \in 1..rest : 0 + i = i
        BY <1>3
      <4>. QED
        BY <1>3, <3>1, <4>2, <4>3
    <3>2. CASE ~(read_offset > 0 /\ Len(buffer) >= required)
      BY <1>3, <3>2, GrownBytes
    <3>. QED
      BY <3>1, <3>2
  <2>. DEFINE placed == Placed(moved, rest, data)
  <2>2. TypeScriptAppend(read_offset, write_offset, data) =
          [buffer |-> placed, read |-> 0, write |-> required]
    BY <1>5 DEF TypeScriptAppend
  <2>. HIDE DEF moved, rest
  <2>3. rest + Len(data) <= Len(moved) /\ Len(moved) \in Nat
    BY <2>1
  <2>4. /\ placed \in Seq(Bytes) /\ Len(placed) = Len(moved)
        /\ \A i \in 1..rest : placed[i] = moved[i]
        /\ \A i \in 1..Len(data) : placed[rest + i] = data[i]
    <3>1. moved \in Seq(Bytes) /\ data \in Seq(Bytes) /\ rest \in Nat
      BY <1>3, <2>1
    <3>. HIDE DEF required, placed
    <3>2. /\ Placed(moved, rest, data) \in Seq(Bytes)
          /\ Len(Placed(moved, rest, data)) = Len(moved)
          /\ \A i \in 1..rest : Placed(moved, rest, data)[i] = moved[i]
          /\ \A i \in 1..Len(data) : Placed(moved, rest, data)[rest + i] = data[i]
      BY ONLY <2>3, <3>1, PlacedBytes
    <3>. QED
      BY <3>2 DEF placed
  <2>. HIDE DEF placed
  <2>5. SubSeq(placed, 0 + 1, 0 + Len(Buffered) + Len(data)) = Buffered \o data
    <3>1. \A i \in 1..Len(Buffered) : placed[0 + i] = Buffered[i]
      <4>1. \A i \in 1..Len(Buffered) : 0 + i = i /\ i \in 1..rest
        BY <1>3
      <4>. QED
        BY <2>1, <2>4, <4>1
    <3>2. \A i \in 1..Len(data) : placed[0 + Len(Buffered) + i] = data[i]
      <4>1. \A i \in 1..Len(data) : 0 + Len(Buffered) + i = rest + i
        BY <1>3
      <4>. QED
        BY <2>4, <4>1
    <3>3. 0 \in Nat /\ 0 + Len(Buffered) + Len(data) <= Len(placed)
      BY <1>1, <1>3, <2>3, <2>4
    <3>. QED
      BY <1>2, <2>4, <3>1, <3>2, <3>3, Window
  <2>6. 0 + Len(Buffered) + Len(data) = required
    BY <1>1, <1>3
  <2>7. required \in 0..Len(placed) /\ 0 \in 0..required
    BY <1>3, <2>1, <2>3, <2>4
  <2>. HIDE DEF required
  <2>8. Keeps([buffer |-> placed, read |-> 0, write |-> required], Buffered \o data)
    BY <2>4, <2>5, <2>6, <2>7 DEF Keeps
  <2>. QED
    BY <2>2, <2>8
<1>6. CASE Len(data) # 0 /\ ~(Len(buffer) - write_offset < Len(data))
  <2>. DEFINE placed == Placed(buffer, write_offset, data)
              end == write_offset + Len(data)
  <2>1. TypeScriptAppend(read_offset, write_offset, data) =
          [buffer |-> placed, read |-> read_offset, write |-> end]
    BY <1>6 DEF TypeScriptAppend
  <2>2. write_offset + Len(data) <= Len(buffer)
    BY <1>1, <1>6
  <2>3. /\ placed \in Seq(Bytes) /\ Len(placed) = Len(buffer)
        /\ \A i \in 1..write_offset : placed[i] = buffer[i]
        /\ \A i \in 1..Len(data) : placed[write_offset + i] = data[i]
    BY <1>1, <2>2, PlacedBytes
  <2>. HIDE DEF placed
  <2>4. SubSeq(placed, read_offset + 1, read_offset + Len(Buffered) + Len(data)) = Buffered \o data
    <3>1. \A i \in 1..Len(Buffered) : placed[read_offset + i] = Buffered[i]
      <4>1. \A i \in 1..Len(Buffered) :
              i \in 1..(write_offset - read_offset) /\ read_offset + i \in 1..write_offset
        BY <1>1, <1>2
      <4>. QED
        BY <1>2, <2>3, <4>1
    <3>2. \A i \in 1..Len(data) : placed[read_offset + Len(Buffered) + i] = data[i]
      <4>1. \A i \in 1..Len(data) : read_offset + Len(Buffered) + i = write_offset + i
        BY <1>1, <1>2
      <4>. QED
        BY <2>3, <4>1
    <3>3. read_offset + Len(Buffered) + Len(data) <= Len(placed)
      BY <1>1, <1>2, <2>2, <2>3
    <3>. QED
      BY <1>1, <1>2, <2>3, <3>1, <3>2, <3>3, Window
  <2>5. /\ read_offset + Len(Buffered) + Len(data) = end /\ end \in 0..Len(placed)
        /\ read_offset \in 0..end
    BY <1>1, <1>2, <2>2, <2>3
  <2>. HIDE DEF end
  <2>6. Keeps([buffer |-> placed, read |-> read_offset, write |-> end], Buffered \o data)
    BY <2>3, <2>4, <2>5 DEF Keeps
  <2>. QED
    BY <2>1, <2>6
<1>. QED
  BY <1>4, <1>5, <1>6

LEMMA AppendKeeps ==
  ASSUME DecoderTypeOK, NEW data \in Seq(Bytes)
  PROVE  Keeps(Append_(data), Buffered \o data)
BY PythonAppendKeeps, TypeScriptAppendKeeps DEF Append_

-----------------------------------------------------------------------------
(* The scan.                                                               *)

\* A frame that try_read_frame() finds lies at the front of its bytes.
LEMMA TryReadFrame ==
  ASSUME NEW bytes \in Seq(Bytes)
  PROVE  LET size  == decode_little_endian(SubSeq(bytes, 1, PrefixWidth))
             found == try_read_frame(bytes)
         IN  /\ found.kind \in {"none", "oversize", "frame"}
             /\ found.kind = "frame" =>
                  /\ Len(bytes) >= PrefixWidth /\ size <= MaxFrameSize
                  /\ found.total = PrefixWidth + size
                  /\ found.total \in Nat /\ found.total <= Len(bytes)
                  /\ found.payload = SubSeq(bytes, PrefixWidth + 1, PrefixWidth + size)
                  /\ found.payload \in Seq(Bytes)
<1>. DEFINE size == decode_little_endian(SubSeq(bytes, 1, PrefixWidth))
            total == PrefixWidth + size
            found == try_read_frame(bytes)
<1>1. PrefixWidth \in Nat /\ Len(bytes) \in Nat /\ MaxFrameSize \in Nat
  BY ChannelAssumption
<1>2. found = IF Len(bytes) < PrefixWidth THEN [kind |-> "none"]
              ELSE IF size > MaxFrameSize THEN [kind |-> "oversize"]
              ELSE IF Len(bytes) < total THEN [kind |-> "none"]
              ELSE [kind |-> "frame", payload |-> SubSeq(bytes, PrefixWidth + 1, total),
                    total |-> total]
  BY DEF try_read_frame
<1>3. ASSUME Len(bytes) >= PrefixWidth PROVE size \in Nat
  <2>1. 0 \in Nat /\ PrefixWidth \in 0..Len(bytes) /\ 0 + 1 = 1
    BY <1>1, <1>3
  <2>2. SubSeq(bytes, 0 + 1, PrefixWidth) \in Seq(Bytes)
    BY <2>1, CutElements
  <2>. QED
    BY <2>1, <2>2, DecodeType
<1>. HIDE DEF found, size
<1>4. CASE Len(bytes) < PrefixWidth \/ size > MaxFrameSize \/ Len(bytes) < total
  <2>1. found.kind \in {"none", "oversize"}
    BY <1>2, <1>4
  <2>. QED
    BY <2>1 DEF found, size
<1>5. CASE ~(Len(bytes) < PrefixWidth \/ size > MaxFrameSize \/ Len(bytes) < total)
  <2>1. size \in Nat /\ total \in Nat /\ total \in PrefixWidth..Len(bytes)
    BY <1>1, <1>3, <1>5
  <2>2. found = [kind |-> "frame", payload |-> SubSeq(bytes, PrefixWidth + 1, total),
                 total |-> total]
    BY <1>2, <1>5
  <2>3. SubSeq(bytes, PrefixWidth + 1, total) \in Seq(Bytes)
    BY <1>1, <2>1, CutElements
  <2>4. Len(bytes) >= PrefixWidth /\ size <= MaxFrameSize
    BY <1>1, <1>5, <2>1
  <2>5. /\ found.kind = "frame" /\ found.total = total
        /\ found.payload = SubSeq(bytes, PrefixWidth + 1, total)
    BY <2>2
  <2>. QED
    BY <2>1, <2>3, <2>4, <2>5 DEF found, size
<1>. QED
  BY <1>4, <1>5

\* What a scan has yet to look at.
LEMMA RestBytes ==
  ASSUME DecoderTypeOK, ScanInv
  PROVE  Rest \in Seq(Bytes) /\ Len(Rest) = Len(scan.view) - scan.offset
<1>1. scan.view \in Seq(Bytes) /\ scan.offset \in Nat
  BY DEF DecoderTypeOK
<1>2. Len(scan.view) \in scan.offset..Len(scan.view)
  BY <1>1 DEF ScanInv
<1>. QED
  BY <1>1, <1>2, CutElements DEF Rest

\* It is what was fed and not cut off.
LEMMA RestIsUnread ==
  ASSUME IInv, DecoderTypeOK, ScanInv, UnreadInv, Scanning, raised # "lost"
  PROVE  Rest = SubSeq(wire, cut + 1, fed)
<1>1. /\ wire \in Seq(Bytes) /\ fed \in 0..Len(wire) /\ cut \in Nat /\ cut <= fed
      /\ scan.offset \in Nat /\ scan.offset <= cut /\ scan.offset <= Len(scan.view)
      /\ scan.view = SubSeq(wire, cut - scan.offset + 1, fed)
  BY DEF IInv, TypeOK, DecoderTypeOK, ScanInv, UnreadInv, Scanning
<1>. DEFINE done == scan.offset
            a == cut - done
<1>2. done \in Nat /\ done <= cut /\ Len(wire) \in Nat /\ fed \in Nat /\ fed <= Len(wire)
  BY <1>1
<1>3. scan.view = SubSeq(wire, a + 1, fed)
  BY <1>1
<1>. HIDE DEF done
<1>4. a \in Nat /\ fed \in a..Len(wire) /\ done \in 0..(fed - a) /\ a + done = cut
  BY <1>1, <1>2
<1>. HIDE DEF a
<1>5. Len(SubSeq(wire, a + 1, fed)) = fed - a
  BY <1>1, <1>4, CutElements
<1>6. SubSeq(SubSeq(wire, a + 1, fed), done + 1, fed - a) = SubSeq(wire, a + done + 1, fed)
  BY <1>1, <1>4, CutOfCut
<1>7. Rest = SubSeq(scan.view, done + 1, Len(scan.view))
  BY DEF Rest, done
<1>. QED
  BY <1>3, <1>4, <1>5, <1>6, <1>7

-----------------------------------------------------------------------------
(* The invariant holds in the initial states.                              *)

LEMMA DecoderInit_ == DecoderInit => DecoderInv
<1>. SUFFICES ASSUME DecoderInit PROVE DecoderInv
  OBVIOUS
<1>1. /\ Init /\ buffer = << >> /\ read_offset = 0 /\ write_offset = 0
      /\ scan = NoScan /\ fed = 0 /\ frames = << >> /\ cut = 0 /\ raised = "no"
  BY DEF DecoderInit
<1>2. wire = << >>
  BY <1>1 DEF Init
<1>3. /\ Len(<< >>) = 0 /\ << >> \in Seq(Bytes) /\ << >> \in Seq(Seq(Bytes))
      /\ SubSeq(<< >>, 1, 0) = << >>
  BY EmptySeq
<1>4. DecoderTypeOK
  BY <1>1, <1>2, <1>3 DEF DecoderTypeOK, NoScan
<1>5. ScanInv
  BY <1>1, <1>3 DEF ScanInv, NoScan
<1>6. UnreadInv
  BY <1>1 DEF UnreadInv, NoScan
<1>7. DecoderKeepsUnread
  <2>1. try_read_frame(<< >>).kind = "none"
    BY <1>3, ChannelAssumption DEF try_read_frame
  <2>2. SubSeq(<< >>, 0 + 1, 0) = << >>
    BY <1>3
  <2>3. Buffered = << >> /\ SubSeq(wire, cut + 1, fed) = << >>
    BY <1>1, <1>2, <2>2 DEF Buffered
  <2>. QED
    BY <2>1, <2>3 DEF DecoderKeepsUnread
<1>. QED
  BY <1>1, <1>4, <1>5, <1>6, <1>7, InitIInv DEF DecoderInv

-----------------------------------------------------------------------------
(* The steps of the two sides of the channel.                              *)

\* A step of the decoder is none of the channel.
LEMMA DecoderStutters == ASSUME DecoderStep PROVE UNCHANGED vars
BY DEF DecoderStep, ScanFrame, FeedReturns, FeedRaises, Feed

\* What was read from the wire stays there.
LEMMA WireKeepsFed ==
  ASSUME IInv, IInv', SenderStep \/ ReceiverStep,
         NEW a \in Nat \ {0}, NEW b \in 0..Len(wire)
  PROVE  SubSeq(wire', a, b) = SubSeq(wire, a, b) /\ Len(wire) <= Len(wire')
<1>1. wire \in Seq(Bytes) /\ wire' \in Seq(Bytes)
  <2>1. TypeOK /\ TypeOK'
    BY DEF IInv
  <2>. QED
    BY <2>1 DEF TypeOK
<1>2. Len(wire) <= Len(wire') /\ \A i \in 1..Len(wire) : wire'[i] = wire[i]
  <2>1. CASE SenderStep
    BY <2>1, WireGrows
  <2>2. CASE ReceiverStep
    <3>1. wire' = wire
      BY <2>2 DEF ReceiverStep, Acquire, RefuseLength, ReadNothing, ReadError, Release, ReadSome,
         sender
    <3>. QED
      BY <1>1, <3>1
  <2>. QED
    BY <2>1, <2>2
<1>. QED
  BY <1>1, <1>2, CutOfFront

LEMMA ChannelKeepsDecoder ==
  ASSUME DecoderInv, SenderStep \/ ReceiverStep, UNCHANGED <<reader, decoder>>
  PROVE  DecoderInv'
<1>1. IInv /\ IInv'
  BY NextIInv DEF Next, DecoderInv
<1>2. UNCHANGED <<reader, buffer, read_offset, write_offset, scan, fed, frames, cut, raised>>
  BY DEF decoder
<1>3. wire \in Seq(Bytes) /\ fed \in 0..Len(wire) /\ cut \in Nat /\ scan.offset \in Nat
      /\ scan.offset <= cut
  BY <1>1 DEF IInv, TypeOK, DecoderInv, DecoderTypeOK, ScanInv
<1>4. /\ SubSeq(wire', cut + 1, fed) = SubSeq(wire, cut + 1, fed)
      /\ SubSeq(wire', cut - scan.offset + 1, fed) = SubSeq(wire, cut - scan.offset + 1, fed)
      /\ Len(wire) <= Len(wire')
  <2>1. cut + 1 \in Nat \ {0} /\ cut - scan.offset + 1 \in Nat \ {0}
    BY <1>3
  <2>. QED
    BY <1>1, <1>3, <2>1, WireKeepsFed
<1>5. fed \in 0..Len(wire')
  <2>1. Len(wire') \in Nat
    <3>1. TypeOK'
      BY <1>1 DEF IInv
    <3>. QED
      BY <3>1 DEF TypeOK
  <2>. QED
    BY <1>3, <1>4, <2>1
<1>6. DecoderTypeOK'
  BY <1>2, <1>5 DEF DecoderInv, DecoderTypeOK
<1>7. ScanInv'
  BY <1>2 DEF DecoderInv, ScanInv, Buffered
<1>8. UnreadInv'
  BY <1>2, <1>4 DEF DecoderInv, UnreadInv
<1>9. DecoderKeepsUnread'
  BY <1>2, <1>4 DEF DecoderInv, DecoderKeepsUnread, Buffered
<1>. QED
  BY <1>1, <1>6, <1>7, <1>8, <1>9 DEF DecoderInv

-----------------------------------------------------------------------------
(* The steps of feed().                                                    *)

\* Where feed() starts its scan, the bytes are joined to those before.
LEMMA FedBytes ==
  ASSUME DecoderInv, NEW n \in Nat, fed + n <= Len(wire)
  PROVE  LET data == SubSeq(wire, fed + 1, fed + n)
         IN  /\ data \in Seq(Bytes) /\ fed + n \in 0..Len(wire)
             /\ raised # "lost" =>
                  SubSeq(wire, cut + 1, fed) \o data = SubSeq(wire, cut + 1, fed + n)
<1>. DEFINE data == SubSeq(wire, fed + 1, fed + n)
<1>1. wire \in Seq(Bytes) /\ Len(wire) \in Nat /\ fed \in Nat /\ fed <= Len(wire) /\ cut \in Nat
  BY DEF DecoderInv, IInv, TypeOK, DecoderTypeOK
<1>2. data \in Seq(Bytes)
  <2>1. fed + n \in fed..Len(wire)
    BY <1>1
  <2>. QED
    BY <1>1, <2>1, CutElements
<1>3. ASSUME raised # "lost"
      PROVE  SubSeq(wire, cut + 1, fed) \o data = SubSeq(wire, cut + 1, fed + n)
  <2>1. cut <= fed
    BY <1>3 DEF DecoderInv, UnreadInv
  <2>2. /\ cut + 1 \in 1..(Len(wire) + 1) /\ fed \in ((cut + 1) - 1)..Len(wire)
        /\ fed + n \in fed..Len(wire)
    BY <1>1, <2>1
  <2>. QED
    BY <1>1, <2>2, ConcatAdjacentSubSeq
<1>. QED
  BY <1>1, <1>2, <1>3

LEMMA FeedStep == ASSUME DecoderInv, NEW n \in 0..FeedSize, Feed(n) PROVE DecoderInv'
<1>. DEFINE data == SubSeq(wire, fed + 1, fed + n)
            next == Append_(data)
<1>1. /\ scan.at = "idle" /\ fed + n <= Len(wire) /\ fed' = fed + n /\ n \in Nat
      /\ UNCHANGED <<frames, cut, raised, reader>> /\ UNCHANGED vars
  BY DecoderAssumption DEF Feed
<1>2. wire' = wire /\ IInv'
  BY <1>1, NextIInv DEF DecoderInv, vars, sender
<1>3. /\ data \in Seq(Bytes) /\ fed + n \in 0..Len(wire)
      /\ raised # "lost" => SubSeq(wire, cut + 1, fed) \o data = SubSeq(wire, cut + 1, fed + n)
  BY <1>1, FedBytes
<1>4. /\ DecoderTypeOK /\ buffer \in Seq(Bytes) /\ Len(buffer) \in Nat /\ cut \in Nat
      /\ frames \in Seq(Seq(Bytes)) /\ raised \in {"no", "kept", "lost"}
      /\ fed \in Nat /\ << >> \in Seq(Seq(Bytes))
  BY EmptySeq DEF DecoderInv, DecoderTypeOK
<1>5. raised # "lost" => Buffered = SubSeq(wire, cut + 1, fed) /\ cut <= fed
  BY <1>1 DEF DecoderInv, DecoderKeepsUnread, UnreadInv
<1>6. raised' # "lost" => cut' <= fed'
  BY <1>1, <1>4, <1>5
<1>7. CASE Direct
  <2>1. /\ reader = "typescript" /\ read_offset = write_offset
        /\ buffer' = buffer /\ read_offset' = 0 /\ write_offset' = 0
        /\ scan' = [NoScan EXCEPT !.at = "data", !.view = data]
    BY <1>7 DEF Feed, Direct, SetBuffer
  <2>2. scan' = [at |-> "data", view |-> data, offset |-> 0, batch |-> << >>]
    BY <2>1 DEF NoScan
  <2>3. raised # "lost" => data = SubSeq(wire, cut + 1, fed + n)
    <3>1. Buffered = << >>
      <4>1. Buffered \in Seq(Bytes) /\ Len(Buffered) = 0
        BY <1>4, <2>1, BufferedBytes DEF DecoderTypeOK
      <4>. QED
        BY <4>1
    <3>2. << >> \o data = data
      BY <1>3, ConcatEmptySeq
    <3>. QED
      BY <1>3, <1>5, <3>1, <3>2
  <2>. HIDE DEF data
  <2>4. DecoderTypeOK'
    <3>1. scan' \in [at : {"idle", "data", "buffer"}, view : Seq(Bytes), offset : Nat,
                     batch : Seq(Seq(Bytes))]
      BY <1>3, <1>4, <2>2
    <3>2. /\ buffer' \in Seq(Bytes) /\ write_offset' \in 0..Len(buffer')
          /\ read_offset' \in 0..write_offset'
      BY <1>4, <2>1
    <3>3. fed' \in 0..Len(wire') /\ reader' # "python"
      BY <1>1, <1>2, <1>3, <2>1
    <3>. QED
      BY <1>1, <1>4, <3>1, <3>2, <3>3 DEF DecoderTypeOK
  <2>5. ScanInv'
    <3>1. scan'.at = "data" /\ scan'.view = data /\ scan'.offset = 0 /\ Len(data) \in Nat
      BY <1>3, <2>2
    <3>. QED
      BY <1>1, <1>4, <2>1, <3>1 DEF ScanInv
  <2>6. UnreadInv'
    <3>1. scan'.at = "data" /\ scan'.view = data /\ scan'.offset = 0 /\ cut - 0 + 1 = cut + 1
      BY <1>4, <2>2
    <3>. QED
      BY <1>1, <1>2, <1>6, <2>3, <3>1 DEF UnreadInv
  <2>7. DecoderKeepsUnread'
    BY <2>2 DEF DecoderKeepsUnread
  <2>. QED
    BY <1>2, <2>4, <2>5, <2>6, <2>7 DEF DecoderInv
<1>8. CASE ~Direct
  <2>1. /\ buffer' = next.buffer /\ read_offset' = next.read /\ write_offset' = next.write
        /\ scan' = [NoScan EXCEPT !.at = "buffer",
                       !.view = SubSeq(next.buffer, next.read + 1, next.write)]
    BY <1>8 DEF Feed, SetBuffer
  <2>2. Keeps(next, Buffered \o data)
    BY <1>3, <1>4, AppendKeeps
  <2>. HIDE DEF next
  <2>3. /\ buffer' \in Seq(Bytes) /\ write_offset' \in 0..Len(buffer')
        /\ read_offset' \in 0..write_offset'
        /\ reader = "python" => write_offset' = Len(buffer')
        /\ SubSeq(buffer', read_offset' + 1, write_offset') = Buffered \o data
    BY <2>1, <2>2 DEF Keeps
  <2>. DEFINE joined == Buffered \o data
  <2>4. joined \in Seq(Bytes) /\ Len(joined) \in Nat
    <3>1. Buffered \in Seq(Bytes)
      BY <1>4, BufferedBytes
    <3>2. joined \in Seq(Bytes)
      BY <1>3, <3>1, ConcatProperties
    <3>. QED
      BY <3>2
  <2>5. raised # "lost" => joined = SubSeq(wire, cut + 1, fed + n)
    BY <1>3, <1>5
  <2>6. SubSeq(next.buffer, next.read + 1, next.write) = joined /\ Buffered' = joined
    BY <2>1, <2>3 DEF Buffered
  <2>. HIDE DEF joined
  <2>7. scan' = [at |-> "buffer", view |-> joined, offset |-> 0, batch |-> << >>]
    BY <2>1, <2>6 DEF NoScan
  <2>8. DecoderTypeOK'
    <3>1. scan' \in [at : {"idle", "data", "buffer"}, view : Seq(Bytes), offset : Nat,
                     batch : Seq(Seq(Bytes))]
      BY <1>4, <2>4, <2>7
    <3>2. fed' \in 0..Len(wire')
      BY <1>1, <1>2, <1>3
    <3>. QED
      BY <1>1, <1>4, <2>3, <3>1, <3>2 DEF DecoderTypeOK
  <2>9. ScanInv'
    <3>1. scan'.at = "buffer" /\ scan'.view = joined /\ scan'.offset = 0
      BY <2>7
    <3>. QED
      BY <1>1, <1>4, <2>4, <2>6, <3>1 DEF ScanInv
  <2>10. UnreadInv'
    <3>1. scan'.at = "buffer" /\ scan'.view = joined /\ scan'.offset = 0 /\ cut - 0 + 1 = cut + 1
      BY <1>4, <2>7
    <3>. QED
      BY <1>1, <1>2, <1>6, <2>5, <3>1 DEF UnreadInv
  <2>11. DecoderKeepsUnread'
    BY <2>7 DEF DecoderKeepsUnread
  <2>. QED
    BY <1>2, <2>8, <2>9, <2>10, <2>11 DEF DecoderInv
<1>. QED
  BY <1>7, <1>8

LEMMA ScanFrameStep == ASSUME DecoderInv, ScanFrame PROVE DecoderInv'
<1>1. /\ Scanning /\ Seen.kind = "frame" /\ cut' = cut + Seen.total
      /\ scan' = [scan EXCEPT !.batch = Append(@, Seen.payload), !.offset = @ + Seen.total]
      /\ UNCHANGED <<buffer, read_offset, write_offset, fed, frames, raised, reader>>
      /\ UNCHANGED vars
  BY DEF ScanFrame
<1>2. wire' = wire /\ IInv'
  BY <1>1, NextIInv DEF DecoderInv, vars, sender
<1>3. /\ DecoderTypeOK /\ ScanInv /\ IInv /\ wire \in Seq(Bytes) /\ Len(wire) \in Nat
      /\ scan \in [at : {"idle", "data", "buffer"}, view : Seq(Bytes), offset : Nat,
                   batch : Seq(Seq(Bytes))]
      /\ cut \in Nat /\ fed \in 0..Len(wire) /\ scan.offset <= cut
  BY DEF DecoderInv, IInv, TypeOK, DecoderTypeOK, ScanInv
<1>4. Rest \in Seq(Bytes) /\ Len(Rest) = Len(scan.view) - scan.offset
  BY <1>3, RestBytes
<1>. DEFINE total == Seen.total
            payload == Seen.payload
<1>5. total \in Nat /\ total <= Len(Rest) /\ payload \in Seq(Bytes)
  BY <1>1, <1>4, TryReadFrame DEF Seen
<1>6. scan' = [scan EXCEPT !.batch = Append(@, payload), !.offset = @ + total] /\ cut' = cut + total
  BY <1>1
<1>. HIDE DEF total, payload
<1>7. scan.batch \in Seq(Seq(Bytes)) /\ scan.offset \in Nat /\ Len(scan.view) \in Nat
  BY <1>3
<1>8. Append(scan.batch, payload) \in Seq(Seq(Bytes))
  BY <1>5, <1>7, AppendProperties
<1>9. /\ scan'.at = scan.at /\ scan'.view = scan.view /\ scan'.offset = scan.offset + total
      /\ scan' \in [at : {"idle", "data", "buffer"}, view : Seq(Bytes), offset : Nat,
                    batch : Seq(Seq(Bytes))]
  <2>1. scan = [at |-> scan.at, view |-> scan.view, offset |-> scan.offset, batch |-> scan.batch]
    BY <1>3
  <2>2. scan' = [at |-> scan.at, view |-> scan.view, offset |-> scan.offset + total,
                 batch |-> Append(scan.batch, payload)]
    BY <1>6, <2>1
  <2>3. scan.at \in {"idle", "data", "buffer"} /\ scan.view \in Seq(Bytes)
        /\ scan.offset + total \in Nat
    BY <1>3, <1>5, <1>7
  <2>. QED
    BY <1>8, <2>2, <2>3
<1>10. scan'.offset <= Len(scan'.view) /\ scan'.offset <= cut'
  BY <1>3, <1>4, <1>5, <1>6, <1>7, <1>9, SMTT(30)
<1>11. DecoderTypeOK'
  BY <1>1, <1>2, <1>3, <1>5, <1>6, <1>9, SMTT(30) DEF DecoderTypeOK
<1>12. ScanInv'
  BY <1>1, <1>9, <1>10 DEF DecoderInv, ScanInv, Scanning, Buffered
<1>13. UnreadInv'
  <2>1. ASSUME raised # "lost"
        PROVE  cut' <= fed' /\ scan'.view = SubSeq(wire', cut' - scan'.offset + 1, fed')
    <3>1. cut <= fed /\ scan.view = SubSeq(wire, cut - scan.offset + 1, fed)
      BY <1>1, <2>1 DEF DecoderInv, UnreadInv, Scanning
    <3>2. cut' - scan'.offset = cut - scan.offset
      BY <1>3, <1>5, <1>6, <1>7, <1>9
    <3>3. Len(Rest) = fed - cut
      <4>1. Rest = SubSeq(wire, cut + 1, fed)
        BY <1>1, <1>3, <2>1, RestIsUnread DEF DecoderInv
      <4>2. fed \in cut..Len(wire)
        BY <1>3, <3>1
      <4>. QED
        BY <1>3, <4>1, <4>2, CutElements
    <3>4. cut' <= fed'
      BY <1>1, <1>3, <1>5, <1>6, <3>3
    <3>. QED
      BY <1>1, <1>2, <1>9, <3>1, <3>2, <3>4
  <2>. QED
    BY <1>1, <2>1 DEF UnreadInv
<1>14. DecoderKeepsUnread'
  BY <1>1, <1>9 DEF DecoderKeepsUnread, Scanning
<1>. QED
  BY <1>2, <1>11, <1>12, <1>13, <1>14 DEF DecoderInv

\* The buffer feed() leaves behind holds the rest of its scan.
LEMMA ReturnKeepsRest ==
  ASSUME DecoderInv, FeedReturns
  PROVE  Keeps([buffer |-> buffer', read |-> read_offset', write |-> write_offset'], Rest)
<1>1. /\ DecoderTypeOK /\ ScanInv /\ Scanning
      /\ scan.at \in {"idle", "data", "buffer"}
  BY DEF DecoderInv, DecoderTypeOK, FeedReturns
<1>2. Rest \in Seq(Bytes) /\ Len(Rest) = Len(scan.view) - scan.offset
  BY <1>1, RestBytes
<1>3. CASE scan.at = "data"
  <2>. DEFINE next == TypeScriptAppend(0, 0, Rest)
  <2>1. reader # "python" /\ read_offset = 0 /\ write_offset = 0
    BY <1>1, <1>3 DEF ScanInv
  <2>2. buffer' = next.buffer /\ read_offset' = next.read /\ write_offset' = next.write
    BY <1>3 DEF FeedReturns, SetBuffer
  <2>3. Keeps(TypeScriptAppend(read_offset, write_offset, Rest), Buffered \o Rest)
    BY <1>1, <1>2, <2>1, TypeScriptAppendKeeps
  <2>4. Buffered \o Rest = Rest
    <3>1. Buffered \in Seq(Bytes) /\ Len(Buffered) = 0
      BY <1>1, <2>1, BufferedBytes
    <3>2. Buffered = << >>
      BY <3>1
    <3>. QED
      BY <1>2, <3>2, ConcatEmptySeq
  <2>5. Keeps(next, Rest)
    BY <2>1, <2>3, <2>4
  <2>. HIDE DEF next
  <2>. QED
    BY <2>2, <2>5 DEF Keeps
<1>4. CASE scan.at = "buffer"
  <2>1. /\ scan.view = Buffered /\ scan.offset <= Len(scan.view)
        /\ buffer \in Seq(Bytes) /\ Len(buffer) \in Nat /\ write_offset \in 0..Len(buffer)
        /\ read_offset \in 0..write_offset /\ scan.offset \in Nat
        /\ reader = "python" => write_offset = Len(buffer)
    BY <1>1, <1>4 DEF ScanInv, DecoderTypeOK
  <2>2. Len(Buffered) = write_offset - read_offset
    BY <1>1, BufferedBytes
  <2>. DEFINE next == Advanced(scan.offset)
              seen == scan.offset
  <2>3. buffer' = next.buffer /\ read_offset' = next.read /\ write_offset' = next.write
    BY <1>4 DEF FeedReturns, SetBuffer
  <2>4. Keeps(next, Rest)
    <3>1. CASE read_offset + seen = write_offset
      <4>1. Rest = << >>
        <5>1. Len(Rest) = 0
          BY <1>2, <2>1, <2>2, <3>1
        <5>. QED
          BY <1>2, <5>1
      <4>2. /\ next.buffer = IF reader = "python" THEN << >> ELSE buffer
            /\ next.read = 0 /\ next.write = 0
        BY <3>1 DEF Advanced
      <4>3. /\ next.buffer \in Seq(Bytes) /\ Len(next.buffer) \in Nat
            /\ reader = "python" => Len(next.buffer) = 0
        BY <2>1, <4>2, EmptySeq
      <4>4. SubSeq(next.buffer, 0 + 1, 0) = << >>
        BY SubSeqEmpty
      <4>. HIDE DEF next
      <4>. QED
        BY <4>1, <4>2, <4>3, <4>4 DEF Keeps
    <3>2. CASE read_offset + seen # write_offset
      <4>1. next = [buffer |-> buffer, read |-> read_offset + seen, write |-> write_offset]
        BY <3>2 DEF Advanced
      <4>2. /\ seen \in Nat /\ seen \in 0..(write_offset - read_offset) /\ read_offset \in Nat
            /\ write_offset \in read_offset..Len(buffer)
        BY <2>1, <2>2
      <4>3. Rest = SubSeq(SubSeq(buffer, read_offset + 1, write_offset), seen + 1,
                          write_offset - read_offset)
        BY <2>1, <2>2 DEF Rest, Buffered
      <4>. HIDE DEF seen, next
      <4>4. Rest = SubSeq(buffer, read_offset + seen + 1, write_offset)
        BY <2>1, <4>2, <4>3, CutOfCut
      <4>5. read_offset + seen \in 0..write_offset
        BY <2>1, <4>2
      <4>. QED
        BY <2>1, <4>1, <4>4, <4>5 DEF Keeps
    <3>. QED
      BY <3>1, <3>2
  <2>. HIDE DEF next
  <2>. QED
    BY <2>3, <2>4 DEF Keeps
<1>. QED
  BY <1>1, <1>3, <1>4 DEF Scanning

LEMMA FeedReturnsStep == ASSUME DecoderInv, FeedReturns PROVE DecoderInv'
<1>1. /\ Scanning /\ Seen.kind = "none" /\ frames' = frames \o scan.batch /\ scan' = NoScan
      /\ UNCHANGED <<fed, cut, raised, reader>> /\ UNCHANGED vars
  BY DEF FeedReturns
<1>2. wire' = wire /\ IInv'
  BY <1>1, NextIInv DEF DecoderInv, vars, sender
<1>3. /\ IInv /\ DecoderTypeOK /\ ScanInv /\ UnreadInv /\ cut \in Nat /\ fed \in 0..Len(wire)
      /\ frames \in Seq(Seq(Bytes)) /\ scan.batch \in Seq(Seq(Bytes))
      /\ raised \in {"no", "kept", "lost"}
  BY DEF DecoderInv, DecoderTypeOK
<1>4. /\ buffer' \in Seq(Bytes) /\ write_offset' \in 0..Len(buffer')
      /\ read_offset' \in 0..write_offset'
      /\ reader = "python" => write_offset' = Len(buffer')
      /\ Buffered' = Rest
  BY ReturnKeepsRest DEF Keeps, Buffered
<1>5. frames' \in Seq(Seq(Bytes))
  BY <1>1, <1>3, ConcatProperties
<1>6. Len(<< >>) = 0 /\ << >> \in Seq(Bytes) /\ << >> \in Seq(Seq(Bytes))
  BY EmptySeq
<1>7. DecoderTypeOK'
  BY <1>1, <1>2, <1>3, <1>4, <1>5, <1>6 DEF DecoderTypeOK, NoScan
<1>8. ScanInv'
  BY <1>1, <1>3, <1>6 DEF ScanInv, NoScan
<1>9. UnreadInv'
  BY <1>1, <1>3 DEF UnreadInv, NoScan
<1>10. DecoderKeepsUnread'
  <2>1. raised # "lost" => Rest = SubSeq(wire, cut + 1, fed)
    BY <1>1, <1>3, RestIsUnread
  <2>. QED
    BY <1>1, <1>2, <1>4, <2>1 DEF DecoderKeepsUnread, Seen
<1>. QED
  BY <1>2, <1>7, <1>8, <1>9, <1>10 DEF DecoderInv

LEMMA FeedRaisesStep == ASSUME DecoderInv, FeedRaises PROVE DecoderInv'
<1>1. /\ Scanning /\ cut' = cut - scan.offset /\ scan' = NoScan
      /\ raised' = IF scan.at = "data" THEN "lost" ELSE IF raised = "no" THEN "kept" ELSE raised
      /\ UNCHANGED <<buffer, read_offset, write_offset, fed, frames, reader>> /\ UNCHANGED vars
  BY DEF FeedRaises
<1>2. wire' = wire /\ IInv'
  BY <1>1, NextIInv DEF DecoderInv, vars, sender
<1>3. /\ cut \in Nat /\ fed \in 0..Len(wire) /\ Len(wire) \in Nat /\ scan.offset \in Nat
      /\ scan.offset <= cut /\ raised \in {"no", "kept", "lost"}
      /\ scan.at \in {"idle", "data", "buffer"}
  BY DEF DecoderInv, DecoderTypeOK, ScanInv, IInv, TypeOK
<1>4. cut' \in Nat /\ cut' <= cut /\ raised' \in {"no", "kept", "lost"} /\ raised' # "no"
  <2>. DEFINE seen == scan.offset
  <2>1. cut' = cut - seen /\ seen \in Nat /\ seen <= cut
    BY <1>1, <1>3
  <2>. HIDE DEF seen
  <2>2. cut' \in Nat /\ cut' <= cut
    BY <1>3, <2>1
  <2>. QED
    BY <1>1, <1>3, <2>2
<1>5. Len(<< >>) = 0 /\ << >> \in Seq(Bytes) /\ << >> \in Seq(Seq(Bytes))
  BY EmptySeq
<1>6. DecoderTypeOK'
  BY <1>1, <1>2, <1>4, <1>5 DEF DecoderInv, DecoderTypeOK, NoScan
<1>7. ScanInv'
  BY <1>1, <1>4, <1>5 DEF ScanInv, NoScan
<1>8. ASSUME raised' # "lost"
      PROVE  /\ cut <= fed /\ scan.at = "buffer"
             /\ Buffered = SubSeq(wire, cut - scan.offset + 1, fed)
  BY <1>1, <1>3, <1>8 DEF DecoderInv, UnreadInv, ScanInv, Scanning
<1>9. UnreadInv'
  BY <1>1, <1>3, <1>4, <1>8 DEF UnreadInv, NoScan
<1>10. DecoderKeepsUnread'
  BY <1>1, <1>2, <1>4, <1>8 DEF DecoderKeepsUnread, Buffered
<1>. QED
  BY <1>2, <1>6, <1>7, <1>9, <1>10 DEF DecoderInv

LEMMA DecoderNextInv == ASSUME DecoderInv, [DecoderNext]_all_vars PROVE DecoderInv'
<1>1. CASE DecoderStep
  BY <1>1, FeedStep, ScanFrameStep, FeedReturnsStep, FeedRaisesStep DEF DecoderStep
<1>2. CASE (SenderStep \/ ReceiverStep) /\ UNCHANGED <<reader, decoder>>
  BY <1>2, ChannelKeepsDecoder
<1>3. CASE UNCHANGED all_vars
  <2>1. UNCHANGED vars
    BY <1>3 DEF all_vars
  <2>2. UNCHANGED <<reader, buffer, read_offset, write_offset, scan, fed, frames, cut, raised>>
    BY <1>3 DEF all_vars, decoder
  <2>3. wire' = wire /\ IInv'
    BY <2>1, NextIInv DEF DecoderInv, vars, sender
  <2>. QED
    BY <2>2, <2>3 DEF DecoderInv, DecoderTypeOK, ScanInv, UnreadInv, DecoderKeepsUnread, Buffered
<1>. QED
  BY <1>1, <1>2, <1>3 DEF DecoderNext

LEMMA DecoderInvariance == DecoderSpec => []DecoderInv
<1>1. DecoderInit => DecoderInv
  BY DecoderInit_
<1>2. DecoderInv /\ [DecoderNext]_all_vars => DecoderInv'
  BY DecoderNextInv
<1>. QED
  BY <1>1, <1>2, PTL DEF DecoderSpec

-----------------------------------------------------------------------------
(* The theorems.                                                           *)

\* With a decoder beside it the channel is the channel: what is proved of it
\* holds whoever reads.
THEOREM DecoderRunsChannel == DecoderSpec => Spec
<1>1. DecoderInit => Init
  BY DEF DecoderInit
<1>2. [DecoderNext]_all_vars => [Next]_vars
  <2>1. DecoderStep => UNCHANGED vars
    BY DecoderStutters
  <2>2. UNCHANGED all_vars => UNCHANGED vars
    BY DEF all_vars
  <2>. QED
    BY <2>1, <2>2 DEF DecoderNext, Next
<1>. QED
  BY <1>1, <1>2, PTL DEF DecoderSpec, Spec

\* Between two feeds a decoder's buffer holds the bytes fed and not returned,
\* wherever compaction and growth moved them.
THEOREM DecoderKeepsUnreadAlways == DecoderSpec => []DecoderKeepsUnread
<1>1. DecoderInv => DecoderKeepsUnread
  BY DEF DecoderInv
<1>. QED
  BY <1>1, DecoderInvariance, PTL

\* The front part of a sequence, and the front part of that.
LEMMA FrontOf ==
  ASSUME NEW S, NEW s \in Seq(S), NEW n \in 0..Len(s)
  PROVE  /\ SubSeq(s, 1, n) \in Seq(S) /\ Len(SubSeq(s, 1, n)) = n
         /\ \A i \in 1..n : SubSeq(s, 1, n)[i] = s[i]
<1>1. 0 \in Nat /\ n \in 0..Len(s) /\ n - 0 = n /\ 0 + 1 = 1
  OBVIOUS
<1>2. /\ SubSeq(s, 0 + 1, n) \in Seq(S) /\ Len(SubSeq(s, 0 + 1, n)) = n - 0
      /\ \A i \in 1..(n - 0) : SubSeq(s, 0 + 1, n)[i] = s[0 + i]
  BY <1>1, CutElements
<1>3. \A i \in 1..n : 0 + i = i
  OBVIOUS
<1>. QED
  BY <1>1, <1>2, <1>3

LEMMA FrontOfFront ==
  ASSUME NEW S, NEW s \in Seq(S), NEW m \in 0..Len(s), NEW n \in 0..m
  PROVE  SubSeq(SubSeq(s, 1, m), 1, n) = SubSeq(s, 1, n)
<1>. DEFINE t == SubSeq(s, 1, m)
<1>1. t \in Seq(S) /\ Len(t) = m /\ \A i \in 1..m : t[i] = s[i]
  BY FrontOf
<1>. HIDE DEF t
<1>2. /\ 1 \in Nat \ {0} /\ n \in 0..Len(t) /\ Len(t) <= Len(s)
      /\ \A i \in 1..Len(t) : s[i] = t[i]
  BY <1>1
<1>3. SubSeq(s, 1, n) = SubSeq(t, 1, n)
  BY <1>1, <1>2, CutOfFront
<1>. QED
  BY <1>3 DEF t

\* What LengthPrefixedFramer makes of a run of bytes, in the decoder's terms.
LEMMA DecodedFrame ==
  ASSUME NEW bytes \in Seq(Bytes), PrefixWidth \in {1, 2, 4}, try_read_frame(bytes).kind = "frame"
  PROVE  LET found == try_read_frame(bytes)
         IN  /\ Decoded!try_frame(bytes).status = "ready"
             /\ Decoded!try_frame(bytes).bytes_consumed = found.total
             /\ Decoded!SliceOf(bytes, Decoded!try_frame(bytes)) = found.payload
<1>. DEFINE prefix == SubSeq(bytes, 1, PrefixWidth)
            size == decode_little_endian(prefix)
            found == try_read_frame(bytes)
<1>1. /\ Len(bytes) >= PrefixWidth /\ size <= MaxFrameSize /\ found.total = PrefixWidth + size
      /\ found.total \in Nat /\ found.total <= Len(bytes)
      /\ found.payload = SubSeq(bytes, PrefixWidth + 1, PrefixWidth + size)
  BY TryReadFrame
<1>. HIDE DEF found
<1>2. PrefixWidth \in 0..Len(bytes) /\ MaxFrameSize \in Nat
  BY <1>1, ChannelAssumption
<1>3. /\ prefix \in Seq(Bytes) /\ Len(prefix) = PrefixWidth
      /\ \A i \in 1..PrefixWidth : prefix[i] = bytes[i]
  BY <1>2, FrontOf
<1>. HIDE DEF prefix
<1>4. Decoded!read_prefix(bytes) = size
  BY <1>3, DecodeDigits, SMTT(30) DEF Decoded!read_prefix, Decoded!Pair
<1>5. size \in Nat
  BY <1>3, DecodeType
<1>. HIDE DEF size
<1>6. ~(size > MaxFrameSize) /\ ~(Len(bytes) < PrefixWidth) /\ ~(Len(bytes) < PrefixWidth + size)
  BY <1>1, <1>2, <1>5
<1>7. Decoded!try_frame(bytes) =
        [status |-> "ready", offset |-> PrefixWidth, size |-> size,
         bytes_consumed |-> PrefixWidth + size]
  BY <1>4, <1>6 DEF Decoded!try_frame, Decoded!TryLengthPrefixed, Decoded!Ready
<1>. QED
  BY <1>1, <1>7 DEF Decoded!SliceOf, found

\* Of what was fed the decoder has cut a part off; a scan looks at the rest.
LEMMA FedPrefix ==
  ASSUME DecoderInv
  PROVE  LET read == SubSeq(wire, 1, fed)
         IN  /\ read \in Seq(Bytes) /\ Len(read) = fed
             /\ Scanning /\ raised # "lost" => Decoded!Unread = Rest
<1>. DEFINE read == SubSeq(wire, 1, fed)
<1>1. /\ wire \in Seq(Bytes) /\ Len(wire) \in Nat /\ fed \in 0..Len(wire) /\ fed \in Nat
      /\ cut \in Nat
  BY DEF DecoderInv, IInv, TypeOK, DecoderTypeOK
<1>2. read \in Seq(Bytes) /\ Len(read) = fed /\ \A i \in 1..fed : read[i] = wire[i]
  BY <1>1, FrontOf
<1>3. Decoded!Unread = SubSeq(read, cut + 1, Len(read))
  BY DEF Decoded!Unread
<1>. HIDE DEF read
<1>4. ASSUME Scanning, raised # "lost" PROVE Decoded!Unread = Rest
  <2>1. Rest = SubSeq(wire, cut + 1, fed)
    BY <1>4, RestIsUnread DEF DecoderInv
  <2>2. cut + 1 \in Nat \ {0} /\ fed \in 0..Len(read) /\ Len(read) <= Len(wire)
        /\ \A i \in 1..Len(read) : wire[i] = read[i]
    BY <1>1, <1>2
  <2>3. SubSeq(wire, cut + 1, fed) = SubSeq(read, cut + 1, fed)
    BY <1>1, <1>2, <2>2, CutOfFront
  <2>. QED
    BY <1>2, <1>3, <2>1, <2>3
<1>. QED
  BY <1>2, <1>4 DEF read

\* Until it raises, each step of a decoder is one of a source of frames: for
\* the widths LengthPrefixedFramer knows it cuts the stream where that would.
THEOREM DecodesAsFramedAlways ==
  ASSUME PrefixWidth \in {1, 2, 4}
  PROVE  DecoderSpec => DecodesAsFramed
<1>. DEFINE read == SubSeq(wire, 1, fed)
            Framed == raised' = "no" => [Decoded!Next]_(Decoded!vars)
<1>1. ASSUME DecoderInv, DecoderNext, raised' = "no"
      PROVE  [Decoded!Next]_(Decoded!vars)
  <2>1. /\ DecoderInv' /\ IInv /\ IInv'
    BY <1>1, DecoderNextInv DEF DecoderInv
  <2>2. /\ wire \in Seq(Bytes) /\ fed \in 0..Len(wire) /\ fed \in Nat /\ cut \in Nat
        /\ frames \in Seq(Seq(Bytes)) /\ scan.batch \in Seq(Seq(Bytes))
        /\ raised \in {"no", "kept", "lost"}
        /\ scan \in [at : {"idle", "data", "buffer"}, view : Seq(Bytes), offset : Nat,
                     batch : Seq(Seq(Bytes))]
    BY <1>1 DEF DecoderInv, IInv, TypeOK, DecoderTypeOK
  <2>3. CASE (SenderStep \/ ReceiverStep) /\ UNCHANGED <<reader, decoder>>
    <3>1. UNCHANGED <<scan, fed, frames, cut>>
      BY <2>3 DEF decoder
    <3>2. SubSeq(wire', 1, fed) = SubSeq(wire, 1, fed)
      <4>1. 1 \in Nat \ {0}
        OBVIOUS
      <4>. QED
        BY <2>1, <2>2, <2>3, <4>1, WireKeepsFed
    <3>. QED
      BY <3>1, <3>2 DEF Decoded!vars
  <2>4. ASSUME NEW n \in 0..FeedSize, Feed(n) PROVE Decoded!Arrive
    <3>1. /\ scan = NoScan /\ fed + n <= Len(wire) /\ fed' = fed + n /\ n \in Nat
          /\ UNCHANGED <<frames, cut>> /\ UNCHANGED vars
          /\ scan'.batch = << >>
      <4>1. /\ scan.at = "idle" /\ fed + n <= Len(wire) /\ fed' = fed + n /\ n \in Nat
            /\ UNCHANGED <<frames, cut>> /\ UNCHANGED vars
        BY <2>4, DecoderAssumption DEF Feed
      <4>2. scan = NoScan
        BY <1>1, <4>1 DEF DecoderInv, ScanInv
      <4>3. scan'.batch = << >>
        BY <2>4 DEF Feed, NoScan
      <4>. QED
        BY <4>1, <4>2, <4>3
    <3>2. wire' = wire
      BY <3>1 DEF vars, sender
    <3>3. UNCHANGED <<cut, frames \o scan.batch>>
      BY <3>1 DEF NoScan
    <3>4. read \in Seq(Bytes) /\ Len(read) = fed
      BY <1>1, FedPrefix
    <3>5. read' = SubSeq(wire, 1, fed + n) /\ fed + n \in 0..Len(wire) /\ fed \in 0..(fed + n)
      BY <2>2, <3>1, <3>2
    <3>6. /\ read' \in Seq(Bytes) /\ Len(read') = fed + n
          /\ SubSeq(read', 1, Len(read)) = read
      <4>. DEFINE total == fed + n
      <4>1. wire \in Seq(Bytes) /\ total \in 0..Len(wire) /\ fed \in 0..total
        BY <2>2, <3>5
      <4>2. read' = SubSeq(wire, 1, total)
        BY <3>5
      <4>. HIDE DEF total
      <4>3. SubSeq(wire, 1, total) \in Seq(Bytes) /\ Len(SubSeq(wire, 1, total)) = total
        BY <4>1, FrontOf
      <4>4. SubSeq(SubSeq(wire, 1, total), 1, fed) = SubSeq(wire, 1, fed)
        BY <4>1, FrontOfFront
      <4>5. SubSeq(read', 1, fed) = read
        BY <4>2, <4>4
      <4>. HIDE DEF read
      <4>6. SubSeq(read', 1, Len(read)) = read
        BY <3>4, <4>5
      <4>. QED
        BY <4>2, <4>3, <4>6 DEF total
    <3>7. Len(read) <= Len(read')
      BY <2>2, <3>1, <3>4, <3>6
    <3>. QED
      BY <3>3, <3>6, <3>7 DEF Decoded!Arrive, Decoded!Bytes, Bytes
  <2>5. CASE ScanFrame
    <3>1. /\ Scanning /\ Seen.kind = "frame" /\ cut' = cut + Seen.total
          /\ scan' = [scan EXCEPT !.batch = Append(@, Seen.payload), !.offset = @ + Seen.total]
          /\ UNCHANGED <<fed, frames, raised>> /\ UNCHANGED vars
      BY <2>5 DEF ScanFrame
    <3>2. wire' = wire
      BY <3>1 DEF vars, sender
    <3>3. Rest \in Seq(Bytes)
      BY <1>1, RestBytes DEF DecoderInv
    <3>4. Decoded!Unread = Rest
      BY <1>1, <3>1, FedPrefix
    <3>5. /\ Decoded!try_frame(Rest).status = "ready"
          /\ Decoded!try_frame(Rest).bytes_consumed = Seen.total
          /\ Decoded!SliceOf(Rest, Decoded!try_frame(Rest)) = Seen.payload
      BY <3>1, <3>3, DecodedFrame DEF Seen
    <3>6. Seen.payload \in Seq(Bytes)
      BY <3>1, <3>3, TryReadFrame DEF Seen
    <3>7. scan'.batch = Append(scan.batch, Seen.payload)
      BY <2>2, <3>1
    <3>8. frames \o Append(scan.batch, Seen.payload) = Append(frames \o scan.batch, Seen.payload)
      <4>. DEFINE batch == scan.batch
                  elt == Seen.payload
      <4>1. batch \in Seq(Seq(Bytes)) /\ elt \in Seq(Bytes)
        BY <2>2, <3>6
      <4>. HIDE DEF batch, elt
      <4>2. frames \o batch \in Seq(Seq(Bytes)) /\ <<elt>> \in Seq(Seq(Bytes))
        BY <2>2, <4>1, ConcatProperties
      <4>3. Append(batch, elt) = batch \o <<elt>>
        BY <4>1, AppendIsConcat
      <4>4. Append(frames \o batch, elt) = (frames \o batch) \o <<elt>>
        BY <4>1, <4>2, AppendIsConcat
      <4>5. (frames \o batch) \o <<elt>> = frames \o (batch \o <<elt>>)
        <5>1. frames \in Seq(Seq(Bytes)) /\ batch \in Seq(Seq(Bytes)) /\ <<elt>> \in Seq(Seq(Bytes))
          BY <2>2, <4>1, <4>2
        <5>. QED
          BY <5>1, ConcatAssociative, SMTT(30)
      <4>6. frames \o Append(batch, elt) = Append(frames \o batch, elt)
        BY <4>3, <4>4, <4>5
      <4>. QED
        BY <4>6 DEF batch, elt
    <3>9. Decoded!Deliver
      BY <3>1, <3>2, <3>4, <3>5, <3>7, <3>8 DEF Decoded!Deliver
    <3>. QED
      BY <3>9 DEF Decoded!Next
  <2>6. CASE FeedReturns
    <3>1. /\ frames' = frames \o scan.batch /\ scan' = NoScan /\ UNCHANGED <<fed, cut>>
          /\ UNCHANGED vars
      BY <2>6 DEF FeedReturns
    <3>2. wire' = wire
      BY <3>1 DEF vars, sender
    <3>3. frames \o scan.batch \in Seq(Seq(Bytes))
      BY <2>2, ConcatProperties
    <3>4. frames' \o scan'.batch = frames \o scan.batch
      BY <3>1, <3>3, ConcatEmptySeq DEF NoScan
    <3>. QED
      BY <3>1, <3>2, <3>4 DEF Decoded!vars
  <2>7. CASE FeedRaises
    BY <1>1, <2>2, <2>7 DEF FeedRaises
  <2>. QED
    BY <1>1, <2>3, <2>4, <2>5, <2>6, <2>7 DEF DecoderNext, DecoderStep, Decoded!Next
<1>2. UNCHANGED all_vars => UNCHANGED Decoded!vars
  BY DEF all_vars, vars, sender, decoder, Decoded!vars
<1>3. DecoderInv /\ [DecoderNext]_all_vars => [Framed]_all_vars
  BY <1>1
<1>. HIDE DEF Framed
<1>4. DecoderSpec => [][Framed]_all_vars
  BY <1>3, DecoderInvariance, PTL DEF DecoderSpec
<1>. QED
  BY <1>4 DEF DecodesAsFramed, Framed

\* Three languages, one framing: the C++ channel, and the decoders until they
\* raise, cut a stream into the frames that LengthPrefixedFramer cuts it into.
THEOREM ReadersFrameAlikeAlways ==
  ASSUME PrefixWidth \in {1, 2, 4}
  PROVE  DecoderSpec => ReadersFrameAlike
BY DecoderRunsChannel, ChannelImplementsSource, DecodesAsFramedAlways DEF ReadersFrameAlike

=============================================================================
