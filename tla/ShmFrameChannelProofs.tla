----------------------- MODULE ShmFrameChannelProofs -----------------------
(***************************************************************************)
(* Proofs about LocalShmRing for every slot count, slot size and bound on  *)
(* the number of writes, and about a FrameChannel over it: whatever the    *)
(* channel does with the ring is a behaviour of the ring, so that what is  *)
(* proved of the ring holds below the channel; and what the channel's      *)
(* calls return is true.                                                   *)
(***************************************************************************)
EXTENDS MCShmFrameChannel, TLAPS

-----------------------------------------------------------------------------
(* The inductive invariant of the ring.                                    *)

\* How many slots after slot h slot i comes, going round the ring.
Distance(h, i) == IF i >= h THEN i - h ELSE SlotCount - h + i

\* Slots published and not consumed.
Used == Distance(head, tail)

\* The slots from head up to tail hold, in order, the frames that were
\* published and not yet consumed.
RingContents ==
  /\ Len(sent) = Len(taken) + Used
  /\ \A k \in 1..Len(sent) : sent[k].id = k
  /\ \A i \in Slots : Distance(head, i) < Used =>
       /\ payload[i] = Len(taken) + Distance(head, i) + 1
       /\ length[i] = sent[Len(taken) + Distance(head, i) + 1].length

\* Inside write() the slot at tail is free and holds what was stored so far.
WriterInv ==
  /\ wpc \in {"copy", "length", "publish"} => ring_has_space
  /\ wpc \in {"length", "publish"} => payload[tail] = Len(sent) + 1
  /\ wpc = "publish" => length[tail] = wlen

\* A slot that is leased or half read is the head slot, and its bytes are
\* those of one frame.
ReaderInv ==
  /\ ~(active /\ leased)
  /\ active \/ leased => index = head /\ ring_has_data
  /\ active => offset <= length[head]
  /\ active /\ offset > 0 => seen = payload[head]
  /\ rpc = "copy" => active
  /\ rpc = "advance" => active /\ offset = length[head] /\ seen = payload[head]
  /\ leased => seen = payload[head] /\ rpc \notin {"copy", "advance"}

\* The inductive invariant.
IInv == TypeOK /\ RingContents /\ WriterInv /\ ReaderInv /\ FifoDelivery

-----------------------------------------------------------------------------
(* Arithmetic of the ring.                                                 *)

\* The index arithmetic of read() and write() goes round the ring by one.
LEMMA SuccIsNext ==
  ASSUME NEW i \in Slots
  PROVE  Succ(i) = IF i + 1 = SlotCount THEN 0 ELSE i + 1
<1>1. CASE i + 1 = SlotCount
  BY <1>1, OptionsAssumption DEF Slots, Succ
<1>2. CASE i + 1 # SlotCount
  <2>1. i + 1 \in 0..(SlotCount - 1)
    BY <1>2, OptionsAssumption DEF Slots
  <2>. QED
    BY <1>2, <2>1, OptionsAssumption DEF Succ
<1>. QED
  BY <1>1, <1>2

\* The next slot is a slot.
LEMMA SuccInSlots == ASSUME NEW i \in Slots PROVE Succ(i) \in Slots
BY SuccIsNext, OptionsAssumption DEF Slots

\* Distances are below the slot count, and only head is at distance zero.
LEMMA DistanceRange ==
  ASSUME NEW h \in Slots, NEW i \in Slots
  PROVE  /\ Distance(h, i) \in 0..(SlotCount - 1)
         /\ Distance(h, i) = 0 <=> i = h
BY OptionsAssumption DEF Slots, Distance

\* Two slots at one distance are the same slot.
LEMMA DistanceInjective ==
  ASSUME NEW h \in Slots, NEW i \in Slots, NEW j \in Slots,
         Distance(h, i) = Distance(h, j)
  PROVE  i = j
BY OptionsAssumption DEF Slots, Distance

\* Storing tail makes the used part of the ring one slot longer.
LEMMA DistanceOfNext ==
  ASSUME NEW h \in Slots, NEW i \in Slots, Succ(i) # h
  PROVE  Distance(h, Succ(i)) = Distance(h, i) + 1
BY SuccIsNext, OptionsAssumption DEF Slots, Distance

\* Storing head brings every slot but the old head slot one nearer.
LEMMA DistanceFromNext ==
  ASSUME NEW h \in Slots, NEW i \in Slots, i # h
  PROVE  Distance(Succ(h), i) = Distance(h, i) - 1
BY SuccIsNext, OptionsAssumption DEF Slots, Distance

\* The old head slot becomes the farthest one.
LEMMA DistanceOfOldHead ==
  ASSUME NEW h \in Slots
  PROVE  Distance(Succ(h), h) = SlotCount - 1
BY SuccIsNext, OptionsAssumption DEF Slots, Distance

-----------------------------------------------------------------------------
(* Type correctness.                                                       *)

\* The initial state of create_pair has the invariant.
LEMMA InitIInv == Init => IInv
<1>. SUFFICES ASSUME Init PROVE IInv
  OBVIOUS
<1>1. TypeOK
  BY OptionsAssumption DEF Init, TypeOK, Slots, Torn, WriterCalls, ReaderCalls, Results, Frame
<1>2. RingContents /\ FifoDelivery
  BY OptionsAssumption DEF Init, RingContents, FifoDelivery, Used, Distance, Slots
<1>3. WriterInv /\ ReaderInv
  BY DEF Init, WriterInv, ReaderInv
<1>. QED
  BY <1>1, <1>2, <1>3 DEF IInv

\* Every step of either thread keeps every variable in its type.
LEMMA NextTypeOK == IInv /\ [Next]_vars => TypeOK'
<1>. SUFFICES ASSUME IInv, [Next]_vars PROVE TypeOK'
  OBVIOUS
<1>. USE OptionsAssumption DEF IInv, TypeOK
<1>WriteClosed. CASE WriteClosed
  BY <1>WriteClosed DEF WriteClosed, WriterReturns, ring, wvars, rvars, WriterCalls, Results
<1>WriteCopy. CASE WriteCopy
  BY <1>WriteCopy DEF WriteCopy, ring, wvars, rvars, WriterCalls, Slots
<1>WriteLength. CASE WriteLength
  BY <1>WriteLength DEF WriteLength, ring, wvars, rvars, WriterCalls, Slots
<1>WritePublish. CASE WritePublish
  <2>1. tail' \in Slots
    BY <1>WritePublish, SuccInSlots DEF WritePublish
  <2>2. [id |-> Len(sent) + 1, length |-> wlen] \in Frame
    BY DEF Frame
  <2>3. sent' \in Seq(Frame)
    BY <1>WritePublish, <2>2 DEF WritePublish
  <2>4. wpc' \in WriterCalls /\ wlen' \in 0..SlotSize
    BY <1>WritePublish DEF WritePublish, WriterCalls
  <2>. QED
    BY <1>WritePublish, <2>1, <2>3, <2>4 DEF WritePublish, ring, rvars
<1>WriteNotify. CASE WriteNotify
  BY <1>WriteNotify DEF WriteNotify, WriterReturns, ring, wvars, rvars, WriterCalls, Results
<1>PollWritable. CASE PollWritable
  BY <1>PollWritable DEF PollWritable, WriterReturns, ring, wvars, rvars, WriterCalls, Results
<1>CloseWriter. CASE CloseWriter
  BY <1>CloseWriter DEF CloseWriter, ring, rvars
<1>WriteRefused. CASE \E n \in 0..(SlotSize + 1) : WriteRefused(n)
  BY <1>WriteRefused DEF WriteRefused, WriterReturns, ring, wvars, rvars, WriterCalls, Results
<1>WriteClaim. CASE \E n \in 0..(SlotSize + 1) : WriteClaim(n)
  BY <1>WriteClaim DEF WriteClaim, ring, wvars, rvars, WriterCalls
<1>WaitWritable. CASE \E how \in {"poll", "poll_forever"} : WaitWritable(how)
  BY <1>WaitWritable DEF WaitWritable, WriterReturns, ring, wvars, rvars, WriterCalls, Results
<1>ReadRefused. CASE ReadRefused
  BY <1>ReadRefused DEF ReadRefused, ReaderReturns, ring, wvars, rvars, ReaderCalls, Results
<1>CloseReader. CASE CloseReader
  BY <1>CloseReader DEF CloseReader, ring, wvars
<1>ReadCopy. CASE ReadCopy
  <2>1. seen' \in Nat
    BY <1>ReadCopy DEF ReadCopy, Observed, Torn
  <2>2. offset <= length[index]
    BY <1>ReadCopy DEF ReadCopy, ReaderInv
  <2>3. offset' \in 0..SlotSize
    BY <1>ReadCopy, <2>2 DEF ReadCopy
  <2>4. rpc' \in ReaderCalls /\ rlast' \in Results /\ rwant' \in 0..SlotSize
    BY <1>ReadCopy DEF ReadCopy, ReaderReturns, ReaderCalls, Results
  <2>. QED
    BY <1>ReadCopy, <2>1, <2>3, <2>4 DEF ReadCopy, ring, wvars
<1>ReadAdvance. CASE ReadAdvance
  <2>1. head' \in Slots
    BY <1>ReadAdvance, SuccInSlots DEF ReadAdvance, Consume
  <2>2. [id |-> seen, length |-> offset] \in Frame
    BY DEF Frame
  <2>3. taken' \in Seq(Frame)
    BY <1>ReadAdvance, <2>2 DEF ReadAdvance, Consume
  <2>4. rpc' \in ReaderCalls /\ offset' \in 0..SlotSize /\ seen' \in Nat
    BY <1>ReadAdvance DEF ReadAdvance, Consume, ReaderCalls, Torn
  <2>5. active' \in BOOLEAN /\ leased' \in BOOLEAN
    BY <1>ReadAdvance DEF ReadAdvance, Consume
  <2>. QED
    BY <1>ReadAdvance, <2>1, <2>3, <2>4, <2>5 DEF ReadAdvance, wvars
<1>NotifyWritable. CASE NotifyWritable
  BY <1>NotifyWritable DEF NotifyWritable, ring, wvars, rvars, ReaderCalls
<1>CheckEmpty. CASE CheckEmpty
  BY <1>CheckEmpty DEF CheckEmpty, ReaderReturns, ring, wvars, rvars, ReaderCalls, Results
<1>DrainReadable. CASE DrainReadable
  BY <1>DrainReadable DEF DrainReadable, ReaderReturns, ring, wvars, rvars, ReaderCalls, Results
<1>TryAcquireRefused. CASE TryAcquireRefused
  BY <1>TryAcquireRefused DEF TryAcquireRefused, ReaderReturns, ring, wvars, rvars, ReaderCalls, Results
<1>TryAcquire. CASE TryAcquire
  BY <1>TryAcquire DEF TryAcquire, ReaderReturns, ring, wvars, rvars, ReaderCalls, Results, Slots
<1>PollReadable. CASE PollReadable
  BY <1>PollReadable DEF PollReadable, ReaderReturns, ring, wvars, rvars, ReaderCalls, Results
<1>ReadBegin. CASE \E n \in 0..SlotSize : ReadBegin(n)
  <2>1. PICK n \in 0..SlotSize : ReadBegin(n)
    BY <1>ReadBegin
  <2>2. index' \in Slots /\ seen' \in Nat
    BY <2>1 DEF ReadBegin, Torn
  <2>3. offset' \in 0..SlotSize
    BY <2>1 DEF ReadBegin
  <2>4. rpc' \in ReaderCalls /\ rwant' \in 0..SlotSize
    BY <2>1 DEF ReadBegin, ReaderCalls
  <2>. QED
    BY <2>1, <2>2, <2>3, <2>4 DEF ReadBegin, ring, wvars
<1>ReleaseRefused. CASE \E token \in Slots : ReleaseRefused(token)
  BY <1>ReleaseRefused DEF ReleaseRefused, ReaderReturns, ring, wvars, rvars, ReaderCalls, Results
<1>Release. CASE \E token \in Slots : Release(token)
  <2>1. PICK token \in Slots : Release(token)
    BY <1>Release
  <2>2. head' \in Slots
    BY <2>1, SuccInSlots DEF Release, Consume
  <2>3. [id |-> Observed(FALSE), length |-> length[head]] \in Frame
    BY DEF Frame, Observed, Torn
  <2>4. taken' \in Seq(Frame)
    BY <2>1, <2>3 DEF Release, Consume
  <2>5. rpc' \in ReaderCalls /\ seen' \in Nat
    BY <2>1 DEF Release, Consume, ReaderCalls, Torn
  <2>6. active' \in BOOLEAN /\ leased' \in BOOLEAN
    BY <2>1 DEF Release, Consume
  <2>. QED
    BY <2>1, <2>2, <2>4, <2>5, <2>6 DEF Release, wvars
<1>WaitReadable. CASE \E how \in {"poll", "poll_forever"} : WaitReadable(how)
  BY <1>WaitReadable DEF WaitReadable, ReaderReturns, ring, wvars, rvars, ReaderCalls, Results
<1>Stutter. CASE UNCHANGED vars
  BY <1>Stutter DEF vars, ring, wvars, rvars
<1>. QED
  BY <1>WriteClosed, <1>WriteCopy, <1>WriteLength, <1>WritePublish, <1>WriteNotify,
     <1>PollWritable, <1>CloseWriter, <1>WriteRefused, <1>WriteClaim, <1>WaitWritable,
     <1>ReadRefused, <1>CloseReader, <1>ReadCopy, <1>ReadAdvance, <1>NotifyWritable,
     <1>CheckEmpty, <1>DrainReadable, <1>TryAcquireRefused, <1>TryAcquire, <1>PollReadable,
     <1>ReadBegin, <1>ReleaseRefused, <1>Release, <1>WaitReadable, <1>Stutter
     DEF Next, WriterStep, ReaderStep

-----------------------------------------------------------------------------
(* Delivery.                                                               *)

\* Only these steps touch the ring or complete a write or a read.
LEMMA RingSteps ==
  ASSUME [Next]_vars
  PROVE  \/ UNCHANGED <<ring, sent, taken>>
         \/ WriteCopy \/ WriteLength \/ WritePublish \/ ReadAdvance
         \/ \E token \in Slots : Release(token)
BY DEF Next, WriterStep, ReaderStep, vars, WriteClosed, WriteRefused, WriteClaim, WriteNotify,
       WaitWritable, PollWritable, CloseWriter, ReadRefused, ReadBegin, ReadCopy, NotifyWritable,
       CheckEmpty, DrainReadable, TryAcquireRefused, TryAcquire, ReleaseRefused, WaitReadable,
       PollReadable, CloseReader, WriterReturns, ReaderReturns

\* The types that the steps of the ring need.
LEMMA RingTypes ==
  TypeOK => /\ head \in Slots /\ tail \in Slots /\ index \in Slots
            /\ payload \in [Slots -> Nat] /\ length \in [Slots -> 0..SlotSize]
            /\ sent \in Seq(Frame) /\ taken \in Seq(Frame)
            /\ Len(sent) \in Nat /\ Len(taken) \in Nat
            /\ Used \in 0..(SlotCount - 1)
<1>. SUFFICES ASSUME TypeOK
              PROVE  Len(sent) \in Nat /\ Len(taken) \in Nat /\ Used \in 0..(SlotCount - 1)
  BY DEF TypeOK
<1>1. sent \in Seq(Frame) /\ taken \in Seq(Frame) /\ head \in Slots /\ tail \in Slots
  BY DEF TypeOK
<1>2. Len(sent) \in Nat /\ Len(taken) \in Nat
  BY <1>1
<1>3. Used \in 0..(SlotCount - 1)
  BY <1>1, DistanceRange DEF Used
<1>. QED
  BY <1>2, <1>3

\* Handing over the frame in the head slot: what read() and
\* release_receive_buffer() do when they store head.
LEMMA ConsumeStep ==
  ASSUME IInv, ring_has_data,
         head' = Succ(head), UNCHANGED <<tail, payload, length, sent>>,
         taken' = Append(taken, [id |-> payload[head], length |-> length[head]])
  PROVE  RingContents' /\ FifoDelivery'
<1>1. /\ head \in Slots /\ tail \in Slots /\ head # tail
      /\ Len(sent) \in Nat /\ Len(taken) \in Nat
      /\ Used \in 1..(SlotCount - 1)
  BY RingTypes, DistanceRange, OptionsAssumption DEF IInv, ring_has_data, Used
<1>2. Len(taken) + 1 \in 1..Len(sent)
  BY <1>1 DEF IInv, RingContents
<1>3. [id |-> payload[head], length |-> length[head]] = sent[Len(taken) + 1]
  <2>1. payload[head] = Len(taken) + 1 /\ length[head] = sent[Len(taken) + 1].length
    <3>1. Distance(head, head) = 0
      BY <1>1, DistanceRange
    <3>. QED
      BY <1>1, <3>1 DEF IInv, RingContents
  <2>2. sent[Len(taken) + 1] \in Frame /\ sent[Len(taken) + 1].id = Len(taken) + 1
    BY <1>2, RingTypes DEF IInv, RingContents
  <2>. QED
    BY <2>1, <2>2 DEF Frame
<1>4. /\ Len(taken') = Len(taken) + 1
      /\ \A k \in 1..Len(taken) : taken'[k] = taken[k]
      /\ taken'[Len(taken) + 1] = sent[Len(taken) + 1]
  BY <1>3, RingTypes DEF IInv
<1>5. FifoDelivery'
  BY <1>1, <1>2, <1>4 DEF IInv, FifoDelivery
<1>6. Used' = Used - 1
  BY <1>1, DistanceFromNext DEF Used
<1>7. Len(sent') = Len(taken') + Used' /\ \A k \in 1..Len(sent') : sent'[k].id = k
  <2>1. Len(sent) = Len(taken) + Used /\ \A k \in 1..Len(sent) : sent[k].id = k
    BY DEF IInv, RingContents
  <2>. QED
    BY <1>1, <1>4, <1>6, <2>1
<1>8. ASSUME NEW i \in Slots, Distance(head', i) < Used'
      PROVE  /\ payload'[i] = Len(taken') + Distance(head', i) + 1
             /\ length'[i] = sent'[Len(taken') + Distance(head', i) + 1].length
  <2>1. i # head
    BY <1>1, <1>6, <1>8, DistanceOfOldHead, OptionsAssumption
  <2>2. Distance(head, i) \in Nat /\ Distance(head', i) = Distance(head, i) - 1
    BY <1>1, <2>1, DistanceFromNext, DistanceRange, OptionsAssumption
  <2>3. Distance(head, i) < Used
    BY <1>1, <1>6, <1>8, <2>2
  <2>4. Len(taken') + Distance(head', i) + 1 = Len(taken) + Distance(head, i) + 1
    BY <1>1, <1>4, <2>2
  <2>. QED
    BY <2>3, <2>4 DEF IInv, RingContents
<1>. QED
  BY <1>5, <1>7, <1>8 DEF RingContents

\* Every step keeps the ring's contents and the order of delivery.
LEMMA NextDelivery == IInv /\ [Next]_vars => RingContents' /\ FifoDelivery'
<1>. SUFFICES ASSUME IInv, [Next]_vars PROVE RingContents' /\ FifoDelivery'
  OBVIOUS
<1>0. /\ head \in Slots /\ tail \in Slots /\ index \in Slots
      /\ payload \in [Slots -> Nat] /\ length \in [Slots -> 0..SlotSize]
      /\ sent \in Seq(Frame) /\ taken \in Seq(Frame)
      /\ Len(sent) \in Nat /\ Len(taken) \in Nat
      /\ Used \in 0..(SlotCount - 1)
  BY RingTypes DEF IInv
<1>. USE DEF IInv
<1>1. ASSUME UNCHANGED <<head, tail, sent, taken>>,
             \A i \in Slots \ {tail} : payload'[i] = payload[i] /\ length'[i] = length[i]
      PROVE  RingContents' /\ FifoDelivery'
  <2>1. Used' = Used /\ \A i : Distance(head', i) = Distance(head, i)
    BY <1>1 DEF Used
  <2>2. \A i \in Slots : Distance(head, i) < Used => i # tail
    BY <1>0 DEF Used
  <2>3. ASSUME NEW i \in Slots, Distance(head', i) < Used'
        PROVE  /\ payload'[i] = Len(taken') + Distance(head', i) + 1
               /\ length'[i] = sent'[Len(taken') + Distance(head', i) + 1].length
    BY <1>1, <2>1, <2>2, <2>3 DEF RingContents
  <2>4. Len(sent') = Len(taken') + Used' /\ \A k \in 1..Len(sent') : sent'[k].id = k
    BY <1>1, <2>1 DEF RingContents
  <2>5. FifoDelivery'
    BY <1>1 DEF FifoDelivery
  <2>. QED
    BY <2>3, <2>4, <2>5 DEF RingContents
<1>Quiet. CASE UNCHANGED <<ring, sent, taken>>
  BY <1>Quiet, <1>1 DEF ring
<1>WriteCopy. CASE WriteCopy
  BY <1>WriteCopy, <1>0, <1>1 DEF WriteCopy
<1>WriteLength. CASE WriteLength
  BY <1>WriteLength, <1>0, <1>1 DEF WriteLength
<1>WritePublish. CASE WritePublish
  <2>1. Succ(tail) # head /\ payload[tail] = Len(sent) + 1 /\ length[tail] = wlen
    BY <1>WritePublish DEF WritePublish, WriterInv, ring_has_space
  <2>2. Used' = Used + 1
    BY <1>WritePublish, <1>0, <2>1, DistanceOfNext DEF WritePublish, Used
  <2>3. /\ Len(sent') = Len(sent) + 1
        /\ \A k \in 1..Len(sent) : sent'[k] = sent[k]
        /\ sent'[Len(sent) + 1] = [id |-> Len(sent) + 1, length |-> wlen]
    BY <1>WritePublish, <1>0 DEF WritePublish
  <2>4. Len(sent) = Len(taken) + Used /\ \A k \in 1..Len(sent) : sent[k].id = k
    BY DEF RingContents
  <2>5. Len(sent') = Len(taken') + Used' /\ \A k \in 1..Len(sent') : sent'[k].id = k
    BY <1>WritePublish, <1>0, <2>2, <2>3, <2>4 DEF WritePublish
  <2>6. ASSUME NEW i \in Slots, Distance(head', i) < Used'
        PROVE  /\ payload'[i] = Len(taken') + Distance(head', i) + 1
               /\ length'[i] = sent'[Len(taken') + Distance(head', i) + 1].length
    <3>1. UNCHANGED <<head, taken, payload, length>>
      BY <1>WritePublish DEF WritePublish
    <3>2. Distance(head, i) \in Nat /\ Distance(head, i) < Used + 1
      BY <3>1, <1>0, <2>2, <2>6, DistanceRange, OptionsAssumption
    <3>3. CASE Distance(head, i) < Used
      <4>1. Len(taken) + Distance(head, i) + 1 \in 1..Len(sent)
        BY <1>0, <2>4, <3>2, <3>3, SMTT(30)
      <4>. QED
        BY <2>3, <3>1, <3>3, <4>1 DEF RingContents
    <3>4. CASE Distance(head, i) = Used
      <4>1. i = tail
        BY <1>0, <3>4, DistanceInjective DEF Used
      <4>2. Len(taken) + Distance(head, i) + 1 = Len(sent) + 1
        BY <1>0, <2>4, <3>4
      <4>. QED
        BY <2>1, <2>3, <3>1, <4>1, <4>2
    <3>. QED
      BY <1>0, <3>2, <3>3, <3>4
  <2>7. FifoDelivery'
    <3>1. Len(taken') <= Len(sent') /\ UNCHANGED taken
      BY <1>WritePublish, <1>0, <2>3 DEF WritePublish, FifoDelivery
    <3>. QED
      BY <1>0, <2>3, <3>1 DEF FifoDelivery
  <2>. QED
    BY <2>5, <2>6, <2>7 DEF RingContents
<1>ReadAdvance. CASE ReadAdvance
  <2>1. /\ active /\ index = head /\ ring_has_data
        /\ seen = payload[head] /\ offset = length[head]
    BY <1>ReadAdvance DEF ReadAdvance, ReaderInv
  <2>. QED
    BY <1>ReadAdvance, <2>1, ConsumeStep DEF ReadAdvance, Consume
<1>Release. CASE \E token \in Slots : Release(token)
  <2>1. PICK token \in Slots : Release(token)
    BY <1>Release
  <2>2. /\ index = head /\ ring_has_data
        /\ Observed(FALSE) = payload[head]
    BY <2>1 DEF Release, ReaderInv, Observed
  <2>. QED
    BY <2>1, <2>2, ConsumeStep DEF Release, Consume
<1>. QED
  BY <1>Quiet, <1>WriteCopy, <1>WriteLength, <1>WritePublish, <1>ReadAdvance, <1>Release, RingSteps

-----------------------------------------------------------------------------
(* The two threads.                                                        *)

\* What any step that is not the writer's leaves alone, and what a step of
\* the reader may do to the ring: move head on by one slot.
LEMMA ReaderLeavesWriter ==
  ASSUME IInv, ReaderStep
  PROVE  /\ UNCHANGED <<tail, payload, length, wpc, wlen, wlast, wopen, sent>>
         /\ head' = head \/ (head' = Succ(head) /\ ring_has_data)
BY DEF IInv, ReaderInv, ReaderStep, ReadRefused, ReadBegin, ReadCopy, ReadAdvance, Release, Consume,
       NotifyWritable, CheckEmpty, DrainReadable, TryAcquireRefused, TryAcquire, ReleaseRefused,
       WaitReadable, PollReadable, CloseReader, ring, wvars

\* Inside write() the slot at tail stays free, whatever the reader does.
LEMMA NextWriterInv == IInv /\ [Next]_vars => WriterInv'
<1>. SUFFICES ASSUME IInv, [Next]_vars PROVE WriterInv'
  OBVIOUS
<1>0. /\ head \in Slots /\ tail \in Slots
      /\ payload \in [Slots -> Nat] /\ length \in [Slots -> 0..SlotSize]
  BY RingTypes DEF IInv
<1>. USE DEF IInv
<1>Reader. CASE ReaderStep
  <2>1. UNCHANGED <<tail, payload, length, wpc, wlen, wlast, wopen, sent>>
    BY <1>Reader, ReaderLeavesWriter
  <2>2. ring_has_space => Succ(tail) # head'
    <3>1. CASE head' = head
      BY <3>1 DEF ring_has_space
    <3>2. CASE head' = Succ(head) /\ ring_has_data
      <4>1. Succ(tail) # Succ(head)
        <5>1. /\ Succ(tail) = IF tail + 1 = SlotCount THEN 0 ELSE tail + 1
              /\ Succ(head) = IF head + 1 = SlotCount THEN 0 ELSE head + 1
          BY <1>0, SuccIsNext
        <5>. QED
          BY <1>0, <3>2, <5>1, OptionsAssumption DEF ring_has_data, Slots
      <4>. QED
        BY <3>2, <4>1
    <3>. QED
      BY <1>Reader, <3>1, <3>2, ReaderLeavesWriter
  <2>3. ring_has_space => ring_has_space'
    <3>1. Succ(tail)' = Succ(tail)
      BY <2>1 DEF Succ
    <3>. QED
      BY <2>2, <3>1 DEF ring_has_space
  <2>. QED
    BY <2>1, <2>3 DEF WriterInv
<1>Writer. CASE WriterStep
  <2>1. CASE wpc' \notin {"copy", "length", "publish"}
    BY <2>1 DEF WriterInv
  <2>2. CASE \E n \in 0..(SlotSize + 1) : WriteClaim(n)
    BY <2>2 DEF WriteClaim, WriterInv, ring, rvars, ring_has_space, Succ
  <2>3. CASE WriteCopy
    BY <1>0, <2>3 DEF WriteCopy, WriterInv, ring_has_space, Succ
  <2>4. CASE WriteLength
    BY <1>0, <2>4 DEF WriteLength, WriterInv, ring_has_space, Succ
  <2>5. wpc' \in {"copy", "length", "publish"} =>
          WriteCopy \/ WriteLength \/ \E n \in 0..(SlotSize + 1) : WriteClaim(n)
    BY <1>Writer DEF WriterStep, WriteClosed, WriteRefused, WritePublish, WriteNotify, WaitWritable,
                     PollWritable, CloseWriter, WriterReturns
  <2>. QED
    BY <2>1, <2>2, <2>3, <2>4, <2>5
<1>Stutter. CASE UNCHANGED vars
  BY <1>Stutter DEF vars, ring, wvars, WriterInv, ring_has_space, Succ
<1>. QED
  BY <1>Reader, <1>Writer, <1>Stutter DEF Next

\* What a step of the writer leaves alone: everything of the reader's, and
\* the contents of every slot but the one at tail.
LEMMA WriterLeavesReader ==
  ASSUME IInv, WriterStep
  PROVE  /\ UNCHANGED <<head, writable, rvars, taken>>
         /\ \A i \in Slots \ {tail} : payload'[i] = payload[i] /\ length'[i] = length[i]
         /\ tail' = tail \/ (tail' = Succ(tail) /\ ring_has_space)
<1>1. TypeOK
  BY DEF IInv
<1>2. payload \in [Slots -> Nat] /\ length \in [Slots -> 0..SlotSize]
  BY <1>1 DEF TypeOK
<1>. QED
  BY <1>2 DEF IInv, WriterInv, WriterStep, WriteClosed, WriteRefused, WriteClaim, WriteCopy,
              WriteLength, WritePublish, WriteNotify, WaitWritable, PollWritable, CloseWriter, ring

\* The slot the reader holds stays the head slot, and what it saw there stays
\* true.
LEMMA NextReaderInv == IInv /\ [Next]_vars => ReaderInv'
<1>. SUFFICES ASSUME IInv, [Next]_vars PROVE ReaderInv'
  OBVIOUS
<1>0. /\ head \in Slots /\ tail \in Slots /\ index \in Slots
      /\ payload \in [Slots -> Nat] /\ length \in [Slots -> 0..SlotSize]
      /\ offset \in 0..SlotSize /\ rwant \in 0..SlotSize
  BY DEF IInv, TypeOK
<1>. USE DEF IInv
<1>Writer. CASE WriterStep
  <2>1. UNCHANGED <<head, rpc, index, offset, active, leased, seen>>
    BY <1>Writer, WriterLeavesReader DEF rvars
  <2>2. ring_has_data => ring_has_data'
    BY <1>Writer, WriterLeavesReader, <2>1 DEF ring_has_data, ring_has_space
  <2>3. ring_has_data => payload'[head] = payload[head] /\ length'[head] = length[head]
    BY <1>0, <1>Writer, WriterLeavesReader DEF ring_has_data
  <2>. QED
    BY <2>1, <2>2, <2>3 DEF ReaderInv
<1>ReadBegin. CASE \E n \in 0..SlotSize : ReadBegin(n)
  BY <1>0, <1>ReadBegin DEF ReadBegin, ReaderInv, ring, ring_has_data
<1>ReadCopy. CASE ReadCopy
  <2>1. /\ active /\ ~leased /\ index = head /\ ring_has_data
        /\ offset <= length[head]
        /\ offset > 0 => seen = payload[head]
    BY <1>ReadCopy DEF ReadCopy, ReaderInv
  <2>2. seen' = payload[head]
    BY <1>0, <1>ReadCopy, <2>1 DEF ReadCopy, Observed
  <2>3. /\ offset' <= length[head]
        /\ rpc' = "advance" => offset' = length[head]
        /\ rpc' \in {"advance", "idle"}
    BY <1>0, <1>ReadCopy, <2>1 DEF ReadCopy, ReaderReturns
  <2>4. UNCHANGED <<head, tail, payload, length, index, active, leased>>
    BY <1>ReadCopy DEF ReadCopy, ring
  <2>. QED
    BY <2>1, <2>2, <2>3, <2>4 DEF ReaderInv, ring_has_data
<1>ReadAdvance. CASE ReadAdvance
  BY <1>ReadAdvance DEF ReadAdvance, Consume, ReaderInv
<1>Release. CASE \E token \in Slots : Release(token)
  BY <1>Release DEF Release, Consume, ReaderInv
<1>TryAcquire. CASE TryAcquire
  BY <1>TryAcquire DEF TryAcquire, ReaderReturns, ReaderInv, ring, ring_has_data
<1>CloseReader. CASE CloseReader
  BY <1>CloseReader DEF CloseReader, ReaderInv, ring, ring_has_data
<1>Quiet. CASE /\ UNCHANGED <<ring, index, offset, active, leased, seen>>
               /\ rpc' \notin {"copy", "advance"}
  BY <1>Quiet DEF ring, ReaderInv, ring_has_data
<1>Stutter. CASE UNCHANGED vars
  BY <1>Stutter DEF vars, ring, rvars, ReaderInv, ring_has_data
<1>1. ReaderStep =>
        \/ \E n \in 0..SlotSize : ReadBegin(n)
        \/ ReadCopy \/ ReadAdvance \/ TryAcquire \/ CloseReader
        \/ \E token \in Slots : Release(token)
        \/ /\ UNCHANGED <<ring, index, offset, active, leased, seen>>
           /\ rpc' \notin {"copy", "advance"}
  BY DEF ReaderStep, ReadRefused, NotifyWritable, CheckEmpty, DrainReadable, TryAcquireRefused,
         ReleaseRefused, WaitReadable, PollReadable, ReaderReturns
<1>. QED
  BY <1>Writer, <1>ReadBegin, <1>ReadCopy, <1>ReadAdvance, <1>Release, <1>TryAcquire,
     <1>CloseReader, <1>Quiet, <1>Stutter, <1>1 DEF Next

-----------------------------------------------------------------------------
(* The theorems.                                                           *)

\* The invariant is inductive.
LEMMA Invariance == Spec => []IInv
<1>1. IInv /\ [Next]_vars => IInv'
  BY NextTypeOK, NextDelivery, NextWriterInv, NextReaderInv DEF IInv
<1>. QED
  BY InitIInv, <1>1, PTL DEF Spec

\* Every variable of the transport stays in its type: the indices that
\* read() and write() store are slot numbers and no length exceeds a slot.
THEOREM TypeCorrect == Spec => []TypeOK
<1>1. IInv => TypeOK
  BY DEF IInv
<1>. QED
  BY Invariance, <1>1, PTL

\* read() and release_receive_buffer() hand over the frames write() published,
\* whole, in order and once, for any number of slots.
THEOREM DeliversInOrder == Spec => []FifoDelivery
<1>1. IInv => FifoDelivery
  BY DEF IInv
<1>. QED
  BY Invariance, <1>1, PTL

\* write() never changes the slot that the reader leased or half read.
THEOREM HeldSlotsAreStable == Spec => HeldSlotStable
<1>1. ASSUME IInv, [Next]_vars, (leased /\ leased') \/ (active /\ active')
      PROVE  payload'[index] = payload[index] /\ length'[index] = length[index]
  <2>1. index = head /\ head # tail /\ index \in Slots
    BY <1>1 DEF IInv, TypeOK, ReaderInv, ring_has_data
  <2>2. CASE WriterStep
    BY <1>1, <2>1, <2>2, WriterLeavesReader
  <2>3. CASE ReaderStep
    BY <1>1, <2>3, ReaderLeavesWriter
  <2>4. CASE UNCHANGED vars
    BY <2>4 DEF vars, ring
  <2>. QED
    BY <1>1, <2>2, <2>3, <2>4 DEF Next
<1>2. IInv /\ [Next]_vars =>
        [(leased /\ leased') \/ (active /\ active')
           => payload'[index] = payload[index] /\ length'[index] = length[index]]_vars
  BY <1>1
<1>. QED
  BY Invariance, <1>2, PTL DEF Spec, HeldSlotStable

\* A reader that polls the eventfd over a frame is woken: read() drains the
\* eventfd only between its own look at the ring and its return, never while
\* wait_until_readable() sleeps.
THEOREM ReadableNeverLost == Spec => []NoLostReadable
<1>1. Init => NoLostReadable
  BY DEF Init, NoLostReadable
<1>2. ASSUME NoLostReadable, [Next]_vars
      PROVE  NoLostReadable'
  <2>. USE <1>2 DEF NoLostReadable, ring_has_data
  <2>1. CASE rpc' \notin {"poll", "poll_forever"}
    BY <2>1
  <2>2. CASE \E how \in {"poll", "poll_forever"} : WaitReadable(how)
    BY <2>2 DEF WaitReadable, ReaderReturns, ring
  <2>4. CASE WriterStep
    BY <2>4 DEF WriterStep, WriteClosed, WriteRefused, WriteClaim, WriteCopy, WriteLength,
                WritePublish, WriteNotify, WaitWritable, PollWritable, CloseWriter, WriterReturns,
                ring, rvars
  <2>5. ReaderStep => \/ rpc' \notin {"poll", "poll_forever"}
                      \/ \E how \in {"poll", "poll_forever"} : WaitReadable(how)
    BY DEF ReaderStep, ReadRefused, ReadBegin, ReadCopy, ReadAdvance, Release, Consume,
           NotifyWritable, CheckEmpty, DrainReadable, TryAcquireRefused, TryAcquire,
           ReleaseRefused, PollReadable, CloseReader, ReaderReturns
  <2>6. CASE UNCHANGED vars
    BY <2>6 DEF vars, ring, wvars, rvars
  <2>. QED
    BY <2>1, <2>2, <2>4, <2>5, <2>6 DEF Next
<1>. QED
  BY <1>1, <1>2, PTL DEF Spec

\* A writer that polls the eventfd while a slot is free is woken.
THEOREM WritableNeverLost == Spec => []NoLostWritable
<1>1. Init => NoLostWritable
  BY DEF Init, NoLostWritable
<1>2. ASSUME NoLostWritable, [Next]_vars
      PROVE  NoLostWritable'
  <2>. USE <1>2 DEF NoLostWritable, ring_has_space, Succ
  <2>1. CASE wpc' \notin {"poll", "poll_forever"}
    BY <2>1
  <2>2. CASE \E how \in {"poll", "poll_forever"} : WaitWritable(how)
    BY <2>2 DEF WaitWritable, WriterReturns, ring
  <2>3. CASE ReaderStep
    BY <2>3 DEF ReaderStep, ReadRefused, ReadBegin, ReadCopy, ReadAdvance, Release, Consume,
                NotifyWritable, CheckEmpty, DrainReadable, TryAcquireRefused, TryAcquire,
                ReleaseRefused, WaitReadable, PollReadable, CloseReader, ReaderReturns, ring, wvars
  <2>4. WriterStep => \/ wpc' \notin {"poll", "poll_forever"}
                      \/ \E how \in {"poll", "poll_forever"} : WaitWritable(how)
    BY DEF WriterStep, WriteClosed, WriteRefused, WriteClaim, WriteCopy, WriteLength,
           WritePublish, WriteNotify, PollWritable, CloseWriter, WriterReturns
  <2>5. CASE UNCHANGED vars
    BY <2>5 DEF vars, ring, wvars, rvars
  <2>. QED
    BY <2>1, <2>2, <2>3, <2>4, <2>5 DEF Next
<1>. QED
  BY <1>1, <1>2, PTL DEF Spec

\* Neither side sleeps through what the other did.
THEOREM WakeupsNeverLost == Spec => []NoLostWakeup
BY ReadableNeverLost, WritableNeverLost, PTL DEF NoLostWakeup

\* The ring transport implements FrameFifo: a frame is accepted by the store
\* of tail and delivered by the store of head; every other step stutters.
THEOREM RingImplementsFifo == Spec => ImplementsFifo
<1>1. Init => Fifo!Init
  BY DEF Init, Fifo!Init
<1>2. ASSUME IInv, IInv', [Next]_vars
      PROVE  [Fifo!Next]_Fifo!vars
  <2>0. /\ head \in Slots /\ tail \in Slots
        /\ sent \in Seq(Frame) /\ taken \in Seq(Frame)
        /\ Len(sent) \in Nat /\ Len(taken) \in Nat
        /\ Used \in 0..(SlotCount - 1)
        /\ Len(sent) = Len(taken) + Used
        /\ \A k \in 1..Len(taken') : taken'[k] = sent'[k]
        /\ Len(taken') <= Len(sent')
    BY <1>2, RingTypes DEF IInv, RingContents, FifoDelivery
  <2>1. CASE UNCHANGED <<ring, sent, taken>>
    BY <2>1 DEF Fifo!vars
  <2>2. CASE WriteCopy \/ WriteLength
    BY <2>2 DEF WriteCopy, WriteLength, Fifo!vars
  <2>3. CASE WritePublish
    <3>1. Succ(tail) # head /\ wlen \in 0..SlotSize
      BY <1>2, <2>3 DEF WritePublish, IInv, WriterInv, TypeOK, ring_has_space
    <3>2. Used + 1 \in 0..(SlotCount - 1)
      BY <2>0, <3>1, DistanceOfNext, DistanceRange, SuccInSlots DEF Used
    <3>3. Fifo!Accept(wlen)
      BY <2>0, <2>3, <3>2, OptionsAssumption DEF WritePublish, Fifo!Accept
    <3>. QED
      BY <3>1, <3>3 DEF Fifo!Next
  <2>4. ASSUME NEW f \in Frame, taken' = Append(taken, f), sent' = sent
        PROVE  Fifo!Next
    <3>1. Len(taken') = Len(taken) + 1 /\ taken'[Len(taken) + 1] = f
      BY <2>0, <2>4
    <3>2. f = sent[Len(taken) + 1] /\ Len(taken) < Len(sent)
      BY <2>0, <2>4, <3>1
    <3>3. Fifo!Deliver
      BY <2>4, <3>2 DEF Fifo!Deliver
    <3>. QED
      BY <3>3 DEF Fifo!Next
  <2>5. CASE ReadAdvance
    <3>1. [id |-> seen, length |-> offset] \in Frame
      BY <1>2, OptionsAssumption DEF IInv, TypeOK, Frame
    <3>. QED
      BY <2>4, <2>5, <3>1 DEF ReadAdvance, Consume
  <2>6. CASE \E token \in Slots : Release(token)
    <3>1. [id |-> Observed(FALSE), length |-> length[head]] \in Frame
      BY <1>2, OptionsAssumption DEF IInv, TypeOK, Frame, Observed, Torn
    <3>. QED
      BY <2>4, <2>6, <3>1 DEF Release, Consume
  <2>. QED
    BY <1>2, <2>1, <2>2, <2>3, <2>5, <2>6, RingSteps
<1>. QED
  BY Invariance, <1>1, <1>2, PTL DEF Spec, ImplementsFifo, Fifo!Spec

-----------------------------------------------------------------------------
(* The inductive invariant of the channel over it.                         *)

SendPoints == {"idle", "write", "written", "wait", "waited"}

\* The frame of the send under way is in the ring.
Published ==
  send.at = "written" /\ (wpc = "notify" \/ (wpc = "idle" /\ wlast = "ok"))

\* A send that is under way has published its frame, and only that, or
\* nothing; inside a write the ring writes this frame.
SendInv ==
  /\ send \in [at : SendPoints, length : Nat, before : Nat]
  /\ send.at \in {"write", "wait"} => wpc = "idle"
  /\ send.at = "waited" => wpc \in {"idle", "poll"}
  /\ send.at = "written" => wpc \notin {"poll", "poll_forever"}
  /\ send.at = "written" /\ wpc \in {"copy", "length", "publish"} => wlen = send.length
  /\ send.at # "idle" /\ ~Published => Len(sent) = send.before
  /\ Published => /\ Len(sent) = send.before + 1
                  /\ sent[Len(sent)] = [id |-> Len(sent), length |-> send.length]

\* receive_frame() holds a lease on the head slot and copies that slot.
RecvInv ==
  /\ recv \in [at : {"idle", "assign", "release"}, token : Slots, id : Nat, length : Nat]
  /\ recv.at # "idle" =>
       /\ rpc = "idle" /\ leased /\ recv.length = length[head]
       /\ recv.at = "release" => recv.id = payload[head]

ChannelInv == IInv /\ SendInv /\ RecvInv

-----------------------------------------------------------------------------
(* The channel's steps as steps of the ring.                               *)

\* A refusal does not depend on by how much a frame is too long.
LEMMA RefusalIsRing ==
  ASSUME NEW n \in Nat, WriteRefused(n)
  PROVE  \E k \in 0..(SlotSize + 1) : WriteRefused(k)
<1>1. CASE n <= SlotSize + 1
  BY <1>1, OptionsAssumption
<1>2. CASE n > SlotSize + 1
  <2>1. WriteRefused(SlotSize + 1)
    BY <1>2, OptionsAssumption DEF WriteRefused
  <2>. QED
    BY <2>1, OptionsAssumption
<1>. QED
  BY <1>1, <1>2, OptionsAssumption

\* What a call of the channel does on the writer's side.
LEMMA SendIsWriter ==
  ASSUME IInv, SendInv, SendStep
  PROVE  WriterStep \/ UNCHANGED vars
<1>1. CASE CallWrite
  <2>1. send.length \in Nat
    BY DEF SendInv
  <2>2. WriteClaim(send.length) => send.length \in 0..(SlotSize + 1)
    BY <2>1, OptionsAssumption DEF WriteClaim
  <2>. QED
    BY <1>1, <2>1, <2>2, RefusalIsRing DEF CallWrite, WriterStep
<1>2. CASE Written
  BY <1>2 DEF Written
<1>3. CASE CallWait
  BY <1>3 DEF CallWait, WriterStep
<1>4. CASE Waited
  BY <1>4 DEF Waited
<1>5. CASE SendInsideCall
  BY <1>5 DEF SendInsideCall, InsideWrite, WriterStep
<1>. QED
  BY <1>1, <1>2, <1>3, <1>4, <1>5 DEF SendStep

\* What a call of the channel does on the reader's side.
LEMMA ReceiveIsReader ==
  ASSUME IInv, ReceiveNothing \/ ReceiveFrame \/ AssignFrame \/ ReleaseFrame \/ DirectRead
  PROVE  (ReaderStep \/ UNCHANGED vars) /\ UNCHANGED send
<1>1. ReceiveNothing \/ ReceiveFrame => ReaderStep /\ UNCHANGED send
  BY DEF ReceiveNothing, ReceiveFrame, ReaderStep
<1>2. AssignFrame => UNCHANGED vars /\ UNCHANGED send
  BY DEF AssignFrame
<1>3. ReleaseFrame => ReaderStep /\ UNCHANGED send
  <2>1. SUFFICES ASSUME ReleaseFrame PROVE ReaderStep /\ UNCHANGED send
    OBVIOUS
  <2>2. Release(recv.token) /\ recv.token \in Slots
    BY <2>1 DEF ReleaseFrame, Release, IInv, TypeOK
  <2>. QED
    BY <2>1, <2>2 DEF ReaderStep, ReleaseFrame
<1>4. DirectRead => ReaderStep /\ UNCHANGED send
  BY DEF DirectRead
<1>. QED
  BY <1>1, <1>2, <1>3, <1>4

\* A step is of the writer's side, which leaves receive_frame() alone, or of
\* the reader's side, or none.
LEMMA Sides ==
  ASSUME [ChannelNext]_allvars
  PROVE  \/ \E n \in 0..(MaxFrameSize + 1) : SendFrame(n)
         \/ SendStep \/ DirectWrite
         \/ ReceiveNothing \/ ReceiveFrame \/ AssignFrame \/ ReleaseFrame \/ DirectRead
         \/ UNCHANGED allvars
BY DEF ChannelNext

\* The writer's side as steps of the ring.
LEMMA SendSideIsWriter ==
  ASSUME IInv, SendInv,
         (\E n \in 0..(MaxFrameSize + 1) : SendFrame(n)) \/ SendStep \/ DirectWrite
  PROVE  (WriterStep \/ UNCHANGED vars) /\ UNCHANGED recv
<1>1. ASSUME NEW n \in 0..(MaxFrameSize + 1), SendFrame(n)
      PROVE  UNCHANGED vars /\ UNCHANGED recv
  BY <1>1 DEF SendFrame
<1>2. SendStep => UNCHANGED recv
  BY DEF SendStep, CallWrite, Written, CallWait, Waited, SendInsideCall
<1>3. DirectWrite => WriterStep /\ UNCHANGED recv
  BY DEF DirectWrite
<1>. QED
  BY <1>1, <1>2, <1>3, SendIsWriter

LEMMA StepsAreRing ==
  ASSUME IInv, SendInv, [ChannelNext]_allvars
  PROVE  [Next]_vars
BY Sides, SendSideIsWriter, ReceiveIsReader DEF Next, allvars

-----------------------------------------------------------------------------
(* The invariant is kept.                                                  *)

LEMMA InitChannelInv == ChannelInit => ChannelInv
<1>. SUFFICES ASSUME ChannelInit PROVE ChannelInv
  OBVIOUS
<1>1. IInv
  BY InitIInv DEF ChannelInit
<1>2. SendInv
  BY DEF ChannelInit, SendInv, SendPoints, Published, NoSend
<1>3. RecvInv
  BY OptionsAssumption DEF ChannelInit, RecvInv, NoReceive, Slots, Torn
<1>. QED
  BY <1>1, <1>2, <1>3 DEF ChannelInv

\* The writer's part of a transport call, seen from the send under way.
LEMMA InsideKeepsSend ==
  ASSUME IInv, SendInv, SendInsideCall
  PROVE  SendInv'
<1>0. /\ sent \in Seq(Frame) /\ Len(sent) \in Nat /\ wlen \in 0..SlotSize
      /\ send' = send /\ send.at # "idle" /\ InsideWrite
      /\ send \in [at : SendPoints, length : Nat, before : Nat]
  BY DEF SendInsideCall, IInv, TypeOK, SendInv
<1>1. CASE WriteCopy
  BY <1>0, <1>1 DEF WriteCopy, SendInv, Published
<1>2. CASE WriteLength
  BY <1>0, <1>2 DEF WriteLength, SendInv, Published
<1>3. CASE WritePublish
  <2>1. send.at = "written" /\ ~Published /\ Len(sent) = send.before /\ wlen = send.length
    BY <1>0, <1>3 DEF WritePublish, SendInv, Published, SendPoints
  <2>2. Published'
    BY <1>0, <1>3, <2>1 DEF WritePublish, Published
  <2>3. [id |-> Len(sent) + 1, length |-> wlen] \in Frame
    BY <1>0, OptionsAssumption DEF Frame
  <2>4. /\ Len(sent') = Len(sent) + 1
        /\ sent'[Len(sent) + 1] = [id |-> Len(sent) + 1, length |-> wlen]
    BY <1>0, <1>3, <2>3 DEF WritePublish
  <2>. QED
    BY <1>0, <1>3, <2>1, <2>2, <2>4 DEF WritePublish, SendInv
<1>4. CASE WriteNotify
  BY <1>0, <1>4 DEF WriteNotify, WriterReturns, SendInv, Published
<1>5. CASE PollWritable
  BY <1>0, <1>5 DEF PollWritable, WriterReturns, SendInv, Published
<1>. QED
  BY <1>0, <1>1, <1>2, <1>3, <1>4, <1>5 DEF InsideWrite

\* The steps of write_fully() between the transport's calls.
LEMMA LoopKeepsSend ==
  ASSUME IInv, SendInv, CallWrite \/ Written \/ CallWait \/ Waited
  PROVE  SendInv'
<1>0. /\ send \in [at : SendPoints, length : Nat, before : Nat]
      /\ Len(sent) \in Nat
  BY DEF SendInv, IInv, TypeOK
<1>1. CASE CallWrite
  <2>1. send.at = "write" /\ wpc = "idle" /\ Len(sent) = send.before
    BY <1>1 DEF CallWrite, SendInv, Published
  <2>2. /\ send'.at = "written" /\ send'.length = send.length /\ send'.before = send.before
        /\ send' \in [at : SendPoints, length : Nat, before : Nat]
    BY <1>0, <1>1 DEF CallWrite, SendGoes, SendPoints
  <2>3. /\ sent' = sent
        /\ \/ wpc' = "idle" /\ wlast' # "ok"
           \/ wpc' = "copy" /\ wlen' = send.length
    BY <1>1, <2>1 DEF CallWrite, WriteClosed, WriteRefused, WriteClaim, WriterReturns
  <2>. QED
    BY <2>1, <2>2, <2>3 DEF SendInv, Published
<1>2. CASE Written
  <2>1. /\ UNCHANGED <<sent, wpc, wlen, wlast>> /\ wpc = "idle" /\ send.at = "written"
        /\ \/ wlast = "would_block" /\ send' = [send EXCEPT !.at = "wait"]
           \/ send' = NoSend
    BY <1>2 DEF Written, SendGoes, SendReturns, vars, wvars
  <2>. QED
    BY <1>0, <2>1 DEF SendInv, Published, SendPoints, NoSend
<1>3. CASE CallWait
  <2>1. /\ sent' = sent /\ send.at = "wait" /\ wpc' \in {"idle", "poll"}
        /\ send' = [send EXCEPT !.at = "waited"]
    BY <1>3 DEF CallWait, WaitWritable, WriterReturns, SendGoes
  <2>. QED
    BY <1>0, <2>1 DEF SendInv, Published, SendPoints
<1>4. CASE Waited
  <2>1. /\ UNCHANGED <<sent, wpc, wlen, wlast>> /\ wpc = "idle" /\ send.at = "waited"
        /\ send' = [send EXCEPT !.at = "write"] \/ send' = NoSend
    BY <1>4 DEF Waited, SendGoes, SendReturns, vars, wvars
  <2>. QED
    BY <1>0, <2>1 DEF SendInv, Published, SendPoints, NoSend
<1>. QED
  BY <1>1, <1>2, <1>3, <1>4

LEMMA NextSendInv ==
  ASSUME IInv, SendInv, [ChannelNext]_allvars
  PROVE  SendInv'
<1>0. Len(sent) \in Nat
  BY DEF IInv, TypeOK
<1>1. ASSUME NEW n \in 0..(MaxFrameSize + 1), SendFrame(n)
      PROVE  SendInv'
  <2>1. /\ UNCHANGED <<sent, wpc, wlen, wlast>> /\ wpc = "idle"
        /\ \/ send' = NoSend
           \/ send' = [at |-> "write", length |-> n, before |-> Len(sent)]
    BY <1>1 DEF SendFrame, SendReturns, vars, wvars
  <2>2. n \in Nat
    BY FrameSizeAssumption
  <2>. QED
    BY <1>0, <2>1, <2>2 DEF SendInv, Published, SendPoints, NoSend
<1>2. CASE SendStep
  BY <1>2, InsideKeepsSend, LoopKeepsSend DEF SendStep
<1>3. CASE DirectWrite
  BY <1>3 DEF DirectWrite, SendInv, Published
<1>4. CASE (ReaderStep \/ UNCHANGED vars) /\ UNCHANGED send
  <2>1. UNCHANGED <<sent, wpc, wlen, wlast>>
    BY <1>4, ReaderLeavesWriter DEF vars, wvars
  <2>. QED
    BY <1>4, <2>1 DEF SendInv, Published
<1>5. CASE UNCHANGED allvars
  BY <1>4, <1>5 DEF allvars
<1>. QED
  BY <1>1, <1>2, <1>3, <1>4, <1>5, Sides, ReceiveIsReader

LEMMA NextRecvInv ==
  ASSUME IInv, SendInv, RecvInv, [ChannelNext]_allvars
  PROVE  RecvInv'
<1>0. /\ recv \in [at : {"idle", "assign", "release"}, token : Slots, id : Nat, length : Nat]
      /\ head \in Slots /\ tail \in Slots
      /\ payload \in [Slots -> Nat] /\ length \in [Slots -> 0..SlotSize]
  BY OptionsAssumption DEF RecvInv, IInv, TypeOK
<1>1. CASE (WriterStep \/ UNCHANGED vars) /\ UNCHANGED recv
  <2>1. CASE UNCHANGED vars
    BY <1>1, <2>1 DEF RecvInv, vars, ring, rvars
  <2>2. CASE WriterStep /\ recv.at # "idle"
    <3>1. head # tail
      BY <2>2 DEF RecvInv, IInv, ReaderInv, ring_has_data
    <3>2. /\ UNCHANGED <<head, rpc, leased>>
          /\ payload'[head] = payload[head] /\ length'[head] = length[head]
      BY <1>0, <2>2, <3>1, WriterLeavesReader DEF rvars
    <3>. QED
      BY <1>0, <1>1, <3>2 DEF RecvInv
  <2>3. CASE recv.at = "idle"
    BY <1>0, <1>1, <2>3 DEF RecvInv
  <2>. QED
    BY <1>1, <2>1, <2>2, <2>3
<1>2. CASE ReceiveNothing \/ DirectRead
  BY <1>0, <1>2 DEF ReceiveNothing, DirectRead, RecvInv
<1>3. CASE ReceiveFrame
  <2>1. /\ rpc' = "idle" /\ leased' /\ UNCHANGED <<head, length>>
        /\ recv' = [at |-> "assign", token |-> head, id |-> Torn, length |-> length[head]]
    BY <1>3 DEF ReceiveFrame, TryAcquire, ReaderReturns, ring
  <2>2. length[head] \in Nat
    BY <1>0, OptionsAssumption
  <2>. QED
    BY <1>0, <2>1, <2>2 DEF RecvInv, Torn
<1>4. CASE AssignFrame
  <2>1. /\ UNCHANGED <<head, length, payload, rpc, leased>> /\ recv.at = "assign"
        /\ recv' = [recv EXCEPT !.at = "release", !.id = Observed(FALSE)]
    BY <1>4 DEF AssignFrame, vars, ring, rvars
  <2>2. Observed(FALSE) = payload[head] /\ payload[head] \in Nat
    BY <1>0, <2>1 DEF RecvInv, IInv, ReaderInv, Observed
  <2>. QED
    BY <1>0, <2>1, <2>2 DEF RecvInv
<1>5. CASE ReleaseFrame
  BY <1>0, <1>5, OptionsAssumption DEF ReleaseFrame, RecvInv, NoReceive, Slots, Torn
<1>6. CASE UNCHANGED allvars
  BY <1>1, <1>6 DEF allvars
<1>. QED
  BY <1>1, <1>2, <1>3, <1>4, <1>5, <1>6, Sides, SendSideIsWriter

LEMMA ChannelInvariance == ChannelSpec => []ChannelInv
<1>1. ASSUME ChannelInv, [ChannelNext]_allvars PROVE ChannelInv'
  <2>1. IInv /\ SendInv /\ RecvInv
    BY <1>1 DEF ChannelInv
  <2>2. [Next]_vars
    BY <1>1, <2>1, StepsAreRing
  <2>3. IInv'
    BY <2>1, <2>2, NextTypeOK, NextDelivery, NextWriterInv, NextReaderInv DEF IInv
  <2>. QED
    BY <1>1, <2>1, <2>3, NextSendInv, NextRecvInv DEF ChannelInv
<1>. QED
  BY InitChannelInv, <1>1, PTL DEF ChannelSpec

-----------------------------------------------------------------------------
(* The theorems.                                                           *)

\* A program that uses the ring through a FrameChannel, or directly between
\* the channel's calls, makes only calls that the ring's own specification
\* has: what is proved of LocalShmRing holds below the channel.
THEOREM ChannelUsesRing == ChannelSpec => Spec
<1>1. ChannelInit => Init
  BY DEF ChannelInit
<1>2. ChannelInv /\ [ChannelNext]_allvars => [Next]_vars
  BY StepsAreRing DEF ChannelInv
<1>. QED
  BY <1>1, <1>2, ChannelInvariance, PTL DEF ChannelSpec, Spec

\* Below a channel no wake-up is lost, a held slot is never touched and
\* frames leave whole, in order and once.
THEOREM RingBelowChannel ==
  ChannelSpec => []NoLostWakeup /\ HeldSlotStable /\ ImplementsFifo
BY ChannelUsesRing, WakeupsNeverLost, HeldSlotsAreStable, RingImplementsFifo, PTL

\* send_frame() returns "ok" exactly if it published its frame, and published
\* nothing where it fails or tries again; the bytes receive_frame() copies
\* are those of the next frame, whole.
THEOREM ChannelCallsAreTrue == ChannelSpec => []ChannelIsTrue
<1>1. ASSUME ChannelInv PROVE SendIsTrue
  BY <1>1 DEF ChannelInv, SendInv, SendIsTrue, Published
<1>2. ASSUME ChannelInv PROVE ReceivedIsWhole
  <2>1. SUFFICES ASSUME recv.at = "release"
                 PROVE  /\ Len(taken) < Len(sent)
                        /\ sent[Len(taken) + 1] = [id |-> recv.id, length |-> recv.length]
    BY DEF ReceivedIsWhole
  <2>2. /\ head \in Slots /\ tail \in Slots /\ head # tail
        /\ sent \in Seq(Frame) /\ Len(sent) \in Nat /\ Len(taken) \in Nat
    BY <1>2, <2>1 DEF ChannelInv, RecvInv, IInv, TypeOK, ReaderInv, ring_has_data
  <2>3. Distance(head, head) = 0 /\ Used \in 1..(SlotCount - 1)
    BY <2>2, DistanceRange, OptionsAssumption DEF Used
  <2>4. /\ Len(sent) = Len(taken) + Used
        /\ payload[head] = Len(taken) + 1
        /\ length[head] = sent[Len(taken) + 1].length
    BY <1>2, <2>2, <2>3, OptionsAssumption, SMTT(30) DEF ChannelInv, IInv, RingContents
  <2>5. Len(taken) + 1 \in 1..Len(sent)
    BY <2>2, <2>3, <2>4, OptionsAssumption
  <2>6. sent[Len(taken) + 1].id = Len(taken) + 1 /\ sent[Len(taken) + 1] \in Frame
    BY <1>2, <2>2, <2>5 DEF ChannelInv, IInv, RingContents
  <2>7. recv.id = payload[head] /\ recv.length = length[head]
    BY <1>2, <2>1 DEF ChannelInv, RecvInv
  <2>. QED
    BY <2>2, <2>4, <2>5, <2>6, <2>7 DEF Frame
<1>. QED
  BY <1>1, <1>2, ChannelInvariance, PTL DEF ChannelIsTrue

=============================================================================
