---------------------------- MODULE LocalShmRing ----------------------------
(***************************************************************************)
(* One direction of a LocalShmRingTransport pair: the endpoint that        *)
(* writes, the endpoint that reads, the slot ring they share and the two   *)
(* eventfds that wake them.  The other direction of a pair has a ring and  *)
(* eventfds of its own, so a pair is two copies of this module.            *)
(*                                                                         *)
(* Every access to memory or a descriptor that the other side can touch is *)
(* a step of its own; what a thread does to its own fields happens with    *)
(* the shared access next to it.  head is stored by the reader only and    *)
(* tail by the writer only, both with release order and loaded with        *)
(* acquire order, so the interleaving of these steps covers the            *)
(* executions of the code.                                                 *)
(*                                                                         *)
(* A frame is its place in the order of writes (id) and its length: the    *)
(* bytes themselves never influence the transport.                         *)
(***************************************************************************)
EXTENDS Integers, Sequences

CONSTANTS
  SlotCount,  \* LocalShmRingOptions::slot_count
  SlotSize,   \* LocalShmRingOptions::slot_size
  MaxWrites   \* bound on the writes of one behaviour

\* create_pair rejects fewer than two slots and empty slots.
ASSUME OptionsAssumption ==
  /\ SlotCount \in Nat /\ SlotCount >= 2
  /\ SlotSize \in Nat /\ SlotSize >= 1
  /\ MaxWrites \in Nat

VARIABLES
  head,       \* RingControl::head, index of the oldest unread slot
  tail,       \* RingControl::tail, index of the next slot to fill
  payload,    \* slot index -> id of the frame whose bytes the slot holds
  length,     \* slot index -> SlotHeader::length
  readable,   \* readable_eventfd has a non-zero count
  writable,   \* writable_eventfd has a non-zero count
  wpc,        \* where the writing thread is
  wlen,       \* source.size() of the write in progress
  wlast,      \* what the writer's last call returned
  wopen,      \* the writing endpoint is open
  rpc,        \* where the reading thread is
  rwant,      \* destination.size() of the read in progress
  rlast,      \* what the reader's last call returned
  ropen,      \* the reading endpoint is open
  index,      \* read_slot_index_
  offset,     \* read_slot_offset_
  active,     \* read_slot_active_
  leased,     \* zero_copy_active_
  seen,       \* history: the frame the reader has seen in the slot it holds
  sent,       \* history: frames published by the writer
  taken       \* history: frames the reader consumed whole

wvars == <<wpc, wlen, wlast, wopen>>
rvars == <<rpc, rwant, rlast, ropen, index, offset, active, leased, seen>>
ring  == <<head, tail, payload, length>>
vars  == <<ring, readable, writable, wvars, rvars, sent, taken>>

Slots == 0..(SlotCount - 1)
Torn  == 0   \* no frame has this id: bytes of two frames were mixed

WriterCalls == {"idle", "copy", "length", "publish", "notify", "poll", "poll_forever"}
ReaderCalls == {"idle", "copy", "advance", "notify", "check", "drain", "poll", "poll_forever"}
Results == {"none", "ok", "would_block", "exhausted", "io_error", "invalid_argument",
            "not_found", "end_of_stream", "ready", "timeout"}

Succ(i) == (i + 1) % SlotCount
ring_has_data  == head # tail
\* Faulty variants (named after the definition they stand in for, then the
\* fault) show that each property below can fail; no specification uses them.
ring_has_space_Unchecked == TRUE
ring_has_space == Succ(tail) # head

Init ==
  /\ head = 0 /\ tail = 0
  /\ payload = [i \in Slots |-> Torn]
  /\ length = [i \in Slots |-> 0]
  /\ readable = FALSE /\ writable = FALSE
  /\ wpc = "idle" /\ wlen = 0 /\ wlast = "none" /\ wopen = TRUE
  /\ rpc = "idle" /\ rwant = 0 /\ rlast = "none" /\ ropen = TRUE
  /\ index = 0 /\ offset = 0 /\ active = FALSE /\ leased = FALSE
  /\ seen = Torn /\ sent = << >> /\ taken = << >>

-----------------------------------------------------------------------------
(* The writing endpoint.                                                   *)

WriterReturns(result) == wpc' = "idle" /\ wlast' = result

\* write() of n bytes: the early returns.
WriteClosed ==
  /\ wpc = "idle" /\ ~wopen
  /\ WriterReturns("io_error")
  /\ UNCHANGED <<ring, readable, writable, wlen, wopen, rvars, sent, taken>>

WriteRefused(n) ==
  /\ wpc = "idle" /\ wopen
  /\ \/ ~ring_has_space /\ WriterReturns("would_block")
     \/ ring_has_space /\ n > SlotSize /\ WriterReturns("exhausted")
  /\ UNCHANGED <<ring, readable, writable, wlen, wopen, rvars, sent, taken>>

\* write() that found space: copy, store the length, store tail, notify.
WriteClaim(n) ==
  /\ wpc = "idle" /\ wopen
  /\ Len(sent) < MaxWrites
  /\ ring_has_space /\ n <= SlotSize
  /\ wpc' = "copy" /\ wlen' = n
  /\ UNCHANGED <<ring, readable, writable, wlast, wopen, rvars, sent, taken>>

WriteCopy ==
  /\ wpc = "copy"
  /\ payload' = [payload EXCEPT ![tail] = Len(sent) + 1]
  /\ wpc' = "length"
  /\ UNCHANGED <<head, tail, length, readable, writable, wlen, wlast, wopen, rvars, sent, taken>>

WriteLength ==
  /\ wpc = "length"
  /\ length' = [length EXCEPT ![tail] = wlen]
  /\ wpc' = "publish"
  /\ UNCHANGED <<head, tail, payload, readable, writable, wlen, wlast, wopen, rvars, sent, taken>>

WritePublish ==
  /\ wpc = "publish"
  /\ tail' = Succ(tail)
  /\ sent' = Append(sent, [id |-> Len(sent) + 1, length |-> wlen])
  /\ wpc' = "notify" /\ wlen' = 0
  /\ UNCHANGED <<head, payload, length, readable, writable, wlast, wopen, rvars, taken>>

WriteNotify_Silent ==
  /\ wpc = "notify"
  /\ WriterReturns("ok")
  /\ UNCHANGED <<ring, readable, writable, wlen, wopen, rvars, sent, taken>>

WriteNotify ==
  /\ wpc = "notify"
  /\ readable' = TRUE
  /\ WriterReturns("ok")
  /\ UNCHANGED <<ring, writable, wlen, wopen, rvars, sent, taken>>

\* wait_until_writable(timeout): look at the ring, then poll the eventfd.
\* A negative timeout never expires ("poll_forever").
WaitWritable(how) ==
  /\ wpc = "idle"
  /\ \/ ~wopen /\ WriterReturns("invalid_argument")
     \/ wopen /\ ring_has_space /\ WriterReturns("ready")
     \/ wopen /\ ~ring_has_space /\ wpc' = how /\ UNCHANGED wlast
  /\ UNCHANGED <<ring, readable, writable, wlen, wopen, rvars, sent, taken>>

PollWritable ==
  /\ wpc \in {"poll", "poll_forever"}
  /\ \/ writable /\ WriterReturns("ready")
     \/ ~writable /\ wpc = "poll" /\ WriterReturns("timeout")
  /\ UNCHANGED <<ring, readable, writable, wlen, wopen, rvars, sent, taken>>

CloseWriter ==
  /\ wpc = "idle" /\ wopen
  /\ wopen' = FALSE
  /\ UNCHANGED <<ring, readable, writable, wpc, wlen, wlast, rvars, sent, taken>>

-----------------------------------------------------------------------------
(* The reading endpoint.                                                   *)

ReaderReturns(result) == rpc' = "idle" /\ rlast' = result

\* read(): the early returns.
ReadRefused ==
  /\ rpc = "idle"
  /\ \/ ~ropen /\ ReaderReturns("end_of_stream")
     \/ ropen /\ leased /\ ReaderReturns("invalid_argument")
     \/ ropen /\ ~leased /\ ~active /\ ~ring_has_data /\ ReaderReturns("would_block")
  /\ UNCHANGED <<ring, readable, writable, wvars, rwant, ropen, index, offset, active, leased,
                 seen, sent, taken>>

\* read() of n bytes that has a slot to read from: a fresh one, or the one a
\* shorter read left unfinished.
ReadBegin(n) ==
  /\ rpc = "idle" /\ ropen /\ ~leased
  /\ \/ active /\ UNCHANGED <<index, offset, seen>>
     \/ ~active /\ ring_has_data /\ index' = head /\ offset' = 0 /\ seen' = Torn
  /\ active' = TRUE
  /\ rpc' = "copy" /\ rwant' = n
  /\ UNCHANGED <<ring, readable, writable, wvars, rlast, ropen, leased, sent, taken>>

\* The frame the reader can say it saw, given what the slot holds now.
Observed(first) ==
  IF first \/ seen = payload[index] THEN payload[index] ELSE Torn

ReadCopy_OneRead ==
  /\ rpc = "copy"
  /\ seen' = Observed(offset = 0)
  /\ offset' = IF length[index] < rwant THEN length[index] ELSE rwant
  /\ rpc' = "advance"
  /\ rwant' = 0
  /\ UNCHANGED <<ring, readable, writable, wvars, rlast, ropen, index, active, leased, sent, taken>>

ReadCopy ==
  LET remaining == length[index] - offset
      bytes_to_copy == IF remaining < rwant THEN remaining ELSE rwant
  IN  /\ rpc = "copy"
      /\ seen' = Observed(offset = 0)
      /\ offset' = offset + bytes_to_copy
      /\ IF offset' = length[index]
           THEN rpc' = "advance" /\ UNCHANGED rlast
           ELSE ReaderReturns("ok")
      /\ rwant' = 0
      /\ UNCHANGED <<ring, readable, writable, wvars, ropen, index, active, leased, sent, taken>>

\* head.store of read() and of release_receive_buffer(), after which the
\* reader has had this many bytes of this frame.
Consume(slot, frame, bytes) ==
  /\ head' = Succ(slot)
  /\ active' = FALSE /\ leased' = FALSE
  /\ rpc' = "notify"
  /\ taken' = Append(taken, [id |-> frame, length |-> bytes])
  /\ seen' = Torn

ReadAdvance ==
  /\ rpc = "advance"
  /\ Consume(index, seen, offset)
  /\ offset' = 0
  /\ UNCHANGED <<tail, payload, length, readable, writable, wvars, rwant, rlast, ropen, index,
                 sent>>

NotifyWritable ==
  /\ rpc = "notify"
  /\ writable' = TRUE
  /\ rpc' = "check"
  /\ UNCHANGED <<ring, readable, wvars, rwant, rlast, ropen, index, offset, active, leased,
                 seen, sent, taken>>

CheckEmpty ==
  /\ rpc = "check"
  /\ \/ ring_has_data /\ ReaderReturns("ok")
     \/ ~ring_has_data /\ rpc' = "drain" /\ UNCHANGED rlast
  /\ UNCHANGED <<ring, readable, writable, wvars, rwant, ropen, index, offset, active, leased,
                 seen, sent, taken>>

DrainReadable ==
  /\ rpc = "drain"
  /\ readable' = FALSE
  /\ ReaderReturns("ok")
  /\ UNCHANGED <<ring, writable, wvars, rwant, ropen, index, offset, active, leased,
                 seen, sent, taken>>

TryAcquireRefused ==
  /\ rpc = "idle"
  /\ \/ (~ropen \/ active \/ leased) /\ ReaderReturns("invalid_argument")
     \/ ropen /\ ~active /\ ~leased /\ ~ring_has_data /\ ReaderReturns("not_found")
  /\ UNCHANGED <<ring, readable, writable, wvars, rwant, ropen, index, offset, active, leased,
                 seen, sent, taken>>

TryAcquire ==
  /\ rpc = "idle" /\ ropen /\ ~active /\ ~leased /\ ring_has_data
  /\ leased' = TRUE
  /\ index' = head
  /\ seen' = payload[head]
  /\ ReaderReturns("ok")
  /\ UNCHANGED <<ring, readable, writable, wvars, rwant, ropen, offset, active, sent, taken>>

\* release_receive_buffer(lease) for a lease with this token.
ReleaseRefused(token) ==
  /\ rpc = "idle"
  /\ ~leased \/ token # head
  /\ ReaderReturns("invalid_argument")
  /\ UNCHANGED <<ring, readable, writable, wvars, rwant, ropen, index, offset, active, leased,
                 seen, sent, taken>>

Release(token) ==
  /\ rpc = "idle" /\ leased
  /\ token = head
  /\ Consume(head, Observed(FALSE), length[head])
  /\ UNCHANGED <<tail, payload, length, readable, writable, wvars, rwant, rlast, ropen, index,
                 offset, sent>>

WaitReadable_PollOnly(how) ==
  /\ rpc = "idle" /\ ropen
  /\ rpc' = how
  /\ UNCHANGED <<ring, readable, writable, wvars, rwant, rlast, ropen, index, offset, active,
                 leased, seen, sent, taken>>

WaitReadable(how) ==
  /\ rpc = "idle"
  /\ \/ ~ropen /\ ReaderReturns("invalid_argument")
     \/ ropen /\ ring_has_data /\ ReaderReturns("ready")
     \/ ropen /\ ~ring_has_data /\ rpc' = how /\ UNCHANGED rlast
  /\ UNCHANGED <<ring, readable, writable, wvars, rwant, ropen, index, offset, active, leased,
                 seen, sent, taken>>

PollReadable ==
  /\ rpc \in {"poll", "poll_forever"}
  /\ \/ readable /\ ReaderReturns("ready")
     \/ ~readable /\ rpc = "poll" /\ ReaderReturns("timeout")
  /\ UNCHANGED <<ring, readable, writable, wvars, rwant, ropen, index, offset, active, leased,
                 seen, sent, taken>>

CloseReader ==
  /\ rpc = "idle" /\ ropen
  /\ ropen' = FALSE /\ active' = FALSE /\ leased' = FALSE
  /\ UNCHANGED <<ring, readable, writable, wvars, rpc, rwant, rlast, index, offset,
                 seen, sent, taken>>

-----------------------------------------------------------------------------
WriterStep ==
  \/ WriteClosed \/ CloseWriter
  \/ \E n \in 0..(SlotSize + 1) : WriteRefused(n) \/ WriteClaim(n)
  \/ WriteCopy \/ WriteLength \/ WritePublish \/ WriteNotify
  \/ \E how \in {"poll", "poll_forever"} : WaitWritable(how)
  \/ PollWritable

ReaderStep ==
  \/ ReadRefused \/ CloseReader
  \/ \E n \in 0..SlotSize : ReadBegin(n)
  \/ ReadCopy \/ ReadAdvance \/ NotifyWritable \/ CheckEmpty \/ DrainReadable
  \/ TryAcquireRefused \/ TryAcquire
  \/ \E token \in Slots : ReleaseRefused(token) \/ Release(token)
  \/ \E how \in {"poll", "poll_forever"} : WaitReadable(how)
  \/ PollReadable

Next == WriterStep \/ ReaderStep

Spec == Init /\ [][Next]_vars

-----------------------------------------------------------------------------
(* Properties.                                                             *)

Frame == [id : Nat, length : Nat]

\* Every variable stays in its type: ring indices are slot numbers, lengths
\* fit a slot, and the program counters are points inside the calls above.
TypeOK ==
  /\ head \in Slots /\ tail \in Slots
  /\ payload \in [Slots -> Nat]
  /\ length \in [Slots -> 0..SlotSize]
  /\ readable \in BOOLEAN /\ writable \in BOOLEAN
  /\ wpc \in WriterCalls /\ wlen \in 0..SlotSize /\ wlast \in Results /\ wopen \in BOOLEAN
  /\ rpc \in ReaderCalls /\ rwant \in 0..SlotSize /\ rlast \in Results /\ ropen \in BOOLEAN
  /\ index \in Slots /\ offset \in 0..SlotSize
  /\ active \in BOOLEAN /\ leased \in BOOLEAN
  /\ seen \in Nat
  /\ sent \in Seq(Frame) /\ taken \in Seq(Frame)

\* The k-th frame read() or release_receive_buffer() is done with is the k-th
\* frame write() published, whole and with its length, whatever the
\* interleaving of the two threads and however the reads were cut up.
FifoDelivery ==
  /\ Len(taken) <= Len(sent)
  /\ \A k \in 1..Len(taken) : taken[k] = sent[k]

\* While a slot is leased or half read, no step of the writer changes its
\* bytes or its length: the sentinel slot that ring_has_space() keeps free
\* is what stops write() from reusing a slot before head moves past it.
HeldSlotStable ==
  [][(leased /\ leased') \/ (active /\ active')
       => payload'[index] = payload[index] /\ length'[index] = length[index]]_vars

\* A reader asleep in poll() with a frame in the ring is about to be woken:
\* the eventfd is set or the writer has not yet notified.  This is what
\* looking at the ring before polling and draining only after the ring was
\* seen empty must give, although a write can land between look and drain.
NoLostReadable ==
  rpc \in {"poll", "poll_forever"} /\ ring_has_data => readable \/ wpc = "notify"

\* A writer asleep in poll() with a free slot is about to be woken, although
\* head can move between its look at the ring and its poll.
NoLostWritable ==
  wpc \in {"poll", "poll_forever"} /\ ring_has_space => writable \/ rpc = "notify"

\* No wake-up is lost in either direction.
NoLostWakeup == NoLostReadable /\ NoLostWritable

=============================================================================
