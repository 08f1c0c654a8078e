--------------------------- MODULE ByteRingBuffer ---------------------------
(***************************************************************************)
(* ByteRingBuffer<Capacity>: the byte ring a StreamRuntime reads into.     *)
(* One slot stays empty to tell a full ring from an empty one.             *)
(***************************************************************************)
EXTENDS Integers, Sequences

CONSTANT Capacity

\* static_assert(Capacity > 1)
ASSUME CapacityAssumption == Capacity \in Nat /\ Capacity > 1

VARIABLES
  head,     \* head_, where the oldest unread byte is
  tail,     \* tail_, where the next byte goes
  storage   \* storage_

buffer == <<head, tail, storage>>

Indices == 0..(Capacity - 1)

capacity == Capacity - 1

size == IF tail >= head THEN tail - head ELSE Capacity - head + tail

free_space == capacity - size

has_wrapped_readable_data == size # 0 /\ tail <= head

Smaller(a, b) == IF a < b THEN a ELSE b

\* Faulty variants, named after the definition they stand in for and the
\* fault, show that the properties about it can fail; no specification uses
\* them.
writable_length_ShortEnd ==
  IF free_space = 0 THEN 0
  ELSE IF tail >= head THEN Smaller(Capacity - 1 - tail, free_space)
  ELSE head - tail - 1

\* Size of writable_span(), which starts at tail.
writable_length ==
  IF free_space = 0 THEN 0
  ELSE IF tail >= head
    THEN Smaller((IF head = 0 THEN Capacity - 1 ELSE Capacity) - tail, free_space)
    ELSE head - tail - 1

\* Size of readable_span(), which starts at head.
readable_length ==
  IF size = 0 THEN 0
  ELSE IF tail > head THEN tail - head
  ELSE Capacity - head

readable_span == [k \in 1..readable_length |-> storage[head + k - 1]]

linearize_Shifted ==
  [k \in 1..size |-> IF k <= readable_length THEN storage[head + k - 1]
                                             ELSE storage[k - readable_length]]

\* What linearize() copies out: readable_span(), then the start of storage_.
linearize ==
  [k \in 1..size |-> IF k <= readable_length THEN storage[head + k - 1]
                                             ELSE storage[k - readable_length - 1]]

\* Bytes stored at the start of writable_span(), then commit_write().
CommitWrite(bytes) ==
  /\ storage' = [i \in Indices |-> IF i \in tail..(tail + Len(bytes) - 1)
                                     THEN bytes[i - tail + 1] ELSE storage[i]]
  /\ tail' = (tail + Len(bytes)) % Capacity
  /\ UNCHANGED head

Consume_NoWrap(n) ==
  /\ head' = Smaller(head + n, Capacity - 1)
  /\ UNCHANGED <<tail, storage>>

Consume(n) ==
  /\ head' = (head + n) % Capacity
  /\ UNCHANGED <<tail, storage>>

=============================================================================
