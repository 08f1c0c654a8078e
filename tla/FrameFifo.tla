----------------------------- MODULE FrameFifo -----------------------------
(***************************************************************************)
(* What a frame-preserving transport promises: frames come out whole, in   *)
(* the order they were accepted, each at most once, and at most Capacity   *)
(* of them are in flight.  LocalShmRing is shown to implement it.          *)
(***************************************************************************)
EXTENDS Naturals, Sequences

CONSTANTS
  Capacity,   \* most frames accepted and not yet delivered
  MaxLength   \* longest frame

VARIABLES
  accepted,   \* every frame accepted so far, oldest first
  delivered   \* every frame the receiver is done with, oldest first

vars == <<accepted, delivered>>

\* A frame is known by its place in the order of acceptance and its length.
Frame == [id : Nat, length : Nat]

Init ==
  /\ accepted = << >>
  /\ delivered = << >>

Accept(n) ==
  /\ Len(accepted) - Len(delivered) < Capacity
  /\ accepted' = Append(accepted, [id |-> Len(accepted) + 1, length |-> n])
  /\ UNCHANGED delivered

Deliver ==
  /\ Len(delivered) < Len(accepted)
  /\ delivered' = Append(delivered, accepted[Len(delivered) + 1])
  /\ UNCHANGED accepted

Next == Deliver \/ \E n \in 0..MaxLength : Accept(n)

Spec == Init /\ [][Next]_vars

=============================================================================
