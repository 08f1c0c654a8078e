------------------------------ MODULE BytePipe ------------------------------
(***************************************************************************)
(* What one direction of a byte stream promises: the bytes accepted from   *)
(* the writer reach the reader in order and once, and the reader is told   *)
(* of the end only when there is nothing left to deliver and nothing more  *)
(* is accepted.  A byte is known by its place in the stream, so the two    *)
(* counts say which bytes are on either side.                              *)
(***************************************************************************)
EXTENDS Naturals

CONSTANT MaxBytes   \* most bytes accepted in one step

VARIABLES
  accepted,    \* how many bytes the writer was told are written
  delivered,   \* how many of them the reader was given
  ended        \* the reader was told that the stream is over

vars == <<accepted, delivered, ended>>

Init == accepted = 0 /\ delivered = 0 /\ ended = FALSE

Accept(n) ==
  /\ ~ended
  /\ accepted' = accepted + n
  /\ UNCHANGED <<delivered, ended>>

Deliver(n) ==
  /\ ~ended
  /\ delivered + n <= accepted
  /\ delivered' = delivered + n
  /\ UNCHANGED <<accepted, ended>>

End ==
  /\ delivered = accepted
  /\ ended' = TRUE
  /\ UNCHANGED <<accepted, delivered>>

Next == End \/ \E n \in 1..MaxBytes : Accept(n) \/ Deliver(n)

Spec == Init /\ [][Next]_vars

=============================================================================
