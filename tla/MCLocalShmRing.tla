--------------------------- MODULE MCLocalShmRing ---------------------------
(***************************************************************************)
(* Small instances of LocalShmRing for TLC.                                *)
(***************************************************************************)
EXTENDS LocalShmRing

\* The ring as the frame queue it implements: a frame is accepted when tail
\* is stored and delivered when head is stored, one slot always stays free.
Fifo == INSTANCE FrameFifo WITH
  Capacity <- SlotCount - 1, MaxLength <- SlotSize, accepted <- sent, delivered <- taken

\* The ring transport implements FrameFifo: frames leave whole, in order and
\* once, and never more than slot_count - 1 are in flight.
ImplementsFifo == Fifo!Spec

=============================================================================
