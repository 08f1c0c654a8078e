------------------------- MODULE MCShmFrameChannel -------------------------
(***************************************************************************)
(* Small instances of ShmFrameChannel for TLC, with the refinement of      *)
(* FrameFifo that the ring keeps below the channel.                        *)
(***************************************************************************)
EXTENDS ShmFrameChannel, MCLocalShmRing

=============================================================================
