--------------------------- MODULE MCFrameRingQueue ---------------------------
(* FrameRing as an implementation of FrameQueue, for TLC.                     *)
EXTENDS FrameRingQueue
=============================================================================
