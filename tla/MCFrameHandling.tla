--------------------------- MODULE MCFrameHandling ---------------------------
(* All messages and raw packet modes for TLC. *)
EXTENDS FrameHandling

AllModes == {"off", "selective", "all"}
=============================================================================
