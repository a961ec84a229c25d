--------------------------- MODULE MCFrameReceive ---------------------------
(* FrameReceive on a small instance.                                       *)
EXTENDS FrameReceive
=============================================================================
