----------------------------- MODULE MCMainLoop -----------------------------
(* The daemon's loop for TLC. *)
EXTENDS MainLoop, TLC
=============================================================================
