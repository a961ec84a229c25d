----------------------------- MODULE MCSession -----------------------------
(* Session on a small instance.                                            *)
EXTENDS Session, TLC

(* The buffers are interchangeable: nothing orders or names them.          *)
FrameSymmetry == Permutations(Frames)
=============================================================================
