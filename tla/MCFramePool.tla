----------------------------- MODULE MCFramePool -----------------------------
(* Instances of FramePool for TLC.                                         *)
EXTENDS FramePool, TLC

Symmetry == Permutations(Thread)
=============================================================================
