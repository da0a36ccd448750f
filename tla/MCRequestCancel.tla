-------------------------- MODULE MCRequestCancel --------------------------
(* Instances of RequestCancel for TLC.                                     *)
EXTENDS RequestCancel, TLC

Symmetry == Permutations(Threads)
=============================================================================
