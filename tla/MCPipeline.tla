----------------------------- MODULE MCPipeline -----------------------------
(* Instances of Pipeline for TLC.                                          *)
EXTENDS Pipeline, TLC

Symmetry == Permutations(Threads \ Oversized) \cup Permutations(Workers)
=============================================================================
