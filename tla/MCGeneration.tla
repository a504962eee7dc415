--------------------------- MODULE MCGeneration ---------------------------
(* Generation for TLC: peers and jobs are interchangeable. *)
EXTENDS Generation, TLC

Symmetry == Permutations(Peer) \union Permutations(Job)
=============================================================================
