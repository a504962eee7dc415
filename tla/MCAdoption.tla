----------------------------- MODULE MCAdoption -----------------------------
(* Adoption for TLC: a host, the same host with a restored journal, one with another drive, and
   one that has the first drive. *)
EXTENDS Adoption

CONSTANTS k0, k1, k2

TwoNames == {1, 2}
Hosts == {[peer |-> "h", replica |-> "r1", container |-> k1],
          [peer |-> "h", replica |-> "r2", container |-> k1],
          [peer |-> "g", replica |-> "r3", container |-> k2],
          [peer |-> "f", replica |-> "r4", container |-> k1]}
=============================================================================
