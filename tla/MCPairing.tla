----------------------------- MODULE MCPairing -----------------------------
(* Pairing for TLC: device 1, a desktop, and device 2, a phone. *)
EXTENDS Pairing

Two == {1, 2}
One == {1}
=============================================================================
