----------------------------- MODULE MCPresence -----------------------------
(* Two applications of one device, for model checking. *)
EXTENDS Presence

CONSTANTS a, b

TwoHelpers == {a, b}
=============================================================================
