------------------------------ MODULE MCMirror ------------------------------
(* Mirror for TLC: daemons are interchangeable only where no liveness is checked. *)
EXTENDS Mirror

CONSTANTS r1, d1, d2

OneRoot == {r1}
OneDaemon == {d1}
TwoDaemons == {d1, d2}
=============================================================================
