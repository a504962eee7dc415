---------------------------- MODULE MCHostDrive ----------------------------
(* One or two drives and a few paths, for model checking. *)
EXTENDS HostDrive

CONSTANTS a, b

OneDrive == {a}
TwoDrives == {a, b}
=============================================================================
