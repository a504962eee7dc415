--------------------------- MODULE MCHostCatalog ---------------------------
(* One or two drives and a few paths, for model checking. *)
EXTENDS HostCatalog

CONSTANTS a, b

TwoDrives == {a, b}
OneDrive == {a}
=============================================================================
