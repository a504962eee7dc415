----------------------------- MODULE MCDelivery -----------------------------
(* An instance of Delivery for TLC: two daemons that overlap, and one       *)
(* consumer name shared by two reading processes.                           *)
EXTENDS Delivery

CONSTANTS d1, d2, i1, i2, app

TwoDaemons == {d1, d2}
OneConsumer == {app}
TwoReaders == {i1, i2}
SameConsumer == [i \in {i1, i2} |-> app]
=============================================================================
