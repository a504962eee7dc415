---------------------------- MODULE MCReplication ----------------------------
(* Instances of Replication for TLC. *)
EXTENDS Replication, TLC

CONSTANTS h, c1

OneClient == {c1}
Flat == [n \in {"p"} |-> Root]
OneName == {"p"}
Tree == [n \in {"d", "f"} |-> IF n = "f" THEN "d" ELSE Root]
TreeNames == {"d", "f"}
OnlyD == {"d"}
FlatSeed == <<[name |-> "p", body |-> 1]>>
TreeSeed == <<[name |-> "d", body |-> Directory], [name |-> "f", body |-> 2]>>
NoSeed == <<>>
Nobody == {}
FullReplica == {FALSE}
EitherPolicy == {FALSE, TRUE}
Edits == [m \in BOOLEAN |-> IF m THEN 2 ELSE 3]
TwoEdits == [m \in BOOLEAN |-> 2]
=============================================================================
