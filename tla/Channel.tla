------------------------------- MODULE Channel -------------------------------
(***************************************************************************)
(* What the delivery store promises (README, "Data transfer via Society    *)
(* daemon"): a durable first-in-first-out channel.  Message n is the n-th  *)
(* that was sent; it is delivered once, at position n, and a consumer's    *)
(* checkpoint moves forward within what has been delivered.                *)
(***************************************************************************)
EXTENDS Naturals

CONSTANT Consumers

VARIABLES sent,       \* number of messages sent
          received,   \* number of messages delivered
          delivered,  \* the delivered messages: {<<position, message>>}
          acks        \* [Consumers -> position]

vars == <<sent, received, delivered, acks>>

Init ==
  /\ sent = 0 /\ received = 0 /\ delivered = {}
  /\ acks = [c \in Consumers |-> 0]

Send == sent' = sent + 1 /\ UNCHANGED <<received, delivered, acks>>

(* The next messages, in the order they were sent. *)
Receive ==
  /\ received' \in Nat /\ received < received' /\ received' <= sent
  /\ delivered' = delivered \union {<<n, n>> : n \in received + 1 .. received'}
  /\ UNCHANGED <<sent, acks>>

Acknowledge(c) ==
  /\ \E n \in 1..received : n > acks[c] /\ acks' = [acks EXCEPT ![c] = n]
  /\ UNCHANGED <<sent, received, delivered>>

Next == Send \/ Receive \/ \E c \in Consumers : Acknowledge(c)

Spec == Init /\ [][Next]_vars
=============================================================================
