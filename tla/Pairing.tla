------------------------------ MODULE Pairing ------------------------------
(***************************************************************************)
(* Automatic pairing of nearby devices: NearbyDevices (records found on    *)
(* the local network, invitations as datagrams that can be lost, repeated  *)
(* and reordered) driven by AutomaticPairing (one attempt at a time, with  *)
(* a deadline and retries), both in src/Discovery.  The encrypted link     *)
(* (LanPeer) is external: an offer, a connection that both ends confirm.   *)
(*                                                                         *)
(* A device is a number, as the code orders identifiers.  A process is     *)
(* known by its nonce; it may be given the address and port of an earlier  *)
(* one.  An offer, its invitation and the code that the connection shows   *)
(* have one number.                                                        *)
(***************************************************************************)
EXTENDS Integers, Sequences, FiniteSets, FiniteSetsExt

CONSTANTS Device,      \* devices of one account
          Desktop,     \* those that can host
          Nothing,     \* nothing
          MaxSeen,     \* requests that a device remembers: 128
          MaxOffers,   \* bound on the invitations
          MaxChanges   \* bound on restarts, resumes, changes of settings, lost or late records and links

ASSUME DeviceAssumption == Device \subseteq Nat /\ Desktop \subseteq Device /\ Nothing \notin Nat
ASSUME SeenAssumption == MaxSeen \in Nat

VARIABLES dev,     \* [Device -> NearbyDevices and AutomaticPairing]
          net,     \* datagrams on their way
          tls,     \* offers and connections, in the order they were made
          changes, \* restarts and changes so far
          expired, \* requests that are too old
          taken    \* history: how often an invitation was put before a device that remembers requests

pairingVars == <<dev, net, tls, changes, expired, taken>>
rest == <<expired, taken>>
World == [dev |-> dev, net |-> net, tls |-> tls]

Fresh(nonce) ==
  [nonce |-> nonce, auth |-> TRUE, host |-> FALSE, primary |-> Nothing,
   ep |-> [e \in Device |-> Nothing], retired |-> {}, outgoing |-> Nothing, incoming |-> Nothing,
   accepted |-> Nothing, code |-> Nothing, seen |-> {}, quiet |-> FALSE, resume |-> Nothing,
   enabled |-> TRUE, current |-> Nothing, leader |-> Nothing, owns |-> FALSE, retry |-> {}, session |-> Nothing]

PairingInit ==
  /\ \E p \in Desktop : dev = [d \in Device |-> [Fresh(1) EXCEPT !.host = d \in Desktop, !.primary = p]]
  /\ net = {} /\ tls = <<>> /\ changes = 0 /\ expired = {}
  /\ taken = [d \in Device |-> [r \in 1..MaxOffers |-> 0]]

-----------------------------------------------------------------------------
(* The records, their proofs, and what a device knows of another. *)

record(w, d) ==
  [nonce |-> w.dev[d].nonce, host |-> w.dev[d].host, primary |-> w.dev[d].primary, proof |-> w.dev[d].auth]

known(w, d, e) == e # Nothing /\ w.dev[d].ep[e] # Nothing
verified(w, d, e) == known(w, d, e) /\ w.dev[d].auth /\ w.dev[d].ep[e].proof

send(w, m) == [w EXCEPT !.net = @ \union {m}]

reply(w, d, invitation, op) ==
  [op |-> op, from |-> d, to |-> invitation.from, request |-> invitation.request,
   nonce |-> invitation.senderNonce, senderNonce |-> w.dev[d].nonce, proof |-> w.dev[d].auth]

decline(w, d) ==
  LET i == w.dev[d].incoming
      told == IF i # Nothing /\ known(w, d, i.from) THEN send(w, reply(w, d, i, "decline")) ELSE w
  IN [told EXCEPT !.dev[d].incoming = Nothing]

(* Mutation: an acceptance is kept when its attempt is over. *)
complete_Accepted(w, d) == [w EXCEPT !.dev[d].outgoing = Nothing, !.dev[d].code = Nothing]

complete(w, d) == [w EXCEPT !.dev[d].outgoing = Nothing, !.dev[d].accepted = Nothing, !.dev[d].code = Nothing]

cancel(w, d) ==
  LET o == w.dev[d].outgoing
      v == decline(w, d)
  IN complete(IF o # Nothing /\ known(w, d, o.to)
              THEN send(v, [o EXCEPT !.op = "cancel", !.proof = w.dev[d].auth]) ELSE v, d)

-----------------------------------------------------------------------------
(* The link: what a device sees of the connection it is making. *)

Closed(w, id) == [w EXCEPT !.tls[id].stage = "closed"]

phase(w, d) == IF w.dev[d].session = Nothing THEN "idle" ELSE w.tls[w.dev[d].session].stage

connected(w, d) ==
  {e \in Device : \E i \in DOMAIN w.tls : w.tls[i].stage = "paired" /\ {w.tls[i].host, w.tls[i].client} = {d, e}}

cancelPairing(w, d) ==
  IF phase(w, d) \in {"idle", "paired"} THEN w
  ELSE [Closed(w, w.dev[d].session) EXCEPT !.dev[d].session = Nothing]

stop(w, d) ==
  [w EXCEPT !.dev[d].session = Nothing,
            !.tls = [i \in DOMAIN @ |-> IF d \in {@[i].host, @[i].client} THEN [@[i] EXCEPT !.stage = "closed"]
                                        ELSE @[i]]]

-----------------------------------------------------------------------------
(* AutomaticPairing: an attempt ends, everything ends. *)

(* Mutation: a failed attempt leaves its offer open. *)
finish_Open(w, d, success) ==
  IF w.dev[d].current = Nothing THEN w
  ELSE LET v == [w EXCEPT !.dev[d].current = Nothing]
           id == w.dev[d].current
       IN IF success THEN complete([v EXCEPT !.dev[d].retry = @ \ {id}], d)
          ELSE cancel([v EXCEPT !.dev[d].retry = @ \union {id}], d)

finish(w, d, success) ==
  IF w.dev[d].current = Nothing THEN w
  ELSE LET v == [w EXCEPT !.dev[d].current = Nothing]
           id == w.dev[d].current
       IN IF success THEN complete([v EXCEPT !.dev[d].retry = @ \ {id}], d)
          ELSE cancelPairing(cancel([v EXCEPT !.dev[d].retry = @ \union {id}], d), d)

reset(w, d) ==
  LET v == [w EXCEPT !.dev[d].owns = FALSE, !.dev[d].current = Nothing, !.dev[d].leader = Nothing,
                     !.dev[d].retry = {}]
  IN IF w.dev[d].owns THEN stop(cancel(v, d), d) ELSE v

-----------------------------------------------------------------------------
(* found: a record of e arrives.  A new instance ends what was going on with the old one.  Retired
   instances are forgotten in tick, which also stands for their limit of 128. *)

found(w, d, e, r, fresh) ==
  LET old == w.dev[d].ep[e]
      restarted == old # Nothing /\ w.dev[d].auth /\ r.proof /\ old.nonce # r.nonce
      retired == (IF fresh THEN w.dev[d].retired \ {<<e, r.nonce>>} ELSE w.dev[d].retired)
                 \union (IF fresh /\ restarted THEN {<<e, old.nonce>>} ELSE {})
      v == [w EXCEPT !.dev[d].ep[e] = r, !.dev[d].retired = retired]
      x == w.dev[d]
      engaged == \/ x.outgoing # Nothing /\ x.outgoing.to = e
                 \/ x.incoming # Nothing /\ x.incoming.from = e
                 \/ x.accepted # Nothing /\ x.accepted.from = e
  IN IF ~fresh /\ <<e, r.nonce>> \in x.retired THEN w
     ELSE IF restarted /\ engaged THEN finish(cancel(v, d), d, FALSE) ELSE v

-----------------------------------------------------------------------------
(***************************************************************************)
(* A datagram that arrives.  It counts when its proof and its sender's     *)
(* record are good, and it names both processes.                           *)
(***************************************************************************)

addressed(w, d, m) ==
  /\ verified(w, d, m.from) /\ m.proof
  /\ m.nonce = w.dev[d].nonce /\ m.senderNonce = w.dev[d].ep[m.from].nonce

(* Mutation: the memory of requests is not consulted. *)
invitable_Again(w, d, m) ==
  /\ m.op = "invite" /\ addressed(w, d, m) /\ m.from \in Desktop
  /\ m.request \notin expired /\ w.dev[d].incoming = Nothing

invitable(w, d, m) ==
  /\ m.op = "invite" /\ addressed(w, d, m) /\ m.from \in Desktop
  /\ m.request \notin w.dev[d].seen \union expired /\ w.dev[d].incoming = Nothing

answered(w, d, m) ==
  LET o == w.dev[d].outgoing
  IN IF ~addressed(w, d, m) \/ o = Nothing THEN w
     ELSE IF m.request # o.request \/ m.from # o.to THEN w
     ELSE CASE m.op = "verify" -> [w EXCEPT !.dev[d].code = m.code]
            [] m.op = "accept" -> [w EXCEPT !.dev[d].quiet = TRUE]
            [] m.op = "decline" -> finish([w EXCEPT !.dev[d].outgoing = Nothing], d, FALSE)

cancelled(w, d, m) ==
  LET i == w.dev[d].incoming
  IN IF addressed(w, d, m) /\ i # Nothing /\ i.request = m.request /\ i.from = m.from
     THEN [w EXCEPT !.dev[d].incoming = Nothing] ELSE w

(* Resume: a client that remembers its host asks it directly, and both learn the other's record.
   Unlike invitations, challenges are refused when the memory of requests is full. *)
resumed(w, d, m) ==
  LET x == w.dev[d]
      ready == [op |-> "resume-ready", from |-> d, to |-> m.from, request |-> m.request,
                record |-> record(w, d), proof |-> x.auth]
      asked == /\ m.op = "resume" /\ d \in Desktop /\ x.host /\ x.primary = d
               /\ m.record.primary = d /\ m.from \notin Desktop
               /\ m.request \notin x.seen /\ Cardinality(x.seen) < MaxSeen
      awaited == /\ m.op = "resume-ready" /\ d \notin Desktop /\ m.request = x.resume
                 /\ m.record.host /\ m.record.primary = m.from
  IN IF ~(x.auth /\ m.proof /\ m.record.proof) \/ m.request \in expired THEN w
     ELSE IF asked
     THEN found(send([w EXCEPT !.dev[d].seen = @ \union {m.request}], ready), d, m.from, m.record, TRUE)
     ELSE IF awaited THEN found([w EXCEPT !.dev[d].resume = Nothing], d, m.from, m.record, TRUE)
     ELSE w

received(w, m) ==
  CASE m.op = "invite" -> IF invitable(w, m.to, m)
                          THEN [w EXCEPT !.dev[m.to].incoming = m, !.dev[m.to].seen = @ \union {m.request}]
                          ELSE w
    [] m.op \in {"verify", "accept", "decline"} -> answered(w, m.to, m)
    [] m.op = "cancel" -> cancelled(w, m.to, m)
    [] m.op \in {"resume", "resume-ready"} -> resumed(w, m.to, m)

Become(w) == \E v \in {w} : dev' = v.dev /\ net' = v.net /\ tls' = v.tls

Change == changes < MaxChanges /\ changes' = changes + 1

(* Nothing leaves the network: a datagram may come again, late, out of order or never. *)
receive(m) ==
  /\ m \in net /\ received(World, m) # World /\ Become(received(World, m))
  /\ taken' = IF m.op = "invite" /\ invitable(World, m.to, m)
              THEN [taken EXCEPT ![m.to][m.request] = @ + 1] ELSE taken
  /\ UNCHANGED <<changes, expired>>

-----------------------------------------------------------------------------
(* Discovery: the record a device publishes now, the one of its last process, or none any more. *)
Found(d, e) ==
  /\ d # e
  /\ \/ /\ dev[d].ep[e] # record(World, e) /\ Become(found(World, d, e, record(World, e), FALSE))
        /\ UNCHANGED changes
     \/ /\ dev[e].nonce > 1 /\ Change
        /\ Become(found(World, d, e, [record(World, e) EXCEPT !.nonce = @ - 1], FALSE))
     \/ dev[d].ep[e] # Nothing /\ dev' = [dev EXCEPT ![d].ep[e] = Nothing] /\ Change /\ UNCHANGED <<net, tls>>
  /\ UNCHANGED rest

(* resumeHost, sendResume: a new challenge, a negative number, goes to the remembered host. *)
sendResume(d) ==
  /\ d \notin Desktop /\ dev[d].auth /\ dev[d].primary # Nothing /\ Change
  /\ Become(send([World EXCEPT !.dev[d].resume = -changes'],
                 [op |-> "resume", from |-> d, to |-> dev[d].primary, request |-> -changes',
                  record |-> record(World, d), proof |-> TRUE]))
  /\ UNCHANGED rest

(* clear and setIdentity in an orderly end, or nothing at all in a crash; then a new process, to
   which the application gives the credentials again. *)
Restart(d) ==
  /\ Change
  /\ \E w \in {cancel(reset(World, d), d), World} :
       Become([stop(w, d) EXCEPT !.dev[d] = [Fresh(dev[d].nonce + 1) EXCEPT !.host = d \in Desktop,
                                                                           !.primary = dev[d].primary]])
  /\ UNCHANGED rest

(* setCredentials: the account, the open container and the durable primary change. *)
setCredentials(d) ==
  /\ Change
  /\ \E auth \in BOOLEAN, host \in {FALSE, (d \in Desktop)}, primary \in {Nothing} \union Desktop :
       /\ <<auth, host, primary>> # <<dev[d].auth, dev[d].host, dev[d].primary>>
       /\ LET w == [World EXCEPT !.dev[d].auth = auth, !.dev[d].host = host, !.dev[d].primary = primary]
          IN Become(IF dev[d].auth /\ ~auth THEN reset(w, d) ELSE w)
  /\ UNCHANGED rest

(***************************************************************************)
(* tick: requests are forgotten some time after they expire, retired       *)
(* instances after 70 seconds, and all requests when there are too many:   *)
(* from then on, what is still valid may be put before the device again.   *)
(* An invitation that is not accepted yet is sent again.                   *)
(***************************************************************************)
tick(d) ==
  \E old \in SUBSET (dev[d].seen \intersect expired), gone \in SUBSET dev[d].retired :
    LET x == dev[d]
        full == Cardinality(x.seen \ old) > MaxSeen
        kept == [World EXCEPT !.dev[d].seen = IF full THEN {} ELSE @ \ old,
                              !.dev[d].retired = @ \ gone,
                              !.dev[d].incoming = IF @ # Nothing /\ x.incoming.request \in expired THEN Nothing ELSE @]
        ended == x.outgoing # Nothing /\ x.outgoing.request \in expired
    IN /\ \/ ended /\ Become(finish([kept EXCEPT !.dev[d].outgoing = Nothing], d, FALSE))
          \/ /\ ~ended /\ x.outgoing # Nothing /\ ~x.quiet /\ known(World, d, x.outgoing.to)
             /\ Become(send(kept, x.outgoing))
          \/ ~ended /\ kept # World /\ Become(kept)
       /\ taken' = IF full THEN [taken EXCEPT ![d] = [r \in 1..MaxOffers |-> 0]] ELSE taken
       /\ UNCHANGED <<changes, expired>>

(* An invitation is good for about a minute, as its link, and a challenge for five seconds. *)
Expire(r) ==
  /\ r \notin expired /\ Change /\ expired' = expired \union {r}
  /\ UNCHANGED <<dev, net, tls, taken>>

-----------------------------------------------------------------------------
(***************************************************************************)
(* pump: the leader is the device's primary, else an established primary   *)
(* that a device names, else the first host; the leader invites, the       *)
(* others wait for it.                                                     *)
(***************************************************************************)

devices(w, d) == {e \in Device : verified(w, d, e)}

First(S) == IF S = {} THEN Nothing ELSE Min(S)

leader(w, d) ==
  LET x == w.dev[d]
      hosts == {e \in devices(w, d) : x.ep[e].host} \union (IF x.host THEN {d} ELSE {})
      established == {x.ep[e].primary : e \in devices(w, d)} \ {Nothing}
  IN IF x.primary # Nothing THEN x.primary
     ELSE IF x.owns /\ connected(w, d) # {} /\ x.leader \notin devices(w, d) THEN x.leader
     ELSE IF established # {} THEN First(established) ELSE First(hosts)

(* A change of the leader ends the attempt and the transport that pairing owns. *)
led(w, d) ==
  LET l == leader(w, d)
      v == finish(w, d, FALSE)
  IN IF l = w.dev[d].leader THEN w
     ELSE [IF v.dev[d].owns THEN stop(v, d) ELSE v EXCEPT !.dev[d].owns = FALSE, !.dev[d].leader = l]

queue(w, d) ==
  {e \in devices(w, d) \ connected(w, d) : w.dev[d].leader \in {d, e}}

(* An attempt under way: it fails, or the client proves the connection and the host confirms it. *)
attempt(w, d, late) ==
  LET x == w.dev[d]
  IN IF x.current \notin devices(w, d) \/ late \/ phase(w, d) = "closed" THEN finish(w, d, FALSE)
     ELSE IF phase(w, d) # "confirming" THEN w
     ELSE IF x.leader = d
     THEN IF x.code = Nothing THEN w
          ELSE IF x.code # x.session THEN finish(w, d, FALSE)
          ELSE finish([w EXCEPT !.tls[x.session].stage = "paired"], d, TRUE)
     ELSE IF x.accepted # Nothing /\ x.accepted.request \notin expired /\ known(w, d, x.accepted.from)
     THEN send(w, [op |-> "verify", from |-> d, to |-> x.accepted.from, request |-> x.accepted.request,
                   nonce |-> x.accepted.senderNonce, senderNonce |-> x.nonce, proof |-> TRUE, code |-> x.session])
     ELSE w

(* accept: the client takes its leader's invitation and joins the link, which may fail. *)
accept(w, d, fails) ==
  LET i == w.dev[d].incoming
      v == [w EXCEPT !.dev[d].current = w.dev[d].leader, !.dev[d].owns = TRUE]
      agreed == [send(v, reply(v, d, i, "accept")) EXCEPT !.dev[d].accepted = i, !.dev[d].incoming = Nothing]
  IN IF i.request \in expired \/ ~verified(w, d, i.from) THEN finish(decline(v, d), d, FALSE)
     ELSE IF fails THEN finish(agreed, d, FALSE)
     ELSE [agreed EXCEPT !.dev[d].session = i.request]

(* invite: a new offer, for a device that is not waiting for its retry.  When the transport or the
   offer cannot be made, the attempt has failed. *)
invite(w, d, e, fails) ==
  LET r == Len(w.tls) + 1
      o == [op |-> "invite", from |-> d, to |-> e, request |-> r, nonce |-> w.dev[d].ep[e].nonce,
            senderNonce |-> w.dev[d].nonce, proof |-> TRUE]
      v == cancel(w, d)
  IN IF fails THEN finish([w EXCEPT !.dev[d].current = e, !.dev[d].owns = TRUE], d, FALSE)
     ELSE send([v EXCEPT !.tls = Append(@, [host |-> d, client |-> e, stage |-> "offered"]),
                         !.dev[d].current = e, !.dev[d].owns = TRUE, !.dev[d].session = r,
                         !.dev[d].outgoing = o, !.dev[d].quiet = FALSE], o)

pumped(w, d, late) ==
  LET x == w.dev[d]
      i == x.incoming
      free == {e \in queue(w, d) : e \notin x.retry}
  IN IF x.current # Nothing THEN attempt(w, d, late)
     ELSE IF i # Nothing
     THEN IF x.leader = d \/ i.from # x.leader \/ x.leader \in connected(w, d) THEN decline(w, d)
          ELSE accept(w, d, late)
     ELSE IF x.leader = d /\ free # {} /\ phase(w, d) \in {"idle", "closed", "paired"} /\ Len(w.tls) < MaxOffers
     THEN invite(w, d, First(free), late)
     ELSE w

pump(d, late) ==
  /\ dev[d].auth
  /\ LET w == led(World, d)
         v == [w EXCEPT !.dev[d].retry = @ \intersect devices(w, d)]
     IN Become(IF ~dev[d].enabled THEN decline(World, d) ELSE pumped(v, d, late))
  /\ UNCHANGED <<changes, rest>>

Pump(d) == pump(d, FALSE)

(* The deadline of the attempt under way is over, or the start of a new one fails. *)
Deadline(d) == pump(d, TRUE)

(* The delay before a retry, at most eight seconds, is over. *)
Backoff(d) ==
  /\ dev[d].retry # {} /\ dev' = [dev EXCEPT ![d].retry = {}]
  /\ UNCHANGED <<net, tls, changes, rest>>

(* setEnabled: manual pairing takes over, or gives back. *)
setEnabled(d) ==
  /\ Change
  /\ LET w == IF dev[d].enabled /\ dev[d].current # Nothing THEN cancelPairing(cancel(World, d), d) ELSE World
     IN Become([w EXCEPT !.dev[d].enabled = ~@, !.dev[d].current = IF dev[d].enabled THEN Nothing ELSE @])
  /\ UNCHANGED rest

-----------------------------------------------------------------------------
(* The link. *)

Connect(i) ==
  /\ tls[i].stage = "offered" /\ dev[tls[i].client].session = i /\ dev[tls[i].host].session = i
  /\ tls' = [tls EXCEPT ![i].stage = "confirming"]
  /\ UNCHANGED <<dev, net, changes, rest>>

(* LanPeer::paired at the client. *)
Paired(d) ==
  /\ dev[d].current # Nothing /\ phase(World, d) = "paired"
  /\ Become(finish(World, d, TRUE)) /\ UNCHANGED <<changes, rest>>

Disconnect(i) ==
  /\ tls[i].stage \in {"confirming", "paired"} /\ Change
  /\ tls' = [tls EXCEPT ![i].stage = "closed"]
  /\ UNCHANGED <<dev, net, rest>>

PairingNext ==
  \/ \E m \in net : receive(m)
  \/ \E d, e \in Device : Found(d, e)
  \/ \E d \in Device :
       \/ sendResume(d) \/ Restart(d) \/ setCredentials(d) \/ tick(d) \/ Pump(d) \/ Deadline(d)
       \/ Backoff(d) \/ setEnabled(d) \/ Paired(d)
  \/ \E r \in {m.request : m \in net} : Expire(r)
  \/ \E i \in 1..MaxOffers : i \in DOMAIN tls /\ (Connect(i) \/ Disconnect(i))

PairingSpec == PairingInit /\ [][PairingNext]_pairingVars

-----------------------------------------------------------------------------
(* An invitation is put before a device at most once while the device remembers requests, whatever
   the network repeats and however often either process restarts: the memory of a request outlives
   the request.  tick clears the memory when it holds more than MaxSeen requests, and counting starts
   again: nothing better holds, as invitations are entered without a limit. *)
InvitedOnce == \A d \in Device : \A r \in 1..MaxOffers : taken[d][r] <= 1

(* An invitation, an acceptance and a connection being made belong to the attempt under way: none
   outlives it, which would block every later attempt. *)
AttemptBacked ==
  \A d \in Device :
    /\ dev[d].outgoing # Nothing => dev[d].current = dev[d].outgoing.to
    /\ dev[d].accepted # Nothing => dev[d].current = dev[d].accepted.from
    /\ phase(World, d) \in {"offered", "confirming"} => dev[d].current # Nothing

(* Nobody waits for nobody: when all devices are signed in, enabled and know each other, the hosts are
   available, and no timer, datagram or step of the link would change anything, a host that leads, and
   the only one there is, is paired with every other device.  A request forgotten on one side, an offer
   left open or a leader the other does not accept would leave both waiting. *)
Ready ==
  \A d, e \in Device :
    /\ dev[d].auth /\ dev[d].enabled /\ dev[d].host = (d \in Desktop) /\ dev[d].retry = {}
    /\ d # e => known(World, d, e) /\ dev[d].ep[e] = record(World, e)
Still ==
  /\ Len(tls) < MaxOffers
  /\ \A d \in Device : dev[d].current = Nothing /\ pumped(led(World, d), d, FALSE) = World
  /\ \A m \in net : received(World, m) = World
NoSilentWait ==
  Ready /\ Still =>
    \A h \in Desktop, d \in Device :
      h # d /\ (Desktop = {h} \/ leader(World, h) = h) => d \in connected(World, h)
=============================================================================
