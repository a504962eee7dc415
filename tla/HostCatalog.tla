---------------------------- MODULE HostCatalog ----------------------------
(***************************************************************************)
(* What a client of the host's drive sees: the catalogue snapshot behind   *)
(* the mirror, inspections, and calls, over a host that executes a request *)
(* in one step.  The job table and the tokens are the subject of HostDrive; *)
(* here a reply is computed at one moment and received at a later one, is  *)
(* "pending" or "busy" any number of times, or never comes.                *)
(***************************************************************************)
EXTENDS Drive

VARIABLES client,     \* Client::Private
          reachable,  \* the transport reports the registered host as paired
          catalogs,   \* [Container -> indexed entries of every revision so far]
          replies     \* results under way to the client, by request

catalogVars == <<client, reachable, catalogs, replies>>

CatalogInit ==
  /\ client \in {NewClient(d) : d \in Container}
  /\ reachable = FALSE
  /\ catalogs = [d \in Container |-> <<{}>>]
  /\ replies = Empty

(* The bound on identifiers guards every step that may issue one. *)
bounded == client'.next <= MaxId + 1

-----------------------------------------------------------------------------
(* statHostEntry, listHostDirectory, readHostFile *)
Call ==
  /\ ~refused(client)
  /\ client' = requestDrive([client EXCEPT !.answers = insert(@, client.next, <<>>)], "stat", None)
  /\ bounded /\ UNCHANGED <<reachable, catalogs, replies>>

inspectHostFile ==
  /\ connected(client) /\ Cardinality(DOMAIN client.inspections) < MaxInspections
  /\ client' = [client EXCEPT !.next = @ + 1, !.answers = insert(@, client.next, <<>>),
                  !.inspections = insert(@, client.next, [offset |-> 0, started |-> FALSE])]
  /\ bounded /\ UNCHANGED <<reachable, catalogs, replies>>

InspectStart(i) ==
  /\ i \in DOMAIN client.inspections /\ ~client.inspections[i].started
  /\ client' = inspectPage(client, i)
  /\ bounded /\ UNCHANGED <<reachable, catalogs, replies>>

refreshContainer ==
  /\ connected(client)
  /\ client' = refreshHost(client)
  /\ bounded /\ UNCHANGED <<reachable, catalogs, replies>>

(* QTimer::singleShot(0) of finishSnapshot *)
RefreshDue ==
  /\ client.due > 0
  /\ client' = refreshHost([client EXCEPT !.due = @ - 1])
  /\ bounded /\ UNCHANGED <<reachable, catalogs, replies>>

(* The information document of a file has two chunks; it may change between them. *)
answers(d, q) ==
  IF q.container # d THEN {Failure}
  ELSE CASE q.kind = "catalog" -> {catalog(d, catalogs[d], q.args)}
         [] q.kind = "inspect" -> {Failure, [ok |-> TRUE, container |-> d, eof |-> q.args.offset = 1]}
         [] OTHER              -> {Done(d)}

(* The 0 second timer of requestDrive; the transport may refuse the envelope. *)
transmitDrive(id) ==
  /\ id \in DOMAIN client.requests /\ client.requests[id].at = "timer"
  /\ \/ connected(client) /\ client' = [client EXCEPT !.requests[id].at = "wire"]
     \/ (~connected(client) \/ ~reachable) /\ client' = finishDrive(client, id, Failure)
  /\ bounded /\ UNCHANGED <<reachable, catalogs, replies>>

(* The host executes a request on whichever drive it has open. *)
Execute(id, d) ==
  /\ id \in DOMAIN client.requests \ DOMAIN replies /\ client.requests[id].at = "wire"
  /\ \E r \in answers(d, client.requests[id]) : replies' = insert(replies, id, r)
  /\ UNCHANGED <<client, reachable, catalogs>>

(* A reply to a request that has ended meanwhile is not looked at (driveTransports). *)
forgotten(c) == Restrict(replies, DOMAIN replies \intersect DOMAIN c.requests)

Receive(id) ==
  /\ id \in DOMAIN replies
  /\ client' = receiveDrive(client, id, [type |-> "result", result |-> replies[id]])
  /\ replies' = forgotten(client')
  /\ bounded /\ UNCHANGED <<reachable, catalogs>>

(* Mutation: only an inspection has a deadline. *)
Deadline_Inspections(id) ==
  /\ id \in DOMAIN client.inspections /\ client' = finishInspection(client, id, "error")
  /\ replies' = forgotten(client')
  /\ bounded /\ UNCHANGED <<reachable, catalogs>>

(* The 30 second timers of a request and of an inspection. *)
Deadline(id) ==
  /\ \/ id \in DOMAIN client.requests /\ client' = finishDrive(client, id, Failure)
     \/ id \in DOMAIN client.inspections /\ client' = finishInspection(client, id, "error")
  /\ replies' = forgotten(client')
  /\ bounded /\ UNCHANGED <<reachable, catalogs>>

(* The one second timer and the signals that lead to update(). *)
Update ==
  /\ client' = update(client, reachable)
  /\ replies' = forgotten(client')
  /\ bounded /\ UNCHANGED <<reachable, catalogs>>

(* Sign-out, sign-in, and another drive registered: the account's signals call update(). *)
AccountChanged(d) ==
  /\ d # client.account
  /\ client' = update([client EXCEPT !.account = d], reachable)
  /\ replies' = forgotten(client')
  /\ bounded /\ UNCHANGED <<reachable, catalogs>>

Link == reachable' = ~reachable /\ UNCHANGED <<client, catalogs, replies>>

(* The host's index moves to another revision. *)
HostIndex(d) ==
  /\ Len(catalogs[d]) < MaxRevision
  /\ \E index \in SUBSET Path \ {Last(catalogs[d])} :
       catalogs' = [catalogs EXCEPT ![d] = Append(@, index)]
  /\ UNCHANGED <<client, reachable, replies>>

-----------------------------------------------------------------------------
CatalogNext ==
  \/ Call \/ inspectHostFile \/ refreshContainer \/ RefreshDue \/ Update \/ Link
  \/ \E i \in 1..MaxId : InspectStart(i) \/ transmitDrive(i) \/ Receive(i) \/ Deadline(i)
  \/ \E d \in Container, i \in 1..MaxId : Execute(i, d)
  \/ \E d \in Container \union {None} : AccountChanged(d)
  \/ \E d \in Container : HostIndex(d)

(* Timers fire: the single-shot ones and the periodic update.  Nothing is *)
(* assumed of the host or the network.                                    *)
CatalogSpec ==
  /\ CatalogInit /\ [][CatalogNext]_catalogVars
  /\ WF_catalogVars(RefreshDue) /\ WF_catalogVars(Update)
  /\ \A i \in 1..MaxId : WF_catalogVars(transmitDrive(i)) /\ WF_catalogVars(InspectStart(i)) /\ WF_catalogVars(Deadline(i))

-----------------------------------------------------------------------------
(***************************************************************************)
(* Every public call is answered exactly once (finishDrive, clearDrive,    *)
(* finishInspection): a reply, its deadline, the deadline of an inspection *)
(* and that of its page, a lost connection and a change of account race,   *)
(* and a call that is in no table any more has had its one answer.         *)
(***************************************************************************)
AnsweredOnce ==
  \A id \in DOMAIN client.answers :
    Len(client.answers[id]) = IF id \in unansweredBy(client) THEN 0 ELSE 1

(***************************************************************************)
(* The mirror that is offered to the application is the catalogue of the   *)
(* registered drive at one revision (catalogPage, driveRequest), although  *)
(* its pages were fetched one by one while the host went on changing.      *)
(***************************************************************************)
MirrorIsSnapshot ==
  LET m == client.mirror
  IN m.available => m.entries = catalogs[m.container][m.revision]

(* The run has used up its bound on identifiers. *)
Exhausted == client.next > MaxId

(***************************************************************************)
(* Every public call is answered in the end (the deadlines of requestDrive *)
(* and inspectHostFile), even if the host or the network never replies.    *)
(***************************************************************************)
Answered ==
  \A id \in 1..MaxId : id \in unansweredBy(client) ~> (id \notin unansweredBy(client) \/ Exhausted)

(***************************************************************************)
(* A refresh asked for while a snapshot is being fetched leads to another  *)
(* snapshot (finishSnapshot), unless the connection is lost first.         *)
(***************************************************************************)
RefreshServed == client.owed ~> (~client.owed \/ Exhausted)
=============================================================================
