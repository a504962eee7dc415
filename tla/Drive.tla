------------------------------- MODULE Drive -------------------------------
(***************************************************************************)
(* The state of a client of the host's drive and what each event makes of  *)
(* it: requests, catalogue snapshot, inspections and mirror of             *)
(* src/Client/Client.cpp, and the page of the catalogue that               *)
(* Replica::driveRequest of src/Sync/Replica.cpp returns.  HostDrive and   *)
(* HostCatalog give the two ends a behaviour.                              *)
(***************************************************************************)
EXTENDS Integers, Sequences, FiniteSets, SequencesExt, FiniteSetsExt, Functions

CONSTANTS Container,      \* drives the account may register
          None,           \* no drive, no snapshot
          Path,           \* paths of a drive, naturals from 1 in catalogue order
          MaxRequests,    \* 16: requests of one client
          MaxInspections, \* 8: inspections of one client
          PageSize,       \* 128: entries of a catalogue page
          MaxId,          \* bound on the requests and inspections issued
          MaxRevision     \* bound on the catalogue revisions of a drive

(* A snapshot being fetched: its revision, the last path it has, and its entries. *)
Snapshot == [revision : Nat, cursor : Nat, keys : SUBSET Path]

ASSUME NoneAssumption == None \notin Container /\ None \notin Snapshot
ASSUME PathAssumption == Path \subseteq Nat \ {0}
ASSUME CapacityAssumption == {MaxRequests, MaxInspections, PageSize} \subseteq Nat \ {0}

Failure == [ok |-> FALSE]
Empty == [x \in {} |-> 0]

(* QHash::insert *)
insert(table, id, value) == [x \in DOMAIN table \union {id} |-> IF x = id THEN value ELSE table[x]]

NewSnapshot == [revision |-> 0, cursor |-> 0, keys |-> {}]
NoMirror == [container |-> None, revision |-> 0, entries |-> {}, available |-> FALSE]

(* A client of an account with the registered drive d, before its first update(). *)
NewClient(d) ==
  [account |-> d, registered |-> None, online |-> FALSE, requests |-> Empty,
   inspections |-> Empty, snapshot |-> None, again |-> FALSE, due |-> 0,
   mirror |-> NoMirror, next |-> 1, answers |-> Empty, owed |-> FALSE]

-----------------------------------------------------------------------------
(* The client.  Every function returns the client's new state.             *)

connected(c) == c.online /\ c.account # None /\ c.registered = c.account

(* requestDrive returns no identifier. *)
refused(c) == ~connected(c) \/ Cardinality(DOMAIN c.requests) >= MaxRequests

(***************************************************************************)
(* requestDrive, when there is room: the identifier is returned first, the *)
(* transmission and the 30 second deadline are timers.                     *)
(***************************************************************************)
requestDrive(c, kind, args) ==
  [c EXCEPT !.next = @ + 1,
            !.requests = insert(@, c.next, [kind |-> kind, args |-> args, container |-> c.account,
                                            retries |-> 0, at |-> "timer"])]

(* emit hostDriveResponse *)
emit(c, id, answer) == [c EXCEPT !.answers[id] = Append(@, answer)]

(* Mutation: a refresh asked for during a snapshot is forgotten with it. *)
finishSnapshot_NoFollowUp(c, ok) ==
  [c EXCEPT !.snapshot = None, !.again = FALSE,
            !.mirror = [container |-> c.account, revision |-> c.snapshot.revision,
                        entries |-> IF ok THEN c.snapshot.keys ELSE {}, available |-> ok]]

finishSnapshot(c, ok) ==
  [c EXCEPT !.snapshot = None,
            !.mirror = [container |-> c.account, revision |-> c.snapshot.revision,
                        entries |-> IF ok THEN c.snapshot.keys ELSE {}, available |-> ok],
            !.due = IF c.again THEN @ + 1 ELSE @,
            !.again = FALSE]

catalogPage(c) ==
  IF refused(c) THEN finishSnapshot(c, FALSE)
  ELSE requestDrive(c, "catalog", [cursor |-> c.snapshot.cursor, revision |-> c.snapshot.revision])

(* owed: a refresh was asked for and no snapshot has been started since. *)
refreshHost(c) ==
  IF ~connected(c) THEN c
  ELSE IF c.snapshot # None THEN [c EXCEPT !.again = TRUE, !.owed = TRUE]
  ELSE LET started == [c EXCEPT !.snapshot = NewSnapshot, !.owed = FALSE]
       IN  IF refused(c) THEN finishSnapshot(started, FALSE) ELSE requestDrive(started, "describe", None)

(* The completion of drive.catalog: a page extends the snapshot it belongs to. *)
validPage(s, r) ==
  /\ s.revision \in {0, r.revision}
  /\ r.cursor = 0 \/ (r.cursor > s.cursor /\ r.entries # {})
  /\ Cardinality(r.entries) <= PageSize /\ s.keys \intersect r.entries = {}

catalogued(c, r) ==
  IF ~r.ok \/ ~validPage(c.snapshot, r) THEN finishSnapshot(c, FALSE)
  ELSE LET grown == [c EXCEPT !.snapshot = [revision |-> r.revision, cursor |-> r.cursor,
                                            keys |-> @.keys \union r.entries]]
       IN  IF r.cursor = 0 THEN finishSnapshot(grown, TRUE) ELSE catalogPage(grown)

finishInspection(c, i, answer) ==
  IF i \in DOMAIN c.inspections
  THEN emit([c EXCEPT !.inspections = Restrict(@, DOMAIN @ \ {i})], i, answer)
  ELSE c

inspectPage(c, i) ==
  IF i \notin DOMAIN c.inspections THEN c
  ELSE IF refused(c) THEN finishInspection(c, i, "error")
  ELSE requestDrive([c EXCEPT !.inspections[i].started = TRUE], "inspect",
                    [for |-> i, offset |-> c.inspections[i].offset])

(* The completion of drive.inspect; a chunk of another version was refused by the host. *)
inspected(c, i, r) ==
  IF i \notin DOMAIN c.inspections THEN c
  ELSE IF ~r.ok THEN finishInspection(c, i, "error")
  ELSE IF r.eof THEN finishInspection(c, i, "inspect")
  ELSE inspectPage([c EXCEPT !.inspections[i].offset = @ + 1], i)

completion(c, q, id, r) ==
  CASE q.kind = "describe" -> IF r.ok THEN catalogPage(c) ELSE finishSnapshot(c, FALSE)
    [] q.kind = "catalog"  -> catalogued(c, r)
    [] q.kind = "inspect"  -> inspected(c, q.args.for, r)
    [] OTHER -> emit(IF r.ok /\ q.kind = "write" THEN refreshHost(c) ELSE c, id,
                     IF r.ok THEN q.kind ELSE "error")

(* Mutation: the request stays in the table, so that a late reply finds it. *)
finishDrive_Kept(c, id, r) ==
  IF id \notin DOMAIN c.requests THEN c ELSE completion(c, c.requests[id], id, r)

finishDrive(c, id, r) ==
  IF id \notin DOMAIN c.requests THEN c
  ELSE completion([c EXCEPT !.requests = Restrict(@, DOMAIN @ \ {id})], c.requests[id], id, r)

later(c, id, n) ==
  [c EXCEPT !.requests[id].at = "timer", !.requests[id].retries = @ + n]

(***************************************************************************)
(* receiveDrive.  "busy" is the refusal that precedes any execution: a     *)
(* fresh token is taken.  "pending" polls again with the same token.       *)
(***************************************************************************)
receiveDrive(c, id, response) ==
  IF id \notin DOMAIN c.requests THEN c
  ELSE IF ~connected(c) THEN finishDrive(c, id, Failure)
  ELSE CASE response.type = "busy"    -> later(c, id, 1)
         [] response.type = "pending" -> later(c, id, 0)
         [] response.type = "error"   -> finishDrive(c, id, Failure)
         [] response.type = "result"  ->
              finishDrive(c, id, IF response.result.ok /\ response.result.container # c.account
                                 THEN Failure ELSE response.result)

(* Requests with a completion are dropped, the others and the inspections answered. *)
clearDrive(c) ==
  LET ids == {id \in DOMAIN c.requests : id \in DOMAIN c.answers} \union DOMAIN c.inspections
  IN [c EXCEPT !.snapshot = None, !.again = FALSE, !.owed = FALSE, !.mirror = NoMirror,
               !.requests = Empty, !.inspections = Empty,
               !.answers = [id \in DOMAIN @ |-> IF id \in ids THEN Append(@[id], "error") ELSE @[id]]]

transportStop(c) == clearDrive([c EXCEPT !.online = FALSE])

(* paired: the transport reports the registered host. *)
peers(c, paired) ==
  LET now == [c EXCEPT !.online = paired]
  IN  IF c.online /\ ~paired THEN clearDrive(now)
      ELSE IF ~c.online /\ paired THEN refreshHost(now) ELSE now

(* update(); the choice between LAN, relay and local transport is left to paired. *)
update(c, paired) ==
  IF c.account = None THEN transportStop(c)
  ELSE peers(IF c.registered # c.account
             THEN transportStop([c EXCEPT !.registered = c.account]) ELSE c, paired)

-----------------------------------------------------------------------------
(***************************************************************************)
(* drive.catalog: the entries of the index after the cursor, and the last  *)
(* of them as the next cursor when there are more.                         *)
(***************************************************************************)
pageOf(index, cursor) ==
  LET rest == {p \in index : p > cursor}
  IN {p \in rest : Cardinality({o \in rest : o <= p}) <= PageSize}

(* Mutation: the cursor names the first entry of the next page. *)
nextCursor_First(index, cursor) ==
  LET rest == {p \in index : p > cursor} \ pageOf(index, cursor)
  IN IF rest = {} THEN 0 ELSE Min(rest)

nextCursor(index, cursor) ==
  IF \E p \in index : p > cursor /\ p \notin pageOf(index, cursor)
  THEN Max(pageOf(index, cursor)) ELSE 0

(* history: the index at each revision of drive d, the last one being in force. *)
catalog(d, history, args) ==
  IF args.cursor # 0 /\ args.revision # Len(history) THEN Failure
  ELSE [ok |-> TRUE, container |-> d, revision |-> Len(history),
        entries |-> pageOf(Last(history), args.cursor), cursor |-> nextCursor(Last(history), args.cursor)]

Done(d) == [ok |-> TRUE, container |-> d]

-----------------------------------------------------------------------------
unansweredBy(c) == DOMAIN c.inspections \union (DOMAIN c.requests \intersect DOMAIN c.answers)
=============================================================================
