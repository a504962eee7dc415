------------------------------ MODULE Adoption ------------------------------
(***************************************************************************)
(* A drive becomes the mirror of a host: Replica::open, bindHost,          *)
(* resumeAdoption, completeBootstrap and claimPrimaryHost of               *)
(* src/Sync/Replica.cpp, with the moves of ConfinedFiles::detach.  What    *)
(* the drive held is moved aside, file by file, after a plan has been      *)
(* committed; a crash, or an error, may come between any two writes.       *)
(*                                                                         *)
(* A file is known by its content: numbers are what users saved, a         *)
(* container's identifier is what that container's host sent.              *)
(***************************************************************************)
EXTENDS Integers, FiniteSetsExt

CONSTANTS Names,      \* paths directly below a section, as the plan orders them
          Offers,     \* authenticated hosts: [peer, replica, container]
          Own,        \* the container identifier the drive was created with
          None,       \* nothing
          MaxEdits,   \* bound on users' edits
          MaxBinds,   \* bound on adoptions
          MaxCrashes  \* bound on crashes and errors

ASSUME AdoptionAssumption ==
  /\ Names \subseteq Nat /\ {MaxEdits, MaxBinds, MaxCrashes} \subseteq Nat
  /\ None \notin {"detaching", "pulling"}
  /\ \A o \in Offers : o.container # Own /\ o.container \notin Int /\ o.peer # None

VARIABLES db,        \* the journal's metadata and tables, durable, written in transactions
          manifest,  \* .society-drive.json: identifier, whether the replica is published
          mirror,    \* .society-sync/mirror.json, the binding that other programs read
          primary,   \* .society-sync/primary.json exists
          disk,      \* [name -> content] in the sections
          recovered, \* [adoption -> [name -> content]] under .society-sync/detached
          logical,   \* the drive is an application's logical disk
          op,        \* the operation that holds operation.lock, or None
          opened,    \* the Replica is open
          claim,     \* another program has found neither a binding nor a primary host
          foreign,   \* history: <<content, container>> there when the container was adopted, not its own
          kept,      \* history: contents saved and not deleted by users
          disturbed, \* history: a user has touched a file that was to be moved aside
          edits, crashes

files == <<disk, recovered>>
durable == <<db, manifest, mirror, primary>>
history == <<foreign, kept, disturbed, edits>>
vars == <<durable, files, logical, op, opened, claim, history, crashes>>

Init ==
  /\ db = [container |-> Own, adoption |-> None, host |-> None, replica |-> None, target |-> None,
           complete |-> FALSE, detached |-> 0, plan |-> {}, entries |-> {}, pulled |-> None]
  /\ manifest = [id |-> Own, ready |-> TRUE]
  /\ mirror = None /\ primary = FALSE
  /\ disk = [n \in Names |-> -n] /\ recovered = <<>> /\ logical \in BOOLEAN
  /\ op = None /\ opened = FALSE /\ claim = FALSE
  /\ foreign = {} /\ kept = {-n : n \in Names} /\ disturbed = FALSE /\ edits = 0 /\ crashes = 0

-----------------------------------------------------------------------------
(* writeBinding: the binding as the journal has it; nothing while there is no host. *)
binding ==
  IF db.host = None THEN mirror
  ELSE [host |-> db.host, replica |-> db.replica, container |-> db.target, complete |-> db.complete,
        recovery |-> db.detached]

Begin(kind, offer, step) == op' = [kind |-> kind, offer |-> offer, step |-> step, todo |-> {}]
At(step) == op # None /\ op.step = step
Go(step) == op' = [op EXCEPT !.step = step]
Ended == op' = None /\ opened' = TRUE
Failed == op' = None /\ UNCHANGED opened

(* open: the drive has to be the one of this journal, or the one being adopted. *)
bound == db.container = manifest.id \/ (db.adoption = "detaching" /\ db.target = manifest.id)

open ==
  /\ op = None /\ ~opened /\ bound
  /\ Begin("open", None, "resume")
  /\ UNCHANGED <<durable, files, logical, opened, claim, history, crashes>>

same(offer) == db.host = offer.peer /\ db.target = offer.container

(* bindHost, up to its first resumeAdoption. *)
bindHost(offer, replace) ==
  /\ op = None /\ opened /\ ~primary
  /\ replace \/ db.host \in {None, offer.peer}
  /\ db.detached < MaxBinds \/ same(offer)
  /\ Begin("bind", offer, "resume")
  /\ UNCHANGED <<durable, files, logical, opened, claim, history, crashes>>

(* resumeAdoption writes the binding first; without a plan under way that is all. *)
Resume ==
  /\ At("resume") /\ mirror' = binding
  /\ IF db.adoption = "detaching" THEN Go("identity") /\ UNCHANGED opened
     ELSE IF op.kind = "bind" THEN Go("decide") /\ UNCHANGED opened
     ELSE Ended
  /\ UNCHANGED <<db, manifest, primary, files, logical, claim, history, crashes>>

(* SocietyDrive::adoptReplicaIdentity, which may find it done. *)
Identity ==
  /\ At("identity") /\ manifest' = [id |-> db.target, ready |-> FALSE]
  /\ op' = [op EXCEPT !.step = "moving", !.todo = db.plan]
  /\ UNCHANGED <<db, mirror, primary, files, logical, opened, claim, history, crashes>>

With(f, k, v) == [x \in DOMAIN f \union {k} |-> IF x = k THEN v ELSE f[x]]
Without(f, k) == [x \in DOMAIN f \ {k} |-> f[x]]
saved(n) == db.detached \in DOMAIN recovered /\ n \in DOMAIN recovered[db.detached]

moved(n) ==
  /\ recovered' = With(recovered, db.detached,
                       With(IF db.detached \in DOMAIN recovered THEN recovered[db.detached] ELSE <<>>, n, disk[n]))
  /\ disk' = Without(disk, n) /\ op' = [op EXCEPT !.todo = @ \ {n}] /\ UNCHANGED opened
passed(n) == op' = [op EXCEPT !.todo = @ \ {n}] /\ UNCHANGED <<files, opened>>

(* Mutation: what was saved under the same name is replaced. *)
detach_Replaces(n) == IF n \in DOMAIN disk THEN moved(n) ELSE passed(n)
(* Mutation: a path that a crash left moved is an error. *)
detach_Missing(n) == IF n \in DOMAIN disk /\ ~saved(n) THEN moved(n) ELSE Failed /\ UNCHANGED files
(* ConfinedFiles::detach: a path already moved is passed, one neither here nor there, or both, fails.
   The move is a rename.  Left out is the branch for Files volumes of macOS, which copies and unlinks. *)
detach(n) ==
  CASE n \in DOMAIN disk /\ ~saved(n) -> moved(n)
    [] n \notin DOMAIN disk /\ saved(n) -> passed(n)
    [] OTHER -> Failed /\ UNCHANGED files

Detach ==
  /\ At("moving") /\ op.todo # {} /\ detach(Min(op.todo))
  /\ UNCHANGED <<durable, logical, claim, history, crashes>>

(* The transaction that ends the adoption: an empty journal of a new replica of the host's container. *)
Adopted ==
  /\ At("moving") /\ op.todo = {}
  /\ db' = [db EXCEPT !.container = manifest.id, !.adoption = "pulling", !.plan = {}, !.entries = {}, !.pulled = None]
  /\ Go("resume")
  /\ UNCHANGED <<manifest, mirror, primary, files, logical, opened, claim, history, crashes>>

(* bindHost, the same container: cursors of a restored host's journal start again. *)
Same ==
  /\ At("decide") /\ same(op.offer)
  /\ db' = IF db.replica = op.offer.replica THEN db ELSE [db EXCEPT !.pulled = None, !.replica = op.offer.replica]
  /\ op' = [op EXCEPT !.kind = "open", !.step = "resume"]
  /\ UNCHANGED <<manifest, mirror, primary, files, logical, opened, claim, history, crashes>>

(* Mutation: only files that were indexed are moved aside. *)
planned_Indexed == IF logical /\ db.host = None THEN {} ELSE {n \in DOMAIN disk : disk[n] \in db.entries}
(* Everything in the sections, except that a logical disk keeps what it held before its first host. *)
planned == IF logical /\ db.host = None THEN {} ELSE DOMAIN disk

(* Mutation: the journal takes the host's container before the drive does. *)
plan_Container(offer) ==
  [db EXCEPT !.host = offer.peer, !.replica = offer.replica, !.target = offer.container, !.complete = FALSE,
             !.container = offer.container, !.adoption = "detaching", !.detached = @ + 1, !.plan = planned]
plan(offer) ==
  [db EXCEPT !.host = offer.peer, !.replica = offer.replica, !.target = offer.container, !.complete = FALSE,
             !.adoption = "detaching", !.detached = @ + 1, !.plan = planned]

(* bindHost, another container: the plan is committed before anything moves. *)
Plan ==
  /\ At("decide") /\ ~same(op.offer)
  /\ db' = plan(op.offer)
  /\ foreign' = IF logical /\ db.host = None THEN foreign
                ELSE foreign \union {<<x, op.offer.container>> : x \in {disk[n] : n \in DOMAIN disk} \ {op.offer.container}}
  /\ op' = [op EXCEPT !.kind = "open", !.step = "resume"]
  /\ UNCHANGED <<manifest, mirror, primary, files, logical, opened, claim, kept, disturbed, edits, crashes>>

-----------------------------------------------------------------------------
(* A round with the host, as far as files come and go. *)

bootstrapping == db.host # None /\ ~db.complete
Idle == op = None /\ opened

Pull(n) ==
  /\ Idle /\ db.adoption = "pulling" /\ n \notin DOMAIN disk
  /\ disk' = With(disk, n, db.target)
  /\ db' = [db EXCEPT !.pulled = db.replica, !.entries = @ \union {db.target}]
  /\ UNCHANGED <<manifest, mirror, primary, recovered, logical, op, opened, claim, history, crashes>>

(* completeBootstrap: the replica is published, then the journal says so, then the binding. *)
completeBootstrap ==
  /\ Idle /\ bootstrapping /\ db.adoption = "pulling" /\ db.target = manifest.id
  /\ Begin("complete", None, "complete") /\ manifest' = [manifest EXCEPT !.ready = TRUE]
  /\ UNCHANGED <<db, mirror, primary, files, logical, opened, claim, history, crashes>>
Completed ==
  /\ At("complete") /\ Go("resume")
  /\ db' = [db EXCEPT !.complete = TRUE]
  /\ UNCHANGED <<manifest, mirror, primary, files, logical, opened, claim, history, crashes>>

scan ==
  /\ Idle /\ ~bootstrapping
  /\ db' = [db EXCEPT !.entries = {disk[n] : n \in DOMAIN disk}]
  /\ UNCHANGED <<manifest, mirror, primary, files, logical, op, opened, claim, history, crashes>>

(* What a round proposes to the host. *)
proposals ==
  IF Idle /\ db.host # None /\ ~bootstrapping
  THEN {<<disk[n], db.target>> : n \in {m \in DOMAIN disk : disk[m] \in db.entries}} ELSE {}

-----------------------------------------------------------------------------
(* Users, crashes, and another program that claims the drive for a host. *)

Disturbs(n) == disturbed \/ (db.adoption = "detaching" /\ n \in db.plan)

Create(n) ==
  /\ edits < MaxEdits /\ n \notin DOMAIN disk
  /\ disk' = With(disk, n, edits + 1) /\ edits' = edits + 1 /\ kept' = kept \union {edits + 1}
  /\ disturbed' = Disturbs(n)
  /\ UNCHANGED <<durable, recovered, logical, op, opened, claim, foreign, crashes>>

Delete(n) ==
  /\ edits < MaxEdits /\ n \in DOMAIN disk
  /\ disk' = Without(disk, n) /\ edits' = edits + 1
  /\ kept' = kept \ ({disk[n]} \ {disk[m] : m \in DOMAIN disk \ {n}})
  /\ disturbed' = Disturbs(n)
  /\ UNCHANGED <<durable, recovered, logical, op, opened, claim, foreign, crashes>>

Crash ==
  /\ crashes < MaxCrashes /\ crashes' = crashes + 1 /\ op' = None /\ opened' = FALSE
  /\ UNCHANGED <<durable, files, logical, claim, history>>

(* A write fails; the process goes on. *)
Error ==
  /\ crashes < MaxCrashes /\ crashes' = crashes + 1 /\ op # None /\ Failed
  /\ UNCHANGED <<durable, files, logical, claim, history>>

(* claimPrimaryHost, before it has the lock and with it: only the primary is looked at again. *)
ClaimCheck ==
  /\ ~claim /\ mirror = None /\ ~primary /\ claim' = TRUE
  /\ UNCHANGED <<durable, files, logical, op, opened, history, crashes>>
ClaimWrite ==
  /\ claim /\ op = None /\ claim' = FALSE /\ primary' = TRUE
  /\ UNCHANGED <<db, manifest, mirror, files, logical, op, opened, history, crashes>>

Step == Resume \/ Identity \/ Detach \/ Adopted \/ Same \/ Plan \/ Completed

Next ==
  \/ open \/ Step \/ completeBootstrap \/ scan \/ Crash \/ Error \/ ClaimCheck \/ ClaimWrite
  \/ \E o \in Offers, r \in BOOLEAN : bindHost(o, r)
  \/ \E n \in Names : Pull(n) \/ Create(n) \/ Delete(n)

(* An operation that has begun goes on, the program is started again after a crash, and rounds
   with a host begin again and again. *)
Spec ==
  /\ Init /\ [][Next]_vars
  /\ WF_vars(Step) /\ WF_vars(open) /\ WF_vars(\E o \in Offers, r \in BOOLEAN : bindHost(o, r))

-----------------------------------------------------------------------------
(* Nothing a user saved is lost by adopting a host's container, or the next one after it: it is in
   the sections or under the recovery area, whatever crashes or edits come between the moves
   (resumeAdoption, ConfinedFiles::detach with a rename). *)
Preserved ==
  kept \subseteq {disk[n] : n \in DOMAIN disk}
                \union UNION {{recovered[a][n] : n \in DOMAIN recovered[a]} : a \in DOMAIN recovered}

(* What the drive held before it adopted a container is never proposed to that container's host,
   also if the adoption was resumed after a crash or the files had not been indexed
   (bindHost, resumeAdoption). *)
NothingForeign == proposals \intersect foreign = {}

(* The three records of who this drive is agree at every point a crash can come: the journal opens
   on the drive, a binding that calls the mirror complete is of the drive as it is published, and
   the cursors are those of the host's present journal (open, writeBinding, completeBootstrap). *)
IdentityAgrees ==
  /\ bound
  /\ mirror # None /\ mirror.complete => manifest = [id |-> mirror.container, ready |-> TRUE]
  /\ db.adoption = "pulling" => db.pulled \in {None, db.replica}

(* An adoption that has begun is brought to its end after every crash or error, unless a user
   touched the files to be moved or the drive was meanwhile claimed for a host (resumeAdoption). *)
Adopts == db.adoption = "detaching" ~> (db.adoption # "detaching" \/ disturbed \/ primary)
=============================================================================
