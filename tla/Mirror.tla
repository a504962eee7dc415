------------------------------- MODULE Mirror -------------------------------
(***************************************************************************)
(* The read-only mirror of the selected drive that an application shows.   *)
(* A daemon (Monitoring::Publisher, src/Monitoring/Monitor.cpp) scans a    *)
(* drive and publishes a numbered state file in it; the application's      *)
(* subscription polls the file and, when the number moved, FileSystem      *)
(* (src/Files/FileSystem.cpp) scans the drive on a worker thread and       *)
(* publishes the rows.  A two second timer does the same while no daemon   *)
(* can be relied on.                                                       *)
(*                                                                         *)
(* A drive is a package in a root directory; the package may be replaced   *)
(* by another one under everybody's feet.  Its content is a version.       *)
(***************************************************************************)
EXTENDS Integers, Sequences, FiniteSets

CONSTANTS Root,          \* places where a drive may be
          Authority,     \* the device owns the drive, and a scan of the daemon sees all of it
          Daemons,       \* processes with a Publisher
          None,          \* no drive, no job, no state file
          MaxEdits,      \* bound on the changes of one package
          MaxPackages,   \* bound on the packages of one root
          MaxInstances,  \* bound on the starts of publishers
          MaxEpoch,      \* bound on the selections and explicit refreshes
          MaxEvents      \* bound on the states waiting in the event loop

ASSUME AuthorityAssumption == Authority \in BOOLEAN
ASSUME NoneAssumption == None \notin Root \union Daemons \union (Root \X Nat)
ASSUME BoundsAssumption == {MaxEdits, MaxPackages, MaxInstances, MaxEpoch, MaxEvents} \subseteq Nat

VARIABLES package,   \* [Root -> number of the package in the root]
          content,   \* [Root -> version of what that package contains]
          file,      \* [Root -> state.cbor of the package, or None]
          fresh,     \* [Root -> the state file is young enough]
          pub,       \* [Daemons -> Publisher::Private]
          instances, \* publishers started so far
          fs,        \* FileSystem::Private, with its worker's job and its subscription
          events     \* calls queued for the application's event loop

vars == <<package, content, file, fresh, pub, instances, fs, events>>
drives == <<package, content>>
daemon == <<file, fresh, pub, instances>>
app == <<fs, events>>

Id(r) == <<r, package[r]>>
valid(s) == s # None /\ package[s[1]] = s[2]

NoRows == [drive |-> None, content |-> 0, available |-> FALSE]
NoState == [available |-> FALSE, id |-> None, instance |-> 0, revision |-> 0, running |-> FALSE]
Idle == [running |-> FALSE, id |-> None, instance |-> 0, revision |-> 0, seen |-> 0,
         initial |-> FALSE, pc |-> "idle", scan |-> 0]

(* The first package was published before, by a publisher that was killed. *)
Left(r) == [id |-> <<r, 1>>, instance |-> 0, revision |-> 1, seen |-> 1, running |-> TRUE]

Init ==
  /\ package = [r \in Root |-> 1] /\ content = [r \in Root |-> 1]
  /\ file = [r \in Root |-> Left(r)]
  /\ fresh = [r \in Root |-> FALSE]
  /\ pub = [d \in Daemons |-> Idle] /\ instances = 0
  /\ fs = [storage |-> None, rows |-> NoRows, epoch |-> 0, inFlight |-> FALSE, pending |-> FALSE,
           job |-> None, timer |-> TRUE, monitorEpoch |-> 0, watched |-> None, sub |-> None,
           state |-> NoState]
  /\ events = <<>>

-----------------------------------------------------------------------------
(* The world: a file of a drive changes, or the package is replaced. *)

Edit(r) ==
  /\ content[r] < MaxEdits
  /\ content' = [content EXCEPT ![r] = @ + 1]
  /\ UNCHANGED <<package, daemon, app>>

Replace(r) ==
  /\ package[r] < MaxPackages
  /\ package' = [package EXCEPT ![r] = @ + 1] /\ content' = [content EXCEPT ![r] = 1]
  /\ file' = [file EXCEPT ![r] = None]
  /\ UNCHANGED <<fresh, pub, instances, app>>

-----------------------------------------------------------------------------
(***************************************************************************)
(* Monitoring::read: the state file of the expected package, with the      *)
(* daemon counted as gone when the file is old.                            *)
(***************************************************************************)

readable(s) == valid(s) /\ file[s[1]] # None /\ file[s[1]].id = s

read(s) ==
  IF readable(s)
  THEN [available |-> TRUE, id |-> file[s[1]].id, instance |-> file[s[1]].instance,
        revision |-> file[s[1]].revision, running |-> file[s[1]].running /\ fresh[s[1]]]
  ELSE NoState

(* The lock file is in the package: one running publisher of each. *)
locked(s) == \E d \in Daemons : pub[d].running /\ pub[d].id = s

adopted(s) == IF readable(s) THEN file[s[1]].revision ELSE 0

PublisherStart(d, r) ==
  /\ ~pub[d].running /\ ~locked(Id(r)) /\ instances < MaxInstances
  /\ instances' = instances + 1
  /\ pub' = [pub EXCEPT ![d] = [Idle EXCEPT !.running = TRUE, !.id = Id(r), !.instance = instances + 1,
                                            !.revision = adopted(Id(r)), !.initial = TRUE]]
  /\ UNCHANGED <<drives, file, fresh, app>>

(* poll: the scan, between two verifications of the package, which ends the publisher of a package
   that is gone.  It can still be replaced between the second and the write. *)
PollScan(d) ==
  /\ pub[d].running /\ pub[d].pc = "idle"
  /\ pub' = [pub EXCEPT ![d] = IF valid(pub[d].id)
                               THEN [@ EXCEPT !.pc = "write", !.scan = content[pub[d].id[1]]]
                               ELSE Idle]
  /\ UNCHANGED <<drives, file, fresh, instances, app>>

moves(p) == p.initial \/ p.seen # p.scan

(* The atomic write; when it fails the publisher keeps what it had. *)
PollWrite(d) ==
  /\ pub[d].running /\ pub[d].pc = "write"
  /\ LET p == pub[d]
         revision == IF moves(p) THEN p.revision + 1 ELSE p.revision
     IN \/ /\ file' = [file EXCEPT ![p.id[1]] = [id |-> p.id, instance |-> p.instance, revision |-> revision,
                                                 seen |-> p.scan, running |-> TRUE]]
           /\ fresh' = [fresh EXCEPT ![p.id[1]] = TRUE]
           /\ pub' = [pub EXCEPT ![d] = [p EXCEPT !.pc = "idle", !.revision = revision, !.seen = p.scan,
                                                  !.initial = FALSE]]
        \/ pub' = [pub EXCEPT ![d].pc = "idle"] /\ UNCHANGED <<file, fresh>>
  /\ UNCHANGED <<drives, instances, app>>

(* stop: a last state file says that the daemon has gone.  Before the first poll it lists no
   section, and no reader takes such a file. *)
PublisherStop(d) ==
  /\ pub[d].running /\ pub[d].pc = "idle"
  /\ LET p == pub[d]
     IN \/ /\ valid(p.id)
           /\ file' = [file EXCEPT ![p.id[1]] =
                IF p.initial THEN None
                ELSE [id |-> p.id, instance |-> p.instance, revision |-> p.revision, seen |-> p.seen,
                      running |-> FALSE]]
        \/ UNCHANGED file
  /\ pub' = [pub EXCEPT ![d] = Idle]
  /\ UNCHANGED <<drives, fresh, instances, app>>

Crash(d) ==
  /\ pub[d].running /\ pub' = [pub EXCEPT ![d] = Idle]
  /\ UNCHANGED <<drives, file, fresh, instances, app>>

(* Time passes without a write: a daemon that hangs, or is gone. *)
Age(r) ==
  /\ fresh[r] /\ fresh' = [fresh EXCEPT ![r] = FALSE]
  /\ UNCHANGED <<drives, file, pub, instances, app>>

-----------------------------------------------------------------------------
(* scanMirror: the rows of a drive; the package is verified before and after. *)

scanned(s) ==
  IF valid(s) THEN [drive |-> s, content |-> content[s[1]], available |-> TRUE] ELSE NoRows

(* Mutation: a request made while a scan runs is forgotten. *)
requestSynchronization_Drop(f) ==
  IF f.inFlight THEN f
  ELSE [f EXCEPT !.inFlight = TRUE, !.job = [epoch |-> f.epoch, storage |-> f.storage, rows |-> None]]

(* One scan is in flight; what asks for another meanwhile is answered by one more after it. *)
requestSynchronization(f) ==
  IF f.inFlight THEN [f EXCEPT !.pending = TRUE]
  ELSE [f EXCEPT !.inFlight = TRUE, !.job = [epoch |-> f.epoch, storage |-> f.storage, rows |-> None]]

(* Mutation: an explicit refresh lets an older scan publish after it. *)
synchronize_SameEpoch(f) == [f EXCEPT !.rows = scanned(f.storage)]

(* The explicit refresh scans on the caller's thread and outdates the scan in flight. *)
synchronize(f) == [f EXCEPT !.epoch = @ + 1, !.rows = scanned(f.storage)]

stopMonitor(f) ==
  [f EXCEPT !.monitorEpoch = @ + 1, !.watched = None, !.sub = None, !.timer = TRUE, !.state = NoState]

(* A subscription that cannot start leaves the timer to do the work. *)
startMonitor(f) ==
  IF f.storage = None \/ f.watched = f.storage THEN f
  ELSE [stopMonitor(f) EXCEPT !.watched = f.storage,
                              !.sub = IF valid(f.storage)
                                      THEN [id |-> f.storage, epoch |-> f.monitorEpoch + 1, previous |-> None]
                                      ELSE None]

(* open, refresh: the drive in the root is selected, or none when it cannot be opened. *)
Open(r) ==
  /\ fs.epoch < MaxEpoch
  /\ \E s \in {Id(r), None} :
       LET selected == [fs EXCEPT !.epoch = @ + 1, !.storage = s]
       IN fs' = synchronize(startMonitor(IF s = None THEN stopMonitor(selected) ELSE selected))
  /\ UNCHANGED <<drives, daemon, events>>

(* saveFile, publishFile, removeFile...: a file operation in a ready drive ends with a refresh. *)
Save ==
  /\ fs.epoch < MaxEpoch /\ valid(fs.storage) /\ content[fs.storage[1]] < MaxEdits
  /\ content' = [content EXCEPT ![fs.storage[1]] = @ + 1]
  /\ fs' = [synchronize(fs) EXCEPT !.rows.content = content'[fs.storage[1]]]
  /\ UNCHANGED <<package, daemon, events>>

(* What another FileSystem may have captured: a drive with the rows it had then, or no drive. *)
preparedStorage ==
  {[storage |-> None, rows |-> NoRows]} \union
  {[storage |-> Id(r), rows |-> [drive |-> Id(r), content |-> c, available |-> TRUE]] :
     r \in Root, c \in 1..MaxEdits}

(* adoptStorage: a captured selection is shown with the rows it had. *)
adoptStorage ==
  /\ fs.epoch < MaxEpoch
  /\ \E p \in preparedStorage :
       /\ p.storage # None => p.rows.content <= content[p.storage[1]]
       /\ fs' = startMonitor([stopMonitor([fs EXCEPT !.epoch = @ + 1, !.pending = FALSE])
                               EXCEPT !.storage = p.storage, !.rows = p.rows])
  /\ UNCHANGED <<drives, daemon, events>>

(* The application, the container object and the two second timer ask for a scan. *)
RefreshRequested ==
  /\ ~fs.pending /\ fs' = requestSynchronization(fs)
  /\ UNCHANGED <<drives, daemon, events>>

Timer == fs.timer /\ RefreshRequested

(* The worker thread: the scan begins, and ends with rows for the event loop. *)
ScanStart ==
  /\ fs.job # None /\ fs.job.rows = None
  /\ fs' = [fs EXCEPT !.job.rows = scanned(fs.job.storage)]
  /\ UNCHANGED <<drives, daemon, events>>

ScanEnd ==
  /\ fs.job # None /\ fs.job.rows # None
  /\ events' = Append(events, [type |-> "rows", epoch |-> fs.job.epoch,
                               value |-> IF valid(fs.job.storage) THEN fs.job.rows ELSE NoRows])
  /\ fs' = [fs EXCEPT !.job = None]
  /\ UNCHANGED <<drives, daemon>>

(* Subscription: the loop reads the state file and hands on what differs from the last. *)
SubscriptionRead ==
  /\ fs.sub # None /\ Cardinality({i \in DOMAIN events : events[i].type = "state"}) < MaxEvents
  /\ LET value == read(fs.sub.id)
     IN /\ value # fs.sub.previous
        /\ fs' = [fs EXCEPT !.sub.previous = value]
        /\ events' = Append(events, [type |-> "state", epoch |-> fs.sub.epoch, value |-> value])
  /\ UNCHANGED <<drives, daemon>>

(* Mutation: a result is taken whatever was selected meanwhile. *)
current_Any(epoch) == TRUE

current(epoch) == epoch = fs.epoch

RowsEvent ==
  /\ events # <<>> /\ Head(events).type = "rows"
  /\ LET done == [fs EXCEPT !.inFlight = FALSE, !.pending = FALSE,
                            !.rows = IF current(Head(events).epoch) THEN Head(events).value ELSE @]
     IN fs' = IF fs.pending THEN requestSynchronization(done) ELSE done
  /\ events' = Tail(events) /\ UNCHANGED <<drives, daemon>>

(* While a daemon can be relied on, the timer rests. *)
StateEvent ==
  /\ events # <<>> /\ Head(events).type = "state"
  /\ LET v == Head(events).value
         told == [fs EXCEPT !.state = v, !.timer = ~(v.running /\ v.available /\ Authority)]
         moved == v.revision # fs.state.revision \/ v.instance # fs.state.instance
     IN fs' = IF Head(events).epoch # fs.monitorEpoch THEN fs
              ELSE IF v.available /\ moved THEN requestSynchronization(told) ELSE told
  /\ events' = Tail(events) /\ UNCHANGED <<drives, daemon>>

Next ==
  \/ \E r \in Root : Edit(r) \/ Replace(r) \/ Age(r) \/ Open(r)
  \/ \E d \in Daemons :
       \/ \E r \in Root : PublisherStart(d, r)
       \/ PollScan(d) \/ PollWrite(d) \/ PublisherStop(d) \/ Crash(d)
  \/ Save \/ adoptStorage \/ RefreshRequested \/ Timer
  \/ ScanStart \/ ScanEnd \/ SubscriptionRead \/ RowsEvent
  \/ StateEvent

(***************************************************************************)
(* Threads, the event loop and the timers keep running; a running daemon   *)
(* keeps polling; a state file nobody writes grows old.  Nobody has to     *)
(* start a daemon, and its writes may fail for ever.                       *)
(***************************************************************************)
Fairness ==
  /\ WF_vars(ScanStart) /\ WF_vars(ScanEnd) /\ WF_vars(SubscriptionRead) /\ WF_vars(RowsEvent)
  /\ WF_vars(StateEvent) /\ WF_vars(Timer)
  /\ \A d \in Daemons : WF_vars(PollScan(d)) /\ WF_vars(PollWrite(d))
  /\ \A r \in Root : WF_vars(Age(r))

Spec == Init /\ [][Next]_vars /\ Fairness

-----------------------------------------------------------------------------
(* What is shown is of the selected drive: no result of a scan begun for an earlier selection, nor of a
   package that was replaced, is published under the new one, and no revision of a foreign drive is
   reported, although the publisher of a replaced package can write its state file into the new one. *)
MirrorOfSelection ==
  /\ fs.rows.available => fs.rows.drive = fs.storage
  /\ fs.state.available => fs.state.id = fs.storage

(* The rows of a drive never go back: a slow scan that began before a save does not undo what the
   save showed.  (adoptStorage shows captured rows on purpose.)  Neither does the state file of a
   drive, over polls, failed writes, crashes and restarts of its publishers, and a different content
   always has a new number: without one the rows would stay as they are. *)
NothingOlder ==
  [][/\ fs.rows.available /\ fs'.rows.available /\ fs'.rows.drive = fs.rows.drive
        => adoptStorage \/ fs'.rows.content >= fs.rows.content
     /\ \A r \in Root :
          file[r] # None /\ file'[r] # None /\ file'[r].id = file[r].id
          => \/ file'[r].revision > file[r].revision
             \/ file'[r].revision = file[r].revision /\ file'[r].seen = file[r].seen]_vars

(* Once nothing changes, the mirror shows exactly what the selected drive contains, or that it is
   gone, with or without a daemon. *)
MirrorCurrent == <>[](fs.rows = scanned(fs.storage))
=============================================================================
