------------------------------ MODULE Presence ------------------------------
(***************************************************************************)
(* Presence of the applications of one device: src/Core/Helper.cpp and     *)
(* src/Discovery/PresenceWorker_p.h.  Each helper publishes a heartbeat in *)
(* a record of a shared directory and observes the records of the others.  *)
(* The file work runs on a worker thread; its results come back through    *)
(* the event loop of the application.                                      *)
(*                                                                         *)
(* stop() blocks the event loop.  It is three actions: Stop, which then    *)
(* waits for the worker; StopFlush, after which the last messages are      *)
(* queued and their signals emitted while the helper is still running; and *)
(* StopFinish.  Between the first two nothing but the worker moves,        *)
(* between the last two the worker and the slots of those signals do.  The *)
(* automatic history of events is left out: it has a worker of its own and *)
(* never touches the state below.                                          *)
(***************************************************************************)
EXTENDS Integers, Sequences

CONSTANTS Helpers,       \* one Helper object per application process
          MaxSessions,   \* bound on calls of start(), over all helpers
          MaxBeats,      \* the heartbeat number stays there once it is reached
          Together,      \* whether activities change while several helpers have been started
          MaxChanges,    \* bound on activity changes
          MaxFailures    \* bound on failed publications, failed removals and crashes

ASSUME BoundsAssumption ==
  /\ Together \in BOOLEAN
  /\ MaxSessions \in Nat /\ MaxBeats \in Nat \ {0} /\ MaxChanges \in Nat /\ MaxFailures \in Nat

VARIABLES helper,      \* [Helpers -> Helper::Private and its worker]
          directory,   \* the shared directory: instance -> [beat, activity]
          sessions,    \* instances given out so far: instance ids are numbered
          withdrawn,   \* history: instances whose record stop() has removed
          dead,        \* history: instances stopped or crashed
          disturbed,   \* history: instances with a cycle that began inside a stop()
          ghosts,      \* history: [Helpers -> instances dead when the session began]
          changes,     \* history: activity changes
          failures     \* history: failures

vars == <<helper, directory, sessions, withdrawn, dead, disturbed, ghosts, changes, failures>>

Instance == 1..MaxSessions
NoInstance == 0

NoJob == [kind |-> "none"]
NoObservations == [x \in {} |-> 0]

(***************************************************************************)
(* A Helper whose process has just been started.  worker is the active     *)
(* operation of PresenceWorker, pending the one posted behind it.          *)
(***************************************************************************)
NewProcess ==
  [pc |-> "loop", running |-> FALSE, epoch |-> 0, instance |-> NoInstance, beat |-> 0,
   activity |-> 0, cycleInFlight |-> FALSE, scanPending |-> FALSE, publishPending |-> FALSE,
   pending |-> NoJob, worker |-> NoJob, results |-> <<>>, observations |-> NoObservations]

Init ==
  /\ helper = [h \in Helpers |-> NewProcess]
  /\ directory = NoObservations
  /\ sessions = 0 /\ changes = 0 /\ failures = 0
  /\ withdrawn = {} /\ dead = {} /\ disturbed = {}
  /\ ghosts = [h \in Helpers |-> {}]

history == <<sessions, withdrawn, dead, disturbed, ghosts, changes, failures>>

Set(h, new) == helper' = [helper EXCEPT ![h] = new]

(* The event loop of h is not blocked in stop(). *)
Loop(h) == helper[h].pc = "loop"

written(x, record) == [y \in DOMAIN directory \union {x} |-> IF y = x THEN record ELSE directory[y]]
removed(x) == [y \in DOMAIN directory \ {x} |-> directory[y]]

-----------------------------------------------------------------------------
nextBeat(s) == IF s.beat < MaxBeats THEN s.beat + 1 ELSE s.beat

(* Mutation of requestCycle: a request during a cycle is not remembered. *)
requestCycle_Dropped(s, publish) ==
  IF ~s.running \/ s.cycleInFlight THEN s
  ELSE LET t == IF publish THEN [s EXCEPT !.beat = nextBeat(s)] ELSE s IN
       [t EXCEPT !.cycleInFlight = TRUE,
                 !.pending = [kind |-> "cycle", epoch |-> t.epoch, instance |-> t.instance,
                              activity |-> t.activity, beat |-> t.beat, publish |-> publish]]

(* The values the worker uses are captured when the job is posted. *)
requestCycle(s, publish) ==
  IF ~s.running THEN s
  ELSE IF s.cycleInFlight
    THEN [s EXCEPT !.scanPending = TRUE, !.publishPending = @ \/ publish]
  ELSE LET t == IF publish THEN [s EXCEPT !.beat = nextBeat(s)] ELSE s IN
       [t EXCEPT !.cycleInFlight = TRUE,
                 !.pending = [kind |-> "cycle", epoch |-> t.epoch, instance |-> t.instance,
                              activity |-> t.activity, beat |-> t.beat, publish |-> publish]]

(* The timer, and a notification of the directory watcher (its own         *)
(* publications change the directory, so one may always be on its way).    *)
Tick(h) ==
  /\ Loop(h) /\ helper[h].running
  /\ Set(h, requestCycle(helper[h], TRUE))
  /\ UNCHANGED <<directory, history>>

DirectoryChanged(h) ==
  /\ Loop(h) /\ helper[h].running
  /\ Set(h, requestCycle(helper[h], FALSE))
  /\ UNCHANGED <<directory, history>>

(* No other helper has been started: the bound on what happens together with activity changes,
   which no other helper looks at. *)
Alone(h) == \A g \in Helpers \ {h} : helper[g].instance = NoInstance

changed(s) == requestCycle([s EXCEPT !.activity = 1 - @], TRUE)

(* Inside stop() the last messages are being queued and the helper is still running.  A job that
   setActivity posts from a slot of dataQueued then belongs to a session that is over, and the flag
   of its cycle stays set: disturbed notes the instance. *)
Flushing(h) == helper[h].pc = "flushing" /\ helper[h].running

setActivity(h) ==
  /\ Loop(h) \/ Flushing(h)
  /\ changes < MaxChanges /\ (Together \/ Alone(h))
  /\ changes' = changes + 1
  /\ Set(h, changed(helper[h]))
  /\ disturbed' = IF Flushing(h) THEN disturbed \union {helper[h].instance} ELSE disturbed
  /\ UNCHANGED <<directory, sessions, withdrawn, dead, ghosts, failures>>

-----------------------------------------------------------------------------
(* The worker thread: PresenceWorker::run and inspectPresence. *)

Take(h) ==
  /\ helper[h].worker = NoJob /\ helper[h].pending # NoJob
  /\ Set(h, [helper[h] EXCEPT !.worker = helper[h].pending, !.pending = NoJob])
  /\ UNCHANGED <<directory, history>>

done(s, result) ==
  [s EXCEPT !.worker = NoJob, !.results = Append(@, result)]

(* The record is staged and renamed over the old one. *)
WorkerPublish(h) ==
  LET job == helper[h].worker IN
  /\ job # NoJob /\ job.publish
  /\ directory' = written(job.instance, [beat |-> job.beat, activity |-> job.activity])
  /\ Set(h, [helper[h] EXCEPT !.worker.publish = FALSE])
  /\ UNCHANGED history

WorkerFailed(h) ==
  LET job == helper[h].worker IN
  /\ job # NoJob /\ job.publish
  /\ failures < MaxFailures /\ failures' = failures + 1
  /\ Set(h, done(helper[h], [epoch |-> job.epoch, error |-> TRUE, present |-> {},
                             records |-> NoObservations]))
  /\ UNCHANGED <<directory, sessions, withdrawn, dead, disturbed, ghosts, changes>>

(* A record that is being replaced or removed is listed but not read; of   *)
(* the others only the heartbeat decides anything.                         *)
WorkerScan(h) ==
  LET job   == helper[h].worker
      other == DOMAIN directory \ {job.instance}
  IN /\ job # NoJob /\ ~job.publish
     /\ \E readable \in SUBSET other :
          Set(h, done(helper[h], [epoch |-> job.epoch, error |-> FALSE, present |-> other,
                                  records |-> [x \in readable |-> directory[x].beat]]))
     /\ UNCHANGED <<directory, history>>

-----------------------------------------------------------------------------
(***************************************************************************)
(* scan().  A record is only evidence of a living peer once its heartbeat  *)
(* has advanced; it counts as withdrawn when its file is gone.  Time is a  *)
(* choice: silent are the peers whose last advance is a peer timeout old,  *)
(* overdue says so of the helper's own last scan (its event loop was       *)
(* suspended), after which nothing it knew counts.                         *)
(***************************************************************************)
seen(beat, shown) == [beat |-> beat, visible |-> shown]

(* Mutation of observed: a record seen for the first time shows its owner. *)
observed_FirstSight(known, records, silent, x) ==
  IF x \in DOMAIN records /\ (x \in DOMAIN known => records[x] > known[x].beat)
    THEN seen(records[x], TRUE) ELSE known[x]

(* Mutation of observed: a peer does not time out. *)
observed_NoTimeout(known, records, silent, x) ==
  IF x \notin DOMAIN known THEN seen(records[x], FALSE)
  ELSE IF x \in DOMAIN records /\ records[x] > known[x].beat THEN seen(records[x], TRUE)
  ELSE known[x]

observed(known, records, silent, x) ==
  IF x \notin DOMAIN known THEN seen(records[x], FALSE)
  ELSE IF x \in DOMAIN records /\ records[x] > known[x].beat THEN seen(records[x], TRUE)
  ELSE IF x \in silent THEN [known[x] EXCEPT !.visible = FALSE]
  ELSE known[x]

scan(s, result, silent, overdue) ==
  LET known == IF overdue THEN NoObservations ELSE s.observations
      kept  == (DOMAIN known \union DOMAIN result.records) \intersect result.present
  IN [s EXCEPT !.observations = [x \in kept |-> observed(known, result.records, silent, x)]]

(* The follow-up of a cycle: what was asked for while it ran. *)
followUp(s) ==
  IF s.scanPending
    THEN requestCycle([s EXCEPT !.scanPending = FALSE, !.publishPending = FALSE], s.publishPending)
    ELSE s

(***************************************************************************)
(* stop(): a new epoch, no timer, the pending job is discarded, and the    *)
(* active one is waited for.                                               *)
(***************************************************************************)
(* Mutation of stopping: the pending job is left to the worker. *)
stopping_KeepsPending(s) == [s EXCEPT !.pc = "stopping", !.epoch = @ + 1]

stopping(s) == [s EXCEPT !.pc = "stopping", !.epoch = @ + 1, !.pending = NoJob]

(* The queued result of a cycle; one of another session is discarded. *)
Callback(h, silent, overdue) ==
  LET s == [helper[h] EXCEPT !.results = Tail(@)]
      r == Head(helper[h].results)
  IN /\ Loop(h) /\ helper[h].results # <<>>
     /\ Set(h, IF ~s.running \/ s.epoch # r.epoch THEN s
               ELSE IF r.error THEN stopping([s EXCEPT !.cycleInFlight = FALSE])
               ELSE followUp(scan([s EXCEPT !.cycleInFlight = FALSE], r, silent, overdue)))
     /\ UNCHANGED <<directory, history>>

Applied(h) ==
  \/ Callback(h, {}, TRUE)
  \/ \E silent \in SUBSET DOMAIN helper[h].observations : Callback(h, silent, FALSE)

(* A slot of peerAppeared, a user or the end of the application. *)
Stop(h) ==
  /\ Loop(h) /\ helper[h].running
  /\ Set(h, stopping(helper[h]))
  /\ UNCHANGED <<directory, history>>

(* Mutation of quiet: a cycle that was interrupted stays in flight. *)
quiet_InFlight(s) == [s EXCEPT !.scanPending = FALSE, !.publishPending = FALSE]

quiet(s) == [s EXCEPT !.cycleInFlight = FALSE, !.scanPending = FALSE, !.publishPending = FALSE]

(***************************************************************************)
(* The rest of stop().  Once the worker is idle the flags are cleared and  *)
(* the last messages queued; then the session ends and its record is       *)
(* removed, or left behind when the directory is not what it was or the    *)
(* removal fails.  A session that had only inherited a disturbed cycle is  *)
(* rid of it when the worker is idle.                                      *)
(***************************************************************************)
StopFlush(h) ==
  /\ helper[h].pc = "stopping" /\ helper[h].worker = NoJob
  /\ Set(h, [quiet(helper[h]) EXCEPT !.pc = "flushing"])
  /\ disturbed' = disturbed \ {helper[h].instance}
  /\ UNCHANGED <<directory, sessions, withdrawn, dead, ghosts, changes, failures>>

StopFinish(h) ==
  LET x == helper[h].instance IN
  /\ helper[h].pc = "flushing"
  /\ Set(h, [helper[h] EXCEPT !.pc = "loop", !.running = FALSE, !.observations = NoObservations])
  /\ dead' = dead \union {x}
  /\ \/ /\ directory' = removed(x) /\ withdrawn' = withdrawn \union {x}
        /\ UNCHANGED failures
     \/ /\ failures < MaxFailures /\ failures' = failures + 1
        /\ UNCHANGED <<directory, withdrawn>>
  /\ UNCHANGED <<sessions, disturbed, ghosts, changes>>

(***************************************************************************)
(* start(): a new instance, its first record written synchronously.  When  *)
(* that fails start() itself calls stop().                                 *)
(***************************************************************************)
fresh(s) ==
  [s EXCEPT !.instance = sessions + 1, !.activity = 0, !.beat = 1, !.epoch = @ + 1,
            !.observations = NoObservations]

Start(h) ==
  LET s == fresh(helper[h]) IN
  /\ Loop(h) /\ ~helper[h].running /\ sessions < MaxSessions /\ (Together \/ changes = 0 \/ Alone(h))
  /\ sessions' = sessions + 1
  /\ ghosts' = [ghosts EXCEPT ![h] = dead]
  /\ disturbed' = IF helper[h].instance \in disturbed THEN disturbed \union {s.instance} ELSE disturbed
  /\ \/ /\ directory' = written(s.instance, [beat |-> s.beat, activity |-> s.activity])
        /\ Set(h, requestCycle([s EXCEPT !.running = TRUE], FALSE))
        /\ UNCHANGED failures
     \/ /\ failures < MaxFailures /\ failures' = failures + 1
        /\ Set(h, stopping(s)) /\ UNCHANGED directory
  /\ UNCHANGED <<withdrawn, dead, changes>>

(* The process is killed: its record stays. *)
Crash(h) ==
  /\ failures < MaxFailures /\ failures' = failures + 1
  /\ helper[h].instance # NoInstance
  /\ Set(h, NewProcess)
  /\ dead' = dead \union {helper[h].instance}
  /\ UNCHANGED <<directory, sessions, withdrawn, disturbed, ghosts, changes>>

Worker(h) == Take(h) \/ WorkerPublish(h) \/ WorkerScan(h)

Next ==
  \E h \in Helpers :
    \/ Start(h) \/ Tick(h) \/ DirectoryChanged(h) \/ setActivity(h)
    \/ Worker(h) \/ WorkerFailed(h) \/ Applied(h)
    \/ Stop(h) \/ StopFlush(h) \/ StopFinish(h) \/ Crash(h)

Spec == Init /\ [][Next]_vars

(***************************************************************************)
(* Fairness.  Threads and the event loop make progress; the timer of       *)
(* a running helper fires again and time passes: of the scans that go on,  *)
(* not all can find the last heartbeat of a dead peer recent.              *)
(***************************************************************************)
Silence(h, x) ==
  /\ x \in dead
  /\ \E silent \in SUBSET DOMAIN helper[h].observations : x \in silent /\ Callback(h, silent, FALSE)

FairWork == \A h \in Helpers : WF_vars(Worker(h)) /\ WF_vars(Applied(h)) /\ WF_vars(StopFlush(h) \/ StopFinish(h))

FairTime == \A h \in Helpers : WF_vars(Tick(h)) /\ \A x \in Instance : SF_vars(Silence(h, x))

FairSpec == Spec /\ FairWork /\ FairTime
-----------------------------------------------------------------------------
(***************************************************************************)
(* Properties.                                                             *)
(***************************************************************************)
Job == [kind : {"cycle"}, epoch : Nat, instance : Instance, activity : {0, 1}, beat : 1..MaxBeats,
        publish : BOOLEAN]
Partial(range) == UNION {[some -> range] : some \in SUBSET Instance}
Result == [epoch : Nat, error : BOOLEAN, present : SUBSET Instance, records : Partial(1..MaxBeats)]

HelperState ==
  [pc : {"loop", "stopping", "flushing"}, running : BOOLEAN, epoch : Nat,
   instance : Instance \union {NoInstance}, beat : 0..MaxBeats, activity : {0, 1},
   cycleInFlight : BOOLEAN, scanPending : BOOLEAN, publishPending : BOOLEAN,
   pending : Job \union {NoJob}, worker : Job \union {NoJob}, results : Seq(Result),
   observations : Partial([beat : 1..MaxBeats, visible : BOOLEAN])]

TypeOK ==
  /\ helper \in [Helpers -> HelperState]
  /\ directory \in Partial([beat : 1..MaxBeats, activity : {0, 1}])
  /\ sessions \in 0..MaxSessions
  /\ withdrawn \subseteq dead /\ dead \subseteq Instance /\ disturbed \subseteq Instance
  /\ ghosts \in [Helpers -> SUBSET Instance]
  /\ changes \in Nat /\ failures \in Nat

(***************************************************************************)
(* A record that stop() has removed does not come back (stop,              *)
(* requestCycle): no job that was pending, under way or coalesced, of this *)
(* session or of the next one, recreates it.  Except for a slot of         *)
(* dataQueued that changes the activity while stop() calls it              *)
(* (Helper.cpp:517): it posts a heartbeat nothing waits for, though        *)
(* src/README.md says that none can recreate a withdrawn session.          *)
(***************************************************************************)
NoResurrection == withdrawn \intersect DOMAIN directory \subseteq disturbed

visible(h) == {x \in DOMAIN helper[h].observations : helper[h].observations[x].visible}

(***************************************************************************)
(* A session that had ended before this helper's session began is never    *)
(* shown as present, whatever record it has left behind (scan): seeing a   *)
(* file once is not evidence that its owner is alive.  A heartbeat that a  *)
(* slot of stop() posted may come after the end of its session.            *)
(***************************************************************************)
NoGhost == \A h \in Helpers : visible(h) \intersect ghosts[h] \subseteq disturbed

(***************************************************************************)
(* A session that has ended, by stop() or by a crash, does not stay        *)
(* visible to anybody (scan): it is withdrawn or times out.                *)
(***************************************************************************)
DepartedForgotten == <>[](\A h \in Helpers : visible(h) \intersect dead = {})

(***************************************************************************)
(* A cycle in flight is being worked on (requestCycle, the queued result,  *)
(* stop): no order of stop, start, failures and late results leaves the    *)
(* flag set with nobody to clear it, which would end the heartbeats.  It   *)
(* is left set when a slot called by stop() changes the activity: neither  *)
(* the rest of stop() nor start() clears it.  That session and the ones    *)
(* that follow are excepted, until a stop() that no slot disturbs.         *)
(***************************************************************************)
CycleBacked ==
  \A h \in Helpers :
    LET s == helper[h]
        jobs == {s.pending, s.worker} \ {NoJob}
        results == {s.results[i] : i \in 1..Len(s.results)}
    IN s.running /\ s.pc = "loop" /\ s.cycleInFlight /\ s.instance \notin disturbed =>
         \E r \in jobs \union results : r.epoch = s.epoch

(***************************************************************************)
(* The record of a running helper has its last activity, or the publishing *)
(* of it is under way (setActivity, requestCycle, the queued result): a    *)
(* change made during a cycle is neither lost by the coalescing of         *)
(* requests nor left for the timer, whatever job, result or failure of     *)
(* this or an earlier session comes next.  A session without heartbeats,   *)
(* as above, publishes no change either.                                   *)
(***************************************************************************)
ActivityBacked ==
  \A h \in Helpers :
    LET s == helper[h]
        publishes(job) == job # NoJob /\ job.epoch = s.epoch /\ job.publish /\ job.activity = s.activity
    IN s.running /\ s.pc = "loop" /\ s.instance \notin disturbed =>
         \/ s.instance \in DOMAIN directory /\ directory[s.instance].activity = s.activity
         \/ s.cycleInFlight /\ s.publishPending
         \/ publishes(s.pending) \/ publishes(s.worker)
         \/ \E i \in 1..Len(s.results) : s.results[i].epoch = s.epoch /\ s.results[i].error
=============================================================================
