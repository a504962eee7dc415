----------------------------- MODULE HostDrive -----------------------------
(***************************************************************************)
(* Direct access to the drive of the registered host: the requests, the    *)
(* catalogue snapshot and the inspections of src/Client/Client.cpp, the    *)
(* job table and worker of src/Sync/Controller.cpp that answer them, and   *)
(* Replica::driveRequest of src/Sync/Replica.cpp that executes them.       *)
(*                                                                         *)
(* A request travels as an envelope with a token.  The host queues a job   *)
(* for a token it does not know and answers "pending"; the client polls    *)
(* with the same token until the result is there, and takes a fresh token  *)
(* only when the host says it was too busy to start.  The transport (LAN   *)
(* or relay, external) may delay an envelope or its reply for ever, which  *)
(* stands for its loss.                                                    *)
(***************************************************************************)
EXTENDS Drive

CONSTANTS MaxJobs,   \* 32: jobs in the host's table
          MaxRetry,  \* bound on the fresh tokens of one request
          MaxOpen    \* bound on the generations of the host controller

ASSUME JobsAssumption == MaxJobs \in Nat \ {0}

VARIABLES client,     \* Client::Private: account, connection, requests, snapshot, mirror
          reachable,  \* the transport reports the registered host as paired
          net,        \* envelopes and replies under way
          host,       \* Controller::Private: generation, drive, ready, job table
          worker,     \* SyncWorker: generation, open drive, jobs waiting for the store
          events,     \* calls queued for the worker thread
          signals,    \* signals of the worker queued for the controller's thread
          disk,       \* [Container -> [Path -> author, or Absent]]
          catalogs,   \* [Container -> indexed entries of every revision so far]
          made        \* history: the requests that created a file

driveVars == <<client, reachable, net, host, worker, events, signals, disk, catalogs, made>>
hostVars == <<host, worker, events, signals, disk, catalogs, made>>

Absent == 0
Own == MaxId + 1   \* the author of the host's own files

DriveInit ==
  /\ client \in {NewClient(d) : d \in Container}
  /\ reachable = FALSE /\ net = {}
  /\ host = [gen |-> 0, path |-> None, ready |-> FALSE, opening |-> FALSE, jobs |-> Empty]
  /\ worker = [gen |-> 0, open |-> None, timers |-> {}]
  /\ events = <<>> /\ signals = <<>>
  /\ disk = [c \in Container |-> [p \in Path |-> Absent]]
  /\ catalogs = [c \in Container |-> <<{}>>]
  /\ made = {}

-----------------------------------------------------------------------------
(* Steps of the client.  The bound on identifiers guards the steps that issue one. *)

bounded == client'.next <= MaxId + 1

(* writeHostFile, createHostDirectory *)
Call(p) ==
  /\ ~refused(client)
  /\ client' = requestDrive([client EXCEPT !.answers = insert(@, client.next, <<>>)], "write", p)
  /\ bounded
  /\ UNCHANGED <<reachable, net, hostVars>>

(* QTimer::singleShot(0) of finishSnapshot *)
RefreshDue ==
  /\ client.due > 0
  /\ client' = refreshHost([client EXCEPT !.due = @ - 1])
  /\ bounded
  /\ UNCHANGED <<reachable, net, hostVars>>

token(id) == <<id, client.requests[id].retries>>

(* The transport may refuse an envelope at once. *)
transmitDrive(id) ==
  /\ id \in DOMAIN client.requests /\ client.requests[id].at = "timer"
  /\ \/ /\ connected(client)
        /\ client' = [client EXCEPT !.requests[id].at = "wire"]
        /\ net' = net \union {[to |-> "host", id |-> id, token |-> token(id),
                               request |-> client.requests[id]]}
     \/ /\ ~connected(client) \/ ~reachable
        /\ client' = finishDrive(client, id, Failure)
        /\ UNCHANGED net
  /\ bounded
  /\ UNCHANGED <<reachable, hostVars>>

Receive(m) ==
  /\ m \in net /\ m.to = "client"
  /\ net' = net \ {m}
  /\ client' = receiveDrive(client, m.id, m.response)
  /\ bounded
  /\ \A id \in DOMAIN client'.requests : client'.requests[id].retries <= MaxRetry
  /\ UNCHANGED <<reachable, hostVars>>

(* The 30 second timer of a request. *)
Deadline(id) ==
  /\ id \in DOMAIN client.requests /\ client' = finishDrive(client, id, Failure)
  /\ bounded
  /\ UNCHANGED <<reachable, net, hostVars>>

(* The one second timer, and the signals that lead to update(). *)
Update ==
  /\ client' = update(client, reachable)
  /\ bounded
  /\ UNCHANGED <<reachable, net, hostVars>>

(* Sign-out, sign-in, and another drive registered: the account's signals call update(). *)
AccountChanged(d) ==
  /\ d # client.account
  /\ client' = update([client EXCEPT !.account = d], reachable)
  /\ bounded
  /\ UNCHANGED <<reachable, net, hostVars>>

Link == reachable' = ~reachable /\ UNCHANGED <<client, net, hostVars>>

-----------------------------------------------------------------------------
(* The host. *)

live(t) == t[1] \in DOMAIN client.requests /\ token(t[1]) = t

(* The finished jobs created first: one of them makes room. *)
oldest(jobs) ==
  {t \in DOMAIN jobs : /\ jobs[t].finished
                       /\ \A o \in DOMAIN jobs : jobs[o].finished => jobs[t].created <= jobs[o].created}

full(jobs) == Cardinality(DOMAIN jobs) >= MaxJobs

(* The tables with room for one more job. *)
evicted(jobs) ==
  IF full(jobs) THEN {Restrict(jobs, DOMAIN jobs \ {t}) : t \in oldest(jobs)} ELSE {jobs}

(* created: the time, as the number of the job among those in the table *)
NewJob(jobs) ==
  [finished |-> FALSE, result |-> Failure, runs |-> 0,
   created |-> 1 + Max({0} \union {jobs[t].created : t \in DOMAIN jobs})]

(***************************************************************************)
(* Controller::handle.  A finished job is dropped 60 seconds after its     *)
(* creation, when the request that knew its token has met its own 30       *)
(* second deadline.                                                        *)
(***************************************************************************)
handle(m) ==
  LET jobs == host.jobs
      reply(r) == net' = (net \ {m}) \union {[to |-> "client", id |-> m.id, response |-> r]}
      outdated == {t \in DOMAIN jobs : jobs[t].finished /\ ~live(t)}
  IN /\ m \in net /\ m.to = "host"
     /\ \/ /\ ~host.ready
           /\ reply([type |-> "error"]) /\ UNCHANGED <<host, events>>
        \/ /\ host.ready /\ m.token \in DOMAIN jobs
           /\ reply(IF jobs[m.token].finished
                    THEN [type |-> "result", result |-> jobs[m.token].result] ELSE [type |-> "pending"])
           /\ UNCHANGED <<host, events>>
        \/ /\ host.ready /\ m.token \notin DOMAIN jobs
           /\ \E drop \in SUBSET outdated :
                LET kept == Restrict(jobs, DOMAIN jobs \ drop)
                IN \/ /\ evicted(kept) = {}
                      /\ host' = [host EXCEPT !.jobs = kept]
                      /\ reply([type |-> "busy"]) /\ UNCHANGED events
                   \/ /\ \E table \in evicted(kept) :
                           host' = [host EXCEPT !.jobs = insert(table, m.token, NewJob(table))]
                      /\ events' = Append(events, [type |-> "job", gen |-> host.gen, token |-> m.token,
                                                   request |-> m.request])
                      /\ reply([type |-> "pending"])
     /\ UNCHANGED <<client, reachable, worker, signals, disk, catalogs, made>>

Revision(d) == Len(catalogs[d])
Index(d) == Last(catalogs[d])

(* Mutation: an entry that exists already is reported as written. *)
written_Exists(d, p) == Done(d)

(* Publication never replaces a target. *)
written(d, p) == IF disk[d][p] = Absent THEN Done(d) ELSE Failure

(* The answer to a request that does not write. *)
answer(d, q) == IF q.kind = "catalog" THEN catalog(d, catalogs[d], q.args) ELSE Done(d)

(* refresh(path) after the file is published: indexed at once, or left for a scan. *)
refresh(d, p) ==
  \/ UNCHANGED catalogs
  \/ /\ Revision(d) < MaxRevision /\ p \notin Index(d)
     /\ catalogs' = [catalogs EXCEPT ![d] = Append(@, Index(d) \union {p})]

(***************************************************************************)
(* Replica::driveRequest: the execution of job e on the open drive d, with *)
(* result r.                                                               *)
(***************************************************************************)
driveRequest(d, e, r) ==
  LET q == e.request
  IN \/ q.container # d /\ r = Failure /\ UNCHANGED <<disk, catalogs, made>>
     \/ /\ q.container = d /\ q.kind # "write" /\ r = answer(d, q)
        /\ UNCHANGED <<disk, catalogs, made>>
     \/ /\ q.container = d /\ q.kind = "write" /\ r = written(d, q.args)
        /\ IF disk[d][q.args] = Absent
           THEN /\ disk' = [disk EXCEPT ![d][q.args] = e.token[1]]
                /\ made' = made \union {e.token[1]}
                /\ refresh(d, q.args)
           ELSE UNCHANGED <<disk, catalogs, made>>

results(d, e) == {Failure, Done(d)} \union (IF e.request.kind = "write" THEN {} ELSE {answer(d, e.request)})

(* Mutation: a job of an earlier generation is executed after a reopen. *)
current_Any(e) == TRUE

(* The check at the start of handleJob. *)
current(e) == worker.gen = e.gen /\ host.gen = e.gen

report(e, r) == Append(signals, [type |-> "result", gen |-> e.gen, token |-> e.token, result |-> r])

(* history: the executions of each job in the table *)
counted(jobs, e) ==
  [t \in DOMAIN jobs |-> IF t = e.token THEN [jobs[t] EXCEPT !.runs = @ + 1] ELSE jobs[t]]

(***************************************************************************)
(* handleJob: dropped in another generation; timed out after 120 seconds,  *)
(* when its request has met its own deadline; tried again when another     *)
(* process has the store's lock (sync_store_busy), and still pending then; *)
(* executed.  The refusals before it (pinPrimary, a mirror) change nothing *)
(* either: they are among the failures of driveRequest.                    *)
(***************************************************************************)
handleJob(e, timers) ==
  \/ /\ ~current(e)
     /\ worker' = [worker EXCEPT !.timers = timers]
     /\ UNCHANGED <<host, signals, disk, catalogs, made>>
  \/ /\ current(e) /\ ~live(e.token)
     /\ worker' = [worker EXCEPT !.timers = timers]
     /\ signals' = report(e, Failure)
     /\ UNCHANGED <<host, disk, catalogs, made>>
  \/ /\ current(e)
     /\ worker' = [worker EXCEPT !.timers = timers \union {e}]
     /\ UNCHANGED <<host, signals, disk, catalogs, made>>
  \/ /\ current(e) /\ worker.open # None
     /\ \E r \in results(worker.open, e) :
          driveRequest(worker.open, e, r) /\ signals' = report(e, r)
     /\ worker' = [worker EXCEPT !.timers = timers]
     /\ host' = [host EXCEPT !.jobs = counted(@, e)]

(* configure: the worker adopts the newest generation and opens its drive, which may fail. *)
configure(e) ==
  /\ IF e.gen = host.gen
     THEN \E d \in {e.path, None} :
            /\ worker' = [worker EXCEPT !.gen = e.gen, !.open = d]
            /\ signals' = Append(signals, [type |-> "status", gen |-> e.gen, ready |-> d # None])
     ELSE UNCHANGED <<worker, signals>>
  /\ UNCHANGED <<host, disk, catalogs, made>>

WorkerEvent ==
  /\ events # <<>> /\ events' = Tail(events)
  /\ \/ Head(events).type = "job" /\ handleJob(Head(events), worker.timers)
     \/ Head(events).type = "configure" /\ configure(Head(events))
  /\ UNCHANGED <<client, reachable, net>>

WorkerTimer(e) ==
  /\ e \in worker.timers
  /\ handleJob(e, worker.timers \ {e})
  /\ UNCHANGED <<client, reachable, net, events>>

finished(jobs, s) ==
  [t \in DOMAIN jobs |-> IF t = s.token THEN [jobs[t] EXCEPT !.finished = TRUE, !.result = s.result]
                         ELSE jobs[t]]

(* A signal of the worker reaches the controller's thread. *)
Signal ==
  /\ signals # <<>> /\ signals' = Tail(signals)
  /\ LET s == Head(signals)
     IN \/ s.gen # host.gen /\ UNCHANGED host
        \/ s.gen = host.gen /\ s.type = "status" /\ host' = [host EXCEPT !.ready = s.ready, !.opening = FALSE]
        \/ s.gen = host.gen /\ s.type = "result" /\ host' = [host EXCEPT !.jobs = finished(@, s)]
  /\ UNCHANGED <<client, reachable, net, worker, events, disk, catalogs, made>>

(* openInternal and close: the jobs and the late results of the old generation are void. *)
Open(d) ==
  /\ host.gen < MaxOpen
  /\ d = host.path => d # None /\ ~host.ready /\ ~host.opening
  /\ host' = [gen |-> host.gen + 1, path |-> d, ready |-> FALSE, opening |-> d # None, jobs |-> Empty]
  /\ events' = Append(events, [type |-> "configure", gen |-> host.gen + 1, path |-> d])
  /\ UNCHANGED <<client, reachable, net, worker, signals, disk, catalogs, made>>

(* A user of the host device adds or removes a file; the index follows later. *)
HostEdit(d, p) ==
  /\ Revision(d) < MaxRevision
  /\ disk' = [disk EXCEPT ![d][p] = IF @ = Absent THEN Own ELSE Absent]
  /\ UNCHANGED <<client, reachable, net, host, worker, events, signals, catalogs, made>>

HostIndex(d) ==
  /\ Revision(d) < MaxRevision
  /\ LET present == {p \in Path : disk[d][p] # Absent}
     IN present # Index(d) /\ catalogs' = [catalogs EXCEPT ![d] = Append(@, present)]
  /\ UNCHANGED <<client, reachable, net, host, worker, events, signals, disk, made>>

-----------------------------------------------------------------------------
DriveNext ==
  \/ \E p \in Path : Call(p)
  \/ RefreshDue \/ Update \/ Link
  \/ \E i \in 1..MaxId : transmitDrive(i) \/ Deadline(i)
  \/ \E d \in Container \union {None} : AccountChanged(d) \/ Open(d)
  \/ \E m \in net : Receive(m) \/ handle(m)
  \/ WorkerEvent \/ Signal
  \/ \E e \in worker.timers : WorkerTimer(e)
  \/ \E d \in Container : HostIndex(d) \/ \E p \in Path : HostEdit(d, p)

DriveSpec == DriveInit /\ [][DriveNext]_driveVars

-----------------------------------------------------------------------------
(***************************************************************************)
(* A job of the host's table is executed at most once (handleJob, result), *)
(* and is finished by its own execution or by its timeout, whatever lock   *)
(* collisions, polls with the same token, evictions and reopenings happen. *)
(***************************************************************************)
JobRunsOnce ==
  \A t \in DOMAIN host.jobs :
    LET j == host.jobs[t]
    IN j.runs <= 1 /\ (j.finished /\ j.runs = 0 => ~j.result.ok /\ ~live(t))

(***************************************************************************)
(* A write reported as successful has itself created the file              *)
(* (driveRequest, receiveDrive): it is never answered with the result of   *)
(* another request, or because somebody else's file is in the way.         *)
(***************************************************************************)
WriteReported ==
  \A id \in DOMAIN client.answers : client.answers[id] = <<"write">> => id \in made

=============================================================================
