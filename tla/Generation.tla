---------------------------- MODULE Generation ----------------------------
(***************************************************************************)
(* Image generation on the Society host (src/Generation): the Host keeps   *)
(* jobs, a queue and one worker thread; each peer's Remote carries one job *)
(* at a time through submit, status and read requests, and retries.        *)
(* The transport is the SDK's: requests and answers are lost, late and     *)
(* reordered.  A request whose number a Remote has forgotten is no longer  *)
(* `live`: the host may still obey it, any number of times, as the Remote  *)
(* repeats itself; its answers are dropped unread.                         *)
(*                                                                         *)
(* An image is Chunks pieces, each known by the job it was made for.  A    *)
(* peer that starts a job again under its identifier gives the same input. *)
(***************************************************************************)
EXTENDS Integers, Sequences, FiniteSets, Functions

CONSTANTS Peer,        \* authenticated devices
          Job,         \* job identifiers
          None,        \* nothing
          Chunks,      \* pieces of 192 KiB of an image
          QueueLimit,  \* 64 in the code
          JobLimit,    \* 4096 in the code
          MaxStarts,   \* bound on the jobs given to Remotes
          MaxChanges   \* bound on what users, hosts and the network do to them

Final == {"cancelled", "completed", "failed"}

(* What the worker has: a job, the container and peer it is for, and how far it is. *)
WorkerJob == [id : Job, epoch : Nat, peer : Peer, at : {"engine", "encoded"} \union Final]

ASSUME GenerationAssumption ==
  /\ {Chunks, QueueLimit, JobLimit, MaxStarts, MaxChanges} \subseteq Nat /\ Chunks > 0
  /\ None \notin Peer \union Job \union WorkerJob

VARIABLES storage,  \* Host: a container is open
          epoch,    \* Host: containers closed so far
          jobs,     \* Host: known jobs, with their owner and state
          queue,    \* Host: jobs to run
          flagged,  \* Host: <<epoch, job>> whose cancelled flag is set, as the worker sees it
          worker,   \* Host: the job being run, or None
          posted,   \* Host: a pump is in the event queue; more than one does what one does
          files,    \* results in the container: job -> the peer its image was made for
          remote,   \* [Peer -> its Remote]
          net,      \* requests and answers on their way
          outcome,  \* [Peer -> what its Remote last told its user]
          starts, changes

host == <<storage, epoch, jobs, queue, flagged, worker, posted, files>>
client == <<remote, outcome, starts>>
vars == <<host, client, net, changes>>

Idle == [job |-> None, accepted |-> FALSE, cancelled |-> FALSE, paused |-> FALSE,
         pending |-> FALSE, action |-> "submit", result |-> None, image |-> <<>>]

Init ==
  /\ storage = TRUE /\ epoch = 0 /\ jobs = <<>> /\ queue = <<>> /\ flagged = {}
  /\ worker = None /\ posted = FALSE /\ files = <<>>
  /\ remote = [p \in Peer |-> Idle] /\ net = {}
  /\ outcome = [p \in Peer |-> None] /\ starts = 0 /\ changes = 0

Change == changes < MaxChanges /\ changes' = changes + 1

-----------------------------------------------------------------------------
(* Host: the queue and the worker. *)

cancelled(id) == <<epoch, id>> \in flagged

(* Mutation: passing over a cancelled job does not post the next pump. *)
pump_Once(js, again) ==
  IF ~storage \/ queue = <<>>
  THEN jobs' = js /\ worker' = None /\ posted' = again /\ UNCHANGED queue
  ELSE LET id == Head(queue) IN
       /\ queue' = Tail(queue) /\ posted' = again
       /\ jobs' = IF cancelled(id) THEN js ELSE [js EXCEPT ![id].state = "running"]
       /\ worker' = IF cancelled(id) THEN None ELSE [id |-> id, epoch |-> epoch, peer |-> js[id].peer, at |-> "engine"]

(* pump: the next job, when nothing runs.  A job that was cancelled is passed over and a model
   that is gone fails its job; either way pump is posted again. *)
pump(js, again) ==
  IF ~storage \/ queue = <<>>
  THEN jobs' = js /\ worker' = None /\ posted' = again /\ UNCHANGED queue
  ELSE LET id == Head(queue) IN
       /\ queue' = Tail(queue)
       /\ \/ /\ cancelled(id)
             /\ jobs' = js /\ worker' = None /\ posted' = TRUE
          \/ /\ ~cancelled(id)
             /\ jobs' = [js EXCEPT ![id].state = "failed"] /\ worker' = None /\ posted' = TRUE
          \/ /\ ~cancelled(id)
             /\ jobs' = [js EXCEPT ![id].state = "running"] /\ posted' = again
             /\ worker' = [id |-> id, epoch |-> epoch, peer |-> js[id].peer, at |-> "engine"]

Pump ==
  /\ posted
  /\ IF worker # None THEN posted' = FALSE /\ UNCHANGED <<jobs, queue, worker>> ELSE pump(jobs, FALSE)
  /\ UNCHANGED <<storage, epoch, flagged, files, client, net, changes>>

WorkerFlag == <<worker.epoch, worker.id>> \in flagged
Worker(stage) == worker # None /\ worker.at = stage

(* The engine returns pixels, an error, or nothing because it was cancelled. *)
Engine ==
  /\ Worker("engine")
  /\ \E r \in IF WorkerFlag THEN {"cancelled"} ELSE {"encoded", "failed"} : worker' = [worker EXCEPT !.at = r]
  /\ UNCHANGED <<storage, epoch, jobs, queue, flagged, posted, files, client, net, changes>>

(* The encoded image is saved, unless the job was cancelled by now or has a result already. *)
Save ==
  /\ Worker("encoded")
  /\ LET r == IF WorkerFlag THEN "cancelled" ELSE IF worker.id \in DOMAIN files THEN "failed" ELSE "completed"
     IN /\ worker' = [worker EXCEPT !.at = r]
        /\ files' = IF r = "completed" THEN [j \in DOMAIN files \union {worker.id} |->
                                               IF j = worker.id THEN worker.peer ELSE files[j]]
                    ELSE files
  /\ UNCHANGED <<storage, epoch, jobs, queue, flagged, posted, client, net, changes>>

(* The status of the job that has ended, if it belongs to the open container. *)
closing(js) ==
  IF worker.epoch # epoch \/ worker.id \notin DOMAIN js THEN js
  ELSE [js EXCEPT ![worker.id].state = IF cancelled(worker.id) THEN "cancelled" ELSE worker.at]

(* QFutureWatcher::finished. *)
Finished ==
  /\ worker # None /\ worker.at \in Final
  /\ pump(closing(jobs), posted)
  /\ UNCHANGED <<storage, epoch, flagged, files, client, net, changes>>

(* close: the worker, if any, goes on, the only one to hold a flag, which is set; nothing of the
   jobs remains.  A crash of the process ends the worker too. *)
close ==
  /\ storage /\ Change
  /\ storage' = FALSE /\ epoch' = epoch + 1 /\ jobs' = <<>> /\ queue' = <<>>
  /\ \/ /\ UNCHANGED <<worker, posted>>
        /\ flagged' = IF worker = None THEN {} ELSE {<<worker.epoch, worker.id>>}
     \/ worker # None /\ worker' = None /\ posted' = FALSE /\ flagged' = {}
  /\ UNCHANGED <<files, client, net>>

open ==
  /\ ~storage /\ storage' = TRUE
  /\ UNCHANGED <<epoch, jobs, queue, flagged, worker, posted, files, client, net, changes>>

-----------------------------------------------------------------------------
(* Host::handle. *)

failure == [ok |-> FALSE]
status(job) == [ok |-> TRUE, state |-> job.state, sha |-> job.peer]

Answer(m, response) ==
  net' = IF m.live THEN (net \ {m}) \union {[op |-> "answer", peer |-> m.peer, live |-> TRUE, response |-> response]} ELSE net

known(m) == m.id \in DOMAIN jobs

(* Mutation: anybody may ask after a job. *)
owned_Any(m) == TRUE
owned(m) == known(m) => jobs[m.id].peer = m.peer

Request(m, action) ==
  /\ m.op = action /\ storage /\ owned(m)
  /\ UNCHANGED <<storage, epoch, worker, files, client, changes>>
insert(id, job) == [j \in DOMAIN jobs \union {id} |-> IF j = id THEN job ELSE jobs[j]]

full == Cardinality(DOMAIN jobs) >= JobLimit

(* No container, somebody else's job, nothing known of it, or no room to mark it cancelled. *)
refuse(m) ==
  /\ m.op # "answer"
  /\ \/ ~storage
     \/ storage /\ ~owned(m)
     \/ storage /\ ~known(m) /\ m.op \in (IF full THEN {"status", "read", "cancel"} ELSE {"status", "read"})
  /\ Answer(m, failure) /\ UNCHANGED <<host, client, changes>>

submit(m) ==
  /\ Request(m, "submit")
  /\ \/ /\ known(m) /\ Answer(m, status(jobs[m.id]))
        /\ UNCHANGED <<jobs, queue, posted, flagged>>
     \/ \* the model cannot be found, or there is no room
        /\ ~known(m) /\ Answer(m, failure)
        /\ UNCHANGED <<jobs, queue, posted, flagged>>
     \/ /\ ~known(m) /\ ~full /\ Len(queue) < QueueLimit
        /\ LET job == [peer |-> m.peer, state |-> "queued"]
           IN jobs' = insert(m.id, job) /\ Answer(m, status(job))
        /\ queue' = Append(queue, m.id) /\ posted' = TRUE /\ UNCHANGED flagged

(* Mutation: a job the worker has is at once reported cancelled. *)
stopped_AtOnce(state) == IF state \in {"queued", "running", "cancelling"} THEN "cancelled" ELSE state
(* What cancelling makes of a state: the worker has to end what it runs. *)
stopped(state) ==
  CASE state = "queued" -> "cancelled" [] state \in {"running", "cancelling"} -> "cancelling" [] OTHER -> state

(* cancel of a job not seen yet leaves a mark, so that a submit that comes later does not run. *)
cancel(m) ==
  /\ Request(m, "cancel") /\ (known(m) \/ ~full)
  /\ LET job == IF known(m) THEN [jobs[m.id] EXCEPT !.state = stopped(@)]
                ELSE [peer |-> m.peer, state |-> "cancelled"]
     IN /\ jobs' = insert(m.id, job) /\ Answer(m, status(job))
        /\ flagged' = IF job.state \in {"cancelled", "cancelling"} THEN flagged \union {<<epoch, m.id>>} ELSE flagged
  /\ UNCHANGED <<queue, posted>>

inspect(m) ==
  /\ Request(m, "status") /\ known(m)
  /\ Answer(m, status(jobs[m.id])) /\ UNCHANGED <<jobs, queue, posted, flagged>>

read(m) ==
  /\ Request(m, "read") /\ known(m)
  /\ Answer(m, IF jobs[m.id].state = "completed" /\ m.offset < Chunks
               THEN [ok |-> TRUE, offset |-> m.offset, data |-> [peer |-> files[m.id], id |-> m.id]] ELSE failure)
  /\ UNCHANGED <<jobs, queue, posted, flagged>>

-----------------------------------------------------------------------------
(* Remote. *)

active(p) == remote[p].job # None

(* m_pending.clear(): what is on its way for p no longer counts. *)
forget(p) ==
  {IF m.op # "answer" /\ m.peer = p THEN [m EXCEPT !.live = FALSE] ELSE m :
     m \in {n \in net : ~(n.op = "answer" /\ n.peer = p)}}

(* What complete() leaves alone, start() sets before it is read. *)
complete(p, r, state) ==
  /\ remote' = [remote EXCEPT ![p] = [Idle EXCEPT !.paused = r.paused]]
  /\ outcome' = [outcome EXCEPT ![p] = [state |-> state, job |-> r.job, cancelled |-> r.cancelled,
                                        image |-> IF state = "completed" THEN r.image ELSE <<>>]]

(* The request that tick sends. *)
action(r) ==
  IF r.cancelled THEN "cancel" ELSE IF ~r.accepted THEN "submit" ELSE IF r.result = None THEN "status" ELSE "read"
request(p, r) ==
  [op |-> action(r), peer |-> p, live |-> TRUE, id |-> r.job,
   offset |-> IF action(r) = "read" THEN Len(r.image) ELSE 0]

sent(p, r) ==
  /\ remote' = [remote EXCEPT ![p] = [r EXCEPT !.pending = TRUE, !.action = action(r)]]
  /\ net' = forget(p) \union {request(p, r)}
  /\ UNCHANGED outcome

start(p, id) ==
  /\ starts < MaxStarts /\ ~active(p)
  /\ remote' = [remote EXCEPT ![p] = [Idle EXCEPT !.job = id, !.paused = remote[p].paused]]
  /\ net' = forget(p) /\ outcome' = [outcome EXCEPT ![p] = None] /\ starts' = starts + 1
  /\ UNCHANGED <<host, changes>>

setPaused(p) ==
  /\ Change
  /\ remote' = [remote EXCEPT ![p].paused = ~@, ![p].pending = FALSE]
  /\ net' = forget(p) /\ UNCHANGED <<host, outcome, starts>>

Cancel(p) ==
  /\ active(p) /\ Change
  /\ LET r == [remote[p] EXCEPT !.cancelled = TRUE, !.pending = FALSE]
     IN IF r.paused THEN remote' = [remote EXCEPT ![p] = r] /\ net' = forget(p) /\ UNCHANGED outcome
        ELSE sent(p, r)
  /\ UNCHANGED <<host, starts>>

tick(p) ==
  /\ active(p) /\ ~remote[p].paused /\ ~remote[p].pending
  /\ sent(p, remote[p]) /\ UNCHANGED <<host, starts, changes>>

(* tick, two minutes after the last answer. *)
Disconnected(p) ==
  /\ active(p) /\ ~remote[p].paused /\ Change
  /\ complete(p, remote[p], "failed") /\ net' = forget(p)
  /\ UNCHANGED <<host, starts>>

(* An answer to the request under way: a piece of the image ... *)
receivePiece(p, r, response) ==
  IF response.offset # Len(r.image) \/ Len(r.image) = Chunks THEN complete(p, r, "failed")
  ELSE LET s == [r EXCEPT !.image = Append(@, response.data)] IN
       IF Len(s.image) < Chunks THEN remote' = [remote EXCEPT ![p] = s] /\ UNCHANGED outcome
       ELSE complete(p, s, IF \A c \in Range(s.image) : c = s.result THEN "completed" ELSE "failed")

(* ... or the state of the job. *)
receiveState(p, r, response) ==
  LET a == [r EXCEPT !.accepted = @ \/ r.action = "submit"]
      s == [a EXCEPT !.result = [peer |-> response.sha, id |-> r.job]]
  IN CASE response.state \in {"failed", "cancelled"} -> complete(p, a, response.state)
       [] response.state = "completed" /\ r.cancelled -> complete(p, s, "cancelled")
       [] response.state = "completed" /\ ~r.cancelled -> remote' = [remote EXCEPT ![p] = s] /\ UNCHANGED outcome
       [] OTHER -> remote' = [remote EXCEPT ![p] = a] /\ UNCHANGED outcome

(* receive: an answer that is still on its way is to the request the Remote waits for (see forget). *)
receive(m) ==
  /\ m.op = "answer" /\ net' = net \ {m}
  /\ LET p == m.peer
         r == [remote[p] EXCEPT !.pending = FALSE]
     IN IF ~m.response.ok THEN complete(p, r, "failed")
        ELSE IF r.action = "read" THEN receivePiece(p, r, m.response) ELSE receiveState(p, r, m.response)
  /\ UNCHANGED <<host, starts, changes>>

(* A request is given up, by the transport that says so or by tick after ten seconds: it was lost,
   its answer was, or it is merely late and the host sees it yet. *)
GiveUp(p) ==
  /\ remote[p].pending /\ Change
  /\ remote' = [remote EXCEPT ![p].pending = FALSE]
  /\ net' \in {forget(p), {m \in net : ~(m.peer = p /\ m.live)}}
  /\ UNCHANGED <<host, outcome, starts>>

Handle(m) == refuse(m) \/ submit(m) \/ cancel(m) \/ inspect(m) \/ read(m)

Next ==
  \/ Pump \/ Engine \/ Save \/ Finished \/ close \/ open
  \/ \E m \in net : Handle(m) \/ receive(m)
  \/ \E p \in Peer :
       \/ \E id \in Job : start(p, id)
       \/ setPaused(p) \/ Cancel(p) \/ tick(p) \/ Disconnected(p) \/ GiveUp(p)

Spec == Init /\ [][Next]_vars

-----------------------------------------------------------------------------
(* What the host has told about a job is final: a job reported cancelled, completed or failed is
   neither being run for the open container nor going to be, even if its cancellation came before
   its submission or while the worker had it. *)
FinalIsFinal ==
  \A id \in DOMAIN jobs : jobs[id].state \in Final =>
    /\ worker = None \/ worker.id # id \/ worker.epoch # epoch
    /\ \A i \in DOMAIN queue : queue[i] = id => cancelled(id)

(* An image a Remote presents is whole and was made for its peer and its job, whatever identifiers
   other peers or earlier jobs used, across closing and reopening the container that keeps the result
   files; and its user has not cancelled it, also when the last piece or the final status was on its way. *)
ImageOfJob ==
  \A p \in Peer : outcome[p] # None /\ outcome[p].state = "completed" =>
    /\ outcome[p].image = [i \in 1..Chunks |-> [peer |-> p, id |-> outcome[p].job]]
    /\ ~outcome[p].cancelled

(* No job is left behind in the queue: while the container is open and jobs wait, the worker runs, and
   will pump when it ends, or a pump is posted.  Jobs passed over, models that are gone and a worker
   that still runs for a container closed long ago must not lose the last pump. *)
QueuePumped == storage /\ queue # <<>> => posted \/ worker # None
=============================================================================
