-------------------------- MODULE GenerationProofs --------------------------
(***************************************************************************)
(* The three invariants of Generation for any peers, jobs and limits.      *)
(*                                                                         *)
(* HostInv is about the Host alone: what waits in the queue, what the      *)
(* worker runs and which results exist.  Wire is about what is on its way: *)
(* at most one live request or answer for each Remote, of the kind it      *)
(* waits for.  Told is about the Remotes and what they told their users.   *)
(***************************************************************************)
EXTENDS Generation, SequenceTheorems, TLAPS

States == {"queued", "running", "cancelling"} \union Final
JobRecord == [peer : Peer, state : States]
JobMap == UNION {[D -> JobRecord] : D \in SUBSET Job}
FileMap == UNION {[D -> Peer] : D \in SUBSET Job}

Operation == {"submit", "status", "read", "cancel"}
Piece == [peer : Peer, id : Job]
RemoteState == [job : Job \union {None}, accepted : BOOLEAN, cancelled : BOOLEAN, paused : BOOLEAN,
                pending : BOOLEAN, action : Operation, result : Piece \union {None}, image : Seq(Piece)]
Outcome == [state : Final, job : Job \union {None}, cancelled : BOOLEAN, image : Seq(Piece)]

Ask == [op : Operation, peer : Peer, live : BOOLEAN, id : Job, offset : Nat]
Failure == [ok : {FALSE}]
Status == [ok : {TRUE}, state : States, sha : Peer]
Part == [ok : {TRUE}, offset : Nat, data : Piece]
Reply == [op : {"answer"}, peer : Peer, live : {TRUE}, response : Failure \union Status \union Part]

HostType ==
  /\ storage \in BOOLEAN /\ epoch \in Nat /\ jobs \in JobMap /\ queue \in Seq(Job)
  /\ worker \in WorkerJob \union {None} /\ posted \in BOOLEAN /\ files \in FileMap

(* The jobs in a queue wait once each, and have not run: nobody but a cancellation has touched them. *)
Waiting(q, js) ==
  /\ \A i, j \in 1..Len(q) : q[i] = q[j] => i = j
  /\ \A i \in 1..Len(q) : /\ q[i] \in DOMAIN js
                          /\ js[q[i]].state = "queued" \/ (js[q[i]].state = "cancelled" /\ cancelled(q[i]))

(* The worker runs a job of this container or of one that was closed; a job of this container is known,
   under way, and no longer in the queue. *)
Running ==
  worker # None =>
    /\ worker.epoch <= epoch
    /\ worker.epoch = epoch =>
         /\ worker.id \in DOMAIN jobs /\ jobs[worker.id].state \in {"running", "cancelling"}
         /\ \A i \in 1..Len(queue) : queue[i] # worker.id

(* What is completed has its result in the container. *)
Results(js) == \A id \in DOMAIN js : js[id].state = "completed" => id \in DOMAIN files
Saved == worker # None /\ worker.at = "completed" => worker.id \in DOMAIN files

HostInv ==
  /\ HostType
  /\ ~storage => DOMAIN jobs = {} /\ queue = <<>>
  /\ Waiting(queue, jobs) /\ Running /\ Results(jobs) /\ Saved
  /\ QueuePumped

(* An answer is for the Remote's own job: a status names the peer as the one the image is made for. *)
Fits(m) ==
  /\ m.op # "answer" => m.op = remote[m.peer].action
  /\ m.op = "answer" /\ m.response.ok =>
       IF remote[m.peer].action = "read" THEN m.response \in Part ELSE m.response \in Status /\ m.response.sha = m.peer
  /\ remote[m.peer].action = "read" => ~remote[m.peer].cancelled
  /\ remote[m.peer].job # None

Wire ==
  /\ net \subseteq Ask \union Reply
  /\ \A m, n \in net : m.live /\ n.live /\ m.peer = n.peer => m = n
  /\ \A m \in net : m.live => Fits(m)

(* What a Remote takes for the result is its own job's, and it has less than the whole image. *)
Good(p, r) ==
  /\ r.result # None => r.result = [peer |-> p, id |-> r.job]
  /\ Len(r.image) < Chunks
  /\ r.action = "read" => r.result # None

(* An image that was presented is whole, of the peer's own job, and wanted. *)
Sound(p, o) ==
  o # None /\ o.state = "completed" =>
    o.image = [i \in 1..Chunks |-> [peer |-> p, id |-> o.job]] /\ ~o.cancelled

Told ==
  /\ remote \in [Peer -> RemoteState] /\ outcome \in [Peer -> Outcome \union {None}]
  /\ \A p \in Peer : Good(p, remote[p]) /\ Sound(p, outcome[p])

IInv == HostInv /\ Wire /\ Told

-----------------------------------------------------------------------------
(* A function on some jobs is a map of jobs, and what such a map is. *)
LEMMA MapIntro ==
  ASSUME NEW R, NEW D \in SUBSET Job, NEW f \in [D -> R]
  PROVE  f \in UNION {[E -> R] : E \in SUBSET Job}
OBVIOUS

LEMMA MapElim ==
  ASSUME NEW R, NEW f \in UNION {[E -> R] : E \in SUBSET Job}
  PROVE  DOMAIN f \in SUBSET Job /\ f \in [DOMAIN f -> R] /\ \A x \in DOMAIN f : f[x] \in R
<1>1. PICK D \in SUBSET Job : f \in [D -> R] OBVIOUS
<1> QED BY <1>1

(* The empty function is a map of jobs. *)
LEMMA MapEmpty ==
  ASSUME NEW R PROVE <<>> \in UNION {[E -> R] : E \in SUBSET Job} /\ DOMAIN <<>> = {}
<1>1. <<>> \in [{} -> R] /\ DOMAIN <<>> = {} OBVIOUS
<1> QED BY <1>1, MapIntro

(* A job's state is set: the map, its domain, the job's record and the others. *)
LEMMA SetState ==
  ASSUME NEW js \in JobMap, NEW id \in DOMAIN js, NEW x \in States
  PROVE  LET ks == [js EXCEPT ![id].state = x] IN
         /\ ks \in JobMap /\ DOMAIN ks = DOMAIN js
         /\ ks[id].state = x /\ ks[id].peer = js[id].peer
         /\ \A j \in DOMAIN js : j # id => ks[j] = js[j]
<1> DEFINE ks == [js EXCEPT ![id].state = x]
<1>1. DOMAIN js \in SUBSET Job /\ js \in [DOMAIN js -> JobRecord] BY MapElim DEF JobMap
<1>2. ks \in [DOMAIN js -> JobRecord] BY <1>1 DEF JobRecord
<1>3. ks \in JobMap BY <1>1, <1>2, MapIntro DEF JobMap
<1>4. ks[id] = [js[id] EXCEPT !.state = x] BY <1>1
<1>5. ks[id].state = x /\ ks[id].peer = js[id].peer BY <1>1, <1>4 DEF JobRecord
<1> QED BY <1>1, <1>3, <1>5

(* A job is put into the Host's map. *)
LEMMA Insert ==
  ASSUME jobs \in JobMap, NEW id \in Job, NEW job \in JobRecord
  PROVE  /\ insert(id, job) \in JobMap /\ DOMAIN insert(id, job) = DOMAIN jobs \union {id}
         /\ insert(id, job)[id] = job
         /\ \A j \in DOMAIN jobs : j # id => insert(id, job)[j] = jobs[j]
<1>1. DOMAIN jobs \in SUBSET Job /\ jobs \in [DOMAIN jobs -> JobRecord] BY MapElim DEF JobMap
<1>2. insert(id, job) \in [DOMAIN jobs \union {id} -> JobRecord] BY <1>1 DEF insert
<1>3. insert(id, job) \in JobMap BY <1>1, <1>2, MapIntro DEF JobMap
<1> QED BY <1>1, <1>3 DEF insert

(* The first of a queue, and the rest. *)
LEMMA HeadTail ==
  ASSUME NEW q \in Seq(Job), q # <<>>
  PROVE  /\ Len(q) \in Nat /\ Len(q) >= 1 /\ Head(q) = q[1] /\ Head(q) \in Job
         /\ Tail(q) \in Seq(Job) /\ Len(Tail(q)) = Len(q) - 1
         /\ \A i \in 1..Len(Tail(q)) : i + 1 \in 1..Len(q) /\ Tail(q)[i] = q[i + 1]
BY HeadTailProperties

(* A worker's job is not None. *)
LEMMA WorkerIsAJob == None \notin WorkerJob
BY GenerationAssumption

-----------------------------------------------------------------------------
(* The Host. *)

(* pump, on the jobs js that the caller leaves, keeps the Host's invariant, whatever ran before. *)
LEMMA PumpKeeps ==
  ASSUME HostType, NEW js \in JobMap, NEW again \in BOOLEAN, Waiting(queue, js), Results(js),
         ~storage => DOMAIN js = {} /\ queue = <<>>,
         pump(js, again), UNCHANGED <<storage, epoch, flagged, files>>
  PROVE  HostInv'
<1> USE DEF HostType
<1>1. CASE ~storage \/ queue = <<>>
  <2>1. jobs' = js /\ worker' = None /\ posted' = again /\ queue' = queue BY <1>1 DEF pump
  <2>2. HostType' BY <2>1
  <2>3. Waiting(queue, jobs)' BY <2>1 DEF Waiting, cancelled
  <2>4. Results(jobs)' BY <2>1 DEF Results
  <2> QED BY <1>1, <2>1, <2>2, <2>3, <2>4 DEF HostInv, Running, Saved, QueuePumped
<1>2. CASE storage /\ queue # <<>>
  <2> DEFINE id == Head(queue)
  <2>1. /\ Len(queue) \in Nat /\ Len(queue) >= 1 /\ id = queue[1] /\ id \in Job
        /\ Tail(queue) \in Seq(Job) /\ Len(Tail(queue)) = Len(queue) - 1
        /\ \A i \in 1..Len(Tail(queue)) : i + 1 \in 1..Len(queue) /\ Tail(queue)[i] = queue[i + 1]
    BY <1>2, HeadTail
  <2>2. queue' = Tail(queue) BY <1>2 DEF pump
  <2>3. id \in DOMAIN js BY <2>1 DEF Waiting
  <2>4. \A i \in 1..Len(queue') : queue'[i] # id BY <2>1, <2>2 DEF Waiting
  <2>5. ASSUME jobs' \in JobMap, DOMAIN jobs' = DOMAIN js, \A j \in DOMAIN js : j # id => jobs'[j] = js[j]
        PROVE  Waiting(queue, jobs)'
    <3>1. \A i, j \in 1..Len(queue') : queue'[i] = queue'[j] => i = j BY <2>1, <2>2 DEF Waiting
    <3>2. \A i \in 1..Len(queue') :
            /\ queue'[i] \in DOMAIN jobs'
            /\ jobs'[queue'[i]].state = "queued" \/ (jobs'[queue'[i]].state = "cancelled" /\ <<epoch', queue'[i]>> \in flagged')
      BY <2>1, <2>2, <2>4, <2>5 DEF Waiting, cancelled
    <3> QED BY <3>1, <3>2 DEF Waiting, cancelled
  <2>6. CASE jobs' = js /\ worker' = None /\ posted' = TRUE
    <3>1. Waiting(queue, jobs)' BY <2>5, <2>6
    <3>2. HostType' BY <2>1, <2>2, <2>6
    <3>3. Results(jobs)' BY <2>6 DEF Results
    <3> QED BY <1>2, <2>6, <3>1, <3>2, <3>3 DEF HostInv, Running, Saved, QueuePumped
  <2>7. CASE jobs' = [js EXCEPT ![id].state = "failed"] /\ worker' = None /\ posted' = TRUE
    <3>1. /\ jobs' \in JobMap /\ DOMAIN jobs' = DOMAIN js /\ jobs'[id].state = "failed"
          /\ \A j \in DOMAIN js : j # id => jobs'[j] = js[j]
      BY <2>3, <2>7, SetState DEF States, Final
    <3>2. Waiting(queue, jobs)' BY <3>1, <2>5
    <3>3. HostType' BY <2>1, <2>2, <2>7, <3>1
    <3>4. Results(jobs)' BY <3>1 DEF Results
    <3> QED BY <1>2, <2>7, <3>2, <3>3, <3>4 DEF HostInv, Running, Saved, QueuePumped
  <2>8. CASE /\ jobs' = [js EXCEPT ![id].state = "running"] /\ posted' = again
             /\ worker' = [id |-> id, epoch |-> epoch, peer |-> js[id].peer, at |-> "engine"]
    <3>1. /\ jobs' \in JobMap /\ DOMAIN jobs' = DOMAIN js /\ jobs'[id].state = "running"
          /\ \A j \in DOMAIN js : j # id => jobs'[j] = js[j]
      BY <2>3, <2>8, SetState DEF States
    <3>2. Waiting(queue, jobs)' BY <3>1, <2>5
    <3>3. js[id].peer \in Peer BY <2>3, MapElim DEF JobMap, JobRecord
    <3>4. worker' \in WorkerJob BY <2>1, <2>8, <3>3 DEF WorkerJob
    <3>5. HostType' BY <2>1, <2>2, <2>8, <3>1, <3>4
    <3>6. Results(jobs)' BY <3>1 DEF Results
    <3>7. Running' BY <2>3, <2>4, <2>8, <3>1 DEF Running
    <3>8. worker' # None BY <3>4, WorkerIsAJob
    <3>9. Saved' BY <2>8 DEF Saved
    <3> QED BY <1>2, <3>2, <3>5, <3>6, <3>7, <3>8, <3>9 DEF HostInv, QueuePumped
  <2> QED BY <1>2, <2>6, <2>7, <2>8 DEF pump
<1> QED BY <1>1, <1>2

(* A posted pump that finds the worker busy is spent: the worker pumps when it ends. *)
LEMMA PumpStep == ASSUME HostInv, Pump PROVE HostInv'
<1>1. UNCHANGED <<storage, epoch, flagged, files>> BY DEF Pump
<1>2. CASE worker # None
  <2>1. posted' = FALSE /\ UNCHANGED <<jobs, queue, worker>> BY <1>2 DEF Pump
  <2> QED BY <1>1, <1>2, <2>1 DEF HostInv, HostType, Waiting, cancelled, Running, Results, Saved, QueuePumped
<1>3. CASE worker = None
  <2>1. pump(jobs, FALSE) BY <1>3 DEF Pump
  <2>2. HostType /\ jobs \in JobMap /\ Waiting(queue, jobs) /\ Results(jobs)
        /\ (~storage => DOMAIN jobs = {} /\ queue = <<>>)
    BY DEF HostInv, HostType
  <2> QED BY <1>1, <2>1, <2>2, PumpKeeps
<1> QED BY <1>2, <1>3

(* What is kept when only the worker's stage and the results change. *)
LEMMA StageKeeps ==
  ASSUME HostInv, worker # None, NEW r \in {"engine", "encoded"} \union Final,
         worker' = [worker EXCEPT !.at = r], UNCHANGED <<storage, epoch, jobs, queue, flagged, posted>>,
         files' \in FileMap, DOMAIN files \subseteq DOMAIN files', r = "completed" => worker.id \in DOMAIN files'
  PROVE  HostInv'
<1>1. worker \in WorkerJob BY DEF HostInv, HostType
<1>2. worker' \in WorkerJob /\ worker'.id = worker.id /\ worker'.epoch = worker.epoch /\ worker'.at = r
  BY <1>1 DEF WorkerJob
<1>3. worker' # None BY <1>2, WorkerIsAJob
<1>4. HostType' BY <1>2 DEF HostInv, HostType
<1>5. Waiting(queue, jobs)' BY DEF HostInv, Waiting, cancelled
<1>6. Running' BY <1>2 DEF HostInv, Running
<1>7. Results(jobs)' BY DEF HostInv, Results
<1>8. Saved' BY <1>2 DEF Saved
<1> QED BY <1>3, <1>4, <1>5, <1>6, <1>7, <1>8 DEF HostInv, QueuePumped

LEMMA EngineStep == ASSUME HostInv, Engine PROVE HostInv'
<1>1. PICK r \in {"cancelled", "encoded", "failed"} : worker' = [worker EXCEPT !.at = r] BY DEF Engine
<1>2. worker # None /\ UNCHANGED <<storage, epoch, jobs, queue, flagged, posted, files>> BY DEF Engine, Worker
<1>3. files \in FileMap BY DEF HostInv, HostType
<1> QED BY <1>1, <1>2, <1>3, StageKeeps DEF Final

LEMMA SaveStep == ASSUME HostInv, Save PROVE HostInv'
<1> DEFINE r == IF WorkerFlag THEN "cancelled" ELSE IF worker.id \in DOMAIN files THEN "failed" ELSE "completed"
<1>1. /\ worker # None /\ worker' = [worker EXCEPT !.at = r]
      /\ UNCHANGED <<storage, epoch, jobs, queue, flagged, posted>>
  BY DEF Save, Worker
<1>2. r \in Final BY DEF Final
<1>3. files \in FileMap /\ worker \in WorkerJob BY <1>1 DEF HostInv, HostType
<1>4. DOMAIN files \in SUBSET Job /\ files \in [DOMAIN files -> Peer] BY <1>3, MapElim DEF FileMap
<1>5. worker.id \in Job /\ worker.peer \in Peer BY <1>3 DEF WorkerJob
<1>6. CASE r = "completed"
  <2>1. files' = [j \in DOMAIN files \union {worker.id} |-> IF j = worker.id THEN worker.peer ELSE files[j]]
    BY <1>6 DEF Save
  <2>2. files' \in [DOMAIN files \union {worker.id} -> Peer] BY <1>4, <1>5, <2>1
  <2>3. files' \in FileMap BY <1>4, <1>5, <2>2, MapIntro DEF FileMap
  <2> HIDE DEF r
  <2> QED BY <1>1, <1>2, <2>1, <2>3, StageKeeps
<1>7. CASE r # "completed"
  <2>1. files' = files BY <1>7 DEF Save
  <2> HIDE DEF r
  <2> QED BY <1>1, <1>2, <1>3, <1>7, <2>1, StageKeeps
<1> QED BY <1>6, <1>7

(* The worker's job ends in the container it was started for, or in no container. *)
LEMMA FinishedStep == ASSUME HostInv, Finished PROVE HostInv'
<1> DEFINE js == closing(jobs)
<1>0. worker # None /\ worker.at \in Final /\ pump(js, posted) /\ UNCHANGED <<storage, epoch, flagged, files>>
  BY DEF Finished
<1>1. HostType /\ posted \in BOOLEAN /\ jobs \in JobMap BY DEF HostInv, HostType
<1>2. /\ js \in JobMap /\ DOMAIN js = DOMAIN jobs /\ Results(js)
      /\ \A j \in DOMAIN jobs : js[j] = jobs[j] \/ (j = worker.id /\ worker.epoch = epoch)
  <2>1. CASE worker.epoch # epoch \/ worker.id \notin DOMAIN jobs
    <3>1. js = jobs BY <2>1 DEF closing
    <3> HIDE DEF js
    <3> QED BY <1>1, <3>1 DEF HostInv
  <2>2. CASE worker.epoch = epoch /\ worker.id \in DOMAIN jobs
    <3> DEFINE x == IF cancelled(worker.id) THEN "cancelled" ELSE worker.at
    <3>1. js = [jobs EXCEPT ![worker.id].state = x] BY <2>2 DEF closing
    <3>2. x \in States BY <1>0 DEF States, Final
    <3>3. x = "completed" => worker.id \in DOMAIN files BY <1>0 DEF HostInv, Saved
    <3> HIDE DEF x, js
    <3>4. /\ js \in JobMap /\ DOMAIN js = DOMAIN jobs /\ js[worker.id].state = x
          /\ \A j \in DOMAIN jobs : j # worker.id => js[j] = jobs[j]
      BY <1>1, <2>2, <3>1, <3>2, SetState
    <3>5. Results(js) BY <3>3, <3>4 DEF HostInv, Results
    <3> QED BY <2>2, <3>4, <3>5
  <2> QED BY <2>1, <2>2
<1> HIDE DEF js
<1>3. Waiting(queue, js)
  <2>1. \A i \in 1..Len(queue) : queue[i] \in DOMAIN jobs BY DEF HostInv, Waiting
  <2>2. \A i \in 1..Len(queue) : js[queue[i]] = jobs[queue[i]] BY <1>0, <1>2, <2>1 DEF HostInv, Running
  <2> QED BY <1>2, <2>1, <2>2 DEF HostInv, Waiting
<1>4. ~storage => DOMAIN js = {} /\ queue = <<>> BY <1>2 DEF HostInv
<1> QED BY <1>0, <1>1, <1>2, <1>3, <1>4, PumpKeeps

LEMMA CloseStep == ASSUME HostInv, close PROVE HostInv'
<1>1. /\ storage' = FALSE /\ epoch' = epoch + 1 /\ jobs' = <<>> /\ queue' = <<>> /\ files' = files
      /\ worker' = worker \/ worker' = None
      /\ posted' = posted \/ posted' = FALSE
  BY DEF close
<1>2. jobs' \in JobMap /\ DOMAIN jobs' = {} BY <1>1, MapEmpty DEF JobMap
<1>3. epoch \in Nat BY DEF HostInv, HostType
<1>4. queue' \in Seq(Job) /\ Len(queue') = 0 BY <1>1
<1>5. HostType'
  <2>1. storage' \in BOOLEAN /\ posted' \in BOOLEAN BY <1>1, Zenon DEF HostInv, HostType
  <2>2. epoch' \in Nat BY <1>1, <1>3
  <2> QED BY <1>1, <1>2, <1>4, <2>1, <2>2 DEF HostInv, HostType
<1>6. Waiting(queue, jobs)' BY <1>4 DEF Waiting
<1>7. Running'
  <2>1. CASE worker' = worker
    <3>1. worker # None => worker.epoch \in Nat /\ worker.epoch <= epoch
      BY DEF HostInv, HostType, Running, WorkerJob
    <3> QED BY <1>1, <1>3, <2>1, <3>1 DEF Running
  <2> QED BY <1>1, <2>1 DEF Running
<1>8. Results(jobs)' /\ Saved' BY <1>1, <1>2 DEF HostInv, Results, Saved
<1> QED BY <1>1, <1>2, <1>5, <1>6, <1>7, <1>8 DEF HostInv, QueuePumped

LEMMA OpenStep == ASSUME HostInv, open PROVE HostInv'
<1>1. /\ ~storage /\ storage' = TRUE /\ queue = <<>>
      /\ UNCHANGED <<epoch, jobs, queue, flagged, worker, posted, files>>
  BY DEF open, HostInv
<1>2. HostType' BY <1>1 DEF HostInv, HostType
<1> QED BY <1>1, <1>2 DEF HostInv, Waiting, cancelled, Running, Results, Saved, QueuePumped

-----------------------------------------------------------------------------
(* Requests and answers. *)

(* A request is answered: the answer is of the kind the Remote waits for. *)
LEMMA AnswerKeeps ==
  ASSUME Wire, Told, NEW m \in net, m \in Ask, NEW response \in Failure \union Status \union Part,
         response.ok => IF m.op = "read" THEN response \in Part ELSE response \in Status /\ response.sha = m.peer,
         Answer(m, response), UNCHANGED client
  PROVE  Wire' /\ Told'
<1> DEFINE a == [op |-> "answer", peer |-> m.peer, live |-> TRUE, response |-> response]
<1>0. UNCHANGED <<remote, outcome>> BY DEF client
<1>1. Told' BY <1>0 DEF Told
<1>2. CASE ~m.live
  <2>1. net' = net BY <1>2 DEF Answer
  <2> QED BY <1>0, <1>1, <2>1 DEF Wire, Fits
<1>3. CASE m.live
  <2>1. net' = (net \ {m}) \union {a} BY <1>3 DEF Answer
  <2>2. m.peer \in Peer /\ m.op # "answer" BY DEF Ask, Operation
  <2>3. a \in Reply /\ a.op = "answer" /\ a.peer = m.peer /\ a.live /\ a.response = response BY <2>2 DEF Reply
  <2> HIDE DEF a
  <2>4. net' \subseteq Ask \union Reply BY <2>1, <2>3 DEF Wire
  <2>5. \A n \in net \ {m} : n.live => n.peer # m.peer BY <1>3 DEF Wire
  <2>6. \A x, y \in net' : x.live /\ y.live /\ x.peer = y.peer => x = y BY <2>1, <2>3, <2>5 DEF Wire
  <2>7. Fits(m) BY <1>3 DEF Wire
  <2>8. Fits(a)' BY <1>0, <2>2, <2>3, <2>7 DEF Fits
  <2>9. \A n \in net' : Fits(n)' \/ ~n.live BY <1>0, <2>1, <2>8 DEF Wire, Fits
  <2> QED BY <1>1, <2>4, <2>6, <2>9 DEF Wire
<1> QED BY <1>2, <1>3

(* The answers Host::handle gives. *)
LEMMA FailureFits == failure \in Failure /\ ~failure.ok
BY DEF failure, Failure

LEMMA StatusFits ==
  ASSUME NEW job \in JobRecord
  PROVE  status(job) \in Status /\ status(job).sha = job.peer /\ status(job).ok
BY DEF status, Status, JobRecord

(* A request in the net whose operation is not an answer is a request of some peer. *)
LEMMA Asked ==
  ASSUME Wire, NEW m \in net, m.op # "answer"
  PROVE  m \in Ask /\ m.id \in Job /\ m.peer \in Peer /\ m.offset \in Nat /\ m.op \in Operation
<1>1. m \notin Reply BY DEF Reply
<1> QED BY <1>1 DEF Wire, Ask

(* A job that is known is a record, and is the asking peer's. *)
LEMMA Known ==
  ASSUME HostInv, NEW m, known(m)
  PROVE  jobs[m.id] \in JobRecord /\ m.id \in DOMAIN jobs
<1>1. jobs \in JobMap BY DEF HostInv, HostType
<1> QED BY <1>1, MapElim DEF JobMap, known

(* Handlers that leave the host alone. *)
LEMMA HostSame ==
  ASSUME HostInv, UNCHANGED <<storage, epoch, jobs, queue, flagged, worker, posted, files>> PROVE HostInv'
BY DEF HostInv, HostType, Waiting, cancelled, Running, Results, Saved, QueuePumped

LEMMA RefuseStep == ASSUME IInv, NEW m \in net, refuse(m) PROVE IInv'
<1>1. m \in Ask BY Asked DEF IInv, refuse
<1>2. Wire' /\ Told' BY <1>1, AnswerKeeps, FailureFits DEF IInv, refuse
<1>3. HostInv' BY HostSame DEF IInv, refuse, host
<1> QED BY <1>2, <1>3 DEF IInv

LEMMA InspectStep == ASSUME IInv, NEW m \in net, inspect(m) PROVE IInv'
<1>1. m \in Ask /\ m.op = "status" BY Asked DEF IInv, inspect, Request
<1>2. jobs[m.id] \in JobRecord /\ jobs[m.id].peer = m.peer BY Known DEF IInv, inspect, Request, owned
<1>3. Answer(m, status(jobs[m.id])) /\ UNCHANGED client BY DEF inspect, Request
<1>4. Wire' /\ Told' BY <1>1, <1>2, <1>3, AnswerKeeps, StatusFits DEF IInv
<1>5. HostInv' BY HostSame DEF IInv, inspect, Request
<1> QED BY <1>4, <1>5 DEF IInv

LEMMA ReadStep == ASSUME IInv, NEW m \in net, read(m) PROVE IInv'
<1>1. m \in Ask /\ m.op = "read" /\ m.offset \in Nat /\ m.id \in Job BY Asked DEF IInv, read, Request
<1>2. m.id \in DOMAIN jobs BY DEF read, known
<1>3. HostInv' BY HostSame DEF IInv, read, Request
<1> DEFINE part == [ok |-> TRUE, offset |-> m.offset, data |-> [peer |-> files[m.id], id |-> m.id]]
<1>4. UNCHANGED client BY DEF read, Request
<1>5. CASE jobs[m.id].state = "completed" /\ m.offset < Chunks
  <2>1. m.id \in DOMAIN files /\ files \in FileMap BY <1>2, <1>5 DEF IInv, HostInv, HostType, Results
  <2>2. files[m.id] \in Peer BY <2>1, MapElim DEF FileMap
  <2>3. part \in Part BY <1>1, <2>2 DEF Part, Piece
  <2>4. Answer(m, part) BY <1>5 DEF read
  <2> HIDE DEF part
  <2> QED BY <1>1, <1>3, <1>4, <2>3, <2>4, AnswerKeeps DEF IInv
<1>6. CASE ~(jobs[m.id].state = "completed" /\ m.offset < Chunks)
  <2>1. Answer(m, failure) BY <1>6 DEF read
  <2> QED BY <1>1, <1>3, <1>4, <2>1, AnswerKeeps, FailureFits DEF IInv
<1> QED BY <1>5, <1>6

(* A job comes to the end of the queue. *)
LEMMA SubmitStep == ASSUME IInv, NEW m \in net, submit(m) PROVE IInv'
<1>1. m \in Ask /\ m.op = "submit" /\ m.id \in Job /\ m.peer \in Peer BY Asked DEF IInv, submit, Request
<1>2. UNCHANGED <<storage, epoch, worker, files, client>> /\ storage BY DEF submit, Request
<1>3. CASE UNCHANGED <<jobs, queue, posted, flagged>>
  <2>1. HostInv' BY <1>2, <1>3, HostSame DEF IInv
  <2>2. CASE known(m) /\ Answer(m, status(jobs[m.id]))
    <3>1. jobs[m.id] \in JobRecord /\ jobs[m.id].peer = m.peer BY <2>2, Known DEF IInv, submit, Request, owned
    <3> QED BY <1>1, <1>2, <2>1, <2>2, <3>1, AnswerKeeps, StatusFits DEF IInv
  <2>3. CASE Answer(m, failure)
    BY <1>1, <1>2, <2>1, <2>3, AnswerKeeps, FailureFits DEF IInv
  <2>4. CASE ~known(m) /\ posted' = TRUE /\ queue' = Append(queue, m.id)
    <3>1. queue \in Seq(Job) BY DEF IInv, HostInv, HostType
    <3>2. Len(queue') = Len(queue) + 1 /\ Len(queue) \in Nat BY <1>1, <2>4, <3>1
    <3> QED BY <1>3, <3>2
  <2> QED BY <2>2, <2>3, <2>4 DEF submit
<1>4. ASSUME ~known(m), NEW job, job = [peer |-> m.peer, state |-> "queued"],
             jobs' = insert(m.id, job), Answer(m, status(job)),
             queue' = Append(queue, m.id), posted' = TRUE, flagged' = flagged
      PROVE  IInv'
  <2>1. job \in JobRecord /\ job.state = "queued" /\ job.peer = m.peer BY <1>1, <1>4 DEF JobRecord, States
  <2>2. Wire' /\ Told' BY <1>1, <1>2, <1>4, <2>1, AnswerKeeps, StatusFits DEF IInv
  <2>3. HostType /\ jobs \in JobMap /\ queue \in Seq(Job) BY DEF IInv, HostInv, HostType
  <2>4. /\ jobs' \in JobMap /\ DOMAIN jobs' = DOMAIN jobs \union {m.id} /\ jobs'[m.id] = job
        /\ \A j \in DOMAIN jobs : j # m.id => jobs'[j] = jobs[j]
    BY <1>1, <1>4, <2>1, <2>3, Insert
  <2>5. m.id \notin DOMAIN jobs BY <1>4 DEF known
  <2>6. /\ queue' \in Seq(Job) /\ Len(queue') = Len(queue) + 1 /\ Len(queue) \in Nat
        /\ queue'[Len(queue) + 1] = m.id
        /\ \A i \in 1..Len(queue) : queue'[i] = queue[i]
    BY <1>1, <1>4, <2>3
  <2>7. HostType' BY <1>2, <1>4, <2>3, <2>4, <2>6 DEF HostType
  <2>8. \A i \in 1..Len(queue) : queue[i] \in DOMAIN jobs /\ queue[i] # m.id
    BY <2>5 DEF IInv, HostInv, Waiting
  <2>9. Waiting(queue, jobs)'
    <3>1. \A i, j \in 1..Len(queue') : queue'[i] = queue'[j] => i = j
      BY <2>6, <2>8 DEF IInv, HostInv, Waiting
    <3>2. \A i \in 1..Len(queue') :
            /\ queue'[i] \in DOMAIN jobs'
            /\ jobs'[queue'[i]].state = "queued" \/ (jobs'[queue'[i]].state = "cancelled" /\ <<epoch', queue'[i]>> \in flagged')
      BY <1>2, <1>4, <2>1, <2>4, <2>6, <2>8 DEF IInv, HostInv, Waiting, cancelled
    <3> QED BY <3>1, <3>2 DEF Waiting, cancelled
  <2>10. Running' BY <1>2, <2>4, <2>5, <2>6 DEF IInv, HostInv, Running
  <2>11. Results(jobs)' /\ Saved' BY <1>2, <2>1, <2>4 DEF IInv, HostInv, Results, Saved
  <2>12. HostInv' BY <1>2, <1>4, <2>7, <2>9, <2>10, <2>11 DEF HostInv, QueuePumped
  <2> QED BY <2>2, <2>12 DEF IInv
<1> QED BY <1>3, <1>4 DEF submit

(* What cancelling makes of a state. *)
LEMMA Stopped ==
  ASSUME NEW x \in States
  PROVE  /\ stopped(x) \in States
         /\ stopped(x) = "completed" => x = "completed"
         /\ x \in {"running", "cancelling"} => stopped(x) = "cancelling"
         /\ x \in {"queued", "cancelled"} => stopped(x) = "cancelled"
BY DEF stopped, States, Final

(* A job is cancelled where it is: in the queue, in the worker, or before it was ever seen. *)
LEMMA CancelStep == ASSUME IInv, NEW m \in net, cancel(m) PROVE IInv'
<1>1. m \in Ask /\ m.op = "cancel" /\ m.id \in Job /\ m.peer \in Peer BY Asked DEF IInv, cancel, Request
<1>2. UNCHANGED <<storage, epoch, worker, files, client, queue, posted>> /\ storage /\ owned(m) BY DEF cancel, Request
<1> DEFINE job == IF known(m) THEN [jobs[m.id] EXCEPT !.state = stopped(@)]
                  ELSE [peer |-> m.peer, state |-> "cancelled"]
<1>3. /\ jobs' = insert(m.id, job) /\ Answer(m, status(job))
      /\ flagged' = IF job.state \in {"cancelled", "cancelling"} THEN flagged \union {<<epoch, m.id>>} ELSE flagged
  BY DEF cancel
<1>4. /\ job \in JobRecord /\ job.peer = m.peer
      /\ m.id \in DOMAIN jobs => jobs[m.id] \in JobRecord /\ job.state = stopped(jobs[m.id].state)
      /\ m.id \notin DOMAIN jobs => job.state = "cancelled"
  <2>1. CASE known(m)
    <3>1. jobs[m.id] \in JobRecord /\ jobs[m.id].peer = m.peer BY <1>2, <2>1, Known DEF IInv, owned
    <3>2. stopped(jobs[m.id].state) \in States BY <3>1, Stopped DEF JobRecord
    <3> QED BY <2>1, <3>1, <3>2 DEF JobRecord, known
  <2>2. CASE ~known(m)
    BY <1>1, <2>2 DEF JobRecord, States, Final, known
  <2> QED BY <2>1, <2>2
<1> HIDE DEF job
<1>5. Wire' /\ Told' BY <1>1, <1>2, <1>3, <1>4, AnswerKeeps, StatusFits DEF IInv
<1>6. HostType /\ jobs \in JobMap /\ queue \in Seq(Job) BY DEF IInv, HostInv, HostType
<1>7. /\ jobs' \in JobMap /\ DOMAIN jobs' = DOMAIN jobs \union {m.id} /\ jobs'[m.id] = job
      /\ \A j \in DOMAIN jobs : j # m.id => jobs'[j] = jobs[j]
  BY <1>1, <1>3, <1>4, <1>6, Insert
<1>8. HostType' BY <1>2, <1>6, <1>7 DEF HostType
<1>9. flagged \subseteq flagged' /\ (job.state \in {"cancelled", "cancelling"} => <<epoch, m.id>> \in flagged') BY <1>3
<1>10. Waiting(queue, jobs)'
  <2>1. ASSUME NEW i \in 1..Len(queue)
        PROVE  /\ queue[i] \in DOMAIN jobs'
               /\ jobs'[queue[i]].state = "queued" \/ (jobs'[queue[i]].state = "cancelled" /\ <<epoch, queue[i]>> \in flagged')
    <3>1. /\ queue[i] \in DOMAIN jobs
          /\ jobs[queue[i]].state = "queued" \/ (jobs[queue[i]].state = "cancelled" /\ <<epoch, queue[i]>> \in flagged)
      BY DEF IInv, HostInv, Waiting, cancelled
    <3>2. CASE queue[i] # m.id BY <1>7, <1>9, <3>1, <3>2
    <3>3. CASE queue[i] = m.id
      <4>1. job.state = "cancelled" BY <1>4, <3>1, <3>3, Stopped DEF JobRecord
      <4> QED BY <1>7, <1>9, <3>3, <4>1
    <3> QED BY <3>2, <3>3
  <2>2. \A i, j \in 1..Len(queue) : queue[i] = queue[j] => i = j BY DEF IInv, HostInv, Waiting
  <2> QED BY <1>2, <2>1, <2>2 DEF Waiting, cancelled
<1>11. Running'
  <2> SUFFICES ASSUME worker # None, worker.epoch = epoch
               PROVE  /\ worker.id \in DOMAIN jobs' /\ jobs'[worker.id].state \in {"running", "cancelling"}
    BY <1>2 DEF IInv, HostInv, Running
  <2>1. worker.id \in DOMAIN jobs /\ jobs[worker.id].state \in {"running", "cancelling"}
    BY DEF IInv, HostInv, Running
  <2>2. CASE worker.id # m.id BY <1>7, <2>1, <2>2
  <2>3. CASE worker.id = m.id
    <3>1. job.state = "cancelling" BY <1>4, <2>1, <2>3, Stopped DEF JobRecord
    <3> QED BY <1>7, <2>3, <3>1
  <2> QED BY <2>2, <2>3
<1>12. Results(jobs)'
  <2>1. job.state = "completed" => m.id \in DOMAIN files
    BY <1>4, Stopped DEF IInv, HostInv, Results, JobRecord
  <2> QED BY <1>2, <1>7, <2>1 DEF IInv, HostInv, Results
<1>13. Saved' BY <1>2 DEF IInv, HostInv, Saved
<1>14. HostInv' BY <1>2, <1>8, <1>10, <1>11, <1>12, <1>13 DEF IInv, HostInv, QueuePumped
<1> QED BY <1>5, <1>14 DEF IInv

-----------------------------------------------------------------------------
(* Remotes. *)

(* A step of the Remote of p: what still counts in the net is other Remotes', unless it is x,
   which is what p waits for now. *)
LEMMA WireKeeps ==
  ASSUME Wire, Told, NEW p \in Peer, NEW x,
         \A q \in Peer : q # p => remote'[q] = remote[q],
         net' \subseteq Ask \union Reply,
         \A m \in net' : m.live => (m \in net /\ m.peer # p) \/ (m = x /\ x.peer = p /\ Fits(x)')
  PROVE  Wire'
<1>1. \A m, n \in net' : m.live /\ n.live /\ m.peer = n.peer => m = n BY DEF Wire
<1>2. ASSUME NEW m \in net', m.live PROVE Fits(m)'
  <2>1. m.peer \in Peer BY DEF Ask, Reply
  <2>2. CASE m \in net /\ m.peer # p
    <3>1. Fits(m) /\ remote'[m.peer] = remote[m.peer] BY <1>2, <2>1, <2>2 DEF Wire
    <3> QED BY <3>1 DEF Fits
  <2> QED BY <1>2, <2>2
<1> QED BY <1>1, <1>2 DEF Wire

(* A Remote's state and outcome are replaced by ones that may be told. *)
LEMMA ToldKeeps ==
  ASSUME Told, NEW p \in Peer, NEW r \in RemoteState, Good(p, r), NEW o \in Outcome \union {None}, Sound(p, o),
         remote' = [remote EXCEPT ![p] = r], outcome' = [outcome EXCEPT ![p] = o]
  PROVE  Told' /\ \A q \in Peer : q # p => remote'[q] = remote[q]
<1>1. remote \in [Peer -> RemoteState] /\ outcome \in [Peer -> Outcome \union {None}] BY DEF Told
<1>2. remote' \in [Peer -> RemoteState] /\ outcome' \in [Peer -> Outcome \union {None}] BY <1>1
<1>3. \A q \in Peer : q # p => remote'[q] = remote[q] /\ outcome'[q] = outcome[q] BY <1>1
<1>4. remote'[p] = r /\ outcome'[p] = o BY <1>1
<1>5. \A q \in Peer : Good(q, remote'[q]) /\ Sound(q, outcome'[q]) BY <1>3, <1>4 DEF Told
<1>6. \A q \in Peer : Good(q, remote[q])' /\ Sound(q, outcome[q])' BY <1>5 DEF Good, Sound
<1> QED BY <1>2, <1>3, <1>6 DEF Told

LEMMA RemoteKeeps ==
  ASSUME Told, NEW p \in Peer, NEW r \in RemoteState, Good(p, r),
         remote' = [remote EXCEPT ![p] = r], outcome' = outcome
  PROVE  Told' /\ \A q \in Peer : q # p => remote'[q] = remote[q]
<1>1. outcome \in [Peer -> Outcome \union {None}] /\ Sound(p, outcome[p]) BY DEF Told
<1>2. outcome' = [outcome EXCEPT ![p] = outcome[p]] /\ outcome[p] \in Outcome \union {None} BY <1>1
<1> QED BY <1>1, <1>2, ToldKeeps

(* An idle Remote and one that starts a job, paused or not. *)
LEMMA IdleGood ==
  ASSUME NEW p \in Peer, NEW b \in BOOLEAN, NEW r,
         r = Idle \/ r = [Idle EXCEPT !.paused = b] \/ \E j \in Job : r = [Idle EXCEPT !.job = j, !.paused = b]
  PROVE  r \in RemoteState /\ Good(p, r)
<1>1. Idle \in RemoteState
  <2> DEFINE e == <<>>
  <2>1. e \in Seq(Piece) BY EmptySeq
  <2>2. Idle = [job |-> None, accepted |-> FALSE, cancelled |-> FALSE, paused |-> FALSE,
                pending |-> FALSE, action |-> "submit", result |-> None, image |-> e]
    BY DEF Idle
  <2> HIDE DEF e
  <2> QED BY <2>1, <2>2 DEF RemoteState, Operation
<1>2. r \in RemoteState BY <1>1 DEF RemoteState
<1>3. r.action = "submit" /\ r.result = None /\ r.image = <<>>
  <2>1. Idle.action = "submit" /\ Idle.result = None /\ Idle.image = <<>> BY DEF Idle
  <2>2. r.action = Idle.action /\ r.result = Idle.result /\ r.image = Idle.image BY <1>1 DEF RemoteState
  <2> QED BY <2>1, <2>2
<1> QED BY <1>2, <1>3, GenerationAssumption DEF Good

(* A Remote that is done tells its user, and is idle. *)
LEMMA CompleteTells ==
  ASSUME Told, NEW p \in Peer, NEW r \in RemoteState, NEW x \in Final, complete(p, r, x),
         x = "completed" => r.image = [i \in 1..Chunks |-> [peer |-> p, id |-> r.job]] /\ ~r.cancelled
  PROVE  Told' /\ \A q \in Peer : q # p => remote'[q] = remote[q]
<1> DEFINE o == [state |-> x, job |-> r.job, cancelled |-> r.cancelled,
                 image |-> IF x = "completed" THEN r.image ELSE <<>>]
           s == [Idle EXCEPT !.paused = r.paused]
<1>1. r.job \in Job \union {None} /\ r.cancelled \in BOOLEAN /\ r.paused \in BOOLEAN /\ r.image \in Seq(Piece)
  BY DEF RemoteState
<1>2. o \in Outcome BY <1>1 DEF Outcome
<1>3. Sound(p, o) BY DEF Sound
<1>4. s \in RemoteState /\ Good(p, s) BY <1>1, IdleGood
<1>5. remote' = [remote EXCEPT ![p] = s] /\ outcome' = [outcome EXCEPT ![p] = o] BY DEF complete
<1> HIDE DEF o, s
<1> QED BY <1>2, <1>3, <1>4, <1>5, ToldKeeps

(* What is forgotten does not count any more. *)
LEMMA Forgotten ==
  ASSUME Wire, NEW p \in Peer
  PROVE  /\ forget(p) \subseteq Ask \union Reply
         /\ \A m \in forget(p) : m.live => m \in net /\ m.peer # p
<1> SUFFICES ASSUME NEW n \in net, ~(n.op = "answer" /\ n.peer = p),
                    NEW m, m = IF n.op # "answer" /\ n.peer = p THEN [n EXCEPT !.live = FALSE] ELSE n
             PROVE  m \in Ask \union Reply /\ (m.live => m \in net /\ m.peer # p)
  BY DEF forget
<1>1. CASE n.op # "answer" /\ n.peer = p
  <2>1. n \in Ask BY <1>1, Asked
  <2>2. m \in Ask /\ ~m.live BY <1>1, <2>1 DEF Ask
  <2> QED BY <2>2
<1>2. CASE ~(n.op # "answer" /\ n.peer = p)
  BY <1>2 DEF Wire
<1> QED BY <1>1, <1>2

(* A step in which the Remote of p forgets what it waited for. *)
LEMMA ForgetKeeps ==
  ASSUME Wire, Told, NEW p \in Peer, net' = forget(p), \A q \in Peer : q # p => remote'[q] = remote[q]
  PROVE  Wire'
BY Forgotten, WireKeeps

(* The request tick sends is the one its Remote waits for from then on. *)
LEMMA SentKeeps ==
  ASSUME Wire, Told, NEW p \in Peer, NEW r \in RemoteState, Good(p, r), r.job # None, sent(p, r)
  PROVE  Wire' /\ Told'
<1> DEFINE a == action(r)  s == [r EXCEPT !.pending = TRUE, !.action = a]  x == request(p, r)
<1>1. a \in Operation /\ (a = "read" => r.result # None /\ ~r.cancelled) BY DEF action, Operation
<1>2. x \in Ask /\ x.op = a /\ x.peer = p
  <2>1. r.job \in Job /\ Len(r.image) \in Nat BY DEF RemoteState
  <2> QED BY <1>1, <2>1 DEF request, Ask
<1> HIDE DEF x
<1>3. remote' = [remote EXCEPT ![p] = s] /\ outcome' = outcome /\ net' = forget(p) \union {x}
  BY DEF sent, x
<1> HIDE DEF a
<1>4. s \in RemoteState /\ s.action = a /\ s.cancelled = r.cancelled /\ s.job = r.job
      /\ s.result = r.result /\ s.image = r.image
  BY <1>1 DEF RemoteState
<1> HIDE DEF s
<1>5. Good(p, s) BY <1>1, <1>4 DEF Good
<1>6. Told' /\ \A q \in Peer : q # p => remote'[q] = remote[q] BY <1>3, <1>4, <1>5, RemoteKeeps
<1>7. remote'[p] = s BY <1>3 DEF Told
<1>8. x.op # "answer" BY <1>1, <1>2 DEF Operation
<1>9. Fits(x)' BY <1>1, <1>2, <1>4, <1>7, <1>8 DEF Fits
<1>10. net' \subseteq Ask \union Reply BY <1>2, <1>3, Forgotten
<1>11. \A m \in net' : m.live => (m \in net /\ m.peer # p) \/ (m = x /\ x.peer = p /\ Fits(x)')
  BY <1>2, <1>3, <1>9, Forgotten
<1> QED BY <1>6, <1>10, <1>11, WireKeeps

(* A piece of the image arrives: of the job, or the image does not count as whole. *)
LEMMA PieceKeeps ==
  ASSUME Told, NEW p \in Peer, NEW r \in RemoteState, Good(p, r), r.action = "read", ~r.cancelled,
         NEW response \in Part, receivePiece(p, r, response)
  PROVE  Told' /\ \A q \in Peer : q # p => remote'[q] = remote[q]
<1> DEFINE s == [r EXCEPT !.image = Append(@, response.data)]
<1>1. r.image \in Seq(Piece) /\ response.data \in Piece /\ Len(r.image) \in Nat BY DEF RemoteState, Part
<1>2. Append(r.image, response.data) \in Seq(Piece)
      /\ Len(Append(r.image, response.data)) = Len(r.image) + 1
  BY <1>1
<1>3. /\ s \in RemoteState /\ s.image = Append(r.image, response.data) /\ s.cancelled = r.cancelled
      /\ s.job = r.job /\ s.result = r.result /\ s.action = r.action
  BY <1>2 DEF RemoteState
<1>4. CASE response.offset # Len(r.image) \/ Len(r.image) = Chunks
  BY <1>4, CompleteTells DEF receivePiece, Final
<1>5. CASE ~(response.offset # Len(r.image) \/ Len(r.image) = Chunks) /\ Len(s.image) < Chunks
  <2>1. remote' = [remote EXCEPT ![p] = s] /\ outcome' = outcome BY <1>5 DEF receivePiece
  <2> HIDE DEF s
  <2>2. Good(p, s) BY <1>3, <1>5 DEF Good
  <2> QED BY <1>3, <2>1, <2>2, RemoteKeeps
<1>6. CASE ~(response.offset # Len(r.image) \/ Len(r.image) = Chunks) /\ ~(Len(s.image) < Chunks)
  <2> DEFINE x == IF \A c \in Range(s.image) : c = s.result THEN "completed" ELSE "failed"
  <2>1. complete(p, s, x) BY <1>6 DEF receivePiece
  <2> HIDE DEF s
  <2>2. s.image \in Seq(Piece) /\ Len(s.image) = Chunks
    <3>1. Len(s.image) = Len(r.image) + 1 /\ Len(r.image) < Chunks BY <1>2, <1>3 DEF Good
    <3>2. Chunks \in Nat BY GenerationAssumption
    <3> QED BY <1>1, <1>2, <1>3, <1>6, <3>1, <3>2
  <2>3. ASSUME x = "completed"
        PROVE  s.image = [i \in 1..Chunks |-> [peer |-> p, id |-> s.job]]
    <3>1. s.result = [peer |-> p, id |-> s.job] BY <1>3 DEF Good
    <3>2. \A c \in Range(s.image) : c = s.result BY <2>3
    <3>3. \A i \in 1..Chunks : s.image[i] = s.result
      <4>1. DOMAIN s.image = 1..Chunks BY <2>2
      <4>2. \A i \in DOMAIN s.image : s.image[i] \in Range(s.image) BY DEF Range
      <4> QED BY <3>2, <4>1, <4>2
    <3> QED BY <2>2, <3>1, <3>3
  <2>4. x \in Final BY DEF Final
  <2> HIDE DEF x
  <2> QED BY <1>3, <2>1, <2>3, <2>4, CompleteTells
<1> QED BY <1>4, <1>5, <1>6

(* The job's state arrives: what a Remote takes for its result names its peer. *)
LEMMA StateKeeps ==
  ASSUME Told, NEW p \in Peer, NEW r \in RemoteState, Good(p, r), r.action # "read", r.job # None,
         NEW response \in Status, response.sha = p, receiveState(p, r, response)
  PROVE  Told' /\ \A q \in Peer : q # p => remote'[q] = remote[q]
<1> DEFINE a == [r EXCEPT !.accepted = @ \/ r.action = "submit"]
           s == [a EXCEPT !.result = [peer |-> response.sha, id |-> r.job]]
<1>1. r.job \in Job /\ response.state \in States BY DEF RemoteState, Status
<1>2. a \in RemoteState /\ a.action = r.action /\ a.result = r.result /\ a.image = r.image /\ a.job = r.job
  <2>1. (r.accepted \/ r.action = "submit") \in BOOLEAN OBVIOUS
  <2> QED BY <2>1 DEF RemoteState
<1> HIDE DEF a
<1>3. [peer |-> p, id |-> r.job] \in Piece BY <1>1 DEF Piece
<1>4. s \in RemoteState /\ s.action = a.action /\ s.result = [peer |-> p, id |-> r.job] /\ s.image = a.image /\ s.job = a.job
  BY <1>2, <1>3 DEF RemoteState
<1> HIDE DEF s
<1>5. Good(p, a) /\ Good(p, s) BY <1>2, <1>4 DEF Good
<1>6. \/ complete(p, a, response.state) /\ response.state \in {"failed", "cancelled"}
      \/ complete(p, s, "cancelled")
      \/ remote' = [remote EXCEPT ![p] = s] /\ outcome' = outcome
      \/ remote' = [remote EXCEPT ![p] = a] /\ outcome' = outcome
  BY <1>1 DEF receiveState, a, s
<1>7. CASE complete(p, a, response.state) /\ response.state \in {"failed", "cancelled"}
  BY <1>2, <1>7, CompleteTells DEF Final
<1>8. CASE complete(p, s, "cancelled")
  BY <1>4, <1>8, CompleteTells DEF Final
<1>9. CASE remote' = [remote EXCEPT ![p] = s] /\ outcome' = outcome
  BY <1>4, <1>5, <1>9, RemoteKeeps
<1>10. CASE remote' = [remote EXCEPT ![p] = a] /\ outcome' = outcome
  BY <1>2, <1>5, <1>10, RemoteKeeps
<1> QED BY <1>6, <1>7, <1>8, <1>9, <1>10

(* The Remote takes an answer, the only one that counts for it. *)
LEMMA ReceiveStep == ASSUME IInv, NEW m \in net, receive(m) PROVE IInv'
<1> DEFINE p == m.peer  r == [remote[p] EXCEPT !.pending = FALSE]
<1>1. m \in Reply /\ p \in Peer /\ m.live /\ m.op = "answer"
  <2>1. m \notin Ask BY DEF receive, Ask, Operation
  <2> QED BY <2>1 DEF IInv, Wire, Reply
<1>2. Fits(m) BY <1>1 DEF IInv, Wire
<1>3. Good(p, remote[p]) /\ remote[p] \in RemoteState BY <1>1 DEF IInv, Told
<1>4. r \in RemoteState /\ Good(p, r) /\ r.action = remote[p].action /\ r.cancelled = remote[p].cancelled /\ r.job = remote[p].job
  <2>1. /\ r \in RemoteState /\ r.action = remote[p].action /\ r.cancelled = remote[p].cancelled
        /\ r.job = remote[p].job /\ r.result = remote[p].result /\ r.image = remote[p].image
    BY <1>3 DEF RemoteState
  <2> QED BY <1>3, <2>1 DEF Good
<1>5. \/ complete(p, r, "failed")
      \/ r.action = "read" /\ m.response.ok /\ receivePiece(p, r, m.response)
      \/ r.action # "read" /\ m.response.ok /\ receiveState(p, r, m.response)
  BY DEF receive
<1>6. net' = net \ {m} /\ UNCHANGED <<storage, epoch, jobs, queue, flagged, worker, posted, files>> BY DEF receive, host
<1> HIDE DEF r
<1>7. Told' /\ \A q \in Peer : q # p => remote'[q] = remote[q]
  <2>1. CASE complete(p, r, "failed")
    BY <1>1, <1>4, <2>1, CompleteTells DEF IInv, Final
  <2>2. CASE r.action = "read" /\ m.response.ok /\ receivePiece(p, r, m.response)
    <3>1. m.response \in Part /\ ~r.cancelled BY <1>1, <1>2, <1>4, <2>2 DEF Fits
    <3> QED BY <1>1, <1>4, <2>2, <3>1, PieceKeeps DEF IInv
  <2>3. CASE r.action # "read" /\ m.response.ok /\ receiveState(p, r, m.response)
    <3>1. m.response \in Status /\ m.response.sha = p /\ r.job # None BY <1>1, <1>2, <1>4, <2>3 DEF Fits
    <3> QED BY <1>1, <1>4, <2>3, <3>1, StateKeeps DEF IInv
  <2> QED BY <1>5, <2>1, <2>2, <2>3
<1>8. \A n \in net' : n.live => n \in net /\ n.peer # p BY <1>1, <1>6 DEF IInv, Wire
<1>9. Wire' BY <1>1, <1>6, <1>7, <1>8, WireKeeps DEF IInv, Wire
<1>10. HostInv' BY <1>6, HostSame DEF IInv
<1> QED BY <1>7, <1>9, <1>10 DEF IInv

(* A Remote's own steps: its user's, its timer's, and the requests it gives up. *)
LEMMA RemoteStep ==
  ASSUME IInv, NEW p \in Peer,
         (\E id \in Job : start(p, id)) \/ setPaused(p) \/ Cancel(p) \/ tick(p) \/ Disconnected(p) \/ GiveUp(p)
  PROVE  IInv'
<1>1. HostInv'
  BY HostSame DEF IInv, start, setPaused, Cancel, tick, Disconnected, GiveUp, host
<1>2. Good(p, remote[p]) /\ remote[p] \in RemoteState /\ remote \in [Peer -> RemoteState] BY DEF IInv, Told
<1>3. remote[p].paused \in BOOLEAN BY <1>2 DEF RemoteState
<1>4. ASSUME NEW id \in Job, start(p, id) PROVE Wire' /\ Told'
  <2> DEFINE r == [Idle EXCEPT !.job = id, !.paused = remote[p].paused]
  <2>1. remote' = [remote EXCEPT ![p] = r] /\ outcome' = [outcome EXCEPT ![p] = None] /\ net' = forget(p)
    BY <1>4 DEF start
  <2>2. r \in RemoteState /\ Good(p, r) BY <1>3, IdleGood
  <2> HIDE DEF r
  <2>3. Sound(p, None) BY DEF Sound
  <2>4. Told' /\ \A q \in Peer : q # p => remote'[q] = remote[q] BY <2>1, <2>2, <2>3, ToldKeeps DEF IInv
  <2> QED BY <2>1, <2>4, ForgetKeeps DEF IInv
<1>5. CASE setPaused(p)
  <2> DEFINE b == ~remote[p].paused  r == [remote[p] EXCEPT !.paused = b, !.pending = FALSE]
  <2>1. net' = forget(p) /\ outcome' = outcome /\ remote' = [remote EXCEPT ![p].paused = ~@, ![p].pending = FALSE]
    BY <1>5 DEF setPaused
  <2>2. remote' = [remote EXCEPT ![p] = r] BY <1>2, <2>1
  <2>3. /\ r \in RemoteState /\ r.action = remote[p].action
        /\ r.job = remote[p].job /\ r.result = remote[p].result /\ r.image = remote[p].image
    BY <1>2, <1>3 DEF RemoteState
  <2> HIDE DEF r
  <2>4. Good(p, r) BY <1>2, <2>3 DEF Good
  <2>5. Told' /\ \A q \in Peer : q # p => remote'[q] = remote[q] BY <2>1, <2>2, <2>3, <2>4, RemoteKeeps DEF IInv
  <2> QED BY <1>1, <2>1, <2>5, ForgetKeeps DEF IInv
<1>6. CASE Cancel(p)
  <2> DEFINE r == [remote[p] EXCEPT !.cancelled = TRUE, !.pending = FALSE]
  <2>1. /\ r \in RemoteState /\ r.action = remote[p].action
        /\ r.job = remote[p].job /\ r.result = remote[p].result /\ r.image = remote[p].image
    BY <1>2 DEF RemoteState
  <2>2. remote[p].job # None BY <1>6 DEF Cancel, active
  <2>3. (remote' = [remote EXCEPT ![p] = r] /\ net' = forget(p) /\ outcome' = outcome) \/ sent(p, r)
    BY <1>6 DEF Cancel
  <2> HIDE DEF r
  <2>4. Good(p, r) BY <1>2, <2>1 DEF Good
  <2>5. CASE remote' = [remote EXCEPT ![p] = r] /\ net' = forget(p) /\ outcome' = outcome
    <3>1. Told' /\ \A q \in Peer : q # p => remote'[q] = remote[q] BY <2>1, <2>4, <2>5, RemoteKeeps DEF IInv
    <3> QED BY <1>1, <2>5, <3>1, ForgetKeeps DEF IInv
  <2>6. CASE sent(p, r) BY <1>1, <2>1, <2>2, <2>4, <2>6, SentKeeps DEF IInv
  <2> QED BY <2>3, <2>5, <2>6
<1>7. CASE tick(p)
  BY <1>1, <1>2, <1>7, SentKeeps DEF IInv, tick, active
<1>8. CASE Disconnected(p)
  <2>1. complete(p, remote[p], "failed") /\ net' = forget(p) BY <1>8 DEF Disconnected
  <2>2. Told' /\ \A q \in Peer : q # p => remote'[q] = remote[q] BY <1>2, <2>1, CompleteTells DEF IInv, Final
  <2> QED BY <1>1, <2>1, <2>2, ForgetKeeps DEF IInv
<1>9. CASE GiveUp(p)
  <2> DEFINE r == [remote[p] EXCEPT !.pending = FALSE]
  <2>1. remote' = [remote EXCEPT ![p] = r] /\ outcome' = outcome BY <1>2, <1>9 DEF GiveUp
  <2>2. /\ r \in RemoteState /\ r.action = remote[p].action
        /\ r.job = remote[p].job /\ r.result = remote[p].result /\ r.image = remote[p].image
    BY <1>2 DEF RemoteState
  <2> HIDE DEF r
  <2>3. Good(p, r) BY <1>2, <2>2 DEF Good
  <2>4. Told' /\ \A q \in Peer : q # p => remote'[q] = remote[q] BY <2>1, <2>2, <2>3, RemoteKeeps DEF IInv
  <2>5. CASE net' = forget(p) BY <1>1, <2>4, <2>5, ForgetKeeps DEF IInv
  <2>6. CASE net' = {m \in net : ~(m.peer = p /\ m.live)}
    <3>1. net' \subseteq Ask \union Reply BY <2>6 DEF IInv, Wire
    <3>2. \A m \in net' : m.live => m \in net /\ m.peer # p BY <2>6
    <3> QED BY <1>1, <2>4, <3>1, <3>2, WireKeeps DEF IInv
  <2> QED BY <1>9, <2>5, <2>6 DEF GiveUp
<1> QED BY <1>1, <1>4, <1>5, <1>6, <1>7, <1>8, <1>9 DEF IInv

-----------------------------------------------------------------------------
(* It holds at the start. *)
LEMMA Initial == Init => IInv
<1> SUFFICES ASSUME Init PROVE IInv OBVIOUS
<1>1. jobs \in JobMap /\ files \in FileMap /\ DOMAIN jobs = {} BY MapEmpty DEF Init, JobMap, FileMap
<1>2. queue \in Seq(Job) /\ Len(queue) = 0 /\ queue = <<>> BY EmptySeq DEF Init
<1>3. HostInv
  <2>1. HostType BY <1>1, <1>2 DEF Init, HostType
  <2> QED BY <1>1, <1>2, <2>1 DEF Init, HostInv, Waiting, Running, Results, Saved, QueuePumped
<1>4. Wire BY DEF Init, Wire
<1>5. ASSUME NEW p \in Peer PROVE Idle \in RemoteState /\ Good(p, Idle)
  BY <1>5, IdleGood
<1>6. Told BY <1>5 DEF Init, Told, Sound
<1> QED BY <1>3, <1>4, <1>6 DEF IInv

(* The invariant is inductive. *)
LEMMA Step == ASSUME IInv, [Next]_vars PROVE IInv'
<1>h. ASSUME HostInv', UNCHANGED <<client, net>> PROVE IInv'
  <2>1. UNCHANGED <<remote, outcome, net>> BY <1>h DEF client
  <2> QED BY <1>h, <2>1 DEF IInv, Wire, Fits, Told
<1>1. CASE Pump BY <1>1, <1>h, PumpStep DEF IInv, Pump
<1>2. CASE Engine BY <1>2, <1>h, EngineStep DEF IInv, Engine
<1>3. CASE Save BY <1>3, <1>h, SaveStep DEF IInv, Save
<1>4. CASE Finished BY <1>4, <1>h, FinishedStep DEF IInv, Finished
<1>5. CASE close BY <1>5, <1>h, CloseStep DEF IInv, close
<1>6. CASE open BY <1>6, <1>h, OpenStep DEF IInv, open
<1>7. ASSUME NEW m \in net, Handle(m) PROVE IInv'
  BY <1>7, RefuseStep, SubmitStep, CancelStep, InspectStep, ReadStep DEF Handle
<1>8. ASSUME NEW m \in net, receive(m) PROVE IInv' BY <1>8, ReceiveStep
<1>9. ASSUME NEW p \in Peer,
             (\E id \in Job : start(p, id)) \/ setPaused(p) \/ Cancel(p) \/ tick(p) \/ Disconnected(p) \/ GiveUp(p)
      PROVE  IInv'
  BY <1>9, RemoteStep
<1>10. CASE UNCHANGED vars
  <2>1. UNCHANGED <<host, client, net>> BY <1>10 DEF vars
  <2>2. HostInv' BY <2>1, HostSame DEF IInv, host
  <2> QED BY <2>1, <2>2, <1>h
<1> QED BY <1>1, <1>2, <1>3, <1>4, <1>5, <1>6, <1>7, <1>8, <1>9, <1>10 DEF Next

(* The Host's queue, its worker, the results it keeps, what is on its way and what the Remotes hold
   agree in every reachable state, with any number of peers, jobs, closings and lost requests. *)
THEOREM Invariance == Spec => []IInv
BY Initial, Step, PTL DEF Spec

(* No job is left behind in the queue (Host::pump, Host::handle submit, Host::close). *)
THEOREM JobsArePumped == Spec => []QueuePumped
<1>1. IInv => QueuePumped BY DEF IInv, HostInv
<1> QED BY <1>1, Invariance, PTL

(* A job that the Host has reported ended is neither run nor going to be (Host::pump, Host::cancel). *)
THEOREM EndedStaysEnded == Spec => []FinalIsFinal
<1>1. IInv => FinalIsFinal
  <2> SUFFICES ASSUME IInv, NEW id \in DOMAIN jobs, jobs[id].state \in Final
               PROVE  /\ worker = None \/ worker.id # id \/ worker.epoch # epoch
                      /\ \A i \in DOMAIN queue : queue[i] = id => cancelled(id)
    BY DEF FinalIsFinal
  <2>1. worker = None \/ worker.id # id \/ worker.epoch # epoch BY DEF IInv, HostInv, Running, Final
  <2>2. DOMAIN queue = 1..Len(queue) BY DEF IInv, HostInv, HostType
  <2>3. \A i \in 1..Len(queue) : queue[i] = id => cancelled(id) BY DEF IInv, HostInv, Waiting, Final
  <2> QED BY <2>1, <2>2, <2>3
<1> QED BY <1>1, Invariance, PTL

(* An image a Remote presents is whole, made for its peer and its job, and wanted (Remote::receive). *)
THEOREM ImagesAreOwn == Spec => []ImageOfJob
<1>1. IInv => ImageOfJob BY DEF IInv, Told, Sound, ImageOfJob
<1> QED BY <1>1, Invariance, PTL
=============================================================================
