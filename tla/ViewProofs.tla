----------------------------- MODULE ViewProofs -----------------------------
(***************************************************************************)
(* What a process shows of others.  The presence directory, for any set of *)
(* helpers and any bounds; and the catalogue of a host, for any drives,    *)
(* paths and limits.                                                       *)
(***************************************************************************)
EXTENDS Presence, HostCatalog, FiniteSetTheorems, SequenceTheorems, WellFoundedInduction, NaturalsInduction, TLAPS

(***************************************************************************)
(* Presence.  The argument has three layers.  Sane is about one helper: a  *)
(* job is of the live session it is found in, or of one in L; o says that  *)
(* a slot has disturbed the session or one it follows, and a session for   *)
(* which it is false is Orderly.  Owned is about all helpers: no two share *)
(* an instance, and one that runs or stops is not dead.  Frozen is about   *)
(* what a helper can still hear of the sessions that were over when its    *)
(* own began.                                                              *)
(***************************************************************************)
Active(s) == s.running \/ s.pc \in {"stopping", "flushing"}

(* A cycle of this epoch is pending, being worked on, or has its result queued. *)
Answering(s) ==
  \/ s.pending # NoJob /\ s.pending.epoch = s.epoch
  \/ s.worker # NoJob /\ s.worker.epoch = s.epoch
  \/ \E i \in 1..Len(s.results) : s.results[i].epoch = s.epoch

Rightful(s, L, job) ==
  job # NoJob => /\ job.epoch <= s.epoch
                 /\ (Active(s) /\ job.instance = s.instance) \/ job.instance \in L

Orderly(s) ==
  /\ s.pending # NoJob => s.pending.instance = s.instance /\ s.pending.epoch = s.epoch /\ s.running
  /\ s.worker # NoJob => s.worker.instance = s.instance /\ Active(s)
  /\ s.pc = "flushing" => s.pending = NoJob /\ s.worker = NoJob
  /\ ~Active(s) \/ s.pc = "flushing" => ~s.cycleInFlight
  /\ s.running /\ s.pc = "loop" /\ s.cycleInFlight => Answering(s)

Sane(s, L, O) ==
  /\ s \in HelperState
  /\ Active(s) => s.instance # NoInstance /\ s.beat >= 1
  /\ s.pc = "stopping" => s.pending = NoJob
  /\ Rightful(s, L, s.pending) /\ Rightful(s, L, s.worker)
  /\ \A i \in 1..Len(s.results) : s.results[i].epoch <= s.epoch
  /\ s.instance \in O \/ Orderly(s)

-----------------------------------------------------------------------------
(* A function on some instances is partial on all of them. *)
LEMMA PartialIntro ==
  ASSUME NEW R, NEW D \in SUBSET Instance, NEW f \in [D -> R]
  PROVE  f \in Partial(R)
BY DEF Partial

(* What a partial function on instances is: its domain and its values. *)
LEMMA PartialElim ==
  ASSUME NEW R, NEW f \in Partial(R)
  PROVE  /\ DOMAIN f \in SUBSET Instance
         /\ f \in [DOMAIN f -> R]
         /\ \A x \in DOMAIN f : f[x] \in R
<1>1. PICK D \in SUBSET Instance : f \in [D -> R]
  BY DEF Partial
<1> QED BY <1>1

(* The empty function is a partial one. *)
LEMMA NothingSeen ==
  ASSUME NEW R PROVE NoObservations \in Partial(R) /\ DOMAIN NoObservations = {}
<1>1. NoObservations \in [{} -> R] /\ DOMAIN NoObservations = {}
  BY DEF NoObservations
<1> QED BY <1>1, PartialIntro

(* The absence of a job is not a job. *)
LEMMA JobIsAJob == NoJob \notin Job
BY DEF NoJob, Job

(* What requestCycle leaves alone, and the job it posts. *)
LEMMA RequestFrame ==
  ASSUME NEW s \in HelperState, NEW publish \in BOOLEAN
  PROVE  LET t == requestCycle(s, publish) IN
         /\ t.pc = s.pc /\ t.running = s.running /\ t.epoch = s.epoch
         /\ t.instance = s.instance /\ t.worker = s.worker
         /\ t.results = s.results /\ t.observations = s.observations
BY DEF requestCycle, HelperState

(* requestCycle posts a job of the present instance and epoch, or no job. *)
LEMMA RequestType ==
  ASSUME NEW s \in HelperState, NEW publish \in BOOLEAN,
         s.running => s.instance # NoInstance /\ s.beat >= 1
  PROVE  LET t == requestCycle(s, publish) IN
         /\ t \in HelperState
         /\ t.beat >= s.beat
         /\ \/ t.pending = s.pending /\ t.cycleInFlight = s.cycleInFlight
            \/ /\ s.running /\ ~s.cycleInFlight
               /\ t.pending # NoJob
               /\ t.pending.instance = s.instance /\ t.pending.epoch = s.epoch
<1> DEFINE b == IF publish THEN nextBeat(s) ELSE s.beat
           job == [kind |-> "cycle", epoch |-> s.epoch, instance |-> s.instance,
                   activity |-> s.activity, beat |-> b, publish |-> publish]
<1>0. s.beat \in Nat /\ s.beat >= s.beat
  BY BoundsAssumption DEF HelperState
<1>1. CASE ~s.running
  BY <1>0, <1>1 DEF requestCycle, HelperState
<1>2. CASE s.running /\ s.cycleInFlight
  <2> DEFINE p == s.publishPending \/ publish
             t == [s EXCEPT !.scanPending = TRUE, !.publishPending = p]
  <2>1. requestCycle(s, publish) = t
    BY <1>2 DEF requestCycle, HelperState
  <2>2. p \in BOOLEAN
    OBVIOUS
  <2> HIDE DEF p
  <2>3. t \in HelperState
    BY <2>2 DEF HelperState
  <2>4. t.beat = s.beat /\ t.pending = s.pending /\ t.cycleInFlight = s.cycleInFlight
    BY DEF HelperState
  <2> HIDE DEF t
  <2> QED BY <1>0, <2>1, <2>3, <2>4
<1>3. CASE s.running /\ ~s.cycleInFlight
  <2>1. b \in 1..MaxBeats /\ b >= s.beat
    BY <1>3, BoundsAssumption DEF nextBeat, HelperState
  <2>2. job \in Job
    BY <1>3, <2>1 DEF Job, HelperState
  <2> DEFINE t == [s EXCEPT !.beat = b, !.cycleInFlight = TRUE, !.pending = job]
  <2>3. requestCycle(s, publish) = t
    BY <1>3 DEF requestCycle, HelperState
  <2>4. job # NoJob
    BY <2>2, JobIsAJob
  <2> HIDE DEF b
  <2>5. job.instance = s.instance /\ job.epoch = s.epoch
    OBVIOUS
  <2> HIDE DEF job
  <2>6. t \in HelperState
    <3>1. b \in 0..MaxBeats /\ job \in Job \union {NoJob}
      BY <2>1, <2>2, BoundsAssumption
    <3> QED BY <3>1 DEF HelperState
  <2>7. t.beat = b /\ t.pending = job
    BY DEF HelperState
  <2> HIDE DEF t
  <2> QED BY <1>3, <2>1, <2>3, <2>4, <2>5, <2>6, <2>7
<1> QED BY <1>1, <1>2, <1>3

(* requestCycle keeps a helper sane, called from the event loop or by a slot of stop(). *)
LEMMA RequestSane ==
  ASSUME NEW L, NEW O, NEW s, Sane(s, L, O), NEW publish \in BOOLEAN,
         s.pc = "loop" \/ (s.pc = "flushing" /\ s.instance \in O)
  PROVE  Sane(requestCycle(s, publish), L, O)
<1> DEFINE t == requestCycle(s, publish)
<1>1. s \in HelperState BY DEF Sane
<1>2. s.running => s.instance # NoInstance /\ s.beat >= 1
  BY DEF Sane, Active
<1>3. /\ t.pc = s.pc /\ t.running = s.running /\ t.epoch = s.epoch
      /\ t.instance = s.instance /\ t.worker = s.worker
      /\ t.results = s.results /\ t.observations = s.observations
  BY <1>1, RequestFrame
<1>4. /\ t \in HelperState
      /\ t.beat >= s.beat
      /\ \/ t.pending = s.pending /\ t.cycleInFlight = s.cycleInFlight
         \/ /\ s.running /\ ~s.cycleInFlight
            /\ t.pending # NoJob
            /\ t.pending.instance = s.instance /\ t.pending.epoch = s.epoch
  BY <1>1, <1>2, RequestType
<1>5. s.beat \in Nat /\ t.beat \in Nat /\ s.epoch \in Nat
  BY <1>1, <1>4, BoundsAssumption DEF HelperState
<1> HIDE DEF t
<1>6. Active(t) = Active(s)
  BY <1>3 DEF Active
<1>7. Active(t) => t.instance # NoInstance /\ t.beat >= 1
  BY <1>3, <1>4, <1>5, <1>6 DEF Sane
<1>8. t.pc # "stopping"
  BY <1>3
<1>9. /\ Rightful(t, L, t.pending) /\ Rightful(t, L, t.worker)
      /\ \A i \in 1..Len(t.results) : t.results[i].epoch <= t.epoch
  <2>1. s.running => Active(s)
    BY DEF Active
  <2> QED BY <1>3, <1>4, <1>5, <1>6, <2>1 DEF Sane, Rightful
<1>10. CASE s.instance \in O
  BY <1>3, <1>4, <1>7, <1>8, <1>9, <1>10 DEF Sane, t
<1>11. CASE s.instance \notin O
  <2>1. s.pc = "loop" /\ Orderly(s)
    BY <1>11 DEF Sane
  <2>2. /\ t.pending # NoJob => t.pending.instance = t.instance /\ t.pending.epoch = t.epoch /\ t.running
        /\ t.worker # NoJob => t.worker.instance = t.instance /\ Active(t)
        /\ ~Active(t) => ~t.cycleInFlight
    BY <1>3, <1>4, <1>6, <2>1 DEF Orderly, Active
  <2>3. t.running /\ t.pc = "loop" /\ t.cycleInFlight => Answering(t)
    BY <1>3, <1>4, <2>1 DEF Orderly, Answering
  <2>4. Orderly(t)
    BY <1>3, <2>1, <2>2, <2>3 DEF Orderly
  <2> QED BY <1>4, <1>7, <1>8, <1>9, <2>4 DEF Sane, t
<1> QED BY <1>10, <1>11

(* So does setActivity, which changes only what the next job will carry. *)
LEMMA ActivitySane ==
  ASSUME NEW L, NEW O, NEW s, Sane(s, L, O), s.pc = "loop" \/ (s.pc = "flushing" /\ s.instance \in O)
  PROVE  /\ Sane(changed(s), L, O)
         /\ LET t == changed(s) IN
            /\ t.pc = s.pc /\ t.running = s.running /\ t.epoch = s.epoch
            /\ t.instance = s.instance /\ t.results = s.results /\ t.observations = s.observations
<1> DEFINE u == [s EXCEPT !.activity = 1 - s.activity]
<1>1. s \in HelperState BY DEF Sane, Orderly, Rightful
<1>2. 1 - s.activity \in {0, 1}
  BY <1>1 DEF HelperState
<1>3. u \in HelperState
  BY <1>1, <1>2 DEF HelperState
<1>4. /\ u.pc = s.pc /\ u.running = s.running /\ u.epoch = s.epoch /\ u.instance = s.instance
      /\ u.beat = s.beat /\ u.cycleInFlight = s.cycleInFlight /\ u.pending = s.pending
      /\ u.worker = s.worker /\ u.results = s.results /\ u.observations = s.observations
  BY <1>1 DEF HelperState
<1>5. changed(s) = requestCycle(u, TRUE)
  BY DEF changed
<1> HIDE DEF u
<1>6. Sane(u, L, O)
  BY <1>3, <1>4 DEF Sane, Active, Answering, Orderly, Rightful
<1> QED BY <1>3, <1>4, <1>5, <1>6, RequestSane, RequestFrame

taken(s) == [s EXCEPT !.worker = s.pending, !.pending = NoJob]

(* So does the worker when it takes the pending job. *)
LEMMA TakeSane ==
  ASSUME NEW L, NEW O, NEW s, Sane(s, L, O), s.worker = NoJob, s.pending # NoJob
  PROVE  LET t == taken(s) IN
         /\ Sane(t, L, O)
         /\ t.pc = s.pc /\ t.running = s.running /\ t.epoch = s.epoch
         /\ t.instance = s.instance /\ t.results = s.results /\ t.observations = s.observations
<1> DEFINE t == [s EXCEPT !.worker = s.pending, !.pending = NoJob]
<1>1. s \in HelperState BY DEF Sane, Orderly, Rightful
<1>2. t \in HelperState
  BY <1>1 DEF HelperState
<1>3. /\ t.pc = s.pc /\ t.running = s.running /\ t.epoch = s.epoch /\ t.instance = s.instance
      /\ t.beat = s.beat /\ t.cycleInFlight = s.cycleInFlight /\ t.pending = NoJob
      /\ t.worker = s.pending /\ t.results = s.results /\ t.observations = s.observations
  BY <1>1 DEF HelperState
<1>4. s.epoch \in Nat
  BY <1>1 DEF HelperState
<1> HIDE DEF t
<1>5. Sane(t, L, O)
  BY <1>2, <1>3, <1>4 DEF Sane, Active, Answering, Orderly, Rightful
<1> QED BY <1>3, <1>5 DEF taken, t

(* So does the worker when it has written the record. *)
LEMMA PublishSane ==
  ASSUME NEW L, NEW O, NEW s, Sane(s, L, O), s.worker # NoJob
  PROVE  LET t == [s EXCEPT !.worker.publish = FALSE] IN
         /\ Sane(t, L, O)
         /\ t.pc = s.pc /\ t.running = s.running /\ t.epoch = s.epoch
         /\ t.instance = s.instance /\ t.results = s.results /\ t.observations = s.observations
<1> DEFINE job == [s.worker EXCEPT !.publish = FALSE]
           t == [s EXCEPT !.worker = job]
<1>1. s \in HelperState BY DEF Sane, Orderly, Rightful
<1>2. s.worker \in Job
  BY <1>1 DEF HelperState
<1>3. job \in Job /\ job.instance = s.worker.instance /\ job.epoch = s.worker.epoch
  BY <1>2 DEF Job
<1>4. job # NoJob
  BY <1>3, JobIsAJob
<1>5. [s EXCEPT !.worker.publish = FALSE] = t
  OBVIOUS
<1> HIDE DEF job
<1>6. t \in HelperState
  BY <1>1, <1>3 DEF HelperState
<1>7. /\ t.pc = s.pc /\ t.running = s.running /\ t.epoch = s.epoch /\ t.instance = s.instance
      /\ t.beat = s.beat /\ t.cycleInFlight = s.cycleInFlight /\ t.pending = s.pending
      /\ t.worker = job /\ t.results = s.results /\ t.observations = s.observations
  BY <1>1 DEF HelperState
<1> HIDE DEF t
<1>8. Sane(t, L, O)
  BY <1>3, <1>4, <1>6, <1>7 DEF Sane, Active, Answering, Orderly, Rightful
<1> QED BY <1>5, <1>7, <1>8

(* The worker has finished; its result is queued behind the others. *)
LEMMA DoneSane ==
  ASSUME NEW L, NEW O, NEW s, Sane(s, L, O), s.worker # NoJob, NEW r \in Result, r.epoch = s.worker.epoch
  PROVE  LET t == done(s, r) IN
         /\ Sane(t, L, O)
         /\ t.pc = s.pc /\ t.running = s.running /\ t.epoch = s.epoch
         /\ t.instance = s.instance /\ t.observations = s.observations
         /\ t.results = Append(s.results, r)
<1> DEFINE q == Append(s.results, r)
           t == [s EXCEPT !.worker = NoJob, !.results = q]
<1>1. s \in HelperState BY DEF Sane, Orderly, Rightful
<1>2. s.results \in Seq(Result) /\ s.worker \in Job /\ s.epoch \in Nat
  BY <1>1 DEF HelperState
<1>3. /\ q \in Seq(Result) /\ Len(q) = Len(s.results) + 1
      /\ \A i \in 1..Len(s.results) : q[i] = s.results[i]
      /\ q[Len(q)] = r
  BY <1>2
<1>4. done(s, r) = t
  BY DEF done
<1>5. Len(s.results) \in Nat
  BY <1>2
<1> HIDE DEF q
<1>6. t \in HelperState
  BY <1>1, <1>3 DEF HelperState
<1>7. /\ t.pc = s.pc /\ t.running = s.running /\ t.epoch = s.epoch /\ t.instance = s.instance
      /\ t.beat = s.beat /\ t.cycleInFlight = s.cycleInFlight /\ t.pending = s.pending
      /\ t.worker = NoJob /\ t.results = q /\ t.observations = s.observations
  BY <1>1 DEF HelperState
<1> HIDE DEF t
<1>8. \A i \in 1..Len(q) : q[i].epoch <= s.epoch
  BY <1>3, <1>5 DEF Sane, Orderly, Rightful
<1>9. Answering(s) => Answering(t)
  <2>1. ASSUME NEW i \in 1..Len(s.results), s.results[i].epoch = s.epoch PROVE Answering(t)
    BY <1>3, <1>5, <1>7, <2>1 DEF Answering
  <2>2. ASSUME s.worker.epoch = s.epoch PROVE Answering(t)
    BY <1>3, <1>5, <1>7, <2>2 DEF Answering
  <2> QED BY <1>7, <2>1, <2>2 DEF Answering
<1>10. Sane(t, L, O)
  BY <1>6, <1>7, <1>8, <1>9 DEF Sane, Active, Orderly, Rightful
<1> QED BY <1>4, <1>7, <1>10 DEF q

(* stop() up to its wait: a new epoch, to which no queued result belongs. *)
LEMMA StoppingSane ==
  ASSUME NEW L, NEW O, NEW s \in HelperState, s.instance # NoInstance, s.beat >= 1,
         s.worker # NoJob => /\ s.worker.epoch <= s.epoch
                             /\ s.worker.instance = s.instance \/ (s.instance \in O /\ s.worker.instance \in L),
         \A i \in 1..Len(s.results) : s.results[i].epoch <= s.epoch
  PROVE  LET t == stopping(s) IN
         /\ Sane(t, L, O) /\ Active(t)
         /\ t.epoch = s.epoch + 1 /\ t.instance = s.instance
         /\ t.results = s.results /\ t.observations = s.observations
<1> DEFINE e == s.epoch + 1
           t == [s EXCEPT !.pc = "stopping", !.epoch = e, !.pending = NoJob]
<1>1. /\ s.epoch \in Nat /\ e \in Nat
      /\ s.worker \in Job \union {NoJob} /\ s.results \in Seq(Result)
  BY DEF HelperState
<1>2. stopping(s) = t
  BY DEF stopping
<1>3. /\ s.worker # NoJob => s.worker.epoch <= e
      /\ \A i \in 1..Len(s.results) : s.results[i].epoch <= e
  <2>1. s.worker # NoJob => s.worker.epoch \in Nat
    BY <1>1 DEF Job
  <2>2. ASSUME NEW i \in 1..Len(s.results) PROVE s.results[i].epoch \in Nat
    <3>1. s.results[i] \in Result
      BY <1>1
    <3> QED BY <3>1 DEF Result
  <2> QED BY <1>1, <2>1, <2>2
<1>4. e = s.epoch + 1
  OBVIOUS
<1> HIDE DEF e
<1>5. t \in HelperState
  BY <1>1 DEF HelperState
<1>6. /\ t.pc = "stopping" /\ t.epoch = e /\ t.instance = s.instance
      /\ t.beat = s.beat /\ t.pending = NoJob
      /\ t.worker = s.worker /\ t.results = s.results /\ t.observations = s.observations
  BY DEF HelperState
<1> HIDE DEF t
<1>7. Active(t)
  BY <1>6 DEF Active
<1>8. Sane(t, L, O)
  <2>1. Rightful(t, L, t.pending) /\ Rightful(t, L, t.worker)
    BY <1>3, <1>6, <1>7 DEF Rightful
  <2>2. t.instance \in O \/ Orderly(t)
    BY <1>6, <1>7 DEF Orderly
  <2> QED BY <1>3, <1>5, <1>6, <1>7, <2>1, <2>2 DEF Sane
<1> QED BY <1>2, <1>4, <1>6, <1>7, <1>8

(* The queue of results of a helper without its first one. *)
LEMMA PoppedQueue ==
  ASSUME NEW s \in HelperState, s.results # <<>>
  PROVE  LET q == Tail(s.results) IN
         /\ q \in Seq(Result) /\ Head(s.results) \in Result
         /\ Head(s.results) = s.results[1] /\ 1 \in 1..Len(s.results)
         /\ \A i \in 1..Len(q) : i + 1 \in 1..Len(s.results) /\ q[i] = s.results[i + 1]
         /\ \A i \in 1..Len(s.results) : i = 1 \/ (i - 1 \in 1..Len(q) /\ q[i - 1] = s.results[i])
<1>1. s.results \in Seq(Result)
  BY DEF HelperState
<1> QED BY <1>1

(* A result of another session is taken off the queue and changes nothing else. *)
LEMMA DiscardSane ==
  ASSUME NEW L, NEW O, NEW s, Sane(s, L, O), s.results # <<>>, ~s.running \/ s.epoch # Head(s.results).epoch
  PROVE  LET t == [s EXCEPT !.results = Tail(s.results)] IN
         /\ Sane(t, L, O)
         /\ t.pc = s.pc /\ t.running = s.running /\ t.epoch = s.epoch
         /\ t.instance = s.instance /\ t.observations = s.observations
         /\ t.results = Tail(s.results)
<1> DEFINE q == Tail(s.results)
           t == [s EXCEPT !.results = q]
<1>1. s \in HelperState BY DEF Sane, Orderly, Rightful
<1>2. /\ q \in Seq(Result) /\ Head(s.results) = s.results[1]
      /\ \A i \in 1..Len(q) : i + 1 \in 1..Len(s.results) /\ q[i] = s.results[i + 1]
      /\ \A i \in 1..Len(s.results) : i = 1 \/ (i - 1 \in 1..Len(q) /\ q[i - 1] = s.results[i])
  BY <1>1, PoppedQueue
<1> HIDE DEF q
<1>3. t \in HelperState
  BY <1>1, <1>2 DEF HelperState
<1>4. /\ t.pc = s.pc /\ t.running = s.running /\ t.epoch = s.epoch /\ t.instance = s.instance
      /\ t.beat = s.beat /\ t.cycleInFlight = s.cycleInFlight /\ t.pending = s.pending
      /\ t.worker = s.worker /\ t.results = q /\ t.observations = s.observations
  BY <1>1 DEF HelperState
<1> HIDE DEF t
<1>5. \A i \in 1..Len(q) : q[i].epoch <= s.epoch
  BY <1>2 DEF Sane, Orderly, Rightful
<1>6. s.running /\ Answering(s) => Answering(t)
  <2>1. ASSUME NEW i \in 1..Len(s.results), s.results[i].epoch = s.epoch, s.running
        PROVE  Answering(t)
    <3>1. i # 1
      BY <1>2, <2>1
    <3>2. i - 1 \in 1..Len(q) /\ q[i - 1].epoch = s.epoch
      BY <1>2, <2>1, <3>1
    <3> QED BY <1>4, <3>2 DEF Answering
  <2> QED BY <1>4, <2>1 DEF Answering
<1>7. Sane(t, L, O)
  BY <1>3, <1>4, <1>5, <1>6 DEF Sane, Active, Orderly, Rightful
<1> QED BY <1>4, <1>7 DEF q, t

(* A result of this session ends the cycle. *)
LEMMA EndedSane ==
  ASSUME NEW L, NEW O, NEW s, Sane(s, L, O), s.results # <<>>
  PROVE  LET t == [[s EXCEPT !.results = Tail(s.results)] EXCEPT !.cycleInFlight = FALSE] IN
         /\ Sane(t, L, O)
         /\ t.pc = s.pc /\ t.running = s.running /\ t.epoch = s.epoch
         /\ t.instance = s.instance /\ t.observations = s.observations
         /\ t.results = Tail(s.results)
<1> DEFINE q == Tail(s.results)
           t == [[s EXCEPT !.results = q] EXCEPT !.cycleInFlight = FALSE]
<1>1. s \in HelperState BY DEF Sane, Orderly, Rightful
<1>2. /\ q \in Seq(Result)
      /\ \A i \in 1..Len(q) : i + 1 \in 1..Len(s.results) /\ q[i] = s.results[i + 1]
  BY <1>1, PoppedQueue
<1> HIDE DEF q
<1>3. t \in HelperState
  BY <1>1, <1>2 DEF HelperState
<1>4. /\ t.pc = s.pc /\ t.running = s.running /\ t.epoch = s.epoch /\ t.instance = s.instance
      /\ t.beat = s.beat /\ t.cycleInFlight = FALSE /\ t.pending = s.pending
      /\ t.worker = s.worker /\ t.results = q /\ t.observations = s.observations
  BY <1>1 DEF HelperState
<1> HIDE DEF t
<1>5. \A i \in 1..Len(q) : q[i].epoch <= s.epoch
  BY <1>2 DEF Sane, Orderly, Rightful
<1>6. Sane(t, L, O)
  BY <1>3, <1>4, <1>5 DEF Sane, Active, Orderly, Rightful
<1> QED BY <1>4, <1>6 DEF q, t

Observation == [beat : 1..MaxBeats, visible : BOOLEAN]

(***************************************************************************)
(* What a helper knows of x after a scan: what it knew, never shown by the *)
(* scan, or the record it has read, shown only if it is newer.             *)
(***************************************************************************)
LEMMA ScanHeard ==
  ASSUME NEW s \in HelperState, NEW r \in Result, NEW silent, NEW overdue \in BOOLEAN
  PROVE  LET t == scan(s, r, silent, overdue).observations IN
         /\ t \in Partial(Observation)
         /\ \A x \in DOMAIN t :
              \/ /\ x \in DOMAIN s.observations
                 /\ t[x].beat = s.observations[x].beat
                 /\ t[x].visible => s.observations[x].visible
              \/ /\ x \in DOMAIN r.records
                 /\ t[x].beat = r.records[x]
                 /\ t[x].visible => x \in DOMAIN s.observations /\ r.records[x] > s.observations[x].beat
<1> DEFINE known == IF overdue THEN NoObservations ELSE s.observations
           kept  == (DOMAIN known \union DOMAIN r.records) \intersect r.present
           t == [x \in kept |-> observed(known, r.records, silent, x)]
<1>1. s.observations \in Partial(Observation)
  BY DEF HelperState, Observation
<1>2. /\ DOMAIN known \subseteq Instance
      /\ \A x \in DOMAIN known : known[x] \in Observation
      /\ \A x \in DOMAIN known : x \in DOMAIN s.observations /\ known[x] = s.observations[x]
  BY <1>1, NothingSeen, PartialElim
<1>3. /\ r.present \in SUBSET Instance
      /\ \A x \in DOMAIN r.records : r.records[x] \in 1..MaxBeats
  <2>1. r.present \in SUBSET Instance /\ r.records \in Partial(1..MaxBeats)
    BY DEF Result
  <2> QED BY <2>1, PartialElim
<1>4. scan(s, r, silent, overdue).observations = t
  BY DEF scan, HelperState
<1>5. DOMAIN t = kept /\ kept \in SUBSET Instance
  BY <1>3
<1>6. ASSUME NEW x \in kept
      PROVE  /\ observed(known, r.records, silent, x) \in Observation
             /\ LET o == observed(known, r.records, silent, x) IN
                \/ /\ x \in DOMAIN known
                   /\ o.beat = known[x].beat
                   /\ o.visible => known[x].visible
                \/ /\ x \in DOMAIN r.records
                   /\ o.beat = r.records[x]
                   /\ o.visible => x \in DOMAIN known /\ r.records[x] > known[x].beat
  <2> HIDE DEF known
  <2>1. x \in DOMAIN known \/ x \in DOMAIN r.records
    OBVIOUS
  <2>2. CASE x \notin DOMAIN known
    BY <1>3, <2>1, <2>2 DEF observed, seen, Observation
  <2>3. CASE x \in DOMAIN known /\ x \in DOMAIN r.records /\ r.records[x] > known[x].beat
    BY <1>3, <2>3 DEF observed, seen, Observation
  <2>4. CASE x \in DOMAIN known /\ ~(x \in DOMAIN r.records /\ r.records[x] > known[x].beat)
    <3>1. known[x] \in Observation
      BY <1>2, <2>4
    <3>2. observed(known, r.records, silent, x) \in {known[x], [known[x] EXCEPT !.visible = FALSE]}
      BY <2>4 DEF observed
    <3>3. /\ [known[x] EXCEPT !.visible = FALSE] \in Observation
          /\ [known[x] EXCEPT !.visible = FALSE].beat = known[x].beat
          /\ ~[known[x] EXCEPT !.visible = FALSE].visible
      BY <3>1 DEF Observation
    <3> QED BY <2>4, <3>1, <3>2, <3>3
  <2> QED BY <2>2, <2>3, <2>4
<1> HIDE DEF known, kept
<1>7. t \in Partial(Observation)
  <2>1. t \in [kept -> Observation]
    BY <1>6
  <2> QED BY <1>5, <2>1, PartialIntro
<1>8. ASSUME NEW x \in DOMAIN t
      PROVE  \/ /\ x \in DOMAIN s.observations
                /\ t[x].beat = s.observations[x].beat
                /\ t[x].visible => s.observations[x].visible
             \/ /\ x \in DOMAIN r.records
                /\ t[x].beat = r.records[x]
                /\ t[x].visible => x \in DOMAIN s.observations /\ r.records[x] > s.observations[x].beat
  <2>1. x \in kept /\ t[x] = observed(known, r.records, silent, x)
    BY <1>5
  <2> QED BY <1>2, <1>6, <2>1
<1> QED BY <1>4, <1>7, <1>8

(* scan() changes the observations only. *)
LEMMA ScanSane ==
  ASSUME NEW L, NEW O, NEW s, Sane(s, L, O), NEW r \in Result, NEW silent, NEW overdue \in BOOLEAN
  PROVE  LET t == scan(s, r, silent, overdue) IN
         /\ Sane(t, L, O)
         /\ t.pc = s.pc /\ t.running = s.running /\ t.epoch = s.epoch
         /\ t.instance = s.instance /\ t.results = s.results
<1> DEFINE t == scan(s, r, silent, overdue)
           found == t.observations
<1>1. s \in HelperState BY DEF Sane, Orderly, Rightful
<1>2. found \in Partial(Observation)
  BY <1>1, ScanHeard
<1>3. t = [s EXCEPT !.observations = found]
  BY <1>1 DEF scan, HelperState
<1> HIDE DEF t, found
<1>4. t \in HelperState
  BY <1>1, <1>2, <1>3 DEF HelperState, Observation
<1>5. /\ t.pc = s.pc /\ t.running = s.running /\ t.epoch = s.epoch /\ t.instance = s.instance
      /\ t.beat = s.beat /\ t.cycleInFlight = s.cycleInFlight /\ t.pending = s.pending
      /\ t.worker = s.worker /\ t.results = s.results
  BY <1>1, <1>3 DEF HelperState
<1>6. Sane(t, L, O)
  BY <1>4, <1>5 DEF Sane, Active, Answering, Orderly, Rightful
<1> QED BY <1>5, <1>6 DEF t

(* The follow-up of a cycle is a request like any other. *)
LEMMA FollowUpSane ==
  ASSUME NEW L, NEW O, NEW s, Sane(s, L, O), s.pc = "loop"
  PROVE  LET t == followUp(s) IN
         /\ Sane(t, L, O)
         /\ t.pc = s.pc /\ t.running = s.running /\ t.epoch = s.epoch
         /\ t.instance = s.instance /\ t.results = s.results /\ t.observations = s.observations
<1> DEFINE u == [s EXCEPT !.scanPending = FALSE, !.publishPending = FALSE]
<1>1. s \in HelperState /\ s.publishPending \in BOOLEAN
  BY DEF Sane, HelperState, Orderly, Rightful
<1>2. u \in HelperState
  BY <1>1 DEF HelperState
<1>3. /\ u.pc = s.pc /\ u.running = s.running /\ u.epoch = s.epoch /\ u.instance = s.instance
      /\ u.beat = s.beat /\ u.cycleInFlight = s.cycleInFlight /\ u.pending = s.pending
      /\ u.worker = s.worker /\ u.results = s.results /\ u.observations = s.observations
  BY <1>1 DEF HelperState
<1>4. followUp(s) = IF s.scanPending THEN requestCycle(u, s.publishPending) ELSE s
  BY DEF followUp
<1> HIDE DEF u
<1>5. Sane(u, L, O)
  BY <1>2, <1>3 DEF Sane, Active, Answering, Orderly, Rightful
<1>6. CASE s.scanPending
  BY <1>1, <1>2, <1>3, <1>4, <1>5, <1>6, RequestSane, RequestFrame
<1>7. CASE ~s.scanPending
  BY <1>4, <1>7
<1> QED BY <1>6, <1>7

(* Once the worker is idle, stop() leaves a helper without jobs and without a cycle in flight. *)
LEMMA FlushSane ==
  ASSUME NEW L, NEW O, NEW P, NEW s, Sane(s, L, O), s.pc = "stopping", s.worker = NoJob
  PROVE  LET t == [quiet(s) EXCEPT !.pc = "flushing"] IN
         /\ Sane(t, L, P) /\ Active(t) /\ Active(s)
         /\ t.epoch = s.epoch /\ t.instance = s.instance /\ t.results = s.results
         /\ t.observations = s.observations
<1> DEFINE t == [quiet(s) EXCEPT !.pc = "flushing"]
<1>1. s \in HelperState BY DEF Sane
<1>2. t \in HelperState
  BY <1>1 DEF quiet, HelperState
<1>3. /\ t.pc = "flushing" /\ t.running = s.running /\ t.epoch = s.epoch /\ t.instance = s.instance
      /\ t.beat = s.beat /\ t.cycleInFlight = FALSE /\ t.pending = s.pending
      /\ t.worker = s.worker /\ t.results = s.results /\ t.observations = s.observations
  BY <1>1 DEF quiet, HelperState
<1> HIDE DEF t
<1>4. Active(t) /\ Active(s)
  BY <1>3 DEF Active
<1>5. t.pending = NoJob /\ t.worker = NoJob
  BY <1>3 DEF Sane
<1>6. Orderly(t)
  BY <1>3, <1>4, <1>5 DEF Orderly
<1>7. Sane(t, L, P)
  BY <1>2, <1>3, <1>4, <1>5, <1>6 DEF Sane, Rightful
<1> QED BY <1>3, <1>4, <1>7 DEF t

finished(s) == [s EXCEPT !.pc = "loop", !.running = FALSE, !.observations = NoObservations]

(* The end of stop(): a job that a slot has posted is one of a session that is over. *)
LEMMA FinishSane ==
  ASSUME NEW L, NEW M, NEW O, NEW s, Sane(s, L, O), s.pc = "flushing",
         L \subseteq M, s.instance \in O => s.instance \in M
  PROVE  LET t == finished(s) IN
         /\ Sane(t, M, O) /\ ~Active(t)
         /\ t.epoch = s.epoch /\ t.instance = s.instance /\ t.results = s.results
         /\ t.observations = NoObservations
<1> DEFINE t == [s EXCEPT !.pc = "loop", !.running = FALSE, !.observations = NoObservations]
<1>1. s \in HelperState BY DEF Sane
<1>2. NoObservations \in Partial([beat : 1..MaxBeats, visible : BOOLEAN])
  BY NothingSeen
<1>3. t \in HelperState
  BY <1>1, <1>2 DEF HelperState
<1>4. /\ t.pc = "loop" /\ t.running = FALSE /\ t.epoch = s.epoch /\ t.instance = s.instance
      /\ t.beat = s.beat /\ t.cycleInFlight = s.cycleInFlight /\ t.pending = s.pending
      /\ t.worker = s.worker /\ t.results = s.results /\ t.observations = NoObservations
  BY <1>1 DEF HelperState
<1> HIDE DEF t
<1>5. ~Active(t)
  BY <1>4 DEF Active
<1>6. Rightful(t, M, t.pending) /\ Rightful(t, M, t.worker)
  <2>1. CASE s.instance \in O
    BY <1>4, <2>1 DEF Sane, Rightful
  <2>2. CASE s.instance \notin O
    BY <1>4, <2>2 DEF Sane, Orderly, Rightful
  <2> QED BY <2>1, <2>2
<1>7. t.instance \in O \/ Orderly(t)
  <2> SUFFICES ASSUME s.instance \notin O PROVE Orderly(t)
    BY <1>4
  <2>1. t.pending = NoJob /\ t.worker = NoJob /\ ~t.cycleInFlight
    BY <1>4 DEF Sane, Orderly
  <2> QED BY <1>4, <1>5, <2>1 DEF Orderly
<1>8. Sane(t, M, O)
  BY <1>3, <1>4, <1>5, <1>6, <1>7 DEF Sane
<1> QED BY <1>4, <1>5, <1>8 DEF finished, t

(* A job stays rightful when more sessions are over, and a helper sane when more are disturbed. *)
LEMMA SaneMore ==
  ASSUME NEW L, NEW M, NEW O, NEW P, NEW s, Sane(s, L, O), L \subseteq M,
         s.instance \in O => s.instance \in P
  PROVE  Sane(s, M, P)
BY DEF Sane, Rightful

(* A session that begins: of the one before are left results of older epochs and, when a slot has
   disturbed it, a job of a session that is over. *)
Begun(t, s, L, O) ==
  /\ t \in HelperState
  /\ t.pc = "loop" /\ t.running = FALSE /\ t.instance = sessions + 1 /\ t.instance # NoInstance
  /\ t.beat = 1 /\ t.activity = 0 /\ t.epoch = s.epoch + 1
  /\ t.pending # NoJob => t.pending.instance \in L /\ t.pending.epoch <= t.epoch
  /\ t.worker # NoJob => t.worker.instance \in L /\ t.worker.epoch <= t.epoch
  /\ s.instance \notin O => t.cycleInFlight = FALSE /\ t.pending = NoJob /\ t.worker = NoJob
  /\ t.results = s.results /\ t.observations = NoObservations
  /\ \A i \in 1..Len(t.results) : t.results[i].epoch < t.epoch /\ t.results[i].epoch <= t.epoch

(* fresh() makes such a one of a helper that is not running. *)
LEMMA FreshType ==
  ASSUME NEW L, NEW O, NEW s, Sane(s, L, O), s.pc = "loop", ~s.running,
         sessions \in 0..MaxSessions, sessions < MaxSessions
  PROVE  Begun(fresh(s), s, L, O)
<1> DEFINE n == sessions + 1
           e == s.epoch + 1
           t == [s EXCEPT !.instance = n, !.activity = 0, !.beat = 1, !.epoch = e,
                          !.observations = NoObservations]
<1>1. s \in HelperState BY DEF Sane
<1>2. NoObservations \in Partial([beat : 1..MaxBeats, visible : BOOLEAN])
  BY NothingSeen
<1>3. /\ n \in Instance /\ n # NoInstance
      /\ s.epoch \in Nat /\ e \in Nat /\ e > s.epoch /\ 1 \in 0..MaxBeats
  BY <1>1, BoundsAssumption DEF HelperState, Instance, NoInstance
<1>4. ~Active(s)
  BY DEF Active
<1>5. s.instance \notin O => s.pending = NoJob /\ s.worker = NoJob /\ s.cycleInFlight = FALSE
  BY <1>1, <1>4 DEF Sane, Orderly, HelperState
<1>6. ASSUME NEW i \in 1..Len(s.results)
      PROVE  s.results[i].epoch < e /\ s.results[i].epoch <= e
  <2>1. s.results[i] \in Result
    BY <1>1 DEF HelperState
  <2>2. s.results[i].epoch \in Nat /\ s.results[i].epoch <= s.epoch
    BY <2>1 DEF Sane, Result
  <2> QED BY <1>3, <2>2
<1>7. /\ s.pending # NoJob => s.pending.instance \in L /\ s.pending.epoch <= e
      /\ s.worker # NoJob => s.worker.instance \in L /\ s.worker.epoch <= e
  <2>1. ASSUME NEW job \in Job, Rightful(s, L, job) PROVE job.instance \in L /\ job.epoch <= e
    <3>1. job.epoch \in Nat /\ job # NoJob
      BY JobIsAJob DEF Job
    <3> QED BY <1>3, <1>4, <2>1, <3>1 DEF Rightful
  <2>2. s.pending \in Job \union {NoJob} /\ s.worker \in Job \union {NoJob}
    BY <1>1 DEF HelperState
  <2> HIDE DEF e
  <2> QED BY <2>1, <2>2 DEF Sane
<1>8. fresh(s) = t
  BY DEF fresh
<1>9. n = sessions + 1 /\ e = s.epoch + 1
  OBVIOUS
<1> HIDE DEF n, e
<1>10. t \in HelperState
  BY <1>1, <1>2, <1>3 DEF HelperState
<1>11. /\ t.pc = "loop" /\ t.running = s.running /\ t.epoch = e /\ t.instance = n
       /\ t.beat = 1 /\ t.activity = 0 /\ t.cycleInFlight = s.cycleInFlight /\ t.pending = s.pending
       /\ t.worker = s.worker /\ t.results = s.results /\ t.observations = NoObservations
  BY <1>1 DEF HelperState
<1>12. s.running = FALSE
  BY <1>1 DEF HelperState
<1> HIDE DEF t
<1>13. t.instance = sessions + 1 /\ t.instance # NoInstance
  BY <1>3, <1>9, <1>11
<1>14. t.epoch = s.epoch + 1 /\ t.running = FALSE
  BY <1>9, <1>11, <1>12
<1>15. /\ t.pending # NoJob => t.pending.instance \in L /\ t.pending.epoch <= t.epoch
       /\ t.worker # NoJob => t.worker.instance \in L /\ t.worker.epoch <= t.epoch
  BY <1>7, <1>11
<1> QED BY <1>5, <1>6, <1>8, <1>10, <1>11, <1>13, <1>14, <1>15 DEF Begun

(* A session whose first record was written begins with a cycle. *)
started(s) == requestCycle([fresh(s) EXCEPT !.running = TRUE], FALSE)

(* It is sane, and disturbed if the session before was. *)
LEMMA StartSane ==
  ASSUME NEW L, NEW O, NEW P, NEW s, Sane(s, L, O), s.pc = "loop", ~s.running,
         sessions \in 0..MaxSessions, sessions < MaxSessions, s.instance \in O => sessions + 1 \in P
  PROVE  /\ Sane(started(s), L, P) /\ Active(started(s))
         /\ started(s).epoch = s.epoch + 1 /\ started(s).instance = sessions + 1
         /\ started(s).results = s.results /\ started(s).observations = NoObservations
<1> DEFINE f == fresh(s)
           u == [f EXCEPT !.running = TRUE]
           t == requestCycle(u, FALSE)
<1>1. /\ f \in HelperState
      /\ f.pc = "loop" /\ f.running = FALSE /\ f.instance = sessions + 1 /\ f.instance # NoInstance
      /\ f.beat = 1 /\ f.activity = 0 /\ f.epoch = s.epoch + 1
      /\ f.pending # NoJob => f.pending.instance \in L /\ f.pending.epoch <= f.epoch
      /\ f.worker # NoJob => f.worker.instance \in L /\ f.worker.epoch <= f.epoch
      /\ s.instance \notin O => f.cycleInFlight = FALSE /\ f.pending = NoJob /\ f.worker = NoJob
      /\ f.results = s.results /\ f.observations = NoObservations
      /\ \A i \in 1..Len(f.results) : f.results[i].epoch <= f.epoch
  <2>1. Begun(f, s, L, O)
    BY FreshType
  <2> HIDE DEF f
  <2> QED BY <2>1 DEF Begun
<1> HIDE DEF f
<1>2. /\ u \in HelperState
      /\ u.pc = "loop" /\ u.running = TRUE /\ u.instance = f.instance
      /\ u.beat = 1 /\ u.epoch = f.epoch /\ u.cycleInFlight = f.cycleInFlight
      /\ u.pending = f.pending /\ u.worker = f.worker
      /\ u.results = f.results /\ u.observations = NoObservations
  BY <1>1 DEF HelperState
<1> HIDE DEF u
<1>3. Sane(u, L, P)
  <2>1. Rightful(u, L, u.pending) /\ Rightful(u, L, u.worker)
    BY <1>1, <1>2 DEF Rightful
  <2>2. u.instance \in P \/ Orderly(u)
    BY <1>1, <1>2 DEF Orderly, Active
  <2> QED BY <1>1, <1>2, <2>1, <2>2 DEF Sane
<1>4. /\ Sane(t, L, P)
      /\ t.pc = u.pc /\ t.running = u.running /\ t.epoch = u.epoch
      /\ t.instance = u.instance /\ t.results = u.results /\ t.observations = u.observations
  BY <1>2, <1>3, RequestSane, RequestFrame
<1>5. Active(t)
  BY <1>2, <1>4 DEF Active
<1> QED BY <1>1, <1>2, <1>4, <1>5 DEF started, t, u, f

(* A process that has just been started has nothing to do. *)
LEMMA NewSane ==
  ASSUME NEW L, NEW O PROVE Sane(NewProcess, L, O) /\ ~Active(NewProcess)
<1>1. NoObservations \in Partial([beat : 1..MaxBeats, visible : BOOLEAN])
  BY NothingSeen
<1>2. NewProcess \in HelperState
  BY <1>1, BoundsAssumption DEF NewProcess, HelperState
<1>3. ~Active(NewProcess)
  BY DEF NewProcess, Active
<1> QED BY <1>2, <1>3 DEF NewProcess, Sane, Orderly, Rightful

-----------------------------------------------------------------------------
(***************************************************************************)
(* The heartbeats of x that a helper s can still hear of: in the directory *)
(* d, in a queued result of its epoch, and in what it has observed.        *)
(***************************************************************************)
onDisk(d, x) == {d[y].beat : y \in {x} \intersect DOMAIN d}

current(s, x) ==
  {i \in 1..Len(s.results) : s.results[i].epoch = s.epoch /\ x \in DOMAIN s.results[i].records}

queued(s, x) == {s.results[i].records[x] : i \in current(s, x)}

remembered(s, x) == {s.observations[y].beat : y \in {x} \intersect DOMAIN s.observations}

heard(s, d, x) == onDisk(d, x) \union queued(s, x) \union remembered(s, x)

shown(s, x) == x \in DOMAIN s.observations /\ s.observations[x].visible

(* A step from s to t hears nothing new, and shows only what was shown or has advanced. *)
Quieter(t, s, d) ==
  \A x : /\ heard(t, d, x) \subseteq heard(s, d, x)
         /\ shown(t, x) => \/ shown(s, x)
                           \/ \E b, c \in heard(s, d, x) : b # c

(* Posting, taking and publishing a job change nothing of what is heard. *)
LEMMA QuietSame ==
  ASSUME NEW s, NEW t, NEW d, t.epoch = s.epoch, t.results = s.results, t.observations = s.observations
  PROVE  Quieter(t, s, d)
BY DEF Quieter, heard, shown, queued, current, remembered

(* A new epoch: no queued result is of it. *)
LEMMA QuietEpoch ==
  ASSUME NEW s, NEW t, NEW d, \A i \in 1..Len(t.results) : t.results[i].epoch # t.epoch,
         t.observations = s.observations \/ t.observations = NoObservations
  PROVE  Quieter(t, s, d)
<1>1. \A x : queued(t, x) = {}
  BY DEF queued, current
<1>2. DOMAIN NoObservations = {}
  BY NothingSeen
<1>3. \A x : remembered(t, x) \subseteq remembered(s, x) /\ (shown(t, x) => shown(s, x))
  BY <1>2 DEF remembered, shown
<1> QED BY <1>1, <1>3 DEF Quieter, heard

(* Neither does discarding a result. *)
LEMMA QuietPopped ==
  ASSUME NEW s \in HelperState, s.results # <<>>, NEW t, NEW d,
         t.epoch = s.epoch, t.results = Tail(s.results), t.observations = s.observations
  PROVE  Quieter(t, s, d)
<1> DEFINE q == Tail(s.results)
<1>1. \A i \in 1..Len(q) : i + 1 \in 1..Len(s.results) /\ q[i] = s.results[i + 1]
  BY PoppedQueue
<1>2. ASSUME NEW x, NEW b \in queued(t, x) PROVE b \in queued(s, x)
  <2>1. PICK i \in current(t, x) : b = t.results[i].records[x]
    BY <1>2 DEF queued
  <2>2. i + 1 \in current(s, x) /\ b = s.results[i + 1].records[x]
    BY <1>1, <2>1 DEF current
  <2> QED BY <2>2 DEF queued
<1>3. \A x : remembered(t, x) = remembered(s, x) /\ (shown(t, x) => shown(s, x))
  BY DEF remembered, shown
<1> QED BY <1>2, <1>3 DEF Quieter, heard

(* A result of this session is scanned: r is the head of the queue of s. *)
LEMMA QuietScan ==
  ASSUME NEW s \in HelperState, s.results # <<>>, NEW t, NEW u \in HelperState, NEW d, NEW silent,
         NEW overdue \in BOOLEAN, s.epoch = Head(s.results).epoch,
         u.epoch = s.epoch, u.results = Tail(s.results), u.observations = s.observations,
         t.epoch = s.epoch, t.results = Tail(s.results),
         t.observations = scan(u, Head(s.results), silent, overdue).observations
  PROVE  Quieter(t, s, d)
<1> DEFINE q == Tail(s.results)
           r == Head(s.results)
<1>1. /\ \A i \in 1..Len(q) : i + 1 \in 1..Len(s.results) /\ q[i] = s.results[i + 1]
      /\ r \in Result /\ r = s.results[1] /\ 1 \in 1..Len(s.results)
  BY PoppedQueue
<1>2. ASSUME NEW x, NEW b \in queued(t, x) PROVE b \in queued(s, x)
  <2>1. PICK i \in current(t, x) : b = t.results[i].records[x]
    BY <1>2 DEF queued
  <2>2. i + 1 \in current(s, x) /\ b = s.results[i + 1].records[x]
    BY <1>1, <2>1 DEF current
  <2> QED BY <2>2 DEF queued
<1>3. ASSUME NEW x \in DOMAIN r.records PROVE r.records[x] \in queued(s, x)
  <2>1. 1 \in current(s, x)
    BY <1>1, <1>3 DEF current
  <2> QED BY <1>1, <2>1 DEF queued
<1>4. ASSUME NEW x \in DOMAIN t.observations
      PROVE  \/ /\ x \in DOMAIN s.observations
                /\ t.observations[x].beat = s.observations[x].beat
                /\ t.observations[x].visible => s.observations[x].visible
             \/ /\ x \in DOMAIN r.records
                /\ t.observations[x].beat = r.records[x]
                /\ t.observations[x].visible =>
                     x \in DOMAIN s.observations /\ r.records[x] > s.observations[x].beat
  BY <1>1, <1>4, ScanHeard
<1>5. ASSUME NEW x \in DOMAIN s.observations PROVE s.observations[x].beat \in remembered(s, x)
  BY <1>5 DEF remembered
<1>6. ASSUME NEW x, NEW b \in remembered(t, x) PROVE b \in queued(s, x) \union remembered(s, x)
  <2>1. x \in DOMAIN t.observations /\ b = t.observations[x].beat
    BY <1>6 DEF remembered
  <2> QED BY <1>3, <1>4, <1>5, <2>1
<1>7. ASSUME NEW x, shown(t, x)
      PROVE  shown(s, x) \/ \E b, c \in heard(s, d, x) : b # c
  <2>1. x \in DOMAIN t.observations /\ t.observations[x].visible
    BY <1>7 DEF shown
  <2>2. CASE x \in DOMAIN s.observations /\ s.observations[x].visible
    BY <2>2 DEF shown
  <2>3. CASE /\ x \in DOMAIN r.records /\ x \in DOMAIN s.observations
             /\ r.records[x] > s.observations[x].beat
    <3>1. r.records[x] \in heard(s, d, x) /\ s.observations[x].beat \in heard(s, d, x)
      BY <1>3, <1>5, <2>3 DEF heard
    <3>2. r.records[x] # s.observations[x].beat
      <4>1. s.observations \in Partial(Observation)
        BY DEF HelperState, Observation
      <4>2. s.observations[x].beat \in Nat
        <5>1. s.observations[x] \in Observation
          BY <2>3, <4>1, PartialElim
        <5> QED BY <5>1, BoundsAssumption DEF Observation
      <4>3. r.records \in Partial(1..MaxBeats)
        BY <1>1 DEF Result
      <4>4. r.records[x] \in Nat
        BY <2>3, <4>3, PartialElim, BoundsAssumption
      <4> QED BY <2>3, <4>2, <4>4
    <3> QED BY <3>1, <3>2
  <2> QED BY <1>4, <2>1, <2>2, <2>3
<1> QED BY <1>2, <1>6, <1>7 DEF Quieter, heard

(* A result queued by the worker holds what the directory says. *)
LEMMA QuietDone ==
  ASSUME NEW s \in HelperState, NEW t, NEW d, NEW r \in Result,
         \A x \in DOMAIN r.records : x \in DOMAIN d /\ r.records[x] = d[x].beat,
         t.epoch = s.epoch, t.results = Append(s.results, r), t.observations = s.observations
  PROVE  Quieter(t, s, d)
<1> DEFINE q == Append(s.results, r)
<1>1. s.results \in Seq(Result)
  BY DEF HelperState
<1>2. \A i \in 1..Len(q) : \/ i \in 1..Len(s.results) /\ q[i] = s.results[i]
                           \/ q[i] = r
  BY <1>1
<1>3. ASSUME NEW x, NEW b \in queued(t, x) PROVE b \in onDisk(d, x) \union queued(s, x)
  <2>1. PICK i \in current(t, x) : b = t.results[i].records[x]
    BY <1>3 DEF queued
  <2>2. CASE i \in 1..Len(s.results) /\ q[i] = s.results[i]
    <3>1. i \in current(s, x) /\ b = s.results[i].records[x]
      BY <2>1, <2>2 DEF current
    <3> QED BY <3>1 DEF queued
  <2>3. CASE q[i] = r
    <3>1. x \in DOMAIN d /\ b = d[x].beat
      BY <2>1, <2>3 DEF current
    <3> QED BY <3>1 DEF onDisk
  <2> QED BY <1>2, <2>1, <2>2, <2>3 DEF current
<1>4. \A x : remembered(t, x) = remembered(s, x) /\ (shown(t, x) => shown(s, x))
  BY DEF remembered, shown
<1> QED BY <1>3, <1>4 DEF Quieter, heard

(* What Callback makes of a helper. *)
applied(s, silent, overdue) ==
  LET u == [s EXCEPT !.results = Tail(@)]
      r == Head(s.results)
  IN IF ~u.running \/ u.epoch # r.epoch THEN u
     ELSE IF r.error THEN stopping([u EXCEPT !.cycleInFlight = FALSE])
     ELSE followUp(scan([u EXCEPT !.cycleInFlight = FALSE], r, silent, overdue))

(* The queued result of a cycle, in each of its three cases. *)
LEMMA AppliedSane ==
  ASSUME NEW L, NEW O, NEW s, Sane(s, L, O), s.pc = "loop", s.results # <<>>, NEW silent, NEW overdue \in BOOLEAN, NEW d
  PROVE  LET t == applied(s, silent, overdue) IN
         Sane(t, L, O) /\ t.instance = s.instance /\ Active(t) = Active(s) /\ Quieter(t, s, d)
<1> DEFINE u == [s EXCEPT !.results = Tail(s.results)]
           r == Head(s.results)
           v == [u EXCEPT !.cycleInFlight = FALSE]
           t == IF ~u.running \/ u.epoch # r.epoch THEN u
                ELSE IF r.error THEN stopping(v)
                ELSE followUp(scan(v, r, silent, overdue))
<1> SUFFICES Sane(t, L, O) /\ t.instance = s.instance /\ Active(t) = Active(s) /\ Quieter(t, s, d)
  BY DEF applied
<1>1. s \in HelperState BY DEF Sane
<1>2. u.running = s.running /\ u.epoch = s.epoch
  BY <1>1 DEF HelperState
<1>3. /\ Sane(v, L, O)
      /\ v.pc = s.pc /\ v.running = s.running /\ v.epoch = s.epoch
      /\ v.instance = s.instance /\ v.observations = s.observations
      /\ v.results = Tail(s.results)
  BY EndedSane
<1>4. r \in Result
  BY <1>1, PoppedQueue
<1>5. CASE ~u.running \/ u.epoch # r.epoch
  <2>1. t = u
    BY <1>5
  <2>2. /\ Sane(u, L, O)
        /\ u.pc = s.pc /\ u.running = s.running /\ u.epoch = s.epoch
        /\ u.instance = s.instance /\ u.observations = s.observations
        /\ u.results = Tail(s.results)
    BY <1>2, <1>5, DiscardSane
  <2>3. Quieter(u, s, d)
    BY <1>1, <2>2, QuietPopped
  <2> QED BY <2>1, <2>2, <2>3 DEF Active
<1>6. CASE s.running /\ s.epoch = r.epoch /\ r.error
  <2>1. t = stopping(v)
    BY <1>2, <1>6
  <2> HIDE DEF t
  <2>2. /\ v \in HelperState /\ v.instance # NoInstance /\ v.beat >= 1
        /\ v.worker # NoJob => /\ v.worker.epoch <= v.epoch
                               /\ v.worker.instance = v.instance \/ (v.instance \in O /\ v.worker.instance \in L)
        /\ \A i \in 1..Len(v.results) : v.results[i].epoch <= v.epoch
    <3> HIDE DEF v
    <3> QED BY <1>3, <1>6 DEF Sane, Active, Orderly, Rightful
  <2> HIDE DEF v
  <2>3. LET w == stopping(v) IN
        /\ Sane(w, L, O) /\ Active(w) /\ w.epoch = v.epoch + 1 /\ w.instance = v.instance
        /\ w.results = v.results /\ w.observations = v.observations
    BY <2>2, StoppingSane
  <2>4. ASSUME NEW i \in 1..Len(v.results) PROVE v.results[i].epoch # v.epoch + 1
    <3>1. v.results[i] \in Result /\ v.epoch \in Nat
      BY <2>2 DEF HelperState
    <3>2. v.results[i].epoch \in Nat
      BY <3>1 DEF Result
    <3> QED BY <2>2, <3>1, <3>2
  <2>5. Quieter(stopping(v), s, d)
    BY <1>3, <2>3, <2>4, QuietEpoch
  <2>6. Active(s)
    BY <1>6 DEF Active
  <2> QED BY <1>3, <2>1, <2>3, <2>5, <2>6
<1>7. CASE s.running /\ s.epoch = r.epoch /\ ~r.error
  <2>1. t = followUp(scan(v, r, silent, overdue))
    BY <1>2, <1>7
  <2> HIDE DEF t, v
  <2> DEFINE w == scan(v, r, silent, overdue)
  <2>2. /\ Sane(w, L, O) /\ w.pc = v.pc /\ w.running = v.running /\ w.epoch = v.epoch
        /\ w.instance = v.instance /\ w.results = v.results
    BY <1>3, <1>4, ScanSane
  <2>3. LET z == followUp(w) IN
        /\ Sane(z, L, O) /\ z.pc = w.pc /\ z.running = w.running /\ z.epoch = w.epoch
        /\ z.instance = w.instance /\ z.results = w.results /\ z.observations = w.observations
    BY <1>3, <2>2, FollowUpSane
  <2>4. v \in HelperState
    BY <1>3 DEF Sane
  <2>5. Quieter(followUp(w), s, d)
    BY <1>1, <1>3, <1>7, <2>2, <2>3, <2>4, QuietScan
  <2> QED BY <1>3, <2>1, <2>2, <2>3, <2>5 DEF Active
<1> QED BY <1>2, <1>5, <1>6, <1>7

-----------------------------------------------------------------------------
Record == [beat : 1..MaxBeats, activity : {0, 1}]

(* The sessions that are over and may still have a job. *)
Left == dead \intersect disturbed

(* No two helpers share an instance, and one that runs or stops is not dead. *)
Owned ==
  /\ \A x \in dead \union disturbed : x <= sessions
  /\ \A h \in Helpers :
       /\ helper[h].instance <= sessions
       /\ Active(helper[h]) => helper[h].instance \notin dead
       /\ ghosts[h] \subseteq dead
  /\ \A h, k \in Helpers :
       h # k /\ helper[h].instance = helper[k].instance => helper[h].instance = NoInstance

(* Of an undisturbed session that was over when its own began, a helper only ever hears one heartbeat. *)
Frozen ==
  \A h \in Helpers : \A x \in ghosts[h] \ disturbed :
    \A b, c \in heard(helper[h], directory, x) : b = c

(* The inductive invariant. *)
IInv ==
  /\ TypeOK /\ (\A h \in Helpers : Sane(helper[h], Left, disturbed))
  /\ Owned /\ NoResurrection /\ Frozen /\ NoGhost

(* Writing one record changes what is heard of its owner only. *)
LEMMA WrittenType ==
  ASSUME directory \in Partial(Record), NEW x \in Instance, NEW record \in Record
  PROVE  /\ written(x, record) \in Partial(Record)
         /\ DOMAIN written(x, record) = DOMAIN directory \union {x}
         /\ \A y : y # x => onDisk(written(x, record), y) = onDisk(directory, y)
<1>1. /\ DOMAIN directory \in SUBSET Instance
      /\ \A y \in DOMAIN directory : directory[y] \in Record
  BY PartialElim
<1>2. written(x, record) \in [DOMAIN directory \union {x} -> Record]
  BY <1>1 DEF written
<1>3. DOMAIN directory \union {x} \in SUBSET Instance
  BY <1>1
<1>4. \A y : y # x => onDisk(written(x, record), y) = onDisk(directory, y)
  BY DEF onDisk, written
<1> QED BY <1>2, <1>3, <1>4, PartialIntro

(* Removing a record makes nothing new heard. *)
LEMMA RemovedType ==
  ASSUME directory \in Partial(Record), NEW x
  PROVE  /\ removed(x) \in Partial(Record)
         /\ DOMAIN removed(x) = DOMAIN directory \ {x}
         /\ \A y : onDisk(removed(x), y) \subseteq onDisk(directory, y)
<1>1. /\ DOMAIN directory \in SUBSET Instance
      /\ \A y \in DOMAIN directory : directory[y] \in Record
  BY PartialElim
<1>2. removed(x) \in [DOMAIN directory \ {x} -> Record]
  BY <1>1 DEF removed
<1>3. DOMAIN directory \ {x} \in SUBSET Instance
  BY <1>1
<1>4. \A y : onDisk(removed(x), y) \subseteq onDisk(directory, y)
  BY DEF onDisk, removed
<1> QED BY <1>2, <1>3, <1>4, PartialIntro

(***************************************************************************)
(* A step of h that stays within its session.  Of the directory it changes *)
(* at most one record, of a session in Left or of its own while it runs or *)
(* stops; of disturbed at most its own instance, while it runs or stops.   *)
(***************************************************************************)
Within(h) ==
  /\ helper' = [helper EXCEPT ![h] = helper'[h]]
  /\ Sane(helper'[h], Left, disturbed')
  /\ helper'[h].instance = helper[h].instance
  /\ Active(helper'[h]) = Active(helper[h])
  /\ Quieter(helper'[h], helper[h], directory)
  /\ UNCHANGED <<sessions, withdrawn, dead, ghosts>>
  /\ changes' \in Nat /\ failures' \in Nat
  /\ \/ disturbed' = disturbed
     \/ /\ Active(helper[h])
        /\ disturbed' \in {disturbed \union {helper[h].instance}, disturbed \ {helper[h].instance}}
  /\ \/ directory' = directory
     \/ \E x \in Instance, record \in Record :
          /\ (Active(helper[h]) /\ x = helper[h].instance) \/ x \in Left
          /\ directory' = written(x, record)

(* A step of one helper leaves the others alone. *)
LEMMA ReplacedHelper ==
  ASSUME NEW h \in Helpers, NEW new, helper \in [Helpers -> HelperState], Set(h, new)
  PROVE  /\ helper'[h] = new
         /\ helper' = [helper EXCEPT ![h] = helper'[h]]
         /\ \A k \in Helpers : k # h => helper'[k] = helper[k]
BY DEF Set

(* The types a step of h needs. *)
LEMMA Typed ==
  ASSUME NEW h \in Helpers, IInv
  PROVE  /\ helper \in [Helpers -> HelperState] /\ helper[h] \in HelperState /\ Sane(helper[h], Left, disturbed)
         /\ directory \in Partial(Record)
         /\ sessions \in Nat /\ sessions \in 0..MaxSessions
         /\ changes \in Nat /\ failures \in Nat
         /\ helper[h].running \in BOOLEAN
<1>1. helper \in [Helpers -> HelperState] /\ directory \in Partial(Record) /\ sessions \in 0..MaxSessions
      /\ changes \in Nat /\ failures \in Nat /\ Sane(helper[h], Left, disturbed)
  BY DEF IInv, TypeOK, Record
<1>2. helper[h].running \in BOOLEAN
  BY <1>1 DEF HelperState
<1> QED BY <1>1, <1>2, BoundsAssumption

(* The requests of the timer, of the watcher and of setActivity, and the worker taking a job. *)
LEMMA RequestsWithin ==
  ASSUME NEW h \in Helpers, IInv, Tick(h) \/ DirectoryChanged(h) \/ setActivity(h) \/ Take(h)
  PROVE  Within(h)
<1> DEFINE s == helper[h]
<1>1. /\ helper \in [Helpers -> HelperState] /\ s \in HelperState /\ Sane(s, Left, disturbed)
      /\ changes \in Nat /\ failures \in Nat
  BY Typed
<1>2. SUFFICES ASSUME NEW t, Set(h, t), Sane(t, Left, disturbed'), t.pc = s.pc,
                      t.running = s.running, t.epoch = s.epoch,
                      t.instance = s.instance, t.results = s.results, t.observations = s.observations,
                      UNCHANGED <<directory, sessions, withdrawn, dead, ghosts, failures>>,
                      changes' \in Nat,
                      \/ disturbed' = disturbed
                      \/ Active(s) /\ disturbed' = disturbed \union {s.instance}
               PROVE  Within(h)
  <2>1. CASE Tick(h)
    <3>1. s.pc = "loop" /\ Set(h, requestCycle(s, TRUE)) /\ UNCHANGED <<directory, history>>
      BY <2>1 DEF Tick, Loop
    <3> QED BY <1>1, <1>2, <3>1, RequestSane, RequestFrame DEF history
  <2>2. CASE DirectoryChanged(h)
    <3>1. s.pc = "loop" /\ Set(h, requestCycle(s, FALSE)) /\ UNCHANGED <<directory, history>>
      BY <2>2 DEF DirectoryChanged, Loop
    <3> QED BY <1>1, <1>2, <3>1, RequestSane, RequestFrame DEF history
  <2>3. CASE setActivity(h)
    <3>1. /\ Set(h, changed(s)) /\ changes' \in Nat
          /\ UNCHANGED <<directory, sessions, withdrawn, dead, ghosts, failures>>
      BY <1>1, <2>3 DEF setActivity
    <3>2. CASE s.pc = "loop"
      <4>1. disturbed' = disturbed
        BY <2>3, <3>2 DEF setActivity, Flushing
      <4> QED BY <1>1, <1>2, <3>1, <3>2, <4>1, ActivitySane
    <3>3. CASE Flushing(h)
      <4>1. disturbed' = disturbed \union {s.instance} /\ Active(s)
        BY <2>3, <3>3 DEF setActivity, Flushing, Active
      <4>2. s.pc = "flushing" /\ s.instance \in disturbed' /\ Sane(s, Left, disturbed')
        BY <1>1, <3>3, <4>1, SaneMore DEF Flushing
      <4>3. /\ Sane(changed(s), Left, disturbed')
            /\ LET t == changed(s) IN
               /\ t.pc = s.pc /\ t.running = s.running /\ t.epoch = s.epoch
               /\ t.instance = s.instance /\ t.results = s.results /\ t.observations = s.observations
        BY <4>2, ActivitySane
      <4> QED BY <1>2, <3>1, <4>1, <4>3
    <3> QED BY <2>3, <3>2, <3>3 DEF setActivity, Loop
  <2>4. CASE Take(h)
    <3>1. /\ s.worker = NoJob /\ s.pending # NoJob
          /\ Set(h, taken(s))
          /\ UNCHANGED <<directory, history>>
      BY <2>4 DEF Take, taken
    <3> QED BY <1>1, <1>2, <3>1, TakeSane DEF history
  <2> QED BY <2>1, <2>2, <2>3, <2>4
<1>3. helper'[h] = t /\ helper' = [helper EXCEPT ![h] = helper'[h]]
  BY <1>1, <1>2, ReplacedHelper
<1>4. Quieter(t, s, directory)
  BY <1>2, QuietSame
<1>5. Active(t) = Active(s)
  BY <1>2 DEF Active
<1> QED BY <1>1, <1>2, <1>3, <1>4, <1>5 DEF Within

(* A job publishes the record of its own, active instance, or of a session in Left. *)
LEMMA PublishWithin ==
  ASSUME NEW h \in Helpers, IInv, WorkerPublish(h)
  PROVE  Within(h)
<1> DEFINE s == helper[h]
           t == [s EXCEPT !.worker.publish = FALSE]
           record == [beat |-> s.worker.beat, activity |-> s.worker.activity]
<1>1. /\ helper \in [Helpers -> HelperState] /\ s \in HelperState /\ Sane(s, Left, disturbed)
      /\ changes \in Nat /\ failures \in Nat
  BY Typed
<1>2. /\ s.worker # NoJob /\ Set(h, t) /\ UNCHANGED history
      /\ directory' = written(s.worker.instance, record)
  BY <1>1 DEF WorkerPublish
<1>3. (Active(s) /\ s.worker.instance = s.instance) \/ s.worker.instance \in Left
  BY <1>1, <1>2 DEF Sane, Rightful
<1>4. record \in Record /\ s.worker.instance \in Instance
  <2>1. s.worker \in Job
    BY <1>1, <1>2 DEF HelperState
  <2> QED BY <2>1 DEF Job, Record
<1>5. /\ Sane(t, Left, disturbed)
      /\ t.pc = s.pc /\ t.running = s.running /\ t.epoch = s.epoch
      /\ t.instance = s.instance /\ t.results = s.results /\ t.observations = s.observations
  BY <1>1, <1>2, PublishSane
<1> HIDE DEF t, record
<1>6. helper'[h] = t /\ helper' = [helper EXCEPT ![h] = helper'[h]]
  BY <1>1, <1>2, ReplacedHelper
<1>7. Quieter(t, s, directory)
  BY <1>5, QuietSame
<1>8. Active(t) = Active(s)
  BY <1>5 DEF Active
<1> QED BY <1>1, <1>2, <1>3, <1>4, <1>5, <1>6, <1>7, <1>8 DEF Within, history

(* A job that ends queues a result that repeats the directory, or an empty one. *)
LEMMA EndsWithin ==
  ASSUME NEW h \in Helpers, IInv, WorkerFailed(h) \/ WorkerScan(h)
  PROVE  Within(h)
<1> DEFINE s == helper[h]
<1>1. /\ helper \in [Helpers -> HelperState] /\ s \in HelperState /\ Sane(s, Left, disturbed)
      /\ changes \in Nat /\ failures \in Nat /\ directory \in Partial(Record)
  BY Typed
<1>2. SUFFICES ASSUME NEW r \in Result, s.worker # NoJob, r.epoch = s.worker.epoch, Set(h, done(s, r)),
                      \A x \in DOMAIN r.records : x \in DOMAIN directory /\ r.records[x] = directory[x].beat,
                      UNCHANGED <<directory, sessions, withdrawn, dead, disturbed, ghosts, changes>>,
                      failures' \in Nat
               PROVE  Within(h)
  <2>1. s.worker # NoJob
    BY DEF WorkerFailed, WorkerScan
  <2>2. s.worker.epoch \in Nat
    <3>1. s.worker \in Job
      BY <1>1, <2>1 DEF HelperState
    <3> QED BY <3>1 DEF Job
  <2>3. CASE WorkerFailed(h)
    <3> DEFINE r == [epoch |-> s.worker.epoch, error |-> TRUE, present |-> {},
                     records |-> NoObservations]
    <3>1. NoObservations \in Partial(1..MaxBeats) /\ DOMAIN NoObservations = {}
      BY NothingSeen
    <3>2. r \in Result
      BY <2>2, <3>1 DEF Result
    <3>3. /\ Set(h, done(s, r)) /\ failures' \in Nat
          /\ UNCHANGED <<directory, sessions, withdrawn, dead, disturbed, ghosts, changes>>
      BY <1>1, <2>3 DEF WorkerFailed
    <3>4. r.epoch = s.worker.epoch /\ r.records = NoObservations
      OBVIOUS
    <3> HIDE DEF r
    <3> QED BY <1>2, <2>1, <3>1, <3>2, <3>3, <3>4
  <2>4. CASE WorkerScan(h)
    <3> DEFINE other == DOMAIN directory \ {s.worker.instance}
               res(readable) == [epoch |-> s.worker.epoch, error |-> FALSE, present |-> other,
                                 records |-> [x \in readable |-> directory[x].beat]]
    <3>1. PICK readable \in SUBSET other : Set(h, done(s, res(readable)))
      BY <2>4 DEF WorkerScan
    <3> DEFINE f == [x \in readable |-> directory[x].beat]
               r == [epoch |-> s.worker.epoch, error |-> FALSE, present |-> other, records |-> f]
    <3>2. /\ DOMAIN directory \in SUBSET Instance
          /\ \A x \in DOMAIN directory : directory[x] \in Record
      BY <1>1, PartialElim
    <3>3. f \in [readable -> 1..MaxBeats]
      BY <3>2 DEF Record
    <3>4. f \in Partial(1..MaxBeats)
      BY <3>2, <3>3, PartialIntro
    <3>5. \A x \in DOMAIN f : x \in DOMAIN directory /\ f[x] = directory[x].beat
      OBVIOUS
    <3>6. Set(h, done(s, r))
      BY <3>1
    <3>7. /\ failures' \in Nat
          /\ UNCHANGED <<directory, sessions, withdrawn, dead, disturbed, ghosts, changes>>
      BY <1>1, <2>4 DEF WorkerScan, history
    <3> HIDE DEF f
    <3>8. r \in Result /\ r.epoch = s.worker.epoch /\ r.records = f
      BY <2>2, <3>2, <3>4 DEF Result
    <3> HIDE DEF r
    <3> QED BY <1>2, <2>1, <3>5, <3>6, <3>7, <3>8
  <2> QED BY <2>3, <2>4
<1> DEFINE t == done(s, r)
<1>3. /\ Sane(t, Left, disturbed)
      /\ t.pc = s.pc /\ t.running = s.running /\ t.epoch = s.epoch
      /\ t.instance = s.instance /\ t.observations = s.observations
      /\ t.results = Append(s.results, r)
  BY <1>1, <1>2, DoneSane
<1>4. helper'[h] = t /\ helper' = [helper EXCEPT ![h] = helper'[h]]
  BY <1>1, <1>2, ReplacedHelper
<1> HIDE DEF t
<1>5. Quieter(t, s, directory)
  BY <1>1, <1>2, <1>3, QuietDone
<1>6. Active(t) = Active(s)
  BY <1>3 DEF Active
<1> QED BY <1>1, <1>2, <1>3, <1>4, <1>5, <1>6 DEF Within

(* A queued result is applied within the session it belongs to, or dropped. *)
LEMMA AppliedWithin ==
  ASSUME NEW h \in Helpers, IInv, Applied(h)
  PROVE  Within(h)
<1> DEFINE s == helper[h]
<1>1. /\ helper \in [Helpers -> HelperState] /\ s \in HelperState /\ Sane(s, Left, disturbed)
      /\ changes \in Nat /\ failures \in Nat
  BY Typed
<1>2. PICK silent : \E overdue \in BOOLEAN : Callback(h, silent, overdue)
  BY DEF Applied
<1>2b. PICK overdue \in BOOLEAN : Callback(h, silent, overdue)
  BY <1>2
<1> DEFINE t == applied(s, silent, overdue)
<1>3. s.pc = "loop" /\ s.results # <<>> /\ Set(h, t) /\ UNCHANGED <<directory, history>>
  BY <1>2b DEF Callback, Loop, applied
<1>4. Sane(t, Left, disturbed) /\ t.instance = s.instance /\ Active(t) = Active(s) /\ Quieter(t, s, directory)
  BY <1>1, <1>3, AppliedSane
<1> HIDE DEF t
<1>5. helper'[h] = t /\ helper' = [helper EXCEPT ![h] = helper'[h]]
  BY <1>1, <1>3, ReplacedHelper
<1> QED BY <1>1, <1>3, <1>4, <1>5 DEF Within, history

(* The first half of stop() is still a step of the session. *)
LEMMA StopWithin ==
  ASSUME NEW h \in Helpers, IInv, Stop(h)
  PROVE  Within(h)
<1> DEFINE s == helper[h]
           t == stopping(s)
<1>1. /\ helper \in [Helpers -> HelperState] /\ s \in HelperState /\ Sane(s, Left, disturbed)
      /\ changes \in Nat /\ failures \in Nat
  BY Typed
<1>2. s.running /\ Set(h, t) /\ UNCHANGED <<directory, history>>
  BY DEF Stop
<1>3. /\ Active(s) /\ s.instance # NoInstance /\ s.beat >= 1
      /\ s.worker # NoJob => /\ s.worker.epoch <= s.epoch
                             /\ s.worker.instance = s.instance \/ (helper[h].instance \in disturbed /\ s.worker.instance \in Left)
      /\ \A i \in 1..Len(s.results) : s.results[i].epoch <= s.epoch
  BY <1>1, <1>2 DEF Sane, Active, Orderly, Rightful
<1>4. /\ Sane(t, Left, disturbed) /\ Active(t)
      /\ t.epoch = s.epoch + 1 /\ t.instance = s.instance
      /\ t.results = s.results /\ t.observations = s.observations
  BY <1>1, <1>3, StoppingSane
<1>5. ASSUME NEW i \in 1..Len(t.results) PROVE t.results[i].epoch # t.epoch
  <2>1. s.results[i] \in Result /\ s.epoch \in Nat
    BY <1>1, <1>4 DEF HelperState
  <2>2. s.results[i].epoch \in Nat
    BY <2>1 DEF Result
  <2> QED BY <1>3, <1>4, <2>1, <2>2
<1> HIDE DEF t
<1>6. Quieter(t, s, directory)
  BY <1>4, <1>5, QuietEpoch
<1>7. helper'[h] = t /\ helper' = [helper EXCEPT ![h] = helper'[h]]
  BY <1>1, <1>2, ReplacedHelper
<1> QED BY <1>1, <1>2, <1>3, <1>4, <1>6, <1>7 DEF Within, history

(* So is the moment at which the worker is idle: what a slot has disturbed before is over. *)
LEMMA FlushWithin ==
  ASSUME NEW h \in Helpers, IInv, StopFlush(h)
  PROVE  Within(h)
<1> DEFINE s == helper[h]
           t == [quiet(s) EXCEPT !.pc = "flushing"]
<1>1. /\ helper \in [Helpers -> HelperState] /\ s \in HelperState /\ Sane(s, Left, disturbed)
       /\ changes \in Nat /\ failures \in Nat
  BY Typed
<1>2. /\ s.pc = "stopping" /\ s.worker = NoJob /\ Set(h, t)
      /\ disturbed' = disturbed \ {s.instance}
      /\ UNCHANGED <<directory, sessions, withdrawn, dead, ghosts, changes, failures>>
  BY DEF StopFlush
<1>3. /\ Sane(t, Left, disturbed') /\ Active(t) /\ Active(s)
      /\ t.epoch = s.epoch /\ t.instance = s.instance /\ t.results = s.results
      /\ t.observations = s.observations
  BY <1>1, <1>2, FlushSane
<1> HIDE DEF t
<1>4. Quieter(t, s, directory)
  BY <1>3, QuietSame
<1>5. helper'[h] = t /\ helper' = [helper EXCEPT ![h] = helper'[h]]
  BY <1>1, <1>2, ReplacedHelper
<1> QED BY <1>1, <1>2, <1>3, <1>4, <1>5 DEF Within

(* A helper that hears nothing new shows no ghost and agrees with itself. *)
LEMMA StillFrozen ==
  ASSUME NEW h \in Helpers, Frozen, NoGhost, NEW t, NEW d, NEW x \in ghosts[h] \ disturbed,
         onDisk(d, x) \subseteq onDisk(directory, x), Quieter(t, helper[h], directory)
  PROVE  ~shown(t, x) /\ \A b, c \in heard(t, d, x) : b = c
<1>1. \A b, c \in heard(helper[h], directory, x) : b = c
  BY DEF Frozen
<1>2. ~shown(helper[h], x)
  BY DEF NoGhost, visible, shown
<1>3. heard(t, directory, x) \subseteq heard(helper[h], directory, x)
  BY DEF Quieter
<1>4. heard(t, d, x) \subseteq heard(t, directory, x)
  BY DEF heard
<1>5. ~shown(t, x)
  BY <1>1, <1>2 DEF Quieter
<1> QED BY <1>1, <1>3, <1>4, <1>5

(* The core of the argument: a step within a session touches no record of another that is over,
   unless that one is in Left. *)
LEMMA WithinPreserves ==
  ASSUME NEW h \in Helpers, IInv, Within(h)
  PROVE  IInv'
<1>1. /\ helper \in [Helpers -> HelperState] /\ directory \in Partial(Record)
      /\ helper[h] \in HelperState
  BY Typed
<1>2. /\ Active(helper[h]) => /\ helper[h].instance \in Instance
                             /\ helper[h].instance \notin dead
                             /\ helper[h].instance <= sessions
                             /\ \A k \in Helpers : k # h => helper[k].instance # helper[h].instance
      /\ withdrawn \subseteq dead /\ dead \subseteq Instance /\ disturbed \subseteq Instance
  BY <1>1 DEF IInv, TypeOK, Sane, Owned, HelperState
<1>3. /\ disturbed' \subseteq Instance
      /\ \A x \in dead : x \in disturbed' <=> x \in disturbed
      /\ \A k \in Helpers : k # h => (helper[k].instance \in disturbed') = (helper[k].instance \in disturbed)
      /\ \A x \in disturbed' : x \in disturbed \/ x <= sessions
      /\ Left' = Left
  <2>1. \/ disturbed' = disturbed
        \/ Active(helper[h]) /\ disturbed' = disturbed \union {helper[h].instance}
        \/ Active(helper[h]) /\ disturbed' = disturbed \ {helper[h].instance}
    BY DEF Within
  <2>2. dead' = dead
    BY DEF Within
  <2> QED BY <1>2, <2>1, <2>2 DEF Left
<1>4. /\ \A k \in Helpers : Sane(helper'[k], Left', disturbed')
      /\ helper' \in [Helpers -> HelperState]
  <2>1. Sane(helper'[h], Left', disturbed') /\ helper'[h] \in HelperState
    BY <1>3 DEF Within, Sane
  <2>2. ASSUME NEW k \in Helpers, k # h PROVE Sane(helper'[k], Left', disturbed')
    <3>1. helper'[k] = helper[k] /\ Sane(helper[k], Left, disturbed)
      BY <1>1, <2>2 DEF Within, IInv
    <3> QED BY <1>3, <2>2, <3>1, SaneMore
  <2>3. \A k \in Helpers : Sane(helper'[k], Left', disturbed')
    BY <2>1, <2>2
  <2>4. helper' \in [Helpers -> HelperState]
    BY <1>1, <2>1 DEF Within
  <2> QED BY <2>3, <2>4
<1>5. \A k \in Helpers : /\ helper'[k].instance = helper[k].instance
                         /\ Active(helper'[k]) = Active(helper[k])
                         /\ Quieter(helper'[k], helper[k], directory)
  <2>1. ASSUME NEW k \in Helpers, k # h PROVE helper'[k] = helper[k] /\ Quieter(helper[k], helper[k], directory)
    BY <1>1, <2>1, QuietSame DEF Within
  <2> QED BY <2>1 DEF Within
<1>6. /\ directory' \in Partial(Record)
      /\ DOMAIN directory' \intersect withdrawn \subseteq disturbed
      /\ \A x \in dead \ disturbed : onDisk(directory', x) = onDisk(directory, x)
  <2>1. CASE directory' = directory
    BY <1>1, <2>1 DEF IInv, NoResurrection
  <2>2. CASE directory' # directory
    <3>1. PICK y \in Instance, record \in Record :
            /\ (Active(helper[h]) /\ y = helper[h].instance) \/ y \in Left
            /\ directory' = written(y, record)
      BY <2>2 DEF Within
    <3>2. y \notin dead \/ y \in disturbed
      BY <1>2, <3>1 DEF Left
    <3>3. /\ directory' \in Partial(Record)
          /\ DOMAIN directory' = DOMAIN directory \union {y}
          /\ \A x : x # y => onDisk(directory', x) = onDisk(directory, x)
      BY <1>1, <3>1, WrittenType
    <3> QED BY <1>2, <3>2, <3>3 DEF IInv, NoResurrection
  <2> QED BY <2>1, <2>2
<1>7. TypeOK'
  BY <1>3, <1>4, <1>6 DEF TypeOK, IInv, Within, Record
<1>8. Owned'
  <2>1. \A x \in dead' \union disturbed' : x <= sessions'
    BY <1>3 DEF Owned, IInv, Within
  <2> QED BY <1>5, <2>1 DEF Owned, IInv, Within
<1>9. NoResurrection'
  BY <1>2, <1>3, <1>6 DEF NoResurrection, Within
<1>10. ASSUME NEW k \in Helpers, NEW x \in ghosts[k] \ disturbed'
       PROVE  ~shown(helper'[k], x) /\ \A b, c \in heard(helper'[k], directory', x) : b = c
  <2>1. x \in dead /\ x \notin disturbed
    BY <1>3, <1>10 DEF IInv, Owned
  <2> QED BY <1>5, <1>6, <2>1, StillFrozen DEF IInv
<1>11. Frozen'
  BY <1>10 DEF Frozen, Within
<1>12. NoGhost'
  BY <1>10 DEF NoGhost, visible, shown, Within
<1> QED BY <1>4, <1>7, <1>8, <1>9, <1>11, <1>12 DEF IInv

(* The end of stop(): only a session that a slot has disturbed has a job left, so the record of any
   other stays away. *)
LEMMA FinishPreserves ==
  ASSUME NEW h \in Helpers, IInv, StopFinish(h)
  PROVE  IInv'
<1> DEFINE s == helper[h]
           t == finished(s)
<1>1. /\ helper \in [Helpers -> HelperState] /\ s \in HelperState /\ Sane(s, Left, disturbed)
       /\ failures \in Nat
      /\ directory \in Partial(Record)
  BY Typed
<1>2. /\ s.pc = "flushing" /\ Set(h, t) /\ dead' = dead \union {s.instance} /\ failures' \in Nat
      /\ \/ directory' = removed(s.instance) /\ withdrawn' = withdrawn \union {s.instance}
         \/ directory' = directory /\ withdrawn' = withdrawn
      /\ UNCHANGED <<sessions, disturbed, ghosts, changes>>
  BY <1>1 DEF StopFinish, finished
<1>3. /\ Left \subseteq Left' /\ (helper[h].instance \in disturbed => s.instance \in Left')
      /\ Sane(t, Left', disturbed) /\ ~Active(t)
      /\ t.epoch = s.epoch /\ t.instance = s.instance /\ t.results = s.results
      /\ t.observations = NoObservations
  <2>1. Left \subseteq Left' /\ (helper[h].instance \in disturbed => s.instance \in Left')
    BY <1>2 DEF Left
  <2> QED BY <1>1, <1>2, <2>1, FinishSane
<1> HIDE DEF t
<1>4. helper'[h] = t /\ \A k \in Helpers : k # h => helper'[k] = helper[k]
  BY <1>1, <1>2, ReplacedHelper
<1>5. t \in HelperState
  BY <1>3 DEF Sane
<1>6. helper' \in [Helpers -> HelperState]
  BY <1>1, <1>2, <1>5 DEF Set
<1>7. Active(s) /\ s.instance # NoInstance /\ s.instance \in Instance
  BY <1>1, <1>2 DEF Sane, Active, HelperState
<1>8. ASSUME NEW k \in Helpers PROVE Sane(helper'[k], Left', disturbed')
  <2>1. CASE k = h
    BY <1>2, <1>3, <1>4, <2>1
  <2>2. CASE k # h
    <3>1. Sane(helper[k], Left, disturbed)
      BY Typed
    <3>2. helper'[k] = helper[k] /\ disturbed' = disturbed
      BY <1>2, <1>4, <2>2
    <3> QED BY <1>3, <3>1, <3>2, SaneMore
  <2> QED BY <2>1, <2>2
<1>9. /\ directory' \in Partial(Record)
      /\ directory' = directory \/ DOMAIN directory' = DOMAIN directory \ {s.instance}
      /\ DOMAIN directory' \subseteq DOMAIN directory
      /\ \A x : onDisk(directory', x) \subseteq onDisk(directory, x)
  BY <1>1, <1>2, RemovedType
<1>10. TypeOK'
  BY <1>2, <1>6, <1>7, <1>9 DEF IInv, TypeOK, Record
<1>11. NoResurrection'
  <2>1. CASE withdrawn' = withdrawn
    BY <1>2, <1>9, <2>1 DEF IInv, NoResurrection
  <2>2. CASE directory' = removed(s.instance) /\ withdrawn' = withdrawn \union {s.instance}
    <3>1. DOMAIN directory' = DOMAIN directory \ {s.instance}
      BY <1>1, <2>2, RemovedType
    <3> QED BY <1>2, <2>2, <3>1 DEF IInv, NoResurrection
  <2> QED BY <1>2, <2>1, <2>2
<1>12. Owned'
  <2>1. \A k \in Helpers : helper'[k].instance = helper[k].instance
    BY <1>3, <1>4
  <2>2. \A x \in dead' \union disturbed' : x <= sessions'
    BY <1>2 DEF IInv, Owned
  <2>3. ASSUME NEW k \in Helpers PROVE Active(helper'[k]) => helper'[k].instance \notin dead'
    <3>1. CASE k = h
      BY <1>3, <1>4, <3>1
    <3>2. CASE k # h
      BY <1>2, <1>4, <1>7, <3>2 DEF IInv, Owned
    <3> QED BY <3>1, <3>2
  <2> QED BY <1>2, <2>1, <2>2, <2>3 DEF IInv, Owned
<1>13. ASSUME NEW k \in Helpers PROVE Quieter(helper'[k], helper[k], directory)
  <2>1. CASE k # h
    BY <1>4, <2>1, QuietSame
  <2>2. CASE k = h
    <3>1. \A x : queued(t, x) = queued(s, x)
      BY <1>3 DEF queued, current
    <3>2. DOMAIN t.observations = {}
      BY <1>3, NothingSeen
    <3>3. \A x : remembered(t, x) = {} /\ ~shown(t, x)
      BY <3>2 DEF remembered, shown
    <3>4. Quieter(t, s, directory)
      BY <3>1, <3>3 DEF Quieter, heard
    <3> QED BY <1>4, <2>2, <3>4
  <2> QED BY <2>1, <2>2
<1>14. ASSUME NEW k \in Helpers, NEW x \in ghosts[k] \ disturbed
       PROVE  ~shown(helper'[k], x) /\ \A b, c \in heard(helper'[k], directory', x) : b = c
  BY <1>9, <1>13, StillFrozen DEF IInv
<1>15. Frozen' /\ NoGhost'
  BY <1>2, <1>14 DEF Frozen, NoGhost, visible, shown
<1> QED BY <1>8, <1>10, <1>11, <1>12, <1>15 DEF IInv

(* A crash: what the process was about to write is lost, its record stays. *)
LEMMA CrashPreserves ==
  ASSUME NEW h \in Helpers, IInv, Crash(h)
  PROVE  IInv'
<1> DEFINE s == helper[h]
           t == NewProcess
<1>1. /\ helper \in [Helpers -> HelperState] /\ s \in HelperState /\ Sane(s, Left, disturbed)
      /\ sessions \in Nat /\ failures \in Nat
  BY Typed
<1>2. /\ Set(h, t) /\ s.instance # NoInstance /\ failures' \in Nat
      /\ dead' = dead \union {s.instance}
      /\ UNCHANGED <<directory, sessions, withdrawn, disturbed, ghosts, changes>>
  BY <1>1 DEF Crash
<1>3. /\ \A L, O : Sane(t, L, O)
      /\ ~Active(t) /\ t.instance = NoInstance /\ t.results = <<>>
      /\ t.observations = NoObservations
  BY NewSane DEF NewProcess
<1>4. s.instance \in Instance
  BY <1>1, <1>2 DEF HelperState
<1> HIDE DEF t
<1>5. helper'[h] = t /\ \A k \in Helpers : k # h => helper'[k] = helper[k]
  BY <1>1, <1>2, ReplacedHelper
<1>6. helper' \in [Helpers -> HelperState]
  <2>1. t \in HelperState
    BY <1>3 DEF Sane
  <2> QED BY <1>1, <1>2, <2>1 DEF Set
<1>7. ASSUME NEW k \in Helpers PROVE Sane(helper'[k], Left', disturbed')
  <2>1. CASE k = h
    BY <1>3, <1>5, <2>1
  <2>2. CASE k # h
    <3>1. Sane(helper[k], Left, disturbed)
      BY Typed
    <3>2. helper'[k] = helper[k] /\ disturbed' = disturbed /\ Left \subseteq Left'
      BY <1>2, <1>5, <2>2 DEF Left
    <3> QED BY <3>1, <3>2, SaneMore
  <2> QED BY <2>1, <2>2
<1>8. TypeOK'
  BY <1>2, <1>4, <1>6 DEF IInv, TypeOK
<1>9. NoResurrection'
  BY <1>2 DEF IInv, NoResurrection
<1>10. Owned'
  <2>1. \A x \in dead' \union disturbed' : x <= sessions'
    BY <1>2 DEF IInv, Owned
  <2>2. ASSUME NEW k \in Helpers
        PROVE  /\ helper'[k].instance <= sessions'
               /\ Active(helper'[k]) => helper'[k].instance \notin dead'
               /\ ghosts'[k] \subseteq dead'
    <3>1. CASE k = h
      BY <1>1, <1>2, <1>3, <1>5, <3>1 DEF IInv, Owned, NoInstance
    <3>2. CASE k # h
      BY <1>2, <1>5, <3>2 DEF IInv, Owned
    <3> QED BY <3>1, <3>2
  <2>3. ASSUME NEW j \in Helpers, NEW k \in Helpers, j # k, helper'[j].instance = helper'[k].instance
        PROVE  helper'[j].instance = NoInstance
    <3>1. CASE j = h \/ k = h
      BY <1>3, <1>5, <2>3, <3>1
    <3>2. CASE j # h /\ k # h
      BY <1>5, <2>3, <3>2 DEF IInv, Owned
    <3> QED BY <3>1, <3>2
  <2> QED BY <2>1, <2>2, <2>3 DEF Owned
<1>11. ASSUME NEW k \in Helpers PROVE Quieter(helper'[k], helper[k], directory)
  <2>1. CASE k # h
    BY <1>5, <2>1, QuietSame
  <2>2. CASE k = h
    BY <1>3, <1>5, <2>2, QuietEpoch
  <2> QED BY <2>1, <2>2
<1>12. ASSUME NEW k \in Helpers, NEW x \in ghosts[k] \ disturbed
       PROVE  ~shown(helper'[k], x) /\ \A b, c \in heard(helper'[k], directory', x) : b = c
  BY <1>2, <1>11, StillFrozen DEF IInv
<1>13. Frozen' /\ NoGhost'
  BY <1>2, <1>12 DEF Frozen, NoGhost, visible, shown
<1> QED BY <1>7, <1>8, <1>9, <1>10, <1>13 DEF IInv

(***************************************************************************)
(* start(), whether its first publication succeeds or not: a new instance, *)
(* and of the sessions that are over the helper can only hear what their   *)
(* records say.                                                            *)
(***************************************************************************)
LEMMA StartPreserves ==
  ASSUME NEW h \in Helpers, IInv, Start(h)
  PROVE  IInv'
<1> DEFINE s == helper[h]
           n == sessions + 1
<1>1. /\ helper \in [Helpers -> HelperState] /\ s \in HelperState /\ Sane(s, Left, disturbed)
      /\ directory \in Partial(Record)
      /\ sessions \in Nat /\ sessions \in 0..MaxSessions /\ failures \in Nat
  BY Typed
<1>2. /\ s.pc = "loop" /\ ~s.running /\ sessions < MaxSessions /\ sessions' = n
      /\ ghosts' = [ghosts EXCEPT ![h] = dead]
      /\ UNCHANGED <<withdrawn, dead, changes>>
      /\ disturbed' = IF helper[h].instance \in disturbed THEN disturbed \union {n} ELSE disturbed
  BY DEF Start, Loop, fresh
<1>3. n \in Instance /\ n \in 0..MaxSessions /\ n \in Nat /\ n > sessions
  BY <1>1, <1>2, BoundsAssumption DEF Instance
<1>4. n \notin dead /\ n \notin withdrawn /\ n \notin disturbed /\ \A k \in Helpers : helper[k].instance # n
  <2>1. \A x \in dead \union disturbed : x <= sessions /\ x \in Nat
    BY DEF IInv, Owned, TypeOK, Instance
  <2>2. ASSUME NEW k \in Helpers PROVE helper[k].instance # n
    <3>1. helper[k].instance <= sessions /\ helper[k].instance \in Nat
      BY <1>1 DEF IInv, Owned, HelperState, Instance, NoInstance
    <3> QED BY <1>1, <1>3, <3>1
  <2>3. withdrawn \subseteq dead
    BY DEF IInv, TypeOK
  <2> QED BY <1>1, <1>3, <2>1, <2>2, <2>3
<1>5. s.epoch \in Nat
  BY <1>1 DEF HelperState
<1>6. PICK t : /\ Set(h, t) /\ Sane(t, Left, disturbed') /\ Active(t)
               /\ t.epoch > s.epoch /\ t.instance = n
               /\ t.results = s.results /\ t.observations = NoObservations
               /\ failures' \in Nat
               /\ \/ directory' = directory
                  \/ \E record \in Record : directory' = written(n, record)
  <2> DEFINE f == fresh(s)
  <2>1. /\ f \in HelperState
        /\ f.instance = n /\ f.instance # NoInstance
        /\ f.beat = 1 /\ f.activity = 0 /\ f.epoch = s.epoch + 1
        /\ f.worker # NoJob => f.worker.instance \in Left /\ f.worker.epoch <= f.epoch
        /\ helper[h].instance \notin disturbed => f.worker = NoJob
        /\ f.results = s.results /\ f.observations = NoObservations
        /\ \A i \in 1..Len(f.results) : f.results[i].epoch <= f.epoch
    <3>1. Begun(f, s, Left, disturbed)
      BY <1>1, <1>2, FreshType
    <3> HIDE DEF f
    <3> QED BY <3>1 DEF Begun
  <2>2. CASE /\ directory' = written(f.instance, [beat |-> f.beat, activity |-> f.activity])
             /\ Set(h, requestCycle([f EXCEPT !.running = TRUE], FALSE))
             /\ UNCHANGED failures
    <3> DEFINE t == started(s)
    <3>1. /\ Sane(t, Left, disturbed') /\ Active(t)
          /\ t.epoch = s.epoch + 1 /\ t.instance = n
          /\ t.results = s.results /\ t.observations = NoObservations
      BY <1>1, <1>2, StartSane
    <3>2. [beat |-> 1, activity |-> 0] \in Record
      BY BoundsAssumption DEF Record
    <3>3. directory' = written(n, [beat |-> 1, activity |-> 0]) /\ failures' \in Nat /\ Set(h, t)
      BY <1>1, <2>1, <2>2 DEF started
    <3> HIDE DEF t
    <3> QED BY <1>5, <3>1, <3>2, <3>3
  <2>3. CASE failures' = failures + 1 /\ Set(h, stopping(f)) /\ UNCHANGED directory
    <3> DEFINE t == stopping(f)
    <3> HIDE DEF f
    <3>1. /\ Sane(t, Left, disturbed') /\ Active(t)
          /\ t.epoch = f.epoch + 1 /\ t.instance = f.instance
          /\ t.results = f.results /\ t.observations = f.observations
      <4>1. f.worker # NoJob => f.worker.epoch <= f.epoch
        BY <2>1
      <4>2. f.worker # NoJob => f.worker.instance \in Left /\ f.instance \in disturbed'
        BY <1>2, <2>1
      <4>3. f \in HelperState /\ f.instance # NoInstance /\ f.beat >= 1
        BY <2>1
      <4>4. \A i \in 1..Len(f.results) : f.results[i].epoch <= f.epoch
        BY <2>1
      <4> QED BY <4>1, <4>2, <4>3, <4>4, StoppingSane
    <3>2. Set(h, t) /\ directory' = directory /\ failures' \in Nat
      BY <1>1, <2>3
    <3> HIDE DEF t
    <3> QED BY <1>5, <2>1, <3>1, <3>2
  <2> QED BY <2>2, <2>3 DEF Start
<1> HIDE DEF n
<1>7. helper'[h] = t /\ \A k \in Helpers : k # h => helper'[k] = helper[k]
  BY <1>1, <1>6, ReplacedHelper
<1>8. helper' \in [Helpers -> HelperState]
  <2>1. t \in HelperState
    BY <1>6 DEF Sane
  <2> QED BY <1>1, <1>6, <2>1 DEF Set
<1>9. ASSUME NEW k \in Helpers PROVE Sane(helper'[k], Left', disturbed')
  <2>1. Left' = Left
    BY <1>2, <1>4 DEF Left
  <2>2. CASE k = h
    BY <1>6, <1>7, <2>1, <2>2
  <2>3. CASE k # h
    <3>1. Sane(helper[k], Left, disturbed)
      BY Typed
    <3>2. helper'[k] = helper[k] /\ disturbed \subseteq disturbed'
      BY <1>2, <1>7, <2>3
    <3> QED BY <2>1, <3>1, <3>2, SaneMore
  <2> QED BY <2>2, <2>3
<1>10. /\ directory' \in Partial(Record)
       /\ DOMAIN directory' \subseteq DOMAIN directory \union {n}
       /\ \A x \in dead : onDisk(directory', x) = onDisk(directory, x)
  <2>1. CASE directory' = directory
    BY <1>1, <2>1
  <2>2. CASE \E record \in Record : directory' = written(n, record)
    <3>1. PICK record \in Record : directory' = written(n, record)
      BY <2>2
    <3>2. /\ directory' \in Partial(Record) /\ DOMAIN directory' = DOMAIN directory \union {n}
          /\ \A x : x # n => onDisk(directory', x) = onDisk(directory, x)
      BY <1>1, <1>3, <3>1, WrittenType
    <3> QED BY <1>4, <3>2
  <2> QED BY <1>6, <2>1, <2>2
<1>11. /\ ghosts' \in [Helpers -> SUBSET Instance] /\ ghosts'[h] = dead
       /\ \A k \in Helpers : ghosts'[k] \subseteq dead /\ (k # h => ghosts'[k] = ghosts[k])
  BY <1>2 DEF IInv, TypeOK, Owned
<1>12. TypeOK'
  BY <1>2, <1>3, <1>6, <1>8, <1>10, <1>11 DEF IInv, TypeOK, Record
<1>13. NoResurrection'
  BY <1>2, <1>4, <1>10 DEF IInv, NoResurrection
<1>14. Owned'
  <2>1. \A x \in dead' \union disturbed' : x <= sessions'
    <3>1. \A x \in dead \union disturbed : x <= sessions /\ x \in Nat
      BY DEF IInv, Owned, TypeOK, Instance
    <3> QED BY <1>1, <1>2, <1>3, <3>1
  <2>2. ASSUME NEW k \in Helpers
        PROVE  /\ helper'[k].instance <= sessions'
               /\ Active(helper'[k]) => helper'[k].instance \notin dead'
    <3>1. CASE k = h
      BY <1>2, <1>3, <1>4, <1>6, <1>7, <3>1
    <3>2. CASE k # h
      <4>1. helper[k].instance <= sessions /\ helper[k].instance \in Nat
        BY <1>1 DEF IInv, Owned, HelperState, Instance, NoInstance
      <4> QED BY <1>1, <1>2, <1>3, <1>7, <3>2, <4>1 DEF IInv, Owned
    <3> QED BY <3>1, <3>2
  <2>3. ASSUME NEW j \in Helpers, NEW k \in Helpers, j # k, helper'[j].instance = helper'[k].instance
        PROVE  helper'[j].instance = NoInstance
    <3>1. j # h /\ k # h
      BY <1>4, <1>6, <1>7, <2>3
    <3> QED BY <1>7, <2>3, <3>1 DEF IInv, Owned
  <2> QED BY <1>2, <1>11, <2>1, <2>2, <2>3 DEF Owned
<1>15. ASSUME NEW k \in Helpers, NEW x \in ghosts'[k] \ disturbed'
       PROVE  ~shown(helper'[k], x) /\ \A b, c \in heard(helper'[k], directory', x) : b = c
  <2>0. x \notin disturbed
    BY <1>2, <1>15
  <2>1. CASE k # h
    <3>1. Quieter(helper'[k], helper[k], directory)
      BY <1>7, <2>1, QuietSame
    <3> QED BY <2>0, <1>10, <1>11, <1>15, <2>1, <3>1, StillFrozen DEF IInv
  <2>2. CASE k = h
    <3>1. ASSUME NEW i \in 1..Len(t.results) PROVE t.results[i].epoch # t.epoch
      <4>1. s.results[i] \in Result
        BY <1>1, <1>6 DEF HelperState
      <4>2. s.results[i].epoch \in Nat /\ s.results[i].epoch <= s.epoch
        BY <1>1, <1>6, <4>1 DEF Sane, Result
      <4>3. t.epoch \in Nat
        BY <1>6 DEF Sane, HelperState
      <4> QED BY <1>5, <1>6, <4>2, <4>3
    <3>2. DOMAIN t.observations = {}
      BY <1>6, NothingSeen
    <3>3. heard(t, directory', x) = onDisk(directory', x) /\ ~shown(t, x)
      BY <3>1, <3>2 DEF heard, queued, current, remembered, shown
    <3>4. \A b, c \in onDisk(directory', x) : b = c
      BY DEF onDisk
    <3> QED BY <1>7, <2>2, <3>3, <3>4
  <2> QED BY <2>1, <2>2
<1>16. Frozen' /\ NoGhost'
  BY <1>15 DEF Frozen, NoGhost, visible, shown
<1> QED BY <1>9, <1>12, <1>13, <1>14, <1>16 DEF IInv

-----------------------------------------------------------------------------
(* The invariant holds before any helper has started. *)
LEMMA InitIInv == Init => IInv
<1> SUFFICES ASSUME Init PROVE IInv
  OBVIOUS
<1>1. /\ \A L, O : Sane(NewProcess, L, O)
      /\ ~Active(NewProcess) /\ NewProcess \in HelperState
  BY NewSane DEF Sane
<1>2. \A h \in Helpers : helper[h] = NewProcess
  BY DEF Init
<1>3. NoObservations \in Partial(Record) /\ DOMAIN NoObservations = {}
  BY NothingSeen
<1>4. NewProcess.instance = NoInstance /\ NewProcess.observations = NoObservations
  BY DEF NewProcess
<1>5. TypeOK
  BY <1>1, <1>3, BoundsAssumption DEF Init, TypeOK, Record
<1>6. Owned
  BY <1>1, <1>2, <1>4 DEF Init, Owned, NoInstance
<1>7. NoResurrection /\ Frozen /\ NoGhost
  BY DEF Init, NoResurrection, Frozen, NoGhost
<1> QED BY <1>1, <1>2, <1>5, <1>6, <1>7 DEF IInv

(* Every step preserves it: one case per action. *)
LEMMA StepIInv ==
  ASSUME IInv, [Next]_vars
  PROVE  IInv'
<1>1. CASE UNCHANGED vars
  <2>1. UNCHANGED <<helper, directory, sessions, withdrawn, dead, disturbed, ghosts, changes, failures>>
    BY <1>1 DEF vars
  <2> QED BY <2>1 DEF IInv, TypeOK, Owned, NoResurrection, Frozen, NoGhost, visible, Left
<1>2. CASE Next
  <2>1. PICK h \in Helpers :
          \/ Start(h) \/ Tick(h) \/ DirectoryChanged(h) \/ setActivity(h)
          \/ Worker(h) \/ WorkerFailed(h) \/ Applied(h)
          \/ Stop(h) \/ StopFlush(h) \/ StopFinish(h) \/ Crash(h)
    BY <1>2 DEF Next
  <2>2. CASE Start(h)
    BY <2>2, StartPreserves
  <2>3. CASE Tick(h) \/ DirectoryChanged(h) \/ setActivity(h) \/ Take(h)
    BY <2>3, RequestsWithin, WithinPreserves
  <2>4. CASE WorkerPublish(h)
    BY <2>4, PublishWithin, WithinPreserves
  <2>5. CASE WorkerFailed(h) \/ WorkerScan(h)
    BY <2>5, EndsWithin, WithinPreserves
  <2>6. CASE Applied(h)
    BY <2>6, AppliedWithin, WithinPreserves
  <2>7. CASE Stop(h)
    BY <2>7, StopWithin, WithinPreserves
  <2>7b. CASE StopFlush(h)
    BY <2>7b, FlushWithin, WithinPreserves
  <2>8. CASE StopFinish(h)
    BY <2>8, FinishPreserves
  <2>9. CASE Crash(h)
    BY <2>9, CrashPreserves
  <2> QED BY <2>1, <2>2, <2>3, <2>4, <2>5, <2>6, <2>7, <2>7b, <2>8, <2>9 DEF Worker
<1> QED BY <1>1, <1>2

(***************************************************************************)
(* The invariant holds in every state, for any number of helpers,          *)
(* sessions, activity changes, failures and beats, also when slots of      *)
(* stop() change the activity.                                             *)
(***************************************************************************)
THEOREM Invariance == Spec => []IInv
<1>1. IInv /\ [Next]_vars => IInv'
  BY StepIInv
<1> QED BY InitIInv, <1>1, PTL DEF Spec

(* The types of Helper::Private, its worker and the shared directory. *)
THEOREM TypeCorrect == Spec => []TypeOK
<1>1. IInv => TypeOK
  BY DEF IInv
<1> QED BY Invariance, <1>1, PTL

(* A record that stop() has removed does not come back, unless a slot that stop() called has posted
   a heartbeat of that session (disturbed). *)
THEOREM Withdrawn == Spec => []NoResurrection
<1>1. IInv => NoResurrection
  BY DEF IInv
<1> QED BY Invariance, <1>1, PTL

(* scan() never shows a session that was over before its own helper's session began, but for a
   heartbeat that a slot of that session's stop() has posted. *)
THEOREM GhostsHidden == Spec => []NoGhost
<1>1. IInv => NoGhost
  BY DEF IInv
<1> QED BY Invariance, <1>1, PTL

(* A cycle in flight has somebody who will end it, in every session that no slot of stop() has
   disturbed, nor the one before it, and so on back to the last undisturbed stop(). *)
THEOREM CyclesBacked == Spec => []CycleBacked
<1>1. ASSUME IInv PROVE CycleBacked
  <2> SUFFICES ASSUME NEW h \in Helpers,
                      helper[h].running /\ helper[h].pc = "loop" /\ helper[h].cycleInFlight,
                      helper[h].instance \notin disturbed
               PROVE  \E r \in ({helper[h].pending, helper[h].worker} \ {NoJob})
                               \union {helper[h].results[i] : i \in 1..Len(helper[h].results)} :
                        r.epoch = helper[h].epoch
    BY DEF CycleBacked
  <2>1. Answering(helper[h])
    BY <1>1 DEF IInv, Sane, Orderly
  <2> QED BY <2>1 DEF Answering
<1> QED BY Invariance, <1>1, PTL

-----------------------------------------------------------------------------
(***************************************************************************)
(* What is published.  Single: a running helper has at most one cycle,     *)
(* which is posted, being worked on or answered.  Caught: a job that       *)
(* carries an older activity has a publication behind it.  Backed is       *)
(* ActivityBacked for one helper.  All of this is about helpers that no    *)
(* slot of stop() has disturbed.                                           *)
(***************************************************************************)
NoAnswer(s) == \A i \in 1..Len(s.results) : s.results[i].epoch # s.epoch

Single(s) ==
  s.running /\ s.pc = "loop" =>
    /\ s.publishPending => s.scanPending
    /\ s.scanPending => s.cycleInFlight
    /\ s.pending # NoJob => s.cycleInFlight /\ s.worker = NoJob /\ NoAnswer(s)
    /\ s.worker # NoJob => s.worker.epoch = s.epoch /\ s.cycleInFlight /\ NoAnswer(s)
    /\ \A i, j \in 1..Len(s.results) : s.results[i].epoch = s.epoch /\ s.results[j].epoch = s.epoch => i = j
    /\ ~NoAnswer(s) => s.cycleInFlight

Outdated(s, job) == job # NoJob /\ job.publish /\ job.activity # s.activity
Caught(s) == s.running /\ s.pc = "loop" /\ (Outdated(s, s.pending) \/ Outdated(s, s.worker)) => s.publishPending

(* A helper that neither runs nor waits for its worker has nothing to follow up. *)
Rested(s) == ~Active(s) \/ s.pc = "flushing" => ~s.scanPending /\ ~s.publishPending

publishes(s, job) == job # NoJob /\ job.epoch = s.epoch /\ job.publish /\ job.activity = s.activity
published(s, d) == s.instance \in DOMAIN d /\ d[s.instance].activity = s.activity
failed(s) == \E i \in 1..Len(s.results) : s.results[i].epoch = s.epoch /\ s.results[i].error

Backed(s, d) ==
  s.running /\ s.pc = "loop" =>
    \/ published(s, d) \/ s.publishPending
    \/ publishes(s, s.pending) \/ publishes(s, s.worker) \/ failed(s)

Kept(s, d) == Single(s) /\ Caught(s) /\ Rested(s) /\ Backed(s, d)

(* What requestCycle does in each of its cases. *)
LEMMA RequestCases ==
  ASSUME NEW s \in HelperState, NEW publish \in BOOLEAN
  PROVE  LET t == requestCycle(s, publish) IN
         \/ ~s.running /\ t = s
         \/ /\ s.running /\ s.cycleInFlight /\ t.cycleInFlight /\ t.scanPending
            /\ t.publishPending = (s.publishPending \/ publish)
            /\ t.pending = s.pending /\ t.activity = s.activity
         \/ /\ s.running /\ ~s.cycleInFlight /\ t.cycleInFlight /\ t.scanPending = s.scanPending
            /\ t.publishPending = s.publishPending /\ t.activity = s.activity
            /\ t.pending # NoJob /\ t.pending.epoch = s.epoch
            /\ t.pending.publish = publish /\ t.pending.activity = s.activity
<1> DEFINE b == IF publish THEN nextBeat(s) ELSE s.beat
           job == [kind |-> "cycle", epoch |-> s.epoch, instance |-> s.instance,
                   activity |-> s.activity, beat |-> b, publish |-> publish]
<1>1. CASE ~s.running
  BY <1>1 DEF requestCycle
<1>2. CASE s.running /\ s.cycleInFlight
  <2> DEFINE p == s.publishPending \/ publish
             t == [s EXCEPT !.scanPending = TRUE, !.publishPending = p]
  <2>1. requestCycle(s, publish) = t
    BY <1>2 DEF requestCycle
  <2>2. t.scanPending = TRUE /\ t.publishPending = p /\ t.pending = s.pending /\ t.activity = s.activity
        /\ t.cycleInFlight = s.cycleInFlight
    BY DEF HelperState
  <2> HIDE DEF t
  <2> QED BY <1>2, <2>1, <2>2
<1>3. CASE s.running /\ ~s.cycleInFlight
  <2> DEFINE t == [s EXCEPT !.beat = b, !.cycleInFlight = TRUE, !.pending = job]
  <2>1. requestCycle(s, publish) = t
    BY <1>3 DEF requestCycle, HelperState
  <2>2. job # NoJob
    BY DEF NoJob
  <2>3. job.epoch = s.epoch /\ job.publish = publish /\ job.activity = s.activity
    OBVIOUS
  <2> HIDE DEF job, b
  <2>4. t.scanPending = s.scanPending /\ t.publishPending = s.publishPending /\ t.pending = job
        /\ t.activity = s.activity /\ t.cycleInFlight = TRUE
    BY DEF HelperState
  <2> HIDE DEF t
  <2> QED BY <1>3, <2>1, <2>2, <2>3, <2>4
<1> QED BY <1>1, <1>2, <1>3

(* A request keeps the activity backed, and one that publishes makes it so. *)
LEMMA RequestKept ==
  ASSUME NEW s \in HelperState, NEW publish \in BOOLEAN, NEW d, s.pc = "loop", Single(s), Rested(s),
         publish \/ ~s.running \/ (Caught(s) /\ Backed(s, d))
  PROVE  Kept(requestCycle(s, publish), d)
<1> DEFINE t == requestCycle(s, publish)
<1>1. /\ t.pc = s.pc /\ t.running = s.running /\ t.epoch = s.epoch
      /\ t.instance = s.instance /\ t.worker = s.worker /\ t.results = s.results
  BY RequestFrame
<1>2. \/ ~s.running /\ t = s
      \/ /\ s.running /\ s.cycleInFlight /\ t.cycleInFlight /\ t.scanPending
         /\ t.publishPending = (s.publishPending \/ publish)
         /\ t.pending = s.pending /\ t.activity = s.activity
      \/ /\ s.running /\ ~s.cycleInFlight /\ t.cycleInFlight /\ t.scanPending = s.scanPending
         /\ t.publishPending = s.publishPending /\ t.activity = s.activity
         /\ t.pending # NoJob /\ t.pending.epoch = s.epoch
         /\ t.pending.publish = publish /\ t.pending.activity = s.activity
  BY RequestCases
<1> HIDE DEF t
<1>3. CASE ~s.running
  <2>1. t = s BY <1>2, <1>3
  <2>2. Single(t) /\ Caught(t) /\ Backed(t, d) BY <1>1, <1>3 DEF Single, Caught, Backed
  <2> QED BY <2>1, <2>2 DEF Kept, t
<1>4. CASE s.running /\ s.cycleInFlight
  <2>1. /\ t.cycleInFlight /\ t.scanPending /\ t.publishPending = (s.publishPending \/ publish)
        /\ t.pending = s.pending /\ t.activity = s.activity
    BY <1>2, <1>4
  <2>2. Single(t) BY <1>1, <1>4, <2>1 DEF Single, NoAnswer
  <2>3. Caught(t) BY <1>1, <1>4, <2>1 DEF Caught, Outdated
  <2>4. Backed(t, d) BY <1>1, <1>4, <2>1 DEF Backed, published, publishes, failed
  <2>5. Rested(t) BY <1>1, <1>4 DEF Rested, Active
  <2> QED BY <2>2, <2>3, <2>4, <2>5 DEF Kept, t
<1>5. CASE s.running /\ ~s.cycleInFlight
  <2>1. /\ t.cycleInFlight /\ t.scanPending = s.scanPending
        /\ t.publishPending = s.publishPending /\ t.activity = s.activity
        /\ t.pending # NoJob /\ t.pending.epoch = s.epoch
        /\ t.pending.publish = publish /\ t.pending.activity = s.activity
    BY <1>2, <1>5
  <2>2. s.worker = NoJob /\ s.pending = NoJob /\ NoAnswer(s) /\ ~s.scanPending /\ ~s.publishPending
    BY <1>5 DEF Single
  <2>3. Single(t) BY <1>1, <2>1, <2>2 DEF Single, NoAnswer
  <2>4. Caught(t) BY <1>1, <2>1, <2>2 DEF Caught, Outdated
  <2>5. Backed(t, d)
    <3>1. CASE publish BY <1>1, <2>1, <3>1 DEF Backed, publishes
    <3>2. CASE Backed(s, d)
      <4>1. ~failed(s) BY <2>2 DEF failed, NoAnswer
      <4>2. published(s, d) BY <1>5, <2>2, <3>2, <4>1 DEF Backed, publishes
      <4> QED BY <1>1, <2>1, <4>2 DEF Backed, published
    <3> QED BY <1>5, <3>1, <3>2
  <2>6. Rested(t) BY <1>1, <1>5 DEF Rested, Active
  <2> QED BY <2>3, <2>4, <2>5, <2>6 DEF Kept, t
<1> QED BY <1>3, <1>4, <1>5

(* setActivity asks for a publication of the new activity. *)
LEMMA ActivityKept ==
  ASSUME NEW s \in HelperState, NEW d, s.pc = "loop", Kept(s, d)
  PROVE  Kept(changed(s), d)
<1> DEFINE u == [s EXCEPT !.activity = 1 - s.activity]
<1>1. 1 - s.activity \in {0, 1}
  BY DEF HelperState
<1>2. u \in HelperState
  BY <1>1 DEF HelperState
<1>3. /\ u.pc = s.pc /\ u.running = s.running /\ u.epoch = s.epoch
      /\ u.cycleInFlight = s.cycleInFlight /\ u.scanPending = s.scanPending
      /\ u.publishPending = s.publishPending /\ u.pending = s.pending
      /\ u.worker = s.worker /\ u.results = s.results
  BY DEF HelperState
<1>4. changed(s) = requestCycle(u, TRUE)
  BY DEF changed
<1> HIDE DEF u
<1>5. Single(u) /\ Rested(u)
  BY <1>3 DEF Kept, Single, NoAnswer, Rested, Active
<1> QED BY <1>2, <1>3, <1>4, <1>5, RequestKept

(* The worker takes the pending job with what it carries. *)
LEMMA TakeKept ==
  ASSUME NEW L, NEW s, Sane(s, L, {}), NEW d, Kept(s, d), s.worker = NoJob, s.pending # NoJob
  PROVE  Kept([s EXCEPT !.worker = s.pending, !.pending = NoJob], d)
<1> DEFINE t == [s EXCEPT !.worker = s.pending, !.pending = NoJob]
<1>1. s \in HelperState /\ s.pending.epoch = s.epoch BY DEF Sane, Orderly
<1>2. /\ t.pc = s.pc /\ t.running = s.running /\ t.epoch = s.epoch /\ t.instance = s.instance
      /\ t.cycleInFlight = s.cycleInFlight /\ t.scanPending = s.scanPending
      /\ t.publishPending = s.publishPending /\ t.pending = NoJob /\ t.activity = s.activity
      /\ t.worker = s.pending /\ t.results = s.results
  BY <1>1 DEF HelperState
<1> HIDE DEF t
<1>3. Single(t) BY <1>1, <1>2 DEF Kept, Single, NoAnswer
<1>4. Caught(t) BY <1>2 DEF Kept, Caught, Outdated
<1>5. Rested(t) BY <1>2 DEF Kept, Rested, Active
<1>6. Backed(t, d) BY <1>2 DEF Kept, Backed, published, publishes, failed
<1> QED BY <1>3, <1>4, <1>5, <1>6 DEF Kept, t

(* What the worker writes is the activity, or has a publication behind it. *)
LEMMA PublishKept ==
  ASSUME NEW L, NEW s, Sane(s, L, {}), NEW d, NEW e, Kept(s, d), s.worker # NoJob, s.worker.publish,
         s.instance \in DOMAIN e, e[s.instance].activity = s.worker.activity
  PROVE  Kept([s EXCEPT !.worker.publish = FALSE], e)
<1> DEFINE job == [s.worker EXCEPT !.publish = FALSE]
           t == [s EXCEPT !.worker = job]
<1>1. s \in HelperState BY DEF Sane
<1>2. s.worker \in Job BY <1>1 DEF HelperState
<1>3. job \in Job /\ job.epoch = s.worker.epoch /\ job.publish = FALSE /\ job.activity = s.worker.activity
  BY <1>2 DEF Job
<1>4. [s EXCEPT !.worker.publish = FALSE] = t OBVIOUS
<1> HIDE DEF job
<1>5. /\ t.pc = s.pc /\ t.running = s.running /\ t.epoch = s.epoch /\ t.instance = s.instance
      /\ t.cycleInFlight = s.cycleInFlight /\ t.scanPending = s.scanPending
      /\ t.publishPending = s.publishPending /\ t.pending = s.pending /\ t.activity = s.activity
      /\ t.worker = job /\ t.results = s.results
  BY <1>1 DEF HelperState
<1> HIDE DEF t
<1>6. Single(t) BY <1>3, <1>5 DEF Kept, Single, NoAnswer
<1>7. Caught(t) BY <1>3, <1>5 DEF Kept, Caught, Outdated
<1>8. Rested(t) BY <1>5 DEF Kept, Rested, Active
<1>9. Backed(t, e)
  <2> SUFFICES ASSUME s.running, s.pc = "loop" PROVE published(t, e) \/ t.publishPending
    BY <1>5 DEF Backed
  <2>1. CASE s.worker.activity = s.activity BY <1>5, <2>1 DEF published
  <2>2. CASE s.worker.activity # s.activity BY <1>5, <2>2 DEF Kept, Caught, Outdated
  <2> QED BY <2>1, <2>2
<1> QED BY <1>4, <1>6, <1>7, <1>8, <1>9 DEF Kept

(* A job that ends has published, or its result is an error. *)
LEMMA DoneKept ==
  ASSUME NEW L, NEW s, Sane(s, L, {}), NEW d, Kept(s, d), s.worker # NoJob, NEW r \in Result, r.epoch = s.worker.epoch,
         s.worker.publish => r.error
  PROVE  Kept(done(s, r), d)
<1> DEFINE q == Append(s.results, r)
           t == [s EXCEPT !.worker = NoJob, !.results = q]
<1>1. s \in HelperState BY DEF Sane
<1>2. s.results \in Seq(Result) /\ Len(s.results) \in Nat BY <1>1 DEF HelperState
<1>3. /\ Len(q) = Len(s.results) + 1
      /\ \A i \in 1..Len(s.results) : i \in 1..Len(q) /\ q[i] = s.results[i]
      /\ q[Len(q)] = r /\ Len(q) \in 1..Len(q)
      /\ \A i \in 1..Len(q) : i \in 1..Len(s.results) \/ i = Len(q)
  BY <1>2
<1>4. done(s, r) = t BY DEF done
<1> HIDE DEF q
<1>5. /\ t.pc = s.pc /\ t.running = s.running /\ t.epoch = s.epoch /\ t.instance = s.instance
      /\ t.cycleInFlight = s.cycleInFlight /\ t.scanPending = s.scanPending
      /\ t.publishPending = s.publishPending /\ t.pending = s.pending /\ t.activity = s.activity
      /\ t.worker = NoJob /\ t.results = q
  BY <1>1 DEF HelperState
<1> HIDE DEF t
<1>6. Single(t)
  <2> SUFFICES ASSUME s.running, s.pc = "loop" PROVE Single(t) BY <1>5 DEF Single
  <2>1. NoAnswer(s) /\ s.pending = NoJob /\ s.cycleInFlight BY DEF Kept, Single
  <2>2. \A i \in 1..Len(q) : q[i].epoch = s.epoch => i = Len(q) BY <1>3, <2>1 DEF NoAnswer
  <2> QED BY <1>5, <2>1, <2>2 DEF Kept, Single
<1>7. Caught(t) BY <1>5 DEF Kept, Caught, Outdated
<1>8. Rested(t) BY <1>5 DEF Kept, Rested, Active
<1>9. Backed(t, d)
  <2> SUFFICES ASSUME s.running, s.pc = "loop" PROVE Backed(t, d) BY <1>5 DEF Backed
  <2>1. r.epoch = s.epoch /\ s.pending = NoJob /\ NoAnswer(s) BY DEF Kept, Single
  <2>2. CASE r.error
    <3>1. failed(t) BY <1>3, <1>5, <2>1, <2>2 DEF failed
    <3> QED BY <3>1 DEF Backed
  <2>3. CASE ~r.error
    <3>1. published(s, d) \/ s.publishPending BY <2>1, <2>3 DEF Kept, Backed, publishes, failed, NoAnswer
    <3> QED BY <1>5, <3>1 DEF Backed, published
  <2> QED BY <2>2, <2>3
<1> QED BY <1>4, <1>6, <1>7, <1>8, <1>9 DEF Kept

(* A helper that stops has nothing to keep, and one that has stopped rests. *)
LEMMA StoppingKept ==
  ASSUME NEW s \in HelperState, NEW d PROVE Kept(stopping(s), d)
<1>1. stopping(s).pc = "stopping" BY DEF stopping, HelperState
<1> QED BY <1>1 DEF Kept, Single, Caught, Rested, Backed, Active

LEMMA FlushKept ==
  ASSUME NEW s \in HelperState, NEW d PROVE Kept([quiet(s) EXCEPT !.pc = "flushing"], d)
<1> DEFINE t == [quiet(s) EXCEPT !.pc = "flushing"]
<1>1. t.pc = "flushing" /\ t.scanPending = FALSE /\ t.publishPending = FALSE BY DEF quiet, HelperState
<1> HIDE DEF t
<1>2. Kept(t, d) BY <1>1 DEF Kept, Single, Caught, Rested, Backed
<1> QED BY <1>2 DEF t

LEMMA FinishKept ==
  ASSUME NEW s \in HelperState, NEW c, NEW d, Kept(s, c), s.pc = "flushing"
  PROVE  Kept([s EXCEPT !.pc = "loop", !.running = FALSE, !.observations = NoObservations], d)
<1> DEFINE t == [s EXCEPT !.pc = "loop", !.running = FALSE, !.observations = NoObservations]
<1>1. t.running = FALSE /\ t.scanPending = s.scanPending /\ t.publishPending = s.publishPending
  BY DEF HelperState
<1> HIDE DEF t
<1>2. ~t.scanPending /\ ~t.publishPending BY <1>1 DEF Kept, Rested
<1>3. Kept(t, d) BY <1>1, <1>2 DEF Kept, Single, Caught, Rested, Backed
<1> QED BY <1>3 DEF t

(* A session begins with its activity in its first record. *)
LEMMA StartKept ==
  ASSUME NEW L, NEW s, Sane(s, L, {}), s.pc = "loop", ~s.running, sessions \in 0..MaxSessions, sessions < MaxSessions,
         NEW c, NEW d, Kept(s, c), sessions + 1 \in DOMAIN d, d[sessions + 1].activity = 0
  PROVE  Kept(requestCycle([fresh(s) EXCEPT !.running = TRUE], FALSE), d)
<1> DEFINE f == fresh(s)
           u == [f EXCEPT !.running = TRUE]
<1>1. /\ f \in HelperState
      /\ f.pc = "loop" /\ f.instance = sessions + 1
      /\ f.activity = 0 /\ f.cycleInFlight = FALSE /\ f.pending = NoJob /\ f.worker = NoJob
      /\ f.results = s.results
      /\ \A i \in 1..Len(f.results) : f.results[i].epoch < f.epoch /\ f.results[i].epoch <= f.epoch
  <2>1. Begun(f, s, L, {}) BY FreshType
  <2> HIDE DEF f
  <2> QED BY <2>1 DEF Begun
<1>2. f.scanPending = FALSE /\ f.publishPending = FALSE
  <2>1. s \in HelperState BY DEF Sane
  <2>2. s.scanPending = FALSE /\ s.publishPending = FALSE BY <2>1 DEF Kept, Rested, Active, HelperState
  <2> QED BY <2>1, <2>2 DEF fresh, HelperState
<1> HIDE DEF f
<1>3. /\ u \in HelperState /\ u.pc = "loop" /\ u.running = TRUE /\ u.instance = f.instance
      /\ u.activity = 0 /\ u.epoch = f.epoch /\ u.cycleInFlight = FALSE /\ u.pending = NoJob /\ u.worker = NoJob
      /\ u.scanPending = FALSE /\ u.publishPending = FALSE /\ u.results = f.results
  BY <1>1, <1>2 DEF HelperState
<1> HIDE DEF u
<1>4. NoAnswer(u)
  <2>1. ASSUME NEW i \in 1..Len(f.results) PROVE f.results[i].epoch # f.epoch
    <3>1. f.results[i] \in Result /\ f.epoch \in Nat BY <1>1 DEF HelperState
    <3>2. f.results[i].epoch \in Nat BY <3>1 DEF Result
    <3> QED BY <1>1, <3>1, <3>2
  <2> QED BY <1>3, <2>1 DEF NoAnswer
<1>5. Single(u) /\ Caught(u) /\ Rested(u)
  BY <1>3, <1>4 DEF Single, Caught, Outdated, Rested, Active, NoAnswer
<1>6. Backed(u, d) BY <1>1, <1>3 DEF Backed, published
<1> QED BY <1>3, <1>5, <1>6, RequestKept DEF u, f

(* The queued result: of another session, a failure, or the end of the one cycle under way. *)
LEMMA AppliedKept ==
  ASSUME NEW L, NEW s, Sane(s, L, {}), s.pc = "loop", s.results # <<>>, NEW silent, NEW overdue \in BOOLEAN, NEW d, Kept(s, d)
  PROVE  Kept(applied(s, silent, overdue), d)
<1> DEFINE q == Tail(s.results)
           u == [s EXCEPT !.results = q]
           r == Head(s.results)
           v == [u EXCEPT !.cycleInFlight = FALSE]
           w == scan(v, r, silent, overdue)
<1>1. s \in HelperState BY DEF Sane
<1>2. /\ r = s.results[1] /\ 1 \in 1..Len(s.results)
      /\ \A i \in 1..Len(q) : i + 1 \in 1..Len(s.results) /\ q[i] = s.results[i + 1] /\ i \in Int
      /\ \A i \in 1..Len(s.results) : i = 1 \/ (i - 1 \in 1..Len(q) /\ q[i - 1] = s.results[i])
  <2>1. \A i \in 1..Len(q) : i \in Int OBVIOUS
  <2> QED BY <1>1, <2>1, PoppedQueue
<1>3. applied(s, silent, overdue) =
        IF ~u.running \/ u.epoch # r.epoch THEN u ELSE IF r.error THEN stopping(v) ELSE followUp(w)
  BY DEF applied
<1> HIDE DEF q, r
<1>4. /\ u.pc = s.pc /\ u.running = s.running /\ u.epoch = s.epoch /\ u.instance = s.instance
      /\ u.cycleInFlight = s.cycleInFlight /\ u.scanPending = s.scanPending
      /\ u.publishPending = s.publishPending /\ u.pending = s.pending /\ u.activity = s.activity
      /\ u.worker = s.worker /\ u.results = q
  BY <1>1 DEF HelperState
<1>5. CASE ~s.running \/ s.epoch # r.epoch
  <2> HIDE DEF u, v, w
  <2>1. applied(s, silent, overdue) = u BY <1>3, <1>4, <1>5
  <2>2. CASE ~s.running
    <3>1. Kept(u, d) BY <1>4, <2>2 DEF Kept, Single, Caught, Rested, Backed, Active
    <3> QED BY <2>1, <3>1
  <2>3. CASE s.running /\ s.epoch # r.epoch
    <3>1. NoAnswer(s) => NoAnswer(u) BY <1>2, <1>4 DEF NoAnswer
    <3>2. ASSUME NEW i \in 1..Len(q), NEW j \in 1..Len(q), q[i].epoch = s.epoch, q[j].epoch = s.epoch PROVE i = j
      <4>1. i + 1 = j + 1 BY <1>2, <2>3, <3>2 DEF Kept, Single
      <4> QED BY <1>2, <4>1
    <3>3. ~NoAnswer(u) => ~NoAnswer(s) BY <3>1
    <3>4. failed(s) => failed(u) BY <1>2, <1>4, <2>3 DEF failed
    <3>5. Single(u) BY <1>4, <2>3, <3>1, <3>2, <3>3 DEF Kept, Single
    <3>6. Caught(u) /\ Rested(u) BY <1>4 DEF Kept, Caught, Outdated, Rested, Active
    <3>7. Backed(u, d) BY <1>4, <3>4 DEF Kept, Backed, published, publishes
    <3> QED BY <2>1, <3>5, <3>6, <3>7 DEF Kept
  <2> QED BY <1>5, <2>2, <2>3
<1>6. CASE s.running /\ s.epoch = r.epoch /\ r.error
  <2>1. v \in HelperState
    <3>1. Sane([[s EXCEPT !.results = Tail(s.results)] EXCEPT !.cycleInFlight = FALSE], L, {}) BY EndedSane
    <3> QED BY <3>1 DEF Sane, q
  <2> HIDE DEF u, v, w
  <2>2. applied(s, silent, overdue) = stopping(v) BY <1>3, <1>4, <1>6
  <2> QED BY <2>1, <2>2, StoppingKept
<1>7. CASE s.running /\ s.epoch = r.epoch /\ ~r.error
  <2>1. Sane(v, L, {})
    <3>1. Sane([[s EXCEPT !.results = Tail(s.results)] EXCEPT !.cycleInFlight = FALSE], L, {}) BY EndedSane
    <3> QED BY <3>1 DEF q
  <2>2. /\ v.pc = s.pc /\ v.running = s.running /\ v.epoch = s.epoch /\ v.instance = s.instance
        /\ v.cycleInFlight = FALSE /\ v.scanPending = s.scanPending
        /\ v.publishPending = s.publishPending /\ v.pending = s.pending /\ v.activity = s.activity
        /\ v.worker = s.worker /\ v.results = q
    BY <1>1 DEF HelperState
  <2>3. r \in Result BY <1>1, PoppedQueue DEF r
  <2> HIDE DEF u, v
  <2>4. Sane(w, L, {}) BY <2>1, <2>3, ScanSane
  <2>5. /\ w.pc = s.pc /\ w.running = s.running /\ w.epoch = s.epoch /\ w.instance = s.instance
        /\ w.cycleInFlight = FALSE /\ w.scanPending = s.scanPending
        /\ w.publishPending = s.publishPending /\ w.pending = s.pending /\ w.activity = s.activity
        /\ w.worker = s.worker /\ w.results = q
    <3>1. v \in HelperState BY <2>1 DEF Sane
    <3> QED BY <2>2, <3>1 DEF scan, HelperState
  <2> HIDE DEF w
  <2>6. applied(s, silent, overdue) = followUp(w) BY <1>3, <1>4, <1>7
  <2>7. ~NoAnswer(s) BY <1>2, <1>7 DEF NoAnswer
  <2>8. s.pending = NoJob /\ s.worker = NoJob /\ (s.publishPending => s.scanPending)
    BY <1>7, <2>7 DEF Kept, Single
  <2>9. \A i \in 1..Len(s.results) : s.results[i].epoch = s.epoch => i = 1
    BY <1>2, <1>7 DEF Kept, Single
  <2>10. \A i \in 1..Len(q) : q[i].epoch # s.epoch
    BY <1>2, <2>9
  <2>11. published(s, d) \/ s.publishPending
    <3>1. ~failed(s) BY <1>2, <1>7, <2>9 DEF failed
    <3> QED BY <1>7, <2>8, <3>1 DEF Kept, Backed, publishes
  <2>12. CASE ~s.scanPending
    <3>1. followUp(w) = w BY <2>5, <2>12 DEF followUp
    <3>2. published(s, d) BY <2>8, <2>11, <2>12
    <3>3. NoAnswer(w) BY <2>5, <2>10 DEF NoAnswer
    <3>4. Single(w) BY <2>5, <2>8, <2>12, <3>3 DEF Single, NoAnswer
    <3>5. Caught(w) /\ Rested(w) BY <1>7, <2>5, <2>8 DEF Caught, Outdated, Rested, Active
    <3>6. Backed(w, d) BY <2>5, <3>2 DEF Backed, published
    <3> QED BY <2>6, <3>1, <3>4, <3>5, <3>6 DEF Kept
  <2>13. CASE s.scanPending
    <3> DEFINE x == [w EXCEPT !.scanPending = FALSE, !.publishPending = FALSE]
    <3>1. w \in HelperState /\ w.publishPending \in BOOLEAN BY <2>4 DEF Sane, HelperState
    <3>2. followUp(w) = requestCycle(x, w.publishPending) BY <2>5, <2>13 DEF followUp
    <3>3. /\ x \in HelperState /\ x.pc = w.pc /\ x.running = w.running /\ x.epoch = w.epoch /\ x.instance = w.instance
          /\ x.cycleInFlight = w.cycleInFlight /\ x.scanPending = FALSE
          /\ x.publishPending = FALSE /\ x.pending = w.pending /\ x.activity = w.activity
          /\ x.worker = w.worker /\ x.results = w.results
      BY <3>1 DEF HelperState
    <3> HIDE DEF x
    <3>4. NoAnswer(x) BY <2>5, <2>10, <3>3 DEF NoAnswer
    <3>5. Single(x) BY <2>5, <2>8, <3>3, <3>4 DEF Single, NoAnswer
    <3>6. Caught(x) /\ Rested(x) BY <1>7, <2>5, <2>8, <3>3 DEF Caught, Outdated, Rested, Active
    <3>7. w.publishPending \/ Backed(x, d) BY <2>5, <2>11, <3>3 DEF Backed, published
    <3> QED BY <2>5, <2>6, <3>1, <3>2, <3>3, <3>5, <3>6, <3>7, RequestKept
  <2> QED BY <2>12, <2>13
<1> QED BY <1>5, <1>6, <1>7

(* The invariant of what is published. *)
Keeping == \A h \in Helpers : helper[h].instance \in disturbed \/ Kept(helper[h], directory)

(* A step of h, whose record or one of a session that is over may change, keeps what the others
   have published. *)
LEMMA KeepingOthers ==
  ASSUME NEW h \in Helpers, IInv, Keeping,
         helper' = [helper EXCEPT ![h] = helper'[h]], helper'[h].instance \in disturbed' \/ Kept(helper'[h], directory'),
         disturbed \ {helper[h].instance} \subseteq disturbed',
         \/ directory' = directory
         \/ \E x, record : /\ directory' = written(x, record)
                           /\ x = helper[h].instance \/ x = sessions + 1 \/ x \in Left
         \/ directory' = removed(helper[h].instance)
  PROVE  Keeping'
<1>1. helper \in [Helpers -> HelperState] /\ disturbed \subseteq Instance BY DEF IInv, TypeOK
<1>2. \A k \in Helpers : k # h => helper'[k] = helper[k] BY <1>1
<1>3. ASSUME NEW k \in Helpers, k # h PROVE helper'[k].instance \in disturbed' \/ Kept(helper'[k], directory')
  <2> DEFINE s == helper[k]
  <2>0. CASE helper[k].instance \in disturbed
    <3>1. s.instance # NoInstance BY <1>1, <2>0 DEF Instance, NoInstance
    <3>2. s.instance # helper[h].instance BY <1>3, <3>1 DEF IInv, Owned
    <3> QED BY <1>2, <1>3, <2>0, <3>2
  <2>1. CASE helper[k].instance \notin disturbed
    <3>1. Kept(s, directory) /\ Sane(s, Left, disturbed) /\ s \in HelperState
      BY <1>1, <2>1 DEF Keeping, IInv
    <3> SUFFICES ASSUME s.running, published(s, directory) PROVE published(s, directory')
      BY <1>2, <1>3, <3>1 DEF Kept, Backed
    <3>2. /\ s.instance # NoInstance /\ s.instance <= sessions
          /\ s.instance # helper[h].instance /\ s.instance \notin dead
      BY <1>3, <3>1 DEF Sane, Active, IInv, Owned
    <3>3. s.instance # sessions + 1
      <4>1. s.instance \in Nat /\ sessions \in Nat
        BY <3>1, Typed, BoundsAssumption DEF HelperState, Instance, NoInstance
      <4> QED BY <3>2, <4>1
    <3>4. CASE \E x, record : /\ directory' = written(x, record)
                              /\ x = helper[h].instance \/ x = sessions + 1 \/ x \in Left
      BY <3>2, <3>3, <3>4 DEF published, written, Left
    <3>5. CASE directory' = removed(helper[h].instance)
      BY <3>2, <3>5 DEF published, removed
    <3> QED BY <3>4, <3>5
  <2> QED BY <2>0, <2>1
<1>4. \A k \in Helpers : helper'[k].instance \in disturbed' \/ Kept(helper'[k], directory') BY <1>3
<1> QED BY <1>4 DEF Keeping, Kept, Single, NoAnswer, Caught, Outdated, Rested, Active, Backed,
                    published, publishes, failed

(* The same of a step within a session. *)
LEMMA KeepingWithin ==
  ASSUME NEW h \in Helpers, IInv, Keeping, Within(h),
         helper[h].instance \in disturbed' \/ Kept(helper'[h], directory')
  PROVE  Keeping'
<1>1. helper'[h].instance \in disturbed' \/ Kept(helper'[h], directory') BY DEF Within
<1>2. disturbed \ {helper[h].instance} \subseteq disturbed' BY DEF Within
<1>3. \/ directory' = directory
      \/ \E x, record : /\ directory' = written(x, record)
                        /\ x = helper[h].instance \/ x = sessions + 1 \/ x \in Left
  BY DEF Within
<1>4. helper' = [helper EXCEPT ![h] = helper'[h]] BY DEF Within
<1> QED BY <1>1, <1>2, <1>3, <1>4, KeepingOthers

(* Every step keeps the activity backed: one case per action. *)
LEMMA StepKeeping ==
  ASSUME IInv, Keeping, [Next]_vars
  PROVE  Keeping'
<1>1. CASE UNCHANGED vars
  <2>1. UNCHANGED <<helper, directory, disturbed>> BY <1>1 DEF vars
  <2> QED BY <2>1 DEF Keeping
<1>2. ASSUME NEW h \in Helpers,
             \/ Start(h) \/ Tick(h) \/ DirectoryChanged(h) \/ setActivity(h)
             \/ Take(h) \/ WorkerPublish(h) \/ WorkerScan(h) \/ WorkerFailed(h) \/ Applied(h)
             \/ Stop(h) \/ StopFlush(h) \/ StopFinish(h) \/ Crash(h)
      PROVE  Keeping'
  <2> DEFINE s == helper[h]
  <2>0. /\ s \in HelperState /\ Sane(s, Left, disturbed)
        /\ helper[h].instance \notin disturbed => Kept(s, directory) /\ Sane(s, Left, {})
        /\ sessions \in 0..MaxSessions
        /\ directory \in Partial(Record) /\ helper \in [Helpers -> HelperState]
    <3>1. /\ s \in HelperState /\ Sane(s, Left, disturbed)
          /\ sessions \in 0..MaxSessions
          /\ directory \in Partial(Record) /\ helper \in [Helpers -> HelperState]
      BY Typed
    <3>2. s.instance \notin disturbed => Sane(s, Left, {}) BY <3>1 DEF Sane
    <3> QED BY <3>1, <3>2 DEF Keeping
  <2>a. ASSUME NEW t, Set(h, t), Within(h), disturbed' = disturbed,
               Sane(s, Left, {}) /\ Kept(s, directory) => Kept(t, directory')
        PROVE  Keeping'
    <3>1. helper'[h] = t BY <2>0, <2>a, ReplacedHelper
    <3>2. helper[h].instance \notin disturbed => Kept(helper'[h], directory') BY <2>0, <2>a, <3>1
    <3>3. s.instance \in disturbed' \/ Kept(helper'[h], directory') BY <2>a, <3>2
    <3> QED BY <2>a, <3>3, KeepingWithin
  <2>1. CASE Start(h)
    <3> DEFINE f == fresh(s)
    <3>1. /\ s.pc = "loop" /\ ~s.running /\ sessions < MaxSessions
          /\ disturbed' = IF helper[h].instance \in disturbed THEN disturbed \union {f.instance} ELSE disturbed
      BY <2>1 DEF Start, Loop
    <3>2. f \in HelperState /\ f.instance = sessions + 1 /\ f.activity = 0
      <4>1. Begun(f, s, Left, disturbed) BY <2>0, <3>1, FreshType
      <4> HIDE DEF f
      <4> QED BY <4>1 DEF Begun
    <3>3. CASE /\ directory' = written(f.instance, [beat |-> f.beat, activity |-> f.activity])
               /\ Set(h, requestCycle([f EXCEPT !.running = TRUE], FALSE))
      <4> DEFINE t == requestCycle([f EXCEPT !.running = TRUE], FALSE)
      <4>1. sessions + 1 \in DOMAIN directory' /\ directory'[sessions + 1].activity = 0
        BY <3>2, <3>3 DEF written
      <4>2. helper[h].instance \notin disturbed => Kept(t, directory')
        BY <2>0, <3>1, <4>1, StartKept
      <4>3. t.instance = f.instance
        <5>1. s.instance \in disturbed => sessions + 1 \in disturbed' BY <3>1, <3>2
        <5>2. started(s).instance = sessions + 1 BY <2>0, <3>1, <5>1, StartSane
        <5>3. t = started(s) BY DEF started
        <5> QED BY <3>2, <5>2, <5>3
      <4>4. helper'[h] = t /\ helper' = [helper EXCEPT ![h] = helper'[h]]
        BY <2>0, <3>3, ReplacedHelper
      <4> HIDE DEF t
      <4>5. helper'[h].instance \in disturbed' \/ Kept(helper'[h], directory') BY <3>1, <4>2, <4>3, <4>4
      <4>6. disturbed \ {s.instance} \subseteq disturbed' BY <3>1
      <4>7. \E x, record : /\ directory' = written(x, record)
                           /\ x = s.instance \/ x = sessions + 1 \/ x \in Left
        BY <3>2, <3>3
      <4> HIDE DEF f
      <4> QED BY <4>4, <4>5, <4>6, <4>7, KeepingOthers
    <3>4. CASE Set(h, stopping(f)) /\ UNCHANGED directory
      <4>1. helper'[h] = stopping(f) /\ helper' = [helper EXCEPT ![h] = helper'[h]]
        BY <2>0, <3>4, ReplacedHelper
      <4>2. Kept(helper'[h], directory') BY <3>2, <4>1, StoppingKept
      <4>3. disturbed \ {s.instance} \subseteq disturbed' BY <3>1
      <4> HIDE DEF f
      <4> QED BY <3>4, <4>1, <4>2, <4>3, KeepingOthers
    <3> QED BY <2>1, <3>3, <3>4 DEF Start
  <2>2. CASE Tick(h) \/ DirectoryChanged(h)
    <3>1. s.pc = "loop" /\ UNCHANGED <<directory, disturbed>>
      BY <2>2 DEF Tick, DirectoryChanged, Loop, history
    <3>2. PICK publish \in BOOLEAN : Set(h, requestCycle(s, publish)) BY <2>2 DEF Tick, DirectoryChanged
    <3>3. Within(h) BY <2>2, RequestsWithin
    <3>4. Kept(s, directory) => Kept(requestCycle(s, publish), directory')
      BY <2>0, <3>1, RequestKept DEF Kept
    <3> QED BY <2>a, <3>1, <3>2, <3>3, <3>4
  <2>3. CASE setActivity(h)
    <3>1. Set(h, changed(s)) /\ UNCHANGED directory /\ Within(h)
      BY <2>3, RequestsWithin DEF setActivity
    <3>2. CASE Flushing(h)
      <4>1. s.instance \in disturbed' BY <2>3, <3>2 DEF setActivity
      <4> QED BY <3>1, <4>1, KeepingWithin
    <3>3. CASE ~Flushing(h)
      <4>1. s.pc = "loop" /\ disturbed' = disturbed BY <2>3, <3>3 DEF setActivity, Loop
      <4>2. Kept(s, directory) => Kept(changed(s), directory') BY <2>0, <3>1, <4>1, ActivityKept
      <4> QED BY <2>a, <3>1, <4>1, <4>2
    <3> QED BY <3>2, <3>3
  <2>4. CASE Take(h)
    <3> DEFINE t == [s EXCEPT !.worker = s.pending, !.pending = NoJob]
    <3>1. s.worker = NoJob /\ s.pending # NoJob /\ Set(h, t) /\ UNCHANGED <<directory, disturbed>>
      BY <2>4 DEF Take, history
    <3>2. Sane(s, Left, {}) /\ Kept(s, directory) => Kept(t, directory') BY <3>1, TakeKept
    <3>3. Within(h) BY <2>4, RequestsWithin
    <3> HIDE DEF t
    <3> QED BY <2>a, <3>1, <3>2, <3>3
  <2>5. CASE WorkerPublish(h)
    <3> DEFINE record == [beat |-> s.worker.beat, activity |-> s.worker.activity]
               t == [s EXCEPT !.worker.publish = FALSE]
    <3>1. /\ s.worker # NoJob /\ s.worker.publish /\ Set(h, t)
          /\ directory' = written(s.worker.instance, record) /\ disturbed' = disturbed
      BY <2>5 DEF WorkerPublish, history
    <3>2. Within(h) BY <2>5, PublishWithin
    <3>3. ASSUME Sane(s, Left, {}), Kept(s, directory) PROVE Kept(t, directory')
      <4>1. s.worker.instance = s.instance BY <3>1, <3>3 DEF Sane, Orderly
      <4>2. s.instance \in DOMAIN directory' /\ directory'[s.instance].activity = s.worker.activity
        BY <3>1, <4>1 DEF written
      <4> HIDE DEF record
      <4> QED BY <3>1, <3>3, <4>2, PublishKept
    <3> HIDE DEF record, t
    <3> QED BY <2>a, <3>1, <3>2, <3>3
  <2>6. CASE WorkerScan(h)
    <3> DEFINE other == DOMAIN directory \ {s.worker.instance}
               res(readable) == [epoch |-> s.worker.epoch, error |-> FALSE, present |-> other,
                                 records |-> [x \in readable |-> directory[x].beat]]
    <3>1. s.worker # NoJob /\ ~s.worker.publish /\ UNCHANGED <<directory, disturbed>>
      BY <2>6 DEF WorkerScan, history
    <3>2. PICK readable \in SUBSET other : Set(h, done(s, res(readable))) BY <2>6 DEF WorkerScan
    <3> DEFINE f == [x \in readable |-> directory[x].beat]
               r == [epoch |-> s.worker.epoch, error |-> FALSE, present |-> other, records |-> f]
    <3>3. /\ DOMAIN directory \in SUBSET Instance
          /\ \A x \in DOMAIN directory : directory[x] \in Record
      BY <2>0, PartialElim
    <3>4. f \in [readable -> 1..MaxBeats] BY <3>3 DEF Record
    <3>5. f \in Partial(1..MaxBeats) BY <3>3, <3>4, PartialIntro
    <3>6. Set(h, done(s, r)) BY <3>2
    <3>7. s.worker.epoch \in Nat
      <4>1. s.worker \in Job BY <2>0, <3>1 DEF HelperState
      <4> QED BY <4>1 DEF Job
    <3> HIDE DEF f
    <3>8. r \in Result /\ r.epoch = s.worker.epoch BY <3>3, <3>5, <3>7 DEF Result
    <3> HIDE DEF r
    <3>9. Sane(s, Left, {}) /\ Kept(s, directory) => Kept(done(s, r), directory')
      BY <3>1, <3>8, DoneKept
    <3>10. Within(h) BY <2>6, EndsWithin
    <3> QED BY <2>a, <3>1, <3>6, <3>9, <3>10
  <2>7. CASE WorkerFailed(h)
    <3> DEFINE r == [epoch |-> s.worker.epoch, error |-> TRUE, present |-> {}, records |-> NoObservations]
    <3>1. s.worker # NoJob /\ UNCHANGED <<directory, disturbed>> /\ Set(h, done(s, r))
      BY <2>7 DEF WorkerFailed
    <3>2. s.worker.epoch \in Nat
      <4>1. s.worker \in Job BY <2>0, <3>1 DEF HelperState
      <4> QED BY <4>1 DEF Job
    <3>3. r \in Result /\ r.epoch = s.worker.epoch /\ r.error BY <3>2, NothingSeen DEF Result
    <3> HIDE DEF r
    <3>4. Sane(s, Left, {}) /\ Kept(s, directory) => Kept(done(s, r), directory')
      BY <3>1, <3>3, DoneKept
    <3>5. Within(h) BY <2>7, EndsWithin
    <3> QED BY <2>a, <3>1, <3>4, <3>5
  <2>8. CASE Applied(h)
    <3>1. PICK silent : \E overdue \in BOOLEAN : Callback(h, silent, overdue) BY <2>8 DEF Applied
    <3>2. PICK overdue \in BOOLEAN : Callback(h, silent, overdue) BY <3>1
    <3>3. /\ s.pc = "loop" /\ s.results # <<>> /\ Set(h, applied(s, silent, overdue))
          /\ UNCHANGED <<directory, disturbed>>
      BY <3>2 DEF Callback, Loop, applied, history
    <3>4. Sane(s, Left, {}) /\ Kept(s, directory) => Kept(applied(s, silent, overdue), directory')
      BY <3>3, AppliedKept
    <3>5. Within(h) BY <2>8, AppliedWithin
    <3> QED BY <2>a, <3>3, <3>4, <3>5
  <2>9. CASE Stop(h)
    <3>1. Set(h, stopping(s)) /\ UNCHANGED <<directory, disturbed>> BY <2>9 DEF Stop, history
    <3>2. Within(h) BY <2>9, StopWithin
    <3>3. Kept(stopping(s), directory') BY <2>0, StoppingKept
    <3> QED BY <2>a, <3>1, <3>2, <3>3
  <2>9b. CASE StopFlush(h)
    <3> DEFINE t == [quiet(s) EXCEPT !.pc = "flushing"]
    <3>1. Set(h, t) BY <2>9b DEF StopFlush
    <3>2. Kept(t, directory') BY <2>0, FlushKept
    <3>3. Within(h) BY <2>9b, FlushWithin
    <3>4. helper'[h] = t BY <2>0, <3>1, ReplacedHelper
    <3> HIDE DEF t
    <3> QED BY <3>2, <3>3, <3>4, KeepingWithin
  <2>10. CASE StopFinish(h)
    <3> DEFINE t == [s EXCEPT !.pc = "loop", !.running = FALSE, !.observations = NoObservations]
    <3>1. /\ s.pc = "flushing" /\ Set(h, t) /\ disturbed' = disturbed
          /\ directory' = removed(s.instance) \/ directory' = directory
      BY <2>10 DEF StopFinish
    <3>2. helper[h].instance \notin disturbed => Kept(t, directory') BY <2>0, <3>1, FinishKept
    <3>3. t.instance = s.instance BY <2>0 DEF HelperState
    <3>4. helper'[h] = t /\ helper' = [helper EXCEPT ![h] = helper'[h]] BY <2>0, <3>1, ReplacedHelper
    <3> HIDE DEF t
    <3>5. helper'[h].instance \in disturbed' \/ Kept(helper'[h], directory') BY <3>1, <3>2, <3>3, <3>4
    <3>6. disturbed \ {s.instance} \subseteq disturbed' BY <3>1
    <3> QED BY <3>1, <3>4, <3>5, <3>6, KeepingOthers
  <2>11. CASE Crash(h)
    <3>1. Set(h, NewProcess) /\ UNCHANGED <<directory, disturbed>> BY <2>11 DEF Crash
    <3>2. ~NewProcess.running /\ ~NewProcess.scanPending /\ ~NewProcess.publishPending BY DEF NewProcess
    <3>3. Kept(NewProcess, directory') BY <3>2 DEF Kept, Single, Caught, Rested, Backed
    <3>4. helper'[h] = NewProcess /\ helper' = [helper EXCEPT ![h] = helper'[h]] BY <2>0, <3>1, ReplacedHelper
    <3>5. helper'[h].instance \in disturbed' \/ Kept(helper'[h], directory') BY <3>3, <3>4
    <3>6. disturbed \ {s.instance} \subseteq disturbed' BY <3>1
    <3> QED BY <3>1, <3>4, <3>5, <3>6, KeepingOthers
  <2> QED BY <1>2, <2>1, <2>2, <2>3, <2>4, <2>5, <2>6, <2>7, <2>8, <2>9, <2>9b, <2>10, <2>11
<1> QED BY <1>1, <1>2 DEF Next, Worker

(***************************************************************************)
(* The record of a running helper has its last activity, or the publishing *)
(* of it is under way (setActivity, requestCycle, the queued result), in   *)
(* every session whose heartbeats no slot of stop() has ended.             *)
(***************************************************************************)
THEOREM ActivityPublished == Spec => []ActivityBacked
<1>1. Init => Keeping
  <2>1. ~NewProcess.running /\ ~NewProcess.scanPending /\ ~NewProcess.publishPending BY DEF NewProcess
  <2>2. ASSUME NEW d PROVE Kept(NewProcess, d) BY <2>1 DEF Kept, Single, Caught, Rested, Backed
  <2> QED BY <2>2 DEF Init, Keeping
<1>2. IInv /\ Keeping /\ [Next]_vars => Keeping' BY StepKeeping
<1>3. ASSUME Keeping PROVE ActivityBacked
  <2> SUFFICES ASSUME NEW h \in Helpers, helper[h].running, helper[h].pc = "loop",
                      helper[h].instance \notin disturbed
               PROVE  LET s == helper[h] IN
                      \/ published(s, directory) \/ (s.cycleInFlight /\ s.publishPending)
                      \/ publishes(s, s.pending) \/ publishes(s, s.worker) \/ failed(s)
    BY DEF ActivityBacked, published, publishes, failed
  <2> QED BY <1>3 DEF Keeping, Kept, Single, Backed
<1> QED BY <1>1, <1>2, <1>3, Invariance, PTL DEF Spec
-----------------------------------------------------------------------------
(***************************************************************************)
(* The answers and the mirror of a client.  Ledger says which table an     *)
(* identifier that owes an answer is in, Fetch what the one request of the *)
(* current snapshot asks for and what the snapshot holds, Replies what a   *)
(* reply under way was computed from.                                      *)
(***************************************************************************)
Drives == Container \union {None}
IdMap(R) == UNION {[D -> R] : D \in SUBSET Nat}

Args == {None} \union [cursor : Nat, revision : Nat] \union [for : Nat, offset : Nat]
Request == [kind : {"stat", "describe", "catalog", "inspect"}, args : Args, container : Drives,
            retries : Nat, at : {"timer", "wire"}]
Inspection == [offset : Nat, started : BOOLEAN]
MirrorState == [container : Drives, revision : Nat, entries : SUBSET Path, available : BOOLEAN]

Words == {"stat", "inspect", "error"}

ClientState ==
  [account : Drives, registered : Drives, online : BOOLEAN, requests : IdMap(Request),
   inspections : IdMap(Inspection), snapshot : Snapshot \union {None}, again : BOOLEAN, due : Nat,
   mirror : MirrorState, next : Nat, answers : IdMap(Seq(Words)), owed : BOOLEAN]

Histories == [Container -> Seq(SUBSET Path)]

-----------------------------------------------------------------------------
(* Identifiers are used once; a public call is in the table of its requests or of its inspections
   until it has had its answer, and internal requests owe none. *)
Ledger(c) ==
  /\ \A id \in DOMAIN c.requests \union DOMAIN c.inspections \union DOMAIN c.answers : id < c.next
  /\ \A id \in DOMAIN c.inspections : id \in DOMAIN c.answers /\ id \notin DOMAIN c.requests
  /\ \A id \in DOMAIN c.requests : id \in DOMAIN c.answers <=> c.requests[id].kind = "stat"
  /\ \A id \in DOMAIN c.answers : Len(c.answers[id]) = IF id \in unansweredBy(c) THEN 0 ELSE 1

(* The requests that fetch the snapshot. *)
Fetching(c) == {id \in DOMAIN c.requests : c.requests[id].kind \in {"describe", "catalog"}}

(* A snapshot holds a revision of the drive's catalogue, up to its cursor. *)
Gathered(d, s, past) ==
  IF s.revision = 0 THEN s.cursor = 0 /\ s.keys = {}
  ELSE /\ s.revision <= Len(past[d]) /\ s.cursor # 0
       /\ s.keys = {p \in past[d][s.revision] : p <= s.cursor}

(* A client that is online is registered with its account's drive, and one that is not asks for nothing. *)
Settled(c) ==
  IF c.online THEN c.account # None /\ c.registered = c.account
  ELSE DOMAIN c.requests = {} /\ DOMAIN c.inspections = {} /\ c.snapshot = None

(* At most one request fetches, and for the snapshot as it is. *)
Fetch(c) ==
  /\ \A id \in DOMAIN c.requests : c.requests[id].container = c.account
  /\ c.snapshot = None => Fetching(c) = {}
  /\ \A i, j \in Fetching(c) : i = j
  /\ \A id \in DOMAIN c.requests :
       c.requests[id].kind = "catalog" =>
         c.requests[id].args = [cursor |-> c.snapshot.cursor, revision |-> c.snapshot.revision]

Whole(m, past) ==
  m.available => /\ m.container \in Container /\ m.revision \in 1..Len(past[m.container])
                 /\ m.entries = past[m.container][m.revision]

Seen(c, past) ==
  /\ c.snapshot # None => Gathered(c.account, c.snapshot, past)
  /\ Whole(c.mirror, past)

Sound(c, past) == Ledger(c) /\ Settled(c) /\ Fetch(c) /\ Seen(c, past)

(* A page was computed from a revision of the drive's catalogue and the cursor of its request. *)
Fits(q, r, past) ==
  q.kind = "catalog" /\ r.ok =>
    /\ r.container = q.container /\ r.container \in Container
    /\ r.revision \in 1..Len(past[r.container])
    /\ r.entries = pageOf(past[r.container][r.revision], q.args.cursor)
    /\ r.cursor = nextCursor(past[r.container][r.revision], q.args.cursor)

Replies(c, rs, past) ==
  \A id \in DOMAIN rs :
    /\ id \in Nat /\ id < c.next
    /\ id \in DOMAIN c.requests => c.requests[id].at = "wire" /\ Fits(c.requests[id], rs[id], past)

Type ==
  /\ reachable \in BOOLEAN /\ client \in ClientState /\ catalogs \in Histories
  /\ \A d \in Container : Len(catalogs[d]) >= 1

Inv == Sound(client, catalogs) /\ Replies(client, replies, catalogs)

CatalogInv == Type /\ Inv
-----------------------------------------------------------------------------
(* The least and the greatest of a set of numbers. *)
LEMMA Least ==
  ASSUME NEW S, S \subseteq Nat, S # {}
  PROVE  \E m \in S : \A n \in S : m <= n
<1> DEFINE R == OpToRel(<, Nat)
<1>1. \A x, y \in Nat : x < y => <<x, y>> \in R BY DEF OpToRel
<1>2. IsWellFoundedOn(R, Nat) BY NatLessThanWellFounded
<1> HIDE DEF R
<1>3. PICK m \in S : \A n \in S : ~(<<n, m>> \in R) BY <1>2, WFMin
<1>4. ASSUME NEW n \in S PROVE m <= n
  <2>1. m \in Nat /\ n \in Nat /\ ~(<<n, m>> \in R) BY <1>3
  <2>2. ~(n < m) BY <1>1, <2>1
  <2> QED BY <2>1, <2>2
<1> QED BY <1>4

LEMMA Greatest ==
  ASSUME NEW S, S \subseteq Nat, S # {}, NEW b \in Nat, \A n \in S : n <= b
  PROVE  Max(S) \in S /\ \A n \in S : n <= Max(S)
<1> DEFINE T == {b - n : n \in S}
<1>1. T \subseteq Nat /\ T # {}
  <2>1. ASSUME NEW n \in S PROVE b - n \in Nat
    <3>1. n \in Nat /\ n <= b OBVIOUS
    <3> QED BY <3>1
  <2> QED BY <2>1
<1>2. PICK t \in T : \A u \in T : t <= u BY <1>1, Least
<1>3. PICK m \in S : t = b - m BY <1>2
<1>4. \A n \in S : m >= n
  <2> TAKE n \in S
  <2>1. b - n \in T OBVIOUS
  <2> QED BY <2>1, <1>2, <1>3
<1>5. Max(S) \in S /\ \A n \in S : Max(S) >= n BY <1>4 DEF Max
<1> QED BY <1>5

(* The entries up to a path are finitely many. *)
LEMMA UpTo ==
  ASSUME NEW S, S \subseteq Nat, NEW p \in Nat
  PROVE  LET T == {o \in S : o <= p} IN IsFiniteSet(T) /\ Cardinality(T) \in Nat
<1> DEFINE T == {o \in S : o <= p}
<1>1. IsFiniteSet(0..p) BY FS_Interval
<1>2. T \subseteq 0..p
  <2>1. ASSUME NEW o \in S, o <= p PROVE o \in 0..p
    <3>1. o \in Nat OBVIOUS
    <3> QED BY <2>1, <3>1
  <2> QED BY <2>1
<1> HIDE DEF T
<1>3. IsFiniteSet(T) BY <1>1, <1>2, FS_Subset
<1>4. Cardinality(T) \in Nat BY <1>3, FS_CardinalityType
<1> QED BY <1>3, <1>4 DEF T

(* A page of the catalogue is what follows the cursor up to the next cursor, or all of it. *)
IsPage(index, cursor, entries, n) ==
  /\ n \in Nat
  /\ n = 0 => entries = {p \in index : p > cursor}
  /\ n # 0 => n > cursor /\ entries = {p \in index : p > cursor /\ p <= n}

LEMMA Page ==
  ASSUME NEW index, index \subseteq Path, NEW cursor \in Nat
  PROVE  IsPage(index, cursor, pageOf(index, cursor), nextCursor(index, cursor))
<1> DEFINE n == nextCursor(index, cursor)
           rest == {p \in index : p > cursor}
           page == pageOf(index, cursor)
           upto(p) == {o \in rest : o <= p}
<1>1. Path \subseteq Nat /\ 0 \notin Path /\ PageSize \in Nat \ {0} BY PathAssumption, CapacityAssumption
<1>2. rest \subseteq Nat BY <1>1
<1>3. page = {p \in rest : Cardinality(upto(p)) <= PageSize} BY DEF pageOf
<1>4. \A p \in rest : IsFiniteSet(upto(p)) /\ Cardinality(upto(p)) \in Nat BY <1>2, UpTo
<1>5. \A p, q \in rest : p <= q => Cardinality(upto(p)) <= Cardinality(upto(q))
  <2> TAKE p, q \in rest
  <2> HAVE p <= q
  <2>1. upto(p) \in SUBSET upto(q) BY <1>2
  <2> QED BY <2>1, <1>4, FS_Subset
<1>6. \A p, q \in rest : q \in page /\ p <= q => p \in page
  <2> SUFFICES ASSUME NEW p \in rest, NEW q \in rest, q \in page, p <= q PROVE p \in page OBVIOUS
  <2>1. Cardinality(upto(q)) <= PageSize BY <1>3
  <2>2. Cardinality(upto(p)) <= PageSize
    <3>1. Cardinality(upto(p)) \in Nat /\ Cardinality(upto(q)) \in Nat BY <1>4
    <3>2. Cardinality(upto(p)) <= Cardinality(upto(q)) BY <1>5
    <3> HIDE DEF upto
    <3> QED BY <2>1, <3>1, <3>2, <1>1
  <2> QED BY <2>2, <1>3
<1>7. rest # {} => page # {}
  <2> SUFFICES ASSUME rest # {} PROVE page # {} OBVIOUS
  <2>1. PICK m \in rest : \A o \in rest : m <= o BY <1>2, Least
  <2>2. upto(m) = {m} BY <1>2, <2>1
  <2>3. Cardinality(upto(m)) = 1 BY <2>2, FS_Singleton
  <2>4. m \in page
    <3> HIDE DEF upto
    <3> QED BY <2>3, <1>3, <1>1
  <2> QED BY <2>4
<1>8. page \subseteq rest BY <1>3
<1>9. CASE rest \subseteq page
  <2>1. n = 0 BY <1>9 DEF nextCursor
  <2>2. page = rest BY <1>9, <1>8
  <2> QED BY <2>1, <2>2 DEF IsPage
<1>10. CASE ~(rest \subseteq page)
  <2>1. PICK b \in rest : b \notin page BY <1>10
  <2>2. n = Max(page) BY <2>1 DEF nextCursor
  <2>3. \A q \in page : q <= b BY <2>1, <1>2, <1>6, <1>8
  <2>4. page # {} /\ page \subseteq Nat /\ b \in Nat BY <2>1, <1>7, <1>8, <1>2
  <2>5. n \in page /\ \A q \in page : q <= n
    <3> HIDE DEF page, n
    <3> QED BY <2>2, <2>3, <2>4, Greatest
  <2>6. n \in rest /\ n # 0 /\ n \in Nat BY <2>5, <1>8, <1>1
  <2>7. page = {p \in rest : p <= n}
    <3> HIDE DEF page, n, rest
    <3>1. \A p \in rest : p <= n => p \in page BY <2>5, <2>6, <1>6
    <3> QED BY <3>1, <2>5, <1>8
  <2>8. page = {p \in index : p > cursor /\ p <= n} BY <2>7
  <2> QED BY <2>6, <2>8 DEF IsPage
<1> QED BY <1>9, <1>10

-----------------------------------------------------------------------------
(* Tables: what one is, and what writing and striking out an entry make of it. *)
LEMMA MapIntro ==
  ASSUME NEW R, NEW D \in SUBSET Nat, NEW f \in [D -> R]
  PROVE  f \in IdMap(R)
BY DEF IdMap

LEMMA MapElim ==
  ASSUME NEW R, NEW f \in IdMap(R)
  PROVE  DOMAIN f \in SUBSET Nat /\ f \in [DOMAIN f -> R] /\ \A x \in DOMAIN f : f[x] \in R
<1>1. PICK D \in SUBSET Nat : f \in [D -> R] BY DEF IdMap
<1> QED BY <1>1

LEMMA MapEmpty == ASSUME NEW R PROVE Empty \in IdMap(R) /\ DOMAIN Empty = {}
<1>1. Empty \in [{} -> R] /\ DOMAIN Empty = {} BY DEF Empty
<1> QED BY <1>1, MapIntro

(* An entry is inserted. *)
IsPut(R, f, k, v, g) ==
  /\ g \in IdMap(R) /\ DOMAIN g = DOMAIN f \union {k} /\ g[k] = v
  /\ \A x \in DOMAIN f : x # k => g[x] = f[x]

LEMMA MapPut ==
  ASSUME NEW R, NEW f \in IdMap(R), NEW k \in Nat, NEW v \in R
  PROVE  IsPut(R, f, k, v, insert(f, k, v))
<1> DEFINE g == insert(f, k, v)
<1>1. DOMAIN f \in SUBSET Nat /\ \A x \in DOMAIN f : f[x] \in R BY MapElim
<1>2. g = [x \in DOMAIN f \union {k} |-> IF x = k THEN v ELSE f[x]] BY DEF insert
<1>3. g \in [DOMAIN f \union {k} -> R] BY <1>1, <1>2
<1>4. g \in IdMap(R) BY <1>1, <1>3, MapIntro
<1> QED BY <1>2, <1>4 DEF IsPut

(* An entry is struck out. *)
IsCut(R, f, k, g) ==
  /\ g \in IdMap(R) /\ DOMAIN g = DOMAIN f \ {k}
  /\ \A x \in DOMAIN f : x # k => g[x] = f[x]

LEMMA MapCut ==
  ASSUME NEW R, NEW f \in IdMap(R), NEW k
  PROVE  IsCut(R, f, k, Restrict(f, DOMAIN f \ {k}))
<1> DEFINE g == Restrict(f, DOMAIN f \ {k})
<1>1. DOMAIN f \in SUBSET Nat /\ \A x \in DOMAIN f : f[x] \in R BY MapElim
<1>2. g = [x \in DOMAIN f \ {k} |-> f[x]] BY DEF Restrict
<1>3. g \in [DOMAIN f \ {k} -> R] BY <1>1, <1>2
<1>4. g \in IdMap(R) BY <1>1, <1>3, MapIntro
<1> QED BY <1>2, <1>4 DEF IsCut

(* An entry is overwritten, where there is one. *)
IsSet(R, f, k, v, g) ==
  /\ g \in IdMap(R) /\ DOMAIN g = DOMAIN f /\ (k \in DOMAIN f => g[k] = v)
  /\ \A x \in DOMAIN f : x # k => g[x] = f[x]

LEMMA MapSet ==
  ASSUME NEW R, NEW f \in IdMap(R), NEW k, NEW v, k \in DOMAIN f => v \in R
  PROVE  IsSet(R, f, k, v, [f EXCEPT ![k] = v])
<1> DEFINE g == [f EXCEPT ![k] = v]
<1>1. DOMAIN f \in SUBSET Nat /\ f \in [DOMAIN f -> R] BY MapElim
<1>2. g \in [DOMAIN f -> R] BY <1>1
<1>3. g \in IdMap(R) BY <1>1, <1>2, MapIntro
<1> QED BY <1>1, <1>2, <1>3 DEF IsSet

-----------------------------------------------------------------------------
(* What a step may do to the requests a client has: end some, and issue new ones. *)
Frame(c, g) ==
  /\ g.next >= c.next
  /\ \A id \in DOMAIN g.requests : id >= c.next \/ (id \in DOMAIN c.requests /\ g.requests[id] = c.requests[id])

LEMMA FrameTrans ==
  ASSUME NEW c \in ClientState, NEW f \in ClientState, NEW g \in ClientState, Frame(c, f), Frame(f, g)
  PROVE  Frame(c, g)
<1>1. c.next \in Nat /\ f.next \in Nat /\ g.next \in Nat /\ g.requests \in IdMap(Request) BY DEF ClientState
<1>2. DOMAIN g.requests \in SUBSET Nat BY <1>1, MapElim
<1> QED BY <1>1, <1>2 DEF Frame

LEMMA FrameSame ==
  ASSUME NEW c \in ClientState, NEW g, g.next = c.next, g.requests = c.requests
  PROVE  Frame(c, g)
BY DEF Frame, ClientState

(* The two clients have the same requests, calls and answers. *)
Agree(c, g) ==
  /\ g.account = c.account /\ g.registered = c.registered /\ g.online = c.online
  /\ g.requests = c.requests /\ DOMAIN g.inspections = DOMAIN c.inspections
  /\ g.next = c.next /\ g.answers = c.answers

LEMMA AgreeSound ==
  ASSUME NEW h, NEW c \in ClientState, NEW g \in ClientState, Agree(c, g), Sound(c, h), Seen(g, h),
         c.online \/ g.snapshot = None, Fetching(c) = {} \/ g.snapshot = c.snapshot
  PROVE  Sound(g, h) /\ Frame(c, g)
<1> USE DEF Agree
<1>1. Fetching(g) = Fetching(c) BY DEF Fetching
<1>2. Ledger(g)
  <2>1. unansweredBy(g) = unansweredBy(c) BY DEF unansweredBy
  <2> QED BY <2>1 DEF Ledger, Sound
<1>3. Settled(g) BY DEF Settled, Sound
<1>4. Fetch(g)
  <2>1. CASE g.snapshot = c.snapshot BY <2>1, <1>1 DEF Fetch, Sound
  <2>2. CASE Fetching(c) = {}
    <3>1. \A id \in DOMAIN g.requests : g.requests[id].kind # "catalog" BY <2>2 DEF Fetching
    <3> QED BY <3>1, <2>2, <1>1 DEF Fetch, Sound
  <2> QED BY <2>1, <2>2
<1>5. Frame(c, g) BY FrameSame
<1> QED BY <1>2, <1>3, <1>4, <1>5 DEF Sound

(* A request is issued. *)
NewRequest(c, kind, args) ==
  [kind |-> kind, args |-> args, container |-> c.account, retries |-> 0, at |-> "timer"]

Issued(c, q, g) ==
  /\ g \in ClientState /\ g.next = c.next + 1 /\ c.next \in Nat
  /\ DOMAIN g.requests = DOMAIN c.requests \union {c.next} /\ g.requests[c.next] = q
  /\ \A x \in DOMAIN c.requests : x # c.next => g.requests[x] = c.requests[x]
  /\ g.account = c.account /\ g.registered = c.registered /\ g.online = c.online
  /\ g.inspections = c.inspections /\ g.answers = c.answers
  /\ g.snapshot = c.snapshot /\ g.mirror = c.mirror

LEMMA RequestStep ==
  ASSUME NEW c \in ClientState, NEW kind \in {"stat", "describe", "catalog", "inspect"}, NEW args \in Args
  PROVE  Issued(c, NewRequest(c, kind, args), requestDrive(c, kind, args))
<1> DEFINE q == [kind |-> kind, args |-> args, container |-> c.account, retries |-> 0, at |-> "timer"]
           n == c.next + 1
           t == insert(c.requests, c.next, q)
           g == requestDrive(c, kind, args)
<1>1. c.next \in Nat /\ n \in Nat /\ c.requests \in IdMap(Request) /\ q \in Request BY DEF ClientState, Request
<1>2. /\ t \in IdMap(Request) /\ DOMAIN t = DOMAIN c.requests \union {c.next} /\ t[c.next] = q
      /\ \A x \in DOMAIN c.requests : x # c.next => t[x] = c.requests[x]
  <2> HIDE DEF q
  <2>1. IsPut(Request, c.requests, c.next, q, t) BY <1>1, MapPut
  <2> QED BY <2>1 DEF IsPut
<1>3. g = [c EXCEPT !.next = n, !.requests = t] BY DEF requestDrive
<1> HIDE DEF n, t, g
<1>4. /\ g \in ClientState /\ g.next = n /\ g.requests = t
      /\ g.account = c.account /\ g.registered = c.registered /\ g.online = c.online
      /\ g.inspections = c.inspections /\ g.answers = c.answers
      /\ g.snapshot = c.snapshot /\ g.mirror = c.mirror
  BY <1>1, <1>2, <1>3 DEF ClientState
<1> QED BY <1>1, <1>2, <1>4 DEF n, g, Issued, NewRequest

LEMMA InternalSound ==
  ASSUME NEW h, NEW c \in ClientState, NEW kind \in {"describe", "catalog", "inspect"}, NEW args \in Args,
         Sound(c, h), c.online,
         kind # "inspect" => Fetching(c) = {} /\ c.snapshot # None,
         kind = "catalog" => args = [cursor |-> c.snapshot.cursor, revision |-> c.snapshot.revision]
  PROVE  LET g == requestDrive(c, kind, args) IN g \in ClientState /\ Sound(g, h) /\ Frame(c, g)
<1> DEFINE g == requestDrive(c, kind, args)
           q == NewRequest(c, kind, args)
<1>0. Issued(c, q, g) BY RequestStep
<1>1. /\ g \in ClientState /\ g.next = c.next + 1 /\ c.next \in Nat
      /\ DOMAIN g.requests = DOMAIN c.requests \union {c.next} /\ g.requests[c.next] = q
      /\ \A x \in DOMAIN c.requests : x # c.next => g.requests[x] = c.requests[x]
      /\ g.account = c.account /\ g.registered = c.registered /\ g.online = c.online
      /\ g.inspections = c.inspections /\ g.answers = c.answers
      /\ g.snapshot = c.snapshot /\ g.mirror = c.mirror
  BY <1>0 DEF Issued
<1> HIDE DEF g
<1>a. q.kind = kind /\ q.args = args /\ q.container = c.account BY DEF NewRequest
<1> HIDE DEF q
<1>2. /\ DOMAIN c.requests \subseteq Nat /\ DOMAIN c.inspections \subseteq Nat /\ DOMAIN c.answers \subseteq Nat
  <2>1. c.requests \in IdMap(Request) /\ c.inspections \in IdMap(Inspection) /\ c.answers \in IdMap(Seq(Words))
    BY DEF ClientState
  <2> QED BY <2>1, MapElim
<1>3. /\ c.next \notin DOMAIN c.requests /\ c.next \notin DOMAIN c.inspections /\ c.next \notin DOMAIN c.answers
      /\ \A x \in DOMAIN c.requests : g.requests[x] = c.requests[x]
  BY <1>1, <1>2 DEF Sound, Ledger
<1>4. Ledger(g)
  <2>1. unansweredBy(g) = unansweredBy(c) BY <1>1, <1>3 DEF unansweredBy
  <2>2. \A id \in DOMAIN g.requests \union DOMAIN g.inspections \union DOMAIN g.answers : id < g.next
    BY <1>1, <1>2 DEF Sound, Ledger
  <2>3. \A id \in DOMAIN g.inspections : id \in DOMAIN g.answers /\ id \notin DOMAIN g.requests
    BY <1>1, <1>3 DEF Sound, Ledger
  <2>4. \A id \in DOMAIN g.requests : id \in DOMAIN g.answers <=> g.requests[id].kind = "stat"
    BY <1>1, <1>3, <1>a DEF Sound, Ledger
  <2> QED BY <1>1, <2>1, <2>2, <2>3, <2>4 DEF Sound, Ledger
<1>5. Settled(g) BY <1>1 DEF Sound, Settled
<1>6. Fetch(g)
  <2>1. \A id \in DOMAIN g.requests : g.requests[id].container = g.account
    BY <1>1, <1>3, <1>a DEF Sound, Fetch
  <2>2. Fetching(g) \subseteq Fetching(c) \union {c.next} /\ (kind = "inspect" => Fetching(g) = Fetching(c))
    BY <1>1, <1>3, <1>a DEF Fetching
  <2>3. (g.snapshot = None => Fetching(g) = {}) /\ \A i, j \in Fetching(g) : i = j
    BY <2>2, <1>1 DEF Sound, Fetch
  <2>4. \A id \in DOMAIN g.requests :
          g.requests[id].kind = "catalog" =>
            g.requests[id].args = [cursor |-> g.snapshot.cursor, revision |-> g.snapshot.revision]
    BY <1>1, <1>3, <1>a DEF Sound, Fetch
  <2> QED BY <2>1, <2>3, <2>4 DEF Fetch
<1>7. Seen(g, h) BY <1>1 DEF Sound, Seen
<1>8. Frame(c, g) BY <1>1, <1>3 DEF Frame
<1> QED BY <1>1, <1>4, <1>5, <1>6, <1>7, <1>8 DEF Sound, g

(* g is what an event may make of the client c. *)
Safe(c, g, h) == g \in ClientState /\ Sound(g, h) /\ Frame(c, g)

LEMMA SafeTrans ==
  ASSUME NEW h, NEW c \in ClientState, NEW f, NEW g, Safe(c, f, h), Safe(f, g, h)
  PROVE  Safe(c, g, h)
BY FrameTrans DEF Safe

LEMMA SafeSame == ASSUME NEW h, NEW c \in ClientState, Sound(c, h) PROVE Safe(c, c, h)
BY FrameSame DEF Safe

-----------------------------------------------------------------------------
(* The snapshot. *)
LEMMA FinishStep ==
  ASSUME NEW c \in ClientState, NEW ok \in BOOLEAN, c.snapshot # None
  PROVE  LET g == finishSnapshot(c, ok) IN
         /\ g \in ClientState /\ Agree(c, g) /\ g.snapshot = None
         /\ g.mirror = [container |-> c.account, revision |-> c.snapshot.revision,
                        entries |-> IF ok THEN c.snapshot.keys ELSE {}, available |-> ok]
<1> DEFINE m == [container |-> c.account, revision |-> c.snapshot.revision,
                 entries |-> IF ok THEN c.snapshot.keys ELSE {}, available |-> ok]
           u == IF c.again THEN c.due + 1 ELSE c.due
           g == finishSnapshot(c, ok)
<1>1. c.snapshot \in Snapshot /\ c.account \in Drives /\ c.due \in Nat BY DEF ClientState
<1>2. m \in MirrorState BY <1>1 DEF MirrorState, Snapshot
<1>3. u \in Nat BY <1>1
<1>4. g = [c EXCEPT !.snapshot = None, !.mirror = m, !.due = u, !.again = FALSE] BY DEF finishSnapshot
<1> HIDE DEF m, u, g
<1>5. g \in ClientState BY <1>2, <1>3, <1>4 DEF ClientState
<1>6. Agree(c, g) /\ g.snapshot = None /\ g.mirror = m BY <1>4 DEF ClientState, Agree
<1> QED BY <1>5, <1>6 DEF g, m

LEMMA FinishSound ==
  ASSUME NEW h, NEW c \in ClientState, NEW ok \in BOOLEAN, Sound(c, h), Fetching(c) = {}, c.snapshot # None,
         ok => /\ c.account \in Container /\ c.snapshot.revision \in 1..Len(h[c.account])
               /\ c.snapshot.keys = h[c.account][c.snapshot.revision]
  PROVE  Safe(c, finishSnapshot(c, ok), h)
<1> DEFINE g == finishSnapshot(c, ok)
           m == [container |-> c.account, revision |-> c.snapshot.revision,
                 entries |-> IF ok THEN c.snapshot.keys ELSE {}, available |-> ok]
<1>1. g \in ClientState /\ Agree(c, g) /\ g.snapshot = None /\ g.mirror = m BY FinishStep
<1>2. Whole(m, h) BY DEF Whole
<1> HIDE DEF g, m
<1>3. Seen(g, h) BY <1>1, <1>2 DEF Seen
<1>4. Sound(g, h) /\ Frame(c, g) BY <1>1, <1>3, AgreeSound
<1> QED BY <1>1, <1>4 DEF Safe, g

LEMMA PageSound ==
  ASSUME NEW h, NEW c \in ClientState, Sound(c, h), Fetching(c) = {}, c.snapshot # None, c.online
  PROVE  Safe(c, catalogPage(c), h)
<1> DEFINE args == [cursor |-> c.snapshot.cursor, revision |-> c.snapshot.revision]
<1>1. args \in Args BY DEF ClientState, Snapshot, Args
<1>2. CASE refused(c) BY <1>2, FinishSound DEF catalogPage
<1>3. CASE ~refused(c)
  <2>1. catalogPage(c) = requestDrive(c, "catalog", args) BY <1>3 DEF catalogPage
  <2> QED BY <2>1, <1>1, InternalSound DEF Safe
<1> QED BY <1>2, <1>3

LEMMA RefreshSound ==
  ASSUME NEW h, NEW c \in ClientState, Sound(c, h)
  PROVE  Safe(c, refreshHost(c), h)
<1> DEFINE e == [c EXCEPT !.again = TRUE, !.owed = TRUE]
           s == [c EXCEPT !.snapshot = NewSnapshot, !.owed = FALSE]
<1>1. CASE ~connected(c) BY <1>1, SafeSame DEF refreshHost
<1>2. CASE connected(c) /\ c.snapshot # None
  <2>1. refreshHost(c) = e BY <1>2 DEF refreshHost
  <2>2. e \in ClientState BY DEF ClientState
  <2>3. Agree(c, e) /\ e.snapshot = c.snapshot /\ e.mirror = c.mirror BY DEF ClientState, Agree
  <2>4. c.online BY <1>2 DEF connected
  <2> HIDE DEF e
  <2>5. Seen(e, h) BY <2>3 DEF Seen, Sound, Agree
  <2>6. Sound(e, h) /\ Frame(c, e) BY <2>2, <2>3, <2>4, <2>5, AgreeSound
  <2> QED BY <2>1, <2>2, <2>6 DEF Safe
<1>3. CASE connected(c) /\ c.snapshot = None
  <2>1. refreshHost(c) = IF refused(c) THEN finishSnapshot(s, FALSE) ELSE requestDrive(s, "describe", None)
    BY <1>3 DEF refreshHost
  <2>2. NewSnapshot \in Snapshot /\ NewSnapshot.revision = 0 /\ NewSnapshot.cursor = 0 /\ NewSnapshot.keys = {}
    BY DEF NewSnapshot, Snapshot
  <2>3. NewSnapshot # None BY <2>2, NoneAssumption
  <2>4. s \in ClientState BY <2>2 DEF ClientState
  <2>5. Agree(c, s) /\ s.snapshot = NewSnapshot /\ s.mirror = c.mirror BY DEF ClientState, Agree
  <2>6. c.online BY <1>3 DEF connected
  <2> HIDE DEF s
  <2>7. Seen(s, h) BY <2>2, <2>5 DEF Seen, Sound, Agree, Gathered
  <2>8. Fetching(c) = {} BY <1>3 DEF Sound, Fetch
  <2>9. Sound(s, h) /\ Frame(c, s) BY <2>4, <2>5, <2>6, <2>7, <2>8, AgreeSound
  <2>10. Safe(c, s, h) BY <2>4, <2>9 DEF Safe
  <2>11. Fetching(s) = {} /\ s.online /\ s.snapshot # None BY <2>3, <2>5, <2>6, <2>8 DEF Fetching, Agree
  <2>12. Safe(s, finishSnapshot(s, FALSE), h) BY <2>4, <2>9, <2>11, FinishSound
  <2>13. Safe(s, requestDrive(s, "describe", None), h)
    <3>1. None \in Args BY DEF Args
    <3> QED BY <3>1, <2>4, <2>9, <2>11, InternalSound DEF Safe
  <2>14. Safe(s, refreshHost(c), h) BY <2>1, <2>12, <2>13
  <2> QED BY <2>10, <2>14, SafeTrans
<1> QED BY <1>1, <1>2, <1>3

(* A page extends the snapshot, and the last one makes it whole. *)
LEMMA PageArrives ==
  ASSUME NEW h \in Histories, NEW d \in Container, NEW s \in Snapshot, NEW r, Gathered(d, s, h),
         r.revision \in 1..Len(h[d]), s.revision \in {0, r.revision},
         r.entries = pageOf(h[d][r.revision], s.cursor), r.cursor = nextCursor(h[d][r.revision], s.cursor)
  PROVE  LET t == [revision |-> r.revision, cursor |-> r.cursor, keys |-> s.keys \union r.entries] IN
         /\ t \in Snapshot /\ t.revision = r.revision /\ t.cursor = r.cursor /\ t # None
         /\ r.cursor = 0 => t.keys = h[d][r.revision]
         /\ r.cursor # 0 => Gathered(d, t, h)
<1> DEFINE index == h[d][r.revision]
           t == [revision |-> r.revision, cursor |-> r.cursor, keys |-> s.keys \union r.entries]
<1>1. s.cursor \in Nat /\ s.revision \in Nat /\ s.keys \subseteq Path BY DEF Snapshot
<1>2. h[d] \in Seq(SUBSET Path) /\ Len(h[d]) \in Nat BY DEF Histories
<1>3. r.revision \in Nat /\ r.revision # 0 /\ r.revision <= Len(h[d]) /\ index \subseteq Path BY <1>2
<1>4. Path \subseteq Nat /\ 0 \notin Path BY PathAssumption
<1>5. s.keys = {p \in index : p <= s.cursor}
  <2>1. CASE s.revision = 0
    <3>1. s.cursor = 0 /\ s.keys = {} BY <2>1 DEF Gathered
    <3>2. ASSUME NEW p \in index PROVE ~(p <= 0)
      <4>1. p \in Nat /\ p # 0 BY <1>3, <1>4
      <4> QED BY <4>1
    <3> QED BY <3>1, <3>2
  <2>2. CASE s.revision # 0
    <3>1. s.revision = r.revision BY <2>2
    <3>2. s.keys = {p \in h[d][s.revision] : p <= s.cursor} BY <2>2 DEF Gathered
    <3> QED BY <3>1, <3>2
  <2> QED BY <2>1, <2>2
<1>6. /\ r.cursor \in Nat
      /\ r.cursor = 0 => r.entries = {p \in index : p > s.cursor}
      /\ r.cursor # 0 => r.cursor > s.cursor /\ r.entries = {p \in index : p > s.cursor /\ p <= r.cursor}
  <2> HIDE DEF index
  <2>1. index \subseteq Path /\ s.cursor \in Nat BY <1>1, <1>3
  <2>2. r.entries = pageOf(index, s.cursor) /\ r.cursor = nextCursor(index, s.cursor) BY DEF index
  <2>3. IsPage(index, s.cursor, pageOf(index, s.cursor), nextCursor(index, s.cursor)) BY <2>1, Page
  <2> QED BY <2>2, <2>3 DEF IsPage
<1>7. index \subseteq Nat BY <1>3, <1>4
<1>8. r.cursor = 0 => s.keys \union r.entries = index
  <2> HIDE DEF index
  <2>1. \A p \in index : p <= s.cursor \/ p > s.cursor BY <1>1, <1>7
  <2>2. r.cursor = 0 => r.entries = {p \in index : p > s.cursor} BY <1>6
  <2> QED BY <2>1, <2>2, <1>5
<1>9. r.cursor # 0 => s.keys \union r.entries = {p \in index : p <= r.cursor}
  <2> HIDE DEF index
  <2>1. ASSUME r.cursor # 0, NEW p \in index PROVE p <= r.cursor <=> p \in s.keys \union r.entries
    <3>1. p \in Nat /\ r.cursor \in Nat /\ s.cursor \in Nat /\ r.cursor > s.cursor BY <1>1, <1>6, <1>7, <2>1
    <3> QED BY <3>1, <2>1, <1>5, <1>6
  <2>2. s.keys \subseteq index /\ (r.cursor # 0 => r.entries \subseteq index) BY <1>5, <1>6
  <2> QED BY <2>1, <2>2
<1>10. s.keys \union r.entries \subseteq Path
  <2>1. r.entries \subseteq index BY <1>6
  <2> QED BY <1>1, <1>3, <2>1
<1>11. t \in Snapshot BY <1>3, <1>6, <1>10 DEF Snapshot
<1>12. t # None BY <1>11, NoneAssumption
<1>13. ASSUME r.cursor # 0 PROVE Gathered(d, t, h)
  <2>1. t.revision = r.revision /\ t.cursor = r.cursor /\ t.keys = s.keys \union r.entries OBVIOUS
  <2> HIDE DEF t
  <2> QED BY <2>1, <1>3, <1>9, <1>13 DEF Gathered
<1> QED BY <1>8, <1>11, <1>12, <1>13

LEMMA CatalogSound ==
  ASSUME NEW h \in Histories, NEW c \in ClientState, NEW r, Sound(c, h), Fetching(c) = {}, c.snapshot # None,
         c.online,
         r.ok => /\ c.account \in Container /\ r.revision \in 1..Len(h[c.account])
                 /\ r.entries = pageOf(h[c.account][r.revision], c.snapshot.cursor)
                 /\ r.cursor = nextCursor(h[c.account][r.revision], c.snapshot.cursor)
  PROVE  Safe(c, catalogued(c, r), h)
<1> DEFINE t == [revision |-> r.revision, cursor |-> r.cursor, keys |-> c.snapshot.keys \union r.entries]
           g == [c EXCEPT !.snapshot = t]
<1>1. CASE ~r.ok \/ ~validPage(c.snapshot, r)
  <2>1. catalogued(c, r) = finishSnapshot(c, FALSE) BY <1>1 DEF catalogued
  <2> QED BY <2>1, FinishSound
<1>2. CASE r.ok /\ validPage(c.snapshot, r)
  <2>1. catalogued(c, r) = IF r.cursor = 0 THEN finishSnapshot(g, TRUE) ELSE catalogPage(g)
    BY <1>2 DEF catalogued
  <2>2. c.snapshot \in Snapshot BY DEF ClientState
  <2>3. Gathered(c.account, c.snapshot, h) BY DEF Sound, Seen
  <2>4. c.snapshot.revision \in {0, r.revision} BY <1>2 DEF validPage
  <2>5. /\ t \in Snapshot /\ t.revision = r.revision /\ t.cursor = r.cursor /\ t # None
        /\ r.cursor = 0 => t.keys = h[c.account][r.revision]
        /\ r.cursor # 0 => Gathered(c.account, t, h)
    BY <1>2, <2>2, <2>3, <2>4, PageArrives
  <2> HIDE DEF t
  <2>6. g \in ClientState BY <2>5 DEF ClientState
  <2>7. Agree(c, g) /\ g.snapshot = t /\ g.mirror = c.mirror /\ g.online BY DEF ClientState, Agree
  <2> HIDE DEF g
  <2>8. Fetching(g) = {} BY <2>7 DEF Agree, Fetching
  <2>9. CASE r.cursor # 0
    <3>1. Seen(g, h) BY <2>5, <2>7, <2>9 DEF Seen, Sound, Agree
    <3>2. Sound(g, h) /\ Frame(c, g) BY <2>6, <2>7, <3>1, AgreeSound
    <3>3. Safe(c, g, h) BY <2>6, <3>2 DEF Safe
    <3>4. Safe(g, catalogPage(g), h) BY <2>5, <2>6, <2>7, <2>8, <3>2, PageSound
    <3> QED BY <3>3, <3>4, <2>1, <2>9, SafeTrans
  <2>10. CASE r.cursor = 0
    <3> DEFINE f == finishSnapshot(g, TRUE)
               m == [container |-> g.account, revision |-> g.snapshot.revision,
                     entries |-> g.snapshot.keys, available |-> TRUE]
    <3>1. f \in ClientState /\ Agree(g, f) /\ f.snapshot = None /\ f.mirror = m BY <2>5, <2>6, <2>7, FinishStep
    <3>2. g.account = c.account BY <2>7 DEF Agree
    <3>3. Whole(m, h) BY <1>2, <2>5, <2>7, <2>10, <3>2 DEF Whole
    <3> HIDE DEF f, m
    <3>4. Seen(f, h) BY <3>1, <3>3 DEF Seen
    <3>5. Agree(c, f) BY <2>7, <3>1 DEF Agree
    <3>6. Sound(f, h) /\ Frame(c, f) BY <3>1, <3>4, <3>5, AgreeSound
    <3> QED BY <2>1, <2>10, <3>1, <3>6 DEF Safe, f
  <2> QED BY <2>9, <2>10
<1> QED BY <1>1, <1>2

-----------------------------------------------------------------------------
(* Answers. *)
Domains(c) == DOMAIN c.requests \subseteq Nat /\ DOMAIN c.inspections \subseteq Nat /\ DOMAIN c.answers \subseteq Nat

LEMMA Tables ==
  ASSUME NEW c \in ClientState
  PROVE  /\ c.requests \in IdMap(Request) /\ c.inspections \in IdMap(Inspection) /\ c.answers \in IdMap(Seq(Words))
         /\ Domains(c)
<1>1. c.requests \in IdMap(Request) /\ c.inspections \in IdMap(Inspection) /\ c.answers \in IdMap(Seq(Words))
  BY DEF ClientState
<1> QED BY <1>1, MapElim DEF Domains

(* id has one answer more. *)
Told(c, id, g) ==
  /\ g \in ClientState /\ DOMAIN g.answers = DOMAIN c.answers
  /\ Len(g.answers[id]) = Len(c.answers[id]) + 1
  /\ \A x \in DOMAIN c.answers : x # id => g.answers[x] = c.answers[x]
  /\ g.account = c.account /\ g.registered = c.registered /\ g.online = c.online /\ g.next = c.next
  /\ g.requests = c.requests /\ g.inspections = c.inspections
  /\ g.snapshot = c.snapshot /\ g.mirror = c.mirror

LEMMA EmitStep ==
  ASSUME NEW c \in ClientState, NEW id \in DOMAIN c.answers, NEW answer \in Words
  PROVE  Told(c, id, emit(c, id, answer))
<1> DEFINE v == Append(c.answers[id], answer)
           t == [c.answers EXCEPT ![id] = v]
           g == emit(c, id, answer)
<1>1. c.answers \in IdMap(Seq(Words)) BY DEF ClientState
<1>2. c.answers[id] \in Seq(Words) BY <1>1, MapElim
<1>3. v \in Seq(Words) /\ Len(v) = Len(c.answers[id]) + 1 BY <1>2, AppendProperties
<1> HIDE DEF v
<1>4. IsSet(Seq(Words), c.answers, id, v, t) BY <1>1, <1>3, MapSet
<1>5. g = [c EXCEPT !.answers = t] BY DEF emit, v
<1> HIDE DEF t, g
<1>6. t \in IdMap(Seq(Words)) BY <1>4 DEF IsSet
<1>7. /\ g \in ClientState /\ g.answers = t
      /\ g.account = c.account /\ g.registered = c.registered /\ g.online = c.online /\ g.next = c.next
      /\ g.requests = c.requests /\ g.inspections = c.inspections
      /\ g.snapshot = c.snapshot /\ g.mirror = c.mirror
  BY <1>5, <1>6 DEF ClientState
<1> QED BY <1>3, <1>4, <1>7 DEF Told, IsSet, g

(* The table of requests without id. *)
Removed(c, id) == [c EXCEPT !.requests = Restrict(@, DOMAIN @ \ {id})]
Gone(c, id, g) ==
  /\ g \in ClientState /\ DOMAIN g.requests = DOMAIN c.requests \ {id}
  /\ \A x \in DOMAIN c.requests : x # id => g.requests[x] = c.requests[x]
  /\ g.account = c.account /\ g.registered = c.registered /\ g.online = c.online /\ g.next = c.next
  /\ g.inspections = c.inspections /\ g.answers = c.answers
  /\ g.snapshot = c.snapshot /\ g.mirror = c.mirror

LEMMA RemovedStep == ASSUME NEW c \in ClientState, NEW id PROVE Gone(c, id, Removed(c, id))
<1> DEFINE t == Restrict(c.requests, DOMAIN c.requests \ {id})
           g == Removed(c, id)
<1>1. IsCut(Request, c.requests, id, t) BY Tables, MapCut
<1>2. g = [c EXCEPT !.requests = t] BY DEF Removed
<1> HIDE DEF t, g
<1>3. t \in IdMap(Request) BY <1>1 DEF IsCut
<1>4. /\ g \in ClientState /\ g.requests = t
      /\ g.account = c.account /\ g.registered = c.registered /\ g.online = c.online /\ g.next = c.next
      /\ g.inspections = c.inspections /\ g.answers = c.answers
      /\ g.snapshot = c.snapshot /\ g.mirror = c.mirror
  BY <1>2, <1>3 DEF ClientState
<1> QED BY <1>1, <1>4 DEF Gone, IsCut, g

(* What striking out a request leaves alone, whoever asked for it. *)
LEMMA GoneFetch ==
  ASSUME NEW h, NEW c \in ClientState, Sound(c, h), NEW id \in DOMAIN c.requests, NEW g, Gone(c, id, g)
  PROVE  Settled(g) /\ Fetch(g) /\ Seen(g, h) /\ Frame(c, g) /\ Fetching(g) = Fetching(c) \ {id}
<1> USE DEF Gone, Sound
<1>1. Settled(g) BY DEF Settled
<1>2. Fetching(g) = Fetching(c) \ {id} BY DEF Fetching
<1>3. Fetch(g) BY <1>2 DEF Fetch
<1>4. Seen(g, h) BY DEF Seen
<1>5. Frame(c, g)
  <2>1. c.next \in Nat BY DEF ClientState
  <2> QED BY <2>1 DEF Frame
<1> QED BY <1>1, <1>2, <1>3, <1>4, <1>5

LEMMA InternalGone ==
  ASSUME NEW h, NEW c \in ClientState, Sound(c, h), NEW id \in DOMAIN c.requests, c.requests[id].kind # "stat"
  PROVE  Safe(c, Removed(c, id), h)
<1> DEFINE g == Removed(c, id)
<1>1. Gone(c, id, g) BY RemovedStep
<1> HIDE DEF g
<1>2. Settled(g) /\ Fetch(g) /\ Seen(g, h) /\ Frame(c, g) BY <1>1, GoneFetch
<1>3. Ledger(g)
  <2>1. id \notin DOMAIN c.answers BY DEF Sound, Ledger
  <2>2. unansweredBy(g) = unansweredBy(c) BY <1>1, <2>1 DEF unansweredBy, Gone
  <2> QED BY <1>1, <2>2 DEF Gone, Ledger, Sound
<1> QED BY <1>1, <1>2, <1>3 DEF Safe, Sound, Gone, g

LEMMA CallAnswered ==
  ASSUME NEW h, NEW c \in ClientState, Sound(c, h), NEW id \in DOMAIN c.requests, c.requests[id].kind = "stat",
         NEW answer \in Words
  PROVE  Safe(c, emit(Removed(c, id), id, answer), h)
<1> DEFINE f == Removed(c, id)
           g == emit(f, id, answer)
<1>1. Gone(c, id, f) BY RemovedStep
<1> HIDE DEF f
<1>2. Settled(f) /\ Fetch(f) /\ Seen(f, h) /\ Frame(c, f) BY <1>1, GoneFetch
<1>3. id \in DOMAIN c.answers BY DEF Sound, Ledger
<1>4. f \in ClientState /\ f.answers = c.answers BY <1>1 DEF Gone
<1>5. Told(f, id, g) BY <1>3, <1>4, EmitStep
<1> HIDE DEF g
<1>6. Settled(g) BY <1>2, <1>5 DEF Told, Settled
<1>7. Fetch(g)
  <2>1. Fetching(g) = Fetching(f) BY <1>5 DEF Told, Fetching
  <2> QED BY <1>2, <1>5, <2>1 DEF Told, Fetch
<1>8. Seen(g, h) BY <1>2, <1>5 DEF Told, Seen
<1>9. Frame(c, g) BY <1>2, <1>5 DEF Told, Frame
<1>10. Ledger(g)
  <2>1. unansweredBy(c) = unansweredBy(g) \union {id} /\ id \notin unansweredBy(g)
    BY <1>1, <1>3, <1>5 DEF unansweredBy, Gone, Told, Sound, Ledger
  <2>2. Len(c.answers[id]) = 0 BY <1>3, <2>1 DEF Sound, Ledger
  <2>3. \A x \in DOMAIN g.answers : Len(g.answers[x]) = IF x \in unansweredBy(g) THEN 0 ELSE 1
    <3>1. Len(g.answers[id]) = 1 /\ DOMAIN g.answers = DOMAIN c.answers BY <1>4, <1>5, <2>2 DEF Told
    <3>2. \A x \in DOMAIN c.answers : x # id => g.answers[x] = c.answers[x] BY <1>4, <1>5 DEF Told
    <3> QED BY <2>1, <3>1, <3>2 DEF Sound, Ledger
  <2> QED BY <1>1, <1>5, <2>3 DEF Gone, Told, Ledger, Sound
<1> QED BY <1>5, <1>6, <1>7, <1>8, <1>9, <1>10 DEF Safe, Sound, Told, g, f

-----------------------------------------------------------------------------
(* Inspections. *)
LEMMA InspectionAnswered ==
  ASSUME NEW h, NEW c \in ClientState, Sound(c, h), NEW i, NEW answer \in Words
  PROVE  Safe(c, finishInspection(c, i, answer), h)
<1> DEFINE t == Restrict(c.inspections, DOMAIN c.inspections \ {i})
           f == [c EXCEPT !.inspections = t]
           g == emit(f, i, answer)
<1>1. CASE i \notin DOMAIN c.inspections BY <1>1, SafeSame DEF finishInspection
<1>2. CASE i \in DOMAIN c.inspections
  <2>1. finishInspection(c, i, answer) = g BY <1>2 DEF finishInspection
  <2>2. IsCut(Inspection, c.inspections, i, t) BY Tables, MapCut
  <2> HIDE DEF t
  <2>3. t \in IdMap(Inspection) /\ DOMAIN t = DOMAIN c.inspections \ {i} BY <2>2 DEF IsCut
  <2>4. /\ f \in ClientState /\ f.inspections = t
        /\ f.account = c.account /\ f.registered = c.registered /\ f.online = c.online /\ f.next = c.next
        /\ f.requests = c.requests /\ f.answers = c.answers /\ f.snapshot = c.snapshot /\ f.mirror = c.mirror
    BY <2>3 DEF ClientState
  <2> HIDE DEF f
  <2>5. i \in DOMAIN c.answers /\ i \notin DOMAIN c.requests BY <1>2 DEF Sound, Ledger
  <2>6. Told(f, i, g) BY <2>4, <2>5, EmitStep
  <2> HIDE DEF g
  <2>7. Settled(g) BY <1>2, <2>4, <2>6 DEF Told, Settled, Sound
  <2>8. Fetch(g)
    <3>1. Fetching(g) = Fetching(c) BY <2>4, <2>6 DEF Told, Fetching
    <3> QED BY <2>4, <2>6, <3>1 DEF Told, Fetch, Sound
  <2>9. Seen(g, h) BY <2>4, <2>6 DEF Told, Seen, Sound
  <2>10. Frame(c, g) BY <2>4, <2>6, FrameSame DEF Told
  <2>11. unansweredBy(c) = unansweredBy(g) \union {i} /\ i \notin unansweredBy(g)
    BY <1>2, <2>3, <2>4, <2>5, <2>6 DEF unansweredBy, Told
  <2>12. Len(c.answers[i]) = 0 BY <2>5, <2>11 DEF Sound, Ledger
  <2>13. \A x \in DOMAIN g.answers : Len(g.answers[x]) = IF x \in unansweredBy(g) THEN 0 ELSE 1
    <3>1. Len(g.answers[i]) = 1 /\ DOMAIN g.answers = DOMAIN c.answers BY <2>4, <2>6, <2>12 DEF Told
    <3>2. \A x \in DOMAIN c.answers : x # i => g.answers[x] = c.answers[x] BY <2>4, <2>6 DEF Told
    <3> QED BY <2>11, <3>1, <3>2 DEF Sound, Ledger
  <2>14. Ledger(g) BY <2>3, <2>4, <2>6, <2>13 DEF Told, Ledger, Sound
  <2> QED BY <2>1, <2>6, <2>7, <2>8, <2>9, <2>10, <2>14 DEF Safe, Sound, Told
<1> QED BY <1>1, <1>2

(* A field of an inspection is written. *)
LEMMA InspectionSet ==
  ASSUME NEW h, NEW c \in ClientState, Sound(c, h), NEW i \in DOMAIN c.inspections, NEW v \in Inspection
  PROVE  LET f == [c EXCEPT !.inspections[i] = v] IN
         /\ Safe(c, f, h) /\ f.online = c.online /\ i \in DOMAIN f.inspections
<1> DEFINE t == [c.inspections EXCEPT ![i] = v]
           f == [c EXCEPT !.inspections = t]
<1>1. IsSet(Inspection, c.inspections, i, v, t) BY Tables, MapSet
<1>2. f = [c EXCEPT !.inspections[i] = v] OBVIOUS
<1> HIDE DEF t
<1>3. t \in IdMap(Inspection) /\ DOMAIN t = DOMAIN c.inspections BY <1>1 DEF IsSet
<1>4. f \in ClientState BY <1>3 DEF ClientState
<1>5. Agree(c, f) /\ f.snapshot = c.snapshot /\ f.mirror = c.mirror BY <1>3 DEF ClientState, Agree
<1>6. f.online = c.online /\ i \in DOMAIN f.inspections BY <1>5 DEF Agree
<1>a. c.online BY DEF Sound, Settled
<1>7. Seen(f, h)
  <2> HIDE DEF f
  <2> QED BY <1>5 DEF Seen, Sound, Agree
<1>8. Sound(f, h) /\ Frame(c, f)
  <2> HIDE DEF f
  <2> QED BY <1>a, <1>4, <1>5, <1>7, AgreeSound
<1>9. Safe(c, f, h) /\ f.online = c.online /\ i \in DOMAIN f.inspections
  <2> HIDE DEF f
  <2> QED BY <1>4, <1>6, <1>8 DEF Safe
<1> QED BY <1>2, <1>9

LEMMA InspectPageSound ==
  ASSUME NEW h, NEW c \in ClientState, Sound(c, h), NEW i
  PROVE  Safe(c, inspectPage(c, i), h)
<1>1. CASE i \notin DOMAIN c.inspections BY <1>1, SafeSame DEF inspectPage
<1>2. CASE i \in DOMAIN c.inspections /\ refused(c) BY <1>2, InspectionAnswered DEF inspectPage, Words
<1>3. CASE i \in DOMAIN c.inspections /\ ~refused(c)
  <2> DEFINE w == c.inspections[i]
             v == [w EXCEPT !.started = TRUE]
             f == [c EXCEPT !.inspections[i] = v]
             a == [for |-> i, offset |-> w.offset]
  <2>1. inspectPage(c, i) = requestDrive(f, "inspect", a) BY <1>3 DEF inspectPage
  <2>2. w \in Inspection /\ i \in Nat BY <1>3, Tables, MapElim DEF Domains
  <2> HIDE DEF w
  <2>3. v \in Inspection /\ a \in Args BY <2>2 DEF Inspection, Args
  <2> HIDE DEF v, a
  <2>4. Safe(c, f, h) /\ f.online = c.online BY <1>3, <2>3, InspectionSet
  <2> HIDE DEF f
  <2>5. c.online BY <1>3 DEF refused, connected
  <2>6. f \in ClientState /\ Sound(f, h) BY <2>4 DEF Safe
  <2>7. Safe(f, requestDrive(f, "inspect", a), h) BY <2>3, <2>4, <2>5, <2>6, InternalSound DEF Safe
  <2> QED BY <2>1, <2>4, <2>7, SafeTrans
<1> QED BY <1>1, <1>2, <1>3

LEMMA InspectedSound ==
  ASSUME NEW h, NEW c \in ClientState, Sound(c, h), NEW i, NEW r
  PROVE  Safe(c, inspected(c, i, r), h)
<1>1. CASE i \notin DOMAIN c.inspections BY <1>1, SafeSame DEF inspected
<1>2. CASE i \in DOMAIN c.inspections /\ ~r.ok BY <1>2, InspectionAnswered DEF inspected, Words
<1>3. CASE i \in DOMAIN c.inspections /\ r.ok /\ r.eof BY <1>3, InspectionAnswered DEF inspected, Words
<1>4. CASE i \in DOMAIN c.inspections /\ r.ok /\ ~r.eof
  <2> DEFINE w == c.inspections[i]
             n == w.offset + 1
             v == [w EXCEPT !.offset = n]
             f == [c EXCEPT !.inspections[i] = v]
  <2>1. inspected(c, i, r) = inspectPage(f, i) BY <1>4 DEF inspected
  <2>2. w \in Inspection BY <1>4, Tables, MapElim
  <2>3. n \in Nat BY <2>2 DEF Inspection
  <2> HIDE DEF w, n
  <2>4. v \in Inspection BY <2>2, <2>3 DEF Inspection
  <2> HIDE DEF v
  <2>5. Safe(c, f, h) BY <1>4, <2>4, InspectionSet
  <2> HIDE DEF f
  <2>6. f \in ClientState /\ Sound(f, h) BY <2>5 DEF Safe
  <2>7. Safe(f, inspectPage(f, i), h) BY <2>6, InspectPageSound
  <2> QED BY <2>1, <2>5, <2>7, SafeTrans
<1> QED BY <1>1, <1>2, <1>3, <1>4

-----------------------------------------------------------------------------
(* A request ends, with a reply that fits it or a failure. *)
LEMMA FinishDriveSound ==
  ASSUME NEW h \in Histories, NEW c \in ClientState, Sound(c, h), NEW id, NEW r,
         id \in DOMAIN c.requests => Fits(c.requests[id], r, h)
  PROVE  Safe(c, finishDrive(c, id, r), h)
<1> DEFINE q == c.requests[id]
           f == Removed(c, id)
<1>1. CASE id \notin DOMAIN c.requests BY <1>1, SafeSame DEF finishDrive
<1>2. CASE id \in DOMAIN c.requests
  <2>1. finishDrive(c, id, r) = completion(f, q, id, r) BY <1>2 DEF finishDrive, Removed
  <2>2. q \in Request BY <1>2, Tables, MapElim
  <2>3. Gone(c, id, f) BY RemovedStep
  <2>4. q.kind # "stat" => Safe(c, f, h) BY <1>2, InternalGone
  <2>5. \A x \in Words : q.kind = "stat" => Safe(c, emit(f, id, x), h) BY <1>2, CallAnswered
  <2>a. Fits(q, r, h) BY <1>2
  <2>b. c.online BY <1>2 DEF Sound, Settled
  <2>6. q.kind \in {"describe", "catalog"} => Fetching(f) = {} /\ f.snapshot # None
    <3>1. q.kind \in {"describe", "catalog"} => id \in Fetching(c) BY <1>2 DEF Fetching
    <3>2. Fetching(f) = Fetching(c) \ {id} BY <1>2, <2>3, GoneFetch
    <3>3. f.snapshot = c.snapshot BY <2>3 DEF Gone
    <3> HIDE DEF f, q
    <3> QED BY <3>1, <3>2, <3>3 DEF Sound, Fetch
  <2>7. f.online /\ f.account = c.account /\ f.snapshot = c.snapshot BY <2>3, <2>b DEF Gone
  <2>c. q.container = c.account BY <1>2 DEF Sound, Fetch
  <2>d. q.kind = "catalog" => q.args.cursor = c.snapshot.cursor
    <3>1. q.kind = "catalog" => q.args = [cursor |-> c.snapshot.cursor, revision |-> c.snapshot.revision]
      BY <1>2 DEF Sound, Fetch
    <3> QED BY <3>1
  <2> HIDE DEF f, q
  <2>8. CASE q.kind = "describe"
    <3>1. completion(f, q, id, r) = IF r.ok THEN catalogPage(f) ELSE finishSnapshot(f, FALSE)
      BY <2>8 DEF completion
    <3>2. f \in ClientState /\ Sound(f, h) BY <2>4, <2>8 DEF Safe
    <3>3. Safe(f, catalogPage(f), h) BY <2>6, <2>7, <2>8, <3>2, PageSound
    <3>4. Safe(f, finishSnapshot(f, FALSE), h) BY <2>6, <2>8, <3>2, FinishSound
    <3>5. Safe(f, completion(f, q, id, r), h) BY <3>1, <3>3, <3>4
    <3> QED BY <2>1, <2>4, <2>8, <3>5, SafeTrans
  <2>9. CASE q.kind = "catalog"
    <3>1. completion(f, q, id, r) = catalogued(f, r) BY <2>9 DEF completion
    <3>2. f \in ClientState /\ Sound(f, h) BY <2>4, <2>9 DEF Safe
    <3>3. r.ok => /\ f.account \in Container /\ r.revision \in 1..Len(h[f.account])
                  /\ r.entries = pageOf(h[f.account][r.revision], f.snapshot.cursor)
                  /\ r.cursor = nextCursor(h[f.account][r.revision], f.snapshot.cursor)
      BY <2>7, <2>9, <2>a, <2>c, <2>d DEF Fits
    <3>4. Safe(f, catalogued(f, r), h) BY <2>6, <2>7, <2>9, <3>2, <3>3, CatalogSound
    <3> QED BY <2>1, <2>4, <2>9, <3>1, <3>4, SafeTrans
  <2>10. CASE q.kind = "inspect"
    <3>1. completion(f, q, id, r) = inspected(f, q.args.for, r) BY <2>10 DEF completion
    <3>2. f \in ClientState /\ Sound(f, h) BY <2>4, <2>10 DEF Safe
    <3>3. Safe(f, inspected(f, q.args.for, r), h) BY <3>2, InspectedSound
    <3> QED BY <2>1, <2>4, <2>10, <3>1, <3>3, SafeTrans
  <2>11. CASE q.kind = "stat"
    <3>1. completion(f, q, id, r) = emit(f, id, IF r.ok THEN "stat" ELSE "error") BY <2>11 DEF completion
    <3> QED BY <2>1, <2>5, <2>11, <3>1 DEF Words
  <2> QED BY <2>2, <2>8, <2>9, <2>10, <2>11 DEF Request
<1> QED BY <1>1, <1>2

-----------------------------------------------------------------------------
(* The connection is lost: everything that waits is answered, and nothing is asked for any more. *)
LEMMA ClearSound ==
  ASSUME NEW h, NEW c \in ClientState, Ledger(c), ~c.online
  PROVE  LET g == clearDrive(c) IN
         /\ g \in ClientState /\ Sound(g, h) /\ DOMAIN g.requests = {} /\ g.next = c.next
         /\ g.account = c.account /\ g.registered = c.registered /\ ~g.online
<1> DEFINE ids == {id \in DOMAIN c.requests : id \in DOMAIN c.answers} \union DOMAIN c.inspections
           t == [id \in DOMAIN c.answers |-> IF id \in ids THEN Append(c.answers[id], "error") ELSE c.answers[id]]
           g == clearDrive(c)
<1>1. g = [c EXCEPT !.snapshot = None, !.again = FALSE, !.owed = FALSE, !.mirror = NoMirror,
                    !.requests = Empty, !.inspections = Empty, !.answers = t]
  BY DEF clearDrive
<1>2. ids = unansweredBy(c) BY DEF unansweredBy
<1>3. c.answers \in [DOMAIN c.answers -> Seq(Words)] /\ DOMAIN c.answers \in SUBSET Nat BY Tables, MapElim
<1>4. ASSUME NEW id \in DOMAIN c.answers PROVE t[id] \in Seq(Words) /\ Len(t[id]) = 1
  <2>1. c.answers[id] \in Seq(Words) /\ "error" \in Words BY <1>3 DEF Words
  <2>2. Len(c.answers[id]) = IF id \in ids THEN 0 ELSE 1 BY <1>2 DEF Ledger
  <2>3. CASE id \in ids
    <3>1. t[id] = Append(c.answers[id], "error") BY <2>3
    <3>2. t[id] \in Seq(Words) /\ Len(t[id]) = Len(c.answers[id]) + 1 BY <2>1, <3>1, AppendProperties
    <3> HIDE DEF t, ids
    <3> QED BY <2>2, <2>3, <3>2
  <2>4. CASE id \notin ids
    <3>1. t[id] = c.answers[id] BY <2>4
    <3> HIDE DEF t, ids
    <3> QED BY <2>1, <2>2, <2>4, <3>1
  <2> QED BY <2>3, <2>4
<1>5. t \in [DOMAIN c.answers -> Seq(Words)]
  <2> DEFINE v(id) == IF id \in ids THEN Append(c.answers[id], "error") ELSE c.answers[id]
  <2>1. \A id \in DOMAIN c.answers : v(id) \in Seq(Words) BY <1>4
  <2> HIDE DEF v
  <2>2. [id \in DOMAIN c.answers |-> v(id)] \in [DOMAIN c.answers -> Seq(Words)] BY <2>1
  <2> QED BY <2>2 DEF v
<1>6. t \in IdMap(Seq(Words)) /\ DOMAIN t = DOMAIN c.answers
  <2> HIDE DEF t
  <2> QED BY <1>3, <1>5, MapIntro
<1>7. Empty \in IdMap(Request) /\ Empty \in IdMap(Inspection) /\ DOMAIN Empty = {} BY MapEmpty
<1>8. NoMirror \in MirrorState /\ NoMirror.available = FALSE BY DEF NoMirror, MirrorState, Drives
<1> HIDE DEF t, g
<1>9. g \in ClientState BY <1>1, <1>6, <1>7, <1>8 DEF ClientState
<1>10. /\ g.requests = Empty /\ g.inspections = Empty /\ g.answers = t /\ g.snapshot = None /\ g.mirror = NoMirror
       /\ g.next = c.next /\ g.account = c.account /\ g.registered = c.registered /\ g.online = c.online
  BY <1>1 DEF ClientState
<1>11. unansweredBy(g) = {} BY <1>7, <1>10 DEF unansweredBy
<1>12. Ledger(g) BY <1>4, <1>6, <1>7, <1>10, <1>11 DEF Ledger
<1>13. Fetch(g) /\ Settled(g) BY <1>7, <1>10 DEF Fetch, Settled, Fetching
<1>14. Seen(g, h) BY <1>8, <1>10 DEF Seen, Whole
<1> QED BY <1>7, <1>9, <1>10, <1>12, <1>13, <1>14 DEF Sound, g

LEMMA ClearFrame ==
  ASSUME NEW h, NEW c \in ClientState, Ledger(c), ~c.online, NEW b \in ClientState, b.next = c.next
  PROVE  Safe(b, clearDrive(c), h)
<1> DEFINE g == clearDrive(c)
<1>1. g \in ClientState /\ Sound(g, h) /\ DOMAIN g.requests = {} /\ g.next = c.next BY ClearSound
<1> HIDE DEF g
<1>2. c.next \in Nat BY DEF ClientState
<1>3. Frame(b, g) BY <1>1, <1>2 DEF Frame
<1> QED BY <1>1, <1>3 DEF Safe, g

LEMMA PeersSound ==
  ASSUME NEW h, NEW c \in ClientState, Sound(c, h), c.account # None, c.registered = c.account,
         NEW paired \in BOOLEAN
  PROVE  Safe(c, peers(c, paired), h)
<1> DEFINE n == [c EXCEPT !.online = paired]
<1>1. /\ n \in ClientState /\ n.online = paired
      /\ n.account = c.account /\ n.registered = c.registered /\ n.next = c.next
      /\ n.requests = c.requests /\ n.inspections = c.inspections /\ n.answers = c.answers
      /\ n.snapshot = c.snapshot /\ n.mirror = c.mirror
  BY DEF ClientState
<1>2. c.online \in BOOLEAN BY DEF ClientState
<1>3. peers(c, paired) = IF c.online /\ ~paired THEN clearDrive(n)
                         ELSE IF ~c.online /\ paired THEN refreshHost(n) ELSE n
  BY DEF peers
<1> HIDE DEF n
<1>4. Ledger(n)
  <2>1. unansweredBy(n) = unansweredBy(c) BY <1>1 DEF unansweredBy
  <2> QED BY <1>1, <2>1 DEF Sound, Ledger
<1>5. CASE c.online /\ ~paired
  <2>1. Safe(c, clearDrive(n), h) BY <1>1, <1>4, <1>5, ClearFrame
  <2> QED BY <2>1, <1>3, <1>5
<1>6. CASE ~(c.online /\ ~paired)
  <2>1. Settled(n) BY <1>1, <1>6 DEF Sound, Settled
  <2>2. Fetch(n)
    <3>1. Fetching(n) = Fetching(c) BY <1>1 DEF Fetching
    <3> QED BY <1>1, <3>1 DEF Sound, Fetch
  <2>3. Seen(n, h) BY <1>1 DEF Sound, Seen
  <2>4. Safe(c, n, h) BY <1>1, <1>4, <2>1, <2>2, <2>3, FrameSame DEF Sound, Safe
  <2>5. Safe(n, refreshHost(n), h) BY <2>4, RefreshSound DEF Safe
  <2>6. Safe(c, refreshHost(n), h) BY <2>4, <2>5, SafeTrans
  <2> QED BY <2>4, <2>6, <1>3, <1>6
<1> QED BY <1>5, <1>6

(* update(), after the account has come to register the drive d. *)
LEMMA UpdateSound ==
  ASSUME NEW h, NEW c \in ClientState, Sound(c, h), NEW d \in Drives, NEW paired \in BOOLEAN
  PROVE  Safe(c, update([c EXCEPT !.account = d], paired), h)
<1> DEFINE a == [c EXCEPT !.account = d]
<1>1. /\ a \in ClientState /\ a.account = d
      /\ a.online = c.online /\ a.registered = c.registered /\ a.next = c.next
      /\ a.requests = c.requests /\ a.inspections = c.inspections /\ a.answers = c.answers
      /\ a.snapshot = c.snapshot /\ a.mirror = c.mirror
  BY DEF ClientState
<1>2. update(a, paired) = IF a.account = None THEN transportStop(a)
                          ELSE peers(IF a.registered # a.account
                                     THEN transportStop([a EXCEPT !.registered = a.account]) ELSE a, paired)
  BY DEF update
<1> HIDE DEF a
<1>3. CASE d = None
  <2> DEFINE o == [a EXCEPT !.online = FALSE]
  <2>1. /\ o \in ClientState /\ ~o.online /\ o.next = a.next
        /\ o.requests = a.requests /\ o.inspections = a.inspections /\ o.answers = a.answers
    BY <1>1 DEF ClientState
  <2>2. transportStop(a) = clearDrive(o) BY DEF transportStop
  <2> HIDE DEF o
  <2>3. Ledger(o)
    <3>1. unansweredBy(o) = unansweredBy(c) BY <1>1, <2>1 DEF unansweredBy
    <3> QED BY <1>1, <2>1, <3>1 DEF Sound, Ledger
  <2>4. Safe(c, clearDrive(o), h) BY <1>1, <2>1, <2>3, ClearFrame
  <2> QED BY <1>1, <1>2, <1>3, <2>2, <2>4 DEF a
<1>4. CASE d # None /\ c.registered # d
  <2> DEFINE o == [[a EXCEPT !.registered = a.account] EXCEPT !.online = FALSE]
             e == clearDrive(o)
  <2>1. /\ o \in ClientState /\ ~o.online /\ o.next = a.next /\ o.account = d /\ o.registered = d
        /\ o.requests = a.requests /\ o.inspections = a.inspections /\ o.answers = a.answers
    BY <1>1 DEF ClientState
  <2>2. transportStop([a EXCEPT !.registered = a.account]) = e BY DEF transportStop
  <2> HIDE DEF o
  <2>3. Ledger(o)
    <3>1. unansweredBy(o) = unansweredBy(c) BY <1>1, <2>1 DEF unansweredBy
    <3> QED BY <1>1, <2>1, <3>1 DEF Sound, Ledger
  <2>4. Safe(c, e, h) BY <1>1, <2>1, <2>3, ClearFrame
  <2>5. e.account = d /\ e.registered = d BY <2>1, <2>3, ClearSound
  <2> HIDE DEF e
  <2>6. Safe(e, peers(e, paired), h) BY <1>4, <2>4, <2>5, PeersSound DEF Safe
  <2>7. Safe(c, peers(e, paired), h) BY <2>4, <2>6, SafeTrans
  <2> QED BY <1>1, <1>2, <1>4, <2>2, <2>7 DEF a
<1>5. CASE d # None /\ c.registered = d
  <2>1. Sound(a, h)
    <3>1. CASE c.online
      <4>1. c.account = d BY <1>5, <3>1 DEF Sound, Settled
      <4>2. Agree(c, a) BY <1>1, <4>1 DEF Agree
      <4>3. Seen(a, h) BY <1>1, <4>1 DEF Sound, Seen
      <4> QED BY <1>1, <3>1, <4>2, <4>3, AgreeSound
    <3>2. CASE ~c.online
      <4>1. DOMAIN c.requests = {} /\ DOMAIN c.inspections = {} /\ c.snapshot = None BY <3>2 DEF Sound, Settled
      <4>2. Settled(a) /\ Fetch(a) BY <1>1, <3>2, <4>1 DEF Settled, Fetch, Fetching
      <4>3. Seen(a, h) BY <1>1, <4>1 DEF Sound, Seen
      <4>4. unansweredBy(a) = unansweredBy(c) BY <1>1 DEF unansweredBy
      <4>5. Ledger(a) BY <1>1, <4>4 DEF Sound, Ledger
      <4> QED BY <4>2, <4>3, <4>5 DEF Sound
    <3> QED BY <3>1, <3>2
  <2>2. Safe(c, a, h) BY <1>1, <2>1, FrameSame DEF Safe
  <2>3. Safe(a, peers(a, paired), h) BY <1>1, <1>5, <2>1, PeersSound
  <2>4. Safe(c, peers(a, paired), h) BY <2>2, <2>3, SafeTrans
  <2> QED BY <1>1, <1>2, <1>5, <2>4 DEF a
<1> QED BY <1>3, <1>4, <1>5

-----------------------------------------------------------------------------
(* Steps of the client: replies to requests that have ended may be forgotten. *)
LEMMA RepliesKept ==
  ASSUME NEW h, NEW c \in ClientState, NEW g \in ClientState, NEW rs, NEW ss, Replies(c, rs, h), Frame(c, g),
         DOMAIN ss \subseteq DOMAIN rs, \A id \in DOMAIN ss : ss[id] = rs[id]
  PROVE  Replies(g, ss, h)
<1>1. c.next \in Nat /\ g.next \in Nat BY DEF ClientState
<1>2. ASSUME NEW id \in DOMAIN ss PROVE id \in Nat /\ id < g.next BY <1>1 DEF Replies, Frame
<1>3. ASSUME NEW id \in DOMAIN ss, id \in DOMAIN g.requests
      PROVE  g.requests[id].at = "wire" /\ Fits(g.requests[id], ss[id], h)
  <2>1. id \in Nat /\ id < c.next /\ ss[id] = rs[id] /\ id \in DOMAIN rs BY <1>3 DEF Replies
  <2>2. ~(id >= c.next) BY <1>1, <2>1
  <2>3. id \in DOMAIN c.requests /\ g.requests[id] = c.requests[id] BY <1>3, <2>2 DEF Frame
  <2> QED BY <2>1, <2>3 DEF Replies
<1> QED BY <1>2, <1>3 DEF Replies

LEMMA ClientSteps ==
  ASSUME CatalogInv, Safe(client, client', catalogs), UNCHANGED <<reachable, catalogs>>,
         replies' = replies \/ replies' = forgotten(client')
  PROVE  CatalogInv'
<1> USE DEF CatalogInv, Type, Inv
<1>1. client' \in ClientState /\ Sound(client', catalogs) /\ Frame(client, client') BY DEF Safe
<1>2. DOMAIN replies' \subseteq DOMAIN replies /\ \A id \in DOMAIN replies' : replies'[id] = replies[id]
  <2>1. CASE replies' = replies BY <2>1
  <2>2. CASE replies' = forgotten(client')
    <3>1. replies' = [id \in DOMAIN replies \intersect DOMAIN client'.requests |-> replies[id]]
      BY <2>2 DEF forgotten, Restrict
    <3> QED BY <3>1
  <2> QED BY <2>1, <2>2
<1>3. Replies(client', replies', catalogs) BY <1>1, <1>2, RepliesKept
<1> QED BY <1>1, <1>3

(* A public call is issued. *)
LEMMA CallStep ==
  ASSUME NEW h, NEW c \in ClientState, Sound(c, h), connected(c)
  PROVE  Safe(c, requestDrive([c EXCEPT !.answers = insert(@, c.next, <<>>)], "stat", None), h)
<1> DEFINE t == insert(c.answers, c.next, <<>>)
           f == [c EXCEPT !.answers = t]
           q == NewRequest(f, "stat", None)
           g == requestDrive(f, "stat", None)
<1>1. c.next \in Nat BY DEF ClientState
<1>2. <<>> \in Seq(Words) /\ Len(<<>>) = 0 OBVIOUS
<1>3. IsPut(Seq(Words), c.answers, c.next, <<>>, t) BY <1>1, <1>2, Tables, MapPut
<1> HIDE DEF t
<1>4. t \in IdMap(Seq(Words)) BY <1>3 DEF IsPut
<1>5. /\ f \in ClientState /\ f.answers = t /\ f.next = c.next
      /\ f.account = c.account /\ f.registered = c.registered /\ f.online = c.online
      /\ f.requests = c.requests /\ f.inspections = c.inspections /\ f.snapshot = c.snapshot /\ f.mirror = c.mirror
  BY <1>4 DEF ClientState
<1> HIDE DEF f
<1>6. None \in Args BY DEF Args
<1>7. Issued(f, q, g) BY <1>5, <1>6, RequestStep
<1>8. q.kind = "stat" /\ q.container = c.account BY <1>5 DEF NewRequest
<1> HIDE DEF q, g
<1>9. Domains(c) BY Tables
<1>10. /\ g \in ClientState /\ g.next = c.next + 1
       /\ DOMAIN g.requests = DOMAIN c.requests \union {c.next} /\ g.requests[c.next] = q
       /\ \A x \in DOMAIN c.requests : x # c.next => g.requests[x] = c.requests[x]
       /\ DOMAIN g.answers = DOMAIN c.answers \union {c.next} /\ g.answers[c.next] = <<>>
       /\ \A x \in DOMAIN c.answers : x # c.next => g.answers[x] = c.answers[x]
       /\ g.account = c.account /\ g.registered = c.registered /\ g.online = c.online
       /\ g.inspections = c.inspections /\ g.snapshot = c.snapshot /\ g.mirror = c.mirror
  BY <1>3, <1>5, <1>7 DEF Issued, IsPut
<1>11. /\ c.next \notin DOMAIN c.requests /\ c.next \notin DOMAIN c.inspections /\ c.next \notin DOMAIN c.answers
       /\ \A x \in DOMAIN c.requests : g.requests[x] = c.requests[x]
       /\ \A x \in DOMAIN c.answers : g.answers[x] = c.answers[x]
  BY <1>1, <1>9, <1>10 DEF Sound, Ledger, Domains
<1>12. Ledger(g)
  <2>1. unansweredBy(g) = unansweredBy(c) \union {c.next} BY <1>10, <1>11 DEF unansweredBy
  <2>2. \A id \in DOMAIN g.requests \union DOMAIN g.inspections \union DOMAIN g.answers : id < g.next
    BY <1>1, <1>9, <1>10 DEF Sound, Ledger, Domains
  <2>3. \A id \in DOMAIN g.inspections : id \in DOMAIN g.answers /\ id \notin DOMAIN g.requests
    BY <1>10, <1>11 DEF Sound, Ledger
  <2>4. \A id \in DOMAIN g.requests : id \in DOMAIN g.answers <=> g.requests[id].kind = "stat"
    BY <1>8, <1>10, <1>11 DEF Sound, Ledger
  <2>5. \A id \in DOMAIN g.answers : Len(g.answers[id]) = IF id \in unansweredBy(g) THEN 0 ELSE 1
    <3>1. c.next \in unansweredBy(g) /\ Len(g.answers[c.next]) = 0 BY <1>2, <1>10, <2>1
    <3>2. \A id \in DOMAIN c.answers : id # c.next /\ (id \in unansweredBy(g) <=> id \in unansweredBy(c))
      BY <1>11, <2>1
    <3> QED BY <1>10, <1>11, <3>1, <3>2 DEF Sound, Ledger
  <2> QED BY <2>2, <2>3, <2>4, <2>5 DEF Ledger
<1>13. Settled(g)
  <2>1. c.online BY DEF connected
  <2> QED BY <2>1, <1>10 DEF Sound, Settled
<1>14. Fetch(g)
  <2>1. Fetching(g) = Fetching(c) BY <1>8, <1>10, <1>11 DEF Fetching
  <2>2. \A id \in DOMAIN g.requests : g.requests[id].container = g.account BY <1>8, <1>10, <1>11 DEF Sound, Fetch
  <2>3. \A id \in DOMAIN g.requests :
          g.requests[id].kind = "catalog" =>
            g.requests[id].args = [cursor |-> g.snapshot.cursor, revision |-> g.snapshot.revision]
    BY <1>8, <1>10, <1>11 DEF Sound, Fetch
  <2> QED BY <1>10, <2>1, <2>2, <2>3 DEF Sound, Fetch
<1>15. Seen(g, h) BY <1>10 DEF Sound, Seen
<1>16. Frame(c, g) BY <1>1, <1>10, <1>11 DEF Frame
<1> QED BY <1>10, <1>12, <1>13, <1>14, <1>15, <1>16 DEF Safe, Sound, g, f, t

(* An inspection is opened. *)
LEMMA InspectStep ==
  ASSUME NEW h, NEW c \in ClientState, Sound(c, h), connected(c)
  PROVE  Safe(c, [c EXCEPT !.next = @ + 1, !.answers = insert(@, c.next, <<>>),
                           !.inspections = insert(@, c.next, [offset |-> 0, started |-> FALSE])], h)
<1> DEFINE t == insert(c.answers, c.next, <<>>)
           v == [offset |-> 0, started |-> FALSE]
           u == insert(c.inspections, c.next, v)
           n == c.next + 1
           g == [c EXCEPT !.next = n, !.answers = t, !.inspections = u]
<1>1. c.next \in Nat /\ n \in Nat /\ v \in Inspection BY DEF ClientState, Inspection
<1>2. <<>> \in Seq(Words) /\ Len(<<>>) = 0 OBVIOUS
<1>a. g = [c EXCEPT !.next = @ + 1, !.answers = insert(@, c.next, <<>>),
                    !.inspections = insert(@, c.next, [offset |-> 0, started |-> FALSE])] OBVIOUS
<1> HIDE DEF v
<1>3. IsPut(Seq(Words), c.answers, c.next, <<>>, t) BY <1>1, <1>2, Tables, MapPut
<1>4. IsPut(Inspection, c.inspections, c.next, v, u) BY <1>1, Tables, MapPut
<1> HIDE DEF t, u, n
<1>5. t \in IdMap(Seq(Words)) /\ u \in IdMap(Inspection) BY <1>3, <1>4 DEF IsPut
<1>6. /\ g \in ClientState /\ g.answers = t /\ g.next = n /\ g.inspections = u
      /\ g.account = c.account /\ g.registered = c.registered /\ g.online = c.online
      /\ g.requests = c.requests /\ g.snapshot = c.snapshot /\ g.mirror = c.mirror
  BY <1>1, <1>5 DEF ClientState
<1> HIDE DEF g
<1>7. n = c.next + 1 BY DEF n
<1>8. Domains(c) BY Tables
<1>9. /\ DOMAIN g.answers = DOMAIN c.answers \union {c.next} /\ g.answers[c.next] = <<>>
      /\ \A x \in DOMAIN c.answers : x # c.next => g.answers[x] = c.answers[x]
      /\ DOMAIN g.inspections = DOMAIN c.inspections \union {c.next}
  BY <1>3, <1>4, <1>6 DEF IsPut
<1>10. /\ c.next \notin DOMAIN c.requests /\ c.next \notin DOMAIN c.inspections /\ c.next \notin DOMAIN c.answers
       /\ \A x \in DOMAIN c.answers : g.answers[x] = c.answers[x]
  BY <1>1, <1>8, <1>9 DEF Sound, Ledger, Domains
<1>11. Ledger(g)
  <2>1. unansweredBy(g) = unansweredBy(c) \union {c.next} BY <1>6, <1>9, <1>10 DEF unansweredBy
  <2>2. \A id \in DOMAIN g.requests \union DOMAIN g.inspections \union DOMAIN g.answers : id < g.next
    BY <1>1, <1>6, <1>7, <1>8, <1>9 DEF Sound, Ledger, Domains
  <2>3. \A id \in DOMAIN g.inspections : id \in DOMAIN g.answers /\ id \notin DOMAIN g.requests
    BY <1>6, <1>9, <1>10 DEF Sound, Ledger
  <2>4. \A id \in DOMAIN g.requests : id \in DOMAIN g.answers <=> g.requests[id].kind = "stat"
    BY <1>6, <1>9, <1>10 DEF Sound, Ledger
  <2>5. \A id \in DOMAIN g.answers : Len(g.answers[id]) = IF id \in unansweredBy(g) THEN 0 ELSE 1
    <3>1. c.next \in unansweredBy(g) /\ Len(g.answers[c.next]) = 0 BY <1>2, <1>9, <2>1
    <3>2. \A id \in DOMAIN c.answers : id # c.next /\ (id \in unansweredBy(g) <=> id \in unansweredBy(c))
      BY <1>10, <2>1
    <3> QED BY <1>9, <1>10, <3>1, <3>2 DEF Sound, Ledger
  <2> QED BY <2>2, <2>3, <2>4, <2>5 DEF Ledger
<1>12. Settled(g)
  <2>1. c.online BY DEF connected
  <2> QED BY <2>1, <1>6 DEF Sound, Settled
<1>13. Fetch(g)
  <2>1. Fetching(g) = Fetching(c) BY <1>6 DEF Fetching
  <2> QED BY <1>6, <2>1 DEF Sound, Fetch
<1>14. Seen(g, h) BY <1>6 DEF Sound, Seen
<1>15. Frame(c, g) BY <1>1, <1>6, <1>7 DEF Frame
<1>16. Safe(c, g, h) BY <1>6, <1>11, <1>12, <1>13, <1>14, <1>15 DEF Safe, Sound
<1> QED BY <1>a, <1>16

(* A request goes out. *)
LEMMA SendStep ==
  ASSUME CatalogInv, NEW id \in DOMAIN client.requests, client.requests[id].at = "timer",
         client' = [client EXCEPT !.requests[id].at = "wire"], UNCHANGED <<reachable, catalogs, replies>>
  PROVE  CatalogInv'
<1> DEFINE q == client.requests[id]
           w == [q EXCEPT !.at = "wire"]
           t == [client.requests EXCEPT ![id] = w]
           g == [client EXCEPT !.requests = t]
<1>1. client \in ClientState /\ Sound(client, catalogs) /\ Replies(client, replies, catalogs) BY DEF CatalogInv, Type, Inv
<1>2. client' = g OBVIOUS
<1>3. q \in Request BY <1>1, Tables, MapElim
<1> HIDE DEF q
<1>4. w \in Request /\ w.kind = q.kind /\ w.args = q.args /\ w.container = q.container BY <1>3 DEF Request
<1> HIDE DEF w
<1>5. IsSet(Request, client.requests, id, w, t) BY <1>1, <1>4, Tables, MapSet
<1> HIDE DEF t
<1>6. t \in IdMap(Request) BY <1>5 DEF IsSet
<1>7. /\ g \in ClientState /\ g.requests = t /\ g.next = client.next
      /\ g.account = client.account /\ g.registered = client.registered /\ g.online = client.online
      /\ g.inspections = client.inspections /\ g.answers = client.answers
      /\ g.snapshot = client.snapshot /\ g.mirror = client.mirror
  BY <1>1, <1>6 DEF ClientState
<1> HIDE DEF g
<1>8. /\ DOMAIN g.requests = DOMAIN client.requests
      /\ \A x \in DOMAIN client.requests : x # id => g.requests[x] = client.requests[x]
      /\ \A x \in DOMAIN client.requests :
           /\ g.requests[x].kind = client.requests[x].kind /\ g.requests[x].args = client.requests[x].args
           /\ g.requests[x].container = client.requests[x].container
  BY <1>4, <1>5, <1>7 DEF IsSet, q
<1>9. Ledger(g)
  <2>1. unansweredBy(g) = unansweredBy(client) BY <1>7, <1>8 DEF unansweredBy
  <2> QED BY <1>1, <1>7, <1>8, <2>1 DEF Sound, Ledger
<1>10. Settled(g) BY <1>1, <1>7, <1>8 DEF Sound, Settled
<1>11. Fetch(g)
  <2>1. Fetching(g) = Fetching(client) BY <1>8 DEF Fetching
  <2> QED BY <1>1, <1>7, <1>8, <2>1 DEF Sound, Fetch
<1>12. Seen(g, catalogs) BY <1>1, <1>7 DEF Sound, Seen
<1>13. Replies(g, replies, catalogs)
  <2>1. id \notin DOMAIN replies BY <1>1 DEF Replies
  <2> QED BY <1>1, <1>7, <1>8, <2>1 DEF Replies
<1> QED BY <1>2, <1>7, <1>9, <1>10, <1>11, <1>12, <1>13 DEF CatalogInv, Type, Inv, Sound

-----------------------------------------------------------------------------
(* Steps of the host. *)
LEMMA ExecuteStep ==
  ASSUME CatalogInv, NEW d \in Container, NEW id, Execute(id, d)
  PROVE  CatalogInv'
<1> DEFINE q == client.requests[id]
<1>1. /\ id \in DOMAIN client.requests /\ q.at = "wire" /\ UNCHANGED <<client, reachable, catalogs>>
      /\ \E r \in answers(d, q) : replies' = insert(replies, id, r)
  BY DEF Execute
<1>2. PICK r \in answers(d, q) : replies' = insert(replies, id, r) BY <1>1
<1>3. client \in ClientState /\ Sound(client, catalogs) /\ Replies(client, replies, catalogs) BY DEF CatalogInv, Type, Inv
<1>4. catalogs[d] \in Seq(SUBSET Path) /\ Len(catalogs[d]) \in Nat /\ Len(catalogs[d]) >= 1
  BY DEF CatalogInv, Type, Histories
<1>5. Fits(q, r, catalogs)
  <2>1. ASSUME q.kind = "catalog", r.ok
        PROVE  /\ r.container = q.container /\ r.container \in Container
               /\ r.revision \in 1..Len(catalogs[r.container])
               /\ r.entries = pageOf(catalogs[r.container][r.revision], q.args.cursor)
               /\ r.cursor = nextCursor(catalogs[r.container][r.revision], q.args.cursor)
    <3> HIDE DEF q
    <3>1. ~Failure.ok BY DEF Failure
    <3>2. q.container = d /\ r = catalog(d, catalogs[d], q.args) BY <2>1, <3>1, <1>2 DEF answers
    <3>3. r = [ok |-> TRUE, container |-> d, revision |-> Len(catalogs[d]),
               entries |-> pageOf(Last(catalogs[d]), q.args.cursor),
               cursor |-> nextCursor(Last(catalogs[d]), q.args.cursor)]
      BY <2>1, <3>1, <3>2 DEF catalog
    <3>4. Last(catalogs[d]) = catalogs[d][Len(catalogs[d])] BY DEF Last
    <3>5. /\ r.container = d /\ r.revision = Len(catalogs[d])
          /\ r.entries = pageOf(Last(catalogs[d]), q.args.cursor)
          /\ r.cursor = nextCursor(Last(catalogs[d]), q.args.cursor)
      BY <3>3
    <3> QED BY <1>4, <3>2, <3>4, <3>5
  <2> QED BY <2>1 DEF Fits
<1>6. id \in Nat /\ id < client.next BY <1>1, <1>3, Tables DEF Domains, Sound, Ledger
<1>7. /\ DOMAIN replies' = DOMAIN replies \union {id} /\ replies'[id] = r
      /\ \A x \in DOMAIN replies : x # id => replies'[x] = replies[x]
  BY <1>2 DEF insert
<1>8. Replies(client, replies', catalogs) BY <1>1, <1>3, <1>5, <1>6, <1>7 DEF Replies
<1> QED BY <1>1, <1>8 DEF CatalogInv, Type, Inv

(* Earlier revisions of a catalogue stay what they are. *)
Grown(h, k) ==
  \A d \in Container : Len(k[d]) >= Len(h[d]) /\ \A n \in 1..Len(h[d]) : n \in 1..Len(k[d]) /\ k[d][n] = h[d][n]

LEMMA IndexGrows ==
  ASSUME NEW h \in Histories, NEW d \in Container, NEW index \in SUBSET Path
  PROVE  LET k == [h EXCEPT ![d] = Append(@, index)] IN k \in Histories /\ Grown(h, k)
<1> DEFINE v == Append(h[d], index)
           k == [h EXCEPT ![d] = v]
<1>1. h[d] \in Seq(SUBSET Path) BY DEF Histories
<1>2. v \in Seq(SUBSET Path) /\ Len(v) = Len(h[d]) + 1 /\ \A n \in 1..Len(h[d]) : v[n] = h[d][n]
  BY <1>1, AppendProperties
<1> HIDE DEF v
<1>3. k \in Histories BY <1>2 DEF Histories
<1>4. ASSUME NEW e \in Container
      PROVE  Len(k[e]) >= Len(h[e]) /\ \A n \in 1..Len(h[e]) : n \in 1..Len(k[e]) /\ k[e][n] = h[e][n]
  <2>1. h[e] \in Seq(SUBSET Path) /\ Len(h[e]) \in Nat BY DEF Histories
  <2>2. CASE e = d
    <3>1. k[e] = v BY <2>2 DEF Histories
    <3> QED BY <1>2, <2>1, <2>2, <3>1
  <2>3. CASE e # d
    <3>1. k[e] = h[e] BY <2>3 DEF Histories
    <3> QED BY <2>1, <3>1
  <2> QED BY <2>2, <2>3
<1>5. k \in Histories /\ Grown(h, k) BY <1>3, <1>4 DEF Grown
<1> QED BY <1>5 DEF v

LEMMA HostIndexStep ==
  ASSUME CatalogInv, NEW d \in Container, HostIndex(d)
  PROVE  CatalogInv'
<1>1. PICK index \in SUBSET Path : catalogs' = [catalogs EXCEPT ![d] = Append(@, index)] BY DEF HostIndex
<1>2. UNCHANGED <<client, reachable, replies>> BY DEF HostIndex
<1>3. catalogs \in Histories /\ client \in ClientState /\ Sound(client, catalogs)
      /\ Replies(client, replies, catalogs) /\ \A e \in Container : Len(catalogs[e]) >= 1
  BY DEF CatalogInv, Type, Inv
<1>4. catalogs' \in Histories /\ Grown(catalogs, catalogs') BY <1>1, <1>3, IndexGrows
<1>5. \A e \in Container : Len(catalogs[e]) \in Nat /\ Len(catalogs'[e]) \in Nat
  <2>1. \A e \in Container : catalogs[e] \in Seq(SUBSET Path) /\ catalogs'[e] \in Seq(SUBSET Path)
    BY <1>3, <1>4 DEF Histories
  <2> QED BY <2>1
<1>6. Type' BY <1>2, <1>3, <1>4, <1>5 DEF Grown, CatalogInv, Type
<1>7. Seen(client, catalogs')
  <2>1. Whole(client.mirror, catalogs') BY <1>3, <1>4 DEF Sound, Seen, Whole, Grown
  <2>2. ASSUME client.snapshot # None PROVE Gathered(client.account, client.snapshot, catalogs')
    <3> DEFINE a == client.account
               s == client.snapshot
    <3>1. Gathered(a, s, catalogs) BY <1>3, <2>2 DEF Sound, Seen
    <3>2. a \in Container BY <1>3, <2>2 DEF Sound, Settled, ClientState, Drives
    <3>3. s.revision \in Nat BY <1>3, <2>2 DEF ClientState, Snapshot
    <3> HIDE DEF a, s
    <3>4. CASE s.revision = 0 BY <3>1, <3>4 DEF Gathered, a, s
    <3>5. CASE s.revision # 0
      <4>1. s.revision \in 1..Len(catalogs[a]) BY <1>5, <3>1, <3>2, <3>3, <3>5 DEF Gathered
      <4>2. s.revision <= Len(catalogs'[a]) /\ catalogs'[a][s.revision] = catalogs[a][s.revision]
        BY <1>4, <1>5, <3>2, <4>1 DEF Grown
      <4> QED BY <3>1, <3>5, <4>2 DEF Gathered, a, s
    <3> QED BY <3>4, <3>5 DEF a, s
  <2> QED BY <2>1, <2>2 DEF Seen
<1>8. Replies(client, replies, catalogs')
  <2>1. ASSUME NEW q, NEW r, Fits(q, r, catalogs) PROVE Fits(q, r, catalogs')
    BY <2>1, <1>4 DEF Fits, Grown
  <2> QED BY <1>3, <2>1 DEF Replies
<1> QED BY <1>2, <1>3, <1>6, <1>7, <1>8 DEF CatalogInv, Inv, Sound

-----------------------------------------------------------------------------
LEMMA InitInv == CatalogInit => CatalogInv
<1> SUFFICES ASSUME CatalogInit PROVE CatalogInv OBVIOUS
<1>1. PICK d \in Container : client = NewClient(d) BY DEF CatalogInit
<1>2. Empty \in IdMap(Request) /\ Empty \in IdMap(Inspection) /\ Empty \in IdMap(Seq(Words)) /\ DOMAIN Empty = {}
  BY MapEmpty
<1>3. NoMirror \in MirrorState /\ NoMirror.available = FALSE BY DEF NoMirror, MirrorState, Drives
<1>4. client \in ClientState
  <2> HIDE DEF Empty
  <2> QED BY <1>1, <1>2, <1>3 DEF NewClient, ClientState, Drives
<1>5. /\ client.online = FALSE /\ client.requests = Empty /\ client.inspections = Empty /\ client.answers = Empty
      /\ client.snapshot = None /\ client.mirror = NoMirror
  BY <1>1 DEF NewClient
<1>6. catalogs \in Histories /\ \A e \in Container : Len(catalogs[e]) = 1
  <2>1. <<{}>> \in Seq(SUBSET Path) /\ Len(<<{}>>) = 1 OBVIOUS
  <2> QED BY <2>1 DEF CatalogInit, Histories
<1>7. Ledger(client) BY <1>2, <1>5 DEF Ledger
<1>8. Settled(client) /\ Fetch(client) BY <1>2, <1>5 DEF Settled, Fetch, Fetching
<1>9. Seen(client, catalogs) BY <1>3, <1>5 DEF Seen, Whole
<1>10. Replies(client, replies, catalogs) BY <1>2 DEF Replies, CatalogInit
<1>11. reachable \in BOOLEAN BY DEF CatalogInit
<1>12. \A e \in Container : Len(catalogs[e]) >= 1 BY <1>6
<1> QED BY <1>4, <1>6, <1>7, <1>8, <1>9, <1>10, <1>11, <1>12 DEF CatalogInv, Type, Inv, Sound

LEMMA NextInv == CatalogInv /\ [CatalogNext]_catalogVars => CatalogInv'
<1> SUFFICES ASSUME CatalogInv, [CatalogNext]_catalogVars PROVE CatalogInv' OBVIOUS
<1>1. /\ client \in ClientState /\ Sound(client, catalogs) /\ Replies(client, replies, catalogs)
      /\ catalogs \in Histories /\ reachable \in BOOLEAN
  BY DEF CatalogInv, Type, Inv
<1>2. \A q : Fits(q, Failure, catalogs) BY DEF Fits, Failure
<1>3. \A id : Safe(client, finishDrive(client, id, Failure), catalogs) BY <1>1, <1>2, FinishDriveSound
<1>4. CASE Call
  <2>1. connected(client) BY <1>4 DEF Call, refused
  <2>2. Safe(client, client', catalogs) /\ UNCHANGED <<reachable, catalogs, replies>>
    BY <1>1, <1>4, <2>1, CallStep DEF Call
  <2> QED BY <2>2, ClientSteps
<1>5. CASE inspectHostFile
  <2>1. Safe(client, client', catalogs) /\ UNCHANGED <<reachable, catalogs, replies>>
    BY <1>1, <1>5, InspectStep DEF inspectHostFile
  <2> QED BY <2>1, ClientSteps
<1>6. CASE refreshContainer
  <2>1. Safe(client, client', catalogs) /\ UNCHANGED <<reachable, catalogs, replies>>
    BY <1>1, <1>6, RefreshSound DEF refreshContainer
  <2> QED BY <2>1, ClientSteps
<1>7. CASE RefreshDue
  <2> DEFINE n == client.due - 1
             f == [client EXCEPT !.due = n]
  <2>1. client' = refreshHost(f) /\ UNCHANGED <<reachable, catalogs, replies>> BY <1>7 DEF RefreshDue
  <2>2. n \in Nat BY <1>1, <1>7 DEF RefreshDue, ClientState
  <2> HIDE DEF n
  <2>3. f \in ClientState /\ Agree(client, f) /\ f.snapshot = client.snapshot /\ f.mirror = client.mirror
    BY <1>1, <2>2 DEF ClientState, Agree
  <2> HIDE DEF f
  <2>4. Seen(f, catalogs) BY <1>1, <2>3 DEF Sound, Seen, Agree
  <2>5. client.online \/ f.snapshot = None BY <1>1, <2>3 DEF Sound, Settled
  <2>6. Safe(client, f, catalogs) BY <1>1, <2>3, <2>4, <2>5, AgreeSound DEF Safe
  <2>7. Safe(f, refreshHost(f), catalogs) BY <2>6, RefreshSound DEF Safe
  <2>8. Safe(client, client', catalogs) BY <1>1, <2>1, <2>6, <2>7, SafeTrans
  <2> QED BY <2>1, <2>8, ClientSteps
<1>8. CASE Update
  <2>1. client = [client EXCEPT !.account = client.account] /\ client.account \in Drives BY <1>1 DEF ClientState
  <2>2. Safe(client, update(client, reachable), catalogs) BY <1>1, <2>1, UpdateSound
  <2> QED BY <1>8, <2>2, ClientSteps DEF Update
<1>9. CASE Link
  <2>1. UNCHANGED <<client, catalogs, replies>> /\ reachable' \in BOOLEAN BY <1>9 DEF Link
  <2> QED BY <2>1 DEF CatalogInv, Type, Inv
<1>10. ASSUME NEW i \in 1..MaxId, InspectStart(i) PROVE CatalogInv'
  <2>1. Safe(client, client', catalogs) /\ UNCHANGED <<reachable, catalogs, replies>>
    BY <1>1, <1>10, InspectPageSound DEF InspectStart
  <2> QED BY <2>1, ClientSteps
<1>11. ASSUME NEW i \in 1..MaxId, transmitDrive(i) PROVE CatalogInv'
  <2>1. CASE client' = finishDrive(client, i, Failure)
    <3>1. Safe(client, client', catalogs) BY <1>3, <2>1
    <3> QED BY <1>11, <3>1, ClientSteps DEF transmitDrive
  <2>2. CASE client' = [client EXCEPT !.requests[i].at = "wire"] BY <1>11, <2>2, SendStep DEF transmitDrive
  <2> QED BY <1>11, <2>1, <2>2 DEF transmitDrive
<1>12. ASSUME NEW i \in 1..MaxId, Receive(i) PROVE CatalogInv'
  <2> DEFINE r == replies[i]
             m == [type |-> "result", result |-> r]
             x == IF r.ok /\ r.container # client.account THEN Failure ELSE r
  <2>1. i \in DOMAIN replies /\ client' = receiveDrive(client, i, m) BY <1>12 DEF Receive
  <2>2. \/ client' = client \/ client' = finishDrive(client, i, Failure) \/ client' = finishDrive(client, i, x)
    BY <2>1 DEF receiveDrive
  <2>3. i \in DOMAIN client.requests => Fits(client.requests[i], x, catalogs) BY <1>1, <1>2, <2>1 DEF Replies
  <2> HIDE DEF x
  <2>4. Safe(client, finishDrive(client, i, x), catalogs) BY <1>1, <2>3, FinishDriveSound
  <2>5. Safe(client, client', catalogs) BY <1>1, <1>3, <2>2, <2>4, SafeSame
  <2> QED BY <1>12, <2>5, ClientSteps DEF Receive
<1>13. ASSUME NEW i \in 1..MaxId, Deadline(i) PROVE CatalogInv'
  <2>1. "error" \in Words BY DEF Words
  <2>2. Safe(client, finishInspection(client, i, "error"), catalogs) BY <1>1, <2>1, InspectionAnswered
  <2>3. Safe(client, client', catalogs) BY <1>3, <1>13, <2>2 DEF Deadline
  <2> QED BY <1>13, <2>3, ClientSteps DEF Deadline
<1>14. ASSUME NEW d \in Drives, AccountChanged(d) PROVE CatalogInv'
  <2>1. Safe(client, client', catalogs) BY <1>1, <1>14, UpdateSound DEF AccountChanged
  <2> QED BY <1>14, <2>1, ClientSteps DEF AccountChanged
<1>15. CASE UNCHANGED catalogVars BY <1>15 DEF catalogVars, CatalogInv, Type, Inv
<1> QED BY <1>4, <1>5, <1>6, <1>7, <1>8, <1>9, <1>10, <1>11, <1>12, <1>13, <1>14, <1>15,
           ExecuteStep, HostIndexStep DEF CatalogNext, Drives

(***************************************************************************)
(* The accounts of the client's tables, of the snapshot being fetched and  *)
(* of the replies under way hold after any events of Client.cpp, of the    *)
(* host and of the network.                                                *)
(***************************************************************************)
THEOREM CatalogInvariance == CatalogSpec => []CatalogInv
BY InitInv, NextInv, PTL DEF CatalogSpec

(***************************************************************************)
(* Whatever reply, deadline, lost connection or change of account comes    *)
(* first, a public call of Client.cpp is answered once and only once.      *)
(***************************************************************************)
THEOREM CallsAnsweredOnce == CatalogSpec => []AnsweredOnce
<1>1. CatalogInv => AnsweredOnce BY DEF CatalogInv, Inv, Sound, Ledger, AnsweredOnce
<1> QED BY <1>1, CatalogInvariance, PTL

(***************************************************************************)
(* The mirror that Client.cpp offers is the catalogue of one drive at one  *)
(* revision, for any size of page and any catalogue, however the host's    *)
(* index moved between the pages.                                          *)
(***************************************************************************)
THEOREM MirrorWhole == CatalogSpec => []MirrorIsSnapshot
<1>1. CatalogInv => MirrorIsSnapshot BY DEF CatalogInv, Inv, Sound, Seen, Whole, MirrorIsSnapshot
<1> QED BY <1>1, CatalogInvariance, PTL
=============================================================================
