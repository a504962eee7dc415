--------------------------- MODULE TransferProofs ---------------------------
(***************************************************************************)
(* What a transfer publishes, for files, chunks and windows of every size  *)
(* and any number of versions, downloads and failures.                     *)
(***************************************************************************)
EXTENDS Transfer, SequenceTheorems, FiniteSetTheorems, TLAPS

Entry == [v : Nat, resident : BOOLEAN]

(* The mirror's entry is ahead of neither the round under way nor the host: only a round brings newer
   entries, and a download publishes nothing but the version the entry names. *)
Behind ==
  /\ host \in Nat /\ record \in Entry /\ record.v <= host
  /\ sync.pc # "idle" => sync.v \in Nat /\ record.v <= sync.v /\ sync.v <= host

(* A round is a record of its fields. *)
Shape(s) == s = [f \in DOMAIN NoRound |-> s[f]]

IInv == Behind /\ Shape(sync) /\ PublishedWhole

(* The steps that leave the published file and its entry alone, and the round with its version. *)
Elsewhere ==
  /\ UNCHANGED <<record, disk>> /\ Shape(sync')
  /\ host' = host \/ host' = host + 1
  /\ sync'.pc = "idle" \/ (sync'.v = sync.v /\ sync.pc # "idle" /\ host' = host) \/ sync' = sync

(* commit publishes the version it is called for, whole, or leaves the entry and the file. *)
LEMMA CommitPublishes ==
  ASSUME NEW v, NEW done \in BOOLEAN, commit(v, done)
  PROVE  \/ UNCHANGED <<record, disk>>
         \/ /\ record' = [v |-> v, resident |-> TRUE] /\ disk' = whole(v) /\ disk' # None
BY DEF commit, intact, store

(* Steps elsewhere preserve the invariant. *)
LEMMA ElsewherePreserves == ASSUME IInv, Elsewhere PROVE IInv'
<1>1. PublishedWhole' BY DEF IInv, PublishedWhole, Elsewhere, whole
<1>2. Behind' BY DEF IInv, Behind, Elsewhere, Entry
<1> QED BY <1>1, <1>2 DEF IInv, Elsewhere, Shape

(* A published whole version that the entry may have preserves the invariant. *)
LEMMA PublishPreserves ==
  ASSUME IInv, NEW v \in Nat, record.v <= v, v <= host, host' = host,
         record' = [v |-> v, resident |-> TRUE], disk' = whole(v), disk' # None,
         Shape(sync'), sync'.pc = "idle" \/ (sync' = sync /\ v = record.v)
  PROVE  IInv'
<1>1. PublishedWhole' BY DEF IInv, PublishedWhole, whole
<1>2. Behind' BY DEF IInv, Behind, Entry
<1> QED BY <1>1, <1>2 DEF IInv, Shape

(* A round that ends, and one of which other fields change, keep the shape of a round. *)
LEMMA RoundEnded == Ended => Shape(sync') /\ sync'.pc = "idle"
BY DEF Ended, Shape, NoRound

LEMMA RoundGoesOn ==
  ASSUME Shape(sync), NEW x, NEW y,
         \/ sync' = [sync EXCEPT !.pc = "chunks", !.offset = x]
         \/ sync' = [sync EXCEPT !.asked = x]
         \/ sync' = [sync EXCEPT !.asked = x, !.replied = y]
         \/ sync' = [sync EXCEPT !.replied = x, !.received = y]
         \/ sync' = [sync EXCEPT !.received = x, !.offset = y]
  PROVE  Shape(sync') /\ sync'.v = sync.v
BY DEF Shape, NoRound

(* It holds at the start. *)
LEMMA Initial == Init => IInv
BY DEF Init, IInv, Shape, Behind, PublishedWhole, Entry, NoRound

(* The invariant is inductive, and no step takes the entry back. *)
LEMMA Step == ASSUME IInv, [Next]_vars PROVE IInv' /\ record'.v >= record.v
<1> USE DEF store, app
<1>s. Shape(sync) /\ record \in Entry /\ record.v \in Nat /\ host \in Nat BY DEF IInv, Behind, Entry
<1>e. ASSUME Elsewhere PROVE IInv' /\ record'.v >= record.v
  BY <1>e, <1>s, ElsewherePreserves DEF Elsewhere
<1>o. ASSUME UNCHANGED <<record, disk, host>>, Ended PROVE IInv' /\ record'.v >= record.v
  BY <1>o, <1>e, RoundEnded DEF Elsewhere
<1>g. ASSUME UNCHANGED <<record, disk, host>>, sync.pc # "idle", Shape(sync') /\ sync'.v = sync.v
      PROVE  IInv' /\ record'.v >= record.v
  BY <1>g, <1>e DEF Elsewhere
<1>1. CASE UNCHANGED vars
  BY <1>1, <1>e, <1>s DEF vars, Elsewhere
<1>2. CASE HostEdit
  BY <1>2, <1>e, <1>s DEF HostEdit, Elsewhere
<1>3. CASE SyncStart
  <2>1. sync' = [NoRound EXCEPT !.pc = "entry", !.v = host] /\ UNCHANGED <<host, record, disk>>
    BY <1>3 DEF SyncStart
  <2>2. sync'.pc = "entry" /\ sync'.v = host /\ Shape(sync') BY <2>1 DEF NoRound, Shape
  <2>3. PublishedWhole' BY <2>1 DEF IInv, PublishedWhole, whole
  <2>4. Behind' BY <2>1, <2>2 DEF IInv, Behind, Entry
  <2> QED BY <2>1, <2>2, <2>3, <2>4, <1>s DEF IInv, Shape
<1>4. CASE PullMetadata
  <2>1. /\ record' = [v |-> sync.v, resident |-> FALSE] /\ disk' = None /\ host' = host
        /\ Ended /\ sync.pc # "idle"
    BY <1>4 DEF PullMetadata, Round
  <2>2. PublishedWhole' BY <2>1 DEF PublishedWhole
  <2>3. Shape(sync') /\ sync'.pc = "idle" BY <2>1, RoundEnded
  <2>4. sync.v \in Nat /\ record.v <= sync.v /\ sync.v <= host BY <2>1 DEF IInv, Behind
  <2>5. Behind' BY <2>1, <2>3, <2>4, <1>s DEF Behind, Entry
  <2> QED BY <2>1, <2>2, <2>3, <2>4, <2>5, <1>s DEF IInv, Shape
<1>5. CASE PullBegin
  <2>1. UNCHANGED <<record, disk, host>> /\ sync.pc # "idle" BY <1>5 DEF PullBegin, Round
  <2>2. CASE Resident(sync.v) BY <1>5, <2>1, <2>2, <1>o DEF PullBegin
  <2>3. CASE ~Resident(sync.v)
    <3>1. sync' = [sync EXCEPT !.pc = "chunks", !.offset = resume(sync.v)] BY <1>5, <2>3 DEF PullBegin
    <3>2. Shape(sync') /\ sync'.v = sync.v BY <3>1, <1>s, RoundGoesOn
    <3> QED BY <2>1, <3>2, <1>g
  <2> QED BY <2>2, <2>3
<1>6. CASE pullChunk
  <2>0. host' = host /\ sync.pc # "idle" BY <1>6 DEF pullChunk, Round
  <2>1. CASE sync' = [sync EXCEPT !.asked = window] /\ UNCHANGED store
    <3>1. Shape(sync') /\ sync'.v = sync.v BY <2>1, <1>s, RoundGoesOn
    <3> QED BY <2>0, <2>1, <3>1, <1>g
  <2>2. CASE Ended /\ \E done \in BOOLEAN : commit(sync.v, done)
    <3>1. Shape(sync') /\ sync'.pc = "idle" BY <2>2, RoundEnded
    <3>2. CASE UNCHANGED <<record, disk>> BY <2>0, <2>2, <3>2, <1>o
    <3>3. CASE record' = [v |-> sync.v, resident |-> TRUE] /\ disk' = whole(sync.v) /\ disk' # None
      <4>1. sync.v \in Nat /\ record.v <= sync.v /\ sync.v <= host BY <2>0 DEF IInv, Behind
      <4>2. IInv' BY <2>0, <3>1, <3>3, <4>1, PublishPreserves
      <4> QED BY <3>3, <4>1, <4>2, <1>s
    <3> QED BY <2>2, <3>2, <3>3, CommitPublishes
  <2> QED BY <1>6, <2>1, <2>2 DEF pullChunk
<1>7. CASE SyncAppend
  <2>1. UNCHANGED <<record, disk, host>> BY <1>7 DEF SyncAppend
  <2>2. CASE Ended BY <2>1, <2>2, <1>o
  <2>3. CASE sync' = [sync EXCEPT !.received = @ \ {sync.offset}, !.offset = @ + Len(bytes(sync.v, sync.offset))]
    <3>1. Shape(sync') /\ sync'.v = sync.v BY <2>3, <1>s, RoundGoesOn
    <3>2. sync'.pc = sync.pc BY <2>3, <1>s DEF Shape, NoRound
    <3> QED BY <2>1, <3>1, <3>2, <1>e DEF Elsewhere
  <2> QED BY <1>7, <2>2, <2>3 DEF SyncAppend
<1>8. CASE SyncFails
  BY <1>8, <1>o DEF SyncFails
<1>9. ASSUME NEW position \in 0..Size - 1, HostRead(position) \/ Receive(position)
      PROVE  IInv' /\ record'.v >= record.v
  <2>1. UNCHANGED <<record, disk, host>> BY <1>9 DEF HostRead, Receive
  <2>2. CASE Ended BY <2>1, <2>2, <1>o
  <2>3. CASE \/ sync' = [sync EXCEPT !.asked = @ \ {position}, !.replied = @ \union {position}]
             \/ sync' = [sync EXCEPT !.replied = @ \ {position}, !.received = @ \union {position}]
    <3>1. Shape(sync') /\ sync'.v = sync.v BY <2>3, <1>s, RoundGoesOn
    <3>2. sync'.pc = sync.pc BY <2>3, <1>s DEF Shape, NoRound
    <3> QED BY <2>1, <3>1, <3>2, <1>e DEF Elsewhere
  <2> QED BY <1>9, <2>2, <2>3 DEF HostRead, Receive
<1>10. CASE start \/ Interrupted \/ WorkerClose \/ prepare \/ DownloadAppend
            \/ (\E op \in {"prepare", "chunk", "commit"} : WorkerSkips(op))
            \/ Event \/ Connect \/ Disconnect \/ HostAnswer \/ Response
  <2>1. UNCHANGED <<record, disk, host, sync>>
    BY <1>10 DEF start, Interrupted, WorkerClose, prepare, DownloadAppend, WorkerSkips, Task,
                 Event, Connect, Disconnect, HostAnswer, Response
  <2> QED BY <2>1, <1>e, <1>s DEF Elsewhere
<1>11. CASE DownloadCommit
  <2>1. UNCHANGED <<host, sync>> BY <1>11 DEF DownloadCommit, Task
  <2>2. CASE UNCHANGED <<record, disk>> BY <2>1, <2>2, <1>e, <1>s DEF Elsewhere
  <2>3. CASE pinned /\ record' = [v |-> io, resident |-> TRUE] /\ disk' = whole(io) /\ disk' # None
    <3>1. io \in Nat /\ record.v = io /\ io <= host BY <2>3, <1>s DEF pinned, IInv, Behind
    <3>2. IInv' BY <2>1, <2>3, <3>1, <1>s, PublishPreserves
    <3> QED BY <2>3, <3>1, <3>2
  <2> QED BY <1>11, <2>2, <2>3, CommitPublishes DEF DownloadCommit
<1> QED BY <1>1, <1>2, <1>3, <1>4, <1>5, <1>6, <1>7, <1>8, <1>9, <1>10, <1>11 DEF Next, Pull

(* The mirror's entry never passes the host's version nor that of the round under way, and what it
   shows as resident is whole, in every reachable state (merge, acceptMetadata). *)
THEOREM Invariance == Spec => []IInv
BY Initial, Step, PTL DEF Spec

(* What is shown as resident is byte for byte the version its entry names (Replica::handle commit). *)
THEOREM WholeFiles == Spec => []PublishedWhole
<1>1. IInv => PublishedWhole BY DEF IInv
<1> QED BY <1>1, Invariance, PTL

(* No transfer takes the mirror back to an older version (expectedVersion, acceptMetadata). *)
THEOREM EntriesAdvance == Spec => NeverOlder
<1>1. IInv /\ [Next]_vars => [record'.v >= record.v]_vars BY Step
<1> QED BY <1>1, Invariance, PTL DEF Spec, NeverOlder
-----------------------------------------------------------------------------
(***************************************************************************)
(* What a download waits for.  Stores and Calls type the files and the     *)
(* calls on their way; Waits says that a download that does not wait for the host   *)
(* or a session has exactly one call of its own with the worker or in its  *)
(* event loop.                                                             *)
(***************************************************************************)
Call == [op : {"prepare", "chunk", "commit", "close"}, epoch : Nat, offset : Nat, data : Seq(Nat)]
Result == [op : {"complete", "error", "prepared", "chunk"}, epoch : Nat, offset : Nat]
DownloadState ==
  [epoch : Nat, active : BOOLEAN, prepared : BOOLEAN, pending : BOOLEAN, request : {"none", "stat", "read"},
   reply : Nat, v : Version \union {0}, native : Nat, offset : Nat]

Parts == [Version -> Seq(Nat) \union {None}]
Stores ==
  /\ host \in Version /\ record.v \in Version /\ part \in Parts /\ sync.offset \in Nat
  /\ sync.pc # "idle" => sync.v \in Version
  /\ sync.pc = "idle" => sync.asked = {} /\ sync.replied = {} /\ sync.received = {}
Calls ==
  /\ download \in DownloadState /\ io \in Version \union {0} /\ connected \in BOOLEAN
  /\ tasks \in Seq(Call) /\ results \in Seq(Result)

(* The calls of a queue that belong to the download of an epoch. *)
Own(calls, e) == {i \in 1..Len(calls) : calls[i].epoch = e /\ calls[i].op # "close"}
Nothing(calls, e) == Own(calls, e) = {}
Just(calls, e) == \E i \in 1..Len(calls) : Own(calls, e) = {i}

(* No call is of a later epoch, and a chunk is only written after preparing. *)
Past(calls, d) ==
  \A i \in 1..Len(calls) : /\ calls[i].epoch <= d.epoch
                           /\ d.active /\ calls[i].epoch = d.epoch /\ calls[i].op = "chunk" => d.prepared

Waits(d, ts, rs, link) ==
  /\ Past(ts, d) /\ Past(rs, d)
  /\ d.reply # 0 => d.request # "none"
  /\ ~d.active => d.request = "none" /\ ~d.prepared
  /\ d.active =>
       IF d.prepared /\ ~d.pending
       THEN Nothing(ts, d.epoch) /\ Nothing(rs, d.epoch) /\ (d.request # "none" \/ ~link)
       ELSE /\ d.request = "none"
            /\ \/ Just(ts, d.epoch) /\ Nothing(rs, d.epoch)
               \/ Nothing(ts, d.epoch) /\ Just(rs, d.epoch)

WInv == Stores /\ Calls /\ Waits(download, tasks, results, connected)

(* What a call appended to a queue, and one taken from its head, does to the calls of an epoch. *)
Mine(call, e) == call.epoch = e /\ call.op # "close"

LEMMA CallAppended ==
  ASSUME NEW S, NEW calls \in Seq(S), NEW call \in S, NEW e
  PROVE  /\ Mine(call, e) /\ Nothing(calls, e) => Just(Append(calls, call), e)
         /\ ~Mine(call, e) => /\ Nothing(calls, e) => Nothing(Append(calls, call), e)
                              /\ Just(calls, e) => Just(Append(calls, call), e)
<1> DEFINE more == Append(calls, call)
<1>1. /\ Len(more) = Len(calls) + 1 /\ Len(calls) \in Nat /\ more[Len(calls) + 1] = call
      /\ \A i \in 1..Len(calls) : more[i] = calls[i]
  OBVIOUS
<1> HIDE DEF more
<1>2. Own(more, e) = Own(calls, e) \union (IF Mine(call, e) THEN {Len(calls) + 1} ELSE {})
  BY <1>1 DEF Own, Mine
<1> QED BY <1>1, <1>2 DEF Nothing, Just, more

LEMMA CallTaken ==
  ASSUME NEW S, NEW calls \in Seq(S), calls # <<>>, NEW e
  PROVE  /\ Nothing(calls, e) => Nothing(Tail(calls), e) /\ ~Mine(Head(calls), e)
         /\ Just(calls, e) => IF Mine(Head(calls), e) THEN Nothing(Tail(calls), e) ELSE Just(Tail(calls), e)
<1> DEFINE rest == Tail(calls)
<1>1. /\ Len(rest) = Len(calls) - 1 /\ Len(calls) \in Nat \ {0} /\ Head(calls) = calls[1]
      /\ \A i \in 1..Len(rest) : rest[i] = calls[i + 1]
  OBVIOUS
<1> HIDE DEF rest
<1>2. \A i \in 1..Len(rest) : i \in Own(rest, e) <=> i + 1 \in Own(calls, e) BY <1>1 DEF Own
<1>3. 1 \in Own(calls, e) <=> Mine(Head(calls), e) BY <1>1 DEF Own, Mine
<1>4. Own(calls, e) \subseteq 1..Len(calls) /\ Own(rest, e) \subseteq 1..Len(rest) BY DEF Own
<1>5. Nothing(calls, e) => Nothing(rest, e) /\ ~Mine(Head(calls), e)
  BY <1>1, <1>2, <1>3, <1>4 DEF Nothing
<1>6. ASSUME Just(calls, e) PROVE IF Mine(Head(calls), e) THEN Nothing(rest, e) ELSE Just(rest, e)
  <2>1. PICK k \in 1..Len(calls) : Own(calls, e) = {k} BY <1>6 DEF Just
  <2>2. CASE k = 1 BY <1>1, <1>2, <1>3, <1>4, <2>1, <2>2 DEF Nothing
  <2>3. CASE k # 1
    <3>1. k - 1 \in 1..Len(rest) /\ (k - 1) + 1 = k BY <1>1, <2>1, <2>3
    <3>2. Own(rest, e) = {k - 1} BY <1>1, <1>2, <1>4, <2>1, <3>1
    <3> QED BY <1>3, <2>1, <2>3, <3>1, <3>2 DEF Just
  <2> QED BY <2>2, <2>3
<1> QED BY <1>5, <1>6 DEF rest

(* Both keep the calls of a queue within the epochs there have been. *)
LEMMA PastKept ==
  ASSUME NEW S, NEW calls \in Seq(S), NEW d, NEW c, Past(calls, c),
         c.epoch \in Nat, d.epoch \in Nat, \A i \in 1..Len(calls) : calls[i].epoch \in Nat,
         \/ d.epoch > c.epoch
         \/ d.epoch = c.epoch /\ (~d.active \/ d.prepared)
         \/ d.epoch = c.epoch /\ d.active = c.active /\ d.prepared = c.prepared
  PROVE  /\ Past(calls, d)
         /\ calls # <<>> => Past(Tail(calls), d)
         /\ \A call \in S : /\ call.epoch <= d.epoch
                            /\ ~d.active \/ d.prepared \/ call.op # "chunk"
                            => Past(Append(calls, call), d)
<1>1. Past(calls, d) BY DEF Past
<1>2. calls # <<>> => Past(Tail(calls), d)
  <2> SUFFICES ASSUME calls # <<>> PROVE Past(Tail(calls), d) OBVIOUS
  <2>1. /\ Len(Tail(calls)) = Len(calls) - 1 /\ Len(calls) \in Nat \ {0}
        /\ \A i \in 1..Len(Tail(calls)) : Tail(calls)[i] = calls[i + 1] /\ i + 1 \in 1..Len(calls)
    OBVIOUS
  <2> QED BY <1>1, <2>1 DEF Past
<1>3. ASSUME NEW call \in S, call.epoch <= d.epoch, ~d.active \/ d.prepared \/ call.op # "chunk"
      PROVE  Past(Append(calls, call), d)
  <2>1. /\ Len(Append(calls, call)) = Len(calls) + 1 /\ Len(calls) \in Nat
        /\ Append(calls, call)[Len(calls) + 1] = call
        /\ \A i \in 1..Len(calls) : Append(calls, call)[i] = calls[i]
    OBVIOUS
  <2> QED BY <1>1, <1>3, <2>1 DEF Past
<1> QED BY <1>1, <1>2, <1>3

(* The bytes of a chunk, of a file that ends before it too. *)
LEMMA ChunkBytesTyped == ASSUME NEW v \in Nat, NEW offset \in Nat PROVE bytes(v, offset) \in Seq(Nat)
<1>1. chunk(offset) \in Int BY SizesAssumption DEF chunk
<1>2. CASE chunk(offset) \in Nat BY <1>2 DEF bytes
<1>3. CASE chunk(offset) < 0
  <2>1. 1..chunk(offset) = 1..0 BY <1>1, <1>3
  <2>2. [i \in 1..0 |-> v] \in Seq(Nat) OBVIOUS
  <2> QED BY <2>1, <2>2 DEF bytes
<1> QED BY <1>1, <1>2, <1>3

(* What begin, append, a torn write and commit leave in the parts. *)
LEMMA BegunTyped == ASSUME part \in Parts, NEW v \in Version, begun(v) PROVE part' \in Parts /\ resume(v) \in Nat
<1> DEFINE e == <<>>
<1>1. e \in Seq(Nat) BY EmptySeq
<1>2. part' = [part EXCEPT ![v] = IF @ = None THEN e ELSE @] BY DEF begun
<1> HIDE DEF e
<1>3. part[v] \in Seq(Nat) \union {None} BY DEF Parts
<1>4. part' \in Parts BY <1>1, <1>2, <1>3 DEF Parts
<1>5. resume(v) \in Nat BY <1>3, LenProperties DEF resume
<1> QED BY <1>4, <1>5

LEMMA AppendTyped ==
  ASSUME part \in Parts, NEW v \in Version, NEW offset \in Nat, NEW data \in Seq(Nat),
         appendable(part[v], offset, data),
         part' = [part EXCEPT ![v] = appended(part[v], offset, data)] \/ Torn(v, offset, data)
  PROVE  part' \in Parts
<1>1. part[v] \in Seq(Nat) BY DEF Parts, appendable
<1>2. CASE part' = [part EXCEPT ![v] = appended(part[v], offset, data)]
  <2>1. part[v] \o data \in Seq(Nat) BY <1>1, ConcatProperties
  <2>2. appended(part[v], offset, data) \in Seq(Nat) BY <1>1, <2>1 DEF appended
  <2> QED BY <1>2, <2>2 DEF Parts
<1>3. CASE Torn(v, offset, data)
  <2>1. PICK n \in 0..Len(data) - 1 : part' = [part EXCEPT ![v] = part[v] \o SubSeq(data, 1, n)]
    BY <1>3 DEF Torn, Parts
  <2>2. SubSeq(data, 1, n) \in Seq(Nat)
    <3>1. Len(data) \in Nat BY LenProperties
    <3> QED BY <2>1, <3>1
  <2>3. part[v] \o SubSeq(data, 1, n) \in Seq(Nat) BY <1>1, <2>2, ConcatProperties
  <2> QED BY <2>1, <2>3 DEF Parts
<1> QED BY <1>2, <1>3

LEMMA CommitTyped ==
  ASSUME part \in Parts, record.v \in Version, NEW v \in Version, NEW done \in BOOLEAN, commit(v, done)
  PROVE  part' \in Parts /\ record'.v \in Version
BY DEF commit, store, Parts

(* The stores keep their types. *)
LEMMA StepStores == ASSUME WInv, IInv, [Next]_vars PROVE Stores'
<1> USE DEF store, app
<1>s. /\ host \in Version /\ record.v \in Version /\ part \in Parts /\ sync.offset \in Nat
      /\ sync.pc # "idle" => sync.v \in Version
      /\ sync.pc = "idle" => sync.asked = {} /\ sync.replied = {} /\ sync.received = {}
      /\ Shape(sync) /\ io \in Version \union {0} /\ tasks \in Seq(Call)
  BY DEF WInv, Stores, Calls, IInv
<1>r. ASSUME Ended PROVE sync'.offset \in Nat /\ sync'.pc = "idle" /\ sync'.asked = {} /\ sync'.replied = {} /\ sync'.received = {}
  BY <1>r DEF Ended, NoRound
<1>v. Version \subseteq Nat /\ 0 \notin Version BY SizesAssumption DEF Version
<1>1. CASE UNCHANGED vars BY <1>1, <1>s DEF vars, Stores
<1>2. CASE HostEdit
  <2>1. host' \in Version BY <1>2, <1>s, SizesAssumption DEF HostEdit, Version
  <2> QED BY <1>2, <2>1, <1>s DEF HostEdit, Stores, Version
<1>3. CASE SyncStart
  BY <1>3, <1>s DEF SyncStart, Stores, NoRound
<1>4. CASE PullMetadata
  BY <1>4, <1>s, <1>r DEF PullMetadata, Stores, Round
<1>5. CASE PullBegin
  <2>1. sync.v \in Version /\ UNCHANGED <<host, record>> BY <1>5, <1>s DEF PullBegin, Round
  <2>2. CASE Resident(sync.v) BY <1>5, <2>1, <2>2, <1>s, <1>r DEF PullBegin, Stores
  <2>3. CASE ~Resident(sync.v)
    <3>1. begun(sync.v) /\ sync' = [sync EXCEPT !.pc = "chunks", !.offset = resume(sync.v)]
      BY <1>5, <2>3 DEF PullBegin
    <3>2. part' \in Parts /\ resume(sync.v) \in Nat BY <3>1, <2>1, <1>s, BegunTyped
    <3>3. sync'.pc = "chunks" /\ sync'.v = sync.v /\ sync'.offset = resume(sync.v)
      BY <3>1, <1>s DEF Shape, NoRound
    <3> QED BY <3>2, <3>3, <2>1, <1>s DEF Stores
  <2> QED BY <2>2, <2>3
<1>6. CASE pullChunk
  <2>1. sync.v \in Version /\ host' = host /\ sync.pc = "chunks" BY <1>6, <1>s DEF pullChunk, Round
  <2>2. CASE sync' = [sync EXCEPT !.asked = window] /\ UNCHANGED store
    <3>1. sync'.pc = sync.pc /\ sync'.v = sync.v /\ sync'.offset = sync.offset
      BY <2>2, <1>s DEF Shape, NoRound
    <3> QED BY <2>1, <2>2, <3>1, <1>s DEF Stores
  <2>3. CASE Ended /\ \E done \in BOOLEAN : commit(sync.v, done)
    <3>1. part' \in Parts /\ record'.v \in Version BY <2>1, <2>3, <1>s, CommitTyped
    <3> QED BY <2>1, <2>3, <3>1, <1>s, <1>r DEF Stores
  <2> QED BY <1>6, <2>2, <2>3 DEF pullChunk
<1>7. CASE SyncAppend
  <2>1. /\ sync.pc # "idle" /\ sync.v \in Version /\ sync.v \in Nat /\ UNCHANGED <<host, record>>
    BY <1>7, <1>s, <1>v DEF SyncAppend
  <2> DEFINE data == bytes(sync.v, sync.offset)
  <2>2. data \in Seq(Nat) /\ Len(data) \in Nat BY <2>1, <1>s, ChunkBytesTyped, LenProperties
  <2>3. \/ /\ appendable(part[sync.v], sync.offset, data)
           /\ part' = [part EXCEPT ![sync.v] = appended(part[sync.v], sync.offset, data)]
           /\ sync' = [sync EXCEPT !.received = @ \ {sync.offset}, !.offset = @ + Len(data)]
        \/ Ended /\ UNCHANGED part
        \/ appendable(part[sync.v], sync.offset, data) /\ Torn(sync.v, sync.offset, data) /\ Ended
    BY <1>7 DEF SyncAppend
  <2> HIDE DEF data
  <2>4. part' \in Parts BY <2>1, <2>2, <2>3, <1>s, AppendTyped
  <2>5. CASE Ended BY <2>1, <2>4, <2>5, <1>s, <1>r DEF Stores
  <2>6. CASE sync' = [sync EXCEPT !.received = @ \ {sync.offset}, !.offset = @ + Len(data)]
    <3>1. sync'.pc = sync.pc /\ sync'.v = sync.v /\ sync'.offset = sync.offset + Len(data)
      BY <2>6, <1>s DEF Shape, NoRound
    <3> QED BY <2>1, <2>2, <2>4, <3>1, <1>s DEF Stores
  <2> QED BY <2>3, <2>5, <2>6
<1>8. CASE SyncFails
  BY <1>8, <1>s, <1>r DEF SyncFails, Stores
<1>9. ASSUME NEW position \in 0..Size - 1, HostRead(position) \/ Receive(position)
      PROVE  Stores'
  <2>1. UNCHANGED <<host, record, part>> BY <1>9 DEF HostRead, Receive
  <2>2. CASE Ended BY <2>1, <2>2, <1>s, <1>r DEF Stores
  <2>3. CASE \/ sync' = [sync EXCEPT !.asked = @ \ {position}, !.replied = @ \union {position}]
             \/ sync' = [sync EXCEPT !.replied = @ \ {position}, !.received = @ \union {position}]
    <3>1. sync'.pc = sync.pc /\ sync'.v = sync.v /\ sync'.offset = sync.offset
      BY <2>3, <1>s DEF Shape, NoRound
    <3>2. sync.pc # "idle" BY <1>9, <1>s DEF HostRead, Receive
    <3> QED BY <2>1, <3>1, <3>2, <1>s DEF Stores
  <2> QED BY <1>9, <2>2, <2>3 DEF HostRead, Receive
<1>10. CASE start \/ Interrupted \/ WorkerClose \/ (\E op \in {"prepare", "chunk", "commit"} : WorkerSkips(op))
            \/ Event \/ Connect \/ Disconnect \/ HostAnswer \/ Response
  <2>1. UNCHANGED <<record, host, sync, part>>
    BY <1>10 DEF start, Interrupted, WorkerClose, WorkerSkips, Task,
                 Event, Connect, Disconnect, HostAnswer, Response
  <2> QED BY <2>1, <1>s DEF Stores
<1>11. CASE prepare
  <2>1. UNCHANGED <<record, host, sync>> BY <1>11 DEF prepare, Task
  <2>2. UNCHANGED part \/ (download.v \in Version /\ begun(download.v))
    <3>1. UNCHANGED part \/ (record = [v |-> download.v, resident |-> FALSE] /\ begun(download.v))
      BY <1>11 DEF prepare
    <3> QED BY <3>1, <1>s
  <2>3. part' \in Parts BY <2>2, <1>s, BegunTyped
  <2> QED BY <2>1, <2>3, <1>s DEF Stores
<1>12. CASE DownloadAppend
  <2>1. UNCHANGED <<record, host, sync>> BY <1>12 DEF DownloadAppend, Task
  <2> DEFINE t == Head(tasks)
  <2>2. t.offset \in Nat /\ t.data \in Seq(Nat)
    <3>1. t \in Call BY <1>12, <1>s, HeadTailProperties DEF DownloadAppend, Task
    <3> HIDE DEF t
    <3> QED BY <3>1 DEF Call
  <2>3. \/ UNCHANGED part
        \/ /\ io # 0 /\ appendable(part[io], t.offset, t.data)
           /\ part' = [part EXCEPT ![io] = appended(part[io], t.offset, t.data)] \/ Torn(io, t.offset, t.data)
    BY <1>12, <1>s DEF DownloadAppend, pinned, Parts
  <2> HIDE DEF t
  <2>4. part' \in Parts BY <2>2, <2>3, <1>s, AppendTyped
  <2> QED BY <2>1, <2>4, <1>s DEF Stores
<1>13. CASE DownloadCommit
  <2>1. UNCHANGED <<host, sync>> BY <1>13 DEF DownloadCommit, Task
  <2>2. UNCHANGED <<record, part>> \/ (io \in Version /\ \E done \in BOOLEAN : commit(io, done))
    BY <1>13, <1>s DEF DownloadCommit, pinned
  <2>3. part' \in Parts /\ record'.v \in Version BY <2>2, <1>s, CommitTyped
  <2> QED BY <2>1, <2>3, <1>s DEF Stores
<1> QED BY <1>1, <1>2, <1>3, <1>4, <1>5, <1>6, <1>7, <1>8, <1>9, <1>10, <1>11, <1>12, <1>13 DEF Next, Pull

(* Every call has an epoch. *)
LEMMA Epochs ==
  /\ \A calls \in Seq(Call) : \A i \in 1..Len(calls) : calls[i].epoch \in Nat
  /\ \A calls \in Seq(Result) : \A i \in 1..Len(calls) : calls[i].epoch \in Nat
<1>1. ASSUME NEW calls \in Seq(Call), NEW i \in 1..Len(calls) PROVE calls[i].epoch \in Nat
  <2>1. calls[i] \in Call BY ElementOfSeq
  <2> QED BY <2>1 DEF Call
<1>2. ASSUME NEW calls \in Seq(Result), NEW i \in 1..Len(calls) PROVE calls[i].epoch \in Nat
  <2>1. calls[i] \in Result BY ElementOfSeq
  <2> QED BY <2>1 DEF Result
<1> QED BY <1>1, <1>2

(* What advance leaves to wait for, of a download that waits for what it would without a session. *)
LEMMA AdvanceWaits ==
  ASSUME NEW d \in DownloadState, NEW rs \in Seq(Result), NEW link \in BOOLEAN,
         tasks \in Seq(Call), d.epoch = download.epoch, advance(d, link), Waits(d, tasks, rs, FALSE)
  PROVE  /\ Waits(download', tasks', rs, connected')
         /\ download' \in DownloadState /\ tasks' \in Seq(Call) /\ connected' \in BOOLEAN
<1> DEFINE ready == d.active /\ d.prepared /\ ~d.pending /\ d.request = "none" /\ link
           e == <<>>
           call == [op |-> "commit", epoch |-> download.epoch, offset |-> 0, data |-> e]
<1>t. /\ d.epoch \in Nat /\ d.active \in BOOLEAN /\ d.prepared \in BOOLEAN /\ d.pending \in BOOLEAN
      /\ d.request \in {"none", "stat", "read"} /\ d.native \in Nat /\ d.offset \in Nat /\ Size \in Nat
  BY SizesAssumption DEF DownloadState
<1>c. connected' = link /\ connected' \in BOOLEAN BY DEF advance
<1>1. CASE ~ready
  <2>1. download' = d /\ tasks' = tasks BY <1>1 DEF advance
  <2>2. d.active /\ d.prepared /\ ~d.pending => d.request # "none" \/ ~link BY <1>1
  <2> HIDE DEF ready
  <2>3. Waits(d, tasks, rs, link) BY <2>2, <1>t DEF Waits
  <2> QED BY <2>1, <2>3, <1>c
<1>2. CASE ready /\ ~(d.native # 0 /\ d.offset >= Size)
  <2>1. PICK request \in {"stat", "read"} : download' = [d EXCEPT !.request = request]
    BY <1>2, <1>t DEF advance
  <2>2. tasks' = tasks BY <1>2 DEF advance
  <2>3. /\ download' \in DownloadState /\ download'.request # "none" /\ download'.epoch = d.epoch
        /\ download'.active = d.active /\ download'.prepared = d.prepared /\ download'.pending = d.pending
    BY <2>1 DEF DownloadState
  <2>4. d.active /\ d.prepared /\ ~d.pending BY <1>2
  <2> HIDE DEF ready
  <2>5. Waits(download', tasks, rs, link) BY <2>3, <2>4, <1>t DEF Waits, Past
  <2> QED BY <2>2, <2>3, <2>5, <1>c
<1>3. CASE ready /\ d.native # 0 /\ d.offset >= Size
  <2>1. download' = [d EXCEPT !.pending = TRUE] /\ tasks' = Append(tasks, call)
    BY <1>3, <1>t DEF advance, post
  <2>2. /\ download' \in DownloadState /\ download'.request = d.request /\ download'.epoch = d.epoch
        /\ download'.active = d.active /\ download'.prepared = d.prepared /\ download'.pending
        /\ download'.reply = d.reply
    BY <2>1 DEF DownloadState
  <2>3. call \in Call /\ call.epoch = d.epoch /\ call.op = "commit"
    <3>1. e \in Seq(Nat) BY EmptySeq
    <3> HIDE DEF e
    <3> QED BY <3>1, <1>t DEF Call
  <2>4. d.active /\ d.prepared /\ ~d.pending /\ d.request = "none" BY <1>3
  <2>5. Nothing(tasks, d.epoch) /\ Nothing(rs, d.epoch) /\ Past(tasks, d) /\ Past(rs, d) /\ d.reply = 0
    BY <2>4 DEF Waits
  <2> HIDE DEF ready, call
  <2>6. Just(tasks', d.epoch) BY <2>1, <2>3, <2>5, CallAppended DEF Mine
  <2>7. \A i \in 1..Len(tasks) : tasks[i].epoch \in Nat BY Epochs
  <2>8. \A i \in 1..Len(rs) : rs[i].epoch \in Nat BY Epochs
  <2>9. Past(tasks', download')
    <3>1. call.epoch <= download'.epoch /\ download'.prepared BY <2>2, <2>3, <2>4, <1>t
    <3> QED BY <2>1, <2>2, <2>3, <2>5, <2>7, <3>1, <1>t, PastKept
  <2>10. Past(rs, download') BY <2>2, <2>5, <2>8, <1>t, PastKept
  <2>11. Waits(download', tasks', rs, link) BY <2>2, <2>4, <2>5, <2>6, <2>9, <2>10 DEF Waits
  <2> QED BY <2>1, <2>2, <2>3, <2>11, <1>c, AppendProperties
<1> QED BY <1>1, <1>2, <1>3

(* After finish nothing is waited for; what is on its way is of no later epoch. *)
LEMMA FinishWaits ==
  ASSUME Calls, Waits(download, tasks, results, connected), finish,
         NEW rs \in Seq(Result), rs = results \/ (results # <<>> /\ rs = Tail(results))
  PROVE  /\ Waits(download', tasks', rs, connected')
         /\ download' \in DownloadState /\ tasks' \in Seq(Call) /\ connected' \in BOOLEAN
<1> DEFINE e == <<>>
           call == [op |-> "close", epoch |-> download.epoch, offset |-> 0, data |-> e]
<1>1. download' = NoDownload(download.epoch) /\ connected' = FALSE /\ tasks' = Append(tasks, call)
  BY DEF finish, post
<1>2. download.epoch \in Nat /\ tasks \in Seq(Call) /\ results \in Seq(Result) BY DEF Calls, DownloadState
<1>3. call \in Call /\ call.epoch = download.epoch
  <2>1. e \in Seq(Nat) BY EmptySeq
  <2> HIDE DEF e
  <2> QED BY <2>1, <1>2 DEF Call
<1>4. /\ download' \in DownloadState /\ download'.epoch = download.epoch /\ ~download'.active
      /\ download'.request = "none" /\ ~download'.prepared /\ download'.reply = 0
  BY <1>1, <1>2 DEF NoDownload, DownloadState
<1> HIDE DEF call
<1>5. \A i \in 1..Len(tasks) : tasks[i].epoch \in Nat BY <1>2, Epochs
<1>6. \A i \in 1..Len(results) : results[i].epoch \in Nat BY <1>2, Epochs
<1>7. Past(tasks, download) /\ Past(results, download) BY DEF Waits
<1>8. Past(tasks', download')
  <2>1. call.epoch <= download'.epoch /\ ~download'.active BY <1>2, <1>3, <1>4
  <2> QED BY <1>1, <1>2, <1>3, <1>4, <1>5, <1>7, <2>1, PastKept
<1>9. Past(rs, download')
  <2>1. /\ Past(results, download')
        /\ results # <<>> => Past(Tail(results), download')
    BY <1>2, <1>4, <1>6, <1>7, PastKept
  <2> QED BY <2>1
<1>10. Waits(download', tasks', rs, connected') BY <1>4, <1>8, <1>9 DEF Waits
<1> QED BY <1>1, <1>2, <1>3, <1>4, <1>10, AppendProperties

(* The worker takes a call of the download and answers it. *)
LEMMA ReplyWaits ==
  ASSUME Calls, Waits(download, tasks, results, connected),
         NEW op \in {"prepare", "chunk", "commit"}, Task(op), ~cancelled(Head(tasks)),
         NEW answer \in {"complete", "error", "prepared", "chunk"}, NEW offset \in Nat, Reply(answer, offset),
         answer = "chunk" => op = "chunk"
  PROVE  Waits(download', tasks', results', connected') /\ tasks' \in Seq(Call) /\ results' \in Seq(Result)
<1> DEFINE call == [op |-> answer, epoch |-> download.epoch, offset |-> offset]
<1>1. /\ tasks # <<>> /\ tasks' = Tail(tasks) /\ results' = Append(results, call)
      /\ UNCHANGED <<download, connected>> /\ Head(tasks).op = op
      /\ Head(tasks).epoch = download.epoch /\ download.active
  BY DEF Task, Reply, cancelled
<1>2. download.epoch \in Nat /\ tasks \in Seq(Call) /\ results \in Seq(Result) BY DEF Calls, DownloadState
<1>3. call \in Result /\ call.epoch = download.epoch /\ call.op = answer BY <1>2 DEF Result
<1> HIDE DEF call
<1>4. Mine(Head(tasks), download.epoch) /\ Mine(call, download.epoch) BY <1>1, <1>3 DEF Mine
<1>5. ~Nothing(tasks, download.epoch) BY <1>1, <1>2, <1>4, CallTaken
<1>6. /\ Just(tasks, download.epoch) /\ Nothing(results, download.epoch) /\ download.request = "none"
      /\ ~(download.prepared /\ ~download.pending) /\ download.reply = 0
      /\ Past(tasks, download) /\ Past(results, download)
  BY <1>1, <1>5 DEF Waits
<1>7. Nothing(tasks', download.epoch) BY <1>1, <1>2, <1>4, <1>6, CallTaken
<1>8. Just(results', download.epoch) BY <1>1, <1>2, <1>3, <1>4, <1>6, CallAppended
<1>9. Past(tasks', download)
  <2>1. \A i \in 1..Len(tasks) : tasks[i].epoch \in Nat BY <1>2, Epochs
  <2> QED BY <1>1, <1>2, <1>6, <2>1, PastKept
<1>10. Past(results', download)
  <2>1. \A i \in 1..Len(results) : results[i].epoch \in Nat BY <1>2, Epochs
  <2>2. call.epoch <= download.epoch BY <1>2, <1>3
  <2>3. call.op # "chunk" \/ download.prepared
    <3>1. Len(tasks) \in Nat \ {0} /\ Head(tasks) = tasks[1] BY <1>1, <1>2
    <3>2. op = "chunk" => download.prepared BY <1>1, <1>6, <3>1 DEF Past
    <3> QED BY <1>3, <3>2
  <2> QED BY <1>1, <1>2, <1>3, <1>6, <2>1, <2>2, <2>3, PastKept
<1>11. Waits(download, tasks', results', connected) BY <1>1, <1>6, <1>7, <1>8, <1>9, <1>10 DEF Waits
<1>12. tasks' \in Seq(Call) BY <1>1, <1>2, HeadTailProperties
<1>13. results' \in Seq(Result) BY <1>1, <1>2, <1>3, AppendProperties
<1> QED BY <1>1, <1>11, <1>12, <1>13

(* The worker takes a call that is not of the download under way, or a close. *)
LEMMA SkipWaits ==
  ASSUME Calls, Waits(download, tasks, results, connected), NEW op, Task(op), results' = results,
         op = "close" \/ cancelled(Head(tasks))
  PROVE  Waits(download', tasks', results', connected') /\ tasks' \in Seq(Call) /\ results' \in Seq(Result)
<1>1. /\ tasks # <<>> /\ tasks' = Tail(tasks) /\ UNCHANGED <<download, connected>>
      /\ ~download.active \/ ~Mine(Head(tasks), download.epoch)
  BY DEF Task, cancelled, Mine
<1>2. download.epoch \in Nat /\ tasks \in Seq(Call) /\ results \in Seq(Result) BY DEF Calls, DownloadState
<1>3. Past(tasks', download)
  <2>1. \A i \in 1..Len(tasks) : tasks[i].epoch \in Nat BY <1>2, Epochs
  <2>2. Past(tasks, download) BY DEF Waits
  <2> QED BY <1>1, <1>2, <2>1, <2>2, PastKept
<1>4. ~Mine(Head(tasks), download.epoch) =>
        /\ Nothing(tasks, download.epoch) => Nothing(tasks', download.epoch)
        /\ Just(tasks, download.epoch) => Just(tasks', download.epoch)
  BY <1>1, <1>2, CallTaken
<1>5. Waits(download, tasks', results, connected) BY <1>1, <1>3, <1>4 DEF Waits
<1>6. tasks' \in Seq(Call) BY <1>1, <1>2, HeadTailProperties
<1> QED BY <1>1, <1>2, <1>5, <1>6

(* A new download waits for its first call, whatever earlier ones have left on its way. *)
LEMMA StartWaits ==
  ASSUME Stores, Calls, Waits(download, tasks, results, connected), start
  PROVE  Calls' /\ Waits(download', tasks', results', connected')
<1> DEFINE epoch == download.epoch + 1
           fresh == [NoDownload(epoch) EXCEPT !.active = TRUE]
           e == <<>>
           task == [op |-> "prepare", epoch |-> epoch, offset |-> 0, data |-> e]
           result == [op |-> "complete", epoch |-> epoch, offset |-> 0]
<1>1. /\ download.epoch \in Nat /\ epoch \in Nat /\ download.epoch < epoch
      /\ tasks \in Seq(Call) /\ results \in Seq(Result)
  BY DEF Calls, DownloadState
<1>2. task \in Call /\ task.epoch = epoch /\ task.op = "prepare"
  <2>1. e \in Seq(Nat) BY EmptySeq
  <2> HIDE DEF e
  <2> QED BY <2>1, <1>1 DEF Call
<1>3. result \in Result /\ result.epoch = epoch /\ result.op = "complete" BY <1>1 DEF Result
<1>4. UNCHANGED <<io, connected>> /\ io \in Version \union {0} /\ connected \in BOOLEAN BY DEF start, Calls
<1>5. \/ download' = fresh /\ results' = Append(results, result) /\ tasks' = tasks
      \/ /\ \E v \in 1..record.v : download' = [fresh EXCEPT !.v = v, !.pending = TRUE]
         /\ tasks' = Append(tasks, task) /\ results' = results
  <2>1. CASE disk # None BY <2>1 DEF start
  <2>2. CASE disk = None
    <3>1. \E v \in 1..record.v : download' = [fresh EXCEPT !.v = v, !.pending = TRUE] BY <2>2 DEF start
    <3>2. tasks' = Append(tasks, task) /\ results' = results BY <2>2 DEF start
    <3> QED BY <3>1, <3>2
  <2> QED BY <2>1, <2>2
<1>6. /\ download' \in DownloadState /\ download'.epoch = epoch /\ download'.active /\ ~download'.prepared
      /\ download'.request = "none" /\ download'.reply = 0
  <2>1. fresh \in DownloadState BY <1>1 DEF NoDownload, DownloadState
  <2>2. /\ fresh.epoch = epoch /\ fresh.active /\ ~fresh.prepared /\ fresh.request = "none" /\ fresh.reply = 0
    BY DEF NoDownload
  <2> HIDE DEF fresh
  <2>3. 1..record.v \subseteq Version BY SizesAssumption DEF Stores, Version
  <2>4. ASSUME NEW v \in 1..record.v, download' = [fresh EXCEPT !.v = v, !.pending = TRUE]
        PROVE  /\ download' \in DownloadState /\ download'.epoch = epoch /\ download'.active /\ ~download'.prepared
               /\ download'.request = "none" /\ download'.reply = 0
    BY <2>1, <2>2, <2>3, <2>4 DEF DownloadState
  <2> QED BY <1>5, <2>1, <2>2, <2>4
<1>7. Nothing(tasks, epoch) /\ Nothing(results, epoch)
  <2>1. Past(tasks, download) /\ Past(results, download) BY DEF Waits
  <2>2. \A i \in 1..Len(tasks) : tasks[i].epoch # epoch BY <1>1, <2>1, Epochs DEF Past
  <2>3. \A i \in 1..Len(results) : results[i].epoch # epoch BY <1>1, <2>1, Epochs DEF Past
  <2> QED BY <2>2, <2>3 DEF Nothing, Own
<1> HIDE DEF fresh, task, result, epoch
<1>8. Past(tasks', download') /\ Past(results', download')
  <2>1. Past(tasks, download) /\ Past(results, download) BY DEF Waits
  <2>2. task.epoch <= download'.epoch /\ result.epoch <= download'.epoch BY <1>1, <1>2, <1>3, <1>6
  <2>3. Past(tasks, download') /\ Past(Append(tasks, task), download')
    BY <1>1, <1>2, <1>6, <2>1, <2>2, Epochs, PastKept
  <2>4. Past(results, download') /\ Past(Append(results, result), download')
    BY <1>1, <1>3, <1>6, <2>1, <2>2, Epochs, PastKept
  <2> QED BY <1>5, <2>3, <2>4
<1>9. \/ Just(tasks', epoch) /\ Nothing(results', epoch)
      \/ Nothing(tasks', epoch) /\ Just(results', epoch)
  <2>1. Just(Append(tasks, task), epoch) BY <1>1, <1>2, <1>7, CallAppended DEF Mine
  <2>2. Just(Append(results, result), epoch) BY <1>1, <1>3, <1>7, CallAppended DEF Mine
  <2> QED BY <1>5, <1>7, <2>1, <2>2
<1>10. Waits(download', tasks', results', connected') BY <1>6, <1>8, <1>9 DEF Waits
<1>11. tasks' \in Seq(Call) /\ results' \in Seq(Result)
  <2>1. Append(tasks, task) \in Seq(Call) BY <1>1, <1>2, AppendProperties
  <2>2. Append(results, result) \in Seq(Result) BY <1>1, <1>3, AppendProperties
  <2> QED BY <1>1, <1>5, <2>1, <2>2
<1> QED BY <1>4, <1>6, <1>10, <1>11 DEF Calls

(* The event loop takes a result of the worker. *)
LEMMA EventWaits ==
  ASSUME Calls, Waits(download, tasks, results, connected), Event
  PROVE  Calls' /\ Waits(download', tasks', results', connected')
<1> DEFINE r == Head(results)
           d == [download EXCEPT !.pending = FALSE, !.offset = r.offset]
           p == [d EXCEPT !.prepared = TRUE]
<1>1. results # <<>> /\ results' = Tail(results) /\ io' = io BY DEF Event, app
<1>2. /\ download \in DownloadState /\ download.epoch \in Nat /\ connected \in BOOLEAN
      /\ tasks \in Seq(Call) /\ results \in Seq(Result) /\ io \in Version \union {0}
  BY DEF Calls, DownloadState
<1>3. results' \in Seq(Result) /\ r \in Result /\ r = results[1] /\ Len(results) \in Nat \ {0}
  BY <1>1, <1>2
<1>4. r.offset \in Nat /\ r.op # "close" BY <1>3 DEF Result
<1>5. /\ d \in DownloadState /\ p \in DownloadState
      /\ d.epoch = download.epoch /\ p.epoch = download.epoch /\ d.active = download.active /\ p.active = download.active
      /\ d.request = download.request /\ p.request = download.request /\ d.reply = download.reply /\ p.reply = download.reply
      /\ ~d.pending /\ ~p.pending /\ d.prepared = download.prepared /\ p.prepared
  BY <1>2, <1>4 DEF DownloadState
<1>6. Past(tasks, download) /\ Past(results, download) BY DEF Waits
<1>7. \/ stale(r) /\ UNCHANGED <<download, tasks, connected>>
      \/ ~stale(r) /\ finish
      \/ ~stale(r) /\ r.op = "prepared" /\ advance(p, connected)
      \/ ~stale(r) /\ r.op = "chunk" /\ advance(d, connected)
  BY DEF Event
<1> HIDE DEF r, p, d
<1>8. CASE stale(r) /\ UNCHANGED <<download, tasks, connected>>
  <2>1. ~download.active \/ ~Mine(r, download.epoch) BY <1>8 DEF stale, Mine
  <2>2. ~Mine(r, download.epoch) =>
          /\ Nothing(results, download.epoch) => Nothing(results', download.epoch)
          /\ Just(results, download.epoch) => Just(results', download.epoch)
    BY <1>1, <1>2, CallTaken DEF r
  <2>3. Past(results', download)
    <3>1. results # <<>> => Past(Tail(results), download) BY <1>2, <1>6, Epochs, PastKept
    <3> QED BY <1>1, <3>1
  <2>4. Waits(download, tasks, results', connected) BY <2>1, <2>2, <2>3 DEF Waits
  <2> QED BY <1>1, <1>2, <1>3, <1>8, <2>4 DEF Calls
<1>9. CASE finish
  <2>1. Waits(download', tasks', results', connected') /\ download' \in DownloadState /\ tasks' \in Seq(Call) /\ connected' \in BOOLEAN
    BY <1>1, <1>3, <1>9, FinishWaits
  <2> QED BY <1>1, <1>2, <1>3, <2>1 DEF Calls
<1>10. ASSUME ~stale(r), NEW x \in {d, p}, advance(x, connected), r.op = "chunk" \/ x = p
       PROVE  Calls' /\ Waits(download', tasks', results', connected')
  <2>1. Mine(r, download.epoch) /\ download.active /\ r.epoch = download.epoch BY <1>4, <1>10 DEF stale, Mine
  <2>2. ~Nothing(results, download.epoch) BY <1>1, <1>2, <2>1, CallTaken DEF r
  <2>3. Just(results, download.epoch) /\ Nothing(tasks, download.epoch) /\ download.request = "none" /\ download.reply = 0
    BY <2>1, <2>2 DEF Waits
  <2>4. Nothing(results', download.epoch) BY <1>1, <1>2, <2>1, <2>3, CallTaken DEF r
  <2>5. r.op = "chunk" => download.prepared BY <1>3, <1>6, <2>1 DEF Past
  <2>6. x.prepared /\ ~x.pending /\ x.epoch = download.epoch /\ x.active /\ x.request = "none" /\ x.reply = 0 /\ x \in DownloadState
    BY <1>5, <1>10, <2>1, <2>3, <2>5
  <2>7. Past(tasks, x) BY <1>2, <1>6, <2>6, Epochs, PastKept
  <2>8. Past(results', x) BY <1>1, <1>2, <1>6, <2>6, Epochs, PastKept
  <2>9. Waits(x, tasks, results', FALSE) BY <2>3, <2>4, <2>6, <2>7, <2>8 DEF Waits
  <2>10. Waits(download', tasks', results', connected') /\ download' \in DownloadState /\ tasks' \in Seq(Call) /\ connected' \in BOOLEAN
    BY <1>2, <1>3, <1>10, <2>6, <2>9, AdvanceWaits
  <2> QED BY <1>1, <1>2, <1>3, <2>10 DEF Calls
<1> QED BY <1>7, <1>8, <1>9, <1>10

(* The host, asked, has answered. *)
LEMMA ResponseWaits ==
  ASSUME Calls, Waits(download, tasks, results, connected), Response
  PROVE  Calls' /\ Waits(download', tasks', results', connected')
<1> DEFINE d == [download EXCEPT !.request = "none", !.reply = 0]
           n == [d EXCEPT !.native = download.reply]
           w == [d EXCEPT !.pending = TRUE]
           b == bytes(download.reply, d.offset)
           call == [op |-> "chunk", epoch |-> download.epoch, offset |-> d.offset, data |-> b]
<1>1. /\ download \in DownloadState /\ download.epoch \in Nat /\ connected \in BOOLEAN /\ download.reply \in Nat
      /\ tasks \in Seq(Call) /\ results \in Seq(Result) /\ io \in Version \union {0} /\ download.active \in BOOLEAN
  BY DEF Calls, DownloadState
<1>2. UNCHANGED <<results, io>> /\ download.reply # 0 BY DEF Response
<1>3. download.request # "none" /\ download.active /\ download.prepared /\ ~download.pending
  BY <1>1, <1>2 DEF Waits
<1>4. Nothing(tasks, download.epoch) /\ Nothing(results, download.epoch) /\ Past(tasks, download) /\ Past(results, download)
  BY <1>3 DEF Waits
<1>5. /\ d \in DownloadState /\ n \in DownloadState /\ w \in DownloadState
      /\ n.epoch = download.epoch /\ n.active /\ n.prepared /\ ~n.pending /\ n.request = "none" /\ n.reply = 0
      /\ w.epoch = download.epoch /\ w.active /\ w.prepared /\ w.pending /\ w.request = "none" /\ w.reply = 0
  BY <1>1, <1>3 DEF DownloadState
<1>6. d.offset \in Nat /\ b \in Seq(Nat)
  <2>1. d.offset \in Nat BY <1>5 DEF DownloadState
  <2> HIDE DEF d
  <2> QED BY <1>1, <2>1, ChunkBytesTyped
<1>7. advance(n, connected) \/ (download' = w /\ tasks' = Append(tasks, call) /\ connected' = connected)
  BY DEF Response, post
<1> HIDE DEF d, n, w, b
<1>8. CASE advance(n, connected)
  <2>1. Past(tasks, n) /\ Past(results, n) BY <1>1, <1>4, <1>5, Epochs, PastKept
  <2>2. Waits(n, tasks, results, FALSE) BY <1>4, <1>5, <2>1 DEF Waits
  <2>3. Waits(download', tasks', results, connected') /\ download' \in DownloadState /\ tasks' \in Seq(Call) /\ connected' \in BOOLEAN
    BY <1>1, <1>5, <1>8, <2>2, AdvanceWaits
  <2> QED BY <1>1, <1>2, <2>3 DEF Calls
<1>9. CASE download' = w /\ tasks' = Append(tasks, call) /\ connected' = connected
  <2>1. call \in Call /\ call.epoch = download.epoch /\ call.op = "chunk" BY <1>1, <1>6 DEF Call
  <2> HIDE DEF call
  <2>2. Just(tasks', download.epoch) BY <1>1, <1>4, <1>9, <2>1, CallAppended DEF Mine
  <2>3. Past(tasks', w)
    <3>1. call.epoch <= w.epoch BY <1>1, <1>5, <2>1
    <3> QED BY <1>1, <1>4, <1>5, <1>9, <2>1, <3>1, Epochs, PastKept
  <2>4. Past(results, w) BY <1>1, <1>4, <1>5, Epochs, PastKept
  <2>5. Waits(w, tasks', results, connected) BY <1>4, <1>5, <2>2, <2>3, <2>4 DEF Waits
  <2>6. tasks' \in Seq(Call) BY <1>1, <1>9, <2>1, AppendProperties
  <2> QED BY <1>1, <1>2, <1>5, <1>9, <2>5, <2>6 DEF Calls
<1> QED BY <1>7, <1>8, <1>9

(* A download waits for what it should after every step. *)
LEMMA StepWaits ==
  ASSUME Stores, Calls, Waits(download, tasks, results, connected), [Next]_vars
  PROVE  Calls' /\ Waits(download', tasks', results', connected')
<1> USE DEF store, app
<1>c. /\ download \in DownloadState /\ io \in Version \union {0} /\ connected \in BOOLEAN
      /\ tasks \in Seq(Call) /\ results \in Seq(Result) /\ download.epoch \in Nat
      /\ record.v \in Version /\ part \in Parts /\ host \in Nat /\ host # 0
  BY SizesAssumption DEF Calls, DownloadState, Stores, Version
<1>p. Past(tasks, download) /\ Past(results, download) BY DEF Waits
<1>f. ASSUME finish, UNCHANGED <<results, io>> PROVE Calls' /\ Waits(download', tasks', results', connected')
  <2>1. Waits(download', tasks', results, connected') /\ download' \in DownloadState /\ tasks' \in Seq(Call) /\ connected' \in BOOLEAN
    BY <1>c, <1>f, FinishWaits
  <2> QED BY <1>c, <1>f, <2>1 DEF Calls
<1>w. ASSUME UNCHANGED <<download, connected>>, io' \in Version \union {0},
             Waits(download', tasks', results', connected') /\ tasks' \in Seq(Call) /\ results' \in Seq(Result)
      PROVE  Calls' /\ Waits(download', tasks', results', connected')
  BY <1>c, <1>w DEF Calls
<1>1. CASE UNCHANGED app
  BY <1>1, <1>c DEF Calls
<1>2. CASE start BY <1>2, StartWaits
<1>3. CASE Interrupted BY <1>3, <1>f DEF Interrupted
<1>4. CASE WorkerClose
  <2>1. /\ Task("close") /\ results' = results /\ io' = 0 /\ UNCHANGED <<download, connected>>
    BY <1>4 DEF WorkerClose, Task
  <2> QED BY <2>1, <1>w, SkipWaits
<1>5. ASSUME NEW op \in {"prepare", "chunk", "commit"}, WorkerSkips(op)
      PROVE  Calls' /\ Waits(download', tasks', results', connected')
  <2>1. Task(op) /\ UNCHANGED <<download, connected>> /\ io' = io BY <1>5 DEF WorkerSkips, Task
  <2>2. CASE cancelled(Head(tasks)) /\ results' = results BY <2>1, <2>2, <1>c, <1>w, SkipWaits
  <2>3. CASE ~cancelled(Head(tasks)) /\ Reply("error", 0) BY <2>1, <2>3, <1>c, <1>w, ReplyWaits
  <2> QED BY <1>5, <2>2, <2>3 DEF WorkerSkips
<1>6. CASE prepare
  <2>1. /\ Task("prepare") /\ ~cancelled(Head(tasks)) /\ UNCHANGED <<download, connected>>
    BY <1>6 DEF prepare, Task
  <2>2. io' \in Version \union {0} BY <1>6, <1>c DEF prepare, DownloadState
  <2>3. \E answer \in {"complete", "error", "prepared"}, offset \in Nat : Reply(answer, offset)
    <3>1. CASE Reply("error", 0) \/ Reply("complete", 0) BY <3>1
    <3>2. CASE record.v = download.v /\ begun(download.v) /\ Reply("prepared", resume(download.v))
      <4>1. resume(download.v) \in Nat BY <1>c, <3>2, BegunTyped
      <4> QED BY <3>2, <4>1
    <3> QED BY <1>6, <3>1, <3>2 DEF prepare
  <2> QED BY <2>1, <2>2, <2>3, <1>w, ReplyWaits
<1>7. CASE DownloadAppend
  <2> DEFINE t == Head(tasks)
  <2>1. /\ Task("chunk") /\ ~cancelled(t) /\ UNCHANGED <<download, connected>> /\ io' = io
    BY <1>7 DEF DownloadAppend, Task
  <2>2. t.offset + Len(t.data) \in Nat
    <3>1. t \in Call BY <2>1, <1>c, HeadTailProperties DEF Task
    <3> HIDE DEF t
    <3>2. t.offset \in Nat /\ t.data \in Seq(Nat) BY <3>1 DEF Call
    <3>3. Len(t.data) \in Nat BY <3>2, LenProperties
    <3> QED BY <3>2, <3>3
  <2>3. Reply("error", 0) \/ Reply("chunk", t.offset + Len(t.data)) BY <1>7 DEF DownloadAppend
  <2>4. \E answer \in {"error", "chunk"}, offset \in Nat : Reply(answer, offset) BY <2>2, <2>3
  <2> QED BY <2>1, <2>4, <1>c, <1>w, ReplyWaits
<1>8. CASE DownloadCommit
  <2>1. /\ Task("commit") /\ ~cancelled(Head(tasks)) /\ UNCHANGED <<download, connected>> /\ io' = io
    BY <1>8 DEF DownloadCommit, Task
  <2>2. Reply("error", 0) \/ Reply("complete", 0) BY <1>8 DEF DownloadCommit
  <2> QED BY <2>1, <2>2, <1>c, <1>w, ReplyWaits
<1>9. CASE Event BY <1>9, EventWaits
<1>10. CASE Connect
  <2>1. advance(download, TRUE) /\ ~connected /\ UNCHANGED <<results, io>> BY <1>10 DEF Connect
  <2>2. Waits(download, tasks, results, FALSE) BY <2>1, <1>c
  <2>3. Waits(download', tasks', results, connected') /\ download' \in DownloadState /\ tasks' \in Seq(Call) /\ connected' \in BOOLEAN
    BY <1>c, <2>1, <2>2, AdvanceWaits
  <2> QED BY <1>c, <2>1, <2>3 DEF Calls
<1>11. CASE Disconnect
  <2>1. UNCHANGED <<results, io>> BY <1>11 DEF Disconnect
  <2>2. CASE finish BY <2>1, <2>2, <1>f
  <2>3. CASE connected' = FALSE /\ UNCHANGED <<download, tasks>>
    <3>1. Waits(download, tasks, results, FALSE) BY DEF Waits
    <3> QED BY <1>c, <2>1, <2>3, <3>1 DEF Calls
  <2> QED BY <1>11, <2>2, <2>3 DEF Disconnect
<1>12. CASE HostAnswer
  <2>1. UNCHANGED <<results, io>> /\ download.request # "none" BY <1>12 DEF HostAnswer
  <2>2. CASE finish BY <2>1, <2>2, <1>f
  <2>3. CASE download' = [download EXCEPT !.reply = host] /\ UNCHANGED <<tasks, connected>>
    <3>1. /\ download' \in DownloadState /\ download'.epoch = download.epoch /\ download'.active = download.active
          /\ download'.request = download.request /\ download'.prepared = download.prepared
          /\ download'.pending = download.pending
      BY <1>c, <2>3 DEF DownloadState
    <3>2. Past(tasks, download') /\ Past(results, download') BY <1>c, <1>p, <3>1, Epochs, PastKept
    <3>3. Waits(download', tasks, results, connected) BY <2>1, <3>1, <3>2 DEF Waits
    <3> QED BY <1>c, <2>1, <2>3, <3>1, <3>3 DEF Calls
  <2> QED BY <1>12, <2>2, <2>3 DEF HostAnswer
<1>13. CASE Response BY <1>13, ResponseWaits
<1>14. CASE HostEdit \/ Pull \/ PullMetadata \/ SyncFails
            \/ \E position \in 0..Size - 1 : HostRead(position) \/ Receive(position)
  <2>1. UNCHANGED app
    BY <1>14 DEF HostEdit, Pull, PullMetadata, SyncFails, HostRead, Receive, SyncStart, PullBegin, pullChunk, SyncAppend
  <2> QED BY <1>1, <2>1
<1>15. CASE UNCHANGED vars BY <1>1, <1>15 DEF vars
<1> QED BY <1>2, <1>3, <1>4, <1>5, <1>6, <1>7, <1>8, <1>9, <1>10, <1>11, <1>12, <1>13, <1>14, <1>15 DEF Next

(* Nothing is waited for at the start. *)
LEMMA InitialWaits == Init => WInv
<1> SUFFICES ASSUME Init PROVE WInv OBVIOUS
<1> DEFINE e == <<>>
<1>1. tasks = e /\ results = e /\ Len(e) = 0 BY DEF Init
<1>2. e \in Seq(Call) /\ e \in Seq(Result) BY EmptySeq
<1> HIDE DEF e
<1>3. Stores BY SizesAssumption DEF Init, Stores, NoRound, Version, Parts
<1>4. download \in DownloadState /\ ~download.active /\ download.reply = 0 /\ download.request = "none" /\ ~download.prepared
  BY DEF Init, NoDownload, DownloadState
<1>5. Calls BY <1>1, <1>2, <1>4 DEF Init, Calls
<1>6. Waits(download, tasks, results, connected) BY <1>1, <1>4 DEF Waits, Past
<1> QED BY <1>3, <1>5, <1>6 DEF WInv

(* One call of its own is all that a download without a request to the host waits for. *)
LEMMA WaitsBacked == WInv => DownloadBacked
<1> SUFFICES ASSUME WInv, download.active PROVE
        LET mine(calls) == {i \in DOMAIN calls : calls[i].epoch = download.epoch /\ calls[i].op # "close"}
        IN /\ Cardinality(mine(tasks)) + Cardinality(mine(results))
                = (IF download.prepared /\ ~download.pending THEN 0 ELSE 1)
           /\ download.prepared /\ ~download.pending => download.request # "none" \/ ~connected
  BY DEF DownloadBacked
<1> DEFINE mine(calls) == {i \in DOMAIN calls : calls[i].epoch = download.epoch /\ calls[i].op # "close"}
<1>1. mine(tasks) = Own(tasks, download.epoch) /\ mine(results) = Own(results, download.epoch)
  <2>1. DOMAIN tasks = 1..Len(tasks) /\ DOMAIN results = 1..Len(results) BY LenProperties DEF WInv, Calls
  <2> QED BY <2>1 DEF Own
<1> HIDE DEF mine
<1>2. \A i : Cardinality({i}) = 1 BY FS_Singleton
<1>3. Cardinality({}) = 0 BY FS_EmptySet
<1>4. CASE download.prepared /\ ~download.pending
  <2>1. /\ Own(tasks, download.epoch) = {} /\ Own(results, download.epoch) = {}
        /\ download.request # "none" \/ ~connected
    BY <1>4 DEF WInv, Waits, Nothing
  <2>2. Cardinality(mine(tasks)) + Cardinality(mine(results)) = 0
    <3>1. Cardinality(mine(tasks)) = 0 /\ Cardinality(mine(results)) = 0 BY <1>1, <1>3, <2>1
    <3> QED BY <3>1
  <2> QED BY <1>4, <2>1, <2>2 DEF mine
<1>5. CASE ~(download.prepared /\ ~download.pending)
  <2>1. \/ Just(tasks, download.epoch) /\ Nothing(results, download.epoch)
        \/ Nothing(tasks, download.epoch) /\ Just(results, download.epoch)
    BY <1>5 DEF WInv, Waits
  <2>2. Cardinality(mine(tasks)) + Cardinality(mine(results)) = 1
    <3>1. \/ Cardinality(mine(tasks)) = 1 /\ Cardinality(mine(results)) = 0
          \/ Cardinality(mine(tasks)) = 0 /\ Cardinality(mine(results)) = 1
      BY <1>1, <1>2, <1>3, <2>1 DEF Just, Nothing
    <3> QED BY <3>1
  <2> QED BY <1>5, <2>2 DEF mine
<1> QED BY <1>4, <1>5

(* A download waits for exactly one thing, whatever cancelled downloads before it have left with the
   worker or in the event loop (FileDownload::Private, DownloadWorker). *)
THEOREM DownloadsBacked == Spec => []DownloadBacked
<1>1. Init => WInv BY InitialWaits
<1>2. IInv /\ WInv /\ [Next]_vars => WInv'
  <2> SUFFICES ASSUME IInv, WInv, [Next]_vars PROVE WInv' OBVIOUS
  <2>1. Stores' BY StepStores
  <2>2. Calls' /\ Waits(download', tasks', results', connected') BY StepWaits DEF WInv
  <2> QED BY <2>1, <2>2 DEF WInv
<1>3. WInv => DownloadBacked BY WaitsBacked
<1> QED BY <1>1, <1>2, <1>3, Invariance, PTL DEF Spec
=============================================================================
