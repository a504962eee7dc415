------------------------------ MODULE Transfer ------------------------------
(***************************************************************************)
(* How the bytes of a catalogued file reach a mirror.  A Synchronizer      *)
(* (src/Sync/Synchronizer.cpp) fetches a window of chunks at a time, whose *)
(* answers come in any order; a FileDownload (src/Media/FileDownload.cpp)  *)
(* of another process fetches one chunk after the other over a Client.     *)
(* Both append to the same private part file of a version (Replica::handle *)
(* of src/Sync/Replica.cpp, ConfinedFiles::append) and publish it by       *)
(* renaming it.  The operation lock makes each of their accesses to the    *)
(* replica one step.                                                       *)
(*                                                                         *)
(* One path.  A file is a sequence of bytes, each of which names the       *)
(* version of the host's file it was read from.  All versions have one     *)
(* size, the case in which a download cannot tell them apart.              *)
(***************************************************************************)
EXTENDS Integers, Sequences, FiniteSets

CONSTANTS None,         \* no file
          Size,         \* bytes of a version
          ChunkBytes,   \* bytes of a chunk
          Window,       \* chunks asked for at a time, 1 to 4 in the code
          MaxVersion,   \* bound on the versions of the host's file
          MaxStarts,    \* bound on the downloads
          MaxFailures   \* bound on failed rounds, torn writes and busy stores

ASSUME SizesAssumption ==
  /\ {Size, ChunkBytes, Window, MaxVersion} \subseteq Nat \ {0} /\ {MaxStarts, MaxFailures} \subseteq Nat

VARIABLES host,       \* version of the host's file
          record,     \* the mirror's entry: version, and whether its payload is resident
          disk,       \* the mirror's file, or None
          part,       \* [version -> its part file, or None]
          sync,       \* Synchronizer: the entry being pulled
          download,   \* FileDownload::Private
          io,         \* DownloadWorker: version of its entry, or 0 when closed
          tasks,      \* calls queued for the worker's thread
          results,    \* calls queued for the event loop of the download
          connected,  \* the Client of the download has a session
          failures

store == <<record, disk, part>>
app == <<download, io, tasks, results, connected>>
vars == <<host, store, sync, app, failures>>

Version == 1..MaxVersion
whole(v) == [i \in 1..Size |-> v]

NoRound == [pc |-> "idle", v |-> 0, offset |-> 0, asked |-> {}, replied |-> {}, received |-> {}]
NoDownload(epoch) ==
  [epoch |-> epoch, active |-> FALSE, prepared |-> FALSE, pending |-> FALSE, request |-> "none",
   reply |-> 0, v |-> 0, native |-> 0, offset |-> 0]

(* The mirror has the first version in its catalogue. *)
Init ==
  /\ host = 1 /\ record = [v |-> 1, resident |-> FALSE] /\ disk = None
  /\ part = [v \in Version |-> None]
  /\ sync = NoRound /\ download = NoDownload(0) /\ io = 0
  /\ tasks = <<>> /\ results = <<>> /\ connected = FALSE /\ failures = 0

HostEdit ==
  /\ host < MaxVersion /\ host' = host + 1
  /\ UNCHANGED <<store, sync, app, failures>>

Failure == failures < MaxFailures /\ failures' = failures + 1

-----------------------------------------------------------------------------
(* The replica: begin, chunk and commit of Replica::handle.                *)

chunk(offset) == IF Size - offset < ChunkBytes THEN Size - offset ELSE ChunkBytes
bytes(v, offset) == [i \in 1..chunk(offset) |-> v]

(* Mutation: a transfer starts from the first byte whatever the part holds. *)
resume_Start(v) == 0

(* begin: the part is created, or resumed at its size. *)
resume(v) == IF part[v] = None THEN 0 ELSE Len(part[v])
begun(v) == part' = [part EXCEPT ![v] = IF @ = None THEN <<>> ELSE @]

(* ConfinedFiles::append: at the end, or again what is there. *)
appendable(p, offset, data) ==
  /\ p # None
  /\ offset = Len(p) \/ (offset + Len(data) <= Len(p) /\ SubSeq(p, offset + 1, offset + Len(data)) = data)
appended(p, offset, data) == IF offset = Len(p) THEN p \o data ELSE p

(* A write that fails, or whose process dies, in the middle of a chunk. *)
Torn(v, offset, data) ==
  /\ offset = Len(part[v]) /\ Failure
  /\ \E n \in 0..Len(data) - 1 : part' = [part EXCEPT ![v] = @ \o SubSeq(data, 1, n)]

(* Mutation: the size of a part is all that is checked. *)
intact_Size(p, v) == Len(p) = Size

intact(p, v) == p = whole(v)

Resident(v) == record = [v |-> v, resident |-> TRUE]

(* commit of version v: nothing to do, published, or refused, a corrupt whole part being removed. *)
commit(v, done) ==
  LET p == part[v]
      ready == p # None /\ Len(p) = Size
  IN \/ Resident(v) /\ done /\ UNCHANGED store
     \/ /\ ~Resident(v) /\ ready /\ intact(p, v) /\ done
        /\ disk' = p /\ record' = [v |-> v, resident |-> TRUE] /\ part' = [part EXCEPT ![v] = None]
     \/ /\ ~Resident(v) /\ ~(ready /\ intact(p, v)) /\ ~done
        /\ part' = [part EXCEPT ![v] = IF ready THEN None ELSE @] /\ UNCHANGED <<record, disk>>

-----------------------------------------------------------------------------
(* The Synchronizer.                                                       *)

Round(pc) == sync.pc = pc
Ended == sync' = NoRound

(* A page of changes, or an outstanding request, brings the entry of the host's file. *)
SyncStart ==
  /\ Round("idle") /\ ~Resident(host)
  /\ sync' = [NoRound EXCEPT !.pc = "entry", !.v = host]
  /\ UNCHANGED <<host, store, app, failures>>

(* acceptMetadata: nobody asked for the bytes; an older payload is evicted. *)
PullMetadata ==
  /\ Round("entry") /\ record.v # sync.v
  /\ record' = [v |-> sync.v, resident |-> FALSE] /\ disk' = None
  /\ Ended /\ UNCHANGED <<host, part, app, failures>>

PullBegin ==
  /\ Round("entry")
  /\ IF Resident(sync.v) THEN Ended /\ UNCHANGED part
     ELSE begun(sync.v) /\ sync' = [sync EXCEPT !.pc = "chunks", !.offset = resume(sync.v)]
  /\ UNCHANGED <<host, record, disk, app, failures>>

window == {sync.offset + i * ChunkBytes : i \in 0..Window - 1} \intersect 0..Size - 1
Drained == sync.asked = {} /\ sync.replied = {} /\ sync.offset \notin sync.received

(* The window is exhausted: the next one, or commit. *)
pullChunk ==
  /\ Round("chunks") /\ Drained
  /\ \/ /\ sync.offset < Size
        /\ sync' = [sync EXCEPT !.asked = window] /\ UNCHANGED store
     \/ /\ sync.offset = Size
        /\ Ended /\ \E done \in BOOLEAN : commit(sync.v, done)
  /\ UNCHANGED <<host, app, failures>>

(* The host's answer to read: the bytes, or file_changed, which ends the round. *)
HostRead(position) ==
  /\ position \in sync.asked
  /\ IF host = sync.v
     THEN sync' = [sync EXCEPT !.asked = @ \ {position}, !.replied = @ \union {position}]
     ELSE Ended
  /\ UNCHANGED <<host, store, app, failures>>

Receive(position) ==
  /\ position \in sync.replied /\ sync.offset \notin sync.received
  /\ sync' = [sync EXCEPT !.replied = @ \ {position}, !.received = @ \union {position}]
  /\ UNCHANGED <<host, store, app, failures>>

(* The chunks received are appended in order, each under the operation lock. *)
SyncAppend ==
  /\ sync.offset \in sync.received
  /\ LET data == bytes(sync.v, sync.offset)
         p == part[sync.v]
     IN \/ /\ appendable(p, sync.offset, data)
           /\ part' = [part EXCEPT ![sync.v] = appended(p, sync.offset, data)]
           /\ sync' = [sync EXCEPT !.received = @ \ {sync.offset}, !.offset = @ + Len(data)]
           /\ UNCHANGED failures
        \/ ~appendable(p, sync.offset, data) /\ Ended /\ UNCHANGED <<part, failures>>
        \/ appendable(p, sync.offset, data) /\ Torn(sync.v, sync.offset, data) /\ Ended
  /\ UNCHANGED <<host, record, disk, app>>

(* A timeout, a cancelled request, an expired slice, a busy store, the end of the process. *)
SyncFails ==
  /\ ~Round("idle") /\ Failure /\ Ended
  /\ UNCHANGED <<host, store, app>>

-----------------------------------------------------------------------------
(* The FileDownload.                                                       *)

post(op, offset, data) == Append(tasks, [op |-> op, epoch |-> download.epoch, offset |-> offset, data |-> data])

(* finish: nothing of this download is waited for any longer. *)
finish ==
  /\ download' = NoDownload(download.epoch) /\ connected' = FALSE
  /\ tasks' = post("close", 0, <<>>)

(* advance, of a download d that waits for nothing: the next request to the host, or commit. *)
advance(d, link) ==
  LET ready == d.active /\ d.prepared /\ ~d.pending /\ d.request = "none" /\ link
      fetched == d.native # 0 /\ d.offset >= Size
  IN /\ download' = CASE ready /\ d.native = 0             -> [d EXCEPT !.request = "stat"]
                      [] ready /\ d.native # 0 /\ ~fetched -> [d EXCEPT !.request = "read"]
                      [] ready /\ fetched                  -> [d EXCEPT !.pending = TRUE]
                      [] ~ready                            -> d
     /\ tasks' = IF ready /\ fetched THEN post("commit", 0, <<>>) ELSE tasks
     /\ connected' = link

(* A resident file is ready at once; for another one the worker prepares the version the published
   catalogue shows, which may be behind the entry. *)
start ==
  /\ ~download.active /\ download.epoch < MaxStarts
  /\ LET epoch == download.epoch + 1
         fresh == [NoDownload(epoch) EXCEPT !.active = TRUE]
     IN IF disk # None
        THEN /\ download' = fresh /\ results' = Append(results, [op |-> "complete", epoch |-> epoch, offset |-> 0])
             /\ UNCHANGED tasks
        ELSE /\ \E v \in 1..record.v : download' = [fresh EXCEPT !.v = v, !.pending = TRUE]
             /\ tasks' = Append(tasks, [op |-> "prepare", epoch |-> epoch, offset |-> 0, data |-> <<>>])
             /\ UNCHANGED results
  /\ UNCHANGED <<host, store, sync, io, connected, failures>>

(* cancel, the deadlines, another drive selected, a session of another host. *)
Interrupted ==
  /\ download.active /\ finish
  /\ UNCHANGED <<host, store, sync, io, results, failures>>

(* The worker's thread: the cancelled flag of a call is looked at first. *)
cancelled(call) == call.epoch # download.epoch \/ ~download.active

Task(op) ==
  /\ tasks # <<>> /\ Head(tasks).op = op /\ tasks' = Tail(tasks)
  /\ UNCHANGED <<host, sync, download, connected>>
Reply(op, offset) == results' = Append(results, [op |-> op, epoch |-> download.epoch, offset |-> offset])

WorkerClose == Task("close") /\ io' = 0 /\ UNCHANGED <<store, results, failures>>

(* A cancelled call does nothing; a store that stays busy fails it. *)
WorkerSkips(op) ==
  /\ Task(op)
  /\ \/ cancelled(Head(tasks)) /\ UNCHANGED <<results, failures>>
     \/ ~cancelled(Head(tasks)) /\ Failure /\ Reply("error", 0)
  /\ UNCHANGED <<store, io>>

prepare ==
  /\ Task("prepare") /\ ~cancelled(Head(tasks))
  /\ LET v == download.v
     IN \/ record.v # v /\ io' = 0 /\ Reply("error", 0) /\ UNCHANGED part
        \/ Resident(v) /\ io' = v /\ Reply("complete", 0) /\ UNCHANGED part
        \/ record = [v |-> v, resident |-> FALSE] /\ io' = v /\ begun(v) /\ Reply("prepared", resume(v))
  /\ UNCHANGED <<record, disk, failures>>

(* Mutation: the entry prepared is not compared with the one the replica has now. *)
pinned_None == io # 0

(* expectedVersion *)
pinned == io # 0 /\ record.v = io

DownloadAppend ==
  /\ Task("chunk") /\ ~cancelled(Head(tasks))
  /\ LET t == Head(tasks)
         fits == pinned /\ appendable(part[io], t.offset, t.data)
     IN \/ /\ fits /\ part' = [part EXCEPT ![io] = appended(@, t.offset, t.data)]
           /\ Reply("chunk", t.offset + Len(t.data)) /\ UNCHANGED failures
        \/ ~fits /\ Reply("error", 0) /\ UNCHANGED <<part, failures>>
        \/ fits /\ Torn(io, t.offset, t.data) /\ Reply("error", 0)
  /\ UNCHANGED <<record, disk, io>>

DownloadCommit ==
  /\ Task("commit") /\ ~cancelled(Head(tasks))
  /\ \/ ~pinned /\ Reply("error", 0) /\ UNCHANGED store
     \/ pinned /\ \E done \in BOOLEAN : commit(io, done) /\ Reply(IF done THEN "complete" ELSE "error", 0)
  /\ UNCHANGED <<io, failures>>

(* Mutation: a result is taken by whatever download is active. *)
stale_Active(call) == ~download.active

stale(call) == call.epoch # download.epoch \/ ~download.active

(* The event loop: the result of the worker.  A session may not be available. *)
Event ==
  /\ results # <<>> /\ results' = Tail(results)
  /\ LET r == Head(results)
         d == [download EXCEPT !.pending = FALSE, !.offset = r.offset]
     IN \/ stale(r) /\ UNCHANGED <<download, tasks, connected>>
        \/ ~stale(r) /\ r.op \in {"complete", "error", "prepared"} /\ finish
        \/ ~stale(r) /\ r.op = "prepared" /\ advance([d EXCEPT !.prepared = TRUE], connected)
        \/ ~stale(r) /\ r.op = "chunk" /\ advance(d, connected)
  /\ UNCHANGED <<host, store, sync, io, failures>>

(* Client::changed. *)
Connect ==
  /\ download.prepared /\ ~connected /\ advance(download, TRUE)
  /\ UNCHANGED <<host, store, sync, io, results, failures>>

(* The Client answers what it was asked with an error when its session ends. *)
Disconnect ==
  /\ connected
  /\ \/ download.request # "none" /\ finish
     \/ download.request = "none" /\ connected' = FALSE /\ UNCHANGED <<download, tasks>>
  /\ UNCHANGED <<host, store, sync, io, results, failures>>

(* drive.stat reports the host's file; drive.read refuses another one than was reported. *)
HostAnswer ==
  /\ download.request # "none" /\ download.reply = 0
  /\ \/ /\ download.request = "stat" \/ host = download.native
        /\ download' = [download EXCEPT !.reply = host] /\ UNCHANGED <<tasks, connected>>
     \/ download.request = "read" /\ host # download.native /\ finish
  /\ UNCHANGED <<host, store, sync, io, results, failures>>

(* hostDriveResponse *)
Response ==
  /\ download.reply # 0
  /\ LET d == [download EXCEPT !.request = "none", !.reply = 0]
     IN \/ download.request = "stat" /\ advance([d EXCEPT !.native = download.reply], connected)
        \/ /\ download.request = "read" /\ download' = [d EXCEPT !.pending = TRUE]
           /\ tasks' = post("chunk", d.offset, bytes(download.reply, d.offset)) /\ UNCHANGED connected
  /\ UNCHANGED <<host, store, sync, io, results, failures>>

-----------------------------------------------------------------------------
Pull == SyncStart \/ PullBegin \/ pullChunk \/ SyncAppend

Next ==
  \/ HostEdit \/ Pull \/ PullMetadata \/ SyncFails
  \/ \E position \in 0..Size - 1 : HostRead(position) \/ Receive(position)
  \/ start \/ Interrupted \/ WorkerClose \/ prepare \/ DownloadAppend \/ DownloadCommit
  \/ \E op \in {"prepare", "chunk", "commit"} : WorkerSkips(op)
  \/ Event \/ Connect \/ Disconnect \/ HostAnswer \/ Response

(* Rounds are started, proceed, and are answered; nothing is assumed of the download. *)
Spec ==
  /\ Init /\ [][Next]_vars /\ WF_vars(Pull)
  /\ \A position \in 0..Size - 1 : WF_vars(HostRead(position)) /\ WF_vars(Receive(position))

-----------------------------------------------------------------------------
(* What the mirror shows as resident is, byte for byte, the version its entry names, whoever fetched
   which part of it, in whatever order, and although a download can only tell that the host's file
   does not change, not that it is still the version that was selected. *)
PublishedWhole ==
  /\ record.resident <=> disk # None
  /\ record.resident => disk = whole(record.v)

(* No transfer takes the mirror back to an older version: a download prepared before a round accepted
   a newer entry does not publish what it has fetched. *)
NeverOlder == [][record'.v >= record.v]_vars

(* A download waits for exactly one thing: a call of its own epoch with the worker or the event loop,
   an answer of the host, or a session.  Results of a download that was cancelled, and closing its
   replica late, leave the one that follows neither without a wake-up nor with two. *)
DownloadBacked ==
  LET mine(calls) == {i \in DOMAIN calls : calls[i].epoch = download.epoch /\ calls[i].op # "close"}
  IN download.active =>
       /\ Cardinality(mine(tasks)) + Cardinality(mine(results))
            = (IF download.prepared /\ ~download.pending THEN 0 ELSE 1)
       /\ download.prepared /\ ~download.pending => download.request # "none" \/ ~connected

(* The mirror ends up with the host's file: no part left behind by a failed round, a torn write or a
   download makes every later round fail. *)
Hydrated == <>[](Resident(host))
=============================================================================
