# A TLA+ model of iiSocietyHelper

iiSocietyHelper is the library the iiSociety applications link to find each
other, to exchange messages on one device, and to replicate one container of
files between the devices of a person. This directory models the parts of it
whose correctness depends on order: replication between a host and its mirrors,
the adoption of a host's container and the transfer of files (`src/Sync`,
`src/Media`), direct access to the host's drive (`src/Client`), the mirror an
application shows (`src/Files`, `src/Monitoring`), pairing and presence
(`src/Discovery`, `src/Core`), image generation on the host (`src/Generation`),
and the durable same-device message queue (`src/Delivery`).
Paths below are relative to the repository.

## 1. Inventory

| Part | State it keeps | Operations | Interacts with | What is hard, and what makes it correct |
|---|---|---|---|---|
| **Replica** `Sync/Replica.cpp` | SQLite tables `entries`, `peers`, `metadata` (sequence, counter, host), manifests in memory, the files of the container | `scan`, `refresh`, `save`, `merge` (begin, commit), `acceptMetadata`, `changes`, `handle` (peer requests), requests for originals | NamespaceJournal, ConfinedFiles; called by Synchronizer and Controller | users edit at any time; `merge` is a series of durable steps with no transaction around them. *No saved content is lost; a stale proposal moves aside.* |
| **NamespaceJournal** `Sync/NamespaceJournal.cpp` | `namespace_revisions`: an append-only, hash-chained list of revisions | `commit`, `append`, `accept`, `changes`, `contains`, `locate` | Replica | paging with a fixed bound while the list grows. *A mirror's journal is a prefix of the host's; revisions are never rewritten.* |
| **Synchronizer** `Sync/Synchronizer.cpp` | one round: cursors, page bounds, queues, the snapshot id, a chunk window | `start`, `describe`, `page`, `journalPage`, `announceLocal`, `pullNext`, `pushNext`, `finish` | a peer's Replica over a transport | timeouts, late replies, an expired slice, restarts of either side. *Cursors never pass over what was not taken in or decided; devices converge.* |
| **ConfinedFiles** `Sync/ConfinedFiles.cpp` | the tree below the container | `state`, `list`, `install`, `mkdir`, `remove`, `preserve` | Replica | a path changing kind; `ENOTDIR` |
| **Controller** `Sync/Controller.cpp` | the worker thread, a generation, a table of jobs by token | open, close, schedule, job submission, retry and eviction | Replica, Synchronizer, Client | stale jobs after a close, a full table, a busy store. *A job runs at most once; a reported write has happened.* |
| **DeliveryStore** `Delivery/DeliveryStore.cpp` | SQLite tables `outbox`, `inbox`, `consumers` | `enqueue`, `receivePending`, `readAfter`, `acknowledge`, `acknowledged` | applications and daemons in different processes | two daemons, crashes inside a transaction, two processes of one consumer. *Exactly once, first in first out, checkpoints cover handled messages only.* |
| **Helper, PresenceWorker** `Core/Helper.cpp` | session, heartbeat sequence, workers, observations | `start`, `stop`, `setActivity`, the timer, the directory watcher | records in a shared directory, the delivery store | results applied after `stop()`; slots called from inside `stop()`; records left by crashed processes. *Unless such a slot interferes: a withdrawn session stays withdrawn, one that was dead before is never shown, the heartbeats go on. Always: a dead one is not shown for long.* |
| **Client** `Client/Client.cpp` | account and link, a table of requests with tokens, a catalogue snapshot, inspections, the mirror offered to the application | connect, request, poll, refresh, inspect, deadlines | Controller of the host through a transport | a reply, several deadlines, a lost link and a change of account race; pages of a catalogue that changes. *One answer per call; a mirror of one revision.* |
| **NearbyDevices, AutomaticPairing** `Discovery/` | records of devices, an invitation sent, received or accepted, seen requests, a queue with backoff | record, invite, answer, cancel, resume, deadline | the encrypted link of the SDK, discovery services | lost, repeated, reordered datagrams; restarts; a memory of requests that is cleared when it is full. *An invitation is taken once as long as it is remembered; nobody waits for nobody.* |
| **Monitor** `Monitoring/Monitor.cpp` | a numbered state file in the drive | start, poll, write, stop; subscribe | FileSystem | crashes of publishers, a drive replaced under them. *A state never goes back, and a different content has a new number.* |
| **FileSystem, FilePresentation** `Files/` | the selected drive, an epoch, the rows shown, a scan in flight and one pending | select, refresh, save, adopt | Monitor, a worker thread | a scan ending after a save or another selection. *The rows are of the selection, never older, in the end current.* |
| **FileDownload, MediaExport** `Media/` | one requested original: epoch, offset, request under way | start, cancel, prepare, chunk, commit | Client, a Replica of its own on the shared store | results of a cancelled download; a round of another process at the same part file. *Only whole files are published, no entry goes back.* |
| **Generation Host, Remote** `Generation/` | jobs, a queue, a worker; one job per Remote | submit, cancel, status, read | a lossy transport | a cancellation before its submission, a close during a job. *Final is final; an image is its job's; the queue is pumped.* |
| **AccountSession, GroupSessionStore** | the signed-in account and its groups | sign in, renew, store | storage | renewals overlapping |
| **RemoteFiles, ObjectProvider** | pages of a remote directory; archived bytes | list, fetch, put | Controller | paging |
| **Canvas, Generation and Managed storage, StateCrypto, ObjectCodec, credentials** | file formats and keys | read, write | | input and output only |

`PROJECT.json` lists every part with its status, the hazards at their lines and
the properties aimed at them.

## 2. Plan

Done, in this order: `Replica` (the operators of one device), `Replication`
(devices, rounds, failures), `Delivery` with its abstract specification
`Channel`, `Presence` and its proofs, `Drive` with
`HostDrive` and `HostCatalog`, `Mirror`, `Pairing`, `Generation`, `Adoption`,
`Transfer` and `TransferProofs`; then `GenerationProofs`, `MirrorProofs`,
`ActivityBacked` of Presence and `DownloadBacked` of Transfer; `ReplicationProofs`
and the proofs of HostCatalog; then `OnceProofs` (Delivery and HostDrive), `JoinProofs`
(Adoption and Pairing), `OnlySuperseded` of Replication and, in `ConfirmProofs`,
`OriginalsConfirmed`.

Next, in this order:

1. Proofs: `NoLostEdit` of drives without directories whose conflict copies nobody edits.
   Beyond that it does not hold (section 6).
2. *History*: the automatic events of a helper, their worker and their drain in
   `stop()`, composed with Delivery, into which they are queued.
3. Composition of Adoption with Replication: a mirror that changes its host in
   the middle of a round.

## 3. Modules

### Replica

Pure operators on the state of one device, a record `[id, disk, entries, seq,
counter, journal, head]`. A *body* stands for the triple kind, hash, size: a
positive number is a file with that content. A version is path, body and clock,
since the code digests exactly these. A revision hash chains to the one before
it, so within one authority epoch a revision is its sequence number.

* `save` is `Replica::Private::save`: the authority commits to its journal, a
  mirror keeps the revision it was given or records a proposal on a base.
* `observed` is `observed`/`refresh`; `unchanged`, `indexable` and `scanned` say what
  a `scan` would still do. The scan's last transaction, the candidate deletions, is
  rolled back by a path that cannot be read (`blocked`).
* `merge` is `Replica::Private::merge`, split into `decide` and the durable steps
  `copied`, `copySaved`, `cleared`, `installed`, `merged` in the code's order. Its
  result carries `torn`, every device a crash inside the call can leave.
* `acceptsMetadata` and `acceptMetadata` are the cataloguing of an original without its
  bytes, with the eviction of a cached copy.

### Replication

One action per step of a round, for every mirror: `Start`, `ScanFailed`,
`ChangesPage`, `JournalPage`, `Announce`, `PullMetadata`, `PullBegin`,
`PullCommit`, `EarlyPush`, `PullDone`, `PushBegin`, `SendFailed`, `PushCommit`,
`PushDone`. Around them: `UserEdit` on any device, `IndexSome` (the scan, one path
at a time), `Request` and `CancelRequest`, and the failures `SliceExpired`, `Abort`
(timeout, cancellation, death of the client between two steps), `LateCommit` (the
host processes a transfer nobody waits for), `HostRestart`, `HostCrash` and
`ClientCrash` (death inside a merge).

Abstractions:

* A request and its reply are one step, because the client waits for the reply. The
  two requests that change the host's durable state may also be processed after the
  client has given up: variable `late`.
* A transfer of bytes is one step at its last chunk; before it `PullBegin` or
  `PushBegin` has decided that bytes are needed. An inline file takes both steps in
  succession. The snapshot id is the number of rounds given up on. The pages of a
  manifest are one `Announce`.
* `merge` is atomic towards user edits. The real window, between its refresh and its
  replacement of the file, is covered in the code by archiving what is replaced
  in `.society-sync/recovery`, which is not modelled.
* `order()` sorts directories, deletions (deeper ones first) and files; among files
  any order is allowed.
* Photo identities, previews and object locations are left out. Under
  MetadataFirst they only decide whether bytes are fetched without a request,
  so `PullBegin` may always do it.
* All devices are bound to one authority epoch and their bootstrap is complete.
* A user who writes over a path known only from its catalogue entry replaces the
  catalogued content, since the edit is based on the catalogued revision.

### Delivery and Channel

`Delivery` is the store as several processes use it. A transaction of
`receivePending` is `Begin` (with its selection of rows), one `Move` per row (`INSERT OR
IGNORE`, `DELETE`) and `Commit`; `Rollback` is a failed statement or the death of the
daemon inside it. The outbox has no AUTOINCREMENT, so rowids are used again once
it has been emptied (`newRowid`). `acknowledge` is two statements, hence two
actions. SQLite is external: one writer at a time, uncommitted writes are
invisible. A call that fails with SQLITE_BUSY changes nothing and is a stutter.
`Channel` is what the store promises: message n is delivered once, at position n.

### Presence

One record per `Helper` object holds what `Helper::Private` and its
`PresenceWorker` keep: the session epoch, the instance id (a number), the
heartbeat, the flags `cycleInFlight`, `scanPending` and `publishPending`, the
pending and the active job, the results queued to the event loop, and the
observations. `directory` is the shared directory of records.

* `Start` is `start()` with its synchronous first publication; a failed one goes
  straight to `stop()`. `Tick`, `DirectoryChanged` and `setActivity` call `requestCycle`,
  which captures the values of the job when it is posted.
* The worker is `Take`, `WorkerPublish`, `WorkerFailed`, `WorkerScan`. `Callback` is
  the queued result: dropped if its epoch is not the session's, else `scan()` and the
  follow-up cycle, or `stop()` if the publication failed.
* `stop()` blocks the event loop while it drains the worker. It is `Stop`; `StopFlush`,
  once the worker is idle; and `StopFinish`. Between the first two only the worker (and
  other helpers) move. Between the last two, while `running` is still true, the slots of
  `dataQueued` are called (Helper.cpp:517): one may call `setActivity`, whose job the worker
  takes as any other. `disturbed` notes the sessions this happened in; a session that starts
  while such a cycle is under way inherits it, and the next `stop()` that no slot disturbs
  ends it. `StopFinish` may leave the record behind, as line 522 does when the root has
  changed or the removal fails.
* `Crash` is the death of the process: its record stays.

Abstractions. Time is a choice: `Callback` picks the peers whose last advance is a
timeout old, or finds its own last scan overdue (a suspended application), after
which it knows nothing. A record that is being replaced is listed but cannot be
read. The watcher may always report a change, since the helper's own publications
cause some. The heartbeat number stops at `MaxBeats`; from then on a living peer
looks silent, which loses it sooner but shows nobody longer. The automatic history is
left out: it has a worker of its own and does not touch this state.

### Drive, HostDrive and HostCatalog

`Drive` holds the operators of `Client::Private` on one client record (requests,
snapshot, inspections, mirror) and of `Replica::driveRequest` (a page of a
catalogue). Two modules use it, since the two questions need different hosts:

* `HostDrive` is the client and the host's `Controller`: envelopes with tokens, the
  job table (`handle`, `evicted`), which holds one job per token, the worker with its event queue, its timers for
  a busy store and its signals, generations (`Open`), and the disk a write
  changes. An envelope stays on the network for ever, so it may be lost, late or
  repeated.
* `HostCatalog` is the client over a host that executes a request in one step:
  pages, inspections, all deadlines, `Update`, `AccountChanged`.

A job that has been evicted (Controller.cpp:560) or belonged to a closed
generation may run again when its token is polled: a write then fails with
*exists* although it has succeeded. That is the documented meaning of the token's
lifetime, so `JobRunsOnce` speaks of a job in the table and `WriteReported` of
reported successes only. The refusals at the start of `handleJob` (a primary claim that
cannot be renewed, a drive that is a mirror; Controller.cpp:154) change nothing and are among
the failures a request may end with. The local and the relayed transport are one flag,
`reachable`. A catalogue that changes while it is paged leaves the mirror
unavailable until the next refresh.

### Mirror

`Monitoring::Publisher` (`PublisherStart`, `PollScan`, `PollWrite`,
`PublisherStop`, `Crash`), its subscription and `FileSystem`'s mirror worker with
`mirrorInFlight`, `mirrorPending` and `mirrorEpoch`. A drive is a package with a
version of its content; `Replace` puts another package in its place. Results are
queued to the event loop and taken by `RowsEvent` and `StateEvent`.

### Pairing

`NearbyDevices` and `AutomaticPairing` of every device as operators on the whole
world (`World`), since one datagram may make a device send others. Datagrams are
never removed from `net`: loss, repetition and reordering. The encrypted link
(`tls`) is external: an offer, a connection, a confirmation of both ends. `Still` says that
no attempt is under way, and that neither a datagram nor a decision of a device would
change anything; `Ready`, that no retry timer is armed either.

A device remembers the requests it has seen, 70 seconds from their receipt, which is
longer than their link is good for. `tick` forgets what is old enough, and everything when
more than `MaxSeen` (128 in the code) are remembered (NearbyDevices.cpp:384). Resume
challenges are refused when the memory is full, but invitations are entered without a limit
(line 317). So more than 128 requests within 70 seconds make a device forget, and an
invitation that is still valid and is repeated is put before it again. `taken` counts how
often that happens since the device's memory was last cleared. `Expire` makes a request too
old for all devices at once: their clocks are taken to agree. `Deadline` stands for the end
of an attempt's 20 seconds and for an attempt that fails to start, because the transport, the
offer or the connection cannot be made (AutomaticPairing.cpp:121, :130). Left out is the limit
of 128 endpoints (NearbyDevices.cpp:151): a record that is refused by it is as one that has
not arrived.

### Generation

`Host` (`submit`, `cancel`, `inspect`, `read`, `pump`, the worker `Engine`, `Save`,
`Finished`, `open`, `close`) and the `Remote` of every peer. A request a Remote has
forgotten is not `live`: the host may still obey it, its answer is dropped. A peer
that starts a job again under its identifier gives the same input. The limit of
4096 known jobs is `JobLimit`.

### Adoption

How a drive becomes the mirror of a host: `open`, `bindHost` with its committed plan,
`resumeAdoption` (identity, `detach` file by file, `Adopted`), `completeBootstrap`,
`claimPrimaryHost` of another program. Each durable write is a step, and `Crash` or
`Error` may come between any two. A user who deletes or recreates a planned file
while it is being moved aside makes `detach` fail at every open; `Adopts` excludes
that (`disturbed`). A content is `foreign` to an offered container if the drive held
it when it bound the host and it is not that container's own: two peers may offer
the same container, and what an earlier binding fetched from it belongs there.
`claimPrimaryHost` looks for a binding before it has the lock
and only at the primary record with it (Replica.cpp:672), so a drive may be both;
no property forbids it.

`detach` is the rename that it is on all systems but one. On a macOS Files volume it copies
a file and then unlinks it, and goes through a directory child by child, resuming where both
exist with the same hash (ConfinedFiles.cpp:360 to 378). That branch is not modelled, and
`Preserved` does not speak of it: a file saved between copy and unlink is unlinked
with only the older content preserved.

### Transfer

One file on its way to a mirror. The Synchronizer of a round asks for a window of
chunks (`pullChunk`, `HostRead`, `Receive`, `SyncAppend`); a `FileDownload` of another
process asks for one at a time and has a worker thread (`tasks`) and an event loop
(`results`). Both append to the same part file of a version and publish it with
`commit`. Every byte names the version it was read from, and all versions have one
size: a download compares only size and stamp of the host's file, so that bytes of
a newer version can get into the part, and only the hash tells. `Torn` is a write
that stops inside a chunk. What users do to the path on the mirror is
Replication's subject.

### MC modules

`MCReplication`, `MCDelivery`, `MCPresence` and the others name the model values and
the small functions the configurations assign to constants.

## 4. Runs

| Run | Configuration | Shows |
|---|---|---|
| `mirror` | one mirror, one path, both content policies, 3 edits (2 with MetadataFirst), 1 failure at any step | JournalPrefix, NoLostEdit, CursorSound, OriginalsConfirmed, OnlySuperseded, Convergence, RequestsServed |
| `tree` | a directory and a file in it, either of which may become the other's kind, edits of conflict copies, 1 failure | NoLostEdit |
| `adoption` | 2 files, 2 adoptions one after the other among 4 offers, two of them of one container, 1 edit, 2 crashes or errors | Preserved, NothingForeign, IdentityAgrees, Adopts |
| `transfer` | a file of 5 bytes, chunks of 2, a window of 2, 2 versions, 2 downloads, 1 failure | PublishedWhole, DownloadBacked, NeverOlder, Hydrated |
| `host_jobs` | 1 path, 2 requests, a table of 1 job, 1 fresh token, 3 generations | JobRunsOnce, WriteReported |
| `host_catalog` | 2 paths on pages of 1, 4 identifiers, 2 revisions, 1 inspection | AnsweredOnce, MirrorIsSnapshot, Answered, RefreshServed |
| `drive_mirror` | 1 root, 2 packages of 2 versions, 1 publisher, 2 selections | MirrorOfSelection, NothingOlder, MirrorCurrent |
| `pairing` | 2 devices, 1 of them a desktop, 2 invitations, a memory of 1 request, 1 restart or change | InvitedOnce, AttemptBacked, NoSilentWait |
| `generation` | 2 peers, 2 jobs, images of 2 pieces, 2 starts, 2 disturbances | FinalIsFinal, ImageOfJob, QueuePumped |
| `delivery` | 2 daemons, 2 processes of 1 consumer, 4 messages, 2 crashes | ExactlyOnce, CheckpointHandled, ImplementsChannel, EventuallyHandled |
| `presence` | 2 helpers, 2 sessions, heartbeats up to 2, 2 activity changes, 1 failed publication, failed removal or crash | the five properties of Presence |
| `first_file` | a new path on both sides | HostKeepsContent is violated: the disagreement of section 6 |

Bounds. Three edits are enough for an edit on each side of a conflict and a further one
while it is being decided. They are not enough for everything: `NoLostEdit` fails with four
edits when copies are edited and with five in a tree, see section 6. One failure at any
step, followed by complete rounds, is the pattern the code has to recover from. `PageLimit`
is 2, so that three revisions need a second page and two fill one exactly. Two adoptions
with two crashes let the second adoption meet what the first one left, and a crash interrupt
the resumption of a crash. Five bytes in chunks of two make three chunks, the last one
short, in two windows, so that answers overtake each other and a torn chunk leaves an odd
offset. A table of one job makes every second request meet a full table. Four identifiers
are a snapshot of two pages with calls beside it. Four messages with `Limit` 2 make two full
batches, and let the outbox become empty between them so that rowids are used again. Two
helpers, one failure and two heartbeats are enough for a peer to appear, crash and leave a
record behind, whose number can no longer advance. `Together` is FALSE in the presence run:
activity changes while no other helper has been started, since the two subjects do not touch
the same fields. A helper whose first session a slot has disturbed leaves its flag to the
second, and a `stop()` that no slot disturbs heals it; that a heartbeat a slot has posted shows
another helper a session that had ended takes `Together = TRUE`, and is left to the theorem
`GhostsHidden`. A memory of one request holds the first of two invitations and overflows with
the second, so that both sides of NearbyDevices.cpp:384 are met. There is one desktop: a
dispute between two that could lead is left to the theorem `NobodyWaits`, which is about any
number of them.

Deadlock is not checked where everything may come to rest: applications are stopped
for good, devices stay paired, no more jobs or edits come. Symmetry is used in
`generation` only, over peers and jobs, where no temporal property is checked.

Fairness. Replication assumes what `SyncWorker`'s timer and the event loop give: an
idle mirror starts a round, a round whose request is answered goes on, and the
indexers run. It is weak fairness; for two of the three the enabling condition is
written out. In the liveness run users do not edit conflict copies: a user who
edits one before its original has been merged makes the mirror refuse every later
round with `conflict_name_collision` (Replica.cpp, `merge`), which the documentation
announces; there are no directories either, because of the scan of section 6.
Transfer assumes that rounds are started, go on and are answered, and nothing of
downloads. Adoption assumes that the drive is opened again, that an operation goes on, and that a
host which can be bound is offered again.
HostCatalog assumes that single-shot timers and the periodic update fire, and nothing
of host or network. Mirror assumes that threads, event loop, timers and a running
publisher go on, and that a state file nobody writes grows old; nobody has to start
a publisher. Delivery assumes that some daemon keeps calling `receivePending`, that a
call once started ends, and that a process which waits for the write lock under
`BUSY_TIMEOUT` gets it in the end (strong fairness of `acknowledge`: daemons take and
release the lock for ever). Presence assumes that the worker thread, the event loop
and `stop()` make progress, that the timer of a running helper fires again, and that
time passes: among endless scans not all find the last heartbeat of a dead peer recent
(strong fairness of `Silence`).

## 5. Properties

*Replication.* `JournalPrefix`: a mirror's history never diverges. `NoLostEdit`: no
content that a user saved and no user replaced vanishes from every disk, up to the bounds of
the runs (section 6 says where it ends).
`CursorSound`: the saved cursors pass over nothing that was not taken in, or decided.
`OriginalsConfirmed`: what a successful round has submitted is confirmed.
`OnlySuperseded`: a content leaves a disk only for the user who edits there or once it is a
confirmed revision of its path; the host gives its content up only to a proposal announced
on the very revision it replaces. `HostKeepsContent`, which `first_file` refutes, is what a
user would read into that: replication does not take a user's content off the host's disk.
`Convergence`: the devices agree, on contents or on the catalogue, once users and
failures stop. `RequestsServed`: no request is pending for ever.

*Adoption.* `Preserved`: every file a user saved is on the drive or in its recovery.
`NothingForeign`: what the drive held before is never proposed to the new host.
`IdentityAgrees`: journal, manifest and binding agree wherever a crash can come.
`Adopts`: an adoption that has begun comes to its end.

*Transfer.* `PublishedWhole`: what is shown as resident is the version its entry names.
`NeverOlder`: no entry goes back. `DownloadBacked`: a download waits for exactly one
thing. `Hydrated`: no left-over part makes every later round fail.

*Host drive.* `JobRunsOnce`: a job runs at most once and is finished by its own run
or timeout. `WriteReported`: a write reported as successful has created the file.
`AnsweredOnce`, `Answered`: every call is answered once, and in the end.
`MirrorIsSnapshot`: the mirror is the catalogue of one revision. `RefreshServed`: a
refresh asked for during another one is not lost.

*Mirror.* `MirrorOfSelection`, `NothingOlder`, `MirrorCurrent`: the rows are of the
selected drive, do not go back, and become current.

*Pairing.* `InvitedOnce`: whatever the network repeats, an invitation is put before a device
once between two overflows of its memory of requests, which `tick` empties when it has grown
too large (NearbyDevices.cpp:384), also of requests that are still valid. `AttemptBacked`: no
offer or acceptance outlives its attempt. `NoSilentWait`: two devices that could pair and
are at rest are paired.

*Generation.* `FinalIsFinal`, `ImageOfJob`, `QueuePumped`.

*Delivery.* `ExactlyOnce`, `CheckpointHandled`, `EventuallyHandled`, and
`ImplementsChannel`, which includes that messages arrive in order and that checkpoints do
not go back. `FifoOrder`, the order as an invariant of the store, has a theorem and no run.

*Presence.* `NoResurrection`: once `stop()` has returned, the record of that session
does not come back. `NoGhost`: a session that had ended before a helper's own began
is never shown by it. `DepartedForgotten`: nobody who has left stays visible.
`CycleBacked`: a cycle in flight has a job or a result of the present epoch behind
it, or the heartbeats would end. `ActivityBacked`: the record has the last activity
or its publication is under way; the coalescing of requests does not lose it. All but
`DepartedForgotten` except the sessions that a slot has disturbed during `stop()`, and what
such a session leaves behind: without that exception they are false, as section 6 says.

Every property of a passing run has a mutation of a mapped definition (a dropped
guard, an early cursor, a missing copy) that TLC refutes it with; the mutations
stand before the definitions they change and are named after them.

## 6. Where code and documentation disagree

* `first_file` (a run). A file created on both sides before the mirror has pulled it: the
  mirror's journal may already hold the host's revision, `save` takes that as the
  base of the new file, and the authority replaces its own content without a
  conflict copy.

Met while modelling and proving, and reproducible with these modules, but without a run of
their own:

* A mirror's conflict copy can replace what a user made of that copy on the host
  (Replica.cpp:526, :452). The copy that `merge` makes on a mirror has the clock of the
  revision that won, which is later than the clocks the authority gave to the same copy.
  With a mirror and a file `p`: both sides edit `p`, and a round makes the copy on the
  authority; there a user edits the copy, then deletes `p`. The mirror takes in the deletion
  first and moves its own `p` to the same name, with the clock of the deletion, and when it
  takes in the edited copy, its own seems to be the later one: only its base is advanced,
  and the authority accepts it over the user's edit, although the comment at :492 says that
  a stale proposal cannot replace a newer committed object. `NoLostEdit` is violated so with
  `Seed <- FlatSeed`, `EditCopies = TRUE`, FullReplica, four edits and no failure; what is
  lost is in the recovery directory of the host only.
* A directory that a mirror retains carries the base and the clock of the file the host made
  of it (Replica.cpp:488). When the mirror's user then empties the directory and puts a file
  in its place, that file has the host's file as its base and replaces it without a copy,
  although no user had seen both. `NoLostEdit` is violated so in the instance of the run
  `tree` without edits of copies, with five edits (on the host the file in the directory is
  deleted and the directory replaced by a file; on the mirror the file in it is made again,
  and after the round that retains the directory deleted, and the directory replaced) and no
  failure.
* A round reports success while a conflict copy is still an undecided proposal behind
  the push cursor (Synchronizer.cpp:452; the comment at :449 and
  docs/Sync/Namespace.md:31 say completion includes the conflict decision). It happens
  when the copy is pulled before its original; a later round decides it.
* A directory with an indexed child is replaced by a file on the host: every later scan
  rolls its deletions back (Replica.cpp:840, ConfinedFiles.cpp:147; Controller.cpp:259
  says the host commits local changes).
* `stop()` drains the worker and clears `cycleInFlight`, then
  queues the last messages and emits `dataQueued` (Helper.cpp:511, :513 and :517) while
  `running` is still true. A slot that calls `setActivity` posts a cycle that nothing waits
  for, and its job may write the record again that `stop()` has just removed. The
  repository's README (line 329) says that an old heartbeat cannot recreate a withdrawn
  session. The same cycle leaves `cycleInFlight` set: its result is of an old epoch, and
  `start()` does not clear the flag, so that the next session publishes nothing after its
  first record, until a `stop()` that no slot disturbs. NoResurrection and
  CycleBacked are violated so in the instance of the run `presence` when they are stated
  without `disturbed`.
* A device that has seen more than 128 requests forgets all of them at once, also those that
  have not expired (NearbyDevices.cpp:384), and a repetition of such an invitation is put
  before it again. No text of the repository says otherwise, hence no finding: `InvitedOnce`
  counts between two such moments.

## 7. Proofs

`OnceProofs` is about the two tables that make a repeated call harmless. Of `Delivery` it
proves for any sets of daemons, consumers and processes, any batch size and any number of
messages and crashes:

* `Invariance`: `Spec => []IInv`;
* `StoredOnce`, `ReceivedInOrder`, `CheckpointSafe`: ExactlyOnce, FifoOrder and
  CheckpointHandled from it;
* `CheckpointForward`: a checkpoint never goes back;
* `Refinement`: every behaviour of the store is one of the channel.

None of the properties is inductive. `ExactlyOnce` of the committed tables says
nothing of what a transaction is about to commit, and `FifoOrder` needs to know why
the rows a daemon selected are the oldest. `IInv` therefore says of the committed
tables *and* of the working copy of an open transaction that the inbox is exactly
the first n messages at their positions, the outbox the others, with rowids in
the order of the ids (`Tables`); that the rows still to move are downward closed
(`Oldest`); and that a process's cursor lies within what its consumer has handled.
The assumptions are those of `Delivery`: each process has a consumer, the batch limit is
between 1 and 256, as the code checks, and no daemon is called `NoOne`.

Of `HostDrive` it proves, for any drives, containers, transmissions, closings and job limit:

* `JobInvariance`: `DriveSpec => []JobInv`;
* `JobsRunOnce`, `WritesReported`: JobRunsOnce and WriteReported.

That a job runs once cannot be seen in the table alone: a job that has not run may have a
task with the worker, in a timer or in the event loop, and one that ran may have its result
on the way, while transmissions repeated by the client and late ones arrive. `Single` says
that a job of the present generation has at most one of these, and `Waiting` that a task is
of a job that has not run, and a result of one that has, or that timed out for good.
A token names a request as it is or as it was before a retry (`Table`, `Tasks`, `Reports`), so
that closing the drive, which forgets the table, leaves nothing behind that could run a job
again: what is still queued is of an earlier generation. `Parties` is about the client: its
identifiers are new (`Formed`), and what is on the way to it, and what it reported, is
of writes that happened (`Wire`, `Reported`). Every operator of Drive has a lemma saying
it makes a `Step`: identifiers only grow, and so do the retries of a request. The only
assumption is that the job limit is positive.

`ViewProofs` is about what a process shows of others. Of `Presence` it proves, for any set of
helpers and any bounds, with or without slots that call `setActivity` during `stop()`:

* `Invariance`: `Spec => []IInv`;
* `TypeCorrect`, `Withdrawn`, `GhostsHidden`, `CyclesBacked`: TypeOK, NoResurrection,
  NoGhost and CycleBacked from it.

`NoResurrection` speaks of the directory, but what endangers it is a job that is still
to write. `IInv` therefore has three layers. `Sane` is about one helper: its jobs carry
its instance, only a helper that runs or stops has any, and a cycle in flight is
being answered; or its session, or the one whose flag it inherited, is among the `disturbed`
ones. What is both dead and disturbed is all that a late job may still write. `Owned` is about all of them: no two share an instance, and one that
runs or stops is not dead. `Frozen` is what NoGhost needs: of a session that was over
when its own began, a helper hears one heartbeat only, wherever it looks (the directory,
the results queued in this epoch, its observations), so none is ever newer than
another. Most actions are steps `Within` a session, which hear nothing new and
write at most their own record; `WithinPreserves` treats them all at once, and `Start`,
`StopFinish` and `Crash` have a lemma each. The only assumption is that the bounds are
numbers and `MaxBeats` is positive.

`ActivityPublished` (ActivityBacked) needs to know which of several coalesced requests
carries the last activity. `Keeping` says per helper whose session is not disturbed that there is at most one job or
result of the session, and that what is pending has a cycle in flight to wait for
(`Single`); that a job with an outdated activity is followed by another publication
(`Caught`); that a helper that neither runs nor stops has nothing pending (`Rested`); and
that the last activity is in the directory, pending, carried by a job, or was in one that
failed (`Backed`).

Of `HostCatalog` it proves, for any drives, paths, catalogues and limits of requests,
inspections and pages:

* `CatalogInvariance`: `CatalogSpec => []CatalogInv`;
* `CallsAnsweredOnce`, `MirrorWhole`: AnsweredOnce and MirrorIsSnapshot.

`Ledger` says where a call that owes an answer is: identifiers are used once, a call is in the
table of its requests or of its inspections until it is answered, and internal requests owe
nothing. `Settled` and `Fetch` say that a client asks only while it is online for its
account's drive, that one request at most is of the snapshot, and that it asks for what
follows the snapshot as it is. `Gathered` is what a snapshot in progress holds: the entries
of one past revision up to its cursor. `Replies` says which revision and cursor a page under
way was computed from. Why pages join without a gap or an overlap is lemma `Page`: a page is
exactly the entries between its cursor and the next, or to the end when there is no next; the
host's limit of a page counts entries, so this is where cardinalities come in. Every
operator of Drive that HostCatalog uses has one lemma, that its result is `Safe`: it keeps
these accounts and changes no request that it does not end. The assumptions are that paths
are positive numbers, limits are positive, and `None` is neither a drive nor a snapshot.

`TransferProofs` proves for files, chunks and windows of any size, any number of
versions, downloads and failures:

* `Invariance`: `Spec => []IInv`;
* `WholeFiles`, `EntriesAdvance`: PublishedWhole and NeverOlder.

`NeverOlder` does not follow from the guards of one step: that a round's commit does
not go back needs that nobody has moved the entry past the round's version since it
began. `Behind` says so: the entry is ahead of neither the round under way nor the host.
It is preserved because a download publishes nothing but the version the entry
names, and that is what `expectedVersion` under the operation lock is for. Steps that
leave the entry and the file alone are treated at once (`ElsewherePreserves`).

`DownloadsBacked` (DownloadBacked) is about two queues at once, and rests on an invariant of
its own. `Waits` says of every state of a download which call of its epoch is where:
one `prepare`, `append` or `commit` with the worker, or its result in the event loop, or
none, and then a request of the host or no session; every other queued call is of an
earlier epoch or a `close`. Its part `Past` says that no call is of a later epoch, so
that a new download starts with none of its own, and that a chunk is written only after
preparing. `Calls` types the two queues, `Stores` what the calls act on. An arm of the
code's `advance()` that had been written as overlapping cases was found by this proof
and is now a chain of conditions, as in the code.

`GenerationProofs` proves for any peers, jobs, pieces of an image, limits and disturbances:

* `Invariance`: `Spec => []IInv`;
* `JobsArePumped`, `EndedStaysEnded`, `ImagesAreOwn`: QueuePumped, FinalIsFinal and
  ImageOfJob from it.

`IInv` has three parts. `HostInv` relates the host's table, queue and worker: a closed
container has neither jobs nor a queue, what is queued is waiting, a worker of the open
container has a job that is neither queued nor final, and a result is saved for its own
job. `Wire` says that at most one message of a peer is live, and that it fits what its
remote is doing (`Fits`). `Told` says of every remote what it may believe: the result it
was told of is its own job's, of which it holds fewer than all pieces, and an image it
presents is whole, its own and not cancelled. The assumptions are that limits are numbers, an image has a piece, and `None` is
none of the peers, jobs and records of a worker.

`JoinProofs` is about how devices come together. Of `Adoption` it proves for any offers, files,
edits, crashes and errors:

* `Invariance`: `Spec => []IInv`;
* `IdentitiesAgree`, `NothingForeignProposed`, `NothingLost`: IdentityAgrees, NothingForeign
  and Preserved.

`Identified` says how far journal, manifest, binding and plan have got at every step of
an operation, and after a crash at every such step; IdentityAgrees is preserved together
with it. `Sorted` says where contents are: those that users save are new (`Numbered`),
and of the contents foreign to the container being adopted only those that are still to
be moved aside are in the sections (`Aside`).
`Preserved` is inductive by itself: `MovedKeeps` shows that a move keeps the contents.
The assumptions say that `None` and the names of the steps differ, and that containers are
not numbers, which stand for contents.

Of `Pairing` it proves, for any devices, desktops, restarts, changes and expired invitations:

* `PairInvariance`: `PairingSpec => []PairInv`, and from it `InvitationsOnce` (InvitedOnce);
* `AttemptsBacked` (AttemptBacked) and `NobodyWaits` (NoSilentWait), by invariants of their own.

`PairInv` says that one number is one invitation, to one process of one device (`OneEach`),
and that one that was put before its device is too old, or for an earlier process, or
remembered there (`Spent`): the network may repeat it whenever it likes. It holds although
memory is lost: what `tick` forgets one by one is too old, and when it forgets everything, the
count of what was put before the device starts again with it (`ForgetsInv`). The size of the
memory is any number. `Backed` is
AttemptBacked for every device together with who owns the transport and which link is
its own. A device's step leaves the others' links as they were, or closed (`Tame`), so one
lemma (`MovesBacked`) carries the other devices through every step. `Guided` says that leaders,
primaries and the records on the way that claim to host are of desktops, and that a device
that owns the transport has a leader. Then an idle leader knows that it leads, keeps no
invitation it would have to decline and has no connection in the making, so that any device
it knows and is not connected to would be invited: the state would not be still. The
assumption is that devices are numbers, which order them, and that desktops are devices.

`MirrorProofs` proves for any roots, daemons, edits, packages, selections and restarts:

* `Invariance`: `Spec => []IInv`;
* `ShownIsSelected`: MirrorOfSelection;
* `NothingGoesBack`: NothingOlder, an action property.

`DInv` is about the publishers. A package has one running publisher (`Alone`), which has
counted at least as far as the state file of its package, and exactly as far once it has
written (`Counts`); hence its next write follows the file, also when the publisher of a
replaced package writes into the new one. `Tracks` is about the application, for a given
state of the drives: rows are never ahead of their drive (`NotAhead`); those of a scan
whose epoch is the present one are of the selected drive and not older than what is shown
(`Scans`, `Tells`, `Follows`), as every explicit refresh has outdated the scan in flight;
and one scan is in flight, with the worker or in the event loop (`One`). It is stated
for any drives, so that one lemma (`WorldGoesOn`) treats what users and packages do,
and one (`SelectedTracks`) every selection.

`ReplicationProofs` proves for any number of mirrors, names, edits, failures and rows of a
page, and any seed:

* `Invariance`: `Spec => []IInv`;
* `OneHistory`: JournalPrefix;
* `NothingUndecided`: the half of CursorSound about pushing, under both content policies;
* `NothingSkipped`: CursorSound under FullReplica;
* `StaleNeverReplaces`: OnlySuperseded, an action property.

The cursors are sound because of what a round in progress knows, so `IInv` is mostly
about rounds. It has four layers. `Devices` is about one device (`Good`): a record that
names a revision, and the base of a proposal, are backed by the device's own journal,
and sequence numbers of records stay below the device's. What indexing and merging may do
to a device is one relation, `Evolves`: a record keeps its revision, becomes a proposal or
takes the merged one, and one that differs has a new sequence number. `MergeFacts` shows
that for every outcome of `merge`, torn ones included, and that a complete merge settles
its record: the authority has a revision that covers it, a mirror has it or a proposal on
top of it. `Mirrors` relates a mirror to an authority h, which is a parameter, so that
`AuthorityMoves` treats whatever makes the authority's journal grow. `Follows` is
JournalPrefix together with the bound of the pages under way. `Pushes` says of every record
under the push cursor that it was decided, and of one under an announcement's that it was
decided before or is announced; a receipt then needs `Plan`: what the manifest counts as
applied has been decided, whichever transfer, late or not, did it. `FullMirrors` is about
the pull cursor. `Paged` says of every revision up to the bound of the pages that the mirror
took it in, that one of its path is queued, or that the last one of its path up to that
bound is still to come; the queue holds no record that is older than another up to the
bound (`Newest`), so that taking one in never goes back. `OneMirror` and `Frame` lift a step
of one mirror, of the authority or of both to the system, and every action has its lemma.

Under MetadataFirst the pull half stays with TLC for conflict copies. There a round drops a
requested record from its queue when the request is withdrawn, which is harmless only because
the catalog already has that version; that it has this *revision* depends on no two
revisions of a path having one version, and a conflict copy that was deleted and is proposed
again has the same path, content and clock. Originals have no such twin, as shown below.

OnlySuperseded is about single steps, but what they may overwrite depends on what the tables
say of the disk. `Orderly` is inductive with `IInv`: every path is a sequence of names, so that
a conflict copy never takes its original's name; the host's record of a path names the latest
revision of it (`Tidy`); what waits in queues and manifests names paths (`Named`). `Careful`
is what taking in a record may do to a disk: files of other paths stay, and the file of its
own path stays under some name (as a conflict copy, or where a torn merge leaves it) unless it
is `Superseded`, that is, a revision of the device's own journal, and on the authority the
latest one, on which the record is based. It is proved for every outcome of `merge` and
`acceptMetadata`, torn ones included (`MergeSpares`, `MetadataSpares`), since both look at the
disk again (`observe`) before they overwrite (`AfterObserving`). `StepHeld` goes through the
actions that are no user's edit, and `OnlyThose` concludes.

`ConfirmProofs` goes on about the same module and proves, for as many mirrors, names, edits and
failures and for both content policies:

* `Standing`: `Spec => []Confirmed`, the invariant of the originals;
* `DecisionsReturn`: OriginalsConfirmed from it;
* `OriginalsReach`: the half of CursorSound about pulling, for every path that is not a
  conflict copy.

OriginalsConfirmed needs more than that a decision exists: the round has to bring it back.
`Confirmed` is inductive with `IInv` and `Orderly`, and speaks of the originals (`Own`), the
paths that are no conflict copies; a conflict copy may be decided long before its original
arrives, and the property excludes them. `Sound` is about one device. The authority's
revisions of an original advance (`Rises`): the clocks grow, or, at equal clocks, a directory
takes the place of what is none, as `beats` has it. A proposal is new to what it is based on (`Fresh`).
That a merge at the authority creates no clock that another revision has depends on
clients not inventing components for one another: a component of a clock tells that its
client has a record of that path (`Known`, with `Marks`), and no device forgets a record. `Moves`
says which revision a record `Stands` on after indexing or merging: the same, the
merged one, or none for a first proposal. `Confirms` is about rounds. What a round
lists covers every revision up to its bound that the record does not stand on, or past (`Brings`);
what is listed goes beyond the record (`Ahead`, but for a first proposal); and what the round
has pushed has a decision among the revisions its pages reach (`Settled`): a round that has
sent something reads the authority's changes once more before it may finish, and the directory
clause of `Decided` tells a decision from a revision that merely has the same clock. So a
round that finds nothing to send leaves no proposal under the cursor it saves (`Closed`), and
only such a round reports success. A request names a revision that the
record already stands on (`Asked`), which is why a withdrawn one may be dropped. `AuthorityMovesOn`,
`MirrorMovesOn` and one lemma per action (named `...Turn`) lift this to the system.

Only model-checked:

* NoLostEdit, since it is not true without bounds. The attempt to prove it needed that a
  proposal's base is a revision its user has replaced, and that a clock is later only than
  those of revisions its writer took in. Both fail where `merge` gives a record another's clock
  or base, and TLC then found the losses of section 6 beyond the bounds of the runs;
  without a seed it fails as `first_file` shows. OnlySuperseded is what holds always: it says of
  each step what it may overwrite.
* The pull half of CursorSound under MetadataFirst for conflict copies, for the reason above.
* All liveness (Convergence, RequestsServed, Adopts, Hydrated, Answered, RefreshServed,
  MirrorCurrent, EventuallyHandled, DepartedForgotten): the prover has neither fairness nor
  ENABLED.

The prover has no induction over data either, so that what an operator defined by recursion
computes would stay with TLC; the modules with theorems have none.

## 8. Not modelled

Byte formats, encryption, hashing, platform discovery services, Bluetooth, the
encrypted link and the relay (both of the SDK), the Windows variant of ConfinedFiles,
media export, presentation and item models: pure input and output. Account and group
sessions, remote directory listings and object providers: see `PROJECT.json` for the
reasons. The automatic history of a helper is left for the plan above. Of modelled parts: the
branch of `detach` for Files volumes of macOS (ConfinedFiles.cpp:360), which copies and
unlinks where the model renames once, and the limit of endpoints a device lists.
