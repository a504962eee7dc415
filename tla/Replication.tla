----------------------------- MODULE Replication -----------------------------
(***************************************************************************)
(* Mirrors following one authority: src/Sync/Synchronizer.cpp driving      *)
(* src/Sync/Replica.cpp on both sides, over the requests of                *)
(* Replica::handle.  The devices are bound and their first adoption is     *)
(* complete; users edit files on every device at any time.                 *)
(*                                                                         *)
(* A request and its reply are one step: the client waits for the reply,   *)
(* and the only requests that change the host's durable state, begin and   *)
(* commit, may also be processed after the client has given up on them     *)
(* (variable late).                                                        *)
(***************************************************************************)
EXTENDS Replica, FiniteSets

CONSTANTS Seed,            \* what every device already holds: <<[name, body], ...>>
          Folders,         \* the names users make directories of
          PageLimit,       \* rows of one changes or journal page (128 in the code)
          Policies,        \* content policies of the mirrors: TRUE is MetadataFirst, FALSE is FullReplica
          EditCopies,      \* whether users also edit conflict copies
          MaxEdits,        \* [policy -> bound on user edits]
          MaxFailures      \* bound on aborted rounds, expired slices and crashes

ASSUME PageLimitAssumption == PageLimit \in Nat \ {0}
ASSUME PolicyAssumption == Policies \subseteq BOOLEAN /\ MaxEdits \in [BOOLEAN -> Nat]
ASSUME FoldersAssumption == Folders \subseteq Names
ASSUME SeedAssumption ==
  /\ Seed \in Seq([name : Names, body : Body \ {Deleted}])
  /\ \A i, j \in 1..Len(Seed) : Seed[i].name = Seed[j].name => i = j

VARIABLES dev,        \* [Device -> device], durable
          peers,      \* [Clients -> [pulled, pushed]], the table "peers", durable
          session,    \* [Clients -> Synchronizer::Private], volatile
          manifests,  \* [Clients -> Manifest], memory of the host's Replica
          requests,   \* [Clients -> StorageMap requests <<path, version>>], durable
          late,       \* [Clients -> requests the client gave up on]
          metadataFirst, \* the content policy, the same throughout
          edits,      \* history: number of user edits
          live,       \* history: contents saved by a user and replaced by none
          failures    \* history: failures so far

vars == <<dev, peers, session, manifests, requests, late, edits, live, failures>>

(***************************************************************************)
(* A device after a complete first round: the host has confirmed the seed, *)
(* one revision per name, and every mirror holds it.                       *)
(***************************************************************************)
SeedPaths == {<<Seed[i].name>> : i \in 1..Len(Seed)}
SeedIndex(p) == CHOOSE i \in 1..Len(Seed) : <<Seed[i].name>> = p
SeedClock(i) == [ZeroClock EXCEPT ![Host] = i]

SeededDevice(d) ==
  [id |-> d,
   disk |-> [p \in SeedPaths |-> Seed[SeedIndex(p)].body],
   entries |-> [p \in SeedPaths |->
                  [path |-> p, body |-> Seed[SeedIndex(p)].body, clock |-> SeedClock(SeedIndex(p)),
                   rev |-> SeedIndex(p), base |-> 0, seq |-> SeedIndex(p), remote |-> FALSE]],
   seq |-> Len(Seed),
   counter |-> IF d = Host THEN Len(Seed) ELSE 0,
   journal |-> [i \in 1..Len(Seed) |->
                  [path |-> <<Seed[i].name>>, body |-> Seed[i].body, clock |-> SeedClock(i),
                   parents |-> {}]],
   head |-> Len(Seed)]

NoRecord == [path |-> <<>>, body |-> Missing, clock |-> ZeroClock, rev |-> 0, base |-> 0]

NoManifest == [gen |-> -1, members |-> {}, applied |-> {}]

(***************************************************************************)
(* pc: idle; rescan and scan (indexing before the first page and before    *)
(* the push); changes, journal, announce (waiting for such a reply); pull; *)
(* commit (bytes received); push; send (bytes of current being uploaded).  *)
(* gen stands for the snapshot id: rounds given up on so far.              *)
(***************************************************************************)
Inactive(gen, ok) ==
  [pc |-> "idle", pulled |-> 0, pushed |-> 0, after |-> 0, upper |-> 0, through |-> 0,
   todo |-> {}, outgoing |-> {}, pushThrough |-> 0, requested |-> {}, current |-> NoRecord,
   acknowledged |-> FALSE, early |-> FALSE, sent |-> FALSE, gen |-> gen, ok |-> ok]

Init ==
  /\ dev = [d \in Device |-> SeededDevice(d)]
  /\ peers = [c \in Clients |-> [pulled |-> Len(Seed), pushed |-> Len(Seed)]]
  /\ session = [c \in Clients |-> Inactive(0, FALSE)]
  /\ manifests = [c \in Clients |-> NoManifest]
  /\ requests = [c \in Clients |-> {}]
  /\ late = [c \in Clients |-> {}]
  /\ metadataFirst \in Policies
  /\ edits = 0 /\ failures = 0
  /\ live = {n \in {Seed[i].body : i \in 1..Len(Seed)} : IsFile(n)}

host == dev[Host]

Files(d) == {n \in {dev[d].disk[p] : p \in DOMAIN dev[d].disk} : IsFile(n)}

(* A content no device has held before; the seed holds contents up to Len(Seed). *)
NewContent == Len(Seed) + edits + 1

history == <<edits, live, failures>>

(* Steps of one round: every conjunct below names what it changes. *)
To(c, s) == session' = [session EXCEPT ![c] = s]

Local(c, new) == dev' = [dev EXCEPT ![c] = new]

(* finish(false, error): cursors stay where they were saved. *)
Finish(c) == To(c, Inactive(session[c].gen, FALSE))

-----------------------------------------------------------------------------
(* The user, and the indexers. *)

(* Writing over an original known only by its catalog entry replaces that  *)
(* original: the edit's base is the catalogued revision.                   *)
catalogued(d, p) == IF entry(d, p).remote THEN entry(d, p).body ELSE Missing

Edit(d, p, body) ==
  /\ edits < MaxEdits[metadataFirst]
  /\ body # state(dev[d], p)
  /\ children(dev[d], p) = {}
  /\ parent(p) = <<Root>> \/ state(dev[d], parent(p)) = Directory
  /\ edits' = edits + 1
  /\ live' = (live \ {state(dev[d], p), catalogued(dev[d], p)})
               \union (IF IsFile(body) THEN {body} ELSE {})
  /\ Local(d, onDisk(dev[d], p, body))
  /\ UNCHANGED <<peers, session, manifests, requests, late, failures>>

UserEdit ==
  \E d \in Device :
    \/ \E n \in Names, body \in {NewContent, Deleted} : Edit(d, <<n>>, body)
    \/ \E n \in Folders : Edit(d, <<n>>, Directory)
    \/ \E p \in DOMAIN dev[d].disk, body \in {NewContent, Deleted} :
         EditCopies /\ Len(p) > 1 /\ Edit(d, p, body)

(***************************************************************************)
(* Replica::scan, one path at a time: on the host by SyncWorker::indexHost *)
(* whenever it runs; on a mirror by the offline tick and at the two places *)
(* of a round that scan.                                                   *)
(***************************************************************************)
Index(d, p) ==
  /\ d \in Clients => session[d].pc \in {"idle", "rescan", "scan"}
  /\ indexable(dev[d], p)
  /\ Local(d, observed(dev[d], p, 0))
  /\ UNCHANGED <<peers, session, manifests, requests, late, history>>

IndexSome(d) == \E p \in DOMAIN dev[d].entries \union DOMAIN dev[d].disk : Index(d, p)

(* StorageMap::request and its cancellation, by an app on the mirror. *)
Request(c, p) ==
  /\ metadataFirst
  /\ entry(dev[c], p).remote
  /\ requests' = [requests EXCEPT ![c] = @ \union {<<p, Version(entry(dev[c], p))>>}]
  /\ UNCHANGED <<dev, peers, session, manifests, late, history>>

CancelRequest(c, r) ==
  /\ r \in requests[c]
  /\ requests' = [requests EXCEPT ![c] = @ \ {r}]
  /\ UNCHANGED <<dev, peers, session, manifests, late, history>>

(* Replica::requestedPaths: a request for another version than the confirmed is refused. *)
valid(d, r) == object(d, r[1]) # 0 /\ Version(d.journal[object(d, r[1])]) = r[2]

(* Mutation of outstanding: an original that has arrived stays requested. *)
outstanding_Resident(d, rs) == {r \in rs : valid(d, r)}

(* Replica::completeRequests. *)
outstanding(d, rs) == {r \in rs : valid(d, r) /\ ~resident(d, r[1])}

-----------------------------------------------------------------------------
(* Synchronizer::start and describe: the saved cursors, then a scan. *)
Start(c) ==
  /\ session[c].pc = "idle"
  /\ To(c, [Inactive(session[c].gen, FALSE) EXCEPT
              !.pc = "rescan", !.pulled = peers[c].pulled, !.pushed = peers[c].pushed,
              !.after = peers[c].pulled])
  /\ UNCHANGED <<dev, peers, manifests, requests, late, history>>

(* Replica::scan fails on a path whose state cannot be read. *)
ScanFailed(c) ==
  /\ session[c].pc \in {"rescan", "scan"}
  /\ \E q \in absent(dev[c]) : blocked(dev[c], q)
  /\ Finish(c)
  /\ UNCHANGED <<dev, peers, manifests, requests, late, history>>

(* Mutation of changes: deletions are not listed. *)
changes_NoDeletion(after, through) ==
  {n \in 1..host.head : /\ after < n /\ n <= through
                        /\ LatestUpTo(host, host.journal[n].path, through) = n
                        /\ host.journal[n].body # Deleted}

(***************************************************************************)
(* page(): the latest revision per path up to a fixed bound.  changes()    *)
(* does not rescan the host (Controller passes refreshIndex = false).      *)
(***************************************************************************)
changes(after, through) ==
  {n \in 1..host.head : after < n /\ n <= through
                        /\ LatestUpTo(host, host.journal[n].path, through) = n}

firstRows(rows) == {n \in rows : Cardinality({m \in rows : m <= n}) <= PageLimit}

ChangesPage(c) ==
  LET s     == session[c]
      limit == IF s.upper = 0 THEN host.head ELSE s.upper
      rows  == firstRows(changes(s.after, limit))
      last  == CHOOSE n \in rows : \A m \in rows : m <= n
      more  == Cardinality(rows) = PageLimit /\ last < limit
      t     == [s EXCEPT !.through = limit,
                         !.todo = @ \union {projected(host, n) : n \in rows}]
  IN /\ s.pc = "changes" \/ (s.pc = "rescan" /\ scanned(dev[c]))
     /\ To(c, IF more THEN [t EXCEPT !.pc = "changes", !.after = last, !.upper = limit]
                      ELSE [t EXCEPT !.pc = "journal", !.after = 0, !.upper = 0])
     /\ UNCHANGED <<dev, peers, manifests, requests, late, history>>

(* page(pulled, 0): collect a fresh bounded snapshot from the saved cursor. *)
Repage(s) ==
  [s EXCEPT !.pc = "changes", !.after = s.pulled, !.upper = 0, !.through = 0, !.todo = {},
            !.outgoing = {}, !.current = NoRecord, !.early = FALSE, !.requested = {},
            !.sent = FALSE]

(***************************************************************************)
(* NamespaceJournal::accept on one history page, in one transaction: each  *)
(* revision must name the one it follows on its path among its parents.    *)
(***************************************************************************)
acceptable(d, row, through) ==
  LET old == LatestUpTo(d, row.path, through) IN old # 0 => old \in row.parents

(* Mutation of accept: the page starts one revision late. *)
accept_OffByOne(d, next) ==
  [d EXCEPT !.head = next,
            !.journal = [n \in 1..next |-> IF n <= d.head THEN @[n]
                                          ELSE host.journal[IF n < host.head THEN n + 1 ELSE n]]]

accept(d, next) ==
  [d EXCEPT !.head = next, !.journal = [n \in 1..next |-> IF n <= d.head THEN @[n] ELSE host.journal[n]]]

JournalPage(c) ==
  LET s     == session[c]
      d     == dev[c]
      limit == IF s.upper = 0 THEN host.head ELSE s.upper
      next  == IF d.head + PageLimit < limit THEN d.head + PageLimit ELSE limit
      new   == accept(d, next)
      ok    == \A n \in d.head + 1 .. next : acceptable(new, host.journal[n], n - 1)
      kept  == {r \in requests[c] : valid(new, r)}
      paths == {r[1] : r \in kept}
      extra == {projected(new, object(new, p)) :
                  p \in {q \in paths : ~resident(new, q) /\ \A e \in s.todo : e.path # q}}
  IN /\ s.pc = "journal"
     /\ IF ~ok THEN Finish(c) /\ UNCHANGED <<dev, requests>>
        ELSE /\ Local(c, new)
             /\ IF next < limit
                  THEN To(c, [s EXCEPT !.upper = limit]) /\ UNCHANGED requests
                  ELSE /\ To(c, [s EXCEPT !.pc = "announce", !.upper = 0, !.requested = paths,
                                          !.todo = @ \union extra])
                       /\ requests' = [requests EXCEPT ![c] = kept]
     /\ UNCHANGED <<peers, manifests, late, history>>

(***************************************************************************)
(* announceLocal(): the proposals above the push cursor become the host's  *)
(* manifest for this peer, before any byte moves.  An empty plan does not  *)
(* replace a receipt already obtained.                                     *)
(***************************************************************************)
proposals(d, pushed) ==
  {[path |-> p, body |-> d.entries[p].body, clock |-> d.entries[p].clock,
    rev |-> 0, base |-> d.entries[p].base] :
     p \in {q \in DOMAIN d.entries : d.entries[q].rev = 0 /\ d.entries[q].seq > pushed}}

(* Mutation of pushing: the round does not come back for the decision. *)
pushing_NoReply(s, out) == [s EXCEPT !.pc = "push", !.todo = out]

(* pushNext() over the announced proposals. *)
pushing(s, out) == [s EXCEPT !.pc = "push", !.todo = out, !.sent = out # {}]

Announce(c) ==
  LET s    == session[c]
      out  == proposals(dev[c], s.pushed)
      keep == out = {} /\ s.acknowledged
      t    == [s EXCEPT !.outgoing = out, !.pushThrough = dev[c].seq,
                        !.acknowledged = keep]
  IN /\ \/ /\ s.pc = "announce"
           /\ To(c, [t EXCEPT !.pc = "pull"])
        \/ /\ s.pc = "scan" /\ scanned(dev[c])
           /\ To(c, pushing(t, out))
     /\ manifests' = IF keep THEN manifests
                     ELSE [manifests EXCEPT ![c] = [gen |-> s.gen, members |-> out, applied |-> {}]]
     /\ UNCHANGED <<dev, peers, requests, late, history>>

-----------------------------------------------------------------------------
(* Download.  order(): directories, then deletions, then files. *)
rank(e) == IF e.body = Directory THEN 0 ELSE IF e.body = Deleted THEN 1 ELSE 2

nested(p) == parent(p) # <<Root>>

before(a, b) ==
  \/ rank(a) < rank(b)
  \/ rank(a) = rank(b) /\ rank(a) = 0 /\ ~nested(a.path) /\ nested(b.path)
  \/ rank(a) = rank(b) /\ rank(a) = 1 /\ nested(a.path) /\ ~nested(b.path)

nextEntries(s) == {e \in s.todo : \A f \in s.todo : ~before(f, e)}

Drop(s, e) == [s EXCEPT !.pc = IF @ = "commit" THEN "pull" ELSE IF @ = "send" THEN "push" ELSE @,
                        !.todo = @ \ {e}, !.current = NoRecord]

(* completeSelected(): a requested original is complete on its own. *)
settled(c, d, p) ==
  IF p \in session[c].requested
    THEN [requests EXCEPT ![c] = outstanding(d, @)] ELSE requests

(* metadataOnly() reads the record without refreshing it. *)
metadataOnly(c, e) ==
  /\ metadataFirst /\ IsFile(e.body)
  /\ e.path \notin session[c].requested
  /\ ~Pending(entry(dev[c], e.path))
  /\ entry(dev[c], e.path).body # Directory

PullMetadata(c, e) ==
  /\ session[c].pc = "pull" /\ e \in nextEntries(session[c])
  /\ metadataOnly(c, e)
  /\ IF acceptsMetadata(dev[c], e)
       THEN Local(c, acceptMetadata(dev[c], e).dev) /\ To(c, Drop(session[c], e))
       ELSE /\ Local(c, IF blocked(dev[c], e.path) THEN dev[c] ELSE observed(dev[c], e.path, 0))
            /\ Finish(c)
  /\ UNCHANGED <<peers, manifests, requests, late, history>>

(* Proposals of objects the host has never had. *)
fresh(c) == {e \in session[c].outgoing : e.body # Deleted /\ object(dev[c], e.path) = 0}

(***************************************************************************)
(* begin on the mirror and, when bytes are needed, the reads that fetch    *)
(* them: the host refreshes its index and serves only the pinned version.  *)
(***************************************************************************)
PullBegin(c, e) ==
  LET s      == session[c]
      source == IF blocked(host, e.path) THEN host ELSE observed(host, e.path, 0)
  IN /\ s.pc = "pull" /\ e \in nextEntries(s)
     /\ (IsFile(e.body) /\ metadataFirst) =>
          e.path \in s.requested \/ fresh(c) = {} \/ resident(dev[c], e.path)
     /\ \E r \in {merge(dev[c], e, FALSE)} :
          \/ /\ r.status = "failed"
             /\ Local(c, r.dev) /\ Finish(c) /\ UNCHANGED requests
          \/ /\ r.status = "complete"
             /\ Local(c, r.dev) /\ To(c, Drop(s, e)) /\ requests' = settled(c, r.dev, e.path)
          \/ /\ r.status = "bytes"
             /\ dev' = [dev EXCEPT ![c] = r.dev, ![Host] = source]
             /\ IF Version(entry(dev'[Host], e.path)) = Version(e) /\ ~blocked(host, e.path)
                  THEN To(c, [s EXCEPT !.pc = "commit", !.current = e]) ELSE Finish(c)
             /\ UNCHANGED requests
     /\ UNCHANGED <<peers, manifests, late, history>>

(* pullChunk() at the last byte; a cancelled original is never published. *)
PullCommit(c) ==
  LET s == session[c]
      e == s.current
      cancelled == e.path \in s.requested /\ ~\E q \in requests[c] : q[1] = e.path /\ valid(dev[c], q)
  IN /\ s.pc = "commit"
     /\ \/ /\ cancelled
           /\ To(c, Drop(s, e)) /\ UNCHANGED <<dev, requests>>
        \/ /\ ~cancelled
           /\ \E r \in {merge(dev[c], e, TRUE)} :
                \/ /\ r.status = "failed"
                   /\ Local(c, r.dev) /\ Finish(c) /\ UNCHANGED requests
                \/ /\ r.status = "complete"
                   /\ Local(c, r.dev) /\ To(c, Drop(s, e)) /\ requests' = settled(c, r.dev, e.path)
     /\ UNCHANGED <<peers, manifests, late, history>>

(* beginNewUploads(): neither cursor moves past the pending downloads. *)
EarlyPush(c) ==
  LET s == session[c] IN
  /\ s.pc = "pull" /\ metadataFirst /\ fresh(c) # {}
  /\ s.todo = {} \/ \E e \in nextEntries(s) : IsFile(e.body) /\ e.path \notin s.requested
  /\ To(c, [s EXCEPT !.pc = "push", !.todo = fresh(c), !.early = TRUE])
  /\ UNCHANGED <<dev, peers, manifests, requests, late, history>>

(* Mutation of PullDone: the cursor jumps to the host's present head. *)
PullDone_Head(c) ==
  LET s == session[c] IN
  /\ s.pc = "pull" /\ s.todo = {}
  /\ metadataFirst => fresh(c) = {}
  /\ To(c, [s EXCEPT !.pc = "scan", !.pulled = host.head])
  /\ peers' = [peers EXCEPT ![c].pulled = host.head]
  /\ UNCHANGED <<dev, manifests, requests, late, history>>

(* The end of pullNext(): only now does the pull cursor advance. *)
PullDone(c) ==
  LET s == session[c] IN
  /\ s.pc = "pull" /\ s.todo = {}
  /\ metadataFirst => fresh(c) = {}
  /\ To(c, [s EXCEPT !.pc = "scan", !.pulled = s.through])
  /\ peers' = [peers EXCEPT ![c].pulled = IF @ > s.through THEN @ ELSE s.through]
  /\ UNCHANGED <<dev, manifests, requests, late, history>>

-----------------------------------------------------------------------------
(* Upload. *)

(* Replica::handle admits a transfer of an announced entry only. *)
announced(c, gen, e) == manifests[c].gen = gen /\ e \in manifests[c].members

Applied(c, e) == manifests' = [manifests EXCEPT ![c].applied = @ \union {e.path}]

(* begin of the next announced proposal on the host. *)
PushBegin(c, e) ==
  LET s == session[c] IN
  /\ s.pc = "push" /\ e \in nextEntries(s)
  /\ \/ /\ ~announced(c, s.gen, e)
        /\ Finish(c) /\ UNCHANGED <<dev, manifests>>
     \/ /\ announced(c, s.gen, e)
        /\ \E r \in {merge(host, e, FALSE)} :
             /\ Local(Host, r.dev)
             /\ \/ r.status = "failed" /\ Finish(c) /\ UNCHANGED manifests
                \/ r.status = "complete" /\ To(c, Drop(s, e)) /\ Applied(c, e)
                \/ /\ r.status = "bytes"
                   /\ To(c, [s EXCEPT !.pc = "send", !.current = e]) /\ UNCHANGED manifests
  /\ UNCHANGED <<peers, requests, late, history>>

(* The mirror reads only the announced version of its own file. *)
Readable(c, e) ==
  /\ ~blocked(dev[c], e.path)
  /\ Version(entry(observed(dev[c], e.path, 0), e.path)) = Version(e)

SendFailed(c) ==
  /\ session[c].pc = "send"
  /\ ~Readable(c, session[c].current)
  /\ Local(c, IF blocked(dev[c], session[c].current.path) THEN dev[c]
              ELSE observed(dev[c], session[c].current.path, 0))
  /\ Finish(c)
  /\ UNCHANGED <<peers, manifests, requests, late, history>>

(* The chunks, then commit on the host. *)
PushCommit(c) ==
  LET s == session[c]
      e == s.current
  IN /\ s.pc = "send"
     /\ Readable(c, e)
     /\ \/ /\ ~announced(c, s.gen, e)
           /\ Finish(c) /\ UNCHANGED <<dev, manifests>>
        \/ /\ announced(c, s.gen, e)
           /\ \E r \in {merge(host, e, TRUE)} :
                /\ Local(Host, r.dev)
                /\ \/ r.status = "failed" /\ Finish(c) /\ UNCHANGED manifests
                   \/ r.status = "complete" /\ To(c, Drop(s, e)) /\ Applied(c, e)
     /\ UNCHANGED <<peers, requests, late, history>>

(***************************************************************************)
(* The end of pushNext(): snapshot.complete needs every announced member   *)
(* applied; only then does the push cursor advance.  A round that sent     *)
(* something pages again to receive the authority's decision.              *)
(***************************************************************************)
PushDone(c) ==
  LET s       == session[c]
      m       == manifests[c]
      receipt == s.acknowledged \/ (m.gen = s.gen /\ m.applied = {e.path : e \in m.members})
      t       == [s EXCEPT !.acknowledged = TRUE, !.pushed = s.pushThrough]
  IN /\ s.pc = "push" /\ s.todo = {}
     /\ \/ /\ s.early
           /\ To(c, Repage(s)) /\ UNCHANGED <<peers, requests>>
        \/ /\ ~s.early /\ ~receipt
           /\ Finish(c) /\ UNCHANGED <<peers, requests>>
        \/ /\ ~s.early /\ receipt
           /\ peers' = [peers EXCEPT ![c].pushed = IF @ > s.pushThrough THEN @ ELSE s.pushThrough]
           /\ \/ s.sent /\ To(c, Repage(t)) /\ UNCHANGED requests
              \/ /\ ~s.sent /\ To(c, Inactive(s.gen, TRUE))
                 /\ requests' = [requests EXCEPT ![c] = outstanding(dev[c], @)]
     /\ UNCHANGED <<dev, manifests, late, history>>

-----------------------------------------------------------------------------
(* Failures, MaxFailures of them. *)

Failure == failures < MaxFailures /\ failures' = failures + 1

(* refreshBetweenChunks(): partial payloads stay, the round pages again. *)
SliceExpired(c) ==
  /\ session[c].pc \in {"commit", "send"}
  /\ Failure
  /\ To(c, [Repage(session[c]) EXCEPT !.pc = "rescan"])
  /\ UNCHANGED <<dev, peers, manifests, requests, late, edits, live>>

(* A timeout, a cancellation or a crash of the client; a transfer it was   *)
(* waiting for may still be in flight.                                     *)
Abort(c) ==
  LET s == session[c]
      inflight == IF s.pc = "push" THEN nextEntries(s) ELSE IF s.pc = "send" THEN {s.current} ELSE {}
  IN /\ s.pc # "idle"
     /\ Failure
     /\ To(c, Inactive(s.gen + 1, FALSE))
     /\ \/ UNCHANGED late
        \/ \E e \in inflight : late' = [late EXCEPT ![c] = @ \union {[entry |-> e, gen |-> s.gen]}]
     /\ UNCHANGED <<dev, peers, manifests, requests, edits, live>>

(* The host processes a transfer nobody waits for any more. *)
LateCommit(c, m) ==
  /\ m \in late[c]
  /\ late' = [late EXCEPT ![c] = @ \ {m}]
  /\ \/ ~announced(c, m.gen, m.entry) /\ UNCHANGED <<dev, manifests>>
     \/ /\ announced(c, m.gen, m.entry)
        /\ \E r \in {merge(host, m.entry, TRUE)} :
             /\ Local(Host, r.dev)
             /\ IF r.status = "complete" THEN Applied(c, m.entry) ELSE UNCHANGED manifests
  /\ UNCHANGED <<peers, session, requests, history>>

(* The host restarts: manifests and queued requests are gone. *)
HostRestart ==
  /\ Failure
  /\ manifests' = [c \in Clients |-> NoManifest]
  /\ late' = [c \in Clients |-> {}]
  /\ UNCHANGED <<dev, peers, session, requests, edits, live>>

(* The host dies inside merge; the client's request times out. *)
HostCrash(c) ==
  LET s == session[c]
      asked == IF s.pc = "send" THEN {s.current} ELSE IF s.pc = "push" THEN nextEntries(s) ELSE {}
  IN /\ Failure
     /\ \E e \in asked : /\ announced(c, s.gen, e)
                         /\ \E d \in merge(host, e, s.pc = "send").torn : Local(Host, d)
     /\ manifests' = [k \in Clients |-> NoManifest]
     /\ late' = [k \in Clients |-> {}]
     /\ To(c, Inactive(s.gen + 1, FALSE))
     /\ UNCHANGED <<peers, requests, edits, live>>

(* The client dies inside merge or acceptMetadata. *)
torn(c, e) ==
  IF session[c].pc = "commit" THEN merge(dev[c], e, TRUE).torn
  ELSE IF ~metadataOnly(c, e) THEN merge(dev[c], e, FALSE).torn
  ELSE IF acceptsMetadata(dev[c], e) THEN acceptMetadata(dev[c], e).torn ELSE {}

ClientCrash(c) ==
  LET s == session[c]
      applying == IF s.pc = "commit" THEN {s.current} ELSE IF s.pc = "pull" THEN nextEntries(s) ELSE {}
  IN /\ Failure
     /\ \E e \in applying : \E d \in torn(c, e) : Local(c, d)
     /\ To(c, Inactive(s.gen + 1, FALSE))
     /\ UNCHANGED <<peers, manifests, requests, late, edits, live>>

-----------------------------------------------------------------------------
Round(c) ==
  \/ Start(c) \/ ScanFailed(c) \/ ChangesPage(c) \/ JournalPage(c) \/ Announce(c)
  \/ \E e \in session[c].todo : PullMetadata(c, e)
  \/ \E e \in session[c].todo : PullBegin(c, e)
  \/ \E e \in session[c].todo : PushBegin(c, e)
  \/ PullCommit(c) \/ EarlyPush(c) \/ PullDone(c)
  \/ SendFailed(c) \/ PushCommit(c) \/ PushDone(c)

Fault(c) ==
  \/ SliceExpired(c) \/ Abort(c) \/ HostCrash(c) \/ ClientCrash(c)
  \/ \E m \in late[c] : LateCommit(c, m)

Choice(c) ==
  \/ \E p \in DOMAIN dev[c].entries : Request(c, p)
  \/ \E r \in requests[c] : CancelRequest(c, r)

Next ==
  \/ UserEdit \/ HostRestart
  \/ \E d \in Device : IndexSome(d)
  \/ \E c \in Clients : Round(c) \/ Fault(c) \/ Choice(c)

Spec == Init /\ [][Next /\ UNCHANGED metadataFirst]_<<vars, metadataFirst>>
-----------------------------------------------------------------------------
(***************************************************************************)
(* Properties.                                                             *)
(***************************************************************************)
(***************************************************************************)
(* Every mirror's copy of the change journal is a prefix of the            *)
(* authority's (Replica::acceptJournal, NamespaceJournal::accept): paging, *)
(* retries and crashes never make a mirror's history diverge.              *)
(***************************************************************************)
JournalPrefix ==
  \A c \in Clients :
    /\ dev[c].head <= host.head
    /\ \A n \in 1..dev[c].head : dev[c].journal[n] = host.journal[n]

(***************************************************************************)
(* No content a user saved, and that no user has since replaced, vanishes  *)
(* from every disk (merge, acceptMetadata): conflicts are preserved across *)
(* concurrent edits, retries, crashes inside merge and late requests.  It  *)
(* holds up to the bounds of the runs; the README (section 6) says how     *)
(* four or five edits in one order lose a content.                         *)
(***************************************************************************)
NoLostEdit == live \subseteq UNION {Files(d) : d \in Device}

(***************************************************************************)
(* The pull cursor never passes over a revision the mirror has not taken   *)
(* in (pullNext, savePeerState): whatever the host had confirmed for a     *)
(* path up to the saved cursor, the mirror's record is that revision or a  *)
(* later one, or a local proposal that still goes through the host.  The   *)
(* push cursor never passes over an undecided proposal (pushNext,          *)
(* snapshot.complete): the host's history of that path covers every        *)
(* proposal with a sequence up to the saved cursor.                        *)
(***************************************************************************)
PullCursorSound(c) ==
  \A n \in 1..peers[c].pulled :
    LET p == host.journal[n].path
        e == entry(dev[c], p)
    IN /\ e.body # Missing
       /\ Pending(e) \/ e.rev >= LatestUpTo(host, p, peers[c].pulled)

PushCursorSound(c) ==
  \A p \in DOMAIN dev[c].entries :
    LET e == dev[c].entries[p] IN
    Pending(e) /\ e.seq <= peers[c].pushed =>
      \E n \in Revisions(host, p, host.head) : Covers(host.journal[n].clock, e.clock)

CursorSound == \A c \in Clients : PullCursorSound(c) /\ PushCursorSound(c)

(***************************************************************************)
(* A round that reports success leaves no user-visible path of the mirror  *)
(* waiting for a decision it has already submitted (pushNext, finish).     *)
(***************************************************************************)
OriginalsConfirmed ==
  \A c \in Clients : session[c].ok =>
    \A p \in DOMAIN dev[c].entries :
      Len(p) = 1 /\ dev[c].entries[p].seq <= peers[c].pushed => ~Pending(dev[c].entries[p])

(***************************************************************************)
(* Replication never takes a content off the host's own disk unless some   *)
(* user replaced it (merge on the authority): a stale or late proposal     *)
(* moves aside, it does not overwrite.                                     *)
(***************************************************************************)
HostKeepsContent ==
  [][(Files(Host) \intersect live') \subseteq Files(Host)']_vars

(***************************************************************************)
(* A content leaves a disk only for the user who edits there, or once it   *)
(* is history (merge, acceptMetadata): it is a confirmed revision of its   *)
(* path, and on the authority the latest one, to a proposal announced on   *)
(* that very revision.  "A stale proposal cannot replace a newer committed *)
(* object" (Replica.cpp:492), whatever is retried, late or torn.           *)
(***************************************************************************)
OnlySuperseded ==
  [][\A d \in Device : \A p \in DOMAIN dev[d].disk :
       LET content == dev[d].disk[p]
           known == {n \in Revisions(dev[d], p, dev[d].head) : dev[d].journal[n].body = content}
       IN IsFile(content) /\ edits' = edits /\ content \notin Files(d)' =>
            /\ known # {}
            /\ d = Host => \E c \in Clients : \E e \in manifests[c].members :
                             e.path = p /\ e.base = object(host, p) /\ e.base \in known]_vars

(***************************************************************************)
(* Fairness: the worker thread's timer keeps starting rounds, a round in   *)
(* progress keeps receiving replies, and the host's indexer and every      *)
(* mirror's scan keep running.  All of it is weak fairness; of the last    *)
(* two the enabling condition is written out (a round always has a next    *)
(* step, unless it waits for its scan to end).                             *)
(***************************************************************************)
IndexReady(d) ==
  /\ d \in Clients => session[d].pc \in {"idle", "rescan", "scan"}
  /\ \E p \in DOMAIN dev[d].entries \union DOMAIN dev[d].disk : indexable(dev[d], p)

RoundReady(c) ==
  session[c].pc \in {"rescan", "scan"} =>
    scanned(dev[c]) \/ \E q \in absent(dev[c]) : blocked(dev[c], q)

Fairness ==
  /\ \A c \in Clients : WF_vars(Start(c))
  /\ \A c \in Clients : []<>~RoundReady(c) \/ []<><<Round(c)>>_vars
  /\ \A d \in Device : []<>~IndexReady(d) \/ []<><<IndexSome(d)>>_vars

FairSpec == Spec /\ Fairness

(***************************************************************************)
(* Once users stop editing and failures stop, every mirror ends up with    *)
(* exactly the host's tree under FullReplica (Synchronizer rounds), and    *)
(* under MetadataFirst cataloguing exactly the host's latest revisions,    *)
(* with or without their bytes (acceptMetadata, merge).                    *)
(***************************************************************************)
Convergence ==
  <>[](\A c \in Clients :
         IF metadataFirst
         THEN \A p \in DOMAIN host.entries : entry(dev[c], p).body = host.entries[p].body
         ELSE dev[c].disk = host.disk)

(***************************************************************************)
(* A requested original does not stay requested for ever                   *)
(* (requestedPaths, completeSelected, completeRequests): it arrives, is    *)
(* superseded by another version or is cancelled.                          *)
(***************************************************************************)
RequestsServed == \A c \in Clients : []<>(requests[c] = {})
=============================================================================
