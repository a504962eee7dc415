------------------------------- MODULE Replica -------------------------------
(***************************************************************************)
(* One local container replica (src/Sync/Replica.cpp and                   *)
(* src/Sync/NamespaceJournal.cpp): what indexing, saving and merging one   *)
(* object do to a device.  Everything here is a pure operator on the state *)
(* of one device; Replication composes devices into a protocol.            *)
(*                                                                         *)
(* A device is a record                                                    *)
(*   id       the replica identity                                         *)
(*   disk     what the file system holds: path -> body                     *)
(*   entries  the SQLite table "entries": path -> indexed record           *)
(*   seq      metadata "sequence", the device-local change counter         *)
(*   counter  metadata "counter", the device's own vector-clock counter    *)
(*   journal  the table "namespace_revisions": sequence -> revision        *)
(*   head     the last sequence of that table                              *)
(* Exactly one device, Host, is the authority: its metadata "host" is      *)
(* empty.  Every other device is a mirror bound to it.                     *)
(***************************************************************************)
EXTENDS Integers, Sequences

CONSTANTS Host,      \* the authority
          Clients,   \* the mirrors bound to it
          Names,     \* the user-visible paths of the instance
          Parent     \* the directory of each of them, or Root

ASSUME HostAssumption == Host \notin Clients

Device == {Host} \union Clients

Root == "root"       \* a section root: always there, never replicated

ASSUME ParentAssumption == Parent \in [Names -> Names \union {Root}] /\ Root \notin Names

(***************************************************************************)
(* A body stands for the triple kind, hash and size of a record: a         *)
(* positive number is a file with that content.  A file stamp is           *)
(* abstracted to the content it was taken from, except for the literal     *)
(* stamp "remote", kept in the field remote.                               *)
(***************************************************************************)
Missing   == -1          \* no record at all (an empty QJsonObject)
Deleted   == 0
Directory == -2
IsFile(body) == body > 0

Body == {Deleted, Directory} \union {n \in Nat : IsFile(n)}

(* Vector clocks: an absent key counts as zero. *)
ZeroClock == [d \in Device |-> 0]

(* compare(a, b) is 0 or 1. *)
Covers(a, b) == \A d \in Device : a[d] >= b[d]

(* compare(a, b) = 1: a dominates b and differs from it. *)
Dominates(a, b) == Covers(a, b) /\ \E d \in Device : a[d] > b[d]

joined(a, b) == [d \in Device |-> IF b[d] > a[d] THEN b[d] ELSE a[d]]

(* versioned(): the version is the digest of path, kind, size, hash, clock. *)
Version(e) == <<e.path, e.body, e.clock>>

(***************************************************************************)
(* Paths.  A user-visible path is a one-element sequence; a conflict copy  *)
(* of it carries the loser's version in its name and shares its directory. *)
(***************************************************************************)
conflictPath(loser) == loser.path \o <<loser.body, loser.clock>>

parent(p) == <<Parent[p[1]]>>

(* rev = 0 is a record without a "revision" key: a local proposal. *)
NoEntry(p) == [path |-> p, body |-> Missing, clock |-> ZeroClock,
               rev |-> 0, base |-> 0, seq |-> 0, remote |-> FALSE]

Pending(e) == e.body # Missing /\ e.rev = 0

entry(dev, p) == IF p \in DOMAIN dev.entries THEN dev.entries[p] ELSE NoEntry(p)

(* ConfinedFiles::state(). *)
state(dev, p) == IF p \in DOMAIN dev.disk THEN dev.disk[p] ELSE Deleted

children(dev, p) == {q \in DOMAIN dev.disk : q # p /\ parent(q) = p}

(* What ConfinedFiles::install, mkdir and remove leave on disk. *)
onDisk(dev, p, body) ==
  [dev EXCEPT !.disk =
     [q \in (DOMAIN @ \ {p}) \union (IF body = Deleted THEN {} ELSE {p}) |->
        IF q = p THEN body ELSE @[q]]]

(* install() and mkdir() create the missing directories above the target. *)
withParent(dev, p) ==
  IF parent(p) = <<Root>> \/ parent(p) \in DOMAIN dev.disk
    THEN dev ELSE onDisk(dev, parent(p), Directory)

(***************************************************************************)
(* A regular file where the parent directory was: ConfinedFiles::state and *)
(* exactPath fail on such a path (ENOTDIR is not taken for an absence).    *)
(***************************************************************************)
blocked(dev, p) == IsFile(state(dev, parent(p)))

-----------------------------------------------------------------------------
(***************************************************************************)
(* NamespaceJournal.  A revision hash covers the previous head, so within  *)
(* one authority epoch it is identified by its sequence number.            *)
(***************************************************************************)
Revisions(dev, p, through) == {n \in 1..dev.head : n <= through /\ dev.journal[n].path = p}

(* The sequence of the last revision of p up to through, 0 when none. *)
LatestUpTo(dev, p, through) ==
  LET Latest(found) == IF found = {} THEN 0 ELSE CHOOSE n \in found : \A m \in found : m <= n
  IN Latest(Revisions(dev, p, through))

object(dev, p) == LatestUpTo(dev, p, dev.head)

projected(dev, n) ==
  [path |-> dev.journal[n].path, body |-> dev.journal[n].body,
   clock |-> dev.journal[n].clock, rev |-> n, base |-> 0]

contains(dev, e) == e.rev \in 1..dev.head /\ projected(dev, e.rev) = e

append(dev, row) ==
  [dev EXCEPT !.head = @ + 1,
              !.journal = [n \in 1..dev.head + 1 |-> IF n <= dev.head THEN @[n] ELSE row]]

(* commit(): a record that already is the confirmed version is not repeated. *)
commit(dev, e, base) ==
  LET After(old) ==
        IF old # 0 /\ Version(dev.journal[old]) = Version(e)
          THEN dev
          ELSE append(dev, [path |-> e.path, body |-> e.body, clock |-> e.clock,
                            parents |-> {old, IF base <= dev.head THEN base ELSE 0} \ {0}])
  IN After(object(dev, e.path))

(***************************************************************************)
(* Replica::Private::save.  The authority commits to the journal and keeps *)
(* the resulting revision; a mirror keeps the host revision it was given   *)
(* or records a proposal on its base.                                      *)
(***************************************************************************)
recorded(dev, e, remote, previous) ==
  LET sequence == IF Version(previous) # Version(e) THEN dev.seq + 1 ELSE previous.seq
      kept == [path |-> e.path, body |-> e.body, clock |-> e.clock,
               rev |-> IF dev.id = Host THEN object(dev, e.path) ELSE e.rev,
               base |-> IF dev.id = Host \/ e.rev # 0 THEN 0 ELSE e.base,
               seq |-> sequence,
               remote |-> remote]
  IN [dev EXCEPT !.seq = IF Version(previous) # Version(e) THEN sequence ELSE @,
                 !.entries = [q \in DOMAIN @ \union {e.path} |->
                                IF q = e.path THEN kept ELSE @[q]]]

save(dev, e, remote, proposalBase) ==
  recorded(IF dev.id = Host THEN commit(dev, e, proposalBase) ELSE dev,
           e, remote, entry(dev, e.path))

(***************************************************************************)
(* Replica::Private::observed/refresh: index what the disk holds.  The     *)
(* base of a first offline edit is the confirmed revision it started from  *)
(* and is retained through repeated edits.  A catalog entry without a      *)
(* local payload is not a user deletion.                                   *)
(***************************************************************************)
observedBase(dev, old) ==
  IF Pending(old) THEN old.base
  ELSE IF old.rev # 0 THEN old.rev ELSE object(dev, old.path)

unchanged(dev, p) ==
  LET old == entry(dev, p) IN
  \/ state(dev, p) = Deleted /\ (old.remote \/ old.body = Missing)
  \/ state(dev, p) = old.body /\ ~old.remote

(* A local edit: the device's own counter moves past every clock it has seen. *)
edited(dev, old, tick, proposalBase) ==
  save([dev EXCEPT !.counter = tick],
       [path |-> old.path, body |-> state(dev, old.path),
        clock |-> [old.clock EXCEPT ![dev.id] = tick],
        rev |-> 0, base |-> observedBase(dev, old)],
       FALSE, proposalBase)

observed(dev, p, proposalBase) ==
  LET Observe(old) ==
        IF unchanged(dev, p) THEN dev
        ELSE IF old.body = state(dev, p) THEN save(dev, old, FALSE, proposalBase)
        ELSE edited(dev, old,
                    1 + (IF old.clock[dev.id] > dev.counter THEN old.clock[dev.id] ELSE dev.counter),
                    proposalBase)
  IN Observe(entry(dev, p))

(***************************************************************************)
(* Replica::scan.  Paths on disk are indexed in batches of their own; the  *)
(* candidate deletions come last, in one transaction that a path whose     *)
(* state cannot be read rolls back.                                        *)
(***************************************************************************)
absent(dev) == {p \in DOMAIN dev.entries \ DOMAIN dev.disk : dev.entries[p].body # Deleted}

indexable(dev, p) ==
  /\ ~unchanged(dev, p)
  /\ p \in DOMAIN dev.disk \/ \A q \in absent(dev) : ~blocked(dev, q)

scanned(dev) ==
  /\ \A p \in DOMAIN dev.entries \union DOMAIN dev.disk : unchanged(dev, p)
  /\ \A q \in absent(dev) : ~blocked(dev, q)

(* Replica::resident: an indexed file whose bytes are still on this disk. *)
resident(dev, p) ==
  /\ IsFile(entry(dev, p).body)
  /\ ~entry(dev, p).remote
  /\ state(dev, p) = entry(dev, p).body

-----------------------------------------------------------------------------
(***************************************************************************)
(* Replica::Private::merge.  decide() is everything it works out about a   *)
(* freshly observed destination before touching it; the operators after it *)
(* are the durable steps it then takes, in order.  No transaction spans    *)
(* them: a crash leaves the device as one of them left it.                 *)
(***************************************************************************)
(* Mutation of relation: the authority does not look at the proposal's base. *)
relation_LastWriter(dev, local, e) == IF Version(local) = Version(e) /\ ~local.remote THEN 0 ELSE 1

relation(dev, local, e) ==
  IF dev.id # Host
    THEN IF Version(local) = Version(e) /\ ~local.remote THEN 0 ELSE 1
  ELSE IF Version(local) = Version(e) THEN 0
  ELSE IF e.base = object(dev, e.path) THEN 1 ELSE 2

decision(dev, e, local, order) ==
  LET mirror     == dev.id # Host
      same       == ~local.remote /\ local.body = e.body
      retain     == /\ local.body = Directory /\ e.body # Directory
                    /\ children(dev, e.path) # {}
      pending    == mirror /\ Pending(local)
      structural == \/ e.body = Directory /\ IsFile(local.body)
                    \/ IsFile(e.body) /\ local.body = Directory
      wins       == ~retain /\ (mirror \/ order = 1 \/ same \/ e.body = Directory)
      loser      == IF wins THEN local ELSE e
      conflict   == /\ order = 2 \/ retain \/ pending \/ structural
                    /\ ~same
                    /\ IsFile(loser.body)
                    /\ ~(wins /\ local.remote)
  IN [order |-> order, local |-> local, same |-> same, retain |-> retain,
      wins |-> wins, loser |-> loser, conflict |-> conflict,
      clock |-> IF mirror THEN e.clock ELSE joined(e.clock, local.clock),
      bytes |-> IsFile(e.body) /\ ~same /\ (wins \/ conflict)]

decide(dev, e) ==
  decision(dev, e, entry(dev, e.path), relation(dev, entry(dev, e.path), e))

(* A proposal made of a record, on the given base. *)
proposed(e, p, clock, base) ==
  [path |-> p, body |-> e.body, clock |-> clock, rev |-> 0, base |-> base]

(* Mutation of copied: the losing content is not preserved. *)
copied_Skipped(dev, plan) == dev

copied(dev, plan) ==
  LET p == conflictPath(plan.loser) IN
  IF plan.conflict THEN onDisk(withParent(dev, p), p, plan.loser.body) ELSE dev

copySaved(dev, plan, e) ==
  IF plan.conflict
    THEN save(copied(dev, plan), proposed(plan.loser, conflictPath(plan.loser), plan.clock, 0),
              FALSE, e.base)
    ELSE dev

(* A directory in a file's place, or the reverse, is removed first. *)
cleared(dev, plan, e) == IF plan.wins /\ ~plan.same THEN onDisk(dev, e.path, Deleted) ELSE dev

installed(dev, plan, e) ==
  IF plan.wins /\ ~plan.same
    THEN onDisk(IF e.body = Deleted THEN dev ELSE withParent(dev, e.path), e.path, e.body)
    ELSE dev

merged(dev, plan, e) ==
  LET winner == IF plan.wins THEN e ELSE plan.local IN
  save(dev,
       [path |-> e.path, body |-> winner.body, clock |-> plan.clock,
        rev |-> IF plan.wins THEN e.rev ELSE 0, base |-> 0],
       FALSE, e.base)

collides(dev, plan) ==
  /\ plan.conflict
  /\ state(dev, conflictPath(plan.loser)) \notin {Deleted, plan.loser.body}

(***************************************************************************)
(* The reply of merge(peer, e, commit) and the device it leaves.  torn is  *)
(* every device a crash during the call can leave instead.                 *)
(***************************************************************************)
reply(status, dev, new) == [status |-> status, dev |-> new, torn |-> {dev, new}]

(* The steps after the loser has been preserved, in the device safe. *)
replace(dev, safe, plan, e) ==
  LET Finish(placed) ==
        [status |-> "complete", dev |-> merged(placed, plan, e),
         torn |-> {dev, copied(dev, plan), safe, placed, merged(placed, plan, e),
                   IF IsFile(e.body) /\ IsFile(plan.local.body) THEN safe
                     ELSE cleared(safe, plan, e)}]
  IN Finish(installed(safe, plan, e))

(* dev has been refreshed at e.path, plan is its decision. *)
apply(dev, plan, e, committing) ==
  LET mirror == dev.id # Host
      local  == plan.local
  IN IF mirror /\ ~contains(dev, e) THEN reply("failed", dev, dev)
     ELSE IF mirror /\ local.rev = 0 /\ Dominates(local.clock, e.clock)
       THEN reply("complete", dev, save(dev, proposed(local, e.path, local.clock, e.rev),
                                        local.remote, 0))
     ELSE IF plan.order = 0
       THEN reply("complete", dev, IF mirror THEN save(dev, e, FALSE, 0) ELSE dev)
     ELSE IF mirror /\ plan.retain
       THEN reply("complete", dev,
                  save(dev, proposed(local, e.path, joined(e.clock, local.clock), e.rev), FALSE, 0))
     ELSE IF plan.bytes /\ ~committing THEN reply("bytes", dev, dev)
     ELSE IF collides(dev, plan) THEN reply("failed", dev, dev)
     ELSE replace(dev, copySaved(dev, plan, e), plan, e)

merge(old, e, committing) ==
  LET On(dev) == apply(dev, decide(dev, e), e, committing) IN
  IF blocked(old, e.path) THEN reply("failed", old, old)
  ELSE On(observed(old, e.path, e.base))

(***************************************************************************)
(* Replica::acceptMetadata: catalog a host revision without its bytes, and *)
(* evict a cached copy that is no longer the confirmed one.  A crash after *)
(* the eviction leaves a record that claims the file is on disk.           *)
(***************************************************************************)
acceptsMetadata(old, e) ==
  LET On(dev) == /\ contains(dev, e)
                 /\ ~Pending(entry(dev, e.path))
                 /\ entry(dev, e.path).body # Directory
  IN /\ ~blocked(old, e.path)
     /\ IsFile(e.body)
     /\ On(observed(old, e.path, 0))

evicted(dev, e) ==
  IF IsFile(entry(dev, e.path).body) /\ ~entry(dev, e.path).remote
    THEN onDisk(dev, e.path, Deleted) ELSE dev

acceptMetadata(old, e) ==
  LET On(dev) ==
        IF resident(dev, e.path) /\ entry(dev, e.path).body = e.body
          THEN [dev |-> save(dev, e, FALSE, 0), torn |-> {dev}]
          ELSE [dev |-> save(evicted(dev, e), e, TRUE, 0), torn |-> {dev, evicted(dev, e)}]
  IN On(observed(old, e.path, 0))
=============================================================================
