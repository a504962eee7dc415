-------------------------- MODULE ReplicationProofs --------------------------
(***************************************************************************)
(* The journals and cursors of mirrors and what a merge may overwrite, for *)
(* any number of mirrors, paths, edits, failures and rows of a page.       *)
(***************************************************************************)
EXTENDS Replication, SequenceTheorems, FiniteSetTheorems, WellFoundedInduction, TLAPS

Clock == [Device -> Nat]

(* What a record of a path says, whatever the path is. *)
Record(e) == e.body \in Body /\ e.clock \in Clock /\ e.rev \in Nat /\ e.base \in Nat

Entry(p) == [path : {p}, body : Body, clock : Clock, rev : Nat, base : Nat, seq : Nat, remote : BOOLEAN]

-----------------------------------------------------------------------------
(***************************************************************************)
(* One device.  Of a record that names a revision, and of a proposal that  *)
(* names its base, the journal holds that revision; every path of the      *)
(* authority's journal has a record.                                       *)
(***************************************************************************)
Shape(x) ==
  x \in [id : Device, disk : {x.disk}, entries : {x.entries}, seq : Nat, counter : Nat,
         journal : {x.journal}, head : Nat]

Backs(x, p, e) == e.rev \in 1..x.head /\ Version(x.journal[e.rev]) = <<p, e.body, e.clock>>

Based(x, p, base) == base # 0 => base \in 1..x.head /\ x.journal[base].path = p

Solid(x) ==
  /\ Shape(x)
  /\ \A p \in DOMAIN x.disk : x.disk[p] \in Body
  /\ \A n \in 1..x.head : x.journal[n].body \in Body /\ x.journal[n].clock \in Clock
  /\ \A p \in DOMAIN x.entries :
       /\ x.entries[p] \in Entry(p) /\ x.entries[p].seq <= x.seq
       /\ x.id = Host \/ x.entries[p].rev # 0 => Backs(x, p, x.entries[p])
       /\ Based(x, p, x.entries[p].base)

Whole(x) == x.id = Host => \A n \in 1..x.head : x.journal[n].path \in DOMAIN x.entries

Good(x) == Solid(x) /\ Whole(x)

(***************************************************************************)
(* What indexing and merging do to a device: a mirror's journal stays, the *)
(* authority's is only appended to; a record becomes a proposal, keeps its *)
(* revision or takes that of the merged records R; one that differs has a  *)
(* new sequence number.                                                    *)
(***************************************************************************)
Extends(x, y) ==
  /\ y.id = x.id /\ x.head <= y.head
  /\ \A n \in 1..x.head : y.journal[n] = x.journal[n]
  /\ x.id # Host => y.head = x.head /\ y.journal = x.journal

Evolves(x, y, R) ==
  /\ Extends(x, y) /\ x.seq <= y.seq /\ DOMAIN x.entries \subseteq DOMAIN y.entries
  /\ \A p \in DOMAIN y.entries :
       /\ \/ y.id # Host /\ y.entries[p].rev = 0
          \/ p \in DOMAIN x.entries /\ y.entries[p].rev = x.entries[p].rev
          \/ y.id = Host
          \/ \E e \in R : e.path = p /\ e.rev = y.entries[p].rev
       /\ \/ y.entries[p].seq > x.seq
          \/ /\ p \in DOMAIN x.entries /\ y.entries[p].seq = x.entries[p].seq
             /\ y.entries[p].clock = x.entries[p].clock /\ y.entries[p].body = x.entries[p].body

-----------------------------------------------------------------------------
(***************************************************************************)
(* A mirror x against the authority h: its session s, saved cursors k and  *)
(* manifest m.  h has decided about a version of a path when one of its    *)
(* revisions of that path covers the version's clock.                      *)
(***************************************************************************)
Decided(h, p, e) ==
  \E n \in 1..h.head : /\ h.journal[n].path = p /\ Covers(h.journal[n].clock, e.clock)
                       /\ e.body = Directory => h.journal[n].body = Directory

Phase == {"idle", "rescan", "changes", "journal", "announce", "pull", "commit", "scan", "push", "send"}

Session(s) ==
  /\ s \in [pc : Phase, pulled : Nat, pushed : Nat, after : Nat, upper : Nat, through : Nat,
            todo : {s.todo}, outgoing : {s.outgoing}, pushThrough : Nat, requested : {s.requested},
            current : {s.current}, acknowledged : BOOLEAN, early : BOOLEAN, sent : BOOLEAN, gen : Nat, ok : BOOLEAN]
  /\ \A e \in s.todo \union s.outgoing : Record(e)
  /\ s.pc \in {"commit", "send"} => s.current \in s.todo

Cursor(k) == k \in [pulled : Nat, pushed : Nat]

(* A mirror's journal is a prefix of the authority's; pages reach into it. *)
Follows(h, x, s) ==
  /\ x.head <= h.head
  /\ \A n \in 1..x.head : x.journal[n] = h.journal[n]
  /\ s.pc = "journal" /\ s.upper # 0 => x.head <= s.upper /\ s.upper <= h.head

Plan(h, m) ==
  /\ m = [gen |-> m.gen, members |-> m.members, applied |-> m.applied]
  /\ \A e \in m.members : Record(e) /\ e.rev = 0 /\ Based(h, e.path, e.base)
  /\ \A e, f \in m.members : e.path = f.path => e = f
  /\ \A e \in m.members : e.path \in m.applied => Decided(h, e.path, e)

(***************************************************************************)
(* The push cursor.  A record that it covers has been decided; one that an *)
(* announcement under way is about is decided or announced.                *)
(***************************************************************************)
Announced == {"pull", "commit", "push", "send"}

Pushes(h, x, s, k, m) ==
  /\ k.pushed <= x.seq
  /\ \A p \in DOMAIN x.entries : x.entries[p].seq <= k.pushed => Decided(h, p, x.entries[p])
  /\ s.pc # "idle" => s.pushed <= k.pushed
  /\ s.pc \in Announced =>
       /\ s.pushThrough <= x.seq
       /\ \A p \in DOMAIN x.entries :
            x.entries[p].seq <= s.pushThrough =>
              \/ x.entries[p].seq <= s.pushed \/ Decided(h, p, x.entries[p])
              \/ \E e \in s.outgoing : e.path = p /\ e.clock = x.entries[p].clock /\ e.body = x.entries[p].body
       /\ s.acknowledged => s.outgoing = {}
       /\ ~s.acknowledged /\ m.gen = s.gen => m.members = s.outgoing

(***************************************************************************)
(* The pull cursor, under FullReplica.  Of every revision up to it the     *)
(* mirror has taken in that or a later one of its path, or has a proposal; *)
(* of those up to the end of the pages, or one is in the queue.            *)
(***************************************************************************)
Took(h, x, n) ==
  /\ h.journal[n].path \in DOMAIN x.entries
  /\ x.entries[h.journal[n].path].rev = 0 \/ x.entries[h.journal[n].path].rev >= n

Queued(h, todo, n) == \E e \in todo : e.path = h.journal[n].path /\ e.rev >= n

(* The record is the authority's last one of its path, up to a bound. *)
Newest(h, e, bound) ==
  /\ e.rev \in 1..h.head
  /\ \A n \in 1..bound : h.journal[n].path = e.path => n <= e.rev

(* What the pages up to a bound have brought: the rows after a sequence are still to come. *)
Paged(h, x, todo, bound, after) ==
  /\ bound <= h.head
  /\ \A e \in todo : Newest(h, e, bound)
  /\ \A n \in 1..bound : \/ Took(h, x, n) \/ Queued(h, todo, n)
                          \/ LatestUpTo(h, h.journal[n].path, bound) > after

Pulls(h, x, s, k) ==
  /\ k.pulled <= h.head /\ \A n \in 1..k.pulled : Took(h, x, n)
  /\ s.requested = {} /\ ~s.early
  /\ s.pc # "idle" => s.pulled = k.pulled
  /\ s.pc = "rescan" => s.upper = 0
  /\ s.pc \in {"rescan", "changes"} /\ s.upper = 0 => s.after = s.pulled /\ s.todo = {}
  /\ s.pc = "changes" /\ s.upper # 0 => s.pulled <= s.upper /\ Paged(h, x, s.todo, s.upper, s.after)
  /\ s.pc \in {"journal", "announce", "pull", "commit"} =>
       s.pulled <= s.through /\ Paged(h, x, s.todo, s.through, s.through)

-----------------------------------------------------------------------------
Client(h, x, s, k, m) ==
  /\ Session(s) /\ Cursor(k) /\ Follows(h, x, s) /\ Plan(h, m) /\ Pushes(h, x, s, k, m)

Full(h, x, s, k, rs) == rs = {} /\ Pulls(h, x, s, k)

Tables ==
  /\ edits \in Nat /\ metadataFirst \in Policies
  /\ dev = [d \in Device |-> dev[d]]
  /\ peers = [c \in Clients |-> peers[c]] /\ session = [c \in Clients |-> session[c]]
  /\ manifests = [c \in Clients |-> manifests[c]] /\ requests = [c \in Clients |-> requests[c]]

Devices == \A d \in Device : Good(dev[d]) /\ dev[d].id = d

Mirrors == \A c \in Clients : Client(host, dev[c], session[c], peers[c], manifests[c])

FullMirrors ==
  ~metadataFirst => \A c \in Clients : Full(host, dev[c], session[c], peers[c], requests[c])

IInv == Tables /\ Devices /\ Mirrors /\ FullMirrors
-----------------------------------------------------------------------------
(* Extremes of sets of numbers, from the well-foundedness of the natural numbers. *)
LEMMA Least ==
  ASSUME NEW S, S \subseteq Nat, S # {}
  PROVE  \E m \in S : \A n \in S : m <= n
<1> DEFINE R == OpToRel(<, Nat)
<1>1. \A x, y \in Nat : x < y => <<x, y>> \in R BY DEF OpToRel
<1>2. IsWellFoundedOn(R, Nat) BY NatLessThanWellFounded
<1> HIDE DEF R
<1>3. \E m \in S : \A n \in S : ~(<<n, m>> \in R) BY <1>2, WFMin
<1>4. PICK m \in S : \A n \in S : ~(<<n, m>> \in R) BY <1>3
<1>5. ASSUME NEW n \in S PROVE m <= n
  <2>1. m \in Nat /\ n \in Nat /\ ~(<<n, m>> \in R) BY <1>4
  <2>2. ~(n < m) BY <1>1, <2>1
  <2> QED BY <2>1, <2>2
<1> QED BY <1>5

LEMMA Greatest ==
  ASSUME NEW N \in Nat, NEW S, S \subseteq 1..N, S # {}
  PROVE  \E m \in S : \A n \in S : n <= m
<1> DEFINE T == {N - n : n \in S}
<1>1. T \subseteq Nat /\ T # {}
  <2>1. ASSUME NEW n \in S PROVE N - n \in Nat
    <3>1. n \in 1..N OBVIOUS
    <3> QED BY <3>1
  <2> QED BY <2>1
<1>2. PICK t \in T : \A u \in T : t <= u BY <1>1, Least
<1>3. PICK m \in S : t = N - m BY <1>2
<1>4. ASSUME NEW n \in S PROVE n <= m
  <2>1. N - n \in T /\ n \in 1..N /\ m \in 1..N OBVIOUS
  <2> QED BY <1>2, <1>3, <2>1
<1> QED BY <1>4

(* The last revision of a path up to a bound. *)
LEMMA LatestFacts ==
  ASSUME NEW x, x.head \in Nat, NEW p, NEW t \in Nat
  PROVE  LET n == LatestUpTo(x, p, t)
         IN /\ n = 0 \/ (n \in 1..x.head /\ n <= t /\ x.journal[n].path = p)
            /\ \A m \in 1..x.head : m <= t /\ x.journal[m].path = p => m <= n /\ n # 0
<1> DEFINE S == Revisions(x, p, t)
           n == LatestUpTo(x, p, t)
<1>1. \A m : m \in S <=> m \in 1..x.head /\ m <= t /\ x.journal[m].path = p BY DEF Revisions
<1>2. n = IF S = {} THEN 0 ELSE CHOOSE k \in S : \A m \in S : m <= k BY DEF LatestUpTo
<1> HIDE DEF S, n
<1>3. CASE S = {} BY <1>1, <1>2, <1>3 DEF n
<1>4. CASE S # {}
  <2>1. S \subseteq 1..x.head BY <1>1
  <2>2. \E k \in S : \A m \in S : m <= k BY <1>4, <2>1, Greatest
  <2>3. n \in S /\ \A m \in S : m <= n BY <1>2, <1>4, <2>2
  <2> QED BY <1>1, <2>1, <2>3 DEF n
<1> QED BY <1>3, <1>4

(* It does not depend on what the journal holds after the bound. *)
LEMMA LatestStable ==
  ASSUME NEW x, NEW y, x.head \in Nat, y.head \in Nat, NEW p, NEW t \in Nat, t <= x.head, x.head <= y.head,
         \A n \in 1..x.head : y.journal[n] = x.journal[n]
  PROVE  LatestUpTo(y, p, t) = LatestUpTo(x, p, t)
<1>1. Revisions(y, p, t) = Revisions(x, p, t) BY DEF Revisions
<1> QED BY <1>1 DEF LatestUpTo

(* A page has the first rows, and all of them unless it is full. *)
LEMMA PageRows ==
  ASSUME NEW N \in Nat, NEW R, R \subseteq 1..N
  PROVE  /\ firstRows(R) \subseteq R
         /\ \A m \in R, n \in firstRows(R) : m <= n => m \in firstRows(R)
         /\ IsFiniteSet(firstRows(R)) /\ Cardinality(firstRows(R)) \in Nat
         /\ firstRows(R) # R => Cardinality(firstRows(R)) = PageLimit
         /\ firstRows(R) # {} => \E m \in firstRows(R) : \A n \in firstRows(R) : n <= m
<1> DEFINE F == firstRows(R)
           B(n) == {m \in R : m <= n}
<1>1. \A n : n \in F <=> n \in R /\ Cardinality(B(n)) <= PageLimit BY DEF firstRows
<1>2. IsFiniteSet(R)
  <2>1. IsFiniteSet(1..N) BY FS_Interval
  <2> QED BY <2>1, FS_Subset
<1>3. ASSUME NEW T, T \subseteq R PROVE IsFiniteSet(T) /\ Cardinality(T) \in Nat BY <1>2, <1>3, FS_Subset, FS_CardinalityType
<1>4. F \subseteq R BY <1>1
<1> HIDE DEF F
<1>5. PageLimit \in Nat /\ PageLimit > 0 BY PageLimitAssumption
<1>6. ASSUME NEW m \in R, NEW n \in F, m <= n PROVE m \in F
  <2>1. n \in R BY <1>4
  <2>2. B(m) \subseteq B(n) /\ B(n) \subseteq R /\ B(m) \subseteq R
    <3>1. ASSUME NEW k \in B(m) PROVE k \in B(n)
      <4>1. k \in R /\ k <= m BY <3>1
      <4>2. k \in 1..N /\ m \in 1..N /\ n \in 1..N BY <2>1, <4>1
      <4> QED BY <1>6, <4>1, <4>2
    <3> QED BY <3>1
  <2>3. Cardinality(B(m)) <= Cardinality(B(n)) /\ Cardinality(B(n)) \in Nat /\ Cardinality(B(m)) \in Nat
    BY <1>3, <2>2, FS_Subset
  <2>4. Cardinality(B(n)) <= PageLimit BY <1>1
  <2> HIDE DEF B
  <2> QED BY <1>1, <1>5, <2>3, <2>4
<1>7. F # {} => \E m \in F : \A n \in F : n <= m
  <2>1. F \subseteq 1..N BY <1>4
  <2> QED BY <2>1, Greatest
<1>8. ASSUME F # R PROVE Cardinality(F) = PageLimit
  <2>1. R \ F \subseteq Nat /\ R \ F # {}
    <3>1. 1..N \subseteq Nat OBVIOUS
    <3> QED BY <1>4, <1>8, <3>1
  <2>2. PICK m \in R \ F : \A n \in R \ F : m <= n BY <2>1, Least
  <2> DEFINE G == {k \in R : k < m}
  <2>a. R \subseteq Nat /\ m \in R /\ m \notin F OBVIOUS
  <2>3. m \in Nat /\ B(m) = G \union {m} /\ m \notin G /\ G \subseteq R /\ B(m) \subseteq R
    <3>1. m \in Nat /\ m \notin G /\ G \subseteq R /\ B(m) \subseteq R BY <2>a
    <3>2. ASSUME NEW k PROVE k \in B(m) <=> k \in G \union {m}
      <4>1. k \in R => k \in Nat BY <2>a
      <4> QED BY <2>a, <3>1, <4>1
    <3> HIDE DEF B, G
    <3> QED BY <3>1, <3>2
  <2>4. G \subseteq F
    <3> SUFFICES ASSUME NEW k \in R, k < m, k \notin F PROVE FALSE OBVIOUS
    <3>1. m <= k BY <2>2
    <3> QED BY <2>a, <3>1
  <2>5. Cardinality(B(m)) = Cardinality(G) + 1 BY <1>3, <2>3, FS_AddElement
  <2>6. ~(Cardinality(B(m)) <= PageLimit) BY <1>1, <2>2
  <2>7. Cardinality(G) \in Nat /\ Cardinality(B(m)) \in Nat /\ Cardinality(F) \in Nat BY <1>3, <1>4, <2>3
  <2>8. Cardinality(G) <= Cardinality(F) BY <1>3, <1>4, <2>4, FS_Subset
  <2>9. Cardinality(F) >= PageLimit
    <3> HIDE DEF B, G
    <3> QED BY <1>5, <2>5, <2>6, <2>7, <2>8
  <2>10. F # {}
    <3>1. Cardinality({}) = 0 BY FS_EmptySet
    <3> QED BY <1>5, <2>9, <3>1
  <2>11. PICK k \in F : \A n \in F : n <= k BY <1>7, <2>10
  <2>12. F = B(k)
    <3>1. ASSUME NEW n \in F PROVE n \in B(k) BY <1>4, <2>11
    <3>2. ASSUME NEW n \in B(k) PROVE n \in F BY <1>6
    <3> HIDE DEF B
    <3> QED BY <3>1, <3>2
  <2>13. Cardinality(F) <= PageLimit
    <3>1. Cardinality(B(k)) <= PageLimit BY <1>1
    <3> QED BY <2>12, <3>1
  <2> QED BY <1>5, <2>7, <2>9, <2>13
<1>9. IsFiniteSet(F) /\ Cardinality(F) \in Nat BY <1>3, <1>4
<1> QED BY <1>4, <1>6, <1>7, <1>8, <1>9 DEF F

-----------------------------------------------------------------------------
(* Evolution of a device. *)
LEMMA EvolvesNot ==
  ASSUME NEW x, Good(x), NEW R
  PROVE  Evolves(x, x, R)
<1>1. x.head \in Nat /\ x.seq \in Nat BY DEF Good, Solid, Shape
<1> QED BY <1>1 DEF Evolves, Extends

LEMMA EvolvesOn ==
  ASSUME NEW x, NEW y, NEW z, NEW R, Good(x), Good(y), Good(z), Evolves(x, y, R), Evolves(y, z, R)
  PROVE  Evolves(x, z, R)
<1>1. /\ x.head \in Nat /\ y.head \in Nat /\ z.head \in Nat
      /\ x.seq \in Nat /\ y.seq \in Nat /\ z.seq \in Nat
  BY DEF Good, Solid, Shape
<1>2. Extends(x, z)
  <2>1. Extends(x, y) /\ Extends(y, z) BY DEF Evolves
  <2> QED BY <1>1, <2>1 DEF Extends
<1>3. z.id = y.id /\ y.id = x.id BY DEF Evolves, Extends
<1>4. x.seq <= z.seq /\ DOMAIN x.entries \subseteq DOMAIN z.entries BY <1>1 DEF Evolves
<1>5. ASSUME NEW p \in DOMAIN z.entries
      PROVE  /\ \/ z.id # Host /\ z.entries[p].rev = 0
                \/ p \in DOMAIN x.entries /\ z.entries[p].rev = x.entries[p].rev
                \/ z.id = Host
                \/ \E e \in R : e.path = p /\ e.rev = z.entries[p].rev
             /\ \/ z.entries[p].seq > x.seq
                \/ /\ p \in DOMAIN x.entries /\ z.entries[p].seq = x.entries[p].seq
                   /\ z.entries[p].clock = x.entries[p].clock /\ z.entries[p].body = x.entries[p].body
  <2>1. /\ \/ z.id # Host /\ z.entries[p].rev = 0
           \/ p \in DOMAIN y.entries /\ z.entries[p].rev = y.entries[p].rev
           \/ z.id = Host
           \/ \E e \in R : e.path = p /\ e.rev = z.entries[p].rev
        /\ \/ z.entries[p].seq > y.seq
           \/ /\ p \in DOMAIN y.entries /\ z.entries[p].seq = y.entries[p].seq
              /\ z.entries[p].clock = y.entries[p].clock /\ z.entries[p].body = y.entries[p].body
    BY DEF Evolves
  <2>2. p \in DOMAIN y.entries =>
          /\ \/ y.id # Host /\ y.entries[p].rev = 0
             \/ p \in DOMAIN x.entries /\ y.entries[p].rev = x.entries[p].rev
             \/ y.id = Host
             \/ \E e \in R : e.path = p /\ e.rev = y.entries[p].rev
          /\ \/ y.entries[p].seq > x.seq
             \/ /\ p \in DOMAIN x.entries /\ y.entries[p].seq = x.entries[p].seq
                /\ y.entries[p].clock = x.entries[p].clock /\ y.entries[p].body = x.entries[p].body
    BY DEF Evolves
  <2>3. z.entries[p].seq \in Nat
    <3>1. z.entries[p] \in Entry(p) BY DEF Good, Solid
    <3> QED BY <3>1 DEF Entry
  <2>4. \/ z.id # Host /\ z.entries[p].rev = 0
        \/ p \in DOMAIN x.entries /\ z.entries[p].rev = x.entries[p].rev
        \/ z.id = Host
        \/ \E e \in R : e.path = p /\ e.rev = z.entries[p].rev
    BY <1>3, <2>1, <2>2
  <2>5. x.seq <= y.seq BY DEF Evolves
  <2>6. \/ z.entries[p].seq > x.seq
        \/ /\ p \in DOMAIN x.entries /\ z.entries[p].seq = x.entries[p].seq
           /\ z.entries[p].clock = x.entries[p].clock /\ z.entries[p].body = x.entries[p].body
    BY <1>1, <2>1, <2>2, <2>3, <2>5
  <2> QED BY <2>4, <2>6
<1> QED BY <1>2, <1>4, <1>5 DEF Evolves

LEMMA EvolvesWithin ==
  ASSUME NEW x, NEW y, NEW e, NEW R, Evolves(x, y, {e}),
         e.rev = 0 \/ (e.path \in DOMAIN x.entries /\ e.rev = x.entries[e.path].rev) \/ e \in R
  PROVE  Evolves(x, y, R)
BY DEF Evolves

(* What a device holds of a path. *)
LEMMA Holds ==
  ASSUME NEW x, Good(x), NEW p
  PROVE  /\ state(x, p) \in Body /\ Missing \notin Body
         /\ p \in DOMAIN x.entries => entry(x, p) = x.entries[p] /\ entry(x, p) \in Entry(p)
         /\ p \notin DOMAIN x.entries => entry(x, p) = NoEntry(p) /\ entry(x, p).body = Missing
         /\ entry(x, p).path = p /\ entry(x, p).clock \in Clock /\ entry(x, p).rev \in Nat /\ entry(x, p).base \in Nat
         /\ entry(x, p).remote \in BOOLEAN
         /\ entry(x, p).body # Missing => p \in DOMAIN x.entries /\ entry(x, p).body \in Body
<1>1. Missing \notin Body BY DEF Missing, Body, Deleted, Directory, IsFile
<1>2. state(x, p) \in Body
  <2>1. Deleted \in Body BY DEF Body
  <2> QED BY <2>1 DEF state, Good, Solid
<1>3. CASE p \in DOMAIN x.entries
  <2>1. entry(x, p) = x.entries[p] /\ entry(x, p) \in Entry(p) BY <1>3 DEF entry, Good, Solid
  <2>2. ASSUME NEW e \in Entry(p)
        PROVE  /\ e.path = p /\ e.clock \in Clock /\ e.rev \in Nat /\ e.base \in Nat /\ e.remote \in BOOLEAN
               /\ e.body \in Body
    BY DEF Entry
  <2> QED BY <1>1, <1>2, <1>3, <2>1, <2>2
<1>4. CASE p \notin DOMAIN x.entries
  <2>1. entry(x, p) = NoEntry(p) BY <1>4 DEF entry
  <2>2. ZeroClock \in Clock BY DEF ZeroClock, Clock
  <2>3. /\ NoEntry(p).path = p /\ NoEntry(p).clock = ZeroClock /\ NoEntry(p).rev = 0 /\ NoEntry(p).base = 0
        /\ NoEntry(p).remote = FALSE /\ NoEntry(p).body = Missing
    BY DEF NoEntry
  <2>4. entry(x, p).remote \in BOOLEAN BY <2>1, <2>3
  <2>5. entry(x, p).rev \in Nat /\ entry(x, p).base \in Nat BY <2>1, <2>3
  <2>6. entry(x, p).path = p /\ entry(x, p).clock \in Clock /\ entry(x, p).body = Missing BY <2>1, <2>2, <2>3
  <2> QED BY <1>2, <1>1, <1>4, <2>1, <2>4, <2>5, <2>6
<1> QED BY <1>3, <1>4

(* The disk changes and the index does not. *)
SameIndex(x, y) ==
  /\ y.id = x.id /\ y.entries = x.entries /\ y.seq = x.seq /\ y.counter = x.counter
  /\ y.journal = x.journal /\ y.head = x.head

LEMMA DiskOnly ==
  ASSUME NEW x, Good(x), NEW p, NEW body \in Body, NEW R
  PROVE  Good(onDisk(x, p, body)) /\ SameIndex(x, onDisk(x, p, body)) /\ Evolves(x, onDisk(x, p, body), R)
<1> DEFINE y == onDisk(x, p, body)
           f == [q \in (DOMAIN x.disk \ {p}) \union (IF body = Deleted THEN {} ELSE {p}) |->
                   IF q = p THEN body ELSE x.disk[q]]
<1>1. Shape(x) BY DEF Good, Solid
<1>2. y = [x EXCEPT !.disk = f] BY DEF onDisk
<1>3. \A q \in DOMAIN f : f[q] \in Body BY DEF Good, Solid
<1> HIDE DEF y, f
<1>4. y.disk = f /\ SameIndex(x, y) /\ Shape(y) BY <1>1, <1>2 DEF Shape, SameIndex
<1>5. Good(y) BY <1>3, <1>4 DEF Good, Solid, Whole, Based, SameIndex, Backs, Version
<1>6. Evolves(x, x, R) BY EvolvesNot
<1>7. Evolves(x, y, R) BY <1>4, <1>6 DEF SameIndex, Evolves, Extends
<1> QED BY <1>4, <1>5, <1>7 DEF y

LEMMA ParentMade ==
  ASSUME NEW x, Good(x), NEW p, NEW R
  PROVE  Good(withParent(x, p)) /\ SameIndex(x, withParent(x, p)) /\ Evolves(x, withParent(x, p), R)
<1>1. Directory \in Body BY DEF Body
<1>2. Good(x) /\ SameIndex(x, x) /\ Evolves(x, x, R) BY EvolvesNot DEF SameIndex
<1>3. Good(onDisk(x, parent(p), Directory)) /\ SameIndex(x, onDisk(x, parent(p), Directory))
      /\ Evolves(x, onDisk(x, parent(p), Directory), R)
  BY <1>1, DiskOnly
<1> QED BY <1>2, <1>3 DEF withParent

-----------------------------------------------------------------------------
(* The journal of the authority after a record has been committed to it. *)
LEMMA Committed ==
  ASSUME NEW x, Good(x), x.id = Host, NEW e, Record(e), NEW base
  PROVE  LET y == commit(x, e, base)
             n == object(y, e.path)
         IN /\ Solid(y) /\ Extends(x, y) /\ y.entries = x.entries /\ y.seq = x.seq
            /\ n \in 1..y.head /\ Version(y.journal[n]) = <<e.path, e.body, e.clock>>
            /\ \A m \in 1..y.head : y.journal[m].path \in DOMAIN x.entries \union {e.path}
<1> DEFINE y == commit(x, e, base)
           old == object(x, e.path)
           row == [path |-> e.path, body |-> e.body, clock |-> e.clock,
                   parents |-> {old, IF base <= x.head THEN base ELSE 0} \ {0}]
           f == [n \in 1..x.head + 1 |-> IF n <= x.head THEN x.journal[n] ELSE row]
<1>1. Solid(x) /\ Shape(x) /\ Whole(x) BY DEF Good, Solid
<1>2. x.head \in Nat BY <1>1 DEF Shape
<1>3. /\ old = 0 \/ (old \in 1..x.head /\ old <= x.head /\ x.journal[old].path = e.path)
      /\ \A m \in 1..x.head : m <= x.head /\ x.journal[m].path = e.path => m <= old /\ old # 0
  BY <1>2, LatestFacts DEF object
<1>4. y = IF old # 0 /\ Version(x.journal[old]) = Version(e) THEN x ELSE append(x, row) BY DEF commit
<1>5. append(x, row) = [x EXCEPT !.head = x.head + 1, !.journal = f] BY DEF append
<1>6. row.path = e.path /\ row.body = e.body /\ row.clock = e.clock OBVIOUS
<1>7. /\ \A n \in 1..x.head : f[n] = x.journal[n]
      /\ f[x.head + 1] = row
  BY <1>2
<1> HIDE DEF y, old, row, f
<1>8. CASE old # 0 /\ Version(x.journal[old]) = Version(e)
  <2>1. y = x BY <1>4, <1>8
  <2>2. Extends(x, y) BY <1>2, <2>1 DEF Extends
  <2>3. object(y, e.path) = old BY <2>1 DEF old
  <2>4. Version(e) = <<e.path, e.body, e.clock>> BY DEF Version
  <2> QED BY <1>1, <1>3, <1>8, <2>1, <2>2, <2>3, <2>4 DEF y, Whole
<1>9. CASE ~(old # 0 /\ Version(x.journal[old]) = Version(e))
  <2>1. y = [x EXCEPT !.head = x.head + 1, !.journal = f] BY <1>4, <1>5, <1>9
  <2>2. /\ y.head = x.head + 1 /\ y.journal = f /\ y.id = x.id /\ y.entries = x.entries /\ y.seq = x.seq
        /\ y.disk = x.disk /\ Shape(y)
    <3>1. x.head + 1 \in Nat BY <1>2
    <3>2. y \in [id : Device, disk : {x.disk}, entries : {x.entries}, seq : {x.seq}, counter : Nat,
                journal : {f}, head : {x.head + 1}] /\ y.id = x.id
      BY <1>1, <3>1, <2>1 DEF Shape
    <3>3. x.seq \in Nat BY <1>1 DEF Shape
    <3> QED BY <3>1, <3>2, <3>3 DEF Shape
  <2>3. Extends(x, y) BY <1>2, <1>7, <2>2 DEF Extends
  <2>4. ASSUME NEW n \in 1..y.head PROVE n = x.head + 1 \/ n \in 1..x.head BY <1>2, <2>2
  <2>5. y.journal[x.head + 1] = row /\ \A n \in 1..x.head : y.journal[n] = x.journal[n] BY <1>7, <2>2
  <2>6. \A n \in 1..y.head : y.journal[n].body \in Body /\ y.journal[n].clock \in Clock
    BY <1>1, <1>6, <2>4, <2>5 DEF Solid, Record
  <2>7. \A n \in 1..x.head : n \in 1..y.head BY <1>2, <2>2
  <2>8. ASSUME NEW p \in DOMAIN x.entries
        PROVE  Backs(y, p, x.entries[p]) /\ Based(y, p, x.entries[p].base)
    <3>1. Backs(x, p, x.entries[p]) /\ Based(x, p, x.entries[p].base) BY <1>1 DEF Solid
    <3> QED BY <3>1, <2>5, <2>7 DEF Backs, Based, Version
  <2>9. Solid(y) BY <1>1, <2>2, <2>6, <2>8 DEF Solid
  <2>10. \A m \in 1..y.head : y.journal[m].path \in DOMAIN x.entries \union {e.path}
    BY <1>1, <1>6, <2>4, <2>5 DEF Whole
  <2> DEFINE n == object(y, e.path)
  <2>11. /\ n = 0 \/ (n \in 1..y.head /\ n <= y.head /\ y.journal[n].path = e.path)
         /\ \A m \in 1..y.head : m <= y.head /\ y.journal[m].path = e.path => m <= n /\ n # 0
    <3>1. y.head \in Nat BY <1>2, <2>2
    <3> QED BY <3>1, LatestFacts DEF object
  <2> HIDE DEF n
  <2>12. n = x.head + 1
    <3>1. x.head + 1 \in 1..y.head /\ x.head + 1 <= y.head /\ y.journal[x.head + 1].path = e.path
      BY <1>2, <1>6, <2>2, <2>5
    <3>2. x.head + 1 <= n /\ n # 0 BY <2>11, <3>1
    <3> QED BY <1>2, <2>2, <2>11, <3>2
  <2>13. Version(row) = <<e.path, e.body, e.clock>> BY <1>6 DEF Version
  <2>14. n \in 1..y.head /\ Version(y.journal[n]) = <<e.path, e.body, e.clock>>
    BY <1>2, <2>2, <2>5, <2>12, <2>13
  <2> QED BY <2>2, <2>3, <2>9, <2>10, <2>14 DEF y, n
<1> QED BY <1>8, <1>9

(***************************************************************************)
(* The index after a record has been saved in it.                          *)
(***************************************************************************)
Indexed(y, e) ==
  /\ e.path \in DOMAIN y.entries /\ y.entries[e.path].clock = e.clock /\ y.entries[e.path].body = e.body
  /\ y.id # Host => y.entries[e.path].rev = e.rev

LEMMA Saved ==
  ASSUME NEW x, Good(x), NEW e, Record(e), NEW remote \in BOOLEAN, NEW base,
         x.id # Host => Based(x, e.path, e.base),
         x.id # Host /\ e.rev # 0 => Backs(x, e.path, e)
  PROVE  LET y == save(x, e, remote, base)
         IN Good(y) /\ Evolves(x, y, {e}) /\ Indexed(y, e)
<1> DEFINE z == IF x.id = Host THEN commit(x, e, base) ELSE x
           n == object(z, e.path)
           prev == entry(x, e.path)
           new == Version(prev) # Version(e)
           kept == [path |-> e.path, body |-> e.body, clock |-> e.clock,
                    rev |-> IF z.id = Host THEN n ELSE e.rev,
                    base |-> IF z.id = Host \/ e.rev # 0 THEN 0 ELSE e.base,
                    seq |-> IF new THEN z.seq + 1 ELSE prev.seq, remote |-> remote]
           f == [q \in DOMAIN z.entries \union {e.path} |-> IF q = e.path THEN kept ELSE z.entries[q]]
           y == save(x, e, remote, base)
<1>1. Shape(x) /\ Solid(x) /\ Whole(x) BY DEF Good, Solid
<1>2. y = [z EXCEPT !.seq = IF new THEN z.seq + 1 ELSE z.seq, !.entries = f] BY DEF save, recorded
<1>3. /\ Solid(z) /\ Extends(x, z) /\ z.entries = x.entries /\ z.seq = x.seq
      /\ x.id = Host => /\ n \in 1..z.head /\ Version(z.journal[n]) = <<e.path, e.body, e.clock>>
                        /\ \A m \in 1..z.head : z.journal[m].path \in DOMAIN x.entries \union {e.path}
  <2>1. CASE x.id = Host BY <2>1, Committed
  <2>2. CASE x.id # Host
    <3>1. Evolves(x, x, {}) BY EvolvesNot
    <3> QED BY <1>1, <2>2, <3>1 DEF Evolves
  <2> QED BY <2>1, <2>2
<1>4. z.id = x.id /\ z.head \in Nat /\ z.seq \in Nat /\ Shape(z) BY <1>3 DEF Extends, Solid, Shape
<1>5. /\ e.path \in DOMAIN x.entries => prev = x.entries[e.path] /\ prev \in Entry(e.path)
      /\ e.path \notin DOMAIN x.entries => prev.body = Missing
      /\ e.body # Missing
  BY Holds DEF Record
<1>6. ~new => /\ e.path \in DOMAIN x.entries /\ prev.seq = x.entries[e.path].seq /\ prev.clock = e.clock
              /\ prev.body = e.body /\ prev.seq \in Nat /\ prev.seq <= x.seq
  <2> SUFFICES ASSUME ~new
               PROVE  /\ e.path \in DOMAIN x.entries /\ prev.seq = x.entries[e.path].seq /\ prev.clock = e.clock
                      /\ prev.body = e.body /\ prev.seq \in Nat /\ prev.seq <= x.seq
    OBVIOUS
  <2>1. prev.body = e.body /\ prev.clock = e.clock BY DEF Version
  <2> HIDE DEF prev
  <2>2. e.path \in DOMAIN x.entries BY <1>5, <2>1
  <2>3. x.entries[e.path] \in Entry(e.path) /\ x.entries[e.path].seq <= x.seq BY <1>1, <2>2 DEF Solid
  <2>4. x.entries[e.path].seq \in Nat BY <2>3 DEF Entry
  <2> QED BY <1>5, <2>1, <2>2, <2>3, <2>4
<1> HIDE DEF z, n, prev, new
<1>7. /\ kept.path = e.path /\ kept.body = e.body /\ kept.clock = e.clock
      /\ kept.rev = IF z.id = Host THEN n ELSE e.rev
      /\ kept.base = IF z.id = Host \/ e.rev # 0 THEN 0 ELSE e.base
      /\ kept.seq = IF new THEN z.seq + 1 ELSE prev.seq
  OBVIOUS
<1>8. kept \in Entry(e.path)
  <2>1. z.id = Host => n \in Nat
    <3>1. z.id = Host => n \in 1..z.head BY <1>3, <1>4
    <3> QED BY <1>4, <3>1
  <2>2. (IF z.id = Host THEN n ELSE e.rev) \in Nat BY <2>1 DEF Record
  <2>3. (IF z.id = Host \/ e.rev # 0 THEN 0 ELSE e.base) \in Nat BY DEF Record
  <2>4. (IF new THEN z.seq + 1 ELSE prev.seq) \in Nat BY <1>4, <1>6
  <2> QED BY <2>2, <2>3, <2>4 DEF Entry, Record
<1>9. f = [q \in DOMAIN z.entries \union {e.path} |-> IF q = e.path THEN kept ELSE z.entries[q]] OBVIOUS
<1> HIDE DEF kept, f, y
<1>10. /\ DOMAIN f = DOMAIN x.entries \union {e.path} /\ f[e.path] = kept
       /\ \A q \in DOMAIN x.entries : q # e.path => f[q] = x.entries[q]
  BY <1>3, <1>9
<1>11. /\ y.id = x.id /\ y.disk = z.disk /\ y.entries = f /\ y.journal = z.journal /\ y.head = z.head
       /\ y.seq = (IF new THEN x.seq + 1 ELSE x.seq) /\ Shape(y) /\ x.seq \in Nat
  <2> DEFINE k == IF new THEN x.seq + 1 ELSE x.seq
  <2>1. k \in Nat /\ x.seq \in Nat BY <1>3, <1>4
  <2>2. y = [z EXCEPT !.seq = k, !.entries = f] BY <1>2, <1>3
  <2> HIDE DEF k
  <2>3. y \in [id : Device, disk : {z.disk}, entries : {f}, seq : {k}, counter : Nat,
              journal : {z.journal}, head : {z.head}] /\ y.id = z.id
    BY <1>4, <2>1, <2>2 DEF Shape
  <2> QED BY <1>4, <2>1, <2>3 DEF Shape, k
<1>12. /\ kept.seq <= y.seq
       /\ \/ kept.seq > x.seq
          \/ /\ e.path \in DOMAIN x.entries /\ kept.seq = x.entries[e.path].seq
             /\ kept.clock = x.entries[e.path].clock /\ kept.body = x.entries[e.path].body
  <2>1. CASE new BY <1>3, <1>7, <1>11, <2>1
  <2>2. CASE ~new
    <3>1. prev = x.entries[e.path] BY <1>5, <1>6, <2>2
    <3> QED BY <1>6, <1>7, <1>11, <2>2, <3>1
  <2> QED BY <2>1, <2>2
<1>13. x.id = Host \/ e.rev # 0 => Backs(z, e.path, kept)
  <2>1. CASE x.id = Host BY <1>3, <1>4, <1>7, <2>1 DEF Backs
  <2>2. CASE x.id # Host
    <3>1. z.head = x.head /\ z.journal = x.journal BY <1>3, <2>2 DEF Extends
    <3> QED BY <1>4, <1>7, <2>2, <3>1 DEF Backs
  <2> QED BY <2>1, <2>2
<1>14. Based(z, e.path, kept.base)
  <2>1. CASE x.id = Host BY <1>4, <1>7, <2>1 DEF Based
  <2>2. CASE x.id # Host
    <3>1. z.head = x.head /\ z.journal = x.journal BY <1>3, <2>2 DEF Extends
    <3> QED BY <1>4, <1>7, <2>2, <3>1 DEF Based
  <2> QED BY <2>1, <2>2
<1>15. ASSUME NEW p \in DOMAIN y.entries
       PROVE  /\ y.entries[p] \in Entry(p) /\ y.entries[p].seq <= y.seq
              /\ y.id = Host \/ y.entries[p].rev # 0 => Backs(y, p, y.entries[p])
              /\ Based(y, p, y.entries[p].base)
  <2>1. CASE p = e.path
    <3>1. y.entries[p] = kept BY <1>10, <1>11, <2>1
    <3>2. y.id = Host \/ kept.rev # 0 => Backs(z, p, kept)
      BY <1>4, <1>7, <1>11, <1>13, <2>1
    <3> QED BY <1>8, <1>11, <1>12, <1>14, <2>1, <3>1, <3>2 DEF Backs, Based
  <2>2. CASE p # e.path
    <3>1. p \in DOMAIN x.entries /\ y.entries[p] = x.entries[p] /\ z.entries = x.entries BY <1>3, <1>10, <1>11, <2>2
    <3>2. /\ x.entries[p] \in Entry(p) /\ x.entries[p].seq <= x.seq
          /\ z.id = Host \/ x.entries[p].rev # 0 => Backs(z, p, x.entries[p])
          /\ Based(z, p, x.entries[p].base)
      BY <1>1, <1>3, <3>1 DEF Solid
    <3>3. x.entries[p].seq \in Nat BY <3>2 DEF Entry
    <3>4. x.entries[p].seq <= y.seq BY <1>11, <3>2, <3>3
    <3> QED BY <1>4, <1>11, <3>1, <3>2, <3>4 DEF Backs, Based
  <2> QED BY <2>1, <2>2
<1>16. Good(y)
  <2>1. \A p \in DOMAIN y.disk : y.disk[p] \in Body BY <1>3, <1>11 DEF Solid
  <2>2. \A m \in 1..y.head : y.journal[m].body \in Body /\ y.journal[m].clock \in Clock BY <1>3, <1>11 DEF Solid
  <2>3. Solid(y) BY <1>11, <1>15, <2>1, <2>2 DEF Solid
  <2>4. Whole(y) BY <1>3, <1>10, <1>11 DEF Whole
  <2> QED BY <2>3, <2>4 DEF Good
<1>17. Evolves(x, y, {e})
  <2>1. Extends(x, y) BY <1>3, <1>11 DEF Extends
  <2>2. x.seq <= y.seq /\ DOMAIN x.entries \subseteq DOMAIN y.entries BY <1>10, <1>11
  <2>3. ASSUME NEW p \in DOMAIN y.entries
        PROVE  /\ \/ p \in DOMAIN x.entries /\ y.entries[p].rev = x.entries[p].rev
                  \/ y.id = Host
                  \/ \E d \in {e} : d.path = p /\ d.rev = y.entries[p].rev
               /\ \/ y.entries[p].seq > x.seq
                  \/ /\ p \in DOMAIN x.entries /\ y.entries[p].seq = x.entries[p].seq
                     /\ y.entries[p].clock = x.entries[p].clock /\ y.entries[p].body = x.entries[p].body
    <3>1. CASE p = e.path BY <1>4, <1>7, <1>10, <1>11, <1>12, <3>1
    <3>2. CASE p # e.path BY <1>10, <1>11, <3>2
    <3> QED BY <3>1, <3>2
  <2> QED BY <2>1, <2>2, <2>3 DEF Evolves
<1>18. Indexed(y, e) BY <1>4, <1>7, <1>10, <1>11 DEF Indexed
<1> QED BY <1>16, <1>17, <1>18 DEF y

(* A record that names a revision of its path. *)
LEMMA BackedPath ==
  ASSUME NEW x, NEW p, NEW e, Backs(x, p, e)
  PROVE  e.rev \in 1..x.head /\ x.journal[e.rev].path = p /\ x.journal[e.rev].body = e.body
         /\ x.journal[e.rev].clock = e.clock
BY DEF Backs, Version

LEMMA Ticked ==
  ASSUME NEW x, Good(x), NEW tick \in Nat, NEW R
  PROVE  LET y == [x EXCEPT !.counter = tick] IN Good(y) /\ Evolves(x, y, R) /\ y.id = x.id /\ y.entries = x.entries
                                                 /\ y.journal = x.journal /\ y.head = x.head
<1> DEFINE y == [x EXCEPT !.counter = tick]
<1>1. Shape(x) BY DEF Good, Solid
<1>2. /\ y.id = x.id /\ y.entries = x.entries /\ y.seq = x.seq /\ y.journal = x.journal /\ y.head = x.head
      /\ y.disk = x.disk /\ Shape(y)
  BY <1>1 DEF Shape
<1> HIDE DEF y
<1>3. Good(y) BY <1>2 DEF Good, Solid, Whole, Based, Backs, Version
<1>4. Evolves(x, x, R) BY EvolvesNot
<1>5. Evolves(x, y, R) BY <1>2, <1>4 DEF Evolves, Extends
<1> QED BY <1>2, <1>3, <1>5 DEF y

(* Indexing one path. *)
LEMMA Observed ==
  ASSUME NEW x, Good(x), NEW p, NEW base
  PROVE  Good(observed(x, p, base)) /\ Evolves(x, observed(x, p, base), {})
<1> DEFINE old == entry(x, p)
           body == state(x, p)
           tick == 1 + (IF old.clock[x.id] > x.counter THEN old.clock[x.id] ELSE x.counter)
           b == observedBase(x, old)
           e == [path |-> old.path, body |-> body, clock |-> [old.clock EXCEPT ![x.id] = tick],
                 rev |-> 0, base |-> b]
<1>1. observed(x, p, base) =
        IF unchanged(x, p) THEN x
        ELSE IF old.body = body THEN save(x, old, FALSE, base)
        ELSE edited(x, old, tick, base)
  BY DEF observed
<1>2. /\ body \in Body /\ Missing \notin Body
      /\ p \in DOMAIN x.entries => old = x.entries[p] /\ old \in Entry(p)
      /\ old.path = p /\ old.clock \in Clock /\ old.rev \in Nat /\ old.base \in Nat
      /\ old.body # Missing => p \in DOMAIN x.entries /\ old.body \in Body
      /\ p \notin DOMAIN x.entries => old = NoEntry(p)
  BY Holds
<1>3. Shape(x) /\ Solid(x) BY DEF Good, Solid
<1>4. x.id \in Device /\ x.counter \in Nat /\ x.head \in Nat BY <1>3 DEF Shape
<1>5. edited(x, old, tick, base) = save([x EXCEPT !.counter = tick], e, FALSE, base)
  BY <1>2 DEF edited
<1>6. p \in DOMAIN x.entries =>
        /\ Based(x, p, old.base)
        /\ x.id = Host \/ old.rev # 0 => Backs(x, p, old)
  <2> HIDE DEF old
  <2> QED BY <1>2, <1>3 DEF Solid
<1> HIDE DEF old, body
<1>7. CASE old.body = body
  <2>1. p \in DOMAIN x.entries /\ Record(old) BY <1>2, <1>7 DEF Record
  <2>2. Good(save(x, old, FALSE, base)) /\ Evolves(x, save(x, old, FALSE, base), {old})
    BY <1>2, <1>6, <2>1, Saved
  <2>3. Evolves(x, save(x, old, FALSE, base), {}) BY <1>2, <2>1, <2>2, EvolvesWithin
  <2> QED BY <1>1, <1>7, <2>2, <2>3, EvolvesNot
<1>8. CASE old.body # body
  <2>1. tick \in Nat
    <3>1. old.clock[x.id] \in Nat BY <1>2, <1>4 DEF Clock
    <3> QED BY <1>4, <3>1
  <2>2. [old.clock EXCEPT ![x.id] = tick] \in Clock
    <3> HIDE DEF tick
    <3> QED BY <1>2, <2>1 DEF Clock
  <2>3. b \in Nat /\ Based(x, p, b)
    <3>1. /\ object(x, p) = 0 \/ (object(x, p) \in 1..x.head /\ x.journal[object(x, p)].path = p)
      BY <1>4, LatestFacts DEF object
    <3>2. b = IF Pending(old) THEN old.base ELSE IF old.rev # 0 THEN old.rev ELSE object(x, p)
      BY <1>2 DEF observedBase
    <3>3. CASE Pending(old) BY <1>2, <1>6, <3>2, <3>3 DEF Pending
    <3>4. CASE ~Pending(old) /\ old.rev # 0
      <4>1. p \in DOMAIN x.entries
        <5>1. NoEntry(p).rev = 0 BY DEF NoEntry
        <5> QED BY <1>2, <3>4, <5>1
      <4>2. Backs(x, p, old) BY <1>6, <3>4, <4>1
      <4>3. b = old.rev BY <3>2, <3>4
      <4> HIDE DEF b
      <4> QED BY <1>2, <4>2, <4>3, BackedPath DEF Based
    <3>5. CASE ~Pending(old) /\ old.rev = 0
      <4>1. b = object(x, p) BY <3>2, <3>5
      <4> HIDE DEF b
      <4> QED BY <1>4, <3>1, <4>1 DEF Based
    <3> QED BY <3>3, <3>4, <3>5
  <2>4. e.path = p /\ e.rev = 0 /\ e.base = b /\ Record(e)
    <3> HIDE DEF tick, b
    <3>1. e.path = p /\ e.rev = 0 /\ e.base = b /\ e.body = body /\ e.clock = [old.clock EXCEPT ![x.id] = tick]
      BY <1>2
    <3> HIDE DEF e
    <3> QED BY <1>2, <2>2, <2>3, <3>1 DEF Record
  <2> DEFINE y == [x EXCEPT !.counter = tick]
             z == save(y, e, FALSE, base)
  <2> HIDE DEF e, tick, b
  <2>5. Good(y) /\ Evolves(x, y, {}) /\ y.id = x.id /\ y.journal = x.journal /\ y.head = x.head
    BY <2>1, Ticked
  <2> HIDE DEF y
  <2>6. Based(y, e.path, e.base) BY <2>3, <2>4, <2>5 DEF Based
  <2>7. Good(z) /\ Evolves(y, z, {e}) BY <2>4, <2>5, <2>6, Saved
  <2> HIDE DEF z
  <2>8. Evolves(y, z, {}) BY <2>4, <2>7, EvolvesWithin
  <2>9. Evolves(x, z, {}) BY <2>5, <2>7, <2>8, EvolvesOn
  <2> QED BY <1>1, <1>5, <1>8, <2>7, <2>9, EvolvesNot DEF z, y
<1> QED BY <1>7, <1>8

(* Evolution for fewer records is evolution for more. *)
LEMMA EvolvesMore ==
  ASSUME NEW x, NEW y, NEW R, Evolves(x, y, {})
  PROVE  Evolves(x, y, R)
BY DEF Evolves

-----------------------------------------------------------------------------
(***************************************************************************)
(* Merging a record e into a device.  Whatever the call leaves, complete   *)
(* or torn, is a sound device that took at most e; a complete merge has    *)
(* settled e: the authority has decided about it, a mirror holds it or a   *)
(* proposal that replaces it.                                              *)
(***************************************************************************)
Ready(x, y, e) == Good(y) /\ Evolves(x, y, {e})

Settles(y, e) ==
  IF y.id = Host THEN Decided(y, e.path, e)
  ELSE e.path \in DOMAIN y.entries /\ (y.entries[e.path].rev = 0 \/ y.entries[e.path].rev = e.rev)

Outcome(x, r, e) ==
  /\ Ready(x, r.dev, e) /\ \A t \in r.torn : Ready(x, t, e)
  /\ r.status = "complete" => Settles(r.dev, e)

LEMMA ReadyOn ==
  ASSUME NEW x, NEW y, NEW z, NEW e, Good(x), Ready(x, y, e), Ready(y, z, e)
  PROVE  Ready(x, z, e)
BY EvolvesOn DEF Ready

LEMMA Replied ==
  ASSUME NEW x, Good(x), NEW y, NEW e, Ready(x, y, e), NEW status, status = "complete" => Settles(y, e)
  PROVE  Outcome(x, reply(status, x, y), e)
<1>1. Ready(x, x, e) BY EvolvesNot DEF Ready
<1>2. reply(status, x, y).dev = y /\ reply(status, x, y).torn = {x, y} /\ reply(status, x, y).status = status
  BY DEF reply
<1> QED BY <1>1, <1>2 DEF Outcome

(* What merge has worked out about the destination. *)
LEMMA PlanFacts ==
  ASSUME NEW x, Good(x), NEW e, Record(e), x.id = Host => Based(x, e.path, e.base)
  PROVE  LET plan == decide(x, e)
             local == entry(x, e.path)
         IN /\ plan.local = local /\ plan.order = relation(x, local, e) /\ plan.clock \in Clock
            /\ plan.conflict => plan.loser.body \in Body
            /\ plan.retain => local.body = Directory
            /\ x.id # Host => plan.clock = e.clock /\ (plan.retain \/ plan.wins)
            /\ x.id = Host => Covers(plan.clock, e.clock)
            /\ plan.order # 0 /\ x.id = Host /\ ~plan.wins => local.body \in Body
            /\ ~plan.wins => e.body # Directory
<1> DEFINE plan == decide(x, e)
           local == entry(x, e.path)
           order == relation(x, local, e)
           mirror == x.id # Host
           same == ~local.remote /\ local.body = e.body
           retain == local.body = Directory /\ e.body # Directory /\ children(x, e.path) # {}
           wins == ~retain /\ (mirror \/ order = 1 \/ same \/ e.body = Directory)
           loser == IF wins THEN local ELSE e
           pending == mirror /\ Pending(local)
           structural == \/ e.body = Directory /\ IsFile(local.body)
                         \/ IsFile(e.body) /\ local.body = Directory
           conflict == /\ order = 2 \/ retain \/ pending \/ structural
                       /\ ~same
                       /\ IsFile(loser.body)
                       /\ ~(wins /\ local.remote)
           clock == IF mirror THEN e.clock ELSE joined(e.clock, local.clock)
<1>1. plan = [order |-> order, local |-> local, same |-> same, retain |-> retain,
              wins |-> wins, loser |-> loser, conflict |-> conflict, clock |-> clock,
              bytes |-> IsFile(e.body) /\ ~same /\ (wins \/ conflict)]
  BY DEF decide, decision
<1>2. /\ plan.local = local /\ plan.order = order /\ plan.clock = clock
      /\ plan.loser = loser
  BY <1>1
<1>3. (plan.conflict <=> conflict) /\ (plan.retain <=> retain) /\ (plan.wins <=> wins)
  <2> HIDE DEF local, order, same, retain, wins, loser, conflict, clock, mirror, plan
  <2>1. plan.conflict = conflict /\ plan.retain = retain /\ plan.wins = wins BY <1>1
  <2> QED BY <2>1
<1>4. /\ local.path = e.path /\ local.clock \in Clock
      /\ local.body # Missing => e.path \in DOMAIN x.entries /\ local.body \in Body
      /\ Missing \notin Body
      /\ e.path \notin DOMAIN x.entries => local.body = Missing
      /\ e.path \in DOMAIN x.entries => local = x.entries[e.path] /\ local \in Entry(e.path)
  BY Holds
<1> HIDE DEF plan, local
<1>5. clock \in Clock /\ (x.id = Host => Covers(clock, e.clock))
  <2>1. CASE mirror BY <2>1 DEF Record
  <2>2. CASE ~mirror
    <3>1. \A d \in Device : e.clock[d] \in Nat /\ local.clock[d] \in Nat BY <1>4 DEF Record, Clock
    <3>2. clock = [d \in Device |-> IF local.clock[d] > e.clock[d] THEN local.clock[d] ELSE e.clock[d]]
      BY <2>2 DEF joined
    <3> HIDE DEF clock
    <3>3. clock \in Clock BY <3>1, <3>2 DEF Clock
    <3>4. ASSUME NEW d \in Device PROVE clock[d] >= e.clock[d] BY <3>1, <3>2
    <3> QED BY <3>3, <3>4 DEF Covers
  <2> QED BY <2>1, <2>2
<1>6. conflict => loser.body \in Body
  <2>1. IsFile(local.body) => local.body # Missing BY DEF IsFile, Missing
  <2> QED BY <1>4, <2>1 DEF Record
<1>7. ASSUME order # 0, x.id = Host, ~wins, local.body \notin Body PROVE FALSE
  <2>1. e.path \notin DOMAIN x.entries /\ local.body = Missing
    <3>1. local.body = Missing BY <1>4, <1>7
    <3>2. ASSUME e.path \in DOMAIN x.entries PROVE local.body \in Body BY <1>4, <3>2 DEF Entry
    <3> QED BY <1>4, <3>1, <3>2
  <2>2. Directory # Missing BY DEF Directory, Missing
  <2>3. order # 1 BY <1>7, <2>1, <2>2
  <2>4. x.head \in Nat /\ Whole(x) BY DEF Good, Solid, Shape
  <2>5. e.base = 0
    <3>1. e.base # 0 => e.base \in 1..x.head /\ x.journal[e.base].path = e.path BY <1>7 DEF Based
    <3> QED BY <1>7, <2>1, <2>4, <3>1 DEF Whole
  <2>6. object(x, e.path) = 0
    <3>1. object(x, e.path) = 0 \/ (object(x, e.path) \in 1..x.head /\ x.journal[object(x, e.path)].path = e.path)
      BY <2>4, LatestFacts DEF object
    <3> QED BY <1>7, <2>1, <2>4, <3>1 DEF Whole
  <2>7. order \in {0, 1} BY <1>7, <2>5, <2>6 DEF relation
  <2> QED BY <1>7, <2>3, <2>7
<1>8. x.id # Host => clock = e.clock /\ (retain \/ wins) OBVIOUS
<1>9. retain => local.body = Directory OBVIOUS
<1>10. ~wins => e.body # Directory OBVIOUS
<1> HIDE DEF order, same, retain, wins, loser, conflict, clock
<1> QED BY <1>2, <1>3, <1>5, <1>6, <1>7, <1>8, <1>9, <1>10 DEF plan, local, order

(* The steps after the decision. *)
LEMMA CopyMade ==
  ASSUME NEW x, Good(x), NEW plan, NEW e, plan.conflict => plan.loser.body \in Body, plan.clock \in Clock
  PROVE  Ready(x, copied(x, plan), e) /\ Ready(x, copySaved(x, plan, e), e)
<1>1. Ready(x, x, e) BY EvolvesNot DEF Ready
<1>2. CASE ~plan.conflict BY <1>1, <1>2 DEF copied, copySaved
<1>3. CASE plan.conflict
  <2> DEFINE p == conflictPath(plan.loser)
             y == withParent(x, p)
             z == copied(x, plan)
             f == proposed(plan.loser, p, plan.clock, 0)
             w == copySaved(x, plan, e)
  <2>1. Good(y) /\ Evolves(x, y, {e}) BY ParentMade
  <2>2. z = onDisk(y, p, plan.loser.body) BY <1>3 DEF copied
  <2> HIDE DEF y
  <2>3. Good(z) /\ Evolves(y, z, {e}) BY <1>3, <2>1, <2>2, DiskOnly
  <2>4. Ready(x, z, e) BY <2>1, <2>3, ReadyOn DEF Ready
  <2>5. w = save(z, f, FALSE, e.base) BY <1>3 DEF copySaved
  <2>6. f.rev = 0 /\ f.base = 0 /\ f.body = plan.loser.body /\ f.clock = plan.clock BY DEF proposed
  <2> HIDE DEF f, z, w
  <2>7. Record(f) /\ Based(z, f.path, f.base) BY <1>3, <2>6 DEF Record, Based
  <2>8. Good(w) /\ Evolves(z, w, {f}) BY <2>3, <2>5, <2>6, <2>7, Saved
  <2>9. Evolves(z, w, {e}) BY <2>6, <2>8, EvolvesWithin
  <2>10. Ready(x, w, e) BY <2>4, <2>8, <2>9, ReadyOn DEF Ready
  <2> QED BY <2>4, <2>10 DEF z, w
<1> QED BY <1>2, <1>3

LEMMA Placed ==
  ASSUME NEW x, Good(x), NEW plan, NEW e, Record(e)
  PROVE  Ready(x, cleared(x, plan, e), e) /\ Ready(x, installed(x, plan, e), e)
<1>1. Ready(x, x, e) BY EvolvesNot DEF Ready
<1>2. Deleted \in Body BY DEF Body
<1>3. Ready(x, onDisk(x, e.path, Deleted), e) BY <1>2, DiskOnly DEF Ready
<1> DEFINE y == IF e.body = Deleted THEN x ELSE withParent(x, e.path)
<1>4. Ready(x, y, e) BY <1>1, ParentMade DEF Ready
<1> HIDE DEF y
<1>5. Ready(y, onDisk(y, e.path, e.body), e) BY <1>4, DiskOnly DEF Ready, Record
<1>6. Ready(x, onDisk(y, e.path, e.body), e) BY <1>4, <1>5, ReadyOn
<1>7. installed(x, plan, e) = IF plan.wins /\ ~plan.same THEN onDisk(y, e.path, e.body) ELSE x BY DEF installed, y
<1>8. cleared(x, plan, e) = IF plan.wins /\ ~plan.same THEN onDisk(x, e.path, Deleted) ELSE x BY DEF cleared
<1> QED BY <1>1, <1>3, <1>6, <1>7, <1>8

(* A mirror's journal holds the revision it is asked to merge. *)
LEMMA Contained ==
  ASSUME NEW x, NEW e, contains(x, e)
  PROVE  Backs(x, e.path, e) /\ e.base = 0
<1> DEFINE f == projected(x, e.rev)
<1>1. e.rev \in 1..x.head /\ f = e BY DEF contains
<1>2. f.path = x.journal[e.rev].path /\ f.body = x.journal[e.rev].body /\ f.clock = x.journal[e.rev].clock /\ f.base = 0
  BY DEF projected
<1> HIDE DEF f
<1>3. e.path = x.journal[e.rev].path /\ e.body = x.journal[e.rev].body /\ e.clock = x.journal[e.rev].clock /\ e.base = 0
  BY <1>1, <1>2
<1> QED BY <1>1, <1>3 DEF Backs, Version

(* Saving the record that is merged, or a proposal in its place. *)
LEMMA SavedMirror ==
  ASSUME NEW x, Good(x), x.id # Host, NEW e, Record(e), contains(x, e), NEW remote \in BOOLEAN, NEW base
  PROVE  Ready(x, save(x, e, remote, base), e) /\ Settles(save(x, e, remote, base), e)
<1> DEFINE y == save(x, e, remote, base)
<1>1. Backs(x, e.path, e) /\ Based(x, e.path, e.base) BY Contained DEF Based
<1>2. Good(y) /\ Evolves(x, y, {e}) /\ Indexed(y, e) BY <1>1, Saved
<1>3. y.id # Host BY <1>2 DEF Evolves, Extends
<1> QED BY <1>2, <1>3 DEF Ready, Settles, Indexed

LEMMA SavedProposal ==
  ASSUME NEW x, Good(x), x.id # Host, NEW e, contains(x, e), e.rev \in Nat, NEW l, l.body \in Body,
         NEW clock \in Clock, NEW remote \in BOOLEAN, NEW base
  PROVE  LET y == save(x, proposed(l, e.path, clock, e.rev), remote, base) IN Ready(x, y, e) /\ Settles(y, e)
<1> DEFINE f == proposed(l, e.path, clock, e.rev)
           y == save(x, f, remote, base)
<1>1. f.path = e.path /\ f.body = l.body /\ f.clock = clock /\ f.rev = 0 /\ f.base = e.rev BY DEF proposed
<1> HIDE DEF f
<1>2. Backs(x, e.path, e) BY Contained
<1>3. Based(x, f.path, f.base) BY <1>1, <1>2, BackedPath DEF Based
<1>4. Record(f) BY <1>1 DEF Record
<1>5. Good(y) /\ Evolves(x, y, {f}) /\ Indexed(y, f) BY <1>1, <1>3, <1>4, Saved
<1> HIDE DEF y
<1>6. y.id # Host BY <1>5 DEF Evolves, Extends
<1>7. Evolves(x, y, {e}) BY <1>1, <1>5, EvolvesWithin
<1> QED BY <1>1, <1>5, <1>6, <1>7 DEF Ready, Settles, Indexed, y, f

LEMMA CoversItself ==
  ASSUME NEW a \in Clock
  PROVE  Covers(a, a)
BY DEF Covers, Clock

(* The destination after the loser has been preserved and the winner installed. *)
LEMMA MergeSaved ==
  ASSUME NEW x, Good(x), NEW y, NEW e, Record(e), Ready(x, y, e), NEW plan, plan.clock \in Clock,
         x.id # Host => contains(x, e) /\ plan.clock = e.clock /\ plan.wins,
         x.id = Host => Covers(plan.clock, e.clock),
         ~plan.wins => plan.local.body \in Body /\ e.body # Directory
  PROVE  Ready(x, merged(y, plan, e), e) /\ Settles(merged(y, plan, e), e)
<1> DEFINE winner == IF plan.wins THEN e ELSE plan.local
           f == [path |-> e.path, body |-> winner.body, clock |-> plan.clock,
                 rev |-> IF plan.wins THEN e.rev ELSE 0, base |-> 0]
           z == save(y, f, FALSE, e.base)
<1>1. merged(y, plan, e) = z BY DEF merged
<1>2. winner.body \in Body BY DEF Record
<1>3. (plan.wins => winner = e) /\ (~plan.wins => e.body # Directory) OBVIOUS
<1>4. /\ f.path = e.path /\ f.body = winner.body /\ f.clock = plan.clock /\ f.base = 0
      /\ f.rev = IF plan.wins THEN e.rev ELSE 0
  OBVIOUS
<1> HIDE DEF winner, f
<1>5. Record(f) BY <1>2, <1>4 DEF Record
<1>6. Good(y) /\ Evolves(x, y, {e}) /\ Extends(x, y) BY DEF Ready, Evolves
<1>7. y.id = x.id BY <1>6 DEF Extends
<1>8. y.id # Host => Backs(y, f.path, f)
  <2> SUFFICES ASSUME x.id # Host PROVE Backs(y, f.path, f) BY <1>7
  <2>1. Backs(x, e.path, e) BY Contained
  <2>2. y.head = x.head /\ y.journal = x.journal BY <1>6 DEF Extends
  <2>3. f.rev = e.rev /\ f.path = e.path /\ f.body = e.body /\ f.clock = e.clock BY <1>3, <1>4
  <2> QED BY <2>1, <2>2, <2>3 DEF Backs
<1>9. Based(y, f.path, f.base) BY <1>4 DEF Based
<1>10. Good(z) /\ Evolves(y, z, {f}) /\ Indexed(z, f) BY <1>5, <1>6, <1>8, <1>9, Saved
<1> HIDE DEF z
<1>11. Evolves(y, z, {e}) BY <1>4, <1>10 DEF Evolves
<1>12. Ready(x, z, e) BY <1>6, <1>10, <1>11, ReadyOn DEF Ready
<1>13. z.id = x.id BY <1>7, <1>11 DEF Evolves, Extends
<1>14. CASE x.id = Host
  <2>1. Backs(z, e.path, z.entries[e.path]) BY <1>4, <1>10, <1>13, <1>14 DEF Good, Solid, Indexed
  <2>2. Decided(z, e.path, e)
    <3>1. /\ z.journal[z.entries[e.path].rev].clock = plan.clock
          /\ e.body = Directory => z.journal[z.entries[e.path].rev].body = Directory
      BY <1>3, <1>4, <1>10, <2>1, BackedPath DEF Indexed
    <3> QED BY <1>14, <2>1, <3>1, BackedPath DEF Decided
  <2> QED BY <1>1, <1>12, <1>13, <1>14, <2>2 DEF Settles
<1>15. CASE x.id # Host BY <1>1, <1>4, <1>7, <1>10, <1>12, <1>13, <1>15 DEF Settles, Indexed
<1> QED BY <1>14, <1>15

LEMMA Replaced ==
  ASSUME NEW x, Good(x), NEW e, Record(e), x.id = Host => Based(x, e.path, e.base),
         x.id # Host => contains(x, e) /\ ~decide(x, e).retain, decide(x, e).order # 0
  PROVE  Outcome(x, replace(x, copySaved(x, decide(x, e), e), decide(x, e), e), e)
<1> DEFINE plan == decide(x, e)
           safe == copySaved(x, plan, e)
           placed == installed(safe, plan, e)
           final == merged(placed, plan, e)
           clear == IF IsFile(e.body) /\ IsFile(plan.local.body) THEN safe ELSE cleared(safe, plan, e)
           r == replace(x, safe, plan, e)
<1>1. r = [status |-> "complete", dev |-> final, torn |-> {x, copied(x, plan), safe, placed, final, clear}]
  BY DEF replace
<1>2. /\ plan.clock \in Clock /\ (plan.conflict => plan.loser.body \in Body)
      /\ x.id # Host => plan.clock = e.clock /\ plan.wins
      /\ x.id = Host => Covers(plan.clock, e.clock)
      /\ ~plan.wins => plan.local.body \in Body /\ e.body # Directory
  BY PlanFacts
<1> HIDE DEF plan
<1>3. Ready(x, copied(x, plan), e) /\ Ready(x, safe, e) BY <1>2, CopyMade
<1> HIDE DEF safe
<1>4. Good(safe) BY <1>3 DEF Ready
<1>5. Ready(safe, cleared(safe, plan, e), e) /\ Ready(safe, placed, e) BY <1>4, Placed
<1>6. Ready(x, cleared(safe, plan, e), e) /\ Ready(x, placed, e) BY <1>3, <1>5, ReadyOn
<1> HIDE DEF placed
<1>7. Ready(x, final, e) /\ Settles(final, e) BY <1>2, <1>6, MergeSaved DEF plan
<1> HIDE DEF final
<1>8. Ready(x, x, e) /\ Ready(x, clear, e) BY <1>3, <1>6, EvolvesNot DEF Ready
<1> HIDE DEF clear, r
<1>9. r.status = "complete" /\ r.dev = final /\ r.torn = {x, copied(x, plan), safe, placed, final, clear} BY <1>1
<1> QED BY <1>3, <1>6, <1>7, <1>8, <1>9 DEF Outcome, r, safe, plan

LEMMA ApplyFacts ==
  ASSUME NEW x, Good(x), NEW e, Record(e), x.id = Host => Based(x, e.path, e.base), NEW committing
  PROVE  Outcome(x, apply(x, decide(x, e), e, committing), e)
<1> DEFINE plan == decide(x, e)
           local == entry(x, e.path)
           mirror == x.id # Host
           r == apply(x, plan, e, committing)
<1>1. /\ plan.local = local /\ plan.order = relation(x, local, e)
      /\ plan.retain => local.body = Directory
  BY PlanFacts
<1>2. /\ local.path = e.path /\ local.clock \in Clock /\ local.remote \in BOOLEAN
      /\ e.path \notin DOMAIN x.entries => local = NoEntry(e.path)
      /\ e.path \in DOMAIN x.entries => local = x.entries[e.path]
      /\ local.body # Missing => e.path \in DOMAIN x.entries /\ local.body \in Body
  BY Holds
<1>3. Outcome(x, reply("failed", x, x), e) /\ Outcome(x, reply("bytes", x, x), e)
  <2>1. Ready(x, x, e) BY EvolvesNot DEF Ready
  <2> QED BY <2>1, Replied
<1> HIDE DEF plan, local
<1>4. CASE mirror /\ ~contains(x, e) BY <1>1, <1>3, <1>4 DEF apply
<1>5. CASE mirror /\ contains(x, e) /\ local.rev = 0 /\ Dominates(local.clock, e.clock)
  <2> DEFINE y == save(x, proposed(local, e.path, local.clock, e.rev), local.remote, 0)
  <2>1. r = reply("complete", x, y) BY <1>1, <1>5 DEF apply
  <2>2. local.body # Missing
    <3>1. PICK d \in Device : local.clock[d] > e.clock[d] BY <1>5 DEF Dominates
    <3>2. e.clock[d] \in Nat BY DEF Record, Clock
    <3>3. local.clock[d] # 0 /\ ZeroClock[d] = 0
      <4>1. local.clock[d] \in Nat BY <1>2 DEF Clock
      <4> QED BY <3>1, <3>2, <4>1 DEF ZeroClock
    <3>4. e.path \in DOMAIN x.entries BY <1>2, <3>3 DEF NoEntry
    <3>5. x.entries[e.path] \in Entry(e.path) BY <3>4 DEF Good, Solid
    <3>6. local.body \in Body BY <1>2, <3>4, <3>5 DEF Entry
    <3> QED BY <3>6, Holds
  <2>3. Ready(x, y, e) /\ Settles(y, e)
    <3>1. e.rev \in Nat BY DEF Record
    <3> QED BY <1>2, <1>5, <2>2, <3>1, SavedProposal
  <2> HIDE DEF y
  <2> QED BY <2>1, <2>3, Replied DEF plan
<1>6. CASE ~(mirror /\ ~contains(x, e)) /\ ~(mirror /\ local.rev = 0 /\ Dominates(local.clock, e.clock))
  <2>1. CASE plan.order = 0
    <3> DEFINE y == IF mirror THEN save(x, e, FALSE, 0) ELSE x
    <3>1. r = reply("complete", x, y) BY <1>1, <1>6, <2>1 DEF apply
    <3>2. Ready(x, y, e) /\ Settles(y, e)
      <4>1. CASE mirror
        <5>1. contains(x, e) /\ FALSE \in BOOLEAN BY <1>6, <4>1
        <5> QED BY <4>1, <5>1, SavedMirror
      <4>2. CASE ~mirror
        <5>1. Version(local) = Version(e) BY <1>1, <2>1, <4>2 DEF relation
        <5>2. local.body = e.body /\ local.clock = e.clock BY <5>1 DEF Version
        <5>3. e.body # Missing BY Holds DEF Record
        <5>4. e.path \in DOMAIN x.entries /\ local = x.entries[e.path] BY <1>2, <5>2, <5>3
        <5>5. Backs(x, e.path, local) BY <4>2, <5>4 DEF Good, Solid
        <5>6. Decided(x, e.path, e)
          <6>1. Covers(e.clock, e.clock) BY CoversItself DEF Record
          <6> QED BY <5>2, <5>5, <6>1, BackedPath DEF Decided
        <5> QED BY <4>2, <5>6, EvolvesNot DEF Ready, Settles
      <4> QED BY <4>1, <4>2
    <3> HIDE DEF y
    <3> QED BY <3>1, <3>2, Replied DEF plan
  <2>2. CASE plan.order # 0 /\ mirror /\ plan.retain
    <3> DEFINE clock == joined(e.clock, local.clock)
               y == save(x, proposed(local, e.path, clock, e.rev), FALSE, 0)
    <3>1. r = reply("complete", x, y) BY <1>1, <1>6, <2>2 DEF apply
    <3>2. clock \in Clock
      <4>1. \A d \in Device : e.clock[d] \in Nat /\ local.clock[d] \in Nat BY <1>2 DEF Record, Clock
      <4> QED BY <4>1 DEF joined, Clock
    <3> HIDE DEF clock
    <3>3. Ready(x, y, e) /\ Settles(y, e)
      <4>1. e.rev \in Nat /\ contains(x, e) /\ FALSE \in BOOLEAN BY <1>6, <2>2 DEF Record
      <4>2. local.body \in Body BY <1>1, <2>2 DEF Body
      <4> QED BY <2>2, <3>2, <4>1, <4>2, SavedProposal
    <3> HIDE DEF y
    <3> QED BY <3>1, <3>3, Replied DEF plan
  <2>3. CASE plan.order # 0 /\ ~(mirror /\ plan.retain)
    <3>1. r = IF plan.bytes /\ ~committing THEN reply("bytes", x, x)
              ELSE IF collides(x, plan) THEN reply("failed", x, x)
              ELSE replace(x, copySaved(x, plan, e), plan, e)
      BY <1>1, <1>6, <2>3 DEF apply
    <3>2. Outcome(x, replace(x, copySaved(x, plan, e), plan, e), e)
      BY <1>6, <2>3, Replaced DEF plan
    <3> QED BY <1>3, <3>1, <3>2 DEF plan
  <2> QED BY <2>1, <2>2, <2>3
<1> QED BY <1>4, <1>5, <1>6 DEF plan

(* The whole of merge, and of acceptMetadata on a mirror. *)
LEMMA MergeFacts ==
  ASSUME NEW x, Good(x), NEW e, Record(e), x.id = Host => Based(x, e.path, e.base), NEW committing
  PROVE  Outcome(x, merge(x, e, committing), e)
<1> DEFINE y == observed(x, e.path, e.base)
           r == apply(y, decide(y, e), e, committing)
<1>1. merge(x, e, committing) = IF blocked(x, e.path) THEN reply("failed", x, x) ELSE r BY DEF merge
<1>2. Ready(x, x, e) BY EvolvesNot DEF Ready
<1>3. Outcome(x, reply("failed", x, x), e) BY <1>2, Replied
<1>4. Ready(x, y, e) BY Observed, EvolvesMore DEF Ready
<1> HIDE DEF y
<1>5. y.id = Host => Based(y, e.path, e.base)
  <2>1. Extends(x, y) /\ x.head \in Nat /\ y.head \in Nat BY <1>4 DEF Ready, Evolves, Good, Solid, Shape
  <2>2. \A n \in 1..x.head : n \in 1..y.head BY <2>1 DEF Extends
  <2> QED BY <2>1, <2>2 DEF Based, Extends
<1>6. Good(y) BY <1>4 DEF Ready
<1>7. Outcome(y, r, e) BY <1>5, <1>6, ApplyFacts
<1> HIDE DEF r
<1>8. Outcome(x, r, e) BY <1>4, <1>7, ReadyOn DEF Outcome
<1> QED BY <1>1, <1>3, <1>8

LEMMA MetadataFacts ==
  ASSUME NEW x, Good(x), x.id # Host, NEW e, Record(e), acceptsMetadata(x, e)
  PROVE  LET r == acceptMetadata(x, e) IN Ready(x, r.dev, e) /\ \A t \in r.torn : Ready(x, t, e)
<1> DEFINE y == observed(x, e.path, 0)
           z == evicted(y, e)
           r == acceptMetadata(x, e)
<1>1. r = IF resident(y, e.path) /\ entry(y, e.path).body = e.body
            THEN [dev |-> save(y, e, FALSE, 0), torn |-> {y}]
            ELSE [dev |-> save(z, e, TRUE, 0), torn |-> {y, z}]
  BY DEF acceptMetadata
<1>2. contains(y, e) BY DEF acceptsMetadata
<1>3. Ready(x, y, e) BY Observed, EvolvesMore DEF Ready
<1> HIDE DEF y
<1>4. Good(y) /\ y.id # Host BY <1>3 DEF Ready, Evolves, Extends
<1>5. Ready(y, z, e) /\ z.journal = y.journal /\ z.head = y.head
  <2>1. Deleted \in Body BY DEF Body
  <2>2. Good(onDisk(y, e.path, Deleted)) /\ SameIndex(y, onDisk(y, e.path, Deleted)) /\ Evolves(y, onDisk(y, e.path, Deleted), {e})
    BY <1>4, <2>1, DiskOnly
  <2>3. z = y \/ z = onDisk(y, e.path, Deleted) BY DEF evicted
  <2> HIDE DEF z
  <2> QED BY <1>4, <2>2, <2>3, EvolvesNot DEF Ready, SameIndex
<1> HIDE DEF z
<1>6. Good(z) /\ z.id # Host BY <1>4, <1>5 DEF Ready, Evolves, Extends
<1>7. contains(z, e) BY <1>2, <1>5 DEF contains, projected
<1>8. Ready(y, save(y, e, FALSE, 0), e) /\ Ready(z, save(z, e, TRUE, 0), e)
  <2>1. FALSE \in BOOLEAN /\ TRUE \in BOOLEAN OBVIOUS
  <2> QED BY <1>2, <1>4, <1>6, <1>7, <2>1, SavedMirror
<1>9. Ready(x, z, e) BY <1>3, <1>5, ReadyOn
<1>10. Ready(x, save(y, e, FALSE, 0), e) /\ Ready(x, save(z, e, TRUE, 0), e) BY <1>3, <1>8, <1>9, ReadyOn
<1> DEFINE a == save(y, e, FALSE, 0)
           b == save(z, e, TRUE, 0)
<1> HIDE DEF a, b
<1>11. r = [dev |-> a, torn |-> {y}] \/ r = [dev |-> b, torn |-> {y, z}] BY <1>1 DEF a, b
<1> HIDE DEF r
<1>12. (r.dev = a /\ r.torn = {y}) \/ (r.dev = b /\ r.torn = {y, z}) BY <1>11
<1> QED BY <1>3, <1>9, <1>10, <1>12 DEF r, a, b

-----------------------------------------------------------------------------
(* A mirror when the authority's journal grows. *)
LEMMA Grows ==
  ASSUME NEW h, Good(h), NEW g, Good(g), Extends(h, g)
  PROVE  /\ h.head \in Nat /\ g.head \in Nat /\ h.head <= g.head
         /\ \A n \in 1..h.head : n \in 1..g.head /\ g.journal[n] = h.journal[n]
<1>1. h.head \in Nat /\ g.head \in Nat BY DEF Good, Solid, Shape
<1> QED BY <1>1 DEF Extends

LEMMA DecidedOn ==
  ASSUME NEW h, Good(h), NEW g, Good(g), Extends(h, g), NEW p, NEW e, Decided(h, p, e)
  PROVE  Decided(g, p, e)
BY Grows DEF Decided

LEMMA PlanOn ==
  ASSUME NEW h, Good(h), NEW g, Good(g), Extends(h, g), NEW m, Plan(h, m)
  PROVE  Plan(g, m)
<1>1. ASSUME NEW e \in m.members PROVE Based(g, e.path, e.base)
  <2>1. Based(h, e.path, e.base) BY DEF Plan
  <2> QED BY <2>1, Grows DEF Based
<1> QED BY <1>1, DecidedOn DEF Plan

LEMMA AuthorityMoves ==
  ASSUME NEW h, Good(h), NEW g, Good(g), Extends(h, g), NEW x, Good(x), NEW s, NEW k, NEW m, Client(h, x, s, k, m)
  PROVE  Client(g, x, s, k, m)
<1>1. Session(s) /\ Cursor(k) /\ Follows(h, x, s) /\ Plan(h, m) /\ Pushes(h, x, s, k, m) BY DEF Client
<1>2. Plan(g, m) BY <1>1, PlanOn
<1>3. Follows(g, x, s)
  <2>1. x.head \in Nat /\ s.upper \in Nat BY <1>1 DEF Good, Solid, Shape, Session
  <2>2. \A n \in 1..x.head : n \in 1..h.head BY <1>1, <2>1, Grows DEF Follows
  <2> QED BY <1>1, <2>1, <2>2, Grows DEF Follows
<1>4. Pushes(g, x, s, k, m) BY <1>1, DecidedOn DEF Pushes
<1> QED BY <1>1, <1>2, <1>3, <1>4 DEF Client

LEMMA PagedOn ==
  ASSUME NEW h, Good(h), NEW g, Good(g), Extends(h, g), NEW x, NEW todo, NEW bound \in Nat, NEW after,
         Paged(h, x, todo, bound, after)
  PROVE  Paged(g, x, todo, bound, after)
<1>1. bound <= h.head /\ \A n \in 1..bound : n \in 1..h.head BY Grows DEF Paged
<1>2. bound <= g.head BY <1>1, Grows
<1>3. ASSUME NEW e \in todo PROVE Newest(g, e, bound) BY <1>1, Grows DEF Paged, Newest
<1>4. ASSUME NEW n \in 1..bound
      PROVE  \/ Took(g, x, n) \/ Queued(g, todo, n)
             \/ LatestUpTo(g, g.journal[n].path, bound) > after
  <2>1. g.journal[n] = h.journal[n] BY <1>1, Grows
  <2>2. LatestUpTo(g, h.journal[n].path, bound) = LatestUpTo(h, h.journal[n].path, bound)
    BY <1>1, Grows, LatestStable
  <2>3. \/ Took(h, x, n) \/ Queued(h, todo, n)
        \/ LatestUpTo(h, h.journal[n].path, bound) > after
    BY DEF Paged
  <2> QED BY <2>1, <2>2, <2>3 DEF Took, Queued
<1> QED BY <1>2, <1>3, <1>4 DEF Paged

LEMMA AuthorityMovesFull ==
  ASSUME NEW h, Good(h), NEW g, Good(g), Extends(h, g), NEW x, NEW s, Session(s), NEW k, Cursor(k), NEW rs,
         Full(h, x, s, k, rs)
  PROVE  Full(g, x, s, k, rs)
<1>1. s.upper \in Nat /\ s.through \in Nat /\ k.pulled \in Nat BY DEF Session, Cursor
<1>2. Pulls(h, x, s, k) BY DEF Full
<1>3. k.pulled <= g.head BY <1>1, <1>2, Grows DEF Pulls
<1>4. ASSUME NEW n \in 1..k.pulled PROVE Took(g, x, n)
  <2>1. Took(h, x, n) /\ n \in 1..h.head BY <1>1, <1>2, Grows DEF Pulls
  <2> QED BY <2>1, Grows DEF Took
<1>5. Paged(h, x, s.todo, s.upper, s.after) => Paged(g, x, s.todo, s.upper, s.after) BY <1>1, PagedOn
<1>6. Paged(h, x, s.todo, s.through, s.through) => Paged(g, x, s.todo, s.through, s.through) BY <1>1, PagedOn
<1>7. Pulls(g, x, s, k) BY <1>2, <1>3, <1>4, <1>5, <1>6 DEF Pulls
<1> QED BY <1>7 DEF Full

(* A mirror that indexes or merges. *)
LEMMA MirrorMoves ==
  ASSUME NEW h, NEW x, Good(x), NEW y, Good(y), NEW R, Evolves(x, y, R), x.id # Host,
         NEW s, NEW k, NEW m, Client(h, x, s, k, m)
  PROVE  Client(h, y, s, k, m)
<1>1. Session(s) /\ Cursor(k) /\ Follows(h, x, s) /\ Plan(h, m) /\ Pushes(h, x, s, k, m) BY DEF Client
<1>2. y.head = x.head /\ y.journal = x.journal BY DEF Evolves, Extends
<1>3. Follows(h, y, s) BY <1>1, <1>2 DEF Follows
<1>4. /\ x.seq \in Nat /\ y.seq \in Nat /\ x.seq <= y.seq /\ k.pushed \in Nat /\ s.pushThrough \in Nat
      /\ k.pushed <= x.seq
  BY <1>1 DEF Good, Solid, Shape, Evolves, Session, Cursor, Pushes
<1>5. ASSUME NEW p \in DOMAIN y.entries, NEW b \in Nat, b <= x.seq, y.entries[p].seq <= b
      PROVE  p \in DOMAIN x.entries /\ y.entries[p].seq = x.entries[p].seq /\ y.entries[p].clock = x.entries[p].clock /\ y.entries[p].body = x.entries[p].body
  <2>1. y.entries[p].seq \in Nat BY DEF Good, Solid, Entry
  <2>2. ~(y.entries[p].seq > x.seq) BY <1>4, <1>5, <2>1
  <2> QED BY <2>2 DEF Evolves
<1>6. k.pushed <= y.seq BY <1>4
<1>7. ASSUME NEW p \in DOMAIN y.entries, y.entries[p].seq <= k.pushed
      PROVE  Decided(h, p, y.entries[p])
  <2>1. p \in DOMAIN x.entries /\ y.entries[p].seq = x.entries[p].seq /\ y.entries[p].clock = x.entries[p].clock /\ y.entries[p].body = x.entries[p].body
    BY <1>4, <1>5, <1>7
  <2> QED BY <1>1, <1>7, <2>1 DEF Pushes, Decided
<1>8. ASSUME s.pc \in Announced
      PROVE  /\ s.pushThrough <= y.seq
             /\ \A p \in DOMAIN y.entries :
                  y.entries[p].seq <= s.pushThrough =>
                    \/ y.entries[p].seq <= s.pushed \/ Decided(h, p, y.entries[p])
                    \/ \E e \in s.outgoing : e.path = p /\ e.clock = y.entries[p].clock /\ e.body = y.entries[p].body
  <2>1. s.pushThrough <= x.seq BY <1>1, <1>8 DEF Pushes
  <2>2. ASSUME NEW p \in DOMAIN y.entries, y.entries[p].seq <= s.pushThrough
        PROVE  \/ y.entries[p].seq <= s.pushed \/ Decided(h, p, y.entries[p])
               \/ \E e \in s.outgoing : e.path = p /\ e.clock = y.entries[p].clock /\ e.body = y.entries[p].body
    <3>1. p \in DOMAIN x.entries /\ y.entries[p].seq = x.entries[p].seq /\ y.entries[p].clock = x.entries[p].clock /\ y.entries[p].body = x.entries[p].body
      BY <1>4, <1>5, <2>1, <2>2
    <3> QED BY <1>1, <1>8, <2>2, <3>1 DEF Pushes, Decided
  <2> QED BY <1>4, <2>1, <2>2
<1>9. Pushes(h, y, s, k, m) BY <1>1, <1>6, <1>7, <1>8 DEF Pushes
<1> QED BY <1>1, <1>3, <1>9 DEF Client

LEMMA TookOn ==
  ASSUME NEW h, NEW x, Good(x), NEW y, Good(y), NEW R, Evolves(x, y, R), x.id # Host, NEW n \in Nat, Took(h, x, n),
         \A e \in R : e.path = h.journal[n].path => e.rev >= n
  PROVE  Took(h, y, n)
<1> DEFINE p == h.journal[n].path
<1>1. p \in DOMAIN x.entries /\ (x.entries[p].rev = 0 \/ x.entries[p].rev >= n) BY DEF Took
<1> HIDE DEF p
<1>2. p \in DOMAIN y.entries /\ y.id # Host BY <1>1 DEF Evolves, Extends
<1>3. \/ y.entries[p].rev = 0
      \/ y.entries[p].rev = x.entries[p].rev
      \/ \E e \in R : e.path = p /\ e.rev = y.entries[p].rev
  BY <1>2 DEF Evolves
<1>4. y.entries[p].rev = 0 \/ y.entries[p].rev >= n BY <1>1, <1>3 DEF p
<1> QED BY <1>2, <1>4 DEF Took, p

LEMMA MirrorMovesFull ==
  ASSUME NEW h, NEW x, Good(x), NEW y, Good(y), Evolves(x, y, {}), x.id # Host,
         NEW s, Session(s), NEW k, Cursor(k), NEW rs, Full(h, x, s, k, rs)
  PROVE  Full(h, y, s, k, rs)
<1>1. s.upper \in Nat /\ s.through \in Nat /\ k.pulled \in Nat BY DEF Session, Cursor
<1>2. Pulls(h, x, s, k) BY DEF Full
<1>3. ASSUME NEW n \in Nat, Took(h, x, n) PROVE Took(h, y, n)
  <2>1. \A e \in {} : e.path = h.journal[n].path => e.rev >= n OBVIOUS
  <2> QED BY <1>3, <2>1, TookOn
<1>4. ASSUME NEW b \in Nat PROVE \A n \in 1..b : n \in Nat OBVIOUS
<1>5. \A n \in 1..k.pulled : Took(h, y, n) BY <1>1, <1>2, <1>3, <1>4 DEF Pulls
<1>6. ASSUME NEW todo, NEW b \in Nat, NEW after, Paged(h, x, todo, b, after) PROVE Paged(h, y, todo, b, after)
  BY <1>3, <1>4, <1>6 DEF Paged
<1>7. Pulls(h, y, s, k) BY <1>1, <1>2, <1>5, <1>6 DEF Pulls
<1> QED BY <1>7 DEF Full

(* A mirror that merges a record of its queue. *)
LEMMA Consumed ==
  ASSUME NEW h, NEW x, Good(x), NEW y, NEW s, Session(s), NEW k, Cursor(k), Pulls(h, x, s, k), x.id # Host,
         s.pc \in {"pull", "commit"}, NEW e \in s.todo, Ready(x, y, e)
  PROVE  /\ \A n \in 1..k.pulled : Took(h, y, n)
         /\ Paged(h, y, s.todo, s.through, s.through)
         /\ Settles(y, e) => Paged(h, y, s.todo \ {e}, s.through, s.through)
<1>1. s.through \in Nat /\ k.pulled \in Nat BY DEF Session, Cursor
<1>2. Paged(h, x, s.todo, s.through, s.through) /\ k.pulled <= s.through BY DEF Pulls
<1>3. Newest(h, e, s.through) BY <1>2 DEF Paged
<1>4. Good(y) /\ Evolves(x, y, {e}) BY DEF Ready
<1>5. y.id # Host BY <1>4 DEF Evolves, Extends
<1>6. ASSUME NEW n \in 1..s.through, Took(h, x, n) PROVE Took(h, y, n)
  <2>1. n \in Nat OBVIOUS
  <2>2. e.path = h.journal[n].path => e.rev >= n
    <3>1. e.path = h.journal[n].path => n <= e.rev BY <1>3 DEF Newest
    <3>2. e.rev \in Nat BY DEF Session, Record
    <3> QED BY <2>1, <3>1, <3>2
  <2> QED BY <1>4, <1>6, <2>1, <2>2, TookOn
<1>7. \A n \in 1..k.pulled : n \in 1..s.through /\ Took(h, x, n) BY <1>1, <1>2 DEF Pulls
<1>8. ASSUME NEW n \in 1..s.through
      PROVE  \/ Took(h, x, n) \/ Queued(h, s.todo, n) \/ LatestUpTo(h, h.journal[n].path, s.through) > s.through
  BY <1>2 DEF Paged
<1>9. Paged(h, y, s.todo, s.through, s.through) BY <1>2, <1>6, <1>8 DEF Paged
<1>10. ASSUME Settles(y, e) PROVE Paged(h, y, s.todo \ {e}, s.through, s.through)
  <2>1. e.path \in DOMAIN y.entries /\ (y.entries[e.path].rev = 0 \/ y.entries[e.path].rev = e.rev)
    BY <1>5, <1>10 DEF Settles
  <2>2. ASSUME NEW n \in 1..s.through, Queued(h, s.todo, n) PROVE Took(h, y, n) \/ Queued(h, s.todo \ {e}, n)
    BY <2>1, <2>2 DEF Queued, Took
  <2> QED BY <1>2, <1>6, <1>8, <2>2 DEF Paged
<1> QED BY <1>6, <1>7, <1>9, <1>10

-----------------------------------------------------------------------------
(* The sessions that steps lead to. *)
LEMMA Ends ==
  ASSUME NEW h, NEW x, NEW s, NEW k, NEW m, Client(h, x, s, k, m), NEW g \in Nat, NEW ok \in BOOLEAN
  PROVE  /\ Client(h, x, Inactive(g, ok), k, m)
         /\ \A rs : Full(h, x, s, k, rs) => Full(h, x, Inactive(g, ok), k, rs)
<1> DEFINE t == Inactive(g, ok)
<1>1. /\ t.pc = "idle" /\ t.todo = {} /\ t.outgoing = {} /\ t.requested = {} /\ t.early = FALSE
      /\ t \in [pc : Phase, pulled : Nat, pushed : Nat, after : Nat, upper : Nat, through : Nat,
                todo : {{}}, outgoing : {{}}, pushThrough : Nat, requested : {{}},
                current : {NoRecord}, acknowledged : BOOLEAN, early : BOOLEAN, sent : BOOLEAN, gen : Nat, ok : BOOLEAN]
  BY DEF Inactive, Phase
<1> HIDE DEF t
<1>2. Session(t)
  <2>1. \A e \in t.todo \union t.outgoing : Record(e) BY <1>1
  <2>2. t.pc \notin {"commit", "send"} BY <1>1
  <2> QED BY <1>1, <2>1, <2>2 DEF Session
<1>3. Client(h, x, t, k, m)
  <2>1. t.pc \notin Announced /\ t.pc # "journal" BY <1>1 DEF Announced
  <2> QED BY <1>1, <1>2, <2>1 DEF Client, Follows, Pushes
<1>4. ASSUME NEW rs, Full(h, x, s, k, rs) PROVE Full(h, x, t, k, rs) BY <1>1, <1>4 DEF Full, Pulls
<1> QED BY <1>3, <1>4 DEF t

LEMMA Forgotten ==
  ASSUME NEW h, NEW x, NEW s, NEW k, NEW m, Client(h, x, s, k, m)
  PROVE  Client(h, x, s, k, NoManifest)
<1>1. NoManifest.gen = -1 /\ NoManifest.members = {} /\ NoManifest.applied = {} /\
      NoManifest = [gen |-> NoManifest.gen, members |-> NoManifest.members, applied |-> NoManifest.applied]
  BY DEF NoManifest
<1>2. NoManifest.gen # s.gen
  <2>1. s.gen \in Nat BY DEF Client, Session
  <2> QED BY <1>1, <2>1
<1>3. Plan(h, NoManifest) BY <1>1 DEF Plan
<1>4. Pushes(h, x, s, k, NoManifest) BY <1>2 DEF Client, Pushes
<1> QED BY <1>3, <1>4 DEF Client

LEMMA Drops ==
  ASSUME NEW h, NEW x, NEW s, NEW k, NEW m, Client(h, x, s, k, m), s.pc \in Announced, NEW e
  PROVE  /\ Client(h, x, Drop(s, e), k, m)
         /\ \A rs : /\ Full(h, x, s, k, rs)
                    /\ s.pc \in {"pull", "commit"} => Paged(h, x, s.todo \ {e}, s.through, s.through)
                    => Full(h, x, Drop(s, e), k, rs)
<1> DEFINE t == Drop(s, e)
           q == IF s.pc = "commit" THEN "pull" ELSE IF s.pc = "send" THEN "push" ELSE s.pc
<1>1. Session(s) BY DEF Client
<1>2. t = [s EXCEPT !.pc = q, !.todo = s.todo \ {e}, !.current = NoRecord] BY DEF Drop
<1>3. /\ q \in Phase /\ q \in Announced /\ q \notin {"commit", "send"}
      /\ q \notin {"idle", "rescan", "changes", "journal", "announce"}
      /\ q \in {"pull", "commit"} => s.pc \in {"pull", "commit"}
      /\ s.pc # "idle"
  BY DEF Phase, Announced
<1> HIDE DEF q, t
<1>4. /\ t \in [pc : Phase, pulled : {s.pulled}, pushed : {s.pushed}, after : Nat, upper : Nat, through : {s.through},
                todo : {s.todo \ {e}}, outgoing : {s.outgoing}, pushThrough : {s.pushThrough}, requested : {s.requested},
                current : {NoRecord}, acknowledged : BOOLEAN, early : BOOLEAN, sent : BOOLEAN, gen : Nat, ok : BOOLEAN]
      /\ t.pc = q /\ t.acknowledged = s.acknowledged /\ t.early = s.early /\ t.gen = s.gen
  BY <1>1, <1>2, <1>3 DEF Session
<1>5. /\ t.pulled = s.pulled /\ t.pushed = s.pushed /\ t.through = s.through /\ t.todo = s.todo \ {e}
      /\ t.outgoing = s.outgoing /\ t.pushThrough = s.pushThrough /\ t.requested = s.requested
  BY <1>4
<1>6. Session(t)
  <2>1. s.pulled \in Nat /\ s.pushed \in Nat /\ s.through \in Nat /\ s.pushThrough \in Nat BY <1>1 DEF Session
  <2>2. \A f \in t.todo \union t.outgoing : Record(f) BY <1>1, <1>5 DEF Session
  <2> QED BY <1>3, <1>4, <2>1, <2>2 DEF Session
<1>7. Client(h, x, t, k, m) BY <1>3, <1>4, <1>5, <1>6 DEF Client, Follows, Pushes
<1>8. ASSUME NEW rs, Full(h, x, s, k, rs),
             s.pc \in {"pull", "commit"} => Paged(h, x, s.todo \ {e}, s.through, s.through)
      PROVE  Full(h, x, t, k, rs)
  BY <1>3, <1>4, <1>5, <1>8 DEF Full, Pulls
<1> QED BY <1>7, <1>8 DEF t

LEMMA Repages ==
  ASSUME NEW h, NEW x, NEW s, NEW k, NEW m, Client(h, x, s, k, m), NEW r, Session(r), r.pushed <= k.pushed,
         NEW t, t = Repage(r) \/ t = [Repage(r) EXCEPT !.pc = "rescan"]
  PROVE  /\ Client(h, x, t, k, m)
         /\ \A rs : Full(h, x, s, k, rs) /\ r.pulled = k.pulled => Full(h, x, t, k, rs)
<1> DEFINE u == Repage(r)
<1>1. /\ u \in [pc : {"changes"}, pulled : {r.pulled}, pushed : {r.pushed}, after : {r.pulled}, upper : {0}, through : {0},
                todo : {{}}, outgoing : {{}}, pushThrough : Nat, requested : {{}},
                current : {NoRecord}, acknowledged : BOOLEAN, early : BOOLEAN, sent : BOOLEAN, gen : Nat, ok : BOOLEAN]
      /\ u.early = FALSE
  BY DEF Session, Repage
<1> HIDE DEF u
<1>2. /\ t \in [pc : {"changes", "rescan"}, pulled : {r.pulled}, pushed : {r.pushed}, after : {r.pulled}, upper : {0}, through : {0},
                todo : {{}}, outgoing : {{}}, pushThrough : Nat, requested : {{}},
                current : {NoRecord}, acknowledged : BOOLEAN, early : BOOLEAN, sent : BOOLEAN, gen : Nat, ok : BOOLEAN]
      /\ t.early = FALSE
  <2>1. t = u \/ t = [u EXCEPT !.pc = "rescan"] BY DEF u
  <2> QED BY ONLY <1>1, <2>1
<1>3. /\ t.pc \in {"changes", "rescan"} /\ t.pulled = r.pulled /\ t.pushed = r.pushed /\ t.after = r.pulled /\ t.upper = 0
      /\ t.todo = {} /\ t.outgoing = {} /\ t.requested = {} /\ t.early = FALSE
  BY ONLY <1>2
<1>4. Session(t)
  <2>1. r.pulled \in Nat /\ r.pushed \in Nat /\ {"changes", "rescan"} \subseteq Phase BY DEF Session, Phase
  <2>2. \A f \in t.todo \union t.outgoing : Record(f) BY <1>3
  <2>3. t.pc \notin {"commit", "send"} BY <1>3
  <2> QED BY ONLY <1>2, <2>1, <2>2, <2>3 DEF Session
<1>5. t.pc \notin Announced /\ t.pc # "journal" /\ t.pc # "idle" /\ t.pc \notin {"journal", "announce", "pull", "commit"}
  BY <1>3 DEF Announced
<1>6. Client(h, x, t, k, m) BY <1>3, <1>4, <1>5 DEF Client, Follows, Pushes
<1>7. ASSUME NEW rs, Full(h, x, s, k, rs), r.pulled = k.pulled PROVE Full(h, x, t, k, rs) BY <1>3, <1>5, <1>7 DEF Full, Pulls
<1> QED BY <1>6, <1>7

-----------------------------------------------------------------------------
(* The rows of the pages of a bounded snapshot. *)
Rows(h, after, limit) ==
  {n \in 1..h.head : after < n /\ n <= limit /\ LatestUpTo(h, h.journal[n].path, limit) = n}

LEMMA ProjectedFacts ==
  ASSUME NEW h, Solid(h), NEW n \in 1..h.head
  PROVE  LET e == projected(h, n) IN /\ e.path = h.journal[n].path /\ e.rev = n /\ e.base = 0
                                     /\ e.body = h.journal[n].body /\ e.clock = h.journal[n].clock /\ Record(e)
<1> DEFINE e == projected(h, n)
<1>1. e.path = h.journal[n].path /\ e.rev = n /\ e.base = 0 /\ e.body = h.journal[n].body /\ e.clock = h.journal[n].clock
  BY DEF projected
<1>2. n \in Nat BY DEF Solid, Shape
<1> HIDE DEF e
<1>3. Record(e) BY <1>1, <1>2 DEF Record, Solid
<1> QED BY <1>1, <1>3 DEF e

LEMMA PagedRows ==
  ASSUME NEW h, Good(h), NEW x, NEW limit \in Nat, limit <= h.head, NEW after \in Nat, NEW todo,
         Paged(h, x, todo, limit, after), NEW rows, rows \subseteq Rows(h, after, limit), NEW b \in Nat,
         \A n \in Rows(h, after, limit) \ rows : n > b
  PROVE  Paged(h, x, todo \union {projected(h, n) : n \in rows}, limit, b)
<1> DEFINE all == todo \union {projected(h, n) : n \in rows}
<1>1. h.head \in Nat /\ Solid(h) BY DEF Good, Solid, Shape
<1>2. ASSUME NEW n \in 1..limit
      PROVE  /\ LatestUpTo(h, h.journal[n].path, limit) \in 1..h.head
             /\ LatestUpTo(h, h.journal[n].path, limit) <= limit
             /\ h.journal[LatestUpTo(h, h.journal[n].path, limit)].path = h.journal[n].path
             /\ n <= LatestUpTo(h, h.journal[n].path, limit)
  <2>1. n \in 1..h.head /\ n <= limit BY <1>1
  <2> QED BY <1>1, <2>1, LatestFacts
<1>3. ASSUME NEW n \in rows
      PROVE  LET e == projected(h, n) IN e.path = h.journal[n].path /\ e.rev = n /\ Newest(h, e, limit)
  <2> DEFINE e == projected(h, n)
  <2>1. n \in 1..h.head /\ n <= limit /\ LatestUpTo(h, h.journal[n].path, limit) = n BY DEF Rows
  <2>2. e.path = h.journal[n].path /\ e.rev = n BY <1>1, <2>1, ProjectedFacts
  <2> HIDE DEF e
  <2>3. ASSUME NEW j \in 1..limit, h.journal[j].path = e.path PROVE j <= e.rev
    <3>1. j <= LatestUpTo(h, h.journal[j].path, limit) BY <1>2
    <3> QED BY <2>1, <2>2, <2>3, <3>1
  <2>4. Newest(h, e, limit) BY <2>1, <2>2, <2>3 DEF Newest
  <2> QED BY <2>2, <2>4 DEF e
<1>4. ASSUME NEW e \in all PROVE Newest(h, e, limit) BY <1>3 DEF Paged
<1>5. ASSUME NEW n \in 1..limit
      PROVE  Took(h, x, n) \/ Queued(h, all, n) \/ LatestUpTo(h, h.journal[n].path, limit) > b
  <2> DEFINE l == LatestUpTo(h, h.journal[n].path, limit)
  <2>1. l \in 1..h.head /\ l <= limit /\ h.journal[l].path = h.journal[n].path /\ n <= l BY <1>2
  <2>2. Took(h, x, n) \/ Queued(h, todo, n) \/ l > after BY DEF Paged
  <2>3. LatestUpTo(h, h.journal[l].path, limit) = l BY <2>1
  <2> HIDE DEF l
  <2>4. ASSUME Queued(h, todo, n) PROVE Queued(h, all, n) BY <2>4 DEF Queued
  <2>5. ASSUME l > after PROVE Queued(h, all, n) \/ l > b
    <3>1. l \in Rows(h, after, limit)
      <4>1. after < l BY <1>1, <2>1, <2>5
      <4> QED BY <2>1, <2>3, <4>1 DEF Rows
    <3>2. CASE l \in rows
      <4> DEFINE e == projected(h, l)
      <4>1. e \in all /\ e.path = h.journal[l].path /\ e.rev = l BY <1>3, <3>2
      <4> HIDE DEF e
      <4>2. e.path = h.journal[n].path /\ e.rev >= n BY <1>1, <2>1, <4>1
      <4> QED BY <4>1, <4>2 DEF Queued
    <3>3. CASE l \notin rows BY <3>1, <3>3
    <3> QED BY <3>2, <3>3
  <2> QED BY <2>2, <2>4, <2>5 DEF l
<1> HIDE DEF all
<1>6. Paged(h, x, all, limit, b) BY <1>4, <1>5 DEF Paged
<1> QED BY <1>6 DEF all

(* The session u after a page of changes. *)
PageOf(h, s, limit, rows, last, t, u) ==
  /\ s.pc \in {"changes", "rescan"}
  /\ limit = IF s.upper = 0 THEN h.head ELSE s.upper
  /\ rows = firstRows(Rows(h, s.after, limit))
  /\ rows # {} => last \in rows /\ \A n \in rows : n <= last
  /\ t = [s EXCEPT !.through = limit, !.todo = @ \union {projected(h, n) : n \in rows}]
  /\ u = IF Cardinality(rows) = PageLimit /\ last < limit
           THEN [t EXCEPT !.pc = "changes", !.after = last, !.upper = limit]
           ELSE [t EXCEPT !.pc = "journal", !.after = 0, !.upper = 0]

LEMMA PageTaken ==
  ASSUME NEW h, Good(h), NEW x, NEW s, NEW k, NEW m, Client(h, x, s, k, m),
         NEW limit, NEW rows, NEW last, NEW t, NEW u, PageOf(h, s, limit, rows, last, t, u)
  PROVE  /\ Client(h, x, u, k, m)
         /\ \A rs : Full(h, x, s, k, rs) => Full(h, x, u, k, rs)
<1> USE DEF PageOf
<1> DEFINE R == Rows(h, s.after, limit)
           more == Cardinality(rows) = PageLimit /\ last < limit
           todo == s.todo \union {projected(h, n) : n \in rows}
<1>1. Session(s) /\ Cursor(k) BY DEF Client
<1>2. h.head \in Nat /\ Solid(h) BY DEF Good, Solid, Shape
<1>3. limit \in Nat /\ s.after \in Nat /\ s.pulled \in Nat /\ s.upper \in Nat /\ k.pulled \in Nat
  BY <1>1, <1>2 DEF Session, Cursor
<1>4. R \subseteq 1..h.head BY DEF Rows
<1> HIDE DEF R
<1>5. /\ rows \subseteq R /\ IsFiniteSet(rows) /\ Cardinality(rows) \in Nat
      /\ \A i \in R, n \in rows : i <= n => i \in rows
      /\ rows # R => Cardinality(rows) = PageLimit
  BY <1>2, <1>4, PageRows DEF R
<1>6. PageLimit \in Nat /\ PageLimit > 0 BY PageLimitAssumption
<1>7. Cardinality(rows) = PageLimit => rows # {}
  <2>1. Cardinality({}) = 0 BY FS_EmptySet
  <2> QED BY <1>6, <2>1
<1>8. more => last \in Nat /\ last \in rows /\ limit # 0
  <2>1. more => last \in rows /\ last \in 1..h.head BY <1>4, <1>5, <1>7
  <2> QED BY <1>2, <1>3, <2>1
<1>9. \A e \in todo : Record(e)
  <2>1. ASSUME NEW n \in rows PROVE Record(projected(h, n)) BY <1>2, <1>4, <1>5, ProjectedFacts
  <2> QED BY <1>1, <2>1 DEF Session
<1> HIDE DEF todo
<1>10. t \in [pc : Phase, pulled : {s.pulled}, pushed : {s.pushed}, after : Nat, upper : Nat, through : {limit},
              todo : {todo}, outgoing : {s.outgoing}, pushThrough : Nat, requested : {s.requested},
              current : {s.current}, acknowledged : BOOLEAN, early : BOOLEAN, sent : BOOLEAN, gen : Nat, ok : BOOLEAN]
       /\ t.early = s.early
  <2>1. t = [s EXCEPT !.through = limit, !.todo = todo] BY DEF todo
  <2> QED BY <1>1, <1>3, <2>1 DEF Session
<1> DEFINE q == IF more THEN "changes" ELSE "journal"
           a == IF more THEN last ELSE 0
           l == IF more THEN limit ELSE 0
<1>11. u = [t EXCEPT !.pc = q, !.after = a, !.upper = l] OBVIOUS
<1>12. q \in Phase /\ a \in Nat /\ l \in Nat /\ q \in {"changes", "journal"} /\ q \notin Announced BY <1>3, <1>8 DEF Phase, Announced
<1> HIDE DEF q, a, l, more
<1>13. u \in [pc : {q}, pulled : {s.pulled}, pushed : {s.pushed}, after : {a}, upper : {l}, through : {limit},
              todo : {todo}, outgoing : {s.outgoing}, pushThrough : Nat, requested : {s.requested},
              current : {s.current}, acknowledged : BOOLEAN, early : BOOLEAN, sent : BOOLEAN, gen : Nat, ok : BOOLEAN]
       /\ u.early = s.early
  <2>1. u.early = t.early BY <1>10, <1>11
  <2>2. u.early = s.early BY <1>10, <2>1
  <2> HIDE DEF todo
  <2>3. u \in [pc : {q}, pulled : {s.pulled}, pushed : {s.pushed}, after : {a}, upper : {l}, through : {limit},
              todo : {todo}, outgoing : {s.outgoing}, pushThrough : Nat, requested : {s.requested},
              current : {s.current}, acknowledged : BOOLEAN, early : BOOLEAN, sent : BOOLEAN, gen : Nat, ok : BOOLEAN]
    <3>1. t \in [pc : Phase, pulled : {s.pulled}, pushed : {s.pushed}, after : Nat, upper : Nat, through : {limit},
                todo : {todo}, outgoing : {s.outgoing}, pushThrough : Nat, requested : {s.requested},
                current : {s.current}, acknowledged : BOOLEAN, early : BOOLEAN, sent : BOOLEAN, gen : Nat, ok : BOOLEAN]
      BY <1>10
    <3> DEFINE v == [t EXCEPT !.pc = q]
               w == [v EXCEPT !.after = a]
    <3>2. v \in [pc : {q}, pulled : {s.pulled}, pushed : {s.pushed}, after : Nat, upper : Nat, through : {limit},
                todo : {todo}, outgoing : {s.outgoing}, pushThrough : Nat, requested : {s.requested},
                current : {s.current}, acknowledged : BOOLEAN, early : BOOLEAN, sent : BOOLEAN, gen : Nat, ok : BOOLEAN]
      BY ONLY <3>1
    <3> HIDE DEF v
    <3>3. w \in [pc : {q}, pulled : {s.pulled}, pushed : {s.pushed}, after : {a}, upper : Nat, through : {limit},
                todo : {todo}, outgoing : {s.outgoing}, pushThrough : Nat, requested : {s.requested},
                current : {s.current}, acknowledged : BOOLEAN, early : BOOLEAN, sent : BOOLEAN, gen : Nat, ok : BOOLEAN]
      BY ONLY <3>2
    <3> HIDE DEF w
    <3>4. u = [w EXCEPT !.upper = l] BY <1>11 DEF v, w
    <3> QED BY <3>3, <3>4
  <2> QED BY <2>2, <2>3
<1>14. /\ u.pc = q /\ u.pulled = s.pulled /\ u.pushed = s.pushed /\ u.after = a /\ u.upper = l
       /\ u.through = limit /\ u.todo = todo /\ u.outgoing = s.outgoing /\ u.requested = s.requested
  BY <1>13
<1>15. Session(u)
  <2>1. \A e \in u.todo \union u.outgoing : Record(e) BY <1>1, <1>9, <1>14 DEF Session
  <2>2. u.pc \notin {"commit", "send"} BY <1>12, <1>14
  <2>3. s.pushed \in Nat BY <1>1 DEF Session
  <2>4. u \in [pc : Phase, pulled : Nat, pushed : Nat, after : Nat, upper : Nat, through : Nat,
              todo : {todo}, outgoing : {s.outgoing}, pushThrough : Nat, requested : {s.requested},
              current : {s.current}, acknowledged : BOOLEAN, early : BOOLEAN, sent : BOOLEAN, gen : Nat, ok : BOOLEAN]
    BY <1>3, <1>12, <1>13, <2>3
  <2> QED BY <2>1, <2>2, <2>4 DEF Session
<1>16. Client(h, x, u, k, m)
  <2>1. Follows(h, x, u)
    <3>1. q = "journal" => l = 0 BY DEF q, l
    <3> QED BY <1>14, <3>1 DEF Client, Follows
  <2>2. Pushes(h, x, u, k, m) BY <1>12, <1>14 DEF Client, Pushes
  <2> QED BY <1>15, <2>1, <2>2 DEF Client
<1>17. ASSUME NEW rs, Full(h, x, s, k, rs) PROVE Full(h, x, u, k, rs)
  <2>1. Pulls(h, x, s, k) /\ rs = {} BY <1>17 DEF Full
  <2>2. /\ k.pulled <= h.head /\ (\A n \in 1..k.pulled : Took(h, x, n)) /\ s.requested = {} /\ ~s.early
        /\ s.pulled = k.pulled
    BY <2>1 DEF Pulls
  <2>3. s.pulled <= limit /\ limit <= h.head /\ Paged(h, x, s.todo, limit, s.after)
    <3>1. CASE s.upper = 0
      <4>1. s.after = s.pulled /\ s.todo = {} /\ limit = h.head BY <2>1, <3>1 DEF Pulls
      <4>2. ASSUME NEW n \in 1..limit
            PROVE  Took(h, x, n) \/ LatestUpTo(h, h.journal[n].path, limit) > s.after
        <5>1. LatestUpTo(h, h.journal[n].path, limit) >= n
          <6>1. n \in 1..h.head /\ n <= limit BY <1>2, <4>1
          <6>2. LatestUpTo(h, h.journal[n].path, limit) = 0 \/ LatestUpTo(h, h.journal[n].path, limit) \in 1..h.head
            BY <1>2, <1>3, LatestFacts
          <6>3. n <= LatestUpTo(h, h.journal[n].path, limit) BY <1>2, <1>3, <6>1, LatestFacts
          <6> QED BY <1>2, <6>2, <6>3
        <5>2. CASE n <= s.pulled BY <1>3, <2>2, <5>2
        <5>3. CASE n > s.pulled
          <6>1. LatestUpTo(h, h.journal[n].path, limit) = 0 \/ LatestUpTo(h, h.journal[n].path, limit) \in 1..h.head
            BY <1>2, <1>3, LatestFacts
          <6>2. LatestUpTo(h, h.journal[n].path, limit) \in Nat BY <1>2, <6>1
          <6> QED BY <1>3, <4>1, <5>1, <5>3, <6>2
        <5> QED BY <1>3, <5>2, <5>3
      <4>3. limit <= h.head BY <1>2, <4>1
      <4> QED BY <2>2, <4>1, <4>2, <4>3 DEF Paged
    <3>2. CASE s.upper # 0
      <4>1. s.pc = "changes" BY <2>1, <3>2 DEF Pulls
      <4> QED BY <2>1, <3>2, <4>1 DEF Pulls, Paged
    <3> QED BY <3>1, <3>2
  <2> DEFINE b == IF more THEN last ELSE limit
  <2>4. b \in Nat BY <1>3, <1>8
  <2>5. ASSUME NEW n \in R \ rows PROVE n > b
    <3>1. rows # R BY <2>5
    <3>2. Cardinality(rows) = PageLimit /\ rows # {} BY <1>5, <1>7, <3>1
    <3>3. last \in rows /\ ~(n <= last) BY <1>5, <2>5, <3>2
    <3>4. n \in 1..h.head /\ last \in 1..h.head BY <1>4, <1>5, <2>5, <3>3
    <3>5. n \in Nat /\ last \in Nat /\ n > last BY <1>2, <3>3, <3>4
    <3>6. CASE more BY <3>5, <3>6
    <3>7. CASE ~more
      <4>1. ~(last < limit) BY <3>2, <3>7 DEF more
      <4>2. n <= limit BY <2>5 DEF R, Rows
      <4> QED BY <1>3, <3>5, <4>1, <4>2
    <3> QED BY <3>6, <3>7
  <2> HIDE DEF b
  <2>6. Paged(h, x, todo, limit, b) BY <1>3, <1>5, <2>3, <2>4, <2>5, PagedRows DEF R, todo
  <2>7. CASE more
    <3>1. q = "changes" /\ a = last /\ l = limit /\ b = last /\ l # 0 BY <1>8, <2>7 DEF q, a, l, b
    <3>2. u.pc = "changes" /\ u.upper # 0 /\ u.pulled <= u.upper /\ Paged(h, x, u.todo, u.upper, u.after)
          /\ u.pulled = k.pulled /\ u.requested = {} /\ ~u.early
      <4>1. u.pc = "changes" /\ u.upper = limit /\ limit # 0 /\ u.after = b /\ u.todo = todo BY <1>14, <3>1
      <4>2. Paged(h, x, u.todo, u.upper, u.after) BY <2>6, <4>1
      <4>3. ~u.early BY <1>13, <2>2
      <4> QED BY <1>14, <2>2, <2>3, <4>1, <4>2, <4>3
    <3>3. Pulls(h, x, u, k) BY <2>2, <3>2 DEF Pulls
    <3> QED BY <2>1, <3>3 DEF Full
  <2>8. CASE ~more
    <3>1. q = "journal" /\ b = limit BY <2>8 DEF q, b
    <3>2. Pulls(h, x, u, k) BY <1>13, <1>14, <2>2, <2>3, <2>6, <3>1 DEF Pulls
    <3> QED BY <2>1, <3>2 DEF Full
  <2> QED BY <2>7, <2>8
<1> QED BY <1>16, <1>17

-----------------------------------------------------------------------------
(* A page of the authority's history. *)
HistoryOf(h, x, s, limit, next, y) ==
  /\ s.pc = "journal"
  /\ limit = IF s.upper = 0 THEN h.head ELSE s.upper
  /\ next = IF x.head + PageLimit < limit THEN x.head + PageLimit ELSE limit
  /\ y = [x EXCEPT !.head = next, !.journal = [n \in 1..next |-> IF n <= x.head THEN @[n] ELSE h.journal[n]]]

LEMMA HistoryTaken ==
  ASSUME NEW h, Good(h), NEW x, Good(x), x.id # Host, NEW s, NEW k, NEW m, Client(h, x, s, k, m),
         NEW limit, NEW next, NEW y, HistoryOf(h, x, s, limit, next, y)
  PROVE  /\ Good(y) /\ y.id = x.id /\ y.entries = x.entries /\ y.seq = x.seq
         /\ limit \in Nat /\ next <= limit
         /\ y.head = next /\ next <= h.head /\ limit <= h.head /\ \A n \in 1..next : y.journal[n] = h.journal[n]
<1> USE DEF HistoryOf
<1> DEFINE f == [n \in 1..next |-> IF n <= x.head THEN x.journal[n] ELSE h.journal[n]]
<1>1. Session(s) /\ Follows(h, x, s) BY DEF Client
<1>2. h.head \in Nat /\ x.head \in Nat /\ s.upper \in Nat /\ x.head <= h.head
  BY <1>1 DEF Good, Solid, Shape, Session, Follows
<1>3. PageLimit \in Nat BY PageLimitAssumption
<1>4. limit \in Nat /\ x.head <= limit /\ limit <= h.head BY <1>1, <1>2 DEF Follows
<1>5. next \in Nat /\ x.head <= next /\ next <= limit /\ next <= h.head BY <1>2, <1>3, <1>4
<1>6. \A n \in 1..next : n \in 1..h.head BY <1>2, <1>5
<1>7. \A n \in 1..x.head : n \in 1..next BY <1>2, <1>5
<1>8. ASSUME NEW n \in 1..next PROVE f[n] = h.journal[n]
  <2>1. n \in Nat /\ n >= 1 OBVIOUS
  <2>2. CASE n <= x.head
    <3>1. n \in 1..x.head BY <1>2, <2>1, <2>2
    <3> QED BY <1>1, <2>2, <3>1 DEF Follows
  <2>3. CASE ~(n <= x.head) BY <2>3
  <2> QED BY <2>2, <2>3
<1>9. y = [x EXCEPT !.head = next, !.journal = f] OBVIOUS
<1> HIDE DEF f
<1>10. /\ y \in [id : Device, disk : {x.disk}, entries : {x.entries}, seq : {x.seq}, counter : Nat, journal : {f}, head : {next}]
       /\ y.id = x.id /\ x.seq \in Nat
  <2>1. Shape(x) BY DEF Good, Solid
  <2>2. y \in [id : Device, disk : {x.disk}, entries : {x.entries}, seq : {x.seq}, counter : Nat, journal : {f}, head : {next}]
    BY ONLY <1>9, <2>1 DEF Shape
  <2>3. y.id = x.id BY ONLY <1>9, <2>1 DEF Shape
  <2> QED BY <2>1, <2>2, <2>3 DEF Shape
<1>11. /\ y.disk = x.disk /\ y.entries = x.entries /\ y.seq = x.seq /\ y.journal = f /\ y.head = next /\ Shape(y)
  BY ONLY <1>5, <1>10 DEF Shape
<1>12. \A n \in 1..next : y.journal[n] = h.journal[n] BY <1>8, <1>11
<1>13. \A n \in 1..x.head : y.journal[n] = x.journal[n]
  BY <1>1, <1>7, <1>12 DEF Follows
<1>14. Good(y)
  <2>1. \A n \in 1..y.head : y.journal[n].body \in Body /\ y.journal[n].clock \in Clock
    BY <1>6, <1>11, <1>12 DEF Good, Solid
  <2>2. ASSUME NEW p \in DOMAIN y.entries
        PROVE  /\ y.entries[p] \in Entry(p) /\ y.entries[p].seq <= y.seq
               /\ y.id = Host \/ y.entries[p].rev # 0 => Backs(y, p, y.entries[p])
               /\ Based(y, p, y.entries[p].base)
    <3>1. /\ x.entries[p] \in Entry(p) /\ x.entries[p].seq <= x.seq
          /\ x.id = Host \/ x.entries[p].rev # 0 => Backs(x, p, x.entries[p])
          /\ Based(x, p, x.entries[p].base)
      BY <1>11 DEF Good, Solid
    <3> QED BY <1>7, <1>10, <1>11, <1>13, <3>1 DEF Backs, Based, Version
  <2>3. \A p \in DOMAIN y.disk : y.disk[p] \in Body BY <1>11 DEF Good, Solid
  <2>4. Solid(y) BY <1>11, <2>1, <2>2, <2>3 DEF Solid
  <2>5. Whole(y) BY <1>10 DEF Whole
  <2> QED BY <2>4, <2>5 DEF Good
<1> QED BY <1>4, <1>5, <1>10, <1>11, <1>12, <1>14

(* The rest of the mirror's state against a longer history. *)
LEMMA LongerHistory ==
  ASSUME NEW h, NEW x, NEW y, y.entries = x.entries, y.seq = x.seq, y.head <= h.head,
         \A n \in 1..y.head : y.journal[n] = h.journal[n],
         NEW s, NEW k, NEW m, Client(h, x, s, k, m), NEW t, Session(t), t.pc \notin Announced,
         t.pc # "idle" => t.pushed <= k.pushed,
         t.pc = "journal" /\ t.upper # 0 => y.head <= t.upper /\ t.upper <= h.head
  PROVE  Client(h, y, t, k, m)
BY DEF Client, Follows, Pushes

LEMMA HistoryGoesOn ==
  ASSUME NEW h, NEW x, NEW y, y.entries = x.entries, y.seq = x.seq, y.head <= h.head,
         \A n \in 1..y.head : y.journal[n] = h.journal[n],
         NEW s, NEW k, NEW m, Client(h, x, s, k, m), s.pc = "journal",
         NEW limit \in Nat, y.head <= limit, limit <= h.head
  PROVE  LET t == [s EXCEPT !.upper = limit]
         IN /\ Client(h, y, t, k, m)
            /\ \A rs : Full(h, x, s, k, rs) => Full(h, y, t, k, rs)
<1> DEFINE t == [s EXCEPT !.upper = limit]
<1>1. Session(s) BY DEF Client
<1>2. t \in [pc : {s.pc}, pulled : {s.pulled}, pushed : {s.pushed}, after : Nat, upper : {limit}, through : {s.through},
             todo : {s.todo}, outgoing : {s.outgoing}, pushThrough : Nat, requested : {s.requested},
             current : {s.current}, acknowledged : BOOLEAN, early : BOOLEAN, sent : BOOLEAN, gen : Nat, ok : BOOLEAN]
  BY ONLY <1>1 DEF Session
<1>3. t.early = s.early BY ONLY <1>1 DEF Session
<1> HIDE DEF t
<1>4. /\ t.pc = "journal" /\ t.pulled = s.pulled /\ t.pushed = s.pushed /\ t.upper = limit /\ t.through = s.through
      /\ t.todo = s.todo /\ t.outgoing = s.outgoing /\ t.requested = s.requested
  BY <1>2
<1>5. Session(t)
  <2>1. s.pc \in Phase /\ s.pulled \in Nat /\ s.pushed \in Nat /\ s.through \in Nat BY <1>1 DEF Session
  <2>2. \A e \in t.todo \union t.outgoing : Record(e) BY <1>1, <1>4 DEF Session
  <2>3. t.pc \notin {"commit", "send"} BY <1>4
  <2> QED BY ONLY <1>2, <2>1, <2>2, <2>3, limit \in Nat DEF Session
<1>6. t.pc \notin Announced BY <1>4 DEF Announced
<1>7. s.pushed <= k.pushed BY DEF Client, Pushes
<1>8. Client(h, y, t, k, m) BY <1>4, <1>5, <1>6, <1>7, LongerHistory
<1>9. ASSUME NEW rs, Full(h, x, s, k, rs) PROVE Full(h, y, t, k, rs)
  BY <1>3, <1>4, <1>9 DEF Full, Pulls, Paged, Took
<1> QED BY <1>8, <1>9 DEF t

LEMMA HistoryDone ==
  ASSUME NEW h, NEW x, NEW y, y.entries = x.entries, y.seq = x.seq, y.head <= h.head,
         \A n \in 1..y.head : y.journal[n] = h.journal[n],
         NEW s, NEW k, NEW m, Client(h, x, s, k, m), s.pc = "journal",
         NEW paths, NEW extra, \A e \in extra : Record(e)
  PROVE  LET t == [s EXCEPT !.pc = "announce", !.upper = 0, !.requested = paths, !.todo = @ \union extra]
         IN /\ Client(h, y, t, k, m)
            /\ \A rs : Full(h, x, s, k, rs) /\ paths = {} /\ extra = {} => Full(h, y, t, k, rs)
<1> DEFINE todo == s.todo \union extra
           t == [s EXCEPT !.pc = "announce", !.upper = 0, !.requested = paths, !.todo = @ \union extra]
           v == [s EXCEPT !.pc = "announce", !.upper = 0]
<1>1. Session(s) BY DEF Client
<1>2. /\ v \in [pc : {"announce"}, pulled : {s.pulled}, pushed : {s.pushed}, after : Nat, upper : {0}, through : {s.through},
                todo : {s.todo}, outgoing : {s.outgoing}, pushThrough : Nat, requested : {s.requested},
                current : {s.current}, acknowledged : BOOLEAN, early : BOOLEAN, sent : BOOLEAN, gen : Nat, ok : BOOLEAN]
      /\ v.early = s.early
  BY ONLY <1>1 DEF Session
<1> HIDE DEF v
<1>3. t = [v EXCEPT !.requested = paths, !.todo = todo] BY <1>1 DEF v, Session
<1> HIDE DEF todo, t
<1>4. t \in [pc : {"announce"}, pulled : {s.pulled}, pushed : {s.pushed}, after : Nat, upper : {0}, through : {s.through},
             todo : {todo}, outgoing : {s.outgoing}, pushThrough : Nat, requested : {paths},
             current : {s.current}, acknowledged : BOOLEAN, early : BOOLEAN, sent : BOOLEAN, gen : Nat, ok : BOOLEAN]
      /\ t.early = v.early
  BY ONLY <1>2, <1>3
<1>5. /\ t.pc = "announce" /\ t.pulled = s.pulled /\ t.pushed = s.pushed /\ t.upper = 0 /\ t.through = s.through
      /\ t.todo = todo /\ t.outgoing = s.outgoing /\ t.requested = paths
  BY ONLY <1>4
<1>6. Session(t)
  <2>1. s.pulled \in Nat /\ s.pushed \in Nat /\ s.through \in Nat /\ "announce" \in Phase BY <1>1 DEF Session, Phase
  <2>2. \A e \in t.todo \union t.outgoing : Record(e) BY <1>1, <1>5 DEF Session, todo
  <2>3. t.pc \notin {"commit", "send"} BY <1>5
  <2> QED BY ONLY <1>4, <2>1, <2>2, <2>3 DEF Session
<1>7. t.pc \notin Announced BY <1>5 DEF Announced
<1>8. s.pushed <= k.pushed BY DEF Client, Pushes
<1>9. Client(h, y, t, k, m) BY <1>5, <1>6, <1>7, <1>8, LongerHistory
<1>10. ASSUME NEW rs, Full(h, x, s, k, rs), paths = {}, extra = {} PROVE Full(h, y, t, k, rs)
  <2>1. t.todo = s.todo /\ ~t.early BY <1>2, <1>4, <1>5, <1>10 DEF todo, Full, Pulls
  <2> QED BY <1>5, <1>10, <2>1 DEF Full, Pulls, Paged, Took
<1> QED BY <1>9, <1>10 DEF t

-----------------------------------------------------------------------------
(* The proposals of an announcement. *)
LEMMA ProposalFacts ==
  ASSUME NEW h, Good(h), NEW x, Good(x), x.head <= h.head, \A n \in 1..x.head : x.journal[n] = h.journal[n], NEW pushed
  PROVE  /\ \A e \in proposals(x, pushed) : Record(e) /\ e.rev = 0 /\ Based(h, e.path, e.base)
         /\ \A e, f \in proposals(x, pushed) : e.path = f.path => e = f
         /\ \A p \in DOMAIN x.entries : x.entries[p].rev = 0 /\ x.entries[p].seq > pushed =>
              \E e \in proposals(x, pushed) : e.path = p /\ e.clock = x.entries[p].clock /\ e.body = x.entries[p].body
<1> DEFINE E(p) == [path |-> p, body |-> x.entries[p].body, clock |-> x.entries[p].clock,
                    rev |-> 0, base |-> x.entries[p].base]
           Q == {q \in DOMAIN x.entries : x.entries[q].rev = 0 /\ x.entries[q].seq > pushed}
           out == proposals(x, pushed)
<1>1. out = {E(p) : p \in Q} BY DEF proposals
<1>2. \A p : E(p).path = p /\ E(p).body = x.entries[p].body /\ E(p).clock = x.entries[p].clock /\ E(p).rev = 0 /\ E(p).base = x.entries[p].base
  OBVIOUS
<1> HIDE DEF E, out
<1>3. ASSUME NEW p \in Q PROVE Record(E(p)) /\ Based(h, p, E(p).base)
  <2>1. p \in DOMAIN x.entries OBVIOUS
  <2>2. x.entries[p] \in Entry(p) /\ Based(x, p, x.entries[p].base) BY <2>1 DEF Good, Solid
  <2>3. Record(E(p)) BY <1>2, <2>2 DEF Record, Entry
  <2>4. x.head \in Nat /\ h.head \in Nat BY DEF Good, Solid, Shape
  <2>5. \A n \in 1..x.head : n \in 1..h.head BY <2>4
  <2>6. Based(h, p, E(p).base) BY <1>2, <2>2, <2>5 DEF Based
  <2> QED BY <2>3, <2>6
<1> HIDE DEF Q
<1>4. \A e \in out : Record(e) /\ e.rev = 0 /\ Based(h, e.path, e.base) BY <1>1, <1>2, <1>3
<1>5. \A e, f \in out : e.path = f.path => e = f BY <1>1, <1>2
<1>6. ASSUME NEW p \in DOMAIN x.entries, x.entries[p].rev = 0 /\ x.entries[p].seq > pushed
      PROVE  \E e \in out : e.path = p /\ e.clock = x.entries[p].clock /\ e.body = x.entries[p].body
  <2>1. E(p) \in out BY <1>1, <1>6 DEF Q
  <2> QED BY <1>2, <2>1
<1> QED BY <1>4, <1>5, <1>6 DEF out

(* The session u and the manifest n after an announcement. *)
AnnouncementOf(x, s, m, out, keep, t, n, u) ==
  /\ out = proposals(x, s.pushed)
  /\ keep = (out = {} /\ s.acknowledged)
  /\ t = [s EXCEPT !.outgoing = out, !.pushThrough = x.seq, !.acknowledged = keep]
  /\ n = IF keep THEN m ELSE [gen |-> s.gen, members |-> out, applied |-> {}]
  /\ \/ s.pc = "announce" /\ u = [t EXCEPT !.pc = "pull"]
     \/ s.pc = "scan" /\ u = pushing(t, out)

LEMMA Announces ==
  ASSUME NEW h, Good(h), NEW x, Good(x), x.id # Host, NEW s, NEW k, NEW m, Client(h, x, s, k, m),
         NEW out, NEW keep, NEW t, NEW n, NEW u, AnnouncementOf(x, s, m, out, keep, t, n, u)
  PROVE  /\ Client(h, x, u, k, n)
         /\ \A rs : Full(h, x, s, k, rs) => Full(h, x, u, k, rs)
<1> USE DEF AnnouncementOf
<1>1. Session(s) /\ Cursor(k) /\ Follows(h, x, s) /\ Plan(h, m) /\ Pushes(h, x, s, k, m) BY DEF Client
<1>2. x.seq \in Nat /\ x.head \in Nat /\ h.head \in Nat /\ x.head <= h.head /\ \A i \in 1..x.head : x.journal[i] = h.journal[i]
  BY <1>1 DEF Good, Solid, Shape, Follows
<1>3. /\ \A e \in out : Record(e) /\ e.rev = 0 /\ Based(h, e.path, e.base)
      /\ \A e, f \in out : e.path = f.path => e = f
      /\ \A p \in DOMAIN x.entries : x.entries[p].rev = 0 /\ x.entries[p].seq > s.pushed =>
           \E e \in out : e.path = p /\ e.clock = x.entries[p].clock /\ e.body = x.entries[p].body
  BY <1>2, ProposalFacts
<1>4. s.acknowledged \in BOOLEAN /\ keep \in BOOLEAN /\ (keep => out = {}) /\ s.gen \in Nat
  <2>1. s.acknowledged \in BOOLEAN /\ s.gen \in Nat BY <1>1 DEF Session
  <2> QED BY <2>1
<1>5. t \in [pc : {s.pc}, pulled : {s.pulled}, pushed : {s.pushed}, after : Nat, upper : Nat, through : {s.through},
             todo : {s.todo}, outgoing : {out}, pushThrough : {x.seq}, requested : {s.requested},
             current : {s.current}, acknowledged : BOOLEAN, early : BOOLEAN, sent : BOOLEAN, gen : {s.gen}, ok : BOOLEAN]
      /\ t.early = s.early /\ t.acknowledged = keep
  <2> DEFINE v == [s EXCEPT !.outgoing = out, !.pushThrough = x.seq]
  <2>1. /\ v \in [pc : {s.pc}, pulled : {s.pulled}, pushed : {s.pushed}, after : Nat, upper : Nat, through : {s.through},
                  todo : {s.todo}, outgoing : {out}, pushThrough : {x.seq}, requested : {s.requested},
                  current : {s.current}, acknowledged : BOOLEAN, early : BOOLEAN, sent : BOOLEAN, gen : {s.gen}, ok : BOOLEAN]
        /\ v.early = s.early
    BY ONLY <1>1 DEF Session
  <2>2. t = [v EXCEPT !.acknowledged = keep] OBVIOUS
  <2> HIDE DEF v
  <2> QED BY ONLY <1>4, <2>1, <2>2
<1>6. /\ u.pc \in {"pull", "push"} /\ u.pushed = s.pushed /\ u.outgoing = out /\ u.pushThrough = x.seq
      /\ u.acknowledged = keep /\ u.gen = s.gen /\ Session(u) /\ s.pc # "idle"
      /\ \A rs : Full(h, x, s, k, rs) => Full(h, x, u, k, rs)
  <2>1. CASE s.pc = "announce" /\ u = [t EXCEPT !.pc = "pull"]
    <3>1. u \in [pc : {"pull"}, pulled : {s.pulled}, pushed : {s.pushed}, after : Nat, upper : Nat, through : {s.through},
                 todo : {s.todo}, outgoing : {out}, pushThrough : {x.seq}, requested : {s.requested},
                 current : {s.current}, acknowledged : BOOLEAN, early : BOOLEAN, sent : BOOLEAN, gen : {s.gen}, ok : BOOLEAN]
          /\ u.early = s.early /\ u.acknowledged = keep
      <4>1. u = [t EXCEPT !.pc = "pull"] BY <2>1
      <4> QED BY ONLY <1>5, <4>1
    <3>2. /\ u.pc = "pull" /\ u.pulled = s.pulled /\ u.pushed = s.pushed /\ u.through = s.through /\ u.todo = s.todo
          /\ u.outgoing = out /\ u.pushThrough = x.seq /\ u.requested = s.requested /\ u.gen = s.gen
      BY ONLY <3>1
    <3>3. Session(u)
      <4>1. s.pulled \in Nat /\ s.pushed \in Nat /\ s.through \in Nat /\ "pull" \in Phase BY <1>1 DEF Session, Phase
      <4>2. \A e \in u.todo \union u.outgoing : Record(e) BY <1>1, <1>3, <3>2 DEF Session
      <4>3. u.pc \notin {"commit", "send"} BY <3>2
      <4> QED BY ONLY <1>2, <1>4, <3>1, <4>1, <4>2, <4>3 DEF Session
    <3>4. \A rs : Full(h, x, s, k, rs) => Full(h, x, u, k, rs) BY <2>1, <3>1, <3>2 DEF Full, Pulls
    <3> QED BY <2>1, <3>1, <3>2, <3>3, <3>4
  <2>2. CASE s.pc = "scan" /\ u = pushing(t, out)
    <3> DEFINE w == [t EXCEPT !.pc = "push", !.todo = out]
               sent == out # {}
    <3>1. w \in [pc : {"push"}, pulled : {s.pulled}, pushed : {s.pushed}, after : Nat, upper : Nat, through : {s.through},
                 todo : {out}, outgoing : {out}, pushThrough : {x.seq}, requested : {s.requested},
                 current : {s.current}, acknowledged : BOOLEAN, early : BOOLEAN, sent : BOOLEAN, gen : {s.gen}, ok : BOOLEAN]
          /\ w.early = s.early /\ w.acknowledged = keep
      BY ONLY <1>5
    <3>2. u = [w EXCEPT !.sent = sent] /\ sent \in BOOLEAN BY <2>2 DEF pushing
    <3> HIDE DEF w, sent
    <3>3. u \in [pc : {"push"}, pulled : {s.pulled}, pushed : {s.pushed}, after : Nat, upper : Nat, through : {s.through},
                 todo : {out}, outgoing : {out}, pushThrough : {x.seq}, requested : {s.requested},
                 current : {s.current}, acknowledged : BOOLEAN, early : BOOLEAN, sent : BOOLEAN, gen : {s.gen}, ok : BOOLEAN]
          /\ u.early = s.early /\ u.acknowledged = keep
      BY ONLY <3>1, <3>2
    <3>4. /\ u.pc = "push" /\ u.pulled = s.pulled /\ u.pushed = s.pushed /\ u.through = s.through /\ u.todo = out
          /\ u.outgoing = out /\ u.pushThrough = x.seq /\ u.requested = s.requested /\ u.gen = s.gen
      BY ONLY <3>3
    <3>5. Session(u)
      <4>1. s.pulled \in Nat /\ s.pushed \in Nat /\ s.through \in Nat /\ "push" \in Phase BY <1>1 DEF Session, Phase
      <4>2. \A e \in u.todo \union u.outgoing : Record(e) BY <1>3, <3>4
      <4>3. u.pc \notin {"commit", "send"} BY <3>4
      <4> QED BY ONLY <1>2, <1>4, <3>3, <4>1, <4>2, <4>3 DEF Session
    <3>6. \A rs : Full(h, x, s, k, rs) => Full(h, x, u, k, rs) BY <2>2, <3>3, <3>4 DEF Full, Pulls
    <3> QED BY <2>2, <3>3, <3>4, <3>5, <3>6
  <2> QED BY <2>1, <2>2
<1>7. Plan(h, n)
  <2>1. CASE keep BY <1>1, <2>1
  <2>2. CASE ~keep
    <3>1. n = [gen |-> s.gen, members |-> out, applied |-> {}] BY <2>2
    <3>2. n.members = out /\ n.applied = {} /\ n = [gen |-> n.gen, members |-> n.members, applied |-> n.applied] BY ONLY <3>1
    <3> QED BY <1>3, <3>2 DEF Plan
  <2> QED BY <2>1, <2>2
<1>8. Follows(h, x, u) BY <1>1, <1>6 DEF Follows
<1>9. Pushes(h, x, u, k, n)
  <2>1. ASSUME NEW p \in DOMAIN x.entries
        PROVE  \/ x.entries[p].seq <= u.pushed \/ Decided(h, p, x.entries[p])
               \/ \E e \in u.outgoing : e.path = p /\ e.clock = x.entries[p].clock /\ e.body = x.entries[p].body
    <3>1. x.entries[p].seq \in Nat /\ s.pushed \in Nat BY <1>1 DEF Good, Solid, Entry, Session
    <3>2. CASE x.entries[p].rev # 0
      <4>1. Backs(x, p, x.entries[p]) BY <3>2 DEF Good, Solid
      <4>2. x.entries[p].rev \in 1..h.head
        <5>1. x.entries[p].rev \in 1..x.head BY <4>1 DEF Backs
        <5> QED BY <1>2, <5>1
      <4>3. h.journal[x.entries[p].rev].path = p /\ h.journal[x.entries[p].rev].clock = x.entries[p].clock
            /\ h.journal[x.entries[p].rev].body = x.entries[p].body
        BY <1>2, <4>1, BackedPath
      <4>4. Covers(x.entries[p].clock, x.entries[p].clock)
        <5>1. x.entries[p].clock \in Clock BY DEF Good, Solid, Entry
        <5> QED BY <5>1, CoversItself
      <4>5. Decided(h, p, x.entries[p]) BY <4>2, <4>3, <4>4 DEF Decided
      <4> QED BY <4>5
    <3>3. CASE x.entries[p].rev = 0 /\ x.entries[p].seq > s.pushed BY <1>3, <1>6, <3>3
    <3>4. CASE x.entries[p].seq <= s.pushed BY <1>6, <3>4
    <3> QED BY <3>1, <3>2, <3>3, <3>4
  <2>2. u.pushThrough <= x.seq /\ u.pc # "idle" BY <1>2, <1>6
  <2>3. u.acknowledged => u.outgoing = {} BY <1>4, <1>6
  <2>4. ~u.acknowledged /\ n.gen = u.gen => n.members = u.outgoing BY <1>6
  <2>5. u.pushed <= k.pushed BY <1>1, <1>6 DEF Pushes
  <2> QED BY <1>1, <2>1, <2>2, <2>3, <2>4, <2>5 DEF Pushes
<1> QED BY <1>1, <1>6, <1>7, <1>8, <1>9 DEF Client

-----------------------------------------------------------------------------
LEMMA Starts ==
  ASSUME NEW h, NEW x, NEW s, NEW k, NEW m, Client(h, x, s, k, m),
         NEW t, t = [Inactive(s.gen, FALSE) EXCEPT
                       !.pc = "rescan", !.pulled = k.pulled, !.pushed = k.pushed, !.after = k.pulled]
  PROVE  /\ Client(h, x, t, k, m)
         /\ \A rs : Full(h, x, s, k, rs) => Full(h, x, t, k, rs)
<1> DEFINE u == Inactive(s.gen, FALSE)
<1>1. s.gen \in Nat /\ k.pulled \in Nat /\ k.pushed \in Nat BY DEF Client, Session, Cursor
<1>2. /\ u \in [pc : {"idle"}, pulled : Nat, pushed : Nat, after : Nat, upper : {0}, through : Nat,
                todo : {{}}, outgoing : {{}}, pushThrough : Nat, requested : {{}},
                current : {NoRecord}, acknowledged : BOOLEAN, early : BOOLEAN, sent : BOOLEAN, gen : Nat, ok : BOOLEAN]
      /\ u.early = FALSE
  BY <1>1 DEF Inactive
<1> HIDE DEF u
<1> DEFINE v == [u EXCEPT !.pc = "rescan", !.pulled = k.pulled]
<1>3. /\ v \in [pc : {"rescan"}, pulled : {k.pulled}, pushed : Nat, after : Nat, upper : {0}, through : Nat,
                todo : {{}}, outgoing : {{}}, pushThrough : Nat, requested : {{}},
                current : {NoRecord}, acknowledged : BOOLEAN, early : BOOLEAN, sent : BOOLEAN, gen : Nat, ok : BOOLEAN]
      /\ v.early = FALSE
  BY ONLY <1>2
<1>4. t = [v EXCEPT !.pushed = k.pushed, !.after = k.pulled] BY DEF u
<1> HIDE DEF v
<1>5. /\ t \in [pc : {"rescan"}, pulled : {k.pulled}, pushed : {k.pushed}, after : {k.pulled}, upper : {0}, through : Nat,
                todo : {{}}, outgoing : {{}}, pushThrough : Nat, requested : {{}},
                current : {NoRecord}, acknowledged : BOOLEAN, early : BOOLEAN, sent : BOOLEAN, gen : Nat, ok : BOOLEAN]
      /\ t.early = FALSE
  BY ONLY <1>3, <1>4
<1>6. /\ t.pc = "rescan" /\ t.pulled = k.pulled /\ t.pushed = k.pushed /\ t.after = k.pulled /\ t.upper = 0
      /\ t.todo = {} /\ t.outgoing = {} /\ t.requested = {} /\ t.early = FALSE
  BY ONLY <1>5
<1>7. Session(t)
  <2>1. "rescan" \in Phase BY DEF Phase
  <2>2. \A f \in t.todo \union t.outgoing : Record(f) BY <1>6
  <2>3. t.pc \notin {"commit", "send"} BY <1>6
  <2> QED BY ONLY <1>1, <1>5, <2>1, <2>2, <2>3 DEF Session
<1>8. t.pc \notin Announced BY <1>6 DEF Announced
<1>9. k.pushed <= k.pushed BY <1>1
<1>10. Client(h, x, t, k, m) BY <1>6, <1>7, <1>8, <1>9 DEF Client, Follows, Pushes
<1>11. ASSUME NEW rs, Full(h, x, s, k, rs) PROVE Full(h, x, t, k, rs) BY <1>6, <1>11 DEF Full, Pulls
<1> QED BY <1>10, <1>11

(* Bytes of one entry of the queue are on their way. *)
TransferOf(s, e, pc, t) ==
  /\ e \in s.todo /\ ((s.pc = "pull" /\ pc = "commit") \/ (s.pc = "push" /\ pc = "send"))
  /\ t = [s EXCEPT !.pc = pc, !.current = e]

LEMMA Transfers ==
  ASSUME NEW h, NEW x, NEW s, NEW k, NEW m, Client(h, x, s, k, m), NEW e, NEW pc, NEW t, TransferOf(s, e, pc, t)
  PROVE  /\ Client(h, x, t, k, m)
         /\ \A rs : Full(h, x, s, k, rs) => Full(h, x, t, k, rs)
<1> USE DEF TransferOf
<1>1. Session(s) BY DEF Client
<1>2. /\ t \in [pc : {pc}, pulled : {s.pulled}, pushed : {s.pushed}, after : Nat, upper : Nat, through : {s.through},
                todo : {s.todo}, outgoing : {s.outgoing}, pushThrough : {s.pushThrough}, requested : {s.requested},
                current : {e}, acknowledged : BOOLEAN, early : BOOLEAN, sent : BOOLEAN, gen : {s.gen}, ok : BOOLEAN]
      /\ t.early = s.early /\ t.acknowledged = s.acknowledged
  <2>1. t = [s EXCEPT !.pc = pc, !.current = e] OBVIOUS
  <2> QED BY ONLY <1>1, <2>1 DEF Session
<1>3. /\ t.pc = pc /\ t.pulled = s.pulled /\ t.pushed = s.pushed /\ t.through = s.through /\ t.gen = s.gen
      /\ t.todo = s.todo /\ t.outgoing = s.outgoing /\ t.pushThrough = s.pushThrough /\ t.requested = s.requested /\ t.current = e
  BY ONLY <1>2
<1>4. Session(t)
  <2>1. pc \in Phase /\ s.pulled \in Nat /\ s.pushed \in Nat /\ s.through \in Nat /\ s.pushThrough \in Nat /\ s.gen \in Nat
    BY <1>1 DEF Phase, Session
  <2>2. \A f \in t.todo \union t.outgoing : Record(f) BY <1>1, <1>3 DEF Session
  <2>3. t.current \in t.todo BY <1>3
  <2> QED BY ONLY <1>2, <2>1, <2>2, <2>3 DEF Session
<1>5. /\ pc \in {"commit", "send"} /\ s.pc \in Announced /\ pc \in Announced /\ pc # "journal" /\ s.pc # "idle"
      /\ pc \in {"journal", "announce", "pull", "commit"} => s.pc = "pull"
  BY DEF Announced
<1>6. Client(h, x, t, k, m) BY <1>2, <1>3, <1>4, <1>5 DEF Client, Follows, Pushes
<1>7. ASSUME NEW rs, Full(h, x, s, k, rs) PROVE Full(h, x, t, k, rs) BY <1>2, <1>3, <1>5, <1>7 DEF Full, Pulls
<1> QED BY <1>6, <1>7

(* Uploads before the downloads, under MetadataFirst. *)
LEMMA PushesEarly ==
  ASSUME NEW h, NEW x, NEW s, NEW k, NEW m, Client(h, x, s, k, m), s.pc = "pull", NEW new, new \subseteq s.outgoing,
         NEW t, t = [s EXCEPT !.pc = "push", !.todo = new, !.early = TRUE]
  PROVE  Client(h, x, t, k, m)
<1>1. Session(s) BY DEF Client
<1> DEFINE v == [s EXCEPT !.pc = "push", !.todo = new]
<1>2. /\ v \in [pc : {"push"}, pulled : {s.pulled}, pushed : {s.pushed}, after : Nat, upper : Nat, through : Nat,
                todo : {new}, outgoing : {s.outgoing}, pushThrough : {s.pushThrough}, requested : {s.requested},
                current : {s.current}, acknowledged : BOOLEAN, early : BOOLEAN, sent : BOOLEAN, gen : {s.gen}, ok : BOOLEAN]
      /\ v.acknowledged = s.acknowledged
  BY ONLY <1>1 DEF Session
<1>3. t = [v EXCEPT !.early = TRUE] OBVIOUS
<1> HIDE DEF v
<1>4. /\ t \in [pc : {"push"}, pulled : {s.pulled}, pushed : {s.pushed}, after : Nat, upper : Nat, through : Nat,
                todo : {new}, outgoing : {s.outgoing}, pushThrough : {s.pushThrough}, requested : {s.requested},
                current : {s.current}, acknowledged : BOOLEAN, early : BOOLEAN, sent : BOOLEAN, gen : {s.gen}, ok : BOOLEAN]
      /\ t.acknowledged = s.acknowledged
  BY ONLY <1>2, <1>3
<1>5. /\ t.pc = "push" /\ t.pulled = s.pulled /\ t.pushed = s.pushed /\ t.gen = s.gen
      /\ t.todo = new /\ t.outgoing = s.outgoing /\ t.pushThrough = s.pushThrough
  BY ONLY <1>4
<1>6. Session(t)
  <2>1. "push" \in Phase /\ s.pulled \in Nat /\ s.pushed \in Nat /\ s.pushThrough \in Nat /\ s.gen \in Nat
    BY <1>1 DEF Phase, Session
  <2>2. \A f \in t.todo \union t.outgoing : Record(f) BY <1>1, <1>5 DEF Session
  <2>3. t.pc \notin {"commit", "send"} BY <1>5
  <2> QED BY ONLY <1>4, <2>1, <2>2, <2>3 DEF Session
<1>7. s.pc \in Announced /\ t.pc \in Announced BY <1>5 DEF Announced
<1> QED BY <1>4, <1>5, <1>6, <1>7 DEF Client, Follows, Pushes

(* The end of the downloads: the pull cursor advances. *)
PullEndOf(s, k, t, j) ==
  /\ s.pc = "pull" /\ s.todo = {} /\ t = [s EXCEPT !.pc = "scan", !.pulled = s.through]
  /\ j = [k EXCEPT !.pulled = IF k.pulled > s.through THEN k.pulled ELSE s.through]

LEMMA PullEnds ==
  ASSUME NEW h, Good(h), NEW x, NEW s, NEW k, NEW m, Client(h, x, s, k, m), NEW t, NEW j, PullEndOf(s, k, t, j)
  PROVE  /\ Client(h, x, t, j, m)
         /\ \A rs : Full(h, x, s, k, rs) => Full(h, x, t, j, rs)
<1> USE DEF PullEndOf
<1>1. Session(s) /\ Cursor(k) BY DEF Client
<1>2. /\ t \in [pc : {"scan"}, pulled : {s.through}, pushed : {s.pushed}, after : Nat, upper : Nat, through : Nat,
                todo : {s.todo}, outgoing : {s.outgoing}, pushThrough : Nat, requested : {s.requested},
                current : {s.current}, acknowledged : BOOLEAN, early : BOOLEAN, sent : BOOLEAN, gen : Nat, ok : BOOLEAN]
      /\ t.early = s.early
  <2>1. t = [s EXCEPT !.pc = "scan", !.pulled = s.through] OBVIOUS
  <2> QED BY ONLY <1>1, <2>1 DEF Session
<1>3. /\ t.pc = "scan" /\ t.pulled = s.through /\ t.pushed = s.pushed
      /\ t.todo = s.todo /\ t.outgoing = s.outgoing /\ t.requested = s.requested
  BY ONLY <1>2
<1>4. s.through \in Nat /\ s.pushed \in Nat /\ k.pulled \in Nat /\ k.pushed \in Nat BY <1>1 DEF Session, Cursor
<1>5. Session(t)
  <2>1. "scan" \in Phase BY DEF Phase
  <2>2. \A f \in t.todo \union t.outgoing : Record(f) BY <1>1, <1>3 DEF Session
  <2>3. t.pc \notin {"commit", "send"} BY <1>3
  <2> QED BY ONLY <1>2, <1>4, <2>1, <2>2, <2>3 DEF Session
<1>6. /\ j \in [pulled : Nat, pushed : {k.pushed}] /\ j.pushed = k.pushed
      /\ j.pulled = IF k.pulled > s.through THEN k.pulled ELSE s.through
  BY <1>1, <1>4 DEF Cursor
<1>7. Cursor(j) BY <1>4, <1>6 DEF Cursor
<1>8. t.pc \notin Announced /\ t.pc # "journal" BY <1>3 DEF Announced
<1>9. Client(h, x, t, j, m) BY <1>3, <1>5, <1>6, <1>7, <1>8 DEF Client, Follows, Pushes
<1>10. ASSUME NEW rs, Full(h, x, s, k, rs) PROVE Full(h, x, t, j, rs)
  <2>1. Pulls(h, x, s, k) /\ rs = {} BY <1>10 DEF Full
  <2>2. k.pulled <= s.through /\ Paged(h, x, s.todo, s.through, s.through) /\ s.requested = {} /\ ~s.early BY <2>1 DEF Pulls
  <2>3. j.pulled = s.through BY <1>4, <1>6, <2>2
  <2>4. ASSUME NEW n \in 1..s.through PROVE Took(h, x, n)
    <3> DEFINE l == LatestUpTo(h, h.journal[n].path, s.through)
    <3>1. h.head \in Nat BY DEF Good, Solid, Shape
    <3>2. l = 0 \/ (l \in 1..h.head /\ l <= s.through) BY <1>4, <3>1, LatestFacts
    <3> HIDE DEF l
    <3>3. ~(l > s.through) BY <1>4, <3>1, <3>2
    <3>4. ~Queued(h, s.todo, n) BY DEF Queued
    <3> QED BY <2>2, <3>3, <3>4 DEF Paged, l
  <2>5. s.through <= h.head BY <2>2 DEF Paged
  <2>6. Pulls(h, x, t, j) BY <1>2, <1>3, <2>2, <2>3, <2>4, <2>5 DEF Pulls
  <2> QED BY <2>1, <2>6 DEF Full
<1> QED BY <1>9, <1>10

(* A decision is entered in the manifest. *)
LEMMA Applies ==
  ASSUME NEW h, NEW x, NEW s, NEW k, NEW m, Client(h, x, s, k, m), NEW e \in m.members, Decided(h, e.path, e),
         NEW n, n = [m EXCEPT !.applied = @ \union {e.path}]
  PROVE  Client(h, x, s, k, n)
<1>1. Plan(h, m) BY DEF Client
<1>2. n.gen = m.gen /\ n.members = m.members /\ n.applied = m.applied \union {e.path}
      /\ n = [gen |-> n.gen, members |-> n.members, applied |-> n.applied]
  <2> DEFINE a == m.applied \union {e.path}
  <2>1. m = [gen |-> m.gen, members |-> m.members, applied |-> m.applied] BY <1>1 DEF Plan
  <2>2. n = [m EXCEPT !.applied = a] OBVIOUS
  <2> HIDE DEF a
  <2>3. n = [gen |-> m.gen, members |-> m.members, applied |-> a] BY ONLY <2>1, <2>2
  <2> QED BY ONLY <2>3 DEF a
<1>3. \A f \in n.members : f.path \in n.applied => Decided(h, f.path, f) BY <1>1, <1>2 DEF Plan
<1>4. Plan(h, n) BY <1>1, <1>2, <1>3 DEF Plan
<1>5. Pushes(h, x, s, k, n) BY <1>2 DEF Client, Pushes
<1> QED BY <1>4, <1>5 DEF Client

(* The end of the uploads, with the receipt: the push cursor advances. *)
PushEndOf(s, k, m, j) ==
  /\ s.pc = "push" /\ (s.acknowledged \/ (m.gen = s.gen /\ m.applied = {e.path : e \in m.members}))
  /\ j = [k EXCEPT !.pushed = IF k.pushed > s.pushThrough THEN k.pushed ELSE s.pushThrough]

LEMMA PushEnds ==
  ASSUME NEW h, NEW x, Good(x), NEW s, NEW k, NEW m, Client(h, x, s, k, m), NEW j, PushEndOf(s, k, m, j)
  PROVE  /\ Client(h, x, s, j, m) /\ s.pushThrough <= j.pushed /\ j.pulled = k.pulled
         /\ \A rs : Full(h, x, s, k, rs) => Full(h, x, s, j, rs)
<1> USE DEF PushEndOf
<1>1. Session(s) /\ Cursor(k) /\ Plan(h, m) /\ Pushes(h, x, s, k, m) BY DEF Client
<1>2. s.pushThrough \in Nat /\ s.pushed \in Nat /\ k.pushed \in Nat /\ k.pulled \in Nat /\ x.seq \in Nat
  BY <1>1 DEF Session, Cursor, Good, Solid, Shape
<1>3. /\ Cursor(j) /\ j.pulled = k.pulled
      /\ j.pushed = IF k.pushed > s.pushThrough THEN k.pushed ELSE s.pushThrough
  BY <1>1, <1>2 DEF Cursor
<1>4. j.pushed \in Nat /\ s.pushThrough <= j.pushed /\ k.pushed <= j.pushed /\ (j.pushed = k.pushed \/ j.pushed = s.pushThrough)
  BY <1>2, <1>3
<1>5. s.pc \in Announced /\ s.pc # "idle" BY DEF Announced
<1>6. s.pushThrough <= x.seq /\ k.pushed <= x.seq /\ s.pushed <= k.pushed BY <1>1, <1>5 DEF Pushes
<1>7. ASSUME NEW p \in DOMAIN x.entries, x.entries[p].seq <= j.pushed PROVE Decided(h, p, x.entries[p])
  <2>1. x.entries[p].seq \in Nat BY DEF Good, Solid, Entry
  <2>2. CASE x.entries[p].seq <= k.pushed BY <1>1, <2>2 DEF Pushes
  <2>3. CASE ~(x.entries[p].seq <= k.pushed)
    <3>1. x.entries[p].seq <= s.pushThrough /\ ~(x.entries[p].seq <= s.pushed)
      BY <1>2, <1>4, <1>6, <1>7, <2>1, <2>3
    <3>2. \/ Decided(h, p, x.entries[p])
          \/ \E e \in s.outgoing : e.path = p /\ e.clock = x.entries[p].clock /\ e.body = x.entries[p].body
      BY <1>1, <1>5, <3>1 DEF Pushes
    <3>3. ASSUME NEW e \in s.outgoing, e.path = p, e.clock = x.entries[p].clock, e.body = x.entries[p].body PROVE Decided(h, p, x.entries[p])
      <4>1. ~s.acknowledged BY <1>1, <1>5, <3>3 DEF Pushes
      <4>2. e \in m.members /\ e.path \in m.applied BY <1>1, <1>5, <3>3, <4>1 DEF Pushes
      <4> QED BY <1>1, <3>3, <4>2 DEF Plan, Decided
    <3> QED BY <3>2, <3>3
  <2> QED BY <2>2, <2>3
<1>8. s.pushed <= j.pushed /\ j.pushed <= x.seq BY <1>2, <1>3, <1>4, <1>6
<1>9. Pushes(h, x, s, j, m) BY <1>1, <1>7, <1>8 DEF Pushes
<1>10. Client(h, x, s, j, m) BY <1>3, <1>9 DEF Client
<1>11. \A rs : Full(h, x, s, k, rs) => Full(h, x, s, j, rs) BY <1>3 DEF Full, Pulls
<1> QED BY <1>3, <1>4, <1>10, <1>11

-----------------------------------------------------------------------------
(***************************************************************************)
(* The system.  A step of one mirror c, of the authority or of both keeps  *)
(* the invariant when it keeps what concerns c.                            *)
(***************************************************************************)
Parts ==
  /\ dev' = [d \in Device |-> dev'[d]]
  /\ peers' = [d \in Clients |-> peers'[d]] /\ session' = [d \in Clients |-> session'[d]]
  /\ manifests' = [d \in Clients |-> manifests'[d]] /\ requests' = [d \in Clients |-> requests'[d]]
  /\ edits' \in Nat /\ metadataFirst' = metadataFirst

(* The other mirrors, against an authority whose journal may have grown. *)
Elsewhere(d) ==
  /\ dev'[d] = dev[d] /\ peers'[d] = peers[d] /\ session'[d] = session[d] /\ requests'[d] = requests[d]
  /\ manifests'[d] = manifests[d] \/ manifests'[d] = NoManifest

Here(c) ==
  /\ Good(dev'[c]) /\ dev'[c].id = c
  /\ Client(dev'[Host], dev'[c], session'[c], peers'[c], manifests'[c])
  /\ ~metadataFirst => Full(dev'[Host], dev'[c], session'[c], peers'[c], requests'[c])

LEMMA Frame ==
  ASSUME IInv, Parts, Good(dev'[Host]), Extends(host, dev'[Host]),
         \A d \in Clients : Elsewhere(d) \/ Here(d)
  PROVE  IInv'
<1> DEFINE g == dev'[Host]
<1>1. Tables' BY DEF Parts, Tables, IInv
<1>2. Host \in Device /\ Clients \subseteq Device /\ Good(host) /\ host.id = Host BY DEF Device, IInv, Devices, host
<1>3. g.id = Host BY <1>2 DEF Extends
<1>4. ASSUME NEW d \in Clients
      PROVE  /\ Good(dev'[d]) /\ dev'[d].id = d
             /\ Client(g, dev'[d], session'[d], peers'[d], manifests'[d])
             /\ ~metadataFirst => Full(g, dev'[d], session'[d], peers'[d], requests'[d])
  <2>1. CASE Here(d) BY <2>1 DEF Here
  <2>2. CASE Elsewhere(d)
    <3>1. Good(dev[d]) /\ dev[d].id = d /\ Client(host, dev[d], session[d], peers[d], manifests[d])
      BY <1>2 DEF IInv, Devices, Mirrors
    <3>2. Client(g, dev[d], session[d], peers[d], manifests[d]) BY <1>2, <3>1, AuthorityMoves
    <3>3. Client(g, dev[d], session[d], peers[d], NoManifest) BY <3>2, Forgotten
    <3>4. ~metadataFirst => Full(g, dev[d], session[d], peers[d], requests[d])
      <4>1. Session(session[d]) /\ Cursor(peers[d]) BY <3>1 DEF Client
      <4>2. ~metadataFirst => Full(host, dev[d], session[d], peers[d], requests[d]) BY DEF IInv, FullMirrors
      <4> QED BY <1>2, <4>1, <4>2, AuthorityMovesFull
    <3> QED BY <2>2, <3>1, <3>2, <3>3, <3>4 DEF Elsewhere
  <2> QED BY <2>1, <2>2
<1>5. Devices'
  <2>1. \A d \in Device : d = Host \/ d \in Clients BY DEF Device
  <2> QED BY <1>3, <1>4, <2>1 DEF Devices
<1>6. Mirrors' BY <1>4 DEF Mirrors, host
<1>7. FullMirrors' BY <1>4 DEF FullMirrors, host, Parts
<1> QED BY <1>1, <1>5, <1>6, <1>7 DEF IInv

LEMMA Updated ==
  ASSUME NEW D, NEW f, f = [d \in D |-> f[d]], NEW c \in D, NEW g, g = f \/ \E v : g = [f EXCEPT ![c] = v]
  PROVE  g = [d \in D |-> g[d]] /\ \A d \in D : d # c => g[d] = f[d]
<1>1. CASE g = f BY <1>1
<1>2. CASE \E v : g = [f EXCEPT ![c] = v]
  <2>1. PICK v : g = [f EXCEPT ![c] = v] BY <1>2
  <2>2. DOMAIN f = D OBVIOUS
  <2> QED BY <2>1, <2>2
<1> QED BY <1>1, <1>2

(* What the invariant says about one mirror. *)
LEMMA About ==
  ASSUME IInv, NEW c \in Clients
  PROVE  /\ Good(host) /\ host.id = Host /\ Good(dev[c]) /\ dev[c].id = c /\ c # Host /\ dev[c].id # Host
         /\ Client(host, dev[c], session[c], peers[c], manifests[c]) /\ Session(session[c]) /\ Cursor(peers[c])
         /\ ~metadataFirst => Full(host, dev[c], session[c], peers[c], requests[c])
         /\ Extends(host, host) /\ c \in Device /\ Host \in Device
<1>1. c \in Device /\ Host \in Device /\ c # Host BY HostAssumption DEF Device
<1>2. Good(host) /\ host.id = Host /\ Good(dev[c]) /\ dev[c].id = c BY <1>1 DEF IInv, Devices, host
<1>3. Client(host, dev[c], session[c], peers[c], manifests[c]) BY DEF IInv, Mirrors
<1>4. ~metadataFirst => Full(host, dev[c], session[c], peers[c], requests[c]) BY DEF IInv, FullMirrors
<1>5. Extends(host, host)
  <2>1. host.head \in Nat BY <1>2 DEF Good, Solid, Shape
  <2> QED BY <2>1 DEF Extends
<1> QED BY <1>1, <1>2, <1>3, <1>4, <1>5 DEF Client

(* A step of a round of c. *)
LEMMA OneMirror ==
  ASSUME IInv, metadataFirst' = metadataFirst, edits' = edits, NEW c \in Clients,
         dev' = dev \/ (\E v : dev' = [dev EXCEPT ![c] = v]) \/ (\E v : dev' = [dev EXCEPT ![Host] = v])
           \/ \E v, w : dev' = [dev EXCEPT ![c] = v, ![Host] = w],
         peers' = peers \/ \E v : peers' = [peers EXCEPT ![c] = v],
         session' = session \/ \E v : session' = [session EXCEPT ![c] = v],
         \/ manifests' = manifests \/ \E v : manifests' = [manifests EXCEPT ![c] = v]
         \/ manifests' = [d \in Clients |-> NoManifest],
         requests' = requests \/ \E v : requests' = [requests EXCEPT ![c] = v],
         Good(dev'[Host]), Extends(host, dev'[Host]), Here(c)
  PROVE  IInv'
<1>1. /\ dev = [d \in Device |-> dev[d]] /\ edits \in Nat
      /\ peers = [d \in Clients |-> peers[d]] /\ session = [d \in Clients |-> session[d]]
      /\ manifests = [d \in Clients |-> manifests[d]] /\ requests = [d \in Clients |-> requests[d]]
  BY DEF IInv, Tables
<1>2. c \in Device /\ Host \in Device /\ c # Host /\ Clients \subseteq Device /\ Host \notin Clients
  BY HostAssumption DEF Device
<1>3. dev' = [d \in Device |-> dev'[d]] /\ \A d \in Clients : d # c => dev'[d] = dev[d]
  <2>1. CASE dev' = dev BY <1>1, <2>1
  <2>2. CASE \E v : dev' = [dev EXCEPT ![c] = v] BY <1>1, <1>2, <2>2, Updated
  <2>3. CASE \E v : dev' = [dev EXCEPT ![Host] = v]
    <3>1. dev' = [d \in Device |-> dev'[d]] /\ \A d \in Device : d # Host => dev'[d] = dev[d] BY <1>1, <1>2, <2>3, Updated
    <3> QED BY <1>2, <3>1
  <2>4. CASE \E v, w : dev' = [dev EXCEPT ![c] = v, ![Host] = w]
    <3>1. PICK v, w : dev' = [dev EXCEPT ![c] = v, ![Host] = w] BY <2>4
    <3> DEFINE f == [dev EXCEPT ![c] = v]
    <3>2. f = [d \in Device |-> f[d]] /\ \A d \in Device : d # c => f[d] = dev[d] BY <1>1, <1>2, Updated
    <3>3. dev' = [f EXCEPT ![Host] = w] BY <3>1
    <3> HIDE DEF f
    <3>4. dev' = [d \in Device |-> dev'[d]] /\ \A d \in Device : d # Host => dev'[d] = f[d] BY <1>2, <3>2, <3>3, Updated
    <3> QED BY <1>2, <3>2, <3>4
  <2> QED BY <2>1, <2>2, <2>3, <2>4
<1>4. peers' = [d \in Clients |-> peers'[d]] /\ \A d \in Clients : d # c => peers'[d] = peers[d] BY <1>1, Updated
<1>5. session' = [d \in Clients |-> session'[d]] /\ \A d \in Clients : d # c => session'[d] = session[d] BY <1>1, Updated
<1>6. requests' = [d \in Clients |-> requests'[d]] /\ \A d \in Clients : d # c => requests'[d] = requests[d] BY <1>1, Updated
<1>7. /\ manifests' = [d \in Clients |-> manifests'[d]]
      /\ \A d \in Clients : d # c => manifests'[d] = manifests[d] \/ manifests'[d] = NoManifest
  <2>1. CASE manifests' = manifests \/ \E v : manifests' = [manifests EXCEPT ![c] = v] BY <1>1, <2>1, Updated
  <2>2. CASE manifests' = [d \in Clients |-> NoManifest] BY <2>2
  <2> QED BY <2>1, <2>2
<1>8. Parts BY <1>1, <1>3, <1>4, <1>5, <1>6, <1>7 DEF Parts
<1>9. \A d \in Clients : Elsewhere(d) \/ Here(d) BY <1>3, <1>4, <1>5, <1>6, <1>7 DEF Elsewhere
<1> QED BY <1>8, <1>9, Frame

(* Only the session of c changes. *)
LEMMA OnlySession ==
  ASSUME IInv, metadataFirst' = metadataFirst, NEW c \in Clients, NEW t, To(c, t),
         UNCHANGED <<dev, peers, manifests, requests, edits>>,
         Client(host, dev[c], t, peers[c], manifests[c]),
         ~metadataFirst => Full(host, dev[c], t, peers[c], requests[c])
  PROVE  IInv'
<1>1. session' = [session EXCEPT ![c] = t] /\ session'[c] = t BY DEF To, IInv, Tables
<1>2. dev'[Host] = host BY DEF host
<1>3. Here(c) BY <1>1, <1>2, About DEF Here
<1> QED BY <1>1, <1>2, <1>3, About, OneMirror

(* The device and the session of c change. *)
LEMMA MirrorSession ==
  ASSUME IInv, metadataFirst' = metadataFirst, NEW c \in Clients, NEW y, Local(c, y), NEW t, To(c, t),
         UNCHANGED <<peers, manifests, edits>>, requests' = requests \/ \E v : requests' = [requests EXCEPT ![c] = v],
         Good(y), y.id = c, Client(host, y, t, peers[c], manifests[c]),
         ~metadataFirst => Full(host, y, t, peers[c], requests'[c])
  PROVE  IInv'
<1>1. session' = [session EXCEPT ![c] = t] /\ session'[c] = t BY DEF To, IInv, Tables
<1>2. dev' = [dev EXCEPT ![c] = y] BY DEF Local
<1>3. dev'[c] = y /\ dev'[Host] = host BY <1>2, About DEF IInv, Tables, host
<1>4. Here(c) BY <1>1, <1>3, About DEF Here
<1> QED BY <1>1, <1>2, <1>3, <1>4, About, OneMirror

(* The authority changes, with what c and it know of each other. *)
LEMMA AuthoritySession ==
  ASSUME IInv, metadataFirst' = metadataFirst, NEW c \in Clients, NEW g, Local(Host, g),
         session' = session \/ \E v : session' = [session EXCEPT ![c] = v],
         UNCHANGED <<peers, requests, edits>>,
         \/ manifests' = manifests \/ \E v : manifests' = [manifests EXCEPT ![c] = v]
         \/ manifests' = [d \in Clients |-> NoManifest],
         Good(g), Extends(host, g), Client(g, dev[c], session'[c], peers[c], manifests'[c]),
         ~metadataFirst => Full(g, dev[c], session'[c], peers[c], requests[c])
  PROVE  IInv'
<1>1. dev' = [dev EXCEPT ![Host] = g] BY DEF Local
<1>2. dev'[c] = dev[c] /\ dev'[Host] = g BY <1>1, About DEF IInv, Tables
<1>3. Here(c) BY <1>2, About DEF Here
<1> QED BY <1>1, <1>2, <1>3, OneMirror

-----------------------------------------------------------------------------
(* The steps of a round, one by one. *)
LEMMA FinishStep ==
  ASSUME IInv, metadataFirst' = metadataFirst, NEW c \in Clients, Finish(c),
         UNCHANGED <<dev, peers, manifests, requests, edits>>
  PROVE  IInv'
<1> DEFINE t == Inactive(session[c].gen, FALSE)
<1>1. To(c, t) BY DEF Finish
<1>2. session[c].gen \in Nat BY About DEF Session
<1>3. FALSE \in BOOLEAN OBVIOUS
<1>4. Client(host, dev[c], t, peers[c], manifests[c]) BY <1>2, <1>3, About, Ends
<1>5. ~metadataFirst => Full(host, dev[c], t, peers[c], requests[c]) BY <1>2, <1>3, About, Ends
<1> HIDE DEF t
<1> QED BY <1>1, <1>4, <1>5, OnlySession

LEMMA StartStep ==
  ASSUME IInv, metadataFirst' = metadataFirst, NEW c \in Clients, Start(c)
  PROVE  IInv'
<1> DEFINE t == [Inactive(session[c].gen, FALSE) EXCEPT
                   !.pc = "rescan", !.pulled = peers[c].pulled, !.pushed = peers[c].pushed, !.after = peers[c].pulled]
<1>1. To(c, t) /\ UNCHANGED <<dev, peers, manifests, requests, edits>> BY DEF Start, history
<1>2. Client(host, dev[c], t, peers[c], manifests[c]) BY About, Starts
<1>3. ~metadataFirst => Full(host, dev[c], t, peers[c], requests[c]) BY About, Starts
<1> HIDE DEF t
<1> QED BY <1>1, <1>2, <1>3, OnlySession

LEMMA ScanFailedStep ==
  ASSUME IInv, metadataFirst' = metadataFirst, NEW c \in Clients, ScanFailed(c)
  PROVE  IInv'
<1>1. Finish(c) /\ UNCHANGED <<dev, peers, manifests, requests, edits>> BY DEF ScanFailed, history
<1> QED BY <1>1, FinishStep

LEMMA ChangesPageStep ==
  ASSUME IInv, metadataFirst' = metadataFirst, NEW c \in Clients, ChangesPage(c)
  PROVE  IInv'
<1> DEFINE s     == session[c]
           limit == IF s.upper = 0 THEN host.head ELSE s.upper
           rows  == firstRows(changes(s.after, limit))
           last  == CHOOSE n \in rows : \A m \in rows : m <= n
           more  == Cardinality(rows) = PageLimit /\ last < limit
           t     == [s EXCEPT !.through = limit, !.todo = @ \union {projected(host, n) : n \in rows}]
           u     == IF more THEN [t EXCEPT !.pc = "changes", !.after = last, !.upper = limit]
                            ELSE [t EXCEPT !.pc = "journal", !.after = 0, !.upper = 0]
<1>1. /\ s.pc \in {"changes", "rescan"} /\ To(c, u)
      /\ UNCHANGED <<dev, peers, manifests, requests, edits>>
  BY DEF ChangesPage, history
<1>2. rows = firstRows(Rows(host, s.after, limit)) BY DEF changes, Rows
<1>3. rows # {} => last \in rows /\ \A n \in rows : n <= last
  <2>1. host.head \in Nat BY About DEF Good, Solid, Shape
  <2>2. Rows(host, s.after, limit) \subseteq 1..host.head BY DEF Rows
  <2> HIDE DEF rows, limit
  <2>3. rows # {} => \E n \in rows : \A m \in rows : m <= n BY <1>2, <2>1, <2>2, PageRows
  <2> QED BY <2>3
<1>4. Client(host, dev[c], s, peers[c], manifests[c]) /\ Good(host)
      /\ (~metadataFirst => Full(host, dev[c], s, peers[c], requests[c]))
  BY About
<1>5. u = IF Cardinality(rows) = PageLimit /\ last < limit
            THEN [t EXCEPT !.pc = "changes", !.after = last, !.upper = limit]
            ELSE [t EXCEPT !.pc = "journal", !.after = 0, !.upper = 0]
  OBVIOUS
<1>6. limit = IF s.upper = 0 THEN host.head ELSE s.upper OBVIOUS
<1>7. t = [s EXCEPT !.through = limit, !.todo = @ \union {projected(host, n) : n \in rows}] OBVIOUS
<1> HIDE DEF u, t, more, last, rows, limit, s
<1>8. Client(host, dev[c], u, peers[c], manifests[c])
      /\ \A rs : Full(host, dev[c], s, peers[c], rs) => Full(host, dev[c], u, peers[c], rs)
  <2>1. PageOf(host, s, limit, rows, last, t, u) BY <1>1, <1>2, <1>3, <1>5, <1>6, <1>7 DEF PageOf
  <2> QED BY <1>4, <2>1, PageTaken
<1>9. ~metadataFirst => Full(host, dev[c], u, peers[c], requests[c]) BY <1>4, <1>8
<1> QED BY <1>1, <1>8, <1>9, OnlySession

LEMMA JournalPageStep ==
  ASSUME IInv, metadataFirst' = metadataFirst, NEW c \in Clients, JournalPage(c)
  PROVE  IInv'
<1> DEFINE s     == session[c]
           d     == dev[c]
           limit == IF s.upper = 0 THEN host.head ELSE s.upper
           next  == IF d.head + PageLimit < limit THEN d.head + PageLimit ELSE limit
           new   == accept(d, next)
           ok    == \A n \in d.head + 1 .. next : acceptable(new, host.journal[n], n - 1)
           kept  == {r \in requests[c] : valid(new, r)}
           paths == {r[1] : r \in kept}
           extra == {projected(new, object(new, p)) :
                       p \in {q \in paths : ~resident(new, q) /\ \A e \in s.todo : e.path # q}}
           t     == [s EXCEPT !.pc = "announce", !.upper = 0, !.requested = paths, !.todo = @ \union extra]
<1>1. /\ s.pc = "journal"
      /\ \/ Finish(c) /\ UNCHANGED <<dev, requests>>
         \/ /\ Local(c, new)
            /\ \/ To(c, [s EXCEPT !.upper = limit]) /\ UNCHANGED requests
               \/ To(c, t) /\ requests' = [requests EXCEPT ![c] = kept]
      /\ UNCHANGED <<peers, manifests, edits>>
  BY DEF JournalPage, history
<1>2. /\ Client(host, d, s, peers[c], manifests[c]) /\ Good(host) /\ Good(d) /\ d.id = c /\ d.id # Host
      /\ (~metadataFirst => Full(host, d, s, peers[c], requests[c]))
  BY About
<1>3. new = [d EXCEPT !.head = next, !.journal = [n \in 1..next |-> IF n <= d.head THEN @[n] ELSE host.journal[n]]]
  BY DEF accept
<1>4. limit = IF s.upper = 0 THEN host.head ELSE s.upper OBVIOUS
<1>5. next = IF d.head + PageLimit < limit THEN d.head + PageLimit ELSE limit OBVIOUS
<1> HIDE DEF next, limit, new, s, d
<1>6. /\ Good(new) /\ new.id = d.id /\ new.entries = d.entries /\ new.seq = d.seq
      /\ limit \in Nat /\ next <= limit
      /\ new.head = next /\ next <= host.head /\ limit <= host.head /\ \A n \in 1..next : new.journal[n] = host.journal[n]
  <2>1. HistoryOf(host, d, s, limit, next, new) BY <1>1, <1>3, <1>4, <1>5 DEF HistoryOf
  <2> QED BY <1>2, <2>1, HistoryTaken
<1>7. CASE Finish(c) /\ UNCHANGED <<dev, requests>>
  <2>1. UNCHANGED <<dev, peers, manifests, requests, edits>> BY <1>1, <1>7
  <2> QED BY <1>7, <2>1, FinishStep
<1>8. CASE Local(c, new) /\ To(c, [s EXCEPT !.upper = limit]) /\ UNCHANGED requests
  <2> DEFINE v == [s EXCEPT !.upper = limit]
  <2>1. Client(host, new, v, peers[c], manifests[c])
        /\ \A rs : Full(host, d, s, peers[c], rs) => Full(host, new, v, peers[c], rs)
    BY <1>1, <1>2, <1>6, HistoryGoesOn
  <2> HIDE DEF v
  <2>2. To(c, v) /\ UNCHANGED <<peers, manifests, edits>> /\ requests' = requests BY <1>1, <1>8 DEF v
  <2>3. ~metadataFirst => Full(host, new, v, peers[c], requests'[c]) BY <1>2, <2>1, <2>2
  <2> QED BY <1>2, <1>6, <1>8, <2>1, <2>2, <2>3, MirrorSession
<1>9. CASE Local(c, new) /\ To(c, t) /\ requests' = [requests EXCEPT ![c] = kept]
  <2>1. ASSUME NEW e \in extra PROVE Record(e)
    <3>1. PICK p \in paths : e = projected(new, object(new, p)) OBVIOUS
    <3>2. PICK r \in kept : p = r[1] BY <3>1
    <3>3. object(new, p) # 0 BY <3>2 DEF valid
    <3>4. Solid(new) /\ new.head \in Nat BY <1>6 DEF Good, Solid, Shape
    <3>5. object(new, p) \in 1..new.head BY <3>3, <3>4, LatestFacts DEF object
    <3> HIDE DEF extra, paths, kept
    <3> QED BY <3>1, <3>4, <3>5, ProjectedFacts
  <2>2. requests[c] = {} => kept = {} /\ paths = {} /\ extra = {}
    <3>1. requests[c] = {} => kept = {} OBVIOUS
    <3>2. kept = {} => paths = {}
      <4> HIDE DEF kept
      <4> QED OBVIOUS
    <3>3. paths = {} => extra = {}
      <4> HIDE DEF paths
      <4> QED OBVIOUS
    <3> QED BY <3>1, <3>2, <3>3
  <2>3. t = [s EXCEPT !.pc = "announce", !.upper = 0, !.requested = paths, !.todo = @ \union extra] OBVIOUS
  <2> HIDE DEF extra, paths, kept, t
  <2>4. Client(host, new, t, peers[c], manifests[c])
        /\ \A rs : Full(host, d, s, peers[c], rs) /\ paths = {} /\ extra = {} => Full(host, new, t, peers[c], rs)
    BY <1>1, <1>2, <1>6, <2>1, <2>3, HistoryDone
  <2>5. requests'[c] = kept BY <1>9 DEF IInv, Tables
  <2>6. ~metadataFirst => Full(host, new, t, peers[c], requests'[c])
    <3>1. ~metadataFirst => requests[c] = {} BY <1>2 DEF Full
    <3> QED BY <1>2, <2>2, <2>4, <2>5, <3>1
  <2> QED BY <1>1, <1>2, <1>6, <1>9, <2>4, <2>6, MirrorSession
<1> QED BY <1>1, <1>7, <1>8, <1>9

LEMMA AnnounceStep ==
  ASSUME IInv, metadataFirst' = metadataFirst, NEW c \in Clients, Announce(c)
  PROVE  IInv'
<1> DEFINE s    == session[c]
           x    == dev[c]
           out  == proposals(x, s.pushed)
           keep == out = {} /\ s.acknowledged
           t    == [s EXCEPT !.outgoing = out, !.pushThrough = x.seq, !.acknowledged = keep]
           n    == IF keep THEN manifests[c] ELSE [gen |-> s.gen, members |-> out, applied |-> {}]
           u    == IF s.pc = "announce" THEN [t EXCEPT !.pc = "pull"] ELSE pushing(t, out)
<1>1. /\ To(c, u)
      /\ \/ s.pc = "announce" /\ u = [t EXCEPT !.pc = "pull"]
         \/ s.pc = "scan" /\ u = pushing(t, out)
      /\ manifests' = IF keep THEN manifests
                      ELSE [manifests EXCEPT ![c] = [gen |-> s.gen, members |-> out, applied |-> {}]]
      /\ UNCHANGED <<dev, peers, requests, edits>>
  BY DEF Announce, history
<1>2. manifests'[c] = n BY <1>1 DEF IInv, Tables
<1>3. /\ Client(host, x, s, peers[c], manifests[c]) /\ Good(host) /\ Good(x) /\ x.id = c /\ x.id # Host
      /\ (~metadataFirst => Full(host, x, s, peers[c], requests[c])) /\ Extends(host, host)
  BY About
<1>4. out = proposals(x, s.pushed) /\ keep = (out = {} /\ s.acknowledged) OBVIOUS
<1>5. t = [s EXCEPT !.outgoing = out, !.pushThrough = x.seq, !.acknowledged = keep] OBVIOUS
<1>6. n = IF keep THEN manifests[c] ELSE [gen |-> s.gen, members |-> out, applied |-> {}] OBVIOUS
<1> HIDE DEF u, n, t, keep, out, s, x
<1>7. Client(host, x, u, peers[c], n)
      /\ \A rs : Full(host, x, s, peers[c], rs) => Full(host, x, u, peers[c], rs)
  <2>1. AnnouncementOf(x, s, manifests[c], out, keep, t, n, u) BY <1>1, <1>4, <1>5, <1>6 DEF AnnouncementOf
  <2> QED BY <1>3, <2>1, Announces
<1>8. session' = [session EXCEPT ![c] = u] /\ session'[c] = u BY <1>1 DEF To, IInv, Tables
<1>9. dev'[Host] = host /\ dev'[c] = x BY <1>1 DEF host, x
<1>10. Here(c) BY <1>1, <1>2, <1>3, <1>7, <1>8, <1>9 DEF Here
<1>11. manifests' = manifests \/ \E v : manifests' = [manifests EXCEPT ![c] = v] BY <1>1
<1> QED BY <1>1, <1>3, <1>8, <1>9, <1>10, <1>11, OneMirror

-----------------------------------------------------------------------------
(* A record is taken in, or the attempt ends the round. *)
LEMMA Takes ==
  ASSUME NEW h, NEW x, Good(x), x.id # Host, NEW s, NEW k, NEW m, Client(h, x, s, k, m),
         s.pc \in {"pull", "commit"}, NEW e \in s.todo, NEW y, Ready(x, y, e)
  PROVE  /\ Client(h, y, s, k, m) /\ Client(h, y, Drop(s, e), k, m)
         /\ \A rs : Full(h, x, s, k, rs) => Full(h, y, s, k, rs)
         /\ \A rs : Full(h, x, s, k, rs) /\ Settles(y, e) => Full(h, y, Drop(s, e), k, rs)
<1>1. Good(y) /\ Evolves(x, y, {e}) BY DEF Ready
<1>2. Client(h, y, s, k, m) BY <1>1, MirrorMoves
<1>3. s.pc \in Announced BY DEF Announced
<1>4. Client(h, y, Drop(s, e), k, m) BY <1>2, <1>3, Drops
<1>5. Session(s) /\ Cursor(k) BY <1>2 DEF Client
<1>6. ASSUME NEW rs, Full(h, x, s, k, rs)
      PROVE  /\ Full(h, y, s, k, rs)
             /\ Settles(y, e) => Paged(h, y, s.todo \ {e}, s.through, s.through)
  <2>1. rs = {} /\ Pulls(h, x, s, k) BY <1>6 DEF Full
  <2>2. /\ \A n \in 1..k.pulled : Took(h, y, n)
        /\ Paged(h, y, s.todo, s.through, s.through)
        /\ Settles(y, e) => Paged(h, y, s.todo \ {e}, s.through, s.through)
    BY <1>5, <2>1, Consumed
  <2>3. Pulls(h, y, s, k)
    <3>1. s.pc # "rescan" /\ s.pc # "changes" OBVIOUS
    <3> QED BY <2>1, <2>2, <3>1 DEF Pulls
  <2> QED BY <2>1, <2>2, <2>3 DEF Full
<1>7. ASSUME NEW rs, Full(h, x, s, k, rs), Settles(y, e) PROVE Full(h, y, Drop(s, e), k, rs)
  <2>1. Full(h, y, s, k, rs) /\ Paged(h, y, s.todo \ {e}, s.through, s.through) BY <1>6, <1>7
  <2> QED BY <1>2, <1>3, <2>1, Drops
<1> QED BY <1>2, <1>4, <1>6, <1>7

LEMMA TakingStep ==
  ASSUME IInv, metadataFirst' = metadataFirst, NEW c \in Clients, NEW e \in session[c].todo,
         session[c].pc \in {"pull", "commit"}, NEW y, Ready(dev[c], y, e), Local(c, y), NEW t, To(c, t),
         \/ t = Drop(session[c], e) /\ (metadataFirst \/ Settles(y, e))
         \/ \E g \in Nat : t = Inactive(g, FALSE),
         UNCHANGED <<peers, manifests, edits>>, requests' = requests \/ \E v : requests' = [requests EXCEPT ![c] = v],
         ~metadataFirst => requests' = requests
  PROVE  IInv'
<1> DEFINE x == dev[c]
           s == session[c]
           k == peers[c]
           m == manifests[c]
<1>1. /\ Good(x) /\ x.id = c /\ x.id # Host /\ Client(host, x, s, k, m)
      /\ ~metadataFirst => Full(host, x, s, k, requests[c])
  BY About
<1>2. Good(y) /\ y.id = c BY <1>1 DEF Ready, Evolves, Extends
<1>3. /\ Client(host, y, s, k, m) /\ Client(host, y, Drop(s, e), k, m)
      /\ ~metadataFirst => Full(host, y, s, k, requests[c])
      /\ ~metadataFirst /\ Settles(y, e) => Full(host, y, Drop(s, e), k, requests[c])
  BY <1>1, Takes
<1>4. Client(host, y, t, k, m) /\ (~metadataFirst => Full(host, y, t, k, requests[c]))
  <2>1. CASE t = Drop(s, e) /\ (metadataFirst \/ Settles(y, e)) BY <1>3, <2>1
  <2>2. CASE \E g \in Nat : t = Inactive(g, FALSE)
    <3>1. PICK g \in Nat : t = Inactive(g, FALSE) BY <2>2
    <3>2. FALSE \in BOOLEAN OBVIOUS
    <3> QED BY <1>3, <3>1, <3>2, Ends
  <2> QED BY <2>1, <2>2
<1>5. ~metadataFirst => Full(host, y, t, k, requests'[c]) BY <1>4
<1> HIDE DEF x, s
<1> QED BY <1>2, <1>4, <1>5, MirrorSession

(* Refreshing a device at a path leaves it ready for any record. *)
LEMMA Refreshed ==
  ASSUME NEW x, Good(x), NEW p, NEW base, NEW e
  PROVE  Ready(x, x, e) /\ Ready(x, observed(x, p, base), e) /\ Extends(x, observed(x, p, base))
<1>1. Good(observed(x, p, base)) /\ Evolves(x, observed(x, p, base), {}) BY Observed
<1>2. Evolves(x, observed(x, p, base), {e}) BY <1>1, EvolvesMore
<1>3. Evolves(x, x, {e}) BY EvolvesNot
<1> QED BY <1>1, <1>2, <1>3 DEF Ready, Evolves

LEMMA PullMetadataStep ==
  ASSUME IInv, metadataFirst' = metadataFirst, NEW c \in Clients, NEW e, PullMetadata(c, e)
  PROVE  IInv'
<1> DEFINE x == dev[c]
           s == session[c]
<1>1. /\ s.pc = "pull" /\ e \in s.todo /\ metadataFirst
      /\ \/ acceptsMetadata(x, e) /\ Local(c, acceptMetadata(x, e).dev) /\ To(c, Drop(s, e))
         \/ Local(c, x) /\ Finish(c)
         \/ Local(c, observed(x, e.path, 0)) /\ Finish(c)
      /\ UNCHANGED <<peers, manifests, requests, edits>>
  BY DEF PullMetadata, nextEntries, metadataOnly, history
<1>2. Good(x) /\ x.id # Host /\ Session(s) /\ s.gen \in Nat BY About DEF Session
<1>3. Record(e) BY <1>1, <1>2 DEF Session
<1>4. CASE acceptsMetadata(x, e) /\ Local(c, acceptMetadata(x, e).dev) /\ To(c, Drop(s, e))
  <2>1. Ready(x, acceptMetadata(x, e).dev, e) BY <1>2, <1>3, <1>4, MetadataFacts
  <2> QED BY <1>1, <1>4, <2>1, TakingStep
<1>5. CASE (Local(c, x) \/ Local(c, observed(x, e.path, 0))) /\ Finish(c)
  <2>1. PICK y : Local(c, y) /\ Ready(x, y, e) BY <1>2, <1>5, Refreshed
  <2>2. To(c, Inactive(s.gen, FALSE)) BY <1>5 DEF Finish
  <2> DEFINE t == Inactive(s.gen, FALSE)
  <2>3. To(c, t) /\ \E g \in Nat : t = Inactive(g, FALSE) BY <1>2, <2>2
  <2> HIDE DEF t
  <2> QED BY <1>1, <2>1, <2>3, TakingStep
<1> QED BY <1>1, <1>4, <1>5

LEMMA PullCommitStep ==
  ASSUME IInv, metadataFirst' = metadataFirst, NEW c \in Clients, PullCommit(c)
  PROVE  IInv'
<1> DEFINE x == dev[c]
           s == session[c]
           e == s.current
           r == merge(x, e, TRUE)
<1>1. /\ s.pc = "commit"
      /\ \/ e.path \in s.requested /\ To(c, Drop(s, e)) /\ UNCHANGED <<dev, requests>>
         \/ Local(c, r.dev) /\ Finish(c) /\ UNCHANGED requests
         \/ r.status = "complete" /\ Local(c, r.dev) /\ To(c, Drop(s, e)) /\ requests' = settled(c, r.dev, e.path)
      /\ UNCHANGED <<peers, manifests, edits>>
  BY DEF PullCommit, history
<1>2. Good(x) /\ x.id # Host /\ Session(s) /\ s.gen \in Nat BY About DEF Session
<1>3. e \in s.todo /\ Record(e) BY <1>1, <1>2 DEF Session
<1>4. ~metadataFirst => s.requested = {} BY About DEF Full, Pulls
<1>5. Outcome(x, r, e) BY <1>2, <1>3, MergeFacts
<1> HIDE DEF e, r
<1>6. Ready(x, r.dev, e) /\ (r.status = "complete" => Settles(r.dev, e)) BY <1>5 DEF Outcome
<1>7. CASE e.path \in s.requested /\ To(c, Drop(s, e)) /\ UNCHANGED <<dev, requests>>
  <2>1. metadataFirst BY <1>4, <1>7
  <2>2. dev' = [dev EXCEPT ![c] = x] BY <1>7, About DEF IInv, Tables
  <2>3. Local(c, x) /\ Ready(x, x, e) BY <1>2, <2>2, Refreshed DEF Local
  <2> QED BY <1>1, <1>3, <1>7, <2>1, <2>3, TakingStep
<1>8. CASE Local(c, r.dev) /\ Finish(c) /\ UNCHANGED requests
  <2> DEFINE t == Inactive(s.gen, FALSE)
  <2>1. To(c, t) /\ \E g \in Nat : t = Inactive(g, FALSE) BY <1>2, <1>8 DEF Finish
  <2> HIDE DEF t
  <2> QED BY <1>1, <1>3, <1>6, <1>8, <2>1, TakingStep
<1>9. CASE r.status = "complete" /\ Local(c, r.dev) /\ To(c, Drop(s, e)) /\ requests' = settled(c, r.dev, e.path)
  <2>1. requests' = requests \/ \E v : requests' = [requests EXCEPT ![c] = v] BY <1>9 DEF settled
  <2>2. ~metadataFirst => requests' = requests BY <1>4, <1>9 DEF settled
  <2> QED BY <1>1, <1>3, <1>6, <1>9, <2>1, <2>2, TakingStep
<1> QED BY <1>1, <1>7, <1>8, <1>9

LEMMA PullBeginStep ==
  ASSUME IInv, metadataFirst' = metadataFirst, NEW c \in Clients, NEW e, PullBegin(c, e)
  PROVE  IInv'
<1> DEFINE x == dev[c]
           s == session[c]
           k == peers[c]
           m == manifests[c]
           r == merge(x, e, FALSE)
           g == IF blocked(host, e.path) THEN host ELSE observed(host, e.path, 0)
           t == [s EXCEPT !.pc = "commit", !.current = e]
<1>1. /\ s.pc = "pull" /\ e \in s.todo
      /\ \/ Local(c, r.dev) /\ Finish(c) /\ UNCHANGED requests
         \/ r.status = "complete" /\ Local(c, r.dev) /\ To(c, Drop(s, e)) /\ requests' = settled(c, r.dev, e.path)
         \/ dev' = [dev EXCEPT ![c] = r.dev, ![Host] = g] /\ (To(c, t) \/ Finish(c)) /\ UNCHANGED requests
      /\ UNCHANGED <<peers, manifests, edits>>
  BY DEF PullBegin, nextEntries, history
<1>2. Good(x) /\ x.id = c /\ x.id # Host /\ c # Host /\ Session(s) /\ s.gen \in Nat /\ Good(host) /\ Cursor(k)
  BY About DEF Session
<1>3. Record(e) BY <1>1, <1>2 DEF Session
<1>4. ~metadataFirst => s.requested = {} BY About DEF Full, Pulls
<1>5. Outcome(x, r, e) BY <1>2, <1>3, MergeFacts
<1>6. Good(g) /\ Extends(host, g)
  <2>1. Good(observed(host, e.path, 0)) /\ Extends(host, observed(host, e.path, 0)) BY <1>2, Refreshed DEF Ready
  <2> QED BY <1>2, <2>1, About
<1> HIDE DEF g, r, t
<1>7. Ready(x, r.dev, e) /\ (r.status = "complete" => Settles(r.dev, e)) BY <1>5 DEF Outcome
<1>8. CASE Local(c, r.dev) /\ Finish(c) /\ UNCHANGED requests
  <2> DEFINE u == Inactive(s.gen, FALSE)
  <2>1. To(c, u) /\ \E i \in Nat : u = Inactive(i, FALSE) BY <1>2, <1>8 DEF Finish
  <2> HIDE DEF u
  <2> QED BY <1>1, <1>3, <1>7, <1>8, <2>1, TakingStep
<1>9. CASE r.status = "complete" /\ Local(c, r.dev) /\ To(c, Drop(s, e)) /\ requests' = settled(c, r.dev, e.path)
  <2>1. requests' = requests \/ \E v : requests' = [requests EXCEPT ![c] = v] BY <1>9 DEF settled
  <2>2. ~metadataFirst => requests' = requests BY <1>4, <1>9 DEF settled
  <2> QED BY <1>1, <1>3, <1>7, <1>9, <2>1, <2>2, TakingStep
<1>10. CASE dev' = [dev EXCEPT ![c] = r.dev, ![Host] = g] /\ (To(c, t) \/ Finish(c)) /\ UNCHANGED requests
  <2>1. Client(host, x, s, k, m) /\ (~metadataFirst => Full(host, x, s, k, requests[c])) BY About
  <2>2. Client(host, r.dev, s, k, m) /\ (~metadataFirst => Full(host, r.dev, s, k, requests[c]))
    BY <1>1, <1>2, <1>7, <2>1, Takes
  <2>3. Good(r.dev) /\ r.dev.id = c BY <1>2, <1>7 DEF Ready, Evolves, Extends
  <2>4. Client(g, r.dev, s, k, m) BY <1>2, <1>6, <2>2, <2>3, AuthorityMoves
  <2>5. ~metadataFirst => Full(g, r.dev, s, k, requests[c]) BY <1>2, <1>6, <2>2, AuthorityMovesFull
  <2>6. Client(g, r.dev, t, k, m) /\ (~metadataFirst => Full(g, r.dev, t, k, requests[c]))
    <3>1. TransferOf(s, e, "commit", t) BY <1>1 DEF TransferOf, t
    <3> QED BY <2>4, <2>5, <3>1, Transfers
  <2>7. FALSE \in BOOLEAN OBVIOUS
  <2>8. Client(g, r.dev, Inactive(s.gen, FALSE), k, m)
        /\ (~metadataFirst => Full(g, r.dev, Inactive(s.gen, FALSE), k, requests[c]))
    BY <1>2, <2>4, <2>5, <2>7, Ends
  <2>9. dev'[c] = r.dev /\ dev'[Host] = g BY <1>2, <1>10, About DEF IInv, Tables
  <2>10. \/ session' = [session EXCEPT ![c] = t] /\ session'[c] = t
         \/ session' = [session EXCEPT ![c] = Inactive(s.gen, FALSE)] /\ session'[c] = Inactive(s.gen, FALSE)
    <3>1. CASE To(c, t) BY <3>1 DEF To, IInv, Tables
    <3>2. CASE Finish(c)
      <4> DEFINE u == Inactive(s.gen, FALSE)
      <4>1. session' = [session EXCEPT ![c] = u] BY <3>2 DEF To, Finish
      <4> HIDE DEF u
      <4>2. session'[c] = u BY <4>1 DEF IInv, Tables
      <4> QED BY <4>1, <4>2 DEF u
    <3> QED BY <1>10, <3>1, <3>2
  <2>11. Here(c) BY <1>1, <1>10, <2>3, <2>6, <2>8, <2>9, <2>10 DEF Here
  <2> QED BY <1>1, <1>6, <1>10, <2>9, <2>10, <2>11, OneMirror
<1> QED BY <1>1, <1>8, <1>9, <1>10

LEMMA EarlyPushStep ==
  ASSUME IInv, metadataFirst' = metadataFirst, NEW c \in Clients, EarlyPush(c)
  PROVE  IInv'
<1> DEFINE s == session[c]
           t == [s EXCEPT !.pc = "push", !.todo = fresh(c), !.early = TRUE]
<1>1. s.pc = "pull" /\ metadataFirst /\ To(c, t) /\ UNCHANGED <<dev, peers, manifests, requests, edits>>
  BY DEF EarlyPush, history
<1>2. fresh(c) \subseteq s.outgoing BY DEF fresh
<1>3. Client(host, dev[c], s, peers[c], manifests[c]) BY About
<1>4. Client(host, dev[c], t, peers[c], manifests[c]) BY <1>1, <1>2, <1>3, PushesEarly
<1> HIDE DEF t
<1> QED BY <1>1, <1>4, OnlySession

LEMMA PullDoneStep ==
  ASSUME IInv, metadataFirst' = metadataFirst, NEW c \in Clients, PullDone(c)
  PROVE  IInv'
<1> DEFINE s == session[c]
           k == peers[c]
           t == [s EXCEPT !.pc = "scan", !.pulled = s.through]
           j == [k EXCEPT !.pulled = IF k.pulled > s.through THEN k.pulled ELSE s.through]
<1>1. /\ s.pc = "pull" /\ s.todo = {} /\ To(c, t)
      /\ peers' = [peers EXCEPT ![c].pulled = IF @ > s.through THEN @ ELSE s.through]
      /\ UNCHANGED <<dev, manifests, requests, edits>>
  BY DEF PullDone, history
<1>2. peers' = [peers EXCEPT ![c] = j] BY <1>1
<1>3. peers'[c] = j BY <1>2 DEF IInv, Tables
<1>4. /\ Client(host, dev[c], s, k, manifests[c]) /\ Good(host) /\ Good(dev[c]) /\ dev[c].id = c /\ Extends(host, host)
      /\ ~metadataFirst => Full(host, dev[c], s, k, requests[c])
  BY About
<1>5. /\ Client(host, dev[c], t, j, manifests[c])
      /\ \A rs : Full(host, dev[c], s, k, rs) => Full(host, dev[c], t, j, rs)
  <2>1. PullEndOf(s, k, t, j) BY <1>1 DEF PullEndOf
  <2> HIDE DEF t, j
  <2> QED BY <1>4, <2>1, PullEnds
<1> HIDE DEF t, j
<1>6. session' = [session EXCEPT ![c] = t] /\ session'[c] = t BY <1>1 DEF To, IInv, Tables
<1>7. dev'[Host] = host BY <1>1 DEF host
<1>8. Here(c) BY <1>1, <1>3, <1>4, <1>5, <1>6, <1>7 DEF Here
<1> QED BY <1>1, <1>2, <1>4, <1>6, <1>7, <1>8, OneMirror

(* The mirror refreshes a path and the round ends. *)
LEMMA SendFailedStep ==
  ASSUME IInv, metadataFirst' = metadataFirst, NEW c \in Clients, SendFailed(c)
  PROVE  IInv'
<1> DEFINE x == dev[c]
           s == session[c]
           t == Inactive(s.gen, FALSE)
           y == IF blocked(x, s.current.path) THEN x ELSE observed(x, s.current.path, 0)
<1>1. Local(c, y) /\ To(c, t) /\ UNCHANGED <<peers, manifests, requests, edits>> BY DEF SendFailed, Finish, history
<1>2. /\ Client(host, x, s, peers[c], manifests[c]) /\ Session(s) /\ Cursor(peers[c]) /\ Good(x) /\ x.id # Host /\ x.id = c
      /\ ~metadataFirst => Full(host, x, s, peers[c], requests[c])
  BY About
<1>3. Good(y) /\ Evolves(x, y, {}) BY <1>2, Observed, EvolvesNot
<1> HIDE DEF y
<1>4. Client(host, y, s, peers[c], manifests[c]) /\ y.id = c BY <1>2, <1>3, MirrorMoves DEF Evolves, Extends
<1>5. ~metadataFirst => Full(host, y, s, peers[c], requests[c]) BY <1>2, <1>3, MirrorMovesFull
<1>6. s.gen \in Nat /\ FALSE \in BOOLEAN BY <1>2 DEF Session
<1>7. Client(host, y, t, peers[c], manifests[c]) /\ (~metadataFirst => Full(host, y, t, peers[c], requests[c]))
  BY <1>4, <1>5, <1>6, Ends
<1> HIDE DEF t
<1>8. ~metadataFirst => Full(host, y, t, peers[c], requests'[c]) BY <1>1, <1>7
<1> QED BY <1>1, <1>3, <1>4, <1>7, <1>8, MirrorSession

LEMMA SliceExpiredStep ==
  ASSUME IInv, metadataFirst' = metadataFirst, NEW c \in Clients, SliceExpired(c)
  PROVE  IInv'
<1> DEFINE s == session[c]
           t == [Repage(s) EXCEPT !.pc = "rescan"]
<1>1. s.pc # "idle" /\ To(c, t) /\ UNCHANGED <<dev, peers, manifests, requests, edits>> BY DEF SliceExpired
<1>2. /\ Client(host, dev[c], s, peers[c], manifests[c]) /\ Session(s)
      /\ ~metadataFirst => Full(host, dev[c], s, peers[c], requests[c])
  BY About
<1>3. s.pushed <= peers[c].pushed BY <1>1, <1>2 DEF Client, Pushes
<1>4. /\ Client(host, dev[c], t, peers[c], manifests[c])
      /\ \A rs : Full(host, dev[c], s, peers[c], rs) /\ s.pulled = peers[c].pulled => Full(host, dev[c], t, peers[c], rs)
  BY <1>2, <1>3, Repages
<1>5. ~metadataFirst => s.pulled = peers[c].pulled BY <1>1, <1>2 DEF Full, Pulls
<1> HIDE DEF t
<1>6. ~metadataFirst => Full(host, dev[c], t, peers[c], requests[c]) BY <1>2, <1>4, <1>5
<1> QED BY <1>1, <1>4, <1>6, OnlySession

LEMMA AbortStep ==
  ASSUME IInv, metadataFirst' = metadataFirst, NEW c \in Clients, Abort(c)
  PROVE  IInv'
<1> DEFINE s == session[c]
           t == Inactive(s.gen + 1, FALSE)
<1>1. To(c, t) /\ UNCHANGED <<dev, peers, manifests, requests, edits>> BY DEF Abort
<1>2. /\ Client(host, dev[c], s, peers[c], manifests[c]) /\ Session(s)
      /\ ~metadataFirst => Full(host, dev[c], s, peers[c], requests[c])
  BY About
<1>3. s.gen \in Nat BY <1>2 DEF Session
<1> DEFINE g == s.gen + 1
<1>4. g \in Nat /\ FALSE \in BOOLEAN BY <1>3
<1> HIDE DEF g
<1>5. /\ Client(host, dev[c], t, peers[c], manifests[c])
      /\ ~metadataFirst => Full(host, dev[c], t, peers[c], requests[c])
  <2>1. t = Inactive(g, FALSE) BY DEF g
  <2> QED BY <1>2, <1>4, <2>1, Ends
<1> HIDE DEF t
<1> QED BY <1>1, <1>5, OnlySession

LEMMA ClientCrashStep ==
  ASSUME IInv, metadataFirst' = metadataFirst, NEW c \in Clients, ClientCrash(c)
  PROVE  IInv'
<1> DEFINE x == dev[c]
           s == session[c]
           t == Inactive(s.gen + 1, FALSE)
<1>1. PICK e, y : /\ (s.pc = "commit" /\ e = s.current) \/ (s.pc = "pull" /\ e \in s.todo)
                  /\ y \in torn(c, e) /\ Local(c, y)
  <2>1. \E e \in (IF s.pc = "commit" THEN {s.current} ELSE IF s.pc = "pull" THEN nextEntries(s) ELSE {}) :
          \E y \in torn(c, e) : Local(c, y)
    BY DEF ClientCrash
  <2>2. nextEntries(s) \subseteq s.todo BY DEF nextEntries
  <2> HIDE DEF s
  <2> QED BY <2>1, <2>2
<1>2. To(c, t) /\ UNCHANGED <<peers, manifests, requests, edits>> BY DEF ClientCrash
<1>3. Good(x) /\ x.id # Host /\ Session(s) /\ s.gen \in Nat BY About DEF Session
<1>4. e \in s.todo /\ Record(e) BY <1>1, <1>3 DEF Session
<1>5. Ready(x, y, e)
  <2>1. Outcome(x, merge(x, e, TRUE), e) /\ Outcome(x, merge(x, e, FALSE), e) BY <1>3, <1>4, MergeFacts
  <2>2. \/ y \in merge(x, e, TRUE).torn \/ y \in merge(x, e, FALSE).torn
        \/ acceptsMetadata(x, e) /\ y \in acceptMetadata(x, e).torn
    BY <1>1 DEF torn
  <2>3. acceptsMetadata(x, e) => \A z \in acceptMetadata(x, e).torn : Ready(x, z, e) BY <1>3, <1>4, MetadataFacts
  <2> QED BY <2>1, <2>2, <2>3 DEF Outcome
<1>6. \E g \in Nat : t = Inactive(g, FALSE)
  <2>1. s.gen + 1 \in Nat BY <1>3
  <2> QED BY <2>1
<1> HIDE DEF t
<1> QED BY <1>1, <1>2, <1>4, <1>5, <1>6, TakingStep

-----------------------------------------------------------------------------
(* The authority takes an announced record in. *)
LEMMA AuthorityTakes ==
  ASSUME IInv, NEW c \in Clients, NEW gen, NEW e, announced(c, gen, e), NEW committing
  PROVE  /\ Outcome(host, merge(host, e, committing), e) /\ e \in manifests[c].members
         /\ \A g : Ready(host, g, e) =>
              /\ Good(g) /\ Extends(host, g)
              /\ Client(g, dev[c], session[c], peers[c], manifests[c])
              /\ ~metadataFirst => Full(g, dev[c], session[c], peers[c], requests[c])
              /\ Settles(g, e) => Decided(g, e.path, e)
<1>1. e \in manifests[c].members BY DEF announced
<1>2. Record(e) /\ Based(host, e.path, e.base) BY <1>1, About DEF Client, Plan
<1>3. Outcome(host, merge(host, e, committing), e) BY <1>2, About, MergeFacts
<1>4. ASSUME NEW g, Ready(host, g, e)
      PROVE  /\ Good(g) /\ Extends(host, g)
             /\ Client(g, dev[c], session[c], peers[c], manifests[c])
             /\ ~metadataFirst => Full(g, dev[c], session[c], peers[c], requests[c])
             /\ Settles(g, e) => Decided(g, e.path, e)
  <2>1. Good(g) /\ Extends(host, g) BY <1>4 DEF Ready, Evolves
  <2>2. g.id = Host BY <2>1, About DEF Extends
  <2>3. Client(g, dev[c], session[c], peers[c], manifests[c]) BY <2>1, About, AuthorityMoves
  <2>4. ~metadataFirst => Full(g, dev[c], session[c], peers[c], requests[c]) BY <2>1, About, AuthorityMovesFull
  <2>5. Settles(g, e) => Decided(g, e.path, e) BY <2>2 DEF Settles
  <2> QED BY <2>1, <2>3, <2>4, <2>5
<1> QED BY <1>1, <1>3, <1>4

(* The manifest of c after the authority has decided about e. *)
LEMMA AppliedFacts ==
  ASSUME IInv, NEW c \in Clients, NEW gen, NEW e, announced(c, gen, e), Applied(c, e), NEW g, Ready(host, g, e), Settles(g, e)
  PROVE  /\ \E v : manifests' = [manifests EXCEPT ![c] = v]
         /\ Client(g, dev[c], session[c], peers[c], manifests'[c])
<1> DEFINE m == manifests[c]
           n == [m EXCEPT !.applied = @ \union {e.path}]
<1>1. manifests' = [manifests EXCEPT ![c] = n] BY DEF Applied
<1>2. manifests'[c] = n BY <1>1 DEF IInv, Tables
<1>3. e \in m.members /\ Client(g, dev[c], session[c], peers[c], m) /\ Decided(g, e.path, e) BY AuthorityTakes
<1>4. n = [m EXCEPT !.applied = @ \union {e.path}] OBVIOUS
<1> HIDE DEF m, n
<1>5. Client(g, dev[c], session[c], peers[c], n) BY <1>3, <1>4, Applies
<1> QED BY <1>1, <1>2, <1>5

(* The round of c ends, goes on with the next proposal or sends bytes. *)
LEMMA GivingStep ==
  ASSUME IInv, metadataFirst' = metadataFirst, NEW c \in Clients, NEW e, announced(c, session[c].gen, e),
         session[c].pc \in {"push", "send"}, NEW g, Ready(host, g, e), Local(Host, g),
         \/ Finish(c) /\ UNCHANGED manifests
         \/ Settles(g, e) /\ To(c, Drop(session[c], e)) /\ Applied(c, e)
         \/ \E t : TransferOf(session[c], e, "send", t) /\ To(c, t) /\ UNCHANGED manifests,
         UNCHANGED <<peers, requests, edits>>
  PROVE  IInv'
<1> DEFINE x == dev[c]
           s == session[c]
           k == peers[c]
           m == manifests[c]
<1>1. /\ Good(g) /\ Extends(host, g) /\ Client(g, x, s, k, m)
      /\ ~metadataFirst => Full(g, x, s, k, requests[c])
  BY AuthorityTakes
<1>2. s.gen \in Nat /\ FALSE \in BOOLEAN BY About DEF Session
<1>3. CASE Finish(c) /\ UNCHANGED manifests
  <2> DEFINE t == Inactive(s.gen, FALSE)
  <2>1. session' = [session EXCEPT ![c] = t] BY <1>3 DEF Finish, To
  <2>2. Client(g, x, t, k, m) /\ (~metadataFirst => Full(g, x, t, k, requests[c])) BY <1>1, <1>2, Ends
  <2> HIDE DEF t
  <2>3. session'[c] = t BY <2>1 DEF IInv, Tables
  <2> QED BY <1>1, <1>3, <2>1, <2>2, <2>3, AuthoritySession
<1>4. CASE Settles(g, e) /\ To(c, Drop(s, e)) /\ Applied(c, e)
  <2> DEFINE t == Drop(s, e)
  <2>1. (\E v : manifests' = [manifests EXCEPT ![c] = v]) /\ Client(g, x, s, k, manifests'[c]) BY <1>4, AppliedFacts
  <2>2. s.pc \in Announced /\ s.pc \notin {"pull", "commit"} BY DEF Announced
  <2>3. Client(g, x, t, k, manifests'[c]) /\ (~metadataFirst => Full(g, x, t, k, requests[c])) BY <1>1, <2>1, <2>2, Drops
  <2>4. session' = [session EXCEPT ![c] = t] BY <1>4 DEF To
  <2> HIDE DEF t
  <2>5. session'[c] = t BY <2>4 DEF IInv, Tables
  <2> QED BY <1>1, <2>1, <2>3, <2>4, <2>5, AuthoritySession
<1>5. CASE \E t : TransferOf(s, e, "send", t) /\ To(c, t) /\ UNCHANGED manifests
  <2>1. PICK t : TransferOf(s, e, "send", t) /\ To(c, t) /\ UNCHANGED manifests BY <1>5
  <2>2. Client(g, x, t, k, m) /\ (~metadataFirst => Full(g, x, t, k, requests[c])) BY <1>1, <2>1, Transfers
  <2>3. session' = [session EXCEPT ![c] = t] /\ session'[c] = t BY <2>1 DEF To, IInv, Tables
  <2> QED BY <1>1, <2>1, <2>2, <2>3, AuthoritySession
<1> QED BY <1>3, <1>4, <1>5

LEMMA PushBeginStep ==
  ASSUME IInv, metadataFirst' = metadataFirst, NEW c \in Clients, NEW e, PushBegin(c, e)
  PROVE  IInv'
<1> DEFINE s == session[c]
           r == merge(host, e, FALSE)
           t == [s EXCEPT !.pc = "send", !.current = e]
<1>1. /\ s.pc = "push" /\ e \in s.todo
      /\ \/ Finish(c) /\ UNCHANGED <<dev, manifests>>
         \/ /\ announced(c, s.gen, e) /\ Local(Host, r.dev)
            /\ \/ Finish(c) /\ UNCHANGED manifests
               \/ r.status = "complete" /\ To(c, Drop(s, e)) /\ Applied(c, e)
               \/ To(c, t) /\ UNCHANGED manifests
      /\ UNCHANGED <<peers, requests, edits>>
  BY DEF PushBegin, nextEntries, history
<1>2. CASE Finish(c) /\ UNCHANGED <<dev, manifests>>
  <2>1. UNCHANGED <<dev, peers, manifests, requests, edits>> BY <1>1, <1>2
  <2> QED BY <1>2, <2>1, FinishStep
<1>3. CASE /\ announced(c, s.gen, e) /\ Local(Host, r.dev)
           /\ \/ Finish(c) /\ UNCHANGED manifests
              \/ r.status = "complete" /\ To(c, Drop(s, e)) /\ Applied(c, e)
              \/ To(c, t) /\ UNCHANGED manifests
  <2>1. Outcome(host, r, e) BY <1>3, AuthorityTakes
  <2>2. TransferOf(s, e, "send", t) BY <1>1 DEF TransferOf
  <2> HIDE DEF r, t
  <2>3. Ready(host, r.dev, e) /\ (r.status = "complete" => Settles(r.dev, e)) BY <2>1 DEF Outcome
  <2>4. s.pc \in {"push", "send"} BY <1>1
  <2> QED BY <1>1, <1>3, <2>2, <2>3, <2>4, GivingStep
<1> QED BY <1>1, <1>2, <1>3

LEMMA PushCommitStep ==
  ASSUME IInv, metadataFirst' = metadataFirst, NEW c \in Clients, PushCommit(c)
  PROVE  IInv'
<1> DEFINE s == session[c]
           e == s.current
           r == merge(host, e, TRUE)
<1>1. /\ s.pc = "send"
      /\ \/ Finish(c) /\ UNCHANGED <<dev, manifests>>
         \/ /\ announced(c, s.gen, e) /\ Local(Host, r.dev)
            /\ \/ Finish(c) /\ UNCHANGED manifests
               \/ r.status = "complete" /\ To(c, Drop(s, e)) /\ Applied(c, e)
      /\ UNCHANGED <<peers, requests, edits>>
  BY DEF PushCommit, history
<1> HIDE DEF e
<1>2. CASE Finish(c) /\ UNCHANGED <<dev, manifests>>
  <2>1. UNCHANGED <<dev, peers, manifests, requests, edits>> BY <1>1, <1>2
  <2> QED BY <1>2, <2>1, FinishStep
<1>3. CASE /\ announced(c, s.gen, e) /\ Local(Host, r.dev)
           /\ \/ Finish(c) /\ UNCHANGED manifests
              \/ r.status = "complete" /\ To(c, Drop(s, e)) /\ Applied(c, e)
  <2>1. Outcome(host, r, e) BY <1>3, AuthorityTakes
  <2> HIDE DEF r
  <2>2. Ready(host, r.dev, e) /\ (r.status = "complete" => Settles(r.dev, e)) BY <2>1 DEF Outcome
  <2>3. s.pc \in {"push", "send"} BY <1>1
  <2> QED BY <1>1, <1>3, <2>2, <2>3, GivingStep
<1> QED BY <1>1, <1>2, <1>3

LEMMA LateCommitStep ==
  ASSUME IInv, metadataFirst' = metadataFirst, NEW c \in Clients, NEW l, LateCommit(c, l)
  PROVE  IInv'
<1> DEFINE e == l.entry
           r == merge(host, e, TRUE)
<1>1. /\ \/ UNCHANGED <<dev, manifests>>
         \/ /\ announced(c, l.gen, e) /\ Local(Host, r.dev)
            /\ \/ r.status = "complete" /\ Applied(c, e)
               \/ UNCHANGED manifests
      /\ UNCHANGED <<peers, session, requests, edits>>
  BY DEF LateCommit, history
<1> HIDE DEF e
<1>2. CASE UNCHANGED <<dev, manifests>>
  <2>1. dev' = dev /\ manifests' = manifests /\ peers' = peers /\ session' = session /\ requests' = requests /\ edits' = edits
    BY <1>1, <1>2
  <2> QED BY <2>1 DEF IInv, Tables, Devices, Mirrors, FullMirrors, host
<1>3. CASE /\ announced(c, l.gen, e) /\ Local(Host, r.dev)
           /\ \/ r.status = "complete" /\ Applied(c, e)
              \/ UNCHANGED manifests
  <2>1. Outcome(host, r, e) BY <1>3, AuthorityTakes
  <2> HIDE DEF r
  <2>2. Ready(host, r.dev, e) /\ (r.status = "complete" => Settles(r.dev, e)) BY <2>1 DEF Outcome
  <2>3. /\ Good(r.dev) /\ Extends(host, r.dev) /\ Client(r.dev, dev[c], session[c], peers[c], manifests[c])
        /\ ~metadataFirst => Full(r.dev, dev[c], session[c], peers[c], requests[c])
    BY <1>3, <2>2, AuthorityTakes
  <2>4. CASE r.status = "complete" /\ Applied(c, e)
    <3>1. (\E v : manifests' = [manifests EXCEPT ![c] = v]) /\ Client(r.dev, dev[c], session[c], peers[c], manifests'[c])
      BY <1>3, <2>2, <2>4, AppliedFacts
    <3>2. session' = session BY <1>1
    <3> QED BY <1>1, <1>3, <2>3, <3>1, <3>2, AuthoritySession
  <2>5. CASE UNCHANGED manifests
    <3>1. session' = session /\ manifests' = manifests BY <1>1, <2>5
    <3> QED BY <1>1, <1>3, <2>3, <3>1, AuthoritySession
  <2> QED BY <1>3, <2>4, <2>5
<1> QED BY <1>1, <1>2, <1>3

LEMMA HostCrashStep ==
  ASSUME IInv, metadataFirst' = metadataFirst, NEW c \in Clients, HostCrash(c)
  PROVE  IInv'
<1> DEFINE s == session[c]
           i == s.gen + 1
           t == Inactive(i, FALSE)
<1>1. PICK e, committing, g : announced(c, s.gen, e) /\ g \in merge(host, e, committing).torn /\ Local(Host, g)
  BY DEF HostCrash
<1>2. To(c, t) /\ manifests' = [d \in Clients |-> NoManifest] /\ UNCHANGED <<peers, requests, edits>> BY DEF HostCrash
<1>3. Ready(host, g, e) BY <1>1, AuthorityTakes DEF Outcome
<1>4. /\ Good(g) /\ Extends(host, g) /\ Client(g, dev[c], s, peers[c], manifests[c])
      /\ ~metadataFirst => Full(g, dev[c], s, peers[c], requests[c])
  BY <1>1, <1>3, AuthorityTakes
<1>5. i \in Nat /\ FALSE \in BOOLEAN
  <2>1. s.gen \in Nat BY About DEF Session
  <2> QED BY <2>1
<1> HIDE DEF i
<1>6. Client(g, dev[c], t, peers[c], manifests[c]) /\ (~metadataFirst => Full(g, dev[c], t, peers[c], requests[c]))
  BY <1>4, <1>5, Ends
<1>7. Client(g, dev[c], t, peers[c], NoManifest) BY <1>6, Forgotten
<1> HIDE DEF t
<1>8. session' = [session EXCEPT ![c] = t] /\ session'[c] = t BY <1>2 DEF To, IInv, Tables
<1>9. manifests'[c] = NoManifest BY <1>2
<1> QED BY <1>1, <1>2, <1>4, <1>6, <1>7, <1>8, <1>9, AuthoritySession

LEMMA HostRestartStep ==
  ASSUME IInv, metadataFirst' = metadataFirst, HostRestart
  PROVE  IInv'
<1>1. /\ dev' = dev /\ peers' = peers /\ session' = session /\ requests' = requests /\ edits' = edits
      /\ manifests' = [c \in Clients |-> NoManifest]
  BY DEF HostRestart
<1>2. Parts BY <1>1 DEF Parts, IInv, Tables
<1>3. dev'[Host] = host /\ Good(host) /\ Extends(host, host)
  <2>1. Good(host) /\ dev'[Host] = host BY <1>1 DEF IInv, Devices, Device, host
  <2>2. host.head \in Nat BY <2>1 DEF Good, Solid, Shape
  <2> QED BY <2>1, <2>2 DEF Extends
<1>4. \A d \in Clients : Elsewhere(d) BY <1>1 DEF Elsewhere
<1> QED BY <1>2, <1>3, <1>4, Frame

LEMMA PushDoneStep ==
  ASSUME IInv, metadataFirst' = metadataFirst, NEW c \in Clients, PushDone(c)
  PROVE  IInv'
<1> DEFINE x  == dev[c]
           s  == session[c]
           k  == peers[c]
           m  == manifests[c]
           t  == [s EXCEPT !.acknowledged = TRUE, !.pushed = s.pushThrough]
           j  == [k EXCEPT !.pushed = IF k.pushed > s.pushThrough THEN k.pushed ELSE s.pushThrough]
           rs == outstanding(x, requests[c])
           receipt == s.acknowledged \/ (m.gen = s.gen /\ m.applied = {e.path : e \in m.members})
<1>1. /\ s.pc = "push"
      /\ \/ To(c, Repage(s)) /\ UNCHANGED <<peers, requests>>
         \/ Finish(c) /\ UNCHANGED <<peers, requests>>
         \/ /\ receipt
            /\ peers' = [peers EXCEPT ![c].pushed = IF @ > s.pushThrough THEN @ ELSE s.pushThrough]
            /\ \/ To(c, Repage(t)) /\ UNCHANGED requests
               \/ To(c, Inactive(s.gen, TRUE)) /\ requests' = [requests EXCEPT ![c] = rs]
      /\ UNCHANGED <<dev, manifests, edits>>
  BY DEF PushDone, history
<1>2. /\ Client(host, x, s, k, m) /\ Session(s) /\ Good(x) /\ Good(host) /\ x.id = c /\ Extends(host, host)
      /\ ~metadataFirst => Full(host, x, s, k, requests[c])
  BY About
<1>3. s.pushed <= k.pushed /\ (~metadataFirst => s.pulled = k.pulled)
  <2>1. s.pc # "idle" BY <1>1
  <2> QED BY <1>2, <2>1 DEF Client, Pushes, Full, Pulls
<1>4. CASE To(c, Repage(s)) /\ UNCHANGED <<peers, requests>>
  <2> DEFINE u == Repage(s)
  <2>1. Client(host, x, u, k, m) /\ \A v : Full(host, x, s, k, v) /\ s.pulled = k.pulled => Full(host, x, u, k, v)
    BY <1>2, <1>3, Repages
  <2>2. ~metadataFirst => Full(host, x, u, k, requests[c]) BY <1>2, <1>3, <2>1
  <2>3. UNCHANGED <<dev, peers, manifests, requests, edits>> BY <1>1, <1>4
  <2> HIDE DEF u
  <2>4. To(c, u) BY <1>4 DEF u
  <2> QED BY <2>1, <2>2, <2>3, <2>4, OnlySession
<1>5. CASE Finish(c) /\ UNCHANGED <<peers, requests>>
  <2>1. UNCHANGED <<dev, peers, manifests, requests, edits>> BY <1>1, <1>5
  <2> QED BY <1>5, <2>1, FinishStep
<1>6. CASE /\ receipt
           /\ peers' = [peers EXCEPT ![c].pushed = IF @ > s.pushThrough THEN @ ELSE s.pushThrough]
           /\ \/ To(c, Repage(t)) /\ UNCHANGED requests
              \/ To(c, Inactive(s.gen, TRUE)) /\ requests' = [requests EXCEPT ![c] = rs]
  <2>1. peers' = [peers EXCEPT ![c] = j] BY <1>6
  <2>2. peers'[c] = j BY <2>1 DEF IInv, Tables
  <2>3. /\ Client(host, x, s, j, m) /\ s.pushThrough <= j.pushed /\ j.pulled = k.pulled
        /\ \A v : Full(host, x, s, k, v) => Full(host, x, s, j, v)
    <3>1. j = [k EXCEPT !.pushed = IF k.pushed > s.pushThrough THEN k.pushed ELSE s.pushThrough] OBVIOUS
    <3>2. receipt BY <1>6
    <3>3. PushEndOf(s, k, m, j) BY <1>1, <3>1, <3>2 DEF PushEndOf
    <3> HIDE DEF j
    <3> QED BY <1>2, <3>3, PushEnds
  <2> HIDE DEF j
  <2>4. Session(t) /\ t.pushed = s.pushThrough /\ t.pulled = s.pulled
    <3>1. t \in [pc : {s.pc}, pulled : {s.pulled}, pushed : {s.pushThrough}, after : Nat, upper : Nat, through : Nat,
                 todo : {s.todo}, outgoing : {s.outgoing}, pushThrough : Nat, requested : {s.requested},
                 current : {s.current}, acknowledged : BOOLEAN, early : BOOLEAN, sent : BOOLEAN, gen : Nat, ok : BOOLEAN]
      <4> DEFINE v == [s EXCEPT !.pushed = s.pushThrough]
      <4>1. v \in [pc : {s.pc}, pulled : {s.pulled}, pushed : {s.pushThrough}, after : Nat, upper : Nat, through : Nat,
                   todo : {s.todo}, outgoing : {s.outgoing}, pushThrough : Nat, requested : {s.requested},
                   current : {s.current}, acknowledged : BOOLEAN, early : BOOLEAN, sent : BOOLEAN, gen : Nat, ok : BOOLEAN]
        BY ONLY <1>2 DEF Session
      <4>2. t = [v EXCEPT !.acknowledged = TRUE] OBVIOUS
      <4> HIDE DEF v, t
      <4> QED BY ONLY <4>1, <4>2
    <3> HIDE DEF t
    <3>2. /\ t.pc = s.pc /\ t.pulled = s.pulled /\ t.pushed = s.pushThrough /\ t.todo = s.todo /\ t.outgoing = s.outgoing
          /\ t.requested = s.requested /\ t.current = s.current
      BY ONLY <3>1
    <3>3. s.pc \in Phase /\ s.pulled \in Nat /\ s.pushThrough \in Nat BY <1>2 DEF Session
    <3>4. \A e \in t.todo \union t.outgoing : Record(e) BY <1>2, <3>2 DEF Session
    <3>5. t.pc \notin {"commit", "send"} BY <1>1, <3>2
    <3>6. Session(t) BY ONLY <3>1, <3>2, <3>3, <3>4, <3>5 DEF Session
    <3> QED BY <3>2, <3>6
  <2> HIDE DEF t
  <2>5. requests[c] = {} => rs = {} BY DEF outstanding
  <2>6. dev'[Host] = host /\ dev'[c] = x /\ manifests'[c] = m BY <1>1 DEF host
  <2>7. CASE To(c, Repage(t)) /\ UNCHANGED requests
    <3> DEFINE u == Repage(t)
    <3>1. t.pushed <= j.pushed BY <2>3, <2>4
    <3>2. Client(host, x, u, j, m) /\ \A v : Full(host, x, s, j, v) /\ t.pulled = j.pulled => Full(host, x, u, j, v)
      BY <2>3, <2>4, <3>1, Repages
    <3>3. ~metadataFirst => Full(host, x, u, j, requests[c]) BY <1>2, <1>3, <2>3, <2>4, <3>2
    <3> HIDE DEF u
    <3>4. session' = [session EXCEPT ![c] = u] BY <2>7 DEF To, u
    <3>5. session'[c] = u BY <3>4 DEF IInv, Tables
    <3>6. Here(c) BY <1>2, <2>2, <2>6, <2>7, <3>2, <3>3, <3>5 DEF Here
    <3> QED BY <1>1, <1>2, <2>1, <2>6, <2>7, <3>4, <3>6, OneMirror
  <2>8. CASE To(c, Inactive(s.gen, TRUE)) /\ requests' = [requests EXCEPT ![c] = rs]
    <3> DEFINE u == Inactive(s.gen, TRUE)
    <3>1. s.gen \in Nat /\ TRUE \in BOOLEAN BY <1>2 DEF Session
    <3>2. Client(host, x, u, j, m) /\ \A v : Full(host, x, s, j, v) => Full(host, x, u, j, v) BY <2>3, <3>1, Ends
    <3>3. requests'[c] = rs BY <2>8 DEF IInv, Tables
    <3>4. ~metadataFirst => Full(host, x, u, j, requests'[c])
      <4>1. ~metadataFirst => requests[c] = {} BY <1>2 DEF Full
      <4> QED BY <1>2, <2>3, <2>5, <3>2, <3>3, <4>1
    <3> HIDE DEF u, rs
    <3>5. session' = [session EXCEPT ![c] = u] BY <2>8 DEF To, u
    <3>6. session'[c] = u BY <3>5 DEF IInv, Tables
    <3>7. Here(c) BY <1>2, <2>2, <2>6, <3>2, <3>4, <3>6 DEF Here
    <3> QED BY <1>1, <1>2, <2>1, <2>6, <2>8, <3>5, <3>7, OneMirror
  <2> QED BY <1>6, <2>7, <2>8
<1> QED BY <1>1, <1>4, <1>5, <1>6

-----------------------------------------------------------------------------
(* One device changes on its own: its user, or its indexer. *)
LEMMA DeviceStep ==
  ASSUME IInv, metadataFirst' = metadataFirst, edits' \in Nat, NEW d \in Device, NEW y, Local(d, y),
         Good(y), Evolves(dev[d], y, {}), UNCHANGED <<peers, session, manifests, requests>>
  PROVE  IInv'
<1>1. dev' = [dev EXCEPT ![d] = y] /\ dev = [i \in Device |-> dev[i]] BY DEF Local, IInv, Tables
<1>2. dev' = [i \in Device |-> dev'[i]] /\ dev'[d] = y /\ \A i \in Device : i # d => dev'[i] = dev[i] BY <1>1
<1>3. peers' = peers /\ session' = session /\ manifests' = manifests /\ requests' = requests OBVIOUS
<1>4. Parts BY <1>2, <1>3 DEF Parts, IInv, Tables
<1>5. Host \in Device /\ Clients \subseteq Device /\ Host \notin Clients BY HostAssumption DEF Device
<1>6. Good(host) /\ Good(dev[d]) /\ dev[d].id = d BY <1>5 DEF IInv, Devices, host
<1>7. Extends(dev[d], y) /\ y.id = d BY <1>6 DEF Evolves, Extends
<1>8. Good(dev'[Host]) /\ Extends(host, dev'[Host])
  <2>1. CASE d = Host BY <1>2, <1>7, <2>1 DEF host
  <2>2. CASE d # Host
    <3>1. dev'[Host] = host BY <1>2, <1>5, <2>2 DEF host
    <3>2. host.head \in Nat BY <1>6 DEF Good, Solid, Shape
    <3> QED BY <1>6, <3>1, <3>2 DEF Extends
  <2> QED BY <2>1, <2>2
<1>9. ASSUME NEW c \in Clients PROVE Elsewhere(c) \/ Here(c)
  <2>1. CASE c # d BY <1>2, <1>3, <1>5, <2>1 DEF Elsewhere
  <2>2. CASE c = d
    <3>1. dev'[Host] = host /\ dev'[c] = y BY <1>2, <1>5, <2>2 DEF host
    <3>2. /\ Client(host, dev[c], session[c], peers[c], manifests[c]) /\ dev[c].id # Host /\ Good(dev[c])
          /\ ~metadataFirst => Full(host, dev[c], session[c], peers[c], requests[c])
          /\ Session(session[c]) /\ Cursor(peers[c])
      BY About
    <3>3. Client(host, y, session[c], peers[c], manifests[c]) BY <2>2, <3>2, MirrorMoves
    <3>4. ~metadataFirst => Full(host, y, session[c], peers[c], requests[c]) BY <2>2, <3>2, MirrorMovesFull
    <3>5. Here(c) BY <1>3, <1>7, <2>2, <3>1, <3>3, <3>4 DEF Here
    <3> QED BY <3>5
  <2> QED BY <2>1, <2>2
<1> QED BY <1>4, <1>8, <1>9, Frame

LEMMA EditStep ==
  ASSUME IInv, metadataFirst' = metadataFirst, NEW d \in Device, NEW p, NEW body \in Body, Edit(d, p, body)
  PROVE  IInv'
<1> DEFINE y == onDisk(dev[d], p, body)
<1>1. Local(d, y) /\ edits' = edits + 1 /\ UNCHANGED <<peers, session, manifests, requests>> BY DEF Edit
<1>2. edits' \in Nat BY <1>1 DEF IInv, Tables
<1>3. Good(dev[d]) BY DEF IInv, Devices
<1>4. Good(y) /\ Evolves(dev[d], y, {}) BY <1>3, DiskOnly
<1> HIDE DEF y
<1> QED BY <1>1, <1>2, <1>4, DeviceStep

LEMMA UserEditStep ==
  ASSUME IInv, metadataFirst' = metadataFirst, UserEdit
  PROVE  IInv'
<1>1. Deleted \in Body /\ Directory \in Body BY DEF Body
<1>2. NewContent \in Body
  <2>1. Len(Seed) \in Nat /\ edits \in Nat BY SeedAssumption, LenProperties DEF IInv, Tables
  <2> QED BY <2>1 DEF NewContent, Body, IsFile
<1>3. \E d \in Device : \E p : \E body \in {NewContent, Deleted, Directory} : Edit(d, p, body) BY DEF UserEdit
<1> QED BY <1>1, <1>2, <1>3, EditStep

LEMMA IndexStep ==
  ASSUME IInv, metadataFirst' = metadataFirst, NEW d \in Device, IndexSome(d)
  PROVE  IInv'
<1>1. PICK p : Index(d, p) BY DEF IndexSome
<1> DEFINE y == observed(dev[d], p, 0)
<1>2. Local(d, y) /\ edits' = edits /\ UNCHANGED <<peers, session, manifests, requests>> BY <1>1 DEF Index, history
<1>3. Good(dev[d]) /\ edits' \in Nat BY <1>2 DEF IInv, Devices, Tables
<1>4. Good(y) /\ Evolves(dev[d], y, {}) BY <1>3, Observed
<1> HIDE DEF y
<1> QED BY <1>2, <1>3, <1>4, DeviceStep

(* Apps ask for originals under MetadataFirst only. *)
LEMMA ChoiceStep ==
  ASSUME IInv, metadataFirst' = metadataFirst, NEW c \in Clients, Choice(c)
  PROVE  IInv'
<1>1. /\ \E v : requests' = [requests EXCEPT ![c] = v]
      /\ dev' = dev /\ peers' = peers /\ session' = session /\ manifests' = manifests /\ edits' = edits
  BY DEF Choice, Request, CancelRequest, history
<1>2. metadataFirst
  <2>1. CASE \E p \in DOMAIN dev[c].entries : Request(c, p) BY <2>1 DEF Request
  <2>2. CASE \E r \in requests[c] : CancelRequest(c, r)
    <3>1. requests[c] # {} BY <2>2
    <3> QED BY <3>1 DEF IInv, FullMirrors, Full
  <2> QED BY <2>1, <2>2 DEF Choice
<1>3. dev'[Host] = host BY <1>1 DEF host
<1>4. Here(c) BY <1>1, <1>2, <1>3, About DEF Here
<1> QED BY <1>1, <1>3, <1>4, About, OneMirror

-----------------------------------------------------------------------------
(* The first state. *)
LEMMA SeedFacts ==
  /\ Len(Seed) \in Nat
  /\ \A i \in 1..Len(Seed) : /\ Seed[i].body \in Body /\ SeedClock(i) \in Clock
                             /\ <<Seed[i].name>> \in SeedPaths /\ SeedIndex(<<Seed[i].name>>) = i
  /\ \A p \in SeedPaths : SeedIndex(p) \in 1..Len(Seed) /\ p = <<Seed[SeedIndex(p)].name>>
<1> DEFINE N == Len(Seed)
<1>1. N \in Nat BY SeedAssumption, LenProperties
<1>2. ASSUME NEW i \in 1..N PROVE Seed[i] \in [name : Names, body : Body \ {Deleted}] BY SeedAssumption, ElementOfSeq
<1> HIDE DEF N
<1>3. ASSUME NEW i \in 1..N PROVE Seed[i].body \in Body BY <1>2
<1>4. ASSUME NEW i \in 1..N PROVE SeedClock(i) \in Clock
  <2>1. i \in Nat BY <1>1
  <2> QED BY <2>1 DEF SeedClock, Clock, ZeroClock
<1>5. \A p : p \in SeedPaths <=> \E i \in 1..N : <<Seed[i].name>> = p BY DEF SeedPaths, N
<1>6. ASSUME NEW p \in SeedPaths PROVE SeedIndex(p) \in 1..N /\ p = <<Seed[SeedIndex(p)].name>>
  <2>1. \E i \in 1..N : <<Seed[i].name>> = p BY <1>5
  <2> QED BY <2>1 DEF SeedIndex, N
<1>7. ASSUME NEW i \in 1..N PROVE <<Seed[i].name>> \in SeedPaths /\ SeedIndex(<<Seed[i].name>>) = i
  <2> DEFINE p == <<Seed[i].name>>
             j == SeedIndex(p)
  <2>1. p \in SeedPaths BY <1>5
  <2>2. j \in 1..N /\ p = <<Seed[j].name>> BY <1>6, <2>1
  <2>3. Seed[i].name = Seed[j].name BY <2>2
  <2> HIDE DEF p, j
  <2>4. j = i BY <2>2, <2>3, SeedAssumption DEF N
  <2> QED BY <2>1, <2>4 DEF p, j
<1> QED BY <1>1, <1>3, <1>4, <1>6, <1>7 DEF N

LEMMA SeededFacts ==
  ASSUME NEW d \in Device
  PROVE  LET x == SeededDevice(d) IN
         /\ Good(x) /\ x.id = d /\ x.head = Len(Seed) /\ x.seq = Len(Seed)
         /\ DOMAIN x.entries = SeedPaths
         /\ \A p \in SeedPaths : /\ x.entries[p].seq = SeedIndex(p) /\ x.entries[p].rev = SeedIndex(p)
                                 /\ x.entries[p].clock = SeedClock(SeedIndex(p))
         /\ \A n \in 1..Len(Seed) : x.journal[n] = [path |-> <<Seed[n].name>>, body |-> Seed[n].body,
                                                    clock |-> SeedClock(n), parents |-> {}]
<1> DEFINE x  == SeededDevice(d)
           N  == Len(Seed)
           dk == [p \in SeedPaths |-> Seed[SeedIndex(p)].body]
           es == [p \in SeedPaths |->
                    [path |-> p, body |-> Seed[SeedIndex(p)].body, clock |-> SeedClock(SeedIndex(p)),
                     rev |-> SeedIndex(p), base |-> 0, seq |-> SeedIndex(p), remote |-> FALSE]]
           jo == [i \in 1..N |-> [path |-> <<Seed[i].name>>, body |-> Seed[i].body, clock |-> SeedClock(i), parents |-> {}]]
<1>1. x = [id |-> d, disk |-> dk, entries |-> es, seq |-> N, counter |-> IF d = Host THEN N ELSE 0, journal |-> jo, head |-> N]
  BY DEF SeededDevice
<1>2. N \in Nat BY SeedFacts
<1>3. ASSUME NEW n \in 1..N
      PROVE  /\ jo[n] = [path |-> <<Seed[n].name>>, body |-> Seed[n].body, clock |-> SeedClock(n), parents |-> {}]
             /\ jo[n].path = <<Seed[n].name>> /\ jo[n].body = Seed[n].body /\ jo[n].clock = SeedClock(n)
  OBVIOUS
<1>4. ASSUME NEW p \in SeedPaths
      PROVE  /\ es[p] \in Entry(p) /\ es[p].seq = SeedIndex(p) /\ es[p].rev = SeedIndex(p) /\ es[p].base = 0
             /\ es[p].clock = SeedClock(SeedIndex(p)) /\ es[p].body = Seed[SeedIndex(p)].body
  <2> DEFINE i == SeedIndex(p)
  <2>1. i \in 1..N /\ Seed[i].body \in Body /\ SeedClock(i) \in Clock BY SeedFacts
  <2>2. i \in Nat BY <1>2, <2>1
  <2>3. es[p] = [path |-> p, body |-> Seed[i].body, clock |-> SeedClock(i),
                 rev |-> i, base |-> 0, seq |-> i, remote |-> FALSE]
    OBVIOUS
  <2> HIDE DEF es, i
  <2> QED BY <2>1, <2>2, <2>3 DEF Entry, i
<1>5. ASSUME NEW p \in SeedPaths PROVE dk[p] \in Body BY SeedFacts
<1>6. DOMAIN es = SeedPaths /\ DOMAIN dk = SeedPaths OBVIOUS
<1> HIDE DEF dk, es, jo, x, N
<1>7. x.id = d /\ x.disk = dk /\ x.entries = es /\ x.seq = N /\ x.journal = jo /\ x.head = N /\ Shape(x)
  BY <1>1, <1>2 DEF Shape
<1>8. ASSUME NEW p \in SeedPaths
      PROVE  /\ x.entries[p] \in Entry(p) /\ x.entries[p].seq <= x.seq
             /\ Backs(x, p, x.entries[p]) /\ Based(x, p, x.entries[p].base)
  <2>1. SeedIndex(p) \in 1..N /\ p = <<Seed[SeedIndex(p)].name>> BY SeedFacts DEF N
  <2>2. SeedIndex(p) <= N BY <1>2, <2>1
  <2>3. Backs(x, p, x.entries[p])
    <3>1. /\ x.journal[SeedIndex(p)].path = p /\ x.journal[SeedIndex(p)].body = Seed[SeedIndex(p)].body
          /\ x.journal[SeedIndex(p)].clock = SeedClock(SeedIndex(p))
      BY <1>3, <1>7, <2>1
    <3>2. /\ x.entries[p].rev = SeedIndex(p) /\ x.entries[p].body = Seed[SeedIndex(p)].body
          /\ x.entries[p].clock = SeedClock(SeedIndex(p)) /\ x.head = N
      BY <1>4, <1>7
    <3> QED BY <2>1, <3>1, <3>2 DEF Backs, Version
  <2>4. Based(x, p, x.entries[p].base) BY <1>4, <1>7 DEF Based
  <2> QED BY <1>4, <1>7, <2>2, <2>3, <2>4
<1>9. \A n \in 1..x.head : x.journal[n].body \in Body /\ x.journal[n].clock \in Clock /\ x.journal[n].path \in SeedPaths
  BY <1>3, <1>7, SeedFacts DEF N
<1>10. \A p \in DOMAIN x.disk : x.disk[p] \in Body BY <1>5, <1>6, <1>7
<1>11. Good(x) BY <1>6, <1>7, <1>8, <1>9, <1>10 DEF Good, Solid, Whole
<1> QED BY <1>3, <1>4, <1>6, <1>7, <1>11 DEF x, N

LEMMA InitInvariant == Init => IInv
<1> SUFFICES ASSUME Init PROVE IInv OBVIOUS
<1>1. /\ dev = [d \in Device |-> SeededDevice(d)] /\ peers = [c \in Clients |-> [pulled |-> Len(Seed), pushed |-> Len(Seed)]]
      /\ session = [c \in Clients |-> Inactive(0, FALSE)] /\ manifests = [c \in Clients |-> NoManifest]
      /\ requests = [c \in Clients |-> {}] /\ metadataFirst \in Policies /\ edits = 0
  BY DEF Init
<1>2. Tables BY <1>1 DEF Tables
<1>3. \A d \in Device : dev[d] = SeededDevice(d) BY <1>1
<1>4. Devices BY <1>3, SeededFacts DEF Devices
<1>5. ASSUME NEW c \in Clients
      PROVE  /\ Client(host, dev[c], session[c], peers[c], manifests[c])
             /\ Full(host, dev[c], session[c], peers[c], requests[c])
  <2> DEFINE N == Len(Seed)
             h == host
             x == dev[c]
             k == peers[c]
             s == session[c]
             m == manifests[c]
  <2>1. c \in Device /\ Host \in Device BY DEF Device
  <2>2. h = SeededDevice(Host) /\ x = SeededDevice(c) BY <1>3, <2>1 DEF host
  <2>3. N \in Nat BY SeedFacts
  <2>4. k = [pulled |-> N, pushed |-> N] /\ s = Inactive(0, FALSE) /\ m = NoManifest /\ requests[c] = {} BY <1>1
  <2>5. k.pulled = N /\ k.pushed = N /\ Cursor(k) BY <2>3, <2>4 DEF Cursor
  <2>6. /\ s.pc = "idle" /\ s.todo = {} /\ s.outgoing = {} /\ s.requested = {} /\ s.early = FALSE
        /\ s \in [pc : Phase, pulled : Nat, pushed : Nat, after : Nat, upper : Nat, through : Nat,
                  todo : {{}}, outgoing : {{}}, pushThrough : Nat, requested : {{}},
                  current : {NoRecord}, acknowledged : BOOLEAN, early : BOOLEAN, sent : BOOLEAN, gen : Nat, ok : BOOLEAN]
    BY <2>4 DEF Inactive, Phase
  <2>7. m.gen = -1 /\ m.members = {} /\ m.applied = {} /\ m = [gen |-> m.gen, members |-> m.members, applied |-> m.applied]
    BY <2>4 DEF NoManifest
  <2>8. /\ h.head = N /\ x.head = N /\ x.seq = N /\ DOMAIN x.entries = SeedPaths
        /\ \A n \in 1..N : x.journal[n] = h.journal[n]
        /\ \A n \in 1..N : h.journal[n].path = <<Seed[n].name>> /\ h.journal[n].clock = SeedClock(n)
        /\ \A p \in SeedPaths : x.entries[p].seq = SeedIndex(p) /\ x.entries[p].rev = SeedIndex(p)
                                /\ x.entries[p].clock = SeedClock(SeedIndex(p))
    <3> HIDE DEF h, x
    <3>1. /\ h.head = N /\ x.head = N /\ x.seq = N /\ DOMAIN x.entries = SeedPaths
          /\ \A p \in SeedPaths : x.entries[p].seq = SeedIndex(p) /\ x.entries[p].rev = SeedIndex(p)
                                  /\ x.entries[p].clock = SeedClock(SeedIndex(p))
      BY <2>1, <2>2, SeededFacts
    <3>2. ASSUME NEW n \in 1..N
          PROVE  x.journal[n] = h.journal[n] /\ h.journal[n].path = <<Seed[n].name>> /\ h.journal[n].clock = SeedClock(n)
      <4> DEFINE row == [path |-> <<Seed[n].name>>, body |-> Seed[n].body, clock |-> SeedClock(n), parents |-> {}]
      <4>1. h.journal[n] = row /\ x.journal[n] = row BY <2>1, <2>2, SeededFacts
      <4>2. row.path = <<Seed[n].name>> /\ row.clock = SeedClock(n) OBVIOUS
      <4> HIDE DEF row
      <4> QED BY <4>1, <4>2
    <3> QED BY <3>1, <3>2
  <2> HIDE DEF h, x, k, s, m
  <2>9. ASSUME NEW p \in SeedPaths PROVE Decided(h, p, x.entries[p])
    <3> DEFINE n == SeedIndex(p)
    <3>1. n \in 1..N /\ p = <<Seed[n].name>> /\ SeedClock(n) \in Clock BY SeedFacts
    <3>2. h.journal[n].path = p /\ h.journal[n].clock = SeedClock(n) BY <2>8, <3>1
    <3>3. Covers(h.journal[n].clock, x.entries[p].clock) BY <2>8, <3>1, <3>2, CoversItself
    <3>4. h.journal[n].body = x.entries[p].body
      <4>1. Good(x) /\ x.entries[p].rev = n /\ p \in DOMAIN x.entries /\ n # 0 BY <2>1, <2>2, <2>8, <3>1, SeededFacts DEF x
      <4>2. Backs(x, p, x.entries[p]) BY <4>1 DEF Good, Solid
      <4> QED BY <2>8, <3>1, <4>1, <4>2, BackedPath
    <3> HIDE DEF n
    <3> QED BY <2>8, <3>1, <3>2, <3>3, <3>4 DEF Decided
  <2>10. ASSUME NEW n \in 1..N PROVE Took(h, x, n)
    <3>1. h.journal[n].path \in SeedPaths /\ SeedIndex(h.journal[n].path) = n BY <2>8, SeedFacts
    <3>2. x.entries[h.journal[n].path].rev = n BY <2>8, <3>1
    <3>3. n >= n BY <2>3
    <3> QED BY <2>8, <3>1, <3>2, <3>3 DEF Took
  <2> HIDE DEF N
  <2>11. N <= N BY <2>3
  <2>12. Session(s) BY <2>6 DEF Session
  <2>13. Follows(h, x, s) BY <2>6, <2>8, <2>11 DEF Follows
  <2>14. Plan(h, m) BY <2>7 DEF Plan
  <2>15. Pushes(h, x, s, k, m)
    <3>1. s.pc \notin Announced BY <2>6 DEF Announced
    <3> QED BY <2>5, <2>6, <2>8, <2>9, <2>11, <3>1 DEF Pushes
  <2>16. Pulls(h, x, s, k) BY <2>5, <2>6, <2>8, <2>10, <2>11 DEF Pulls
  <2> QED BY <2>4, <2>5, <2>12, <2>13, <2>14, <2>15, <2>16 DEF Client, Full, h, x, s, k, m
<1>6. Mirrors BY <1>5 DEF Mirrors
<1>7. FullMirrors BY <1>5 DEF FullMirrors
<1> QED BY <1>2, <1>4, <1>6, <1>7 DEF IInv

LEMMA NextInvariant ==
  ASSUME IInv, Next, metadataFirst' = metadataFirst
  PROVE  IInv'
<1>1. CASE UserEdit BY <1>1, UserEditStep
<1>2. CASE HostRestart BY <1>2, HostRestartStep
<1>3. CASE \E d \in Device : IndexSome(d) BY <1>3, IndexStep
<1>4. ASSUME NEW c \in Clients, Round(c) PROVE IInv'
  <2>1. CASE Start(c) BY <2>1, StartStep
  <2>2. CASE ScanFailed(c) BY <2>2, ScanFailedStep
  <2>3. CASE ChangesPage(c) BY <2>3, ChangesPageStep
  <2>4. CASE JournalPage(c) BY <2>4, JournalPageStep
  <2>5. CASE Announce(c) BY <2>5, AnnounceStep
  <2>6. CASE \E e \in session[c].todo : PullMetadata(c, e) BY <2>6, PullMetadataStep
  <2>7. CASE \E e \in session[c].todo : PullBegin(c, e) BY <2>7, PullBeginStep
  <2>8. CASE \E e \in session[c].todo : PushBegin(c, e) BY <2>8, PushBeginStep
  <2>9. CASE PullCommit(c) BY <2>9, PullCommitStep
  <2>10. CASE EarlyPush(c) BY <2>10, EarlyPushStep
  <2>11. CASE PullDone(c) BY <2>11, PullDoneStep
  <2>12. CASE SendFailed(c) BY <2>12, SendFailedStep
  <2>13. CASE PushCommit(c) BY <2>13, PushCommitStep
  <2>14. CASE PushDone(c) BY <2>14, PushDoneStep
  <2> QED BY <1>4, <2>1, <2>2, <2>3, <2>4, <2>5, <2>6, <2>7, <2>8, <2>9, <2>10, <2>11, <2>12, <2>13, <2>14 DEF Round
<1>5. ASSUME NEW c \in Clients, Fault(c) PROVE IInv'
  <2>1. CASE SliceExpired(c) BY <2>1, SliceExpiredStep
  <2>2. CASE Abort(c) BY <2>2, AbortStep
  <2>3. CASE HostCrash(c) BY <2>3, HostCrashStep
  <2>4. CASE ClientCrash(c) BY <2>4, ClientCrashStep
  <2>5. CASE \E m \in late[c] : LateCommit(c, m) BY <2>5, LateCommitStep
  <2> QED BY <1>5, <2>1, <2>2, <2>3, <2>4, <2>5 DEF Fault
<1>6. ASSUME NEW c \in Clients, Choice(c) PROVE IInv' BY <1>6, ChoiceStep
<1> QED BY <1>1, <1>2, <1>3, <1>4, <1>5, <1>6 DEF Next

-----------------------------------------------------------------------------
(***************************************************************************)
(* The inductive invariant: devices whose records are backed by their      *)
(* journals, mirrors whose journals, queues and cursors fit the            *)
(* authority's (Replica::save, merge, acceptJournal, savePeerState).       *)
(***************************************************************************)
THEOREM Invariance == Spec => []IInv
<1>1. Init => IInv BY InitInvariant
<1>2. IInv /\ [Next /\ UNCHANGED metadataFirst]_<<vars, metadataFirst>> => IInv'
  <2> SUFFICES ASSUME IInv, [Next /\ UNCHANGED metadataFirst]_<<vars, metadataFirst>> PROVE IInv' OBVIOUS
  <2>1. CASE Next /\ UNCHANGED metadataFirst BY <2>1, NextInvariant
  <2>2. CASE UNCHANGED <<vars, metadataFirst>>
    <3>1. /\ dev' = dev /\ peers' = peers /\ session' = session /\ manifests' = manifests /\ requests' = requests
          /\ edits' = edits /\ metadataFirst' = metadataFirst
      BY <2>2 DEF vars
    <3> QED BY <3>1 DEF IInv, Tables, Devices, Mirrors, FullMirrors, host
  <2> QED BY <2>1, <2>2
<1> QED BY <1>1, <1>2, PTL DEF Spec

(***************************************************************************)
(* However many mirrors page the authority's history, and whichever rounds *)
(* fail, crash or are replayed, a mirror's copy of the change journal is a *)
(* prefix of the authority's (Replica::acceptJournal).                     *)
(***************************************************************************)
THEOREM OneHistory == Spec => []JournalPrefix
<1>1. IInv => JournalPrefix BY DEF IInv, Mirrors, Client, Follows, JournalPrefix
<1> QED BY <1>1, Invariance, PTL

(***************************************************************************)
(* The push cursor never passes over a proposal the authority has not      *)
(* decided (pushNext, snapshot.complete), whatever the content policy.     *)
(***************************************************************************)
THEOREM NothingUndecided == Spec => [](\A c \in Clients : PushCursorSound(c))
<1>1. IInv => \A c \in Clients : PushCursorSound(c)
  <2> SUFFICES ASSUME IInv, NEW c \in Clients, NEW p \in DOMAIN dev[c].entries,
                      dev[c].entries[p].seq <= peers[c].pushed
               PROVE  \E n \in Revisions(host, p, host.head) : Covers(host.journal[n].clock, dev[c].entries[p].clock)
    BY DEF PushCursorSound
  <2>1. Decided(host, p, dev[c].entries[p]) BY About DEF Client, Pushes
  <2>2. host.head \in Nat BY About DEF Good, Solid, Shape
  <2>3. PICK n \in 1..host.head : host.journal[n].path = p /\ Covers(host.journal[n].clock, dev[c].entries[p].clock)
    BY <2>1 DEF Decided
  <2>4. n \in Revisions(host, p, host.head) BY <2>2, <2>3 DEF Revisions
  <2> QED BY <2>3, <2>4
<1> QED BY <1>1, Invariance, PTL

(***************************************************************************)
(* Under FullReplica neither cursor passes over anything: every revision   *)
(* up to the pull cursor has been taken in, is superseded, or is replaced  *)
(* by a local proposal (pullNext, savePeerState).                          *)
(***************************************************************************)
THEOREM NothingSkipped == Spec => [](~metadataFirst => CursorSound)
<1>1. IInv => (~metadataFirst => \A c \in Clients : PullCursorSound(c))
  <2> SUFFICES ASSUME IInv, ~metadataFirst, NEW c \in Clients PROVE PullCursorSound(c) OBVIOUS
  <2> DEFINE h == host
             x == dev[c]
             t == peers[c].pulled
  <2>1. Good(h) /\ Good(x) /\ Cursor(peers[c]) /\ Pulls(h, x, session[c], peers[c]) BY About DEF Full
  <2>2. h.head \in Nat /\ t \in Nat /\ t <= h.head /\ \A n \in 1..t : Took(h, x, n)
    BY <2>1 DEF Good, Solid, Shape, Cursor, Pulls
  <2> HIDE DEF h, x, t
  <2>3. ASSUME NEW n \in 1..t
        PROVE  LET p == h.journal[n].path
                   e == entry(x, p)
               IN e.body # Missing /\ (Pending(e) \/ e.rev >= LatestUpTo(h, p, t))
    <3> DEFINE p == h.journal[n].path
               e == entry(x, p)
               l == LatestUpTo(h, p, t)
    <3>1. n \in 1..h.head /\ n <= t BY <2>2
    <3>2. l # 0 /\ l \in 1..h.head /\ l <= t /\ h.journal[l].path = p BY <2>2, <3>1, LatestFacts
    <3>3. l \in 1..t BY <2>2, <3>2
    <3>4. Took(h, x, l) BY <2>2, <3>3
    <3>5. p \in DOMAIN x.entries /\ (x.entries[p].rev = 0 \/ x.entries[p].rev >= l) BY <3>2, <3>4 DEF Took
    <3>6. e = x.entries[p] /\ x.entries[p] \in Entry(p) /\ Missing \notin Body BY <2>1, <3>5, Holds
    <3>7. e.body # Missing BY <3>6 DEF Entry
    <3> HIDE DEF p, e, l
    <3>8. Pending(e) \/ e.rev >= l BY <3>5, <3>6, <3>7 DEF Pending
    <3> QED BY <3>7, <3>8 DEF p, e, l
  <2> QED BY <2>3 DEF PullCursorSound, h, x, t
<1>2. IInv /\ (\A c \in Clients : PushCursorSound(c)) => (~metadataFirst => CursorSound) BY <1>1 DEF CursorSound
<1> QED BY <1>2, Invariance, NothingUndecided, PTL

-----------------------------------------------------------------------------
(***************************************************************************)
(* What a device may take off its disk.  Paths are sequences, so that a    *)
(* conflict copy never has the name of its original; a record of the       *)
(* authority names its latest revision.                                    *)
(***************************************************************************)
Path(p) == \E T : p \in Seq(T)

Tidy(x) ==
  /\ \A p \in DOMAIN x.disk : Path(p)
  /\ \A p \in DOMAIN x.entries : Path(p)
  /\ \A n \in 1..x.head : Path(x.journal[n].path)
  /\ x.id = Host => \A p \in DOMAIN x.entries : x.entries[p].rev = object(x, p)

SameTable(x, y) ==
  y.id = x.id /\ y.disk = x.disk /\ y.entries = x.entries /\ y.journal = x.journal /\ y.head = x.head

LEMMA CopyPath ==
  ASSUME NEW l, Path(l.path)
  PROVE  Path(conflictPath(l)) /\ conflictPath(l) # l.path
<1>1. PICK T : l.path \in Seq(T) BY DEF Path
<1> DEFINE S == T \union {l.body, l.clock}
           s == <<l.body, l.clock>>
<1>2. l.path \in Seq(S) /\ s \in Seq(S) /\ Len(s) = 2
  <2>1. \A i \in 1..Len(l.path) : l.path[i] \in S BY <1>1
  <2>2. l.path \in Seq(S) BY <1>1, <2>1
  <2> QED BY <2>2
<1> HIDE DEF S, s
<1>3. conflictPath(l) = l.path \o s BY DEF conflictPath, s
<1>4. l.path \o s \in Seq(S) /\ Len(l.path \o s) = Len(l.path) + 2 /\ Len(l.path) \in Nat
  <2>1. l.path \o s \in Seq(S) /\ Len(l.path \o s) = Len(l.path) + Len(s) BY <1>2, ConcatProperties
  <2>2. Len(l.path) \in Nat BY <1>2, LenProperties
  <2> QED BY <1>2, <2>1, <2>2
<1>5. l.path \o s # l.path BY <1>4
<1> QED BY <1>3, <1>4, <1>5 DEF Path

LEMMA ParentPath == ASSUME NEW p PROVE Path(parent(p))
<1>1. <<Parent[p[1]]>> \in Seq({Parent[p[1]]}) OBVIOUS
<1> QED BY <1>1 DEF Path, parent

LEMMA OneName == ASSUME NEW n PROVE Path(<<n>>)
<1>1. <<n>> \in Seq({n}) OBVIOUS
<1> QED BY <1>1 DEF Path

(* A path of the disk changes and nothing else. *)
LEMMA Written ==
  ASSUME NEW x, Good(x), NEW p, NEW body \in Body
  PROVE  LET y == onDisk(x, p, body)
         IN /\ SameIndex(x, y) /\ Good(y) /\ DOMAIN y.disk \subseteq DOMAIN x.disk \union {p}
            /\ \A q \in DOMAIN x.disk : q # p => q \in DOMAIN y.disk /\ y.disk[q] = x.disk[q]
            /\ body # Deleted => p \in DOMAIN y.disk /\ y.disk[p] = body
<1> DEFINE y == onDisk(x, p, body)
           f == [q \in (DOMAIN x.disk \ {p}) \union (IF body = Deleted THEN {} ELSE {p}) |->
                   IF q = p THEN body ELSE x.disk[q]]
<1>1. Shape(x) BY DEF Good, Solid
<1>2. y = [x EXCEPT !.disk = f] BY DEF onDisk
<1>3. /\ DOMAIN f \subseteq DOMAIN x.disk \union {p}
      /\ \A q \in DOMAIN x.disk : q # p => q \in DOMAIN f /\ f[q] = x.disk[q]
      /\ body # Deleted => p \in DOMAIN f /\ f[p] = body
  OBVIOUS
<1>4. SameIndex(x, y) /\ Good(y) BY DiskOnly
<1> HIDE DEF f, y
<1>5. y.disk = f BY <1>1, <1>2 DEF Shape
<1> QED BY <1>3, <1>4, <1>5 DEF y

LEMMA SameTidy ==
  ASSUME NEW x, Tidy(x), NEW y, SameIndex(x, y), \A p \in DOMAIN y.disk : Path(p)
  PROVE  Tidy(y)
BY DEF Tidy, SameIndex, object, LatestUpTo, Revisions

LEMMA ParentWritten ==
  ASSUME NEW x, Good(x), NEW p
  PROVE  LET y == withParent(x, p)
         IN /\ SameIndex(x, y) /\ Good(y) /\ DOMAIN y.disk \subseteq DOMAIN x.disk \union {parent(p)}
            /\ \A q \in DOMAIN x.disk : q \in DOMAIN y.disk /\ y.disk[q] = x.disk[q]
<1>1. Directory \in Body BY DEF Body
<1>2. CASE parent(p) = <<Root>> \/ parent(p) \in DOMAIN x.disk BY <1>2 DEF withParent, SameIndex
<1>3. CASE ~(parent(p) = <<Root>> \/ parent(p) \in DOMAIN x.disk)
  <2>1. withParent(x, p) = onDisk(x, parent(p), Directory) BY <1>3 DEF withParent
  <2> QED BY <1>1, <1>3, <2>1, Written
<1> QED BY <1>2, <1>3

(* Only the path that is committed gets another revision. *)
LEMMA CommitAdds ==
  ASSUME NEW x, Good(x), NEW e, NEW base
  PROVE  LET z == commit(x, e, base)
         IN /\ z.disk = x.disk /\ z.entries = x.entries /\ z.id = x.id /\ z.head \in Nat /\ x.head \in Nat /\ x.head <= z.head
            /\ \A n \in 1..x.head : z.journal[n] = x.journal[n]
            /\ \A n \in 1..z.head : n \in 1..x.head \/ z.journal[n].path = e.path
<1> DEFINE z == commit(x, e, base)
           row == [path |-> e.path, body |-> e.body, clock |-> e.clock,
                   parents |-> {object(x, e.path), IF base <= x.head THEN base ELSE 0} \ {0}]
           f == [n \in 1..x.head + 1 |-> IF n <= x.head THEN x.journal[n] ELSE row]
<1>1. Shape(x) /\ x.head \in Nat BY DEF Good, Solid, Shape
<1>2. z = x \/ z = append(x, row) BY DEF commit
<1>3. append(x, row) = [x EXCEPT !.head = x.head + 1, !.journal = f] BY DEF append
<1>4. row.path = e.path OBVIOUS
<1>5. (\A n \in 1..x.head : f[n] = x.journal[n]) /\ f[x.head + 1] = row BY <1>1
<1>6. \A n \in 1..(x.head + 1) : n \in 1..x.head \/ n = x.head + 1 BY <1>1
<1> HIDE DEF z, row, f
<1>7. CASE z = x BY <1>1, <1>7 DEF z
<1>8. CASE z = append(x, row)
  <2>1. z.disk = x.disk /\ z.entries = x.entries /\ z.id = x.id /\ z.head = x.head + 1 /\ z.journal = f
    BY <1>1, <1>3, <1>8 DEF Shape
  <2>2. \A n \in 1..z.head : n \in 1..x.head \/ z.journal[n].path = e.path BY <1>4, <1>5, <1>6, <2>1
  <2> QED BY <1>1, <1>5, <2>1, <2>2 DEF z
<1> QED BY <1>2, <1>7, <1>8

(* Saving a record leaves the disk alone. *)
LEMMA SavedTidy ==
  ASSUME NEW x, Good(x), NEW e, x.id = Host => Record(e), NEW remote \in BOOLEAN, NEW base
  PROVE  LET y == save(x, e, remote, base)
         IN /\ y.disk = x.disk /\ e.path \in DOMAIN y.entries
            /\ y.entries[e.path].body = e.body /\ (y.entries[e.path].remote <=> remote)
            /\ Tidy(x) /\ Path(e.path) => Tidy(y)
<1> DEFINE z == IF x.id = Host THEN commit(x, e, base) ELSE x
           prev == entry(x, e.path)
           new == Version(prev) # Version(e)
           kept == [path |-> e.path, body |-> e.body, clock |-> e.clock,
                    rev |-> IF z.id = Host THEN object(z, e.path) ELSE e.rev,
                    base |-> IF z.id = Host \/ e.rev # 0 THEN 0 ELSE e.base,
                    seq |-> IF new THEN z.seq + 1 ELSE prev.seq, remote |-> remote]
           f == [q \in DOMAIN z.entries \union {e.path} |-> IF q = e.path THEN kept ELSE z.entries[q]]
           y == save(x, e, remote, base)
<1>1. y = [z EXCEPT !.seq = IF new THEN z.seq + 1 ELSE z.seq, !.entries = f] BY DEF save, recorded
<1>2. /\ z.disk = x.disk /\ z.entries = x.entries /\ z.id = x.id /\ z.head \in Nat /\ x.head \in Nat /\ x.head <= z.head
      /\ \A n \in 1..x.head : z.journal[n] = x.journal[n]
      /\ \A n \in 1..z.head : n \in 1..x.head \/ z.journal[n].path = e.path
  <2>1. CASE x.id = Host BY <2>1, CommitAdds
  <2>2. CASE x.id # Host
    <3>1. x.head \in Nat BY DEF Good, Solid, Shape
    <3> QED BY <2>2, <3>1
  <2> QED BY <2>1, <2>2
<1>3. Shape(z)
  <2>1. CASE x.id = Host BY <2>1, Committed DEF Solid
  <2>2. CASE x.id # Host BY <2>2 DEF Good, Solid
  <2> QED BY <2>1, <2>2
<1>4. kept.body = e.body /\ kept.remote = remote /\ (z.id = Host => kept.rev = object(z, e.path)) OBVIOUS
<1> HIDE DEF z, prev, new, kept
<1>5. DOMAIN f = DOMAIN x.entries \union {e.path} /\ f[e.path] = kept
      /\ \A q \in DOMAIN x.entries : q # e.path => f[q] = x.entries[q]
  BY <1>2
<1> HIDE DEF f, y
<1>6. y.disk = x.disk /\ y.entries = f /\ y.id = x.id /\ y.journal = z.journal /\ y.head = z.head
  <2> DEFINE k == IF new THEN z.seq + 1 ELSE z.seq
  <2>1. y = [z EXCEPT !.seq = k, !.entries = f] BY <1>1
  <2> HIDE DEF k
  <2> QED BY <1>2, <1>3, <2>1 DEF Shape
<1>7. ASSUME Tidy(x), Path(e.path) PROVE Tidy(y)
  <2>1. \A p \in DOMAIN y.disk : Path(p) BY <1>6, <1>7 DEF Tidy
  <2>2. \A p \in DOMAIN y.entries : Path(p) BY <1>5, <1>6, <1>7 DEF Tidy
  <2>3. \A n \in 1..y.head : Path(y.journal[n].path) BY <1>2, <1>6, <1>7 DEF Tidy
  <2>4. ASSUME y.id = Host, NEW p \in DOMAIN y.entries PROVE y.entries[p].rev = object(y, p)
    <3>1. object(y, p) = object(z, p) BY <1>6 DEF object, LatestUpTo, Revisions
    <3>2. CASE p = e.path BY <1>2, <1>4, <1>5, <1>6, <2>4, <3>1, <3>2
    <3>3. CASE p # e.path
      <4>1. p \in DOMAIN x.entries /\ y.entries[p] = x.entries[p] BY <1>5, <1>6, <3>3
      <4>2. x.entries[p].rev = object(x, p) BY <1>6, <1>7, <2>4, <4>1 DEF Tidy
      <4>3. Revisions(z, p, z.head) = Revisions(x, p, x.head)
        <5>1. \A n \in 1..x.head : n \in 1..z.head /\ n <= x.head /\ n <= z.head BY <1>2
        <5>2. ASSUME NEW n \in 1..z.head, z.journal[n].path = p PROVE n \in 1..x.head BY <1>2, <3>3, <5>2
        <5> QED BY <1>2, <5>1, <5>2 DEF Revisions
      <4>4. object(z, p) = object(x, p) BY <4>3 DEF object, LatestUpTo
      <4> QED BY <3>1, <4>1, <4>2, <4>4
    <3> QED BY <3>2, <3>3
  <2> QED BY <2>1, <2>2, <2>3, <2>4 DEF Tidy
<1> QED BY <1>4, <1>5, <1>6, <1>7 DEF y

LEMMA SavedDisk ==
  ASSUME NEW x, Good(x), NEW e, x.id = Host => Record(e), NEW remote \in BOOLEAN, NEW base
  PROVE  save(x, e, remote, base).disk = x.disk
<1> DEFINE z == IF x.id = Host THEN commit(x, e, base) ELSE x
           prev == entry(x, e.path)
           kept == [path |-> e.path, body |-> e.body, clock |-> e.clock,
                    rev |-> IF z.id = Host THEN object(z, e.path) ELSE e.rev,
                    base |-> IF z.id = Host \/ e.rev # 0 THEN 0 ELSE e.base,
                    seq |-> IF Version(prev) # Version(e) THEN z.seq + 1 ELSE prev.seq, remote |-> remote]
           f == [q \in DOMAIN z.entries \union {e.path} |-> IF q = e.path THEN kept ELSE z.entries[q]]
           k == IF Version(prev) # Version(e) THEN z.seq + 1 ELSE z.seq
           y == save(x, e, remote, base)
<1>1. y = [z EXCEPT !.seq = k, !.entries = f] BY DEF save, recorded
<1>2. z.disk = x.disk /\ Shape(z)
  <2>1. CASE x.id = Host BY <2>1, CommitAdds, Committed DEF Solid
  <2>2. CASE x.id # Host BY <2>2 DEF Good, Solid
  <2> QED BY <2>1, <2>2
<1> HIDE DEF z, k, f, y
<1>3. y.disk = z.disk BY <1>1, <1>2 DEF Shape
<1> QED BY <1>2, <1>3 DEF y

(* A file on the disk that has been observed is the record of its path. *)
LEMMA ObservedTidy ==
  ASSUME NEW x, Good(x), NEW p, NEW base
  PROVE  LET y == observed(x, p, base)
         IN /\ y.disk = x.disk
            /\ Tidy(x) /\ Path(p) => Tidy(y)
            /\ p \in DOMAIN x.disk /\ IsFile(x.disk[p]) =>
                 p \in DOMAIN y.entries /\ y.entries[p].body = x.disk[p] /\ ~y.entries[p].remote
<1> DEFINE old == entry(x, p)
           body == state(x, p)
           tick == 1 + (IF old.clock[x.id] > x.counter THEN old.clock[x.id] ELSE x.counter)
           b == observedBase(x, old)
           e == [path |-> old.path, body |-> body, clock |-> [old.clock EXCEPT ![x.id] = tick],
                 rev |-> 0, base |-> b]
           z == [x EXCEPT !.counter = tick]
           y == observed(x, p, base)
<1>1. y = IF unchanged(x, p) THEN x ELSE IF old.body = body THEN save(x, old, FALSE, base) ELSE save(z, e, FALSE, base)
  <2>1. old.path = p BY Holds
  <2> QED BY <2>1 DEF observed, edited
<1>2. /\ body \in Body /\ Missing \notin Body
      /\ p \in DOMAIN x.entries => old = x.entries[p] /\ old \in Entry(p)
      /\ old.path = p /\ old.clock \in Clock /\ old.rev \in Nat /\ old.base \in Nat
      /\ old.body # Missing => p \in DOMAIN x.entries /\ old.body \in Body
      /\ old.remote \in BOOLEAN
  BY Holds
<1>3. Shape(x) /\ Solid(x) BY DEF Good, Solid
<1>4. x.id \in Device /\ x.counter \in Nat /\ x.head \in Nat BY <1>3 DEF Shape
<1>5. p \in DOMAIN x.disk /\ IsFile(x.disk[p]) => body = x.disk[p] /\ body # Deleted BY DEF state, IsFile, Deleted
<1>6. unchanged(x, p) <=> (body = Deleted /\ (old.remote \/ old.body = Missing)) \/ (body = old.body /\ ~old.remote)
  BY DEF unchanged
<1> HIDE DEF body, old, y
<1>7. CASE unchanged(x, p)
  <2>1. y = x BY <1>1, <1>7
  <2>2. ASSUME p \in DOMAIN x.disk, IsFile(x.disk[p])
        PROVE  p \in DOMAIN x.entries /\ x.entries[p].body = x.disk[p] /\ ~x.entries[p].remote
    <3>1. body = x.disk[p] /\ body = old.body /\ ~old.remote BY <1>5, <1>6, <1>7, <2>2
    <3> QED BY <1>2, <3>1
  <2> QED BY <2>1, <2>2 DEF y
<1>8. CASE ~unchanged(x, p) /\ old.body = body
  <2>1. y = save(x, old, FALSE, base) BY <1>1, <1>8
  <2>2. Record(old) /\ FALSE \in BOOLEAN BY <1>2, <1>8 DEF Record
  <2>3. save(x, old, FALSE, base).disk = x.disk BY <2>2, SavedDisk
  <2>4. /\ old.path \in DOMAIN y.entries
        /\ y.entries[old.path].body = old.body /\ ~y.entries[old.path].remote
        /\ Tidy(x) /\ Path(old.path) => Tidy(y)
    BY <2>1, <2>2, SavedTidy
  <2> QED BY <1>2, <1>5, <1>8, <2>1, <2>3, <2>4 DEF y
<1>9. CASE ~unchanged(x, p) /\ old.body # body
  <2>1. y = save(z, e, FALSE, base) BY <1>1, <1>9
  <2>2. tick \in Nat
    <3>1. old.clock[x.id] \in Nat BY <1>2, <1>4 DEF Clock
    <3> QED BY <1>4, <3>1
  <2>3. [old.clock EXCEPT ![x.id] = tick] \in Clock
    <3> HIDE DEF tick
    <3> QED BY <1>2, <2>2 DEF Clock
  <2>4. b \in Nat
    <3>1. object(x, p) = 0 \/ object(x, p) \in 1..x.head BY <1>4, LatestFacts DEF object
    <3>2. object(x, old.path) \in Nat BY <1>2, <1>4, <3>1
    <3>3. b = old.base \/ b = old.rev \/ b = object(x, old.path) BY DEF observedBase
    <3> HIDE DEF b
    <3> QED BY <1>2, <3>2, <3>3
  <2>5. e.path = p /\ e.body = body /\ Record(e)
    <3> HIDE DEF tick, b
    <3>1. e.path = p /\ e.rev = 0 /\ e.base = b /\ e.body = body /\ e.clock = [old.clock EXCEPT ![x.id] = tick]
      BY <1>2
    <3> HIDE DEF e
    <3> QED BY <1>2, <2>3, <2>4, <3>1 DEF Record
  <2> HIDE DEF e, b, tick
  <2>6. Good(z) /\ FALSE \in BOOLEAN BY <2>2, Ticked
  <2>7. SameTable(x, z) BY <1>3 DEF Shape, SameTable
  <2> HIDE DEF z
  <2>8. Tidy(x) => Tidy(z) BY <2>7 DEF SameTable, Tidy, object, LatestUpTo, Revisions
  <2>9. save(z, e, FALSE, base).disk = z.disk BY <2>5, <2>6, SavedDisk
  <2>10. /\ e.path \in DOMAIN y.entries
         /\ y.entries[e.path].body = e.body /\ ~y.entries[e.path].remote
         /\ Tidy(z) /\ Path(e.path) => Tidy(y)
    BY <2>1, <2>5, <2>6, SavedTidy
  <2> QED BY <1>5, <2>1, <2>5, <2>10, <2>7, <2>8, <2>9 DEF y, SameTable
<1> QED BY <1>7, <1>8, <1>9

(* What the plan of a merge says about a file of the destination. *)
LEMMA PlanDetail ==
  ASSUME NEW x, Good(x), NEW e
  PROVE  LET plan == decide(x, e)
             local == entry(x, e.path)
         IN /\ plan.local = local /\ plan.loser.path = e.path
            /\ plan.wins => plan.loser = local
            /\ plan.conflict => IsFile(plan.loser.body)
            /\ plan.wins /\ ~plan.same /\ ~plan.conflict /\ IsFile(local.body) /\ ~local.remote =>
                 /\ x.id # Host => local.rev # 0
                 /\ x.id = Host => relation(x, local, e) = 1
<1> DEFINE plan == decide(x, e)
           local == entry(x, e.path)
           order == relation(x, local, e)
           mirror == x.id # Host
           same == ~local.remote /\ local.body = e.body
           retain == local.body = Directory /\ e.body # Directory /\ children(x, e.path) # {}
           wins == ~retain /\ (mirror \/ order = 1 \/ same \/ e.body = Directory)
           loser == IF wins THEN local ELSE e
           pending == mirror /\ Pending(local)
           structural == \/ e.body = Directory /\ IsFile(local.body)
                         \/ IsFile(e.body) /\ local.body = Directory
           conflict == /\ order = 2 \/ retain \/ pending \/ structural
                       /\ ~same
                       /\ IsFile(loser.body)
                       /\ ~(wins /\ local.remote)
           clock == IF mirror THEN e.clock ELSE joined(e.clock, local.clock)
<1>1. plan = [order |-> order, local |-> local, same |-> same, retain |-> retain,
              wins |-> wins, loser |-> loser, conflict |-> conflict, clock |-> clock,
              bytes |-> IsFile(e.body) /\ ~same /\ (wins \/ conflict)]
  BY DEF decide, decision
<1>2. plan.local = local /\ plan.loser = loser BY <1>1
<1>3. (plan.conflict <=> conflict) /\ (plan.same <=> same) /\ (plan.wins <=> wins)
  <2> HIDE DEF local, order, same, retain, wins, loser, conflict, clock, mirror, plan
  <2>1. plan.conflict = conflict /\ plan.same = same /\ plan.wins = wins BY <1>1
  <2> QED BY <2>1
<1>4. local.path = e.path BY Holds
<1> HIDE DEF plan, local, order
<1>5. loser.path = e.path /\ (wins => loser = local) /\ (conflict => IsFile(loser.body)) BY <1>4
<1>6. ASSUME wins, ~same, ~conflict, IsFile(local.body), ~local.remote
      PROVE  (x.id # Host => local.rev # 0) /\ (x.id = Host => order = 1)
  <2>1. ~pending /\ ~structural BY <1>6
  <2>2. local.body # Missing BY <1>6 DEF IsFile, Missing
  <2> QED BY <1>6, <2>1, <2>2 DEF Pending
<1> HIDE DEF same, wins, loser, conflict
<1> QED BY <1>2, <1>3, <1>5, <1>6 DEF plan, local, order

-----------------------------------------------------------------------------
(***************************************************************************)
(* Taking in a record e spares what the disk holds: the files of other     *)
(* paths stay where they are, and the content of e's path stays on the     *)
(* disk or is a revision of the device's own journal; on the authority,    *)
(* the latest one, on which e is based.                                    *)
(***************************************************************************)
Holding(x, content) == \E p \in DOMAIN x.disk : x.disk[p] = content

Spared(x, y, p) ==
  \A q \in DOMAIN x.disk : q # p /\ IsFile(x.disk[q]) => q \in DOMAIN y.disk /\ y.disk[q] = x.disk[q]

Superseded(x, e) ==
  \E n \in 1..x.head : /\ x.journal[n].path = e.path /\ x.journal[n].body = x.disk[e.path]
                       /\ x.id = Host => n = object(x, e.path) /\ n = e.base

Spares(x, y, e) ==
  /\ Spared(x, y, e.path)
  /\ e.path \in DOMAIN x.disk /\ IsFile(x.disk[e.path]) => Holding(y, x.disk[e.path]) \/ Superseded(x, e)

Careful(x, y, e) == Tidy(y) /\ Spares(x, y, e)

(* The record of a path says what file the disk holds there. *)
Seen(x, p) ==
  p \in DOMAIN x.disk /\ IsFile(x.disk[p]) =>
    p \in DOMAIN x.entries /\ x.entries[p].body = x.disk[p] /\ ~x.entries[p].remote

LEMMA SameDisk ==
  ASSUME NEW x, NEW y, NEW z, z.disk = y.disk, NEW e
  PROVE  Spares(x, y, e) <=> Spares(x, z, e)
BY DEF Spares, Spared, Holding

LEMMA SparesItself ==
  ASSUME NEW x, NEW e
  PROVE  Spares(x, x, e)
BY DEF Spares, Spared, Holding

(* The copy of the loser is written beside everything else. *)
LEMMA CopyTidy ==
  ASSUME NEW x, Good(x), Tidy(x), NEW plan, NEW e, Path(e.path), ~collides(x, plan), plan.clock \in Clock,
         plan.conflict => plan.loser.body \in Body /\ IsFile(plan.loser.body) /\ plan.loser.path = e.path
  PROVE  \A y \in {copied(x, plan), copySaved(x, plan, e)} :
           /\ Good(y) /\ Tidy(y)
           /\ \A q \in DOMAIN x.disk : IsFile(x.disk[q]) => q \in DOMAIN y.disk /\ y.disk[q] = x.disk[q]
           /\ plan.conflict => Holding(y, plan.loser.body)
           /\ plan.conflict => \E q \in DOMAIN y.disk : q # e.path /\ y.disk[q] = plan.loser.body
<1>1. CASE ~plan.conflict BY <1>1 DEF copied, copySaved
<1>2. CASE plan.conflict
  <2> DEFINE l == plan.loser
             p == conflictPath(l)
             w == withParent(x, p)
             y == copied(x, plan)
             f == proposed(l, p, plan.clock, 0)
             z == copySaved(x, plan, e)
  <2>1. Path(p) /\ p # e.path BY <1>2, CopyPath
  <2>2. /\ SameIndex(x, w) /\ Good(w) /\ DOMAIN w.disk \subseteq DOMAIN x.disk \union {parent(p)}
        /\ \A q \in DOMAIN x.disk : q \in DOMAIN w.disk /\ w.disk[q] = x.disk[q]
    BY ParentWritten
  <2>3. y = onDisk(w, p, l.body) /\ z = save(y, f, FALSE, e.base) BY <1>2 DEF copied, copySaved
  <2>4. f.path = p /\ f.body = l.body /\ Record(f)
    <3>1. f.path = p /\ f.body = l.body /\ f.clock = plan.clock /\ f.rev = 0 /\ f.base = 0 BY DEF proposed
    <3> HIDE DEF f
    <3> QED BY <1>2, <3>1 DEF Record
  <2>5. state(x, p) \in {Deleted, l.body} BY <1>2 DEF collides
  <2>6. l.body \in Body /\ IsFile(l.body) /\ l.body # Deleted BY <1>2 DEF IsFile, Deleted
  <2>7. p \in DOMAIN x.disk /\ IsFile(x.disk[p]) => x.disk[p] = l.body BY <2>5 DEF state, IsFile, Deleted
  <2> HIDE DEF l, p, w, y, f, z
  <2>8. Path(parent(p)) BY ParentPath
  <2>9. /\ SameIndex(w, y) /\ Good(y) /\ DOMAIN y.disk \subseteq DOMAIN w.disk \union {p}
        /\ \A q \in DOMAIN w.disk : q # p => q \in DOMAIN y.disk /\ y.disk[q] = w.disk[q]
        /\ p \in DOMAIN y.disk /\ y.disk[p] = l.body
    BY <2>2, <2>3, <2>6, Written
  <2>10. SameIndex(x, y) BY <2>2, <2>9 DEF SameIndex
  <2>11. \A q \in DOMAIN y.disk : Path(q) BY <2>1, <2>2, <2>8, <2>9 DEF Tidy
  <2>12. Tidy(y) BY <2>10, <2>11, SameTidy
  <2>13. Tidy(z) /\ z.disk = y.disk
    <3>1. FALSE \in BOOLEAN /\ Path(f.path) BY <2>1, <2>4
    <3>2. Tidy(z) BY <2>3, <2>4, <2>9, <2>12, <3>1, SavedTidy
    <3>3. save(y, f, FALSE, e.base).disk = y.disk
      <4>1. Good(y) /\ Record(f) /\ FALSE \in BOOLEAN BY <2>4, <2>9
      <4> QED BY <4>1, SavedDisk
    <3>4. z.disk = y.disk BY <2>3, <3>3
    <3> QED BY <3>2, <3>4
  <2>14. Good(z) BY <1>2, CopyMade DEF Ready, z, l
  <2>15. \A q \in DOMAIN x.disk : IsFile(x.disk[q]) => q \in DOMAIN y.disk /\ y.disk[q] = x.disk[q]
    BY <2>2, <2>7, <2>9
  <2>16. \A v \in {y, z} : Good(v) /\ Tidy(v) /\ v.disk = y.disk BY <2>9, <2>12, <2>13, <2>14
  <2> QED BY <2>1, <2>9, <2>15, <2>16 DEF Holding, y, z, l
<1> QED BY <1>1, <1>2

LEMMA PlacedTidy ==
  ASSUME NEW x, Good(x), Tidy(x), NEW plan, NEW e, Record(e), Path(e.path)
  PROVE  \A y \in {cleared(x, plan, e), installed(x, plan, e)} :
           Good(y) /\ Tidy(y) /\ Spared(x, y, e.path) /\ (y = x \/ (plan.wins /\ ~plan.same))
<1>1. CASE ~(plan.wins /\ ~plan.same) BY <1>1 DEF cleared, installed, Spared
<1>2. CASE plan.wins /\ ~plan.same
  <2> DEFINE a == cleared(x, plan, e)
             w == IF e.body = Deleted THEN x ELSE withParent(x, e.path)
             b == installed(x, plan, e)
  <2>1. a = onDisk(x, e.path, Deleted) /\ b = onDisk(w, e.path, e.body) BY <1>2 DEF cleared, installed
  <2>2. Deleted \in Body /\ e.body \in Body BY DEF Body, Record
  <2>3. /\ SameIndex(x, w) /\ Good(w) /\ DOMAIN w.disk \subseteq DOMAIN x.disk \union {parent(e.path)}
        /\ \A q \in DOMAIN x.disk : q \in DOMAIN w.disk /\ w.disk[q] = x.disk[q]
    BY ParentWritten DEF SameIndex
  <2> HIDE DEF a, w, b
  <2>4. /\ SameIndex(x, a) /\ Good(a) /\ DOMAIN a.disk \subseteq DOMAIN x.disk \union {e.path}
        /\ \A q \in DOMAIN x.disk : q # e.path => q \in DOMAIN a.disk /\ a.disk[q] = x.disk[q]
    BY <2>1, <2>2, Written
  <2>5. /\ SameIndex(w, b) /\ Good(b) /\ DOMAIN b.disk \subseteq DOMAIN w.disk \union {e.path}
        /\ \A q \in DOMAIN w.disk : q # e.path => q \in DOMAIN b.disk /\ b.disk[q] = w.disk[q]
    BY <2>1, <2>2, <2>3, Written
  <2>6. Path(parent(e.path)) BY ParentPath
  <2>7. Tidy(a) /\ Spared(x, a, e.path)
    <3>1. \A q \in DOMAIN a.disk : Path(q) BY <2>4 DEF Tidy
    <3> QED BY <2>4, <3>1, SameTidy DEF Spared
  <2>8. Tidy(b) /\ Spared(x, b, e.path)
    <3>1. \A q \in DOMAIN b.disk : Path(q) BY <2>3, <2>5, <2>6 DEF Tidy
    <3>2. SameIndex(x, b) BY <2>3, <2>5 DEF SameIndex
    <3> QED BY <2>3, <2>5, <3>1, <3>2, SameTidy DEF Spared
  <2> QED BY <1>2, <2>4, <2>5, <2>7, <2>8 DEF a, b
<1> QED BY <1>1, <1>2

(* Replacing the content of a path, after every step. *)
LEMMA ReplacedSpares ==
  ASSUME NEW x, Good(x), Tidy(x), NEW e, Record(e), Path(e.path), Seen(x, e.path),
         x.id = Host => Based(x, e.path, e.base), ~collides(x, decide(x, e)), decide(x, e).order # 0
  PROVE  LET r == replace(x, copySaved(x, decide(x, e), e), decide(x, e), e)
         IN \A t \in r.torn \union {r.dev} : Careful(x, t, e)
<1> DEFINE plan == decide(x, e)
           local == entry(x, e.path)
           copy == copied(x, plan)
           safe == copySaved(x, plan, e)
           clear == cleared(safe, plan, e)
           placed == installed(safe, plan, e)
           winner == IF plan.wins THEN e ELSE plan.local
           f == [path |-> e.path, body |-> winner.body, clock |-> plan.clock,
                 rev |-> IF plan.wins THEN e.rev ELSE 0, base |-> 0]
           final == merged(placed, plan, e)
           r == replace(x, safe, plan, e)
<1>1. \A t \in r.torn \union {r.dev} : t \in {x, copy, safe, clear, placed, final}
  <2>1. r = [status |-> "complete", dev |-> final,
             torn |-> {x, copy, safe, placed, final, IF IsFile(e.body) /\ IsFile(plan.local.body) THEN safe ELSE clear}]
    BY DEF replace
  <2> HIDE DEF r, plan, copy, safe, clear, placed, final
  <2> QED BY <2>1
<1>2. /\ plan.clock \in Clock /\ plan.local = local /\ plan.loser.path = e.path
      /\ plan.conflict => plan.loser.body \in Body /\ IsFile(plan.loser.body)
      /\ plan.wins => plan.loser = local
      /\ plan.wins /\ ~plan.same /\ ~plan.conflict /\ IsFile(local.body) /\ ~local.remote =>
           /\ x.id # Host => local.rev # 0
           /\ x.id = Host => relation(x, local, e) = 1
      /\ x.id = Host /\ ~plan.wins => local.body \in Body
  BY PlanFacts, PlanDetail
<1>3. final = save(placed, f, FALSE, e.base) BY DEF merged
<1>4. f.path = e.path OBVIOUS
<1>5. /\ e.path \in DOMAIN x.entries => local = x.entries[e.path] /\ local.body # Missing
      /\ local.body # Missing => local.body \in Body
  <2>1. ASSUME e.path \in DOMAIN x.entries PROVE local = x.entries[e.path] /\ local \in Entry(e.path) /\ Missing \notin Body
    BY <2>1, Holds
  <2>2. local.body # Missing => local.body \in Body BY Holds
  <2> QED BY <2>1, <2>2 DEF Entry
<1> HIDE DEF plan, copy, safe, clear, placed, final, r
<1>6. x.id = Host => Record(f)
  <2> SUFFICES ASSUME x.id = Host PROVE Record(f) OBVIOUS
  <2>1. winner.body \in Body BY <1>2 DEF Record
  <2>2. f.body = winner.body /\ f.clock = plan.clock /\ f.base = 0 /\ (f.rev = e.rev \/ f.rev = 0) OBVIOUS
  <2> HIDE DEF winner, f
  <2> QED BY <1>2, <2>1, <2>2 DEF Record
<1> HIDE DEF winner, f, local
<1>7. \A y \in {copy, safe} :
        /\ Good(y) /\ Tidy(y)
        /\ \A q \in DOMAIN x.disk : IsFile(x.disk[q]) => q \in DOMAIN y.disk /\ y.disk[q] = x.disk[q]
        /\ plan.conflict => Holding(y, plan.loser.body)
        /\ plan.conflict => \E q \in DOMAIN y.disk : q # e.path /\ y.disk[q] = plan.loser.body
  BY <1>2, CopyTidy DEF copy, safe, plan
<1>8. Good(safe) /\ Tidy(safe) BY <1>7
<1>9. \A y \in {clear, placed} :
        Good(y) /\ Tidy(y) /\ Spared(safe, y, e.path) /\ (y = safe \/ (plan.wins /\ ~plan.same))
  BY <1>8, PlacedTidy DEF clear, placed
<1>10. Tidy(final) /\ final.disk = placed.disk
  <2>1. Good(placed) /\ Tidy(placed) /\ FALSE \in BOOLEAN BY <1>9
  <2>2. placed.id = Host => Record(f)
    <3>1. placed.id = x.id
      <4>1. safe.id = x.id BY <1>2, CopyMade DEF Ready, Evolves, Extends, safe
      <4>2. placed.id = safe.id BY <1>8, Placed DEF Ready, Evolves, Extends, placed
      <4> QED BY <4>1, <4>2
    <3> QED BY <1>6, <3>1
  <2>3. save(placed, f, FALSE, e.base).disk = placed.disk BY <2>1, <2>2, SavedDisk
  <2>4. Tidy(save(placed, f, FALSE, e.base))
    <3>1. Path(f.path) BY <1>4
    <3> QED BY <2>1, <2>2, <3>1, SavedTidy
  <2> QED BY <1>3, <2>3, <2>4
<1>11. \A y \in {x, copy, safe} : Careful(x, y, e)
  <2>1. Careful(x, x, e) BY SparesItself DEF Careful
  <2>2. ASSUME NEW y \in {copy, safe} PROVE Careful(x, y, e)
    <3>1. /\ Tidy(y)
          /\ \A q \in DOMAIN x.disk : IsFile(x.disk[q]) => q \in DOMAIN y.disk /\ y.disk[q] = x.disk[q]
      BY <1>7
    <3> QED BY <3>1 DEF Careful, Spares, Spared, Holding
  <2> QED BY <2>1, <2>2
<1>12. ASSUME NEW y \in {clear, placed} PROVE Careful(x, y, e)
  <2>1. Tidy(y) /\ Spared(safe, y, e.path) /\ (y = safe \/ (plan.wins /\ ~plan.same)) BY <1>9
  <2>2. \A q \in DOMAIN x.disk : IsFile(x.disk[q]) => q \in DOMAIN safe.disk /\ safe.disk[q] = x.disk[q] BY <1>7
  <2>3. Spared(x, y, e.path) BY <2>1, <2>2 DEF Spared
  <2>4. ASSUME e.path \in DOMAIN x.disk, IsFile(x.disk[e.path]), y # safe
        PROVE  Holding(y, x.disk[e.path]) \/ Superseded(x, e)
    <3>1. plan.wins /\ ~plan.same BY <2>1, <2>4
    <3>2. e.path \in DOMAIN x.entries /\ local = x.entries[e.path] /\ local.body = x.disk[e.path] /\ ~local.remote
      BY <1>5, <2>4 DEF Seen
    <3>3. CASE plan.conflict
      <4>1. plan.loser.body = x.disk[e.path] BY <1>2, <3>1, <3>2
      <4>2. PICK q \in DOMAIN safe.disk : q # e.path /\ safe.disk[q] = x.disk[e.path] BY <1>7, <3>3, <4>1
      <4>3. q \in DOMAIN y.disk /\ y.disk[q] = safe.disk[q] BY <2>1, <2>4, <4>2 DEF Spared
      <4> QED BY <4>2, <4>3 DEF Holding
    <3>4. CASE ~plan.conflict
      <4>1. /\ x.id # Host => local.rev # 0
            /\ x.id = Host => relation(x, local, e) = 1
        BY <1>2, <2>4, <3>1, <3>2, <3>4
      <4>2. Backs(x, e.path, local) BY <3>2, <4>1 DEF Good, Solid
      <4>3. local.rev \in 1..x.head /\ x.journal[local.rev].path = e.path /\ x.journal[local.rev].body = local.body
        BY <4>2, BackedPath
      <4>4. x.id = Host => local.rev = object(x, e.path) /\ local.rev = e.base
        <5> SUFFICES ASSUME x.id = Host PROVE local.rev = object(x, e.path) /\ local.rev = e.base OBVIOUS
        <5>1. local.rev = object(x, e.path) BY <3>2 DEF Tidy
        <5>2. e.base = object(x, e.path) BY <4>1 DEF relation
        <5> QED BY <5>1, <5>2
      <4> QED BY <3>2, <4>3, <4>4 DEF Superseded
    <3> QED BY <3>3, <3>4
  <2>5. y = safe => Careful(x, y, e) BY <1>11
  <2> QED BY <2>1, <2>3, <2>4, <2>5 DEF Careful, Spares
<1>13. Careful(x, final, e)
  <2>1. Spares(x, placed, e) BY <1>12 DEF Careful
  <2> QED BY <1>10, <2>1, SameDisk DEF Careful
<1> QED BY <1>1, <1>11, <1>12, <1>13 DEF r, safe, plan

LEMMA RepliedCareful ==
  ASSUME NEW x, Tidy(x), NEW y, NEW e, Careful(x, y, e), NEW status
  PROVE  \A t \in reply(status, x, y).torn \union {reply(status, x, y).dev} : Careful(x, t, e)
<1>1. Careful(x, x, e) BY SparesItself DEF Careful
<1>2. reply(status, x, y).dev = y /\ reply(status, x, y).torn = {x, y} BY DEF reply
<1> QED BY <1>1, <1>2

(* A mirror's record changes and its disk does not. *)
LEMMA SavedCareful ==
  ASSUME NEW x, Good(x), Tidy(x), x.id # Host, NEW f, Path(f.path), NEW remote \in BOOLEAN, NEW base, NEW e
  PROVE  Careful(x, save(x, f, remote, base), e)
<1> DEFINE y == save(x, f, remote, base)
<1>1. Tidy(y) BY SavedTidy
<1>2. y.disk = x.disk BY SavedDisk
<1> HIDE DEF y
<1>3. Spares(x, y, e) BY <1>2, SparesItself, SameDisk
<1> QED BY <1>1, <1>3 DEF Careful, y

LEMMA ApplySpares ==
  ASSUME NEW x, Good(x), Tidy(x), NEW e, Record(e), Path(e.path), Seen(x, e.path),
         x.id = Host => Based(x, e.path, e.base), NEW committing
  PROVE  LET r == apply(x, decide(x, e), e, committing)
         IN \A t \in r.torn \union {r.dev} : Careful(x, t, e)
<1> DEFINE plan == decide(x, e)
           local == plan.local
           mirror == x.id # Host
           a == save(x, proposed(local, e.path, local.clock, e.rev), local.remote, 0)
           b == IF mirror THEN save(x, e, FALSE, 0) ELSE x
           c == save(x, proposed(local, e.path, joined(e.clock, local.clock), e.rev), FALSE, 0)
           d == replace(x, copySaved(x, plan, e), plan, e)
           r == apply(x, plan, e, committing)
<1>1. \/ r = reply("failed", x, x) \/ r = reply("bytes", x, x)
      \/ mirror /\ r = reply("complete", x, a)
      \/ r = reply("complete", x, b)
      \/ mirror /\ r = reply("complete", x, c)
      \/ r = d /\ plan.order # 0 /\ ~collides(x, plan)
  BY DEF apply
<1>2. Careful(x, x, e) BY SparesItself DEF Careful
<1>3. mirror => Careful(x, a, e) /\ Careful(x, c, e)
  <2> SUFFICES ASSUME mirror PROVE Careful(x, a, e) /\ Careful(x, c, e) OBVIOUS
  <2>1. local.remote \in BOOLEAN /\ FALSE \in BOOLEAN BY PlanDetail, Holds
  <2>2. \A clock : proposed(local, e.path, clock, e.rev).path = e.path BY DEF proposed
  <2> HIDE DEF local, plan
  <2> QED BY <2>1, <2>2, SavedCareful
<1>4. Careful(x, b, e)
  <2>1. CASE mirror
    <3>1. FALSE \in BOOLEAN OBVIOUS
    <3> QED BY <2>1, <3>1, SavedCareful
  <2>2. CASE ~mirror BY <1>2, <2>2
  <2> QED BY <2>1, <2>2
<1>5. plan.order # 0 /\ ~collides(x, plan) => \A t \in d.torn \union {d.dev} : Careful(x, t, e)
  BY ReplacedSpares
<1> HIDE DEF a, b, c, d, r
<1>6. \A y \in {x, a, b, c} : \A status : Careful(x, y, e) =>
        \A t \in reply(status, x, y).torn \union {reply(status, x, y).dev} : Careful(x, t, e)
  BY RepliedCareful
<1>7. \A t \in r.torn \union {r.dev} : Careful(x, t, e)
  <2>1. CASE r = reply("failed", x, x) \/ r = reply("bytes", x, x) BY <1>2, <1>6, <2>1
  <2>2. CASE mirror /\ r = reply("complete", x, a) BY <1>3, <1>6, <2>2
  <2>3. CASE r = reply("complete", x, b) BY <1>4, <1>6, <2>3
  <2>4. CASE mirror /\ r = reply("complete", x, c) BY <1>3, <1>6, <2>4
  <2>5. CASE r = d /\ plan.order # 0 /\ ~collides(x, plan) BY <1>5, <2>5
  <2> QED BY <1>1, <2>1, <2>2, <2>3, <2>4, <2>5
<1> QED BY <1>7 DEF r

(* What has been observed first. *)
LEMMA AfterObserving ==
  ASSUME NEW x, Good(x), Tidy(x), NEW p, Path(p), NEW base
  PROVE  LET y == observed(x, p, base)
         IN /\ Good(y) /\ Tidy(y) /\ Seen(y, p) /\ y.disk = x.disk /\ Extends(x, y)
            /\ x.head \in Nat /\ y.head \in Nat
            /\ \A e : e.path = p /\ (x.id = Host => Based(x, p, e.base)) =>
                 \A t : Careful(y, t, e) => Careful(x, t, e)
<1> DEFINE y == observed(x, p, base)
<1>1. Good(y) /\ Extends(x, y) BY Observed DEF Evolves
<1>2. y.disk = x.disk /\ Tidy(y) /\ Seen(y, p) BY ObservedTidy DEF Seen
<1>3. x.head \in Nat /\ y.head \in Nat BY <1>1 DEF Good, Solid, Shape
<1> HIDE DEF y
<1>4. ASSUME NEW e, e.path = p, x.id = Host => Based(x, p, e.base), Superseded(y, e) PROVE Superseded(x, e)
  <2>1. PICK n \in 1..y.head : /\ y.journal[n].path = p /\ y.journal[n].body = x.disk[p]
                               /\ y.id = Host => n = object(y, p) /\ n = e.base
    BY <1>2, <1>4 DEF Superseded
  <2>2. y.id = x.id /\ (\A m \in 1..x.head : y.journal[m] = x.journal[m]) /\ x.head <= y.head BY <1>1 DEF Extends
  <2>3. CASE x.id # Host
    <3>1. y.head = x.head BY <1>1, <2>3 DEF Extends
    <3> QED BY <1>4, <2>1, <2>2, <2>3, <3>1 DEF Superseded
  <2>4. CASE x.id = Host
    <3>1. n = object(y, p) /\ n = e.base BY <2>1, <2>2, <2>4
    <3>2. n \in 1..x.head BY <1>3, <1>4, <2>4, <3>1 DEF Based
    <3>3. x.journal[n].path = p /\ x.journal[n].body = x.disk[p] BY <2>1, <2>2, <3>2
    <3>4. object(x, p) = n
      <4>1. /\ object(x, p) = 0 \/ (object(x, p) \in 1..x.head /\ x.journal[object(x, p)].path = p)
            /\ \A m \in 1..x.head : m <= x.head /\ x.journal[m].path = p => m <= object(x, p) /\ object(x, p) # 0
        BY <1>3, LatestFacts DEF object
      <4>2. \A m \in 1..y.head : m <= y.head /\ y.journal[m].path = p => m <= object(y, p)
        BY <1>3, LatestFacts DEF object
      <4>3. n <= x.head /\ n <= object(x, p) /\ object(x, p) # 0 BY <1>3, <3>2, <3>3, <4>1
      <4>4. object(x, p) \in 1..x.head /\ object(x, p) \in 1..y.head /\ object(x, p) <= y.head
            /\ y.journal[object(x, p)].path = p
        BY <1>3, <2>2, <4>1, <4>3
      <4>5. object(x, p) <= n BY <3>1, <4>2, <4>4
      <4> QED BY <1>3, <3>2, <4>3, <4>4, <4>5
    <3> QED BY <1>4, <2>4, <3>1, <3>2, <3>3, <3>4 DEF Superseded
  <2> QED BY <2>3, <2>4
<1>5. ASSUME NEW e, e.path = p, x.id = Host => Based(x, p, e.base), NEW t, Careful(y, t, e)
      PROVE  Careful(x, t, e)
  <2>1. Superseded(y, e) => Superseded(x, e) BY <1>4, <1>5
  <2> QED BY <1>2, <1>5, <2>1 DEF Careful, Spares, Spared
<1> QED BY <1>1, <1>2, <1>3, <1>5 DEF y

LEMMA MergeSpares ==
  ASSUME NEW x, Good(x), Tidy(x), NEW e, Record(e), Path(e.path), x.id = Host => Based(x, e.path, e.base), NEW committing
  PROVE  LET r == merge(x, e, committing)
         IN \A t \in r.torn \union {r.dev} : Careful(x, t, e)
<1> DEFINE y == observed(x, e.path, e.base)
           r == apply(y, decide(y, e), e, committing)
<1>1. merge(x, e, committing) = IF blocked(x, e.path) THEN reply("failed", x, x) ELSE r BY DEF merge
<1>2. Careful(x, x, e) BY SparesItself DEF Careful
<1>3. \A t \in reply("failed", x, x).torn \union {reply("failed", x, x).dev} : Careful(x, t, e)
  BY <1>2, RepliedCareful
<1>4. /\ Good(y) /\ Tidy(y) /\ Seen(y, e.path) /\ y.disk = x.disk /\ Extends(x, y)
      /\ x.head \in Nat /\ y.head \in Nat
      /\ \A t : Careful(y, t, e) => Careful(x, t, e)
  BY AfterObserving
<1> HIDE DEF y
<1>5. y.id = Host => Based(y, e.path, e.base)
  <2>1. \A n \in 1..x.head : n \in 1..y.head BY <1>4 DEF Extends
  <2> QED BY <1>4, <2>1 DEF Based, Extends
<1>6. \A t \in r.torn \union {r.dev} : Careful(y, t, e) BY <1>4, <1>5, ApplySpares
<1> HIDE DEF r
<1>7. \A t \in r.torn \union {r.dev} : Careful(x, t, e) BY <1>4, <1>6
<1> QED BY <1>1, <1>3, <1>7

LEMMA MetadataSpares ==
  ASSUME NEW x, Good(x), Tidy(x), x.id # Host, NEW e, Record(e), Path(e.path), acceptsMetadata(x, e)
  PROVE  LET r == acceptMetadata(x, e) IN \A t \in r.torn \union {r.dev} : Careful(x, t, e)
<1> DEFINE y == observed(x, e.path, 0)
           z == evicted(y, e)
           local == entry(y, e.path)
           r == acceptMetadata(x, e)
<1>1. r = IF resident(y, e.path) /\ entry(y, e.path).body = e.body
            THEN [dev |-> save(y, e, FALSE, 0), torn |-> {y}]
            ELSE [dev |-> save(z, e, TRUE, 0), torn |-> {y, z}]
  BY DEF acceptMetadata
<1>2. ~Pending(local) BY DEF acceptsMetadata
<1>3. /\ Good(y) /\ Tidy(y) /\ Seen(y, e.path) /\ Extends(x, y)
      /\ \A t : Careful(y, t, e) => Careful(x, t, e)
  BY AfterObserving
<1> HIDE DEF y
<1>4. y.id # Host BY <1>3 DEF Extends
<1>5. Careful(y, y, e) BY <1>3, SparesItself DEF Careful
<1>6. Good(z) /\ Tidy(z) /\ z.id # Host /\ Careful(y, z, e)
  <2> DEFINE w == onDisk(y, e.path, Deleted)
  <2>1. z = y \/ z = w BY DEF evicted
  <2>2. Deleted \in Body BY DEF Body
  <2>3. /\ SameIndex(y, w) /\ Good(w) /\ DOMAIN w.disk \subseteq DOMAIN y.disk \union {e.path}
        /\ \A q \in DOMAIN y.disk : q # e.path => q \in DOMAIN w.disk /\ w.disk[q] = y.disk[q]
    BY <1>3, <2>2, Written
  <2> HIDE DEF w
  <2>4. \A q \in DOMAIN w.disk : Path(q) BY <1>3, <2>3 DEF Tidy
  <2>5. Tidy(w) BY <1>3, <2>3, <2>4, SameTidy
  <2>6. ASSUME e.path \in DOMAIN y.disk, IsFile(y.disk[e.path]) PROVE Superseded(y, e)
    <3>1. e.path \in DOMAIN y.entries /\ y.entries[e.path].body = y.disk[e.path] BY <1>3, <2>6 DEF Seen
    <3>2. local = y.entries[e.path] BY <3>1 DEF entry
    <3>3. local.rev # 0
      <4>1. local.body # Missing BY <2>6, <3>1, <3>2 DEF IsFile, Missing
      <4> QED BY <1>2, <4>1 DEF Pending
    <3> HIDE DEF local
    <3>4. Backs(y, e.path, local) BY <1>3, <3>1, <3>2, <3>3 DEF Good, Solid
    <3>5. local.rev \in 1..y.head /\ y.journal[local.rev].path = e.path /\ y.journal[local.rev].body = local.body
      BY <3>4, BackedPath
    <3> QED BY <1>4, <3>1, <3>2, <3>5 DEF Superseded
  <2>7. Careful(y, w, e) BY <2>3, <2>5, <2>6 DEF Careful, Spares, Spared
  <2>8. w.id # Host BY <1>4, <2>3 DEF SameIndex
  <2> HIDE DEF z
  <2> QED BY <1>3, <1>4, <1>5, <2>1, <2>3, <2>5, <2>7, <2>8
<1> DEFINE a == save(y, e, FALSE, 0)
           b == save(z, e, TRUE, 0)
<1>7. FALSE \in BOOLEAN /\ TRUE \in BOOLEAN OBVIOUS
<1>8. Careful(y, a, e) BY <1>3, <1>4, <1>7, SavedCareful
<1> HIDE DEF z
<1>9. Careful(y, b, e)
  <2>1. Tidy(b) BY <1>6, <1>7, SavedTidy
  <2>2. b.disk = z.disk BY <1>6, <1>7, SavedDisk
  <2>3. Spares(y, z, e) BY <1>6 DEF Careful
  <2> HIDE DEF b
  <2> QED BY <2>1, <2>2, <2>3, SameDisk DEF Careful
<1> HIDE DEF a, b
<1>10. r = [dev |-> a, torn |-> {y}] \/ r = [dev |-> b, torn |-> {y, z}] BY <1>1 DEF a, b
<1> HIDE DEF r
<1>11. (r.dev = a /\ r.torn = {y}) \/ (r.dev = b /\ r.torn = {y, z}) BY <1>10
<1>12. \A t \in r.torn \union {r.dev} : Careful(y, t, e) BY <1>5, <1>6, <1>8, <1>9, <1>11
<1>13. \A t \in r.torn \union {r.dev} : Careful(x, t, e) BY <1>3, <1>12
<1> QED BY <1>13 DEF r

-----------------------------------------------------------------------------
(***************************************************************************)
(* Every path is a name or that of a copy, on every device, in the queues  *)
(* of every round and in every manifest.                                   *)
(***************************************************************************)
Addressed(s, m) == \A e \in s.todo \union s.outgoing \union m.members : Path(e.path)

Named == \A c \in Clients : Addressed(session[c], manifests[c])

Orderly == (\A d \in Device : Tidy(dev[d])) /\ Named

(* What a device may become in a step that is no user's. *)
Held(d, y) ==
  /\ Tidy(y)
  /\ \/ y.disk = dev[d].disk
     \/ d # Host /\ \E e : Careful(dev[d], y, e)
     \/ d = Host /\ \E c \in Clients : \E e \in manifests[c].members : Careful(host, y, e)

AllHeld == \A d \in Device : Held(d, dev'[d])

LEMMA HeldItself == ASSUME Orderly PROVE \A d \in Device : Held(d, dev[d])
BY DEF Orderly, Held

LEMMA HeldOne ==
  ASSUME IInv, Orderly, NEW d \in Device, NEW y, Held(d, y), Local(d, y)
  PROVE  AllHeld
<1>1. dev' = [dev EXCEPT ![d] = y] /\ dev = [k \in Device |-> dev[k]] BY DEF Local, IInv, Tables
<1>2. dev'[d] = y /\ \A k \in Device : k # d => dev'[k] = dev[k] BY <1>1
<1> QED BY <1>2, HeldItself DEF AllHeld

LEMMA HeldStill ==
  ASSUME Orderly, UNCHANGED dev
  PROVE  AllHeld
BY HeldItself DEF AllHeld

LEMMA HeldSeen ==
  ASSUME IInv, Orderly, NEW d \in Device, NEW p, Path(p), NEW base
  PROVE  Held(d, observed(dev[d], p, base))
<1>1. Good(dev[d]) /\ Tidy(dev[d]) BY DEF IInv, Devices, Orderly
<1> QED BY <1>1, ObservedTidy DEF Held

LEMMA HeldByMirror ==
  ASSUME IInv, Orderly, NEW c \in Clients, NEW e \in session[c].todo
  PROVE  /\ \A b \in BOOLEAN : \A y \in merge(dev[c], e, b).torn \union {merge(dev[c], e, b).dev} : Held(c, y)
         /\ acceptsMetadata(dev[c], e) =>
              \A y \in acceptMetadata(dev[c], e).torn \union {acceptMetadata(dev[c], e).dev} : Held(c, y)
<1>1. Good(dev[c]) /\ dev[c].id # Host /\ c # Host /\ Session(session[c]) /\ c \in Device BY About
<1>2. Record(e) /\ Path(e.path) /\ Tidy(dev[c]) BY <1>1 DEF Session, Orderly, Named, Addressed
<1>3. \A b \in BOOLEAN : \A y \in merge(dev[c], e, b).torn \union {merge(dev[c], e, b).dev} : Careful(dev[c], y, e)
  BY <1>1, <1>2, MergeSpares
<1>4. acceptsMetadata(dev[c], e) =>
        \A y \in acceptMetadata(dev[c], e).torn \union {acceptMetadata(dev[c], e).dev} : Careful(dev[c], y, e)
  BY <1>1, <1>2, MetadataSpares
<1>5. \A y : Careful(dev[c], y, e) => Held(c, y) BY <1>1 DEF Held, Careful
<1> QED BY <1>3, <1>4, <1>5

LEMMA HeldByAuthority ==
  ASSUME IInv, Orderly, NEW c \in Clients, NEW gen, NEW e, announced(c, gen, e)
  PROVE  \A b \in BOOLEAN : \A y \in merge(host, e, b).torn \union {merge(host, e, b).dev} : Held(Host, y)
<1>1. Good(host) /\ host.id = Host /\ Host \in Device /\ Client(host, dev[c], session[c], peers[c], manifests[c]) BY About
<1>2. e \in manifests[c].members BY DEF announced
<1>3. Record(e) /\ Path(e.path) /\ Based(host, e.path, e.base) /\ Tidy(host)
  BY <1>1, <1>2 DEF Client, Plan, Orderly, Named, Addressed, host
<1>4. \A b \in BOOLEAN : \A y \in merge(host, e, b).torn \union {merge(host, e, b).dev} : Careful(host, y, e)
  BY <1>1, <1>3, MergeSpares
<1>5. \A y : Careful(host, y, e) => Held(Host, y) BY <1>2 DEF Held, Careful
<1> QED BY <1>4, <1>5

(* What a step that holds every device takes off a disk. *)
LEMMA OnlyThose ==
  ASSUME IInv, NEW d \in Device, NEW p \in DOMAIN dev[d].disk, NEW y, Held(d, y), IsFile(dev[d].disk[p]),
         ~Holding(y, dev[d].disk[p])
  PROVE  LET known == {n \in Revisions(dev[d], p, dev[d].head) : dev[d].journal[n].body = dev[d].disk[p]}
         IN /\ known # {}
            /\ d = Host => \E c \in Clients : \E e \in manifests[c].members :
                             e.path = p /\ e.base = object(host, p) /\ e.base \in known
<1> DEFINE x == dev[d]
           known == {n \in Revisions(x, p, x.head) : x.journal[n].body = x.disk[p]}
<1>1. y.disk # x.disk BY DEF Holding
<1>2. x.id = d /\ x.head \in Nat BY DEF IInv, Devices, Good, Solid, Shape
<1>3. ASSUME NEW e, Careful(x, y, e) PROVE p = e.path /\ Superseded(x, e)
  <2>1. p = e.path BY <1>3 DEF Careful, Spares, Spared, Holding
  <2> QED BY <1>3, <2>1 DEF Careful, Spares
<1>4. ASSUME NEW e, p = e.path, Superseded(x, e)
      PROVE  \E n \in known : d = Host => n = object(x, p) /\ n = e.base
  <2>1. PICK n \in 1..x.head : /\ x.journal[n].path = p /\ x.journal[n].body = x.disk[p]
                               /\ x.id = Host => n = object(x, p) /\ n = e.base
    BY <1>4 DEF Superseded
  <2>2. n <= x.head BY <1>2
  <2>3. n \in known BY <2>1, <2>2 DEF Revisions
  <2> QED BY <1>2, <2>1, <2>3
<1> HIDE DEF known
<1>5. CASE d # Host
  <2>1. PICK e : Careful(x, y, e) BY <1>1, <1>5 DEF Held
  <2> QED BY <1>3, <1>4, <1>5, <2>1 DEF known
<1>6. CASE d = Host
  <2>1. PICK c \in Clients : \E e \in manifests[c].members : Careful(host, y, e) BY <1>1, <1>6 DEF Held
  <2>2. PICK e \in manifests[c].members : Careful(host, y, e) BY <2>1
  <2>3. host = x BY <1>6 DEF host
  <2>4. p = e.path /\ \E n \in known : n = object(host, p) /\ n = e.base BY <1>3, <1>4, <1>6, <2>2, <2>3
  <2>5. e.path = p /\ e.base = object(host, p) /\ e.base \in known BY <2>4
  <2> QED BY <2>5 DEF known
<1> QED BY <1>5, <1>6

-----------------------------------------------------------------------------
(* Steps that leave the disks, index them, or take a record in. *)
LEMMA HeldIndexed ==
  ASSUME IInv, Orderly, NEW d \in Device, IndexSome(d)
  PROVE  AllHeld
<1>1. PICK p \in DOMAIN dev[d].entries \union DOMAIN dev[d].disk : Index(d, p) BY DEF IndexSome
<1>2. Path(p) BY DEF Orderly, Tidy
<1>3. Local(d, observed(dev[d], p, 0)) BY <1>1 DEF Index
<1> QED BY <1>2, <1>3, HeldSeen, HeldOne

LEMMA HeldHistory ==
  ASSUME IInv, Orderly, NEW c \in Clients, JournalPage(c)
  PROVE  AllHeld
<1> DEFINE s     == session[c]
           d     == dev[c]
           limit == IF s.upper = 0 THEN host.head ELSE s.upper
           next  == IF d.head + PageLimit < limit THEN d.head + PageLimit ELSE limit
           new   == accept(d, next)
<1>1. s.pc = "journal" /\ (UNCHANGED dev \/ Local(c, new)) BY DEF JournalPage
<1>2. /\ Client(host, d, s, peers[c], manifests[c]) /\ Good(host) /\ Good(d) /\ d.id = c /\ d.id # Host /\ c # Host
      /\ c \in Device /\ Host \in Device
  BY About
<1>3. new = [d EXCEPT !.head = next, !.journal = [n \in 1..next |-> IF n <= d.head THEN @[n] ELSE host.journal[n]]]
  BY DEF accept
<1>4. limit = IF s.upper = 0 THEN host.head ELSE s.upper OBVIOUS
<1>5. next = IF d.head + PageLimit < limit THEN d.head + PageLimit ELSE limit OBVIOUS
<1> HIDE DEF next, limit, new, s, d
<1>6. /\ Good(new) /\ new.id = d.id /\ new.entries = d.entries
      /\ new.head = next /\ next <= host.head /\ \A n \in 1..next : new.journal[n] = host.journal[n]
  <2>1. HistoryOf(host, d, s, limit, next, new) BY <1>1, <1>3, <1>4, <1>5 DEF HistoryOf
  <2> QED BY <1>2, <2>1, HistoryTaken
<1>7. new.disk = d.disk BY <1>2, <1>3 DEF Good, Solid, Shape
<1>8. Tidy(host) /\ Tidy(d) BY <1>2 DEF Orderly, host, d
<1>9. Tidy(new)
  <2>1. \A n \in 1..new.head : n \in 1..host.head
    <3>1. host.head \in Nat /\ new.head \in Nat BY <1>2, <1>6 DEF Good, Solid, Shape
    <3> QED BY <1>6, <3>1
  <2>2. \A n \in 1..new.head : Path(new.journal[n].path) BY <1>6, <1>8, <2>1 DEF Tidy
  <2> QED BY <1>2, <1>6, <1>7, <1>8, <2>2 DEF Tidy
<1>10. Held(c, new) BY <1>7, <1>9 DEF Held, d
<1> QED BY <1>1, <1>2, <1>10, HeldOne, HeldStill

LEMMA HeldPulled ==
  ASSUME IInv, Orderly, NEW c \in Clients
  PROVE  /\ \A e \in session[c].todo : PullMetadata(c, e) => AllHeld
         /\ PullCommit(c) => AllHeld
         /\ ClientCrash(c) => AllHeld
         /\ SendFailed(c) => AllHeld
<1> DEFINE x == dev[c]
           s == session[c]
<1>1. c \in Device /\ Session(s) /\ TRUE \in BOOLEAN /\ FALSE \in BOOLEAN BY About
<1>2. \A e \in s.todo : Path(e.path) BY DEF Orderly, Named, Addressed
<1>3. \A y : Held(c, y) /\ Local(c, y) => AllHeld BY <1>1, HeldOne
<1>4. Held(c, x) BY <1>1, HeldItself
<1>5. \A e \in s.todo : Held(c, observed(x, e.path, 0)) BY <1>1, <1>2, HeldSeen
<1>6. ASSUME NEW e \in s.todo, PullMetadata(c, e) PROVE AllHeld
  <2>1. \/ acceptsMetadata(x, e) /\ Local(c, acceptMetadata(x, e).dev)
        \/ Local(c, x) \/ Local(c, observed(x, e.path, 0))
    BY <1>6 DEF PullMetadata
  <2>2. acceptsMetadata(x, e) => Held(c, acceptMetadata(x, e).dev) BY HeldByMirror
  <2> QED BY <1>3, <1>4, <1>5, <2>1, <2>2
<1>7. ASSUME PullCommit(c) PROVE AllHeld
  <2> DEFINE e == s.current
             r == merge(x, e, TRUE)
  <2>1. s.pc = "commit" /\ (UNCHANGED dev \/ Local(c, r.dev)) BY <1>7 DEF PullCommit
  <2>2. e \in s.todo BY <1>1, <2>1 DEF Session
  <2> HIDE DEF e
  <2>3. Held(c, r.dev) BY <1>1, <2>2, HeldByMirror
  <2> QED BY <1>3, <2>1, <2>3, HeldStill
<1>8. ASSUME ClientCrash(c) PROVE AllHeld
  <2>1. PICK e, y : /\ (s.pc = "commit" /\ e = s.current) \/ (s.pc = "pull" /\ e \in s.todo)
                    /\ y \in torn(c, e) /\ Local(c, y)
    <3>1. \E e \in (IF s.pc = "commit" THEN {s.current} ELSE IF s.pc = "pull" THEN nextEntries(s) ELSE {}) :
            \E y \in torn(c, e) : Local(c, y)
      BY <1>8 DEF ClientCrash
    <3>2. nextEntries(s) \subseteq s.todo BY DEF nextEntries
    <3> HIDE DEF s
    <3> QED BY <3>1, <3>2
  <2>2. e \in s.todo BY <1>1, <2>1 DEF Session
  <2>3. \/ y \in merge(x, e, TRUE).torn \/ y \in merge(x, e, FALSE).torn
        \/ acceptsMetadata(x, e) /\ y \in acceptMetadata(x, e).torn
    BY <2>1 DEF torn
  <2>4. Held(c, y) BY <1>1, <2>2, <2>3, HeldByMirror
  <2> QED BY <1>3, <2>1, <2>4
<1>9. ASSUME SendFailed(c) PROVE AllHeld
  <2>1. s.pc = "send" /\ (Local(c, x) \/ Local(c, observed(x, s.current.path, 0))) BY <1>9 DEF SendFailed
  <2>2. s.current \in s.todo BY <1>1, <2>1 DEF Session
  <2> QED BY <1>3, <1>4, <1>5, <2>1, <2>2
<1> QED BY <1>6, <1>7, <1>8, <1>9

LEMMA HeldBegun ==
  ASSUME IInv, Orderly, NEW c \in Clients, NEW e \in session[c].todo, PullBegin(c, e)
  PROVE  AllHeld
<1> DEFINE x == dev[c]
           r == merge(x, e, FALSE)
           g == IF blocked(host, e.path) THEN host ELSE observed(host, e.path, 0)
<1>1. Local(c, r.dev) \/ dev' = [dev EXCEPT ![c] = r.dev, ![Host] = g] BY DEF PullBegin
<1>2. c \in Device /\ Host \in Device /\ c # Host /\ FALSE \in BOOLEAN BY About
<1>3. Held(c, r.dev) BY <1>2, HeldByMirror
<1>4. Held(Host, g)
  <2>1. Path(e.path) BY DEF Orderly, Named, Addressed
  <2>2. Held(Host, host) /\ Held(Host, observed(host, e.path, 0)) BY <1>2, <2>1, HeldSeen, HeldItself DEF host
  <2> QED BY <2>2
<1> HIDE DEF r, g
<1>5. CASE Local(c, r.dev) BY <1>2, <1>3, <1>5, HeldOne
<1>6. CASE dev' = [dev EXCEPT ![c] = r.dev, ![Host] = g]
  <2>1. dev = [k \in Device |-> dev[k]] BY DEF IInv, Tables
  <2>2. dev'[c] = r.dev /\ dev'[Host] = g /\ \A k \in Device : k # c /\ k # Host => dev'[k] = dev[k]
    BY <1>2, <1>6, <2>1
  <2> QED BY <1>3, <1>4, <2>2, HeldItself DEF AllHeld
<1> QED BY <1>1, <1>5, <1>6

LEMMA HeldPushed ==
  ASSUME IInv, Orderly, NEW c \in Clients
  PROVE  /\ \A e : PushBegin(c, e) => AllHeld
         /\ PushCommit(c) => AllHeld
         /\ HostCrash(c) => AllHeld
         /\ \A l : LateCommit(c, l) => AllHeld
<1>1. Host \in Device /\ TRUE \in BOOLEAN /\ FALSE \in BOOLEAN BY About
<1>2. \A gen, e : announced(c, gen, e) =>
        \A b \in BOOLEAN : \A y \in merge(host, e, b).torn \union {merge(host, e, b).dev} : Local(Host, y) => AllHeld
  BY <1>1, HeldByAuthority, HeldOne
<1>3. ASSUME NEW e, PushBegin(c, e) PROVE AllHeld
  <2>1. UNCHANGED dev \/ (announced(c, session[c].gen, e) /\ Local(Host, merge(host, e, FALSE).dev)) BY <1>3 DEF PushBegin
  <2> QED BY <1>1, <1>2, <2>1, HeldStill
<1>4. ASSUME PushCommit(c) PROVE AllHeld
  <2> DEFINE e == session[c].current
  <2>1. UNCHANGED dev \/ (announced(c, session[c].gen, e) /\ Local(Host, merge(host, e, TRUE).dev)) BY <1>4 DEF PushCommit
  <2> HIDE DEF e
  <2> QED BY <1>1, <1>2, <2>1, HeldStill
<1>5. ASSUME HostCrash(c) PROVE AllHeld
  <2> DEFINE b == session[c].pc = "send"
  <2>1. PICK e : /\ announced(c, session[c].gen, e)
                 /\ \E y \in merge(host, e, b).torn : Local(Host, y)
    BY <1>5 DEF HostCrash
  <2>2. b \in BOOLEAN OBVIOUS
  <2> HIDE DEF b
  <2> QED BY <1>2, <2>1, <2>2
<1>6. ASSUME NEW l, LateCommit(c, l) PROVE AllHeld
  <2> DEFINE e == l.entry
  <2>1. UNCHANGED dev \/ (announced(c, l.gen, e) /\ Local(Host, merge(host, e, TRUE).dev)) BY <1>6 DEF LateCommit
  <2> HIDE DEF e
  <2> QED BY <1>1, <1>2, <2>1, HeldStill
<1> QED BY <1>3, <1>4, <1>5, <1>6

LEMMA StepHeld ==
  ASSUME IInv, Orderly, Next, edits' = edits
  PROVE  AllHeld
<1>1. ~UserEdit
  <2>1. edits \in Nat BY DEF IInv, Tables
  <2>2. UserEdit => edits' = edits + 1 BY DEF UserEdit, Edit
  <2> QED BY <2>1, <2>2
<1>2. HostRestart => AllHeld BY HeldStill DEF HostRestart
<1>3. ASSUME NEW c \in Clients, Round(c) PROVE AllHeld
  <2>1. CASE Start(c) \/ ScanFailed(c) \/ ChangesPage(c) \/ Announce(c) \/ EarlyPush(c) \/ PullDone(c) \/ PushDone(c)
    <3>1. UNCHANGED dev BY <2>1 DEF Start, ScanFailed, ChangesPage, Announce, EarlyPush, PullDone, PushDone
    <3> QED BY <3>1, HeldStill
  <2>2. CASE JournalPage(c) BY <2>2, HeldHistory
  <2>3. CASE \/ \E e \in session[c].todo : PullMetadata(c, e)
             \/ PullCommit(c) \/ SendFailed(c)
    BY <2>3, HeldPulled
  <2>4. CASE \E e \in session[c].todo : PullBegin(c, e) BY <2>4, HeldBegun
  <2>5. CASE (\E e \in session[c].todo : PushBegin(c, e)) \/ PushCommit(c) BY <2>5, HeldPushed
  <2> QED BY <1>3, <2>1, <2>2, <2>3, <2>4, <2>5 DEF Round
<1>4. ASSUME NEW c \in Clients, Fault(c) PROVE AllHeld
  <2>1. CASE SliceExpired(c) \/ Abort(c)
    <3>1. UNCHANGED dev BY <2>1 DEF SliceExpired, Abort
    <3> QED BY <3>1, HeldStill
  <2>2. CASE HostCrash(c) \/ (\E m \in late[c] : LateCommit(c, m)) BY <2>2, HeldPushed
  <2>3. CASE ClientCrash(c) BY <2>3, HeldPulled
  <2> QED BY <1>4, <2>1, <2>2, <2>3 DEF Fault
<1>5. ASSUME NEW c \in Clients, Choice(c) PROVE AllHeld
  <2>1. UNCHANGED dev BY <1>5 DEF Choice, Request, CancelRequest
  <2> QED BY <2>1, HeldStill
<1> QED BY <1>1, <1>2, <1>3, <1>4, <1>5, HeldIndexed DEF Next

-----------------------------------------------------------------------------
(* Rounds hand on the records they have, and manifests only lose some. *)
Narrows(s, t) == t.todo \subseteq s.todo \union s.outgoing /\ t.outgoing \subseteq s.outgoing

Fewer == \A d \in Clients : manifests'[d].members \subseteq manifests[d].members

LEMMA Narrowing ==
  ASSUME NEW s, Session(s)
  PROVE  /\ \A g, ok : Narrows(s, Inactive(g, ok))
         /\ \A g, pc, i, j, k : Narrows(s, [Inactive(g, FALSE) EXCEPT !.pc = pc, !.pulled = i, !.pushed = j, !.after = k])
         /\ \A e : Narrows(s, Drop(s, e))
         /\ \A pc, e : Narrows(s, [s EXCEPT !.pc = pc, !.current = e])
         /\ \A pc, n : Narrows(s, [s EXCEPT !.pc = pc, !.pulled = n])
         /\ \A pc, T, b : T \subseteq s.outgoing => Narrows(s, [s EXCEPT !.pc = pc, !.todo = T, !.early = b])
         /\ \A pc : Narrows(s, [Repage(s) EXCEPT !.pc = pc])
         /\ Narrows(s, Repage(s))
         /\ \A b, n : Narrows(s, Repage([s EXCEPT !.acknowledged = b, !.pushed = n]))
<1> DEFINE All == {"pc", "pulled", "pushed", "after", "upper", "through", "todo", "outgoing", "pushThrough", "requested",
                   "current", "acknowledged", "early", "sent", "gen", "ok"}
<1>1. DOMAIN s = All BY DEF Session
<1>2. \A g, ok : Inactive(g, ok).todo = {} /\ Inactive(g, ok).outgoing = {} /\ DOMAIN Inactive(g, ok) = All BY DEF Inactive
<1>3. \A g, pc, i, j, k : Narrows(s, [Inactive(g, FALSE) EXCEPT !.pc = pc, !.pulled = i, !.pushed = j, !.after = k])
  BY <1>2 DEF Narrows
<1>4. \A e : Narrows(s, Drop(s, e)) BY <1>1 DEF Narrows, Drop
<1>5. /\ \A pc, e : Narrows(s, [s EXCEPT !.pc = pc, !.current = e])
      /\ \A pc, n : Narrows(s, [s EXCEPT !.pc = pc, !.pulled = n])
      /\ \A pc, T, b : T \subseteq s.outgoing => Narrows(s, [s EXCEPT !.pc = pc, !.todo = T, !.early = b])
  BY <1>1 DEF Narrows
<1>6. \A r : DOMAIN r = All => Repage(r).todo = {} /\ Repage(r).outgoing = {} /\ DOMAIN Repage(r) = All BY DEF Repage
<1>7. \A pc : Narrows(s, [Repage(s) EXCEPT !.pc = pc]) BY <1>1, <1>6 DEF Narrows
<1>8. Narrows(s, Repage(s)) BY <1>1, <1>6 DEF Narrows
<1>9. \A b, n : Narrows(s, Repage([s EXCEPT !.acknowledged = b, !.pushed = n]))
  <2> TAKE b, n
  <2> DEFINE r == [s EXCEPT !.acknowledged = b, !.pushed = n]
  <2>1. DOMAIN r = All BY <1>1
  <2> HIDE DEF r
  <2>2. Narrows(s, Repage(r)) BY <1>6, <2>1 DEF Narrows
  <2> QED BY <2>2 DEF r
<1> QED BY <1>2, <1>3, <1>4, <1>5, <1>7, <1>8, <1>9 DEF Narrows

LEMMA FewerFacts ==
  ASSUME IInv
  PROVE  /\ UNCHANGED manifests => Fewer
         /\ manifests' = [c \in Clients |-> NoManifest] => Fewer
         /\ \A c \in Clients : \A e : Applied(c, e) => Fewer
<1>1. manifests' = [c \in Clients |-> NoManifest] => Fewer BY DEF Fewer, NoManifest
<1>2. ASSUME NEW c \in Clients, NEW e, Applied(c, e) PROVE Fewer
  <2> DEFINE m == manifests[c]
             n == [m EXCEPT !.applied = @ \union {e.path}]
  <2>1. manifests' = [manifests EXCEPT ![c] = n] BY <1>2 DEF Applied
  <2>2. n.members = m.members
    <3>1. Plan(host, m) BY About DEF Client
    <3> HIDE DEF m
    <3>2. m = [gen |-> m.gen, members |-> m.members, applied |-> m.applied] BY <3>1 DEF Plan
    <3> QED BY <3>2
  <2> HIDE DEF n
  <2>3. manifests'[c] = n /\ \A d \in Clients : d # c => manifests'[d] = manifests[d] BY <2>1 DEF IInv, Tables
  <2> QED BY <2>2, <2>3 DEF Fewer
<1> QED BY <1>1, <1>2 DEF Fewer

LEMMA NamedOn ==
  ASSUME IInv, Orderly, NEW c \in Clients, NEW t, To(c, t), \A e \in t.todo \union t.outgoing : Path(e.path),
         \A d \in Clients : \A e \in manifests'[d].members : e \in manifests[d].members \/ Path(e.path)
  PROVE  Named'
<1>1. session' = [session EXCEPT ![c] = t] /\ session = [d \in Clients |-> session[d]] BY DEF To, IInv, Tables
<1>2. session'[c] = t /\ \A d \in Clients : d # c => session'[d] = session[d] BY <1>1
<1> QED BY <1>2 DEF Orderly, Named, Addressed

LEMMA NamedNarrow ==
  ASSUME IInv, Orderly, NEW c \in Clients, NEW t, To(c, t), Narrows(session[c], t), Fewer
  PROVE  Named'
<1>1. \A e \in t.todo \union t.outgoing : Path(e.path) BY DEF Narrows, Orderly, Named, Addressed
<1> QED BY <1>1, NamedOn DEF Fewer

LEMMA NamedStill ==
  ASSUME Orderly, UNCHANGED session, Fewer
  PROVE  Named'
BY DEF Fewer, Orderly, Named, Addressed

LEMMA NamedPage ==
  ASSUME IInv, Orderly, NEW c \in Clients, ChangesPage(c)
  PROVE  Named'
<1> DEFINE s     == session[c]
           limit == IF s.upper = 0 THEN host.head ELSE s.upper
           rows  == firstRows(changes(s.after, limit))
           last  == CHOOSE n \in rows : \A m \in rows : m <= n
           T     == s.todo \union {projected(host, n) : n \in rows}
           t     == [s EXCEPT !.through = limit, !.todo = T]
           u     == [t EXCEPT !.pc = "changes", !.after = last, !.upper = limit]
           v     == [t EXCEPT !.pc = "journal", !.after = 0, !.upper = 0]
<1>1. To(c, u) \/ To(c, v) BY DEF ChangesPage
<1>2. UNCHANGED manifests BY DEF ChangesPage
<1>3. rows \subseteq 1..host.head BY DEF firstRows, changes
<1>4. Tidy(host) /\ Session(s) BY About DEF Orderly, host
<1>5. \A n \in 1..host.head : Path(projected(host, n).path) BY <1>4 DEF Tidy, projected
<1> HIDE DEF rows, limit, last
<1>6. \A e \in T \union s.outgoing : Path(e.path)
  <2>1. \A e \in s.todo \union s.outgoing : Path(e.path) BY DEF Orderly, Named, Addressed
  <2> QED BY <1>3, <1>5, <2>1
<1> HIDE DEF T
<1>7. u.todo = T /\ u.outgoing = s.outgoing /\ v.todo = T /\ v.outgoing = s.outgoing
  <2>1. DOMAIN s = {"pc", "pulled", "pushed", "after", "upper", "through", "todo", "outgoing", "pushThrough", "requested",
                    "current", "acknowledged", "early", "sent", "gen", "ok"}
    BY <1>4 DEF Session
  <2> HIDE DEF s
  <2> QED BY <2>1
<1> HIDE DEF t, u, v, s
<1>8. PICK w \in {u, v} : To(c, w) BY <1>1
<1>9. \A e \in w.todo \union w.outgoing : Path(e.path) BY <1>6, <1>7
<1> QED BY <1>2, <1>8, <1>9, NamedOn

LEMMA NamedHistory ==
  ASSUME IInv, Orderly, NEW c \in Clients, JournalPage(c)
  PROVE  Named'
<1> DEFINE s     == session[c]
           d     == dev[c]
           limit == IF s.upper = 0 THEN host.head ELSE s.upper
           next  == IF d.head + PageLimit < limit THEN d.head + PageLimit ELSE limit
           new   == accept(d, next)
           kept  == {r \in requests[c] : valid(new, r)}
           paths == {r[1] : r \in kept}
           extra == {projected(new, object(new, p)) :
                       p \in {q \in paths : ~resident(new, q) /\ \A e \in s.todo : e.path # q}}
           T     == s.todo \union extra
           t     == [s EXCEPT !.pc = "announce", !.upper = 0, !.requested = paths, !.todo = T]
           u     == [s EXCEPT !.upper = limit]
<1>1. \/ Finish(c) /\ UNCHANGED dev
      \/ Local(c, new) /\ (To(c, u) \/ To(c, t))
  BY DEF JournalPage
<1>2. UNCHANGED manifests BY DEF JournalPage
<1>3. Session(s) /\ c \in Device /\ Fewer BY <1>2, About, FewerFacts
<1>4. \A e \in s.todo \union s.outgoing : Path(e.path) BY DEF Orderly, Named, Addressed
<1>5. DOMAIN s = {"pc", "pulled", "pushed", "after", "upper", "through", "todo", "outgoing", "pushThrough", "requested",
                  "current", "acknowledged", "early", "sent", "gen", "ok"}
  BY <1>3 DEF Session
<1>6. CASE Finish(c) /\ UNCHANGED dev
  <2>1. To(c, Inactive(s.gen, FALSE)) BY <1>6 DEF Finish
  <2> DEFINE w == Inactive(s.gen, FALSE)
  <2>2. Narrows(s, w) BY <1>3, Narrowing
  <2> HIDE DEF w
  <2> QED BY <1>3, <2>1, <2>2, NamedNarrow DEF w
<1>7. CASE Local(c, new) /\ (To(c, u) \/ To(c, t))
  <2> HIDE DEF new
  <2>1. dev'[c] = new BY <1>3, <1>7 DEF Local, IInv, Tables
  <2>2. Tidy(new) BY <1>3, <2>1, HeldHistory DEF AllHeld, Held
  <2>3. new.head \in Nat
    <3>1. Good(host) /\ Good(d) /\ s.upper \in Nat BY <1>3, About DEF Session
    <3>2. host.head \in Nat /\ d.head \in Nat /\ DOMAIN d = {"id", "disk", "entries", "seq", "counter", "journal", "head"}
      BY <3>1 DEF Good, Solid, Shape
    <3>3. next \in Nat BY <3>1, <3>2, PageLimitAssumption
    <3> HIDE DEF next, d
    <3>4. new.head = next BY <3>2 DEF accept, new
    <3> QED BY <3>3, <3>4
  <2>4. ASSUME NEW e \in extra PROVE Path(e.path)
    <3>1. PICK p \in paths : e = projected(new, object(new, p)) OBVIOUS
    <3>2. PICK r \in kept : p = r[1] BY <3>1
    <3>3. object(new, p) # 0 BY <3>2 DEF valid
    <3>4. object(new, p) \in 1..new.head BY <2>3, <3>3, LatestFacts DEF object
    <3> HIDE DEF extra, paths, kept
    <3> QED BY <2>2, <3>1, <3>4 DEF Tidy, projected
  <2>5. \A e \in T \union s.outgoing : Path(e.path) BY <1>4, <2>4
  <2> HIDE DEF T, paths, kept, extra, limit
  <2>6. t.todo = T /\ t.outgoing = s.outgoing /\ u.todo = s.todo /\ u.outgoing = s.outgoing
    <3> HIDE DEF s
    <3> QED BY <1>5
  <2> HIDE DEF t, u, s
  <2>7. PICK w \in {u, t} : To(c, w) BY <1>7
  <2>8. \A e \in w.todo \union w.outgoing : Path(e.path) BY <1>4, <2>5, <2>6
  <2> QED BY <1>2, <2>7, <2>8, NamedOn
<1> QED BY <1>1, <1>6, <1>7

LEMMA NamedAnnounce ==
  ASSUME IInv, Orderly, NEW c \in Clients, Announce(c)
  PROVE  Named'
<1> DEFINE s    == session[c]
           out  == proposals(dev[c], s.pushed)
           keep == out = {} /\ s.acknowledged
           k    == dev[c].seq
           t    == [s EXCEPT !.outgoing = out, !.pushThrough = k, !.acknowledged = keep]
           u    == [t EXCEPT !.pc = "pull"]
           b    == out # {}
           v    == [t EXCEPT !.pc = "push", !.todo = out, !.sent = b]
           n    == [gen |-> s.gen, members |-> out, applied |-> {}]
<1>1. /\ To(c, u) \/ To(c, v)
      /\ manifests' = manifests \/ manifests' = [manifests EXCEPT ![c] = n]
  BY DEF Announce, pushing
<1>2. Session(s) /\ c \in Device BY About
<1>3. \A e \in s.todo \union s.outgoing : Path(e.path) BY DEF Orderly, Named, Addressed
<1>4. DOMAIN s = {"pc", "pulled", "pushed", "after", "upper", "through", "todo", "outgoing", "pushThrough", "requested",
                  "current", "acknowledged", "early", "sent", "gen", "ok"}
  BY <1>2 DEF Session
<1>5. \A e \in out : Path(e.path)
  <2>1. Tidy(dev[c]) BY <1>2 DEF Orderly
  <2> QED BY <2>1 DEF proposals, Tidy
<1> HIDE DEF out, keep, k, b
<1>6. u.todo = s.todo /\ u.outgoing = out /\ v.todo = out /\ v.outgoing = out
  <2> HIDE DEF s
  <2> QED BY <1>4
<1>7. n.members = out OBVIOUS
<1> HIDE DEF t, u, v, n, s
<1>8. \A d \in Clients : \A e \in manifests'[d].members : e \in manifests[d].members \/ Path(e.path)
  <2>1. \A d \in Clients : manifests'[d] = manifests[d] \/ manifests'[d] = n BY <1>1 DEF IInv, Tables
  <2> QED BY <1>5, <1>7, <2>1
<1>9. PICK w \in {u, v} : To(c, w) BY <1>1
<1>10. \A e \in w.todo \union w.outgoing : Path(e.path) BY <1>3, <1>5, <1>6
<1> QED BY <1>8, <1>9, <1>10, NamedOn

LEMMA NamedRound ==
  ASSUME IInv, Orderly, NEW c \in Clients, Round(c)
  PROVE  Named'
<1> DEFINE s == session[c]
<1>1. Session(s) BY About
<1>2. \A t : To(c, t) /\ Narrows(s, t) /\ Fewer => Named' BY NamedNarrow
<1>3. \A e : Narrows(s, Drop(s, e)) BY <1>1, Narrowing
<1>4. \A pc, e : Narrows(s, [s EXCEPT !.pc = pc, !.current = e]) BY <1>1, Narrowing
<1>5. \A g, ok : Narrows(s, Inactive(g, ok)) BY <1>1, Narrowing
<1>6. UNCHANGED manifests => Fewer BY FewerFacts
<1>7. \A e : Applied(c, e) => Fewer BY FewerFacts
<1>8. Finish(c) /\ Fewer => Named' BY <1>2, <1>5 DEF Finish
<1>9. CASE Start(c)
  <2> DEFINE t == [Inactive(s.gen, FALSE) EXCEPT !.pc = "rescan", !.pulled = peers[c].pulled,
                                                !.pushed = peers[c].pushed, !.after = peers[c].pulled]
  <2>1. To(c, t) /\ UNCHANGED manifests BY <1>9 DEF Start
  <2>2. Narrows(s, t) BY <1>1, Narrowing
  <2> HIDE DEF t
  <2> QED BY <1>2, <1>6, <2>1, <2>2
<1>10. CASE ScanFailed(c) \/ SendFailed(c)
  <2>1. Finish(c) /\ UNCHANGED manifests BY <1>10 DEF ScanFailed, SendFailed
  <2> QED BY <1>6, <1>8, <2>1
<1>11. CASE \E e \in s.todo : PullMetadata(c, e) \/ PullBegin(c, e) \/ PushBegin(c, e)
  <2>1. PICK e \in s.todo : PullMetadata(c, e) \/ PullBegin(c, e) \/ PushBegin(c, e) BY <1>11
  <2>2. CASE PullMetadata(c, e)
    <3>1. (To(c, Drop(s, e)) \/ Finish(c)) /\ UNCHANGED manifests BY <2>2 DEF PullMetadata
    <3> QED BY <1>2, <1>3, <1>6, <1>8, <3>1
  <2>3. CASE PullBegin(c, e)
    <3>1. /\ To(c, Drop(s, e)) \/ Finish(c) \/ To(c, [s EXCEPT !.pc = "commit", !.current = e])
          /\ UNCHANGED manifests
      BY <2>3 DEF PullBegin
    <3> QED BY <1>2, <1>3, <1>4, <1>6, <1>8, <3>1
  <2>4. CASE PushBegin(c, e)
    <3>1. /\ To(c, Drop(s, e)) \/ Finish(c) \/ To(c, [s EXCEPT !.pc = "send", !.current = e])
          /\ UNCHANGED manifests \/ Applied(c, e)
      BY <2>4 DEF PushBegin
    <3> QED BY <1>2, <1>3, <1>4, <1>6, <1>7, <1>8, <3>1
  <2> QED BY <2>1, <2>2, <2>3, <2>4
<1>12. CASE PullCommit(c)
  <2>1. (To(c, Drop(s, s.current)) \/ Finish(c)) /\ UNCHANGED manifests BY <1>12 DEF PullCommit
  <2> QED BY <1>2, <1>3, <1>6, <1>8, <2>1
<1>13. CASE PushCommit(c)
  <2>1. (To(c, Drop(s, s.current)) \/ Finish(c)) /\ (UNCHANGED manifests \/ Applied(c, s.current)) BY <1>13 DEF PushCommit
  <2> QED BY <1>2, <1>3, <1>6, <1>7, <1>8, <2>1
<1>14. CASE EarlyPush(c)
  <2> DEFINE T == fresh(c)
             t == [s EXCEPT !.pc = "push", !.todo = T, !.early = TRUE]
  <2>1. To(c, t) /\ UNCHANGED manifests BY <1>14 DEF EarlyPush
  <2>2. T \subseteq s.outgoing BY DEF fresh
  <2> HIDE DEF T
  <2>3. Narrows(s, t) BY <1>1, <2>2, Narrowing
  <2> HIDE DEF t
  <2> QED BY <1>2, <1>6, <2>1, <2>3
<1>15. CASE PullDone(c)
  <2> DEFINE t == [s EXCEPT !.pc = "scan", !.pulled = s.through]
  <2>1. To(c, t) /\ UNCHANGED manifests BY <1>15 DEF PullDone
  <2>2. Narrows(s, t) BY <1>1, Narrowing
  <2> HIDE DEF t
  <2> QED BY <1>2, <1>6, <2>1, <2>2
<1>16. CASE PushDone(c)
  <2> DEFINE t == Repage([s EXCEPT !.acknowledged = TRUE, !.pushed = s.pushThrough])
             u == Repage(s)
             v == Inactive(s.gen, TRUE)
  <2>1. (To(c, u) \/ Finish(c) \/ To(c, t) \/ To(c, v)) /\ UNCHANGED manifests BY <1>16 DEF PushDone
  <2>2. Narrows(s, t) /\ Narrows(s, u) /\ Narrows(s, v) BY <1>1, Narrowing
  <2> HIDE DEF t, u, v
  <2> QED BY <1>2, <1>6, <1>8, <2>1, <2>2
<1>17. CASE ChangesPage(c) \/ JournalPage(c) \/ Announce(c) BY <1>17, NamedPage, NamedHistory, NamedAnnounce
<1> QED BY <1>9, <1>10, <1>11, <1>12, <1>13, <1>14, <1>15, <1>16, <1>17 DEF Round

LEMMA NamedFault ==
  ASSUME IInv, Orderly, NEW c \in Clients, Fault(c)
  PROVE  Named'
<1> DEFINE s == session[c]
<1>1. Session(s) BY About
<1>2. \A t : To(c, t) /\ Narrows(s, t) /\ Fewer => Named' BY NamedNarrow
<1>3. \A g, ok : Narrows(s, Inactive(g, ok)) BY <1>1, Narrowing
<1>4. CASE SliceExpired(c)
  <2> DEFINE t == [Repage(s) EXCEPT !.pc = "rescan"]
  <2>1. To(c, t) /\ UNCHANGED manifests BY <1>4 DEF SliceExpired
  <2>2. Narrows(s, t) BY <1>1, Narrowing
  <2> HIDE DEF t
  <2> QED BY <1>2, <2>1, <2>2, FewerFacts
<1>5. CASE Abort(c) \/ HostCrash(c) \/ ClientCrash(c)
  <2> DEFINE t == Inactive(s.gen + 1, FALSE)
  <2>1. To(c, t) /\ (UNCHANGED manifests \/ manifests' = [k \in Clients |-> NoManifest])
    BY <1>5 DEF Abort, HostCrash, ClientCrash
  <2>2. Narrows(s, t) BY <1>3
  <2> HIDE DEF t
  <2> QED BY <1>2, <2>1, <2>2, FewerFacts
<1>6. CASE \E l \in late[c] : LateCommit(c, l)
  <2>1. UNCHANGED session /\ (UNCHANGED manifests \/ \E e : Applied(c, e)) BY <1>6 DEF LateCommit
  <2> QED BY <2>1, FewerFacts, NamedStill
<1> QED BY <1>4, <1>5, <1>6 DEF Fault

LEMMA NextNamed ==
  ASSUME IInv, Orderly, Next
  PROVE  Named'
<1>1. UserEdit => UNCHANGED <<session, manifests>> BY DEF UserEdit, Edit
<1>2. HostRestart => UNCHANGED session /\ Fewer BY FewerFacts DEF HostRestart
<1>3. (\E d \in Device : IndexSome(d)) => UNCHANGED <<session, manifests>> BY DEF IndexSome, Index
<1>4. (\E c \in Clients : Choice(c)) => UNCHANGED <<session, manifests>> BY DEF Choice, Request, CancelRequest
<1>5. UNCHANGED <<session, manifests>> => Named' BY FewerFacts, NamedStill
<1> QED BY <1>1, <1>2, <1>3, <1>4, <1>5, NamedStill, NamedRound, NamedFault DEF Next

(* Users write names and copies that are on the disk. *)
LEMMA EditTidy ==
  ASSUME IInv, Orderly, UserEdit
  PROVE  \A d \in Device : Tidy(dev'[d])
<1>1. PICK d \in Device : \E p : \E body \in {NewContent, Deleted, Directory} :
        Edit(d, p, body) /\ (p \in DOMAIN dev[d].disk \/ \E n : p = <<n>>)
  BY DEF UserEdit
<1>2. PICK p : \E body \in {NewContent, Deleted, Directory} :
        Edit(d, p, body) /\ (p \in DOMAIN dev[d].disk \/ \E n : p = <<n>>)
  BY <1>1
<1>3. PICK body \in {NewContent, Deleted, Directory} :
        Edit(d, p, body) /\ (p \in DOMAIN dev[d].disk \/ \E n : p = <<n>>)
  BY <1>2
<1>4. body \in Body
  <2>1. Len(Seed) \in Nat /\ edits \in Nat BY SeedAssumption, LenProperties DEF IInv, Tables
  <2> QED BY <1>3, <2>1 DEF NewContent, Body, IsFile
<1>5. Good(dev[d]) /\ Tidy(dev[d]) BY DEF IInv, Devices, Orderly
<1>6. Path(p) BY <1>3, <1>5, OneName DEF Tidy
<1> DEFINE y == onDisk(dev[d], p, body)
<1>7. SameIndex(dev[d], y) /\ DOMAIN y.disk \subseteq DOMAIN dev[d].disk \union {p} BY <1>4, <1>5, Written
<1>8. dev' = [dev EXCEPT ![d] = y] BY <1>3 DEF Edit, Local
<1> HIDE DEF y
<1>9. Tidy(y)
  <2>1. \A q \in DOMAIN y.disk : Path(q) BY <1>5, <1>6, <1>7 DEF Tidy
  <2> QED BY <1>5, <1>7, <2>1, SameTidy
<1>10. dev'[d] = y /\ \A k \in Device : k # d => dev'[k] = dev[k] BY <1>8 DEF IInv, Tables
<1> QED BY <1>9, <1>10 DEF Orderly

LEMMA NextOrderly ==
  ASSUME IInv, Orderly, Next
  PROVE  Orderly'
<1>1. Named' BY NextNamed
<1>2. \A d \in Device : Tidy(dev'[d])
  <2>1. CASE UserEdit BY <2>1, EditTidy
  <2>2. CASE ~UserEdit
    <3>1. edits' = edits
      <4>1. HostRestart => edits' = edits BY DEF HostRestart
      <4>2. (\E d \in Device : IndexSome(d)) => edits' = edits BY DEF IndexSome, Index, history
      <4>3. (\E c \in Clients : Choice(c)) => edits' = edits BY DEF Choice, Request, CancelRequest, history
      <4>4. (\E c \in Clients : Fault(c)) => edits' = edits
        BY DEF Fault, SliceExpired, Abort, HostCrash, ClientCrash, LateCommit, history
      <4>5. (\E c \in Clients : Round(c)) => edits' = edits
        <5> SUFFICES ASSUME NEW c \in Clients, Round(c) PROVE edits' = edits OBVIOUS
        <5>1. \/ Start(c) \/ ScanFailed(c) \/ ChangesPage(c) \/ JournalPage(c) \/ Announce(c)
              \/ PullCommit(c) \/ EarlyPush(c) \/ PullDone(c) \/ SendFailed(c) \/ PushCommit(c) \/ PushDone(c)
              \/ \E e : PullMetadata(c, e) \/ PullBegin(c, e) \/ PushBegin(c, e)
          BY DEF Round
        <5>2. UNCHANGED history
          BY <5>1 DEF Start, ScanFailed, ChangesPage, JournalPage, Announce, PullCommit, EarlyPush, PullDone,
                      SendFailed, PushCommit, PushDone, PullMetadata, PullBegin, PushBegin
        <5> QED BY <5>2 DEF history
      <4> QED BY <2>2, <4>1, <4>2, <4>3, <4>4, <4>5 DEF Next
    <3>2. AllHeld BY <3>1, StepHeld
    <3> QED BY <3>2 DEF AllHeld, Held
  <2> QED BY <2>1, <2>2
<1> QED BY <1>1, <1>2 DEF Orderly

LEMMA InitOrderly == Init => Orderly
<1> SUFFICES ASSUME Init PROVE Orderly OBVIOUS
<1>1. ASSUME NEW d \in Device PROVE Tidy(dev[d])
  <2> DEFINE x == dev[d]
  <2>1. x = SeededDevice(d) BY <1>1 DEF Init
  <2>2. /\ x.id = d /\ x.head = Len(Seed) /\ x.head \in Nat /\ DOMAIN x.entries = SeedPaths /\ DOMAIN x.disk = SeedPaths
        /\ \A p \in SeedPaths : x.entries[p].rev = SeedIndex(p)
        /\ \A n \in 1..Len(Seed) : x.journal[n].path = <<Seed[n].name>>
    <3>1. DOMAIN x.disk = SeedPaths BY <2>1 DEF SeededDevice
    <3>2. /\ x.id = d /\ x.head = Len(Seed) /\ DOMAIN x.entries = SeedPaths
          /\ \A p \in SeedPaths : x.entries[p].rev = SeedIndex(p)
          /\ \A n \in 1..Len(Seed) : x.journal[n] = [path |-> <<Seed[n].name>>, body |-> Seed[n].body,
                                                     clock |-> SeedClock(n), parents |-> {}]
      BY <2>1, SeededFacts
    <3> HIDE DEF x
    <3>3. ASSUME NEW n \in 1..Len(Seed) PROVE x.journal[n].path = <<Seed[n].name>>
      <4> DEFINE row == [path |-> <<Seed[n].name>>, body |-> Seed[n].body, clock |-> SeedClock(n), parents |-> {}]
      <4>1. x.journal[n] = row /\ row.path = <<Seed[n].name>> BY <3>2
      <4> HIDE DEF row
      <4> QED BY <4>1
    <3> QED BY <3>1, <3>2, <3>3, SeedFacts
  <2>3. \A p \in SeedPaths : Path(p) BY SeedFacts, OneName
  <2>4. \A n \in 1..x.head : Path(x.journal[n].path) BY <2>2, OneName
  <2>5. ASSUME NEW p \in SeedPaths PROVE x.entries[p].rev = object(x, p)
    <3> DEFINE i == SeedIndex(p)
               n == object(x, p)
    <3>1. i \in 1..x.head /\ x.journal[i].path = p BY <2>2, SeedFacts
    <3>2. n \in 1..x.head /\ x.journal[n].path = p
      <4>1. i <= x.head BY <2>2, <3>1
      <4> HIDE DEF x, i
      <4> QED BY <2>2, <3>1, <4>1, LatestFacts DEF object
    <3>3. n = i
      <4>1. \A m \in 1..Len(Seed) : SeedIndex(<<Seed[m].name>>) = m BY SeedFacts
      <4>2. p = <<Seed[n].name>> BY <2>2, <3>2
      <4> HIDE DEF n
      <4> QED BY <2>2, <3>2, <4>1, <4>2 DEF i
    <3> QED BY <2>2, <3>3
  <2> QED BY <2>2, <2>3, <2>4, <2>5 DEF Tidy
<1>2. Named BY DEF Init, Named, Addressed, Inactive, NoManifest
<1> QED BY <1>1, <1>2 DEF Orderly

-----------------------------------------------------------------------------
(***************************************************************************)
(* For every device, path, edit, failure and interleaving, a file's        *)
(* content leaves a disk only for the user who edits there or once it is a *)
(* confirmed revision of its path; and the authority gives its content up  *)
(* only to a proposal announced on the revision it replaces (merge,        *)
(* acceptMetadata).                                                        *)
(***************************************************************************)
THEOREM StaleNeverReplaces == Spec => OnlySuperseded
<1> DEFINE Gone(d, p) ==
             LET content == dev[d].disk[p]
                 known == {n \in Revisions(dev[d], p, dev[d].head) : dev[d].journal[n].body = content}
             IN IsFile(content) /\ edits' = edits /\ content \notin Files(d)' =>
                  /\ known # {}
                  /\ d = Host => \E c \in Clients : \E e \in manifests[c].members :
                                   e.path = p /\ e.base = object(host, p) /\ e.base \in known
           Superseding == \A d \in Device : \A p \in DOMAIN dev[d].disk : Gone(d, p)
<1>1. Init => Orderly BY InitOrderly
<1>2. IInv /\ Orderly /\ [Next /\ UNCHANGED metadataFirst]_<<vars, metadataFirst>> => Orderly'
  <2> SUFFICES ASSUME IInv, Orderly, [Next /\ UNCHANGED metadataFirst]_<<vars, metadataFirst>> PROVE Orderly' OBVIOUS
  <2>1. CASE Next BY <2>1, NextOrderly
  <2>2. CASE UNCHANGED vars
    <3>1. dev' = dev /\ session' = session /\ manifests' = manifests BY <2>2 DEF vars
    <3> QED BY <3>1 DEF Orderly, Named
  <2> QED BY <2>1, <2>2
<1>3. IInv /\ Orderly /\ [Next /\ UNCHANGED metadataFirst]_<<vars, metadataFirst>> => [Superseding]_vars
  <2> SUFFICES ASSUME IInv, Orderly, Next PROVE Superseding OBVIOUS
  <2> SUFFICES ASSUME NEW d \in Device, NEW p \in DOMAIN dev[d].disk, IsFile(dev[d].disk[p]), edits' = edits,
                      dev[d].disk[p] \notin Files(d)'
               PROVE  LET known == {n \in Revisions(dev[d], p, dev[d].head) : dev[d].journal[n].body = dev[d].disk[p]}
                      IN /\ known # {}
                         /\ d = Host => \E c \in Clients : \E e \in manifests[c].members :
                                          e.path = p /\ e.base = object(host, p) /\ e.base \in known
    OBVIOUS
  <2>1. Held(d, dev'[d]) BY StepHeld DEF AllHeld
  <2>2. ~Holding(dev'[d], dev[d].disk[p]) BY DEF Holding, Files
  <2> QED BY <2>1, <2>2, OnlyThose
<1>4. [][Superseding]_vars => OnlySuperseded BY PTL DEF OnlySuperseded
<1> QED BY <1>1, <1>2, <1>3, <1>4, Invariance, PTL DEF Spec
=============================================================================
