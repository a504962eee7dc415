---------------------------- MODULE ConfirmProofs ----------------------------
(***************************************************************************)
(* The decisions a round brings back, and what its cursors pass, of the    *)
(* paths that are no conflict copies: for any number of mirrors, paths,    *)
(* edits, failures and rows of a page, and either content policy.          *)
(***************************************************************************)
EXTENDS ReplicationProofs

(***************************************************************************)
(* The originals: paths of their own, not conflict copies.  Revisions of   *)
(* one advance: their clocks grow, or a directory takes the place of       *)
(* something else that was as late.                                        *)
(***************************************************************************)
Own(p) == Len(p) = 1

Later(a, b) ==
  \/ Dominates(b.clock, a.clock)
  \/ b.clock = a.clock /\ b.body = Directory /\ a.body # Directory

Rises(x) ==
  \A m, n \in 1..x.head :
    m < n /\ x.journal[m].path = x.journal[n].path /\ Own(x.journal[n].path) => Later(x.journal[m], x.journal[n])

LEMMA CoversTrans ==
  ASSUME NEW a \in Clock, NEW b \in Clock, NEW c \in Clock, Covers(a, b), Covers(b, c)
  PROVE  Covers(a, c)
<1> SUFFICES ASSUME NEW d \in Device PROVE a[d] >= c[d] BY DEF Covers
<1>1. a[d] >= b[d] /\ b[d] >= c[d] BY DEF Covers
<1>2. a[d] \in Nat /\ b[d] \in Nat /\ c[d] \in Nat BY DEF Clock
<1> QED BY <1>1, <1>2

LEMMA ClocksEqual ==
  ASSUME NEW a \in Clock, NEW b \in Clock, Covers(a, b), Covers(b, a)
  PROVE  a = b
<1>1. ASSUME NEW d \in Device PROVE a[d] = b[d]
  <2>1. a[d] >= b[d] /\ b[d] >= a[d] BY DEF Covers
  <2>2. a[d] \in Nat /\ b[d] \in Nat BY DEF Clock
  <2> QED BY <2>1, <2>2
<1>2. a = [d \in Device |-> a[d]] /\ b = [d \in Device |-> b[d]] BY DEF Clock
<1> QED BY <1>1, <1>2

LEMMA DominatesFacts ==
  ASSUME NEW a \in Clock, NEW b \in Clock
  PROVE  /\ Dominates(a, b) => Covers(a, b) /\ ~Covers(b, a)
         /\ Covers(a, b) /\ ~Covers(b, a) => Dominates(a, b)
<1>1. \A d \in Device : a[d] \in Nat /\ b[d] \in Nat BY DEF Clock
<1>2. ASSUME Dominates(a, b) PROVE Covers(a, b) /\ ~Covers(b, a)
  <2>1. Covers(a, b) BY <1>2 DEF Dominates
  <2>2. PICK d \in Device : a[d] > b[d] BY <1>2 DEF Dominates
  <2>3. ~(b[d] >= a[d]) BY <1>1, <2>2
  <2> QED BY <2>1, <2>3 DEF Covers
<1>3. ASSUME Covers(a, b), ~Covers(b, a) PROVE Dominates(a, b)
  <2>1. PICK d \in Device : ~(b[d] >= a[d]) BY <1>3 DEF Covers
  <2>2. a[d] > b[d] BY <1>1, <2>1
  <2> QED BY <1>3, <2>2 DEF Dominates
<1> QED BY <1>2, <1>3

LEMMA LaterTrans ==
  ASSUME NEW a, NEW b, NEW c, a.clock \in Clock, b.clock \in Clock, c.clock \in Clock, Later(a, b), Later(b, c)
  PROVE  Later(a, c)
<1>1. Covers(b.clock, a.clock) /\ Covers(c.clock, b.clock) BY DominatesFacts, CoversItself DEF Later
<1>2. Covers(c.clock, a.clock) BY <1>1, CoversTrans
<1>3. CASE ~Covers(a.clock, c.clock) BY <1>2, <1>3, DominatesFacts DEF Later
<1>4. CASE Covers(a.clock, c.clock)
  <2>1. Covers(a.clock, b.clock) /\ Covers(b.clock, c.clock) BY <1>1, <1>4, CoversTrans
  <2>2. ~Dominates(b.clock, a.clock) /\ ~Dominates(c.clock, b.clock) BY <2>1, DominatesFacts
  <2> QED BY <2>2 DEF Later
<1> QED BY <1>3, <1>4

(* What a later revision covers, whichever. *)
LEMMA RisesFacts ==
  ASSUME NEW x, Good(x), Rises(x), NEW m \in 1..x.head, NEW n \in 1..x.head, m <= n,
         x.journal[m].path = x.journal[n].path, Own(x.journal[n].path)
  PROVE  /\ Covers(x.journal[n].clock, x.journal[m].clock)
         /\ m # n => Later(x.journal[m], x.journal[n])
<1>1. x.journal[m].clock \in Clock /\ x.journal[n].clock \in Clock BY DEF Good, Solid
<1>2. CASE m = n BY <1>1, <1>2, CoversItself
<1>3. CASE m # n
  <2>1. m < n
    <3>1. m \in Nat /\ n \in Nat BY DEF Good, Solid, Shape
    <3> QED BY <1>3, <3>1
  <2>2. Later(x.journal[m], x.journal[n]) BY <2>1 DEF Rises
  <2> QED BY <1>1, <2>2, DominatesFacts, CoversItself DEF Later
<1> QED BY <1>2, <1>3

(* What committing a record leaves. *)
LEMMA CommitRow ==
  ASSUME NEW x, Good(x), NEW e, NEW base
  PROVE  LET z == commit(x, e, base)
             o == object(x, e.path)
         IN /\ z.counter = x.counter /\ z.seq = x.seq /\ z.id = x.id /\ z.entries = x.entries
            /\ \/ z.head = x.head /\ z.journal = x.journal
               \/ /\ z.head = x.head + 1 /\ (o = 0 \/ Version(x.journal[o]) # Version(e))
                  /\ z.journal[x.head + 1].path = e.path /\ z.journal[x.head + 1].clock = e.clock
                  /\ z.journal[x.head + 1].body = e.body
                  /\ \A n \in 1..x.head : z.journal[n] = x.journal[n]
<1> DEFINE z == commit(x, e, base)
           o == object(x, e.path)
           row == [path |-> e.path, body |-> e.body, clock |-> e.clock,
                   parents |-> {o, IF base <= x.head THEN base ELSE 0} \ {0}]
           f == [n \in 1..x.head + 1 |-> IF n <= x.head THEN x.journal[n] ELSE row]
<1>1. Shape(x) /\ x.head \in Nat BY DEF Good, Solid, Shape
<1>2. z = IF o # 0 /\ Version(x.journal[o]) = Version(e) THEN x ELSE append(x, row) BY DEF commit
<1>3. append(x, row) = [x EXCEPT !.head = x.head + 1, !.journal = f] BY DEF append
<1>4. row.path = e.path /\ row.clock = e.clock /\ row.body = e.body OBVIOUS
<1>5. (\A n \in 1..x.head : f[n] = x.journal[n]) /\ f[x.head + 1] = row BY <1>1
<1> HIDE DEF z, row, f, o
<1>6. CASE z = x BY <1>6 DEF z
<1>7. CASE z # x
  <2>1. z = [x EXCEPT !.head = x.head + 1, !.journal = f] BY <1>2, <1>3, <1>7
  <2>2. z.head = x.head + 1 /\ z.journal = f /\ z.counter = x.counter /\ z.seq = x.seq /\ z.id = x.id /\ z.entries = x.entries
    BY <1>1, <2>1 DEF Shape
  <2> QED BY <1>2, <1>4, <1>5, <1>7, <2>2 DEF z, o
<1> QED BY <1>6, <1>7

(* A revision that is later than the last one of its path. *)
LEMMA CommitRises ==
  ASSUME NEW x, Good(x), Rises(x), NEW e, Record(e), NEW base,
         LET o == object(x, e.path)
         IN Own(e.path) => o = 0 \/ Version(x.journal[o]) = Version(e) \/ Later(x.journal[o], e)
  PROVE  Rises(commit(x, e, base))
<1> DEFINE z == commit(x, e, base)
           o == object(x, e.path)
<1>1. /\ \/ z.head = x.head /\ z.journal = x.journal
         \/ /\ z.head = x.head + 1 /\ (o = 0 \/ Version(x.journal[o]) # Version(e))
            /\ z.journal[x.head + 1].path = e.path /\ z.journal[x.head + 1].clock = e.clock
            /\ z.journal[x.head + 1].body = e.body
            /\ \A n \in 1..x.head : z.journal[n] = x.journal[n]
  BY CommitRow
<1>2. x.head \in Nat BY DEF Good, Solid, Shape
<1>3. /\ o = 0 \/ (o \in 1..x.head /\ x.journal[o].path = e.path)
      /\ \A m \in 1..x.head : m <= x.head /\ x.journal[m].path = e.path => m <= o /\ o # 0
  BY <1>2, LatestFacts DEF object
<1>4. Own(e.path) => o = 0 \/ Version(x.journal[o]) = Version(e) \/ Later(x.journal[o], e) OBVIOUS
<1> HIDE DEF z, o
<1>5. CASE z.head = x.head /\ z.journal = x.journal BY <1>5 DEF Rises, z
<1>6. CASE ~(z.head = x.head /\ z.journal = x.journal)
  <2> SUFFICES ASSUME NEW m \in 1..z.head, NEW n \in 1..z.head, m < n,
                      z.journal[m].path = z.journal[n].path, Own(z.journal[n].path)
               PROVE  Later(z.journal[m], z.journal[n])
    BY DEF Rises, z
  <2>1. m \in 1..x.head /\ (n \in 1..x.head \/ n = x.head + 1) BY <1>1, <1>2, <1>6
  <2>2. CASE n \in 1..x.head BY <1>1, <1>6, <2>1, <2>2 DEF Rises
  <2>3. CASE n = x.head + 1
    <3>1. z.journal[m] = x.journal[m] /\ x.journal[m].path = e.path /\ Own(e.path) BY <1>1, <1>6, <2>1, <2>3
    <3>2. m \in 1..x.head /\ m <= x.head BY <1>2, <2>1
    <3>3. m <= o /\ o # 0 BY <1>3, <3>1, <3>2
    <3>4. o \in 1..x.head /\ x.journal[o].path = e.path BY <1>3, <3>3
    <3>5. Later(x.journal[o], e) BY <1>1, <1>4, <1>6, <3>1, <3>3
    <3>6. Later(x.journal[m], e)
      <4>1. CASE m = o BY <3>5, <4>1
      <4>2. CASE m # o
        <5>1. Later(x.journal[m], x.journal[o]) BY <3>1, <3>2, <3>3, <3>4, <4>2, RisesFacts
        <5>2. x.journal[m].clock \in Clock /\ x.journal[o].clock \in Clock /\ e.clock \in Clock
          BY <3>2, <3>4 DEF Good, Solid, Record
        <5> QED BY <3>5, <5>1, <5>2, LaterTrans
      <4> QED BY <4>1, <4>2
    <3> QED BY <1>1, <1>6, <2>3, <3>1, <3>6 DEF Later
  <2> QED BY <2>1, <2>2, <2>3
<1> QED BY <1>5, <1>6

-----------------------------------------------------------------------------
(***************************************************************************)
(* One device.  A component of the clock of an original tells that its     *)
(* client has, in W, a record of that path; a proposal is made on a        *)
(* revision that it goes beyond, and has its bytes; the authority's        *)
(* revisions advance.                                                      *)
(***************************************************************************)
Known(W, p, clock) == Own(p) => \A d \in Clients : clock[d] # 0 => <<d, p>> \in W

(* A proposal is not what it is based on: its clock is ahead, or it makes a directory. *)
Fresh(h, e) ==
  e.base # 0 => \/ ~Covers(h.journal[e.base].clock, e.clock)
                \/ /\ e.clock = h.journal[e.base].clock /\ e.body = Directory
                   /\ h.journal[e.base].body # Directory

Rooted(x) == \A p \in DOMAIN x.entries : Own(p) /\ x.entries[p].rev = 0 => Fresh(x, x.entries[p]) /\ ~x.entries[p].remote

Within(W, x) ==
  /\ \A p \in DOMAIN x.entries : Known(W, p, x.entries[p].clock)
  /\ \A n \in 1..x.head : Known(W, x.journal[n].path, x.journal[n].clock)

(* The originals of a device: proposals are its own and new, its clocks count known writers, revisions rise. *)
Sound(W, x) == Rooted(x) /\ Within(W, x) /\ (x.id = Host => Rises(x))

(* The revision that a record stands on. *)
Stands(x, p) == IF entry(x, p).rev = 0 THEN entry(x, p).base ELSE entry(x, p).rev

(* It stays, a first record gets one, or it becomes that of a merged record. *)
Moves(x, y, R) ==
  \A p : Own(p) =>
    \/ Stands(y, p) = Stands(x, p) /\ entry(y, p).rev \in {0, entry(x, p).rev}
    \/ Stands(x, p) = 0 /\ entry(y, p).rev = 0
    \/ \E e \in R : e.path = p /\ Stands(y, p) = e.rev /\ entry(y, p).rev \in {0, e.rev}

(* What may be saved. *)
Fit(W, x, e, remote) ==
  /\ Known(W, e.path, e.clock)
  /\ Own(e.path) =>
       IF x.id = Host
         THEN e.path \in DOMAIN x.entries =>
                \/ x.entries[e.path].clock = e.clock /\ x.entries[e.path].body = e.body
                \/ Later(x.entries[e.path], e)
         ELSE e.rev = 0 => Fresh(x, e) /\ ~remote

LEMMA SoundMore ==
  ASSUME NEW V, NEW W, V \subseteq W, NEW x
  PROVE  /\ Sound(V, x) => Sound(W, x)
         /\ \A p, clock : Known(V, p, clock) => Known(W, p, clock)
<1>1. \A p, clock : Known(V, p, clock) => Known(W, p, clock) BY DEF Known
<1> QED BY <1>1 DEF Sound, Within

LEMMA SoundDisk ==
  ASSUME NEW W, NEW x, NEW y, SameIndex(x, y)
  PROVE  /\ Sound(W, x) => Sound(W, y)
         /\ \A p : entry(y, p) = entry(x, p) /\ Stands(y, p) = Stands(x, p)
         /\ \A R : Moves(x, y, R)
         /\ \A e, remote : Fit(W, x, e, remote) => Fit(W, y, e, remote)
         /\ \A e : contains(x, e) => contains(y, e)
<1>1. \A p : entry(y, p) = entry(x, p) BY DEF SameIndex, entry
<1>2. \A p : Stands(y, p) = Stands(x, p) BY <1>1 DEF Stands
<1>3. Sound(W, x) => Sound(W, y) BY DEF Sound, Rooted, Within, Rises, Fresh, SameIndex
<1>4. \A e, remote : Fit(W, x, e, remote) => Fit(W, y, e, remote) BY DEF Fit, Fresh, SameIndex
<1>5. \A e : contains(x, e) => contains(y, e) BY DEF contains, projected, SameIndex
<1> QED BY <1>1, <1>2, <1>3, <1>4, <1>5 DEF Moves

LEMMA MovesNot ==
  ASSUME NEW x, NEW R
  PROVE  Moves(x, x, R)
BY DEF Moves

LEMMA MovesMore ==
  ASSUME NEW x, NEW y, NEW R, Moves(x, y, {})
  PROVE  Moves(x, y, R)
BY DEF Moves

LEMMA MovesOn ==
  ASSUME NEW x, NEW y, NEW z, NEW R, Moves(x, y, R), Moves(y, z, R), \A e \in R : Own(e.path) => e.rev # 0
  PROVE  Moves(x, z, R)
<1> SUFFICES ASSUME NEW p, Own(p)
             PROVE  \/ Stands(z, p) = Stands(x, p) /\ entry(z, p).rev \in {0, entry(x, p).rev}
                    \/ Stands(x, p) = 0 /\ entry(z, p).rev = 0
                    \/ \E e \in R : e.path = p /\ Stands(z, p) = e.rev /\ entry(z, p).rev \in {0, e.rev}
  BY DEF Moves
<1>1. \/ Stands(y, p) = Stands(x, p) /\ entry(y, p).rev \in {0, entry(x, p).rev}
      \/ Stands(x, p) = 0 /\ entry(y, p).rev = 0
      \/ \E e \in R : e.path = p /\ Stands(y, p) = e.rev /\ entry(y, p).rev \in {0, e.rev}
  BY DEF Moves
<1>2. \/ Stands(z, p) = Stands(y, p) /\ entry(z, p).rev \in {0, entry(y, p).rev}
      \/ Stands(y, p) = 0 /\ entry(z, p).rev = 0
      \/ \E e \in R : e.path = p /\ Stands(z, p) = e.rev /\ entry(z, p).rev \in {0, e.rev}
  BY DEF Moves
<1> QED BY <1>1, <1>2

-----------------------------------------------------------------------------
(* The index after a save, field by field. *)
LEMMA SavedExactly ==
  ASSUME NEW x, Good(x), NEW e, Record(e), NEW remote \in BOOLEAN, NEW base
  PROVE  LET y == save(x, e, remote, base)
             z == IF x.id = Host THEN commit(x, e, base) ELSE x
         IN /\ y.id = x.id /\ y.head = z.head /\ y.journal = z.journal
            /\ DOMAIN y.entries = DOMAIN x.entries \union {e.path}
            /\ \A q \in DOMAIN x.entries : q # e.path => y.entries[q] = x.entries[q]
            /\ y.entries[e.path].clock = e.clock /\ y.entries[e.path].body = e.body
            /\ y.entries[e.path].remote = remote
            /\ x.id # Host => /\ y.entries[e.path].rev = e.rev
                              /\ y.entries[e.path].base = IF e.rev # 0 THEN 0 ELSE e.base
<1> DEFINE z == IF x.id = Host THEN commit(x, e, base) ELSE x
           prev == entry(x, e.path)
           new == Version(prev) # Version(e)
           kept == [path |-> e.path, body |-> e.body, clock |-> e.clock,
                    rev |-> IF z.id = Host THEN object(z, e.path) ELSE e.rev,
                    base |-> IF z.id = Host \/ e.rev # 0 THEN 0 ELSE e.base,
                    seq |-> IF new THEN z.seq + 1 ELSE prev.seq, remote |-> remote]
           f == [q \in DOMAIN z.entries \union {e.path} |-> IF q = e.path THEN kept ELSE z.entries[q]]
           y == save(x, e, remote, base)
<1>1. y = [z EXCEPT !.seq = IF new THEN z.seq + 1 ELSE z.seq, !.entries = f] BY DEF save, recorded
<1>2. z.entries = x.entries /\ z.id = x.id
  <2>1. CASE x.id = Host BY <2>1, CommitAdds
  <2>2. CASE x.id # Host BY <2>2
  <2> QED BY <2>1, <2>2
<1>3. Shape(z)
  <2>1. CASE x.id = Host BY <2>1, Committed DEF Solid
  <2>2. CASE x.id # Host BY <2>2 DEF Good, Solid
  <2> QED BY <2>1, <2>2
<1>4. /\ kept.body = e.body /\ kept.clock = e.clock /\ kept.remote = remote
      /\ z.id # Host => kept.rev = e.rev /\ kept.base = IF e.rev # 0 THEN 0 ELSE e.base
  OBVIOUS
<1> HIDE DEF z, prev, new, kept
<1>5. DOMAIN f = DOMAIN x.entries \union {e.path} /\ f[e.path] = kept
      /\ \A q \in DOMAIN x.entries : q # e.path => f[q] = x.entries[q]
  BY <1>2
<1> HIDE DEF f, y
<1>6. y.entries = f /\ y.id = x.id /\ y.journal = z.journal /\ y.head = z.head
  <2> DEFINE k == IF new THEN z.seq + 1 ELSE z.seq
  <2>1. y = [z EXCEPT !.seq = k, !.entries = f] BY <1>1
  <2> HIDE DEF k
  <2> QED BY <1>2, <1>3, <2>1 DEF Shape
<1> QED BY <1>2, <1>4, <1>5, <1>6 DEF y, z

LEMMA SavedSound ==
  ASSUME NEW x, Good(x), Tidy(x), NEW W, Sound(W, x), NEW e, Record(e), NEW remote \in BOOLEAN, NEW base,
         x.id # Host => Based(x, e.path, e.base),
         x.id # Host /\ e.rev # 0 => Backs(x, e.path, e),
         Fit(W, x, e, remote)
  PROVE  Sound(W, save(x, e, remote, base))
<1> DEFINE y == save(x, e, remote, base)
           z == IF x.id = Host THEN commit(x, e, base) ELSE x
           p == e.path
<1>1. Good(y) BY Saved
<1>2. /\ y.id = x.id /\ y.head = z.head /\ y.journal = z.journal
      /\ DOMAIN y.entries = DOMAIN x.entries \union {p}
      /\ \A q \in DOMAIN x.entries : q # p => y.entries[q] = x.entries[q]
      /\ y.entries[p].clock = e.clock /\ y.entries[p].body = e.body
      /\ y.entries[p].remote = remote
      /\ x.id # Host => /\ y.entries[p].rev = e.rev
                        /\ y.entries[p].base = IF e.rev # 0 THEN 0 ELSE e.base
  BY SavedExactly
<1>3. Known(W, p, e.clock) BY DEF Fit
<1>4. \A q \in DOMAIN y.entries : Known(W, q, y.entries[q].clock) BY <1>2, <1>3 DEF Sound, Within
<1>5. CASE x.id = Host
  <2>1. /\ \/ z.head = x.head /\ z.journal = x.journal
           \/ /\ z.head = x.head + 1 /\ z.journal[x.head + 1].path = p /\ z.journal[x.head + 1].clock = e.clock
              /\ \A n \in 1..x.head : z.journal[n] = x.journal[n]
    BY <1>5, CommitRow
  <2>2. x.head \in Nat BY DEF Good, Solid, Shape
  <2>3. \A n \in 1..y.head : Known(W, y.journal[n].path, y.journal[n].clock)
    <3> TAKE n \in 1..y.head
    <3>1. n \in 1..x.head \/ (n = x.head + 1 /\ z.head = x.head + 1) BY <1>2, <2>1, <2>2
    <3>2. CASE n \in 1..x.head BY <1>2, <2>1, <3>2 DEF Sound, Within
    <3>3. CASE n = x.head + 1 /\ z.head = x.head + 1
      <4>1. z.journal[n].path = p /\ z.journal[n].clock = e.clock BY <2>1, <2>2, <3>3
      <4> QED BY <1>2, <1>3, <4>1
    <3> QED BY <3>1, <3>2, <3>3
  <2>4. \A q \in DOMAIN y.entries : y.entries[q].rev # 0
    <3> TAKE q \in DOMAIN y.entries
    <3>1. y.entries[q].rev \in 1..y.head /\ y.head \in Nat BY <1>1, <1>2, <1>5 DEF Good, Solid, Backs, Shape
    <3> QED BY <3>1
  <2>5. LET o == object(x, p)
        IN Own(p) => o = 0 \/ Version(x.journal[o]) = Version(e) \/ Later(x.journal[o], e)
    <3> DEFINE o == object(x, p)
    <3> SUFFICES ASSUME Own(p), o # 0 PROVE Version(x.journal[o]) = Version(e) \/ Later(x.journal[o], e)
      OBVIOUS
    <3>1. o \in 1..x.head /\ x.journal[o].path = p BY <2>2, LatestFacts DEF object
    <3>2. p \in DOMAIN x.entries BY <1>5, <3>1 DEF Good, Whole
    <3>3. x.entries[p].rev = o BY <1>5, <3>2 DEF Tidy
    <3>4. x.journal[o].body = x.entries[p].body /\ x.journal[o].clock = x.entries[p].clock
      BY <1>5, <3>2, <3>3, BackedPath DEF Good, Solid
    <3>5. \/ x.entries[p].clock = e.clock /\ x.entries[p].body = e.body
          \/ Later(x.entries[p], e)
      BY <1>5, <3>2 DEF Fit
    <3> QED BY <3>1, <3>4, <3>5 DEF Later, Version
  <2>6. Rises(z) BY <1>5, <2>5, CommitRises DEF Sound
  <2> HIDE DEF y, z
  <2>7. Rises(y) BY <1>2, <2>6 DEF Rises
  <2> QED BY <1>2, <1>4, <2>3, <2>4, <2>7 DEF Sound, Within, Rooted, y
<1>6. CASE x.id # Host
  <2>1. y.head = x.head /\ y.journal = x.journal BY <1>2, <1>6
  <2> HIDE DEF y, z
  <2>2. ASSUME NEW q \in DOMAIN y.entries, Own(q), y.entries[q].rev = 0
        PROVE  Fresh(y, y.entries[q]) /\ ~y.entries[q].remote
    <3>1. CASE q # p
      <4>1. q \in DOMAIN x.entries /\ y.entries[q] = x.entries[q] BY <1>2, <3>1
      <4> QED BY <2>1, <2>2, <4>1 DEF Sound, Rooted, Fresh
    <3>2. CASE q = p
      <4>1. e.rev = 0 /\ y.entries[q].base = e.base BY <1>2, <1>6, <2>2, <3>2
      <4>2. Fresh(x, e) /\ ~remote BY <1>6, <2>2, <3>2, <4>1 DEF Fit
      <4> QED BY <1>2, <2>1, <3>2, <4>1, <4>2 DEF Fresh
    <3> QED BY <3>1, <3>2
  <2> QED BY <1>2, <1>4, <1>6, <2>1, <2>2 DEF Sound, Within, Rooted, y
<1> QED BY <1>5, <1>6

(* What the mirror then stands on. *)
LEMMA SavedStands ==
  ASSUME NEW x, Good(x), x.id # Host, NEW e, Record(e), NEW remote \in BOOLEAN, NEW base
  PROVE  LET y == save(x, e, remote, base)
         IN /\ \A q : q # e.path => entry(y, q) = entry(x, q) /\ Stands(y, q) = Stands(x, q)
            /\ entry(y, e.path).rev = e.rev /\ entry(y, e.path).clock = e.clock /\ entry(y, e.path).body = e.body
            /\ Stands(y, e.path) = IF e.rev = 0 THEN e.base ELSE e.rev
<1> DEFINE y == save(x, e, remote, base)
           p == e.path
<1>1. /\ DOMAIN y.entries = DOMAIN x.entries \union {p}
      /\ \A q \in DOMAIN x.entries : q # p => y.entries[q] = x.entries[q]
      /\ y.entries[p].clock = e.clock /\ y.entries[p].body = e.body
      /\ y.entries[p].rev = e.rev /\ y.entries[p].base = IF e.rev # 0 THEN 0 ELSE e.base
  BY SavedExactly
<1> HIDE DEF y
<1>2. \A q : q # p => entry(y, q) = entry(x, q) BY <1>1 DEF entry
<1>3. entry(y, p) = y.entries[p] BY <1>1 DEF entry
<1> QED BY <1>1, <1>2, <1>3 DEF Stands, y

(* What indexing one path saves, if anything. *)
LEMMA ObservedCases ==
  ASSUME NEW x, Good(x), NEW p, NEW base
  PROVE  LET old == entry(x, p)
         IN \/ observed(x, p, base) = x
            \/ /\ p \in DOMAIN x.entries /\ old.path = p /\ Record(old)
               /\ \E r \in BOOLEAN : ~r /\ observed(x, p, base) = save(x, old, r, base)
            \/ \E z, e : \E tick \in Nat : \E r \in BOOLEAN :
                 /\ Good(z) /\ SameTable(x, z) /\ ~r /\ observed(x, p, base) = save(z, e, r, base)
                 /\ Record(e) /\ e.path = p /\ e.rev = 0 /\ e.base = observedBase(x, old) /\ Based(z, p, e.base)
                 /\ e.clock = [old.clock EXCEPT ![x.id] = tick] /\ tick > old.clock[x.id]
<1> DEFINE old == entry(x, p)
           body == state(x, p)
           tick == 1 + (IF old.clock[x.id] > x.counter THEN old.clock[x.id] ELSE x.counter)
           b == observedBase(x, old)
           e == [path |-> old.path, body |-> body, clock |-> [old.clock EXCEPT ![x.id] = tick],
                 rev |-> 0, base |-> b]
           z == [x EXCEPT !.counter = tick]
           y == observed(x, p, base)
<1>1. y = IF unchanged(x, p) THEN x ELSE IF old.body = body THEN save(x, old, FALSE, base) ELSE save(z, e, FALSE, base)
  <2>1. old.path = p BY Holds
  <2> QED BY <2>1 DEF observed, edited
<1>2. /\ body \in Body /\ Missing \notin Body
      /\ p \in DOMAIN x.entries => old = x.entries[p] /\ old \in Entry(p)
      /\ old.path = p /\ old.clock \in Clock /\ old.rev \in Nat /\ old.base \in Nat
      /\ old.body # Missing => p \in DOMAIN x.entries /\ old.body \in Body
      /\ p \notin DOMAIN x.entries => old = NoEntry(p)
  BY Holds
<1>3. Shape(x) /\ Solid(x) BY DEF Good, Solid
<1>4. x.id \in Device /\ x.counter \in Nat /\ x.head \in Nat BY <1>3 DEF Shape
<1>5. p \in DOMAIN x.entries => Based(x, p, old.base) /\ (x.id = Host \/ old.rev # 0 => Backs(x, p, old))
  BY <1>2, <1>3 DEF Solid
<1> HIDE DEF body, old, y
<1>6. CASE unchanged(x, p) BY <1>1, <1>6 DEF y
<1>7. CASE ~unchanged(x, p) /\ old.body = body
  <2>1. Record(old) BY <1>2, <1>7 DEF Record
  <2>2. \E r \in BOOLEAN : ~r /\ y = save(x, old, r, base) BY <1>1, <1>7, Zenon
  <2> QED BY <1>2, <1>7, <2>1, <2>2 DEF y, old
<1>8. CASE ~unchanged(x, p) /\ old.body # body
  <2>1. tick \in Nat /\ tick > old.clock[x.id]
    <3>1. old.clock[x.id] \in Nat BY <1>2, <1>4 DEF Clock
    <3> QED BY <1>4, <3>1
  <2>2. [old.clock EXCEPT ![x.id] = tick] \in Clock
    <3> HIDE DEF tick
    <3> QED BY <1>2, <2>1 DEF Clock
  <2>3. b \in Nat /\ Based(x, p, b)
    <3>1. object(x, p) = 0 \/ (object(x, p) \in 1..x.head /\ x.journal[object(x, p)].path = p)
      BY <1>4, LatestFacts DEF object
    <3>2. b = IF Pending(old) THEN old.base ELSE IF old.rev # 0 THEN old.rev ELSE object(x, p)
      BY <1>2 DEF observedBase
    <3>3. old.body # Missing \/ old.rev # 0 => p \in DOMAIN x.entries BY <1>2 DEF NoEntry
    <3> HIDE DEF b
    <3>4. CASE Pending(old) BY <1>2, <1>5, <3>2, <3>3, <3>4 DEF Pending
    <3>5. CASE ~Pending(old) /\ old.rev # 0
      <4>1. Backs(x, p, old) BY <1>5, <3>3, <3>5
      <4> QED BY <1>2, <3>2, <3>5, <4>1, BackedPath DEF Based
    <3>6. CASE ~Pending(old) /\ old.rev = 0 BY <1>4, <3>1, <3>2, <3>6 DEF Based
    <3> QED BY <3>4, <3>5, <3>6
  <2>4. \E r \in BOOLEAN : ~r /\ y = save(z, e, r, base)
    <3>1. y = save(z, e, FALSE, base) BY <1>1, <1>8
    <3> HIDE DEF z, e
    <3> QED BY <3>1, Zenon
  <2>5. e.path = p /\ e.rev = 0 /\ e.base = b /\ e.clock = [old.clock EXCEPT ![x.id] = tick] /\ Record(e)
    <3> HIDE DEF tick, b
    <3>1. e.path = p /\ e.rev = 0 /\ e.base = b /\ e.body = body /\ e.clock = [old.clock EXCEPT ![x.id] = tick]
      BY <1>2
    <3> HIDE DEF e
    <3> QED BY <1>2, <2>2, <2>3, <3>1 DEF Record
  <2>6. Good(z) BY <2>1, Ticked
  <2>7. SameTable(x, z) BY <1>3 DEF Shape, SameTable
  <2>8. Based(z, p, e.base) BY <2>3, <2>5, <2>7 DEF Based, SameTable
  <2>9. b = observedBase(x, old) OBVIOUS
  <2> HIDE DEF z, e, tick, b
  <2> QED BY <2>1, <2>4, <2>5, <2>6, <2>7, <2>8, <2>9 DEF y, old
<1> QED BY <1>6, <1>7, <1>8

(* A counter that has passed a component of the clock is not yet covered. *)
LEMMA Beyond ==
  ASSUME NEW a \in Clock, NEW d \in Device, NEW tick \in Nat, tick > a[d]
  PROVE  LET b == [a EXCEPT ![d] = tick]
         IN Dominates(b, a) /\ \A c \in Clock : c[d] <= a[d] \/ ~Covers(c, a) => ~Covers(c, b)
<1> DEFINE b == [a EXCEPT ![d] = tick]
<1>1. b[d] = tick /\ \A k \in Device : k # d => b[k] = a[k] BY DEF Clock
<1>2. \A k \in Device : a[k] \in Nat /\ b[k] \in Nat BY <1>1 DEF Clock
<1>3. b \in Clock BY DEF Clock
<1> HIDE DEF b
<1>4. Covers(b, a) BY <1>1, <1>2 DEF Covers
<1>5. Dominates(b, a) BY <1>1, <1>4 DEF Dominates
<1>6. ASSUME NEW c \in Clock, c[d] <= a[d] \/ ~Covers(c, a) PROVE ~Covers(c, b)
  <2>1. c[d] \in Nat BY DEF Clock
  <2>2. CASE c[d] <= a[d]
    <3>1. ~(c[d] >= b[d]) BY <1>1, <1>2, <2>1, <2>2
    <3> QED BY <3>1 DEF Covers
  <2>3. CASE ~Covers(c, a) BY <1>3, <1>4, <2>3, CoversTrans
  <2> QED BY <1>6, <2>2, <2>3
<1> QED BY <1>5, <1>6 DEF b

LEMMA SoundTable ==
  ASSUME NEW W, NEW x, NEW z, SameTable(x, z)
  PROVE  /\ Sound(W, x) => Sound(W, z)
         /\ Tidy(x) => Tidy(z)
         /\ \A p : entry(z, p) = entry(x, p) /\ Stands(z, p) = Stands(x, p)
<1>1. \A p : entry(z, p) = entry(x, p) BY DEF SameTable, entry
<1>2. \A p : Stands(z, p) = Stands(x, p) BY <1>1 DEF Stands
<1>3. Sound(W, x) => Sound(W, z) BY DEF Sound, Rooted, Within, Rises, Fresh, SameTable
<1>4. Tidy(x) => Tidy(z) BY DEF SameTable, Tidy, object, LatestUpTo, Revisions
<1> QED BY <1>1, <1>2, <1>3, <1>4

(* An edit goes beyond the revision it is made on. *)
LEMMA EditedFresh ==
  ASSUME NEW x, Good(x), x.id # Host, NEW V, Sound(V, x), NEW p, Own(p), <<x.id, p>> \in V => p \in DOMAIN x.entries,
         NEW e, NEW tick \in Nat, e.clock = [entry(x, p).clock EXCEPT ![x.id] = tick], tick > entry(x, p).clock[x.id],
         e.base = observedBase(x, entry(x, p))
  PROVE  Fresh(x, e)
<1> DEFINE old == entry(x, p)
<1>1. /\ old.path = p /\ old.clock \in Clock /\ old.rev \in Nat /\ old.base \in Nat
      /\ p \in DOMAIN x.entries => old = x.entries[p] /\ old \in Entry(p)
      /\ old.body # Missing => p \in DOMAIN x.entries
      /\ p \notin DOMAIN x.entries => old = NoEntry(p)
      /\ Missing \notin Body
  BY Holds
<1>2. x.id \in Clients /\ x.id \in Device /\ x.head \in Nat BY DEF Good, Solid, Shape, Device
<1>3. e.base = IF Pending(old) THEN old.base ELSE IF old.rev # 0 THEN old.rev ELSE object(x, p)
  BY <1>1 DEF observedBase
<1>4. Dominates(e.clock, old.clock) /\ \A c \in Clock : c[x.id] <= old.clock[x.id] \/ ~Covers(c, old.clock) => ~Covers(c, e.clock)
  BY <1>1, <1>2, Beyond
<1>5. p \in DOMAIN x.entries => Based(x, p, old.base) /\ (old.rev # 0 => Backs(x, p, old))
  BY <1>1 DEF Good, Solid
<1>6. \A n \in 1..x.head : x.journal[n].clock \in Clock BY DEF Good, Solid
<1>7. \A c \in Clock : c[x.id] \in Nat BY <1>2 DEF Clock
<1> HIDE DEF old
<1> SUFFICES ASSUME e.base # 0 PROVE ~Covers(x.journal[e.base].clock, e.clock)
  BY DEF Fresh
<1>8. CASE Pending(old)
  <2>1. p \in DOMAIN x.entries /\ old.rev = 0 /\ old.base = e.base BY <1>1, <1>3, <1>8 DEF Pending
  <2>2. Fresh(x, old) BY <1>1, <2>1 DEF Sound, Rooted
  <2>3. e.base \in 1..x.head BY <1>5, <2>1 DEF Based
  <2>4. \/ ~Covers(x.journal[e.base].clock, old.clock)
        \/ old.clock = x.journal[e.base].clock
    BY <2>1, <2>2 DEF Fresh
  <2> QED BY <1>1, <1>4, <1>6, <1>7, <2>3, <2>4
<1>9. CASE ~Pending(old) /\ old.rev # 0
  <2>1. p \in DOMAIN x.entries BY <1>1, <1>9 DEF NoEntry
  <2>2. e.base = old.rev /\ Backs(x, p, old) BY <1>3, <1>5, <1>9, <2>1
  <2>3. e.base \in 1..x.head /\ x.journal[e.base].clock = old.clock BY <2>2, BackedPath
  <2> QED BY <1>1, <1>4, <1>6, <1>7, <2>3
<1>10. CASE ~Pending(old) /\ old.rev = 0
  <2>1. p \notin DOMAIN x.entries BY <1>1, <1>10 DEF Pending, Entry
  <2>2. e.base = object(x, p) BY <1>3, <1>10
  <2>3. e.base \in 1..x.head /\ x.journal[e.base].path = p BY <1>2, <2>2, LatestFacts DEF object
  <2>4. x.journal[e.base].clock[x.id] = 0 BY <1>2, <2>1, <2>3 DEF Sound, Within, Known
  <2>5. old.clock[x.id] \in Nat BY <1>1, <1>7
  <2> QED BY <1>4, <1>6, <2>3, <2>4, <2>5
<1> QED BY <1>8, <1>9, <1>10

LEMMA ResavedSound ==
  ASSUME NEW x, Good(x), Tidy(x), NEW W, Sound(W, x), NEW p \in DOMAIN x.entries, NEW base,
         NEW old, old = entry(x, p), old.path = p, Record(old), NEW r \in BOOLEAN, ~r,
         NEW y, y = save(x, old, r, base)
  PROVE  Sound(W, y) /\ (x.id # Host => Moves(x, y, {}))
<1>1. old = x.entries[p] BY Holds
<1>2. Known(W, p, old.clock) /\ Based(x, p, old.base) /\ (old.rev # 0 /\ x.id # Host => Backs(x, p, old))
  BY <1>1 DEF Sound, Within, Good, Solid
<1>3. Fit(W, x, old, r)
  <2>1. x.id # Host /\ Own(p) /\ old.rev = 0 => Fresh(x, old) BY <1>1 DEF Sound, Rooted
  <2> QED BY <1>1, <1>2, <2>1 DEF Fit
<1>4. Sound(W, y) BY <1>2, <1>3, SavedSound
<1>5. ASSUME x.id # Host PROVE Moves(x, y, {})
  <2>1. /\ \A q : q # p => entry(y, q) = entry(x, q) /\ Stands(y, q) = Stands(x, q)
        /\ entry(y, p).rev = old.rev /\ Stands(y, p) = IF old.rev = 0 THEN old.base ELSE old.rev
    BY <1>5, SavedStands
  <2>2. Stands(y, p) = Stands(x, p) BY <2>1 DEF Stands
  <2> QED BY <2>1, <2>2 DEF Moves
<1> QED BY <1>4, <1>5

LEMMA EditedSound ==
  ASSUME NEW x, Good(x), Tidy(x), NEW V, NEW W, V \subseteq W, Sound(V, x), NEW p, NEW base,
         x.id \in Clients /\ Own(p) /\ <<x.id, p>> \in V => p \in DOMAIN x.entries,
         x.id \in Clients => <<x.id, p>> \in W,
         NEW old, old = entry(x, p), NEW z, NEW e, NEW tick \in Nat, NEW y,
         Good(z), SameTable(x, z), NEW r \in BOOLEAN, ~r, y = save(z, e, r, base),
         Record(e), e.path = p, e.rev = 0, e.base = observedBase(x, old), Based(z, p, e.base),
         e.clock = [old.clock EXCEPT ![x.id] = tick], tick > old.clock[x.id]
  PROVE  Sound(W, y) /\ (x.id # Host => Moves(x, y, {}))
<1>1. /\ old.path = p /\ old.clock \in Clock /\ old.rev \in Nat /\ old.base \in Nat
      /\ p \in DOMAIN x.entries => old = x.entries[p] /\ old \in Entry(p)
      /\ old.body # Missing => p \in DOMAIN x.entries
      /\ p \notin DOMAIN x.entries => old = NoEntry(p)
      /\ Missing \notin Body
  BY Holds
<1>2. Sound(W, x) BY SoundMore
<1>3. /\ z.id = x.id /\ z.entries = x.entries /\ z.journal = x.journal /\ z.head = x.head
      /\ Sound(W, z) /\ Tidy(z) /\ \A q : entry(z, q) = entry(x, q) /\ Stands(z, q) = Stands(x, q)
  BY <1>2, SoundTable DEF SameTable
<1>4. x.id \in Device BY DEF Good, Solid, Shape
<1>5. Known(W, p, e.clock)
  <2>1. Known(W, p, old.clock)
    <3>1. CASE p \in DOMAIN x.entries BY <1>1, <1>2, <3>1 DEF Sound, Within
    <3>2. CASE p \notin DOMAIN x.entries
      <4>1. \A k \in Clients : old.clock[k] = 0 BY <1>1, <3>2 DEF NoEntry, ZeroClock, Device
      <4> QED BY <4>1 DEF Known
    <3> QED BY <3>1, <3>2
  <2>2. \A k \in Device : k # x.id => e.clock[k] = old.clock[k] BY <1>1 DEF Clock
  <2> SUFFICES ASSUME Own(p), NEW k \in Clients, e.clock[k] # 0 PROVE <<k, p>> \in W
    BY DEF Known
  <2>3. CASE k = x.id BY <2>3
  <2>4. CASE k # x.id
    <3>1. k \in Device BY DEF Device
    <3> QED BY <2>1, <2>2, <2>4, <3>1 DEF Known
  <2> QED BY <2>3, <2>4
<1>6. Own(p) /\ x.id # Host => Fresh(x, e)
  <2> SUFFICES ASSUME Own(p), x.id # Host PROVE Fresh(x, e)
    OBVIOUS
  <2>1. x.id \in Clients BY <1>4 DEF Device
  <2> QED BY <2>1, EditedFresh
<1>7. x.id = Host /\ p \in DOMAIN x.entries => Later(x.entries[p], e)
  <2>1. Dominates(e.clock, old.clock) BY <1>1, <1>4, Beyond
  <2> QED BY <1>1, <2>1 DEF Later
<1>8. Fit(W, z, e, r)
  <2>1. x.id # Host /\ Own(p) => Fresh(z, e) BY <1>3, <1>6 DEF Fresh
  <2> QED BY <1>3, <1>5, <1>7, <2>1 DEF Fit
<1>9. Sound(W, y) BY <1>3, <1>8, SavedSound
<1>10. ASSUME x.id # Host PROVE Moves(x, y, {})
  <2>1. /\ \A q : q # p => entry(y, q) = entry(z, q) /\ Stands(y, q) = Stands(z, q)
        /\ entry(y, p).rev = 0 /\ Stands(y, p) = e.base
    BY <1>3, <1>10, SavedStands
  <2>2. Stands(y, p) = Stands(x, p) \/ Stands(x, p) = 0
    <3>1. e.base = IF Pending(old) THEN old.base ELSE IF old.rev # 0 THEN old.rev ELSE object(x, p)
      BY <1>1 DEF observedBase
    <3>2. CASE Pending(old) BY <2>1, <3>1, <3>2 DEF Pending, Stands
    <3>3. CASE ~Pending(old) /\ old.rev # 0 BY <2>1, <3>1, <3>3 DEF Stands
    <3>4. CASE ~Pending(old) /\ old.rev = 0
      <4>1. p \notin DOMAIN x.entries BY <1>1, <3>4 DEF Pending, Entry
      <4>2. NoEntry(p).rev = 0 /\ NoEntry(p).base = 0 BY DEF NoEntry
      <4> QED BY <1>1, <4>1, <4>2 DEF Stands
    <3> QED BY <3>2, <3>3, <3>4
  <2> QED BY <1>3, <2>1, <2>2 DEF Moves
<1> QED BY <1>9, <1>10

(* Indexing one path. *)
LEMMA ObservedSound ==
  ASSUME NEW x, Good(x), Tidy(x), NEW V, NEW W, V \subseteq W, Sound(V, x), NEW p, NEW base,
         x.id \in Clients /\ Own(p) /\ <<x.id, p>> \in V => p \in DOMAIN x.entries,
         x.id \in Clients /\ p \in DOMAIN observed(x, p, base).entries => <<x.id, p>> \in W
  PROVE  LET y == observed(x, p, base)
         IN Sound(W, y) /\ (x.id # Host => Moves(x, y, {}))
<1> SUFFICES Sound(W, observed(x, p, base)) /\ (x.id # Host => Moves(x, observed(x, p, base), {}))
  OBVIOUS
<1>1. Sound(W, x) BY SoundMore
<1>2. CASE observed(x, p, base) = x BY <1>1, <1>2, MovesNot
<1>3. CASE /\ p \in DOMAIN x.entries /\ entry(x, p).path = p /\ Record(entry(x, p))
           /\ \E r \in BOOLEAN : ~r /\ observed(x, p, base) = save(x, entry(x, p), r, base)
  BY <1>1, <1>3, ResavedSound
<1>4. ASSUME NEW z, NEW e, NEW tick \in Nat, NEW r \in BOOLEAN,
             Good(z), SameTable(x, z), ~r, observed(x, p, base) = save(z, e, r, base),
             Record(e), e.path = p, e.rev = 0, e.base = observedBase(x, entry(x, p)), Based(z, p, e.base),
             e.clock = [entry(x, p).clock EXCEPT ![x.id] = tick], tick > entry(x, p).clock[x.id]
      PROVE  Sound(W, observed(x, p, base)) /\ (x.id # Host => Moves(x, observed(x, p, base), {}))
  <2>1. p \in DOMAIN save(z, e, r, base).entries BY <1>4, SavedExactly
  <2>2. x.id \in Clients => <<x.id, p>> \in W BY <1>4, <2>1
  <2> QED BY <1>4, <2>2, EditedSound
<1>5. CASE \E z, e : \E tick \in Nat : \E r \in BOOLEAN :
             /\ Good(z) /\ SameTable(x, z) /\ ~r /\ observed(x, p, base) = save(z, e, r, base)
             /\ Record(e) /\ e.path = p /\ e.rev = 0 /\ e.base = observedBase(x, entry(x, p)) /\ Based(z, p, e.base)
             /\ e.clock = [entry(x, p).clock EXCEPT ![x.id] = tick] /\ tick > entry(x, p).clock[x.id]
  BY <1>4, <1>5
<1> QED BY <1>2, <1>3, <1>5, ObservedCases

-----------------------------------------------------------------------------
(* Merging. *)
Minds(W, x, t, e) == Sound(W, t) /\ t.id = x.id /\ (x.id # Host => Moves(x, t, {e}))

LEMMA CopyNotOwn ==
  ASSUME NEW l, Path(l.path)
  PROVE  ~Own(conflictPath(l))
<1>1. PICK T : l.path \in Seq(T) BY DEF Path
<1> DEFINE S == T \union {l.body, l.clock}
           s == <<l.body, l.clock>>
<1>2. l.path \in Seq(S) /\ s \in Seq(S) /\ Len(s) = 2
  <2>1. \A i \in 1..Len(l.path) : l.path[i] \in S BY <1>1
  <2>2. l.path \in Seq(S) BY <1>1, <2>1
  <2> QED BY <2>2
<1> HIDE DEF S, s
<1>3. conflictPath(l) = l.path \o s BY DEF conflictPath, s
<1>4. Len(l.path \o s) = Len(l.path) + 2 /\ Len(l.path) \in Nat
  <2>1. Len(l.path \o s) = Len(l.path) + Len(s) BY <1>2, ConcatProperties
  <2>2. Len(l.path) \in Nat BY <1>2, LenProperties
  <2> QED BY <1>2, <2>1, <2>2
<1> QED BY <1>3, <1>4 DEF Own

(* The copy of a loser is no original, and nothing else of the index changes with it. *)
LEMMA CopySound ==
  ASSUME NEW x, Good(x), Tidy(x), NEW W, Sound(W, x), NEW plan, NEW e, Path(e.path), ~collides(x, plan), plan.clock \in Clock,
         plan.conflict => plan.loser.body \in Body /\ IsFile(plan.loser.body) /\ plan.loser.path = e.path
  PROVE  \A y \in {copied(x, plan), copySaved(x, plan, e)} :
           Good(y) /\ Tidy(y) /\ Minds(W, x, y, e) /\ Extends(x, y) /\ entry(y, e.path) = entry(x, e.path)
<1>1. \A y \in {copied(x, plan), copySaved(x, plan, e)} : Good(y) /\ Tidy(y) BY CopyTidy
<1>2. \A y \in {copied(x, plan), copySaved(x, plan, e)} : Extends(x, y) BY CopyMade DEF Ready, Evolves
<1>3. CASE ~plan.conflict
  <2>1. copied(x, plan) = x /\ copySaved(x, plan, e) = x BY <1>3 DEF copied, copySaved
  <2> QED BY <1>1, <1>2, <2>1, MovesNot DEF Minds
<1>4. CASE plan.conflict
  <2> DEFINE l == plan.loser
             p == conflictPath(l)
             w == withParent(x, p)
             y == copied(x, plan)
             f == proposed(l, p, plan.clock, 0)
             z == copySaved(x, plan, e)
  <2>1. p # e.path /\ ~Own(p) BY <1>4, CopyPath, CopyNotOwn
  <2>2. SameIndex(x, w) /\ Good(w) BY ParentWritten
  <2>3. y = onDisk(w, p, l.body) BY <1>4 DEF copied
  <2>4. \E r \in BOOLEAN : ~r /\ z = save(y, f, r, e.base)
    <3>1. z = save(y, f, FALSE, e.base) BY <1>4 DEF copySaved
    <3> HIDE DEF z, y, f
    <3> QED BY <3>1, Zenon
  <2>5. f.path = p /\ f.rev = 0 /\ f.base = 0 /\ Record(f)
    <3>1. f.path = p /\ f.body = l.body /\ f.clock = plan.clock /\ f.rev = 0 /\ f.base = 0 BY DEF proposed
    <3> HIDE DEF f
    <3> QED BY <1>4, <3>1 DEF Record
  <2>6. l.body \in Body BY <1>4
  <2> HIDE DEF l, p, w, f
  <2>7. SameIndex(w, onDisk(w, p, l.body)) BY <2>2, <2>6, Written
  <2>8. SameIndex(x, y) BY <2>2, <2>3, <2>7 DEF SameIndex
  <2>9. Good(y) /\ Tidy(y) BY <1>1
  <2> HIDE DEF y, z
  <2>10. Sound(W, y) /\ Moves(x, y, {e}) /\ \A q : entry(y, q) = entry(x, q) /\ Stands(y, q) = Stands(x, q)
    BY <2>8, SoundDisk
  <2>11. y.id = x.id BY <2>8 DEF SameIndex
  <2>12. PICK r \in BOOLEAN : ~r /\ z = save(y, f, r, e.base) BY <2>4
  <2>13. Fit(W, y, f, r) /\ Based(y, f.path, f.base) BY <2>1, <2>5 DEF Fit, Known, Based
  <2>14. Sound(W, z) BY <2>5, <2>9, <2>10, <2>12, <2>13, SavedSound
  <2>15. z.id = x.id /\ entry(z, e.path) = entry(y, e.path)
    <3>1. /\ z.id = y.id /\ DOMAIN z.entries = DOMAIN y.entries \union {p}
          /\ \A q \in DOMAIN y.entries : q # p => z.entries[q] = y.entries[q]
      BY <2>5, <2>9, <2>12, SavedExactly
    <3> QED BY <2>1, <2>11, <3>1 DEF entry
  <2>16. x.id # Host => Moves(x, z, {e})
    <3> SUFFICES ASSUME x.id # Host PROVE Moves(x, z, {e})
      OBVIOUS
    <3>1. \A q : q # f.path => entry(z, q) = entry(y, q) /\ Stands(z, q) = Stands(y, q)
      BY <2>5, <2>9, <2>11, <2>12, SavedStands
    <3>2. \A q : Own(q) => q # f.path BY <2>1, <2>5
    <3> QED BY <2>10, <3>1, <3>2 DEF Moves
  <2>17. Minds(W, x, y, e) /\ Minds(W, x, z, e) BY <2>10, <2>11, <2>14, <2>15, <2>16 DEF Minds
  <2>18. entry(z, e.path) = entry(x, e.path) /\ entry(y, e.path) = entry(x, e.path) BY <2>10, <2>15
  <2> QED BY <1>1, <1>2, <2>17, <2>18 DEF y, z
<1> QED BY <1>3, <1>4

LEMMA PlacedIndex ==
  ASSUME NEW x, Good(x), NEW plan, NEW e, Record(e)
  PROVE  SameIndex(x, cleared(x, plan, e)) /\ SameIndex(x, installed(x, plan, e))
<1> DEFINE w == IF e.body = Deleted THEN x ELSE withParent(x, e.path)
<1>1. SameIndex(x, x) BY DEF SameIndex
<1>2. SameIndex(x, w) /\ Good(w) BY <1>1, ParentWritten
<1>3. Deleted \in Body /\ e.body \in Body BY DEF Body, Record
<1> HIDE DEF w
<1>4. SameIndex(x, onDisk(x, e.path, Deleted)) /\ SameIndex(w, onDisk(w, e.path, e.body)) BY <1>2, <1>3, Written
<1>5. SameIndex(x, onDisk(w, e.path, e.body)) BY <1>2, <1>4 DEF SameIndex
<1>6. cleared(x, plan, e) = IF plan.wins /\ ~plan.same THEN onDisk(x, e.path, Deleted) ELSE x BY DEF cleared
<1>7. installed(x, plan, e) = IF plan.wins /\ ~plan.same THEN onDisk(w, e.path, e.body) ELSE x BY DEF installed, w
<1> QED BY <1>1, <1>4, <1>5, <1>6, <1>7

(* When the authority lets another body win. *)
LEMMA PlanWins ==
  ASSUME NEW x, x.id = Host, NEW e, decide(x, e).wins, e.body # entry(x, e.path).body
  PROVE  relation(x, entry(x, e.path), e) = 1 \/ e.body = Directory
BY DEF decide, decision

LEMMA JoinedFacts ==
  ASSUME NEW a \in Clock, NEW b \in Clock
  PROVE  /\ joined(a, b) \in Clock /\ Covers(joined(a, b), a) /\ Covers(joined(a, b), b)
         /\ \A d \in Device : joined(a, b)[d] # 0 => a[d] # 0 \/ b[d] # 0
<1> DEFINE c == joined(a, b)
<1>1. \A d \in Device : a[d] \in Nat /\ b[d] \in Nat BY DEF Clock
<1>2. c = [d \in Device |-> IF b[d] > a[d] THEN b[d] ELSE a[d]] BY DEF joined
<1> HIDE DEF c
<1>3. c \in Clock BY <1>1, <1>2 DEF Clock
<1>4. \A d \in Device : c[d] >= a[d] /\ c[d] >= b[d] /\ (c[d] # 0 => a[d] # 0 \/ b[d] # 0) BY <1>1, <1>2
<1> QED BY <1>3, <1>4 DEF Covers, c

(* A proposal the authority may take. *)
Proposed(W, x, e) ==
  x.id = Host => /\ Based(x, e.path, e.base) /\ Known(W, e.path, e.clock)
                 /\ Own(e.path) => Fresh(x, e)

(* The record that a merge leaves is as late as the one it found, or later. *)
LEMMA MergedLater ==
  ASSUME NEW x, Good(x), Tidy(x), x.id = Host, NEW W, Sound(W, x), NEW e, Record(e), Proposed(W, x, e),
         NEW local, local = entry(x, e.path), NEW plan, plan = decide(x, e), plan.order # 0,
         e.path \in DOMAIN x.entries, Own(e.path),
         NEW f, f.clock = joined(e.clock, local.clock), f.body = (IF plan.wins THEN e ELSE local).body
  PROVE  (f.clock = local.clock /\ f.body = local.body) \/ Later(local, f)
<1>1. local = x.entries[e.path] /\ local.clock \in Clock /\ e.clock \in Clock BY Holds DEF Record
<1>2. f.clock \in Clock /\ Covers(f.clock, e.clock) /\ Covers(f.clock, local.clock) BY <1>1, JoinedFacts
<1>3. CASE ~Covers(local.clock, f.clock) BY <1>1, <1>2, <1>3, DominatesFacts DEF Later
<1>4. CASE Covers(local.clock, f.clock)
  <2>1. f.clock = local.clock BY <1>1, <1>2, <1>4, ClocksEqual
  <2>2. CASE f.body = local.body BY <2>1, <2>2
  <2>3. CASE f.body # local.body
    <3>1. plan.wins /\ f.body = e.body BY <2>3
    <3>2. relation(x, local, e) = 1 \/ e.body = Directory BY <2>3, <3>1, PlanWins
    <3>3. CASE e.body = Directory BY <2>1, <2>3, <3>1, <3>3 DEF Later
    <3>4. CASE relation(x, local, e) = 1
      <4>1. e.base = object(x, e.path) BY <3>4 DEF relation
      <4>2. local.rev = object(x, e.path) /\ Backs(x, e.path, local) BY <1>1 DEF Tidy, Good, Solid
      <4>3. e.base # 0 /\ x.journal[e.base].clock = local.clock /\ x.journal[e.base].body = local.body
        <5>1. local.rev \in 1..x.head /\ x.head \in Nat BY <4>2, BackedPath DEF Good, Solid, Shape
        <5> QED BY <4>1, <4>2, <5>1, BackedPath
      <4>4. Fresh(x, e) BY DEF Proposed
      <4>5. Covers(local.clock, e.clock) BY <1>2, <2>1
      <4>6. e.body = Directory BY <4>3, <4>4, <4>5 DEF Fresh
      <4> QED BY <2>1, <2>3, <3>1, <4>6 DEF Later
    <3> QED BY <3>2, <3>3, <3>4
  <2> QED BY <2>2, <2>3
<1> QED BY <1>3, <1>4

LEMMA MergedSound ==
  ASSUME NEW x, Good(x), Tidy(x), NEW W, Sound(W, x), NEW e, Record(e), Path(e.path), Proposed(W, x, e),
         NEW plan, plan = decide(x, e), plan.order # 0, x.id # Host => contains(x, e) /\ ~plan.retain,
         NEW y, Good(y), Tidy(y), Minds(W, x, y, e), Extends(x, y), entry(y, e.path) = entry(x, e.path)
  PROVE  LET z == merged(y, plan, e)
         IN Minds(W, x, z, e) /\ (x.id # Host => Stands(z, e.path) = e.rev)
<1> DEFINE local == entry(x, e.path)
           winner == IF plan.wins THEN e ELSE plan.local
           f == [path |-> e.path, body |-> winner.body, clock |-> plan.clock,
                 rev |-> IF plan.wins THEN e.rev ELSE 0, base |-> 0]
           z == merged(y, plan, e)
<1>1. \E r \in BOOLEAN : ~r /\ z = save(y, f, r, e.base)
  <2>1. z = save(y, f, FALSE, e.base) BY DEF merged
  <2> HIDE DEF f, z
  <2> QED BY <2>1, Zenon
<1>2. PICK r \in BOOLEAN : ~r /\ z = save(y, f, r, e.base) BY <1>1
<1>3. x.id = Host => Based(x, e.path, e.base) BY DEF Proposed
<1>4. /\ plan.local = local /\ plan.clock \in Clock
      /\ x.id # Host => plan.clock = e.clock /\ plan.wins
      /\ x.id = Host /\ ~plan.wins => local.body \in Body
  BY <1>3, PlanFacts
<1>5. x.id = Host => plan.clock = joined(e.clock, local.clock) BY DEF decide, decision
<1>6. /\ f.path = e.path /\ f.body = winner.body /\ f.clock = plan.clock /\ f.base = 0
      /\ f.rev = IF plan.wins THEN e.rev ELSE 0
  OBVIOUS
<1>7. y.id = x.id /\ Sound(W, y) BY DEF Minds
<1>8. winner.body \in Body /\ (plan.wins => winner = e) /\ (~plan.wins => winner = local) BY <1>4 DEF Record
<1>9. /\ local.clock \in Clock
      /\ e.path \in DOMAIN x.entries => local = x.entries[e.path]
      /\ e.path \notin DOMAIN x.entries => local = NoEntry(e.path)
  BY Holds
<1> HIDE DEF winner, f, z, local
<1>10. Record(f) BY <1>4, <1>6, <1>8 DEF Record
<1>11. e.path \in DOMAIN y.entries => y.entries[e.path] = entry(y, e.path) BY DEF entry
<1>12. Based(y, f.path, f.base) BY <1>6 DEF Based
<1>13. CASE x.id = Host
  <2>1. Known(W, e.path, f.clock)
    <3>1. Known(W, e.path, e.clock) BY <1>13 DEF Proposed
    <3>2. Known(W, e.path, local.clock)
      <4>1. CASE e.path \in DOMAIN x.entries BY <1>9, <4>1 DEF Sound, Within
      <4>2. CASE e.path \notin DOMAIN x.entries
        <5>1. \A k \in Clients : local.clock[k] = 0 BY <1>9, <4>2 DEF NoEntry, ZeroClock, Device
        <5> QED BY <5>1 DEF Known
      <4> QED BY <4>1, <4>2
    <3>3. \A k \in Clients : f.clock[k] # 0 => e.clock[k] # 0 \/ local.clock[k] # 0
      BY <1>5, <1>6, <1>9, <1>13, JoinedFacts DEF Record, Device
    <3> QED BY <3>1, <3>2, <3>3 DEF Known
  <2>2. ASSUME Own(e.path), e.path \in DOMAIN y.entries
        PROVE  \/ y.entries[e.path].clock = f.clock /\ y.entries[e.path].body = f.body
               \/ Later(y.entries[e.path], f)
    <3>1. y.entries[e.path] = local BY <1>11, <2>2 DEF local
    <3>2. e.path \in DOMAIN x.entries
      <4>1. y.entries[e.path].body \in Body BY <2>2 DEF Good, Solid, Entry
      <4> QED BY <3>1, <4>1, Holds DEF local
    <3>3. f.clock = joined(e.clock, local.clock) /\ f.body = (IF plan.wins THEN e ELSE local).body
      BY <1>5, <1>6, <1>8, <1>13
    <3>4. (f.clock = local.clock /\ f.body = local.body) \/ Later(local, f)
      BY <1>13, <2>2, <3>2, <3>3, MergedLater DEF local
    <3> QED BY <3>1, <3>4
  <2>3. Fit(W, y, f, r) BY <1>6, <1>7, <1>13, <2>1, <2>2 DEF Fit
  <2>4. Sound(W, z) BY <1>2, <1>7, <1>10, <1>12, <1>13, <2>3, SavedSound
  <2>5. z.id = x.id BY <1>2, <1>7, <1>10, SavedExactly
  <2> QED BY <1>13, <2>4, <2>5 DEF Minds, z
<1>14. CASE x.id # Host
  <2>1. Backs(x, e.path, e) BY <1>14, Contained
  <2>2. y.head = x.head /\ y.journal = x.journal BY <1>14 DEF Extends
  <2>3. f.rev = e.rev /\ f.body = e.body /\ f.clock = e.clock /\ f.path = e.path BY <1>4, <1>6, <1>8, <1>14
  <2>4. Backs(y, f.path, f) BY <2>1, <2>2, <2>3 DEF Backs
  <2>5. e.rev \in 1..x.head /\ x.head \in Nat BY <2>1 DEF Backs, Good, Solid, Shape
  <2>6. Known(W, e.path, e.clock) BY <2>1, BackedPath DEF Sound, Within
  <2>7. Fit(W, y, f, r) BY <1>7, <1>14, <2>3, <2>5, <2>6 DEF Fit
  <2>8. Sound(W, z) BY <1>2, <1>7, <1>10, <1>12, <2>4, <2>7, SavedSound
  <2>9. z.id = x.id BY <1>2, <1>7, <1>10, SavedExactly
  <2>10. /\ \A q : q # e.path => entry(z, q) = entry(y, q) /\ Stands(z, q) = Stands(y, q)
         /\ entry(z, e.path).rev = e.rev /\ Stands(z, e.path) = e.rev
    <3>1. /\ \A q : q # f.path => entry(z, q) = entry(y, q) /\ Stands(z, q) = Stands(y, q)
          /\ entry(z, f.path).rev = f.rev /\ Stands(z, f.path) = IF f.rev = 0 THEN f.base ELSE f.rev
      BY <1>2, <1>7, <1>10, <1>14, SavedStands
    <3> QED BY <2>3, <2>5, <3>1
  <2>11. Moves(x, z, {e})
    <3> SUFFICES ASSUME NEW q, Own(q)
                 PROVE  \/ Stands(z, q) = Stands(x, q) /\ entry(z, q).rev \in {0, entry(x, q).rev}
                        \/ Stands(x, q) = 0 /\ entry(z, q).rev = 0
                        \/ \E d \in {e} : d.path = q /\ Stands(z, q) = d.rev /\ entry(z, q).rev \in {0, d.rev}
      BY DEF Moves
    <3>1. CASE q = e.path BY <2>10, <3>1
    <3>2. CASE q # e.path
      <4>1. Moves(x, y, {e}) BY <1>14 DEF Minds
      <4> QED BY <2>10, <3>2, <4>1 DEF Moves
    <3> QED BY <3>1, <3>2
  <2> QED BY <2>8, <2>9, <2>10, <2>11 DEF Minds, z
<1> QED BY <1>13, <1>14

(* Every device that a merge leaves, or can leave. *)
Follow(W, x, r, e) ==
  /\ \A t \in r.torn \union {r.dev} : Minds(W, x, t, e)
  /\ r.status = "complete" /\ x.id # Host => Stands(r.dev, e.path) = e.rev

LEMMA ReplacedSound ==
  ASSUME NEW x, Good(x), Tidy(x), NEW W, Sound(W, x), NEW e, Record(e), Path(e.path), Proposed(W, x, e),
         ~collides(x, decide(x, e)), decide(x, e).order # 0, x.id # Host => contains(x, e) /\ ~decide(x, e).retain
  PROVE  Follow(W, x, replace(x, copySaved(x, decide(x, e), e), decide(x, e), e), e)
<1> DEFINE plan == decide(x, e)
           copy == copied(x, plan)
           safe == copySaved(x, plan, e)
           clear == cleared(safe, plan, e)
           placed == installed(safe, plan, e)
           final == merged(placed, plan, e)
           r == replace(x, safe, plan, e)
<1>1. r.dev = final /\ \A t \in r.torn \union {r.dev} : t \in {x, copy, safe, clear, placed, final}
  <2>1. r = [status |-> "complete", dev |-> final,
             torn |-> {x, copy, safe, placed, final, IF IsFile(e.body) /\ IsFile(plan.local.body) THEN safe ELSE clear}]
    BY DEF replace
  <2> HIDE DEF r, plan, copy, safe, clear, placed, final
  <2>2. r.dev = final /\ r.torn = {x, copy, safe, placed, final, IF IsFile(e.body) /\ IsFile(plan.local.body) THEN safe ELSE clear}
    BY <2>1
  <2> QED BY <2>2
<1>2. plan.clock \in Clock /\ (plan.conflict => plan.loser.body \in Body) BY PlanFacts DEF Proposed
<1>3. plan.conflict => IsFile(plan.loser.body) /\ plan.loser.path = e.path BY PlanDetail
<1>4. plan.order # 0 /\ ~collides(x, plan) /\ (x.id # Host => contains(x, e) /\ ~plan.retain) OBVIOUS
<1> HIDE DEF plan
<1>5. \A y \in {copy, safe} : Good(y) /\ Tidy(y) /\ Minds(W, x, y, e) /\ Extends(x, y) /\ entry(y, e.path) = entry(x, e.path)
  BY <1>2, <1>3, <1>4, CopySound
<1> HIDE DEF copy, safe
<1>6. SameIndex(safe, clear) /\ SameIndex(safe, placed) BY <1>5, PlacedIndex
<1>7. Good(placed) /\ Tidy(placed) BY <1>5, PlacedTidy
<1> HIDE DEF clear, placed
<1>8. \A y \in {clear, placed} : Minds(W, x, y, e) /\ Extends(x, y) /\ entry(y, e.path) = entry(x, e.path)
  <2> TAKE y \in {clear, placed}
  <2>1. SameIndex(safe, y) BY <1>6
  <2>2. Sound(W, y) /\ \A q : entry(y, q) = entry(safe, q) /\ Stands(y, q) = Stands(safe, q)
    BY <1>5, <2>1, SoundDisk DEF Minds
  <2>3. Minds(W, x, y, e)
    <3>1. x.id # Host => Moves(x, y, {e}) BY <1>5, <2>2 DEF Minds, Moves
    <3> QED BY <1>5, <2>1, <2>2, <3>1 DEF Minds, SameIndex
  <2> QED BY <1>5, <2>1, <2>2, <2>3 DEF Extends, SameIndex
<1>9. Minds(W, x, final, e) /\ (x.id # Host => Stands(final, e.path) = e.rev)
  BY <1>4, <1>7, <1>8, MergedSound DEF plan
<1> HIDE DEF final
<1>10. Minds(W, x, x, e) BY MovesNot DEF Minds
<1> HIDE DEF r
<1>11. \A t \in r.torn \union {r.dev} : Minds(W, x, t, e) BY <1>1, <1>5, <1>8, <1>9, <1>10
<1> QED BY <1>1, <1>9, <1>11 DEF Follow, r, safe, plan

LEMMA RepliedSound ==
  ASSUME NEW W, NEW x, Sound(W, x), NEW y, NEW e, Minds(W, x, y, e), NEW status,
         status = "complete" /\ x.id # Host => Stands(y, e.path) = e.rev
  PROVE  Follow(W, x, reply(status, x, y), e)
<1>1. Minds(W, x, x, e) BY MovesNot DEF Minds
<1> DEFINE r == reply(status, x, y)
<1>2. r.dev = y /\ r.torn = {x, y} /\ r.status = status BY DEF reply
<1> HIDE DEF r
<1> QED BY <1>1, <1>2 DEF Follow, r

(* A mirror that saves the record, or a proposal made on it. *)
LEMMA SavedMinds ==
  ASSUME NEW x, Good(x), Tidy(x), x.id # Host, NEW W, Sound(W, x), NEW e, Record(e), contains(x, e),
         NEW f, f.path = e.path, Record(f), f = e \/ (f.rev = 0 /\ f.base = e.rev),
         Known(W, f.path, f.clock), NEW remote \in BOOLEAN, f.rev = 0 /\ Own(e.path) => Fresh(x, f) /\ ~remote, NEW base
  PROVE  LET y == save(x, f, remote, base) IN Minds(W, x, y, e) /\ Stands(y, e.path) = e.rev
<1> DEFINE y == save(x, f, remote, base)
<1>1. Backs(x, e.path, e) /\ e.base = 0 BY Contained
<1>2. e.rev \in 1..x.head /\ x.journal[e.rev].path = e.path /\ x.head \in Nat BY <1>1, BackedPath DEF Good, Solid, Shape
<1>3. Based(x, f.path, f.base) /\ (f.rev # 0 => Backs(x, f.path, f)) BY <1>1, <1>2 DEF Based
<1>4. Fit(W, x, f, remote) BY DEF Fit
<1>5. Sound(W, y) BY <1>3, <1>4, SavedSound
<1>6. y.id = x.id BY SavedExactly
<1>7. /\ \A q : q # e.path => entry(y, q) = entry(x, q) /\ Stands(y, q) = Stands(x, q)
      /\ entry(y, e.path).rev \in {0, e.rev} /\ Stands(y, e.path) = e.rev
  <2>1. /\ \A q : q # f.path => entry(y, q) = entry(x, q) /\ Stands(y, q) = Stands(x, q)
        /\ entry(y, f.path).rev = f.rev /\ Stands(y, f.path) = IF f.rev = 0 THEN f.base ELSE f.rev
    BY SavedStands
  <2> HIDE DEF y
  <2> QED BY <1>2, <2>1
<1> HIDE DEF y
<1>8. Moves(x, y, {e}) BY <1>7 DEF Moves
<1> QED BY <1>5, <1>6, <1>7, <1>8 DEF Minds, y

LEMMA ApplySound ==
  ASSUME NEW x, Good(x), Tidy(x), NEW W, Sound(W, x), NEW e, Record(e), Path(e.path), Proposed(W, x, e), NEW committing
  PROVE  Follow(W, x, apply(x, decide(x, e), e, committing), e)
<1> DEFINE plan == decide(x, e)
           local == entry(x, e.path)
           mirror == x.id # Host
           r == apply(x, plan, e, committing)
<1>1. plan.local = local /\ (plan.retain => local.body = Directory /\ e.body # Directory)
  BY DEF decide, decision
<1>2. /\ local.path = e.path /\ local.clock \in Clock /\ local.remote \in BOOLEAN
      /\ e.path \notin DOMAIN x.entries => local = NoEntry(e.path)
      /\ e.path \in DOMAIN x.entries => local = x.entries[e.path]
      /\ local.body # Missing => e.path \in DOMAIN x.entries /\ local.body \in Body
  BY Holds
<1>3. Follow(W, x, reply("failed", x, x), e) /\ Follow(W, x, reply("bytes", x, x), e)
  <2>1. Minds(W, x, x, e) BY MovesNot DEF Minds
  <2> QED BY <2>1, RepliedSound
<1>4. mirror /\ contains(x, e) =>
        /\ e.rev \in 1..x.head /\ x.head \in Nat /\ x.journal[e.rev].clock = e.clock /\ x.journal[e.rev].body = e.body
        /\ Known(W, e.path, e.clock)
  <2> SUFFICES ASSUME mirror, contains(x, e)
               PROVE  /\ e.rev \in 1..x.head /\ x.head \in Nat /\ x.journal[e.rev].clock = e.clock /\ x.journal[e.rev].body = e.body
                      /\ Known(W, e.path, e.clock)
    OBVIOUS
  <2>1. Backs(x, e.path, e) BY Contained
  <2> QED BY <2>1, BackedPath DEF Sound, Within, Good, Solid, Shape
<1>5. e.path \in DOMAIN x.entries => Known(W, e.path, local.clock) BY <1>2 DEF Sound, Within
<1>6. e.clock \in Clock /\ e.body \in Body /\ e.rev \in Nat BY DEF Record
<1> HIDE DEF plan, local
<1>7. CASE mirror /\ ~contains(x, e) BY <1>1, <1>3, <1>7 DEF apply, plan
<1>8. CASE mirror /\ contains(x, e) /\ local.rev = 0 /\ Dominates(local.clock, e.clock)
  <2> DEFINE f == proposed(local, e.path, local.clock, e.rev)
             y == save(x, f, local.remote, 0)
  <2>1. r = reply("complete", x, y) BY <1>1, <1>8 DEF apply
  <2>2. e.path \in DOMAIN x.entries
    <3>1. PICK d \in Device : local.clock[d] > e.clock[d] BY <1>8 DEF Dominates
    <3>2. local.clock[d] # 0 /\ ZeroClock[d] = 0 BY <1>2, <1>6, <3>1 DEF ZeroClock, Clock
    <3> QED BY <1>2, <3>2 DEF NoEntry
  <2>3. f.path = e.path /\ f.body = local.body /\ f.clock = local.clock /\ f.rev = 0 /\ f.base = e.rev BY DEF proposed
  <2>4. local.body \in Body /\ (Own(e.path) => ~local.remote)
    BY <1>2, <1>8, <2>2 DEF Good, Solid, Entry, Sound, Rooted
  <2> HIDE DEF f
  <2>5. Record(f) BY <1>2, <1>6, <2>3, <2>4 DEF Record
  <2>6. Fresh(x, f)
    <3>1. ~Covers(e.clock, local.clock) BY <1>2, <1>6, <1>8, DominatesFacts
    <3> QED BY <1>4, <1>8, <2>3, <3>1 DEF Fresh
  <2>7. Minds(W, x, y, e) /\ Stands(y, e.path) = e.rev
    <3>1. Known(W, f.path, f.clock) BY <1>5, <2>2, <2>3
    <3> QED BY <1>2, <1>8, <2>3, <2>4, <2>5, <2>6, <3>1, SavedMinds
  <2> HIDE DEF y
  <2> QED BY <2>1, <2>7, RepliedSound DEF plan
<1>9. CASE ~(mirror /\ ~contains(x, e)) /\ ~(mirror /\ local.rev = 0 /\ Dominates(local.clock, e.clock))
  <2>1. CASE plan.order = 0
    <3> DEFINE y == IF mirror THEN save(x, e, FALSE, 0) ELSE x
    <3>1. r = reply("complete", x, y) BY <1>1, <1>9, <2>1 DEF apply
    <3>2. Minds(W, x, y, e) /\ (mirror => Stands(y, e.path) = e.rev)
      <4>1. CASE mirror
        <5>1. \E b \in BOOLEAN : ~b /\ y = save(x, e, b, 0)
          <6>1. y = save(x, e, FALSE, 0) BY <4>1
          <6> HIDE DEF y
          <6> QED BY <6>1, Zenon
        <5>2. PICK b \in BOOLEAN : ~b /\ y = save(x, e, b, 0) BY <5>1
        <5> HIDE DEF y
        <5>3. contains(x, e) /\ Known(W, e.path, e.clock) /\ e.rev # 0 BY <1>4, <1>9, <4>1
        <5> QED BY <4>1, <5>2, <5>3, SavedMinds
      <4>2. CASE ~mirror BY <4>2, MovesNot DEF Minds
      <4> QED BY <4>1, <4>2
    <3> HIDE DEF y
    <3> QED BY <3>1, <3>2, RepliedSound DEF plan
  <2>2. CASE plan.order # 0 /\ mirror /\ plan.retain
    <3> DEFINE clock == joined(e.clock, local.clock)
               f == proposed(local, e.path, clock, e.rev)
               y == save(x, f, FALSE, 0)
    <3>1. r = reply("complete", x, y) BY <1>1, <1>9, <2>2 DEF apply
    <3>2. /\ clock \in Clock /\ Covers(clock, e.clock)
          /\ \A d \in Device : clock[d] # 0 => e.clock[d] # 0 \/ local.clock[d] # 0
      BY <1>2, <1>6, JoinedFacts
    <3>3. f.path = e.path /\ f.body = local.body /\ f.clock = clock /\ f.rev = 0 /\ f.base = e.rev BY DEF proposed
    <3>4. \E b \in BOOLEAN : ~b /\ y = save(x, f, b, 0)
      <4> HIDE DEF f
      <4> QED BY Zenon
    <3>5. PICK b \in BOOLEAN : ~b /\ y = save(x, f, b, 0) BY <3>4
    <3> HIDE DEF f, y, clock
    <3>6. local.body = Directory /\ e.body # Directory BY <1>1, <2>2
    <3>7. local.body \in Body /\ e.path \in DOMAIN x.entries
      <4>1. Directory \in Body BY DEF Body
      <4> QED BY <1>2, <3>6, <4>1, Holds
    <3>8. Record(f) BY <1>6, <3>2, <3>3, <3>7 DEF Record
    <3>9. contains(x, e) BY <1>9, <2>2
    <3>10. Fresh(x, f)
      <4>1. Covers(e.clock, clock) => clock = e.clock BY <1>6, <3>2, ClocksEqual
      <4> QED BY <1>4, <2>2, <3>3, <3>6, <3>9, <4>1 DEF Fresh
    <3>11. Known(W, f.path, f.clock) BY <1>4, <1>5, <2>2, <3>2, <3>3, <3>7, <3>9 DEF Known, Device
    <3>12. Minds(W, x, y, e) /\ Stands(y, e.path) = e.rev
      BY <2>2, <3>3, <3>5, <3>8, <3>9, <3>10, <3>11, SavedMinds
    <3> QED BY <3>1, <3>12, RepliedSound DEF plan
  <2>3. CASE plan.order # 0 /\ ~(mirror /\ plan.retain)
    <3>1. r = IF plan.bytes /\ ~committing THEN reply("bytes", x, x)
              ELSE IF collides(x, plan) THEN reply("failed", x, x)
              ELSE replace(x, copySaved(x, plan, e), plan, e)
      BY <1>1, <1>9, <2>3 DEF apply
    <3>2. ~collides(x, plan) => Follow(W, x, replace(x, copySaved(x, plan, e), plan, e), e)
      BY <1>9, <2>3, ReplacedSound DEF plan
    <3> QED BY <1>3, <3>1, <3>2 DEF plan
  <2> QED BY <2>1, <2>2, <2>3
<1> QED BY <1>7, <1>8, <1>9 DEF plan

(* The whole of merge, on a device observed first. *)
LEMMA MergeSound ==
  ASSUME NEW x, Good(x), Tidy(x), NEW V, NEW W, V \subseteq W, Sound(V, x),
         NEW e, Record(e), Path(e.path), Proposed(V, x, e), x.id # Host /\ Own(e.path) => e.rev # 0,
         x.id \in Clients /\ Own(e.path) /\ <<x.id, e.path>> \in V => e.path \in DOMAIN x.entries,
         NEW committing, NEW t \in merge(x, e, committing).torn \union {merge(x, e, committing).dev},
         x.id \in Clients /\ e.path \in DOMAIN t.entries => <<x.id, e.path>> \in W
  PROVE  LET r == merge(x, e, committing)
         IN /\ Minds(W, x, t, e)
            /\ r.status = "complete" /\ t = r.dev /\ x.id # Host => Stands(t, e.path) = e.rev
<1> DEFINE y == observed(x, e.path, e.base)
           a == apply(y, decide(y, e), e, committing)
           r == merge(x, e, committing)
<1>1. r = IF blocked(x, e.path) THEN reply("failed", x, x) ELSE a BY DEF merge
<1>2. CASE blocked(x, e.path)
  <2>1. r.torn = {x} /\ r.dev = x /\ r.status = "failed"
    <3>1. r = [status |-> "failed", dev |-> x, torn |-> {x, x}] BY <1>1, <1>2 DEF reply
    <3> HIDE DEF r
    <3> QED BY <3>1
  <2>2. Sound(W, x) BY SoundMore
  <2> HIDE DEF r
  <2>3. t = x BY <2>1 DEF r
  <2> QED BY <2>1, <2>2, <2>3, MovesNot DEF Minds, r
<1>3. CASE ~blocked(x, e.path)
  <2>1. r = a BY <1>1, <1>3
  <2>2. Good(y) /\ Tidy(y) /\ Extends(x, y) /\ x.head \in Nat /\ y.head \in Nat BY AfterObserving
  <2>3. y.id = x.id BY <2>2 DEF Extends
  <2>4. \A n \in 1..x.head : n \in 1..y.head /\ y.journal[n] = x.journal[n] BY <2>2 DEF Extends
  <2>5. y.id = Host => Based(y, e.path, e.base) BY <2>3, <2>4 DEF Proposed, Based
  <2> HIDE DEF y
  <2>6. Outcome(y, a, e) BY <2>2, <2>5, ApplyFacts
  <2> HIDE DEF a, r
  <2>7. t \in a.torn \union {a.dev} BY <2>1 DEF r
  <2>8. DOMAIN y.entries \subseteq DOMAIN t.entries BY <2>6, <2>7 DEF Outcome, Ready, Evolves
  <2>9. Sound(W, y) /\ (x.id # Host => Moves(x, y, {})) BY <2>8, ObservedSound DEF y
  <2>10. Proposed(W, y, e)
    <3>1. y.id = Host => Known(W, e.path, e.clock) BY <2>3, SoundMore DEF Proposed
    <3>2. y.id = Host /\ Own(e.path) => Fresh(y, e) BY <2>3, <2>4 DEF Proposed, Fresh, Based
    <3> QED BY <2>5, <3>1, <3>2 DEF Proposed
  <2>11. Follow(W, y, a, e) BY <2>2, <2>9, <2>10, ApplySound DEF a
  <2>12. Minds(W, y, t, e) BY <2>7, <2>11 DEF Follow
  <2>13. x.id # Host => Moves(x, t, {e})
    <3> SUFFICES ASSUME x.id # Host PROVE Moves(x, t, {e})
      OBVIOUS
    <3>1. Moves(x, y, {e}) BY <2>9, MovesMore
    <3>2. Moves(y, t, {e}) BY <2>3, <2>12 DEF Minds
    <3>3. \A f \in {e} : Own(f.path) => f.rev # 0 OBVIOUS
    <3> QED BY <3>1, <3>2, <3>3, MovesOn
  <2>14. Minds(W, x, t, e) BY <2>3, <2>12, <2>13 DEF Minds
  <2>15. a.status = "complete" /\ y.id # Host => Stands(a.dev, e.path) = e.rev BY <2>11 DEF Follow
  <2> QED BY <2>1, <2>3, <2>14, <2>15 DEF r
<1> QED BY <1>2, <1>3

(* The whole of acceptMetadata, on a mirror. *)
LEMMA MetadataSound ==
  ASSUME NEW x, Good(x), Tidy(x), x.id # Host, NEW V, NEW W, V \subseteq W, Sound(V, x),
         NEW e, Record(e), Path(e.path), acceptsMetadata(x, e),
         Own(e.path) /\ <<x.id, e.path>> \in V => e.path \in DOMAIN x.entries,
         NEW t \in acceptMetadata(x, e).torn \union {acceptMetadata(x, e).dev},
         e.path \in DOMAIN t.entries => <<x.id, e.path>> \in W
  PROVE  /\ Minds(W, x, t, e)
         /\ t = acceptMetadata(x, e).dev => Stands(t, e.path) = e.rev
<1> DEFINE y == observed(x, e.path, 0)
           z == evicted(y, e)
           r == acceptMetadata(x, e)
           a == save(y, e, FALSE, 0)
           b == save(z, e, TRUE, 0)
<1>1. r = [dev |-> a, torn |-> {y}] \/ r = [dev |-> b, torn |-> {y, z}] BY DEF acceptMetadata
<1>2. contains(y, e) BY DEF acceptsMetadata
<1>3. Good(y) /\ Tidy(y) /\ Extends(x, y) BY AfterObserving
<1>4. \E q \in BOOLEAN : ~q /\ a = save(y, e, q, 0)
  <2> HIDE DEF y
  <2> QED BY Zenon
<1>5. \E q \in BOOLEAN : b = save(z, e, q, 0)
  <2> HIDE DEF z
  <2> QED BY Zenon
<1>6. z = y \/ z = onDisk(y, e.path, Deleted) BY DEF evicted
<1> HIDE DEF y, z, a, b, r
<1>7. y.id = x.id BY <1>3 DEF Extends
<1>8. (r.dev = a /\ r.torn = {y}) \/ (r.dev = b /\ r.torn = {y, z}) BY <1>1
<1>9. t \in {y, z, a, b} /\ (t = y => y \in r.torn \union {r.dev}) BY <1>8 DEF r
<1>10. Good(z) /\ Tidy(z) /\ SameIndex(y, z)
  <2> DEFINE w == onDisk(y, e.path, Deleted)
  <2>1. Deleted \in Body BY DEF Body
  <2>2. SameIndex(y, w) /\ Good(w) /\ DOMAIN w.disk \subseteq DOMAIN y.disk \union {e.path} BY <1>3, <2>1, Written
  <2>3. \A q \in DOMAIN w.disk : Path(q) BY <1>3, <2>2 DEF Tidy
  <2> HIDE DEF w
  <2>4. Tidy(w) BY <1>3, <2>2, <2>3, SameTidy
  <2>5. SameIndex(y, y) BY DEF SameIndex
  <2> QED BY <1>3, <1>6, <2>2, <2>4, <2>5 DEF w
<1>11. DOMAIN y.entries \subseteq DOMAIN t.entries
  <2>1. PICK q \in BOOLEAN : a = save(y, e, q, 0) BY <1>4
  <2>2. PICK k \in BOOLEAN : b = save(z, e, k, 0) BY <1>5
  <2>3. DOMAIN y.entries \subseteq DOMAIN a.entries BY <1>3, <2>1, SavedExactly
  <2>4. DOMAIN z.entries \subseteq DOMAIN b.entries /\ z.entries = y.entries BY <1>10, <2>2, SavedExactly DEF SameIndex
  <2> QED BY <1>9, <2>3, <2>4
<1>12. x.id # Host /\ (x.id \in Clients /\ Own(e.path) /\ <<x.id, e.path>> \in V => e.path \in DOMAIN x.entries)
       /\ (x.id \in Clients /\ e.path \in DOMAIN y.entries => <<x.id, e.path>> \in W)
  BY <1>11
<1>13. Sound(W, y) /\ Moves(x, y, {}) BY <1>12, ObservedSound DEF y
<1>14. Moves(x, y, {e}) BY <1>13, MovesMore
<1>15. /\ e.rev \in 1..y.head /\ y.head \in Nat /\ Known(W, e.path, e.clock)
  <2>1. Backs(y, e.path, e) BY <1>2, Contained
  <2> QED BY <1>3, <1>13, <2>1, BackedPath DEF Sound, Within, Good, Solid, Shape
<1>16. Sound(W, z) /\ Moves(y, z, {e}) /\ contains(z, e) /\ z.id = x.id
  BY <1>2, <1>7, <1>10, <1>13, SoundDisk DEF SameIndex
<1>17. Minds(W, y, a, e) /\ Stands(a, e.path) = e.rev
  <2>1. PICK q \in BOOLEAN : a = save(y, e, q, 0) BY <1>4
  <2>2. y.id # Host /\ e.rev # 0 BY <1>7, <1>15
  <2> QED BY <1>2, <1>3, <1>13, <1>15, <2>1, <2>2, SavedMinds
<1>18. Minds(W, z, b, e) /\ Stands(b, e.path) = e.rev
  <2>1. PICK q \in BOOLEAN : b = save(z, e, q, 0) BY <1>5
  <2>2. z.id # Host /\ e.rev # 0 BY <1>15, <1>16
  <2> QED BY <1>10, <1>15, <1>16, <2>1, <2>2, SavedMinds
<1>19. \A f \in {e} : Own(f.path) => f.rev # 0 BY <1>15
<1>20. Moves(x, z, {e}) BY <1>14, <1>16, <1>19, MovesOn
<1>21. Moves(x, a, {e}) /\ Moves(x, b, {e})
  <2>1. Moves(y, a, {e}) /\ Moves(z, b, {e}) BY <1>7, <1>16, <1>17, <1>18 DEF Minds
  <2> QED BY <1>14, <1>19, <1>20, <2>1, MovesOn
<1>22. Minds(W, x, y, e) /\ Minds(W, x, z, e) /\ Minds(W, x, a, e) /\ Minds(W, x, b, e)
  BY <1>7, <1>13, <1>14, <1>16, <1>17, <1>18, <1>20, <1>21 DEF Minds
<1>23. Minds(W, x, t, e) BY <1>9, <1>22
<1>24. r.dev = a \/ r.dev = b BY <1>8
<1> QED BY <1>17, <1>18, <1>23, <1>24 DEF r

-----------------------------------------------------------------------------
(***************************************************************************)
(* The originals of a mirror x against the authority h: what it has caught *)
(* up with, what a round lists, and what it may close.                     *)
(***************************************************************************)
(* The record of revision n's path stands on it or on a later one. *)
Caught(h, x, n) == Own(h.journal[n].path) => n <= Stands(x, h.journal[n].path)

(* Every revision up to the bound is caught up with, listed, or superseded by one still to be read. *)
Brings(h, x, todo, bound, after) ==
  /\ bound <= h.head
  /\ \A e \in todo : Own(e.path) => Newest(h, e, bound) /\ e = projected(h, e.rev)
  /\ \A e, f \in todo : Own(e.path) /\ e.path = f.path => e = f
  /\ \A n \in 1..bound : \/ Caught(h, x, n)
                         \/ \E e \in todo : e.path = h.journal[n].path
                         \/ LatestUpTo(h, h.journal[n].path, bound) > after

(* A listed revision goes beyond the record, unless that is a first proposal nobody asked for. *)
Ahead(x, todo, rs) ==
  \A e \in todo : Own(e.path) => \/ Stands(x, e.path) <= e.rev
                                 \/ entry(x, e.path).rev = 0 /\ \A r \in rs : r[1] # e.path

(* What was pushed has a revision that covers it, up to the bound. *)
Settled(h, x, pushed, bound) ==
  \A p \in DOMAIN x.entries : Own(p) /\ x.entries[p].seq <= pushed =>
    \E n \in 1..h.head : /\ n <= bound /\ h.journal[n].path = p /\ Covers(h.journal[n].clock, x.entries[p].clock)
                         /\ x.entries[p].body = Directory => h.journal[n].body = Directory

Lists(h, x, s, rs, bound, after) ==
  /\ s.pulled <= bound /\ Brings(h, x, s.todo, bound, after)
  /\ Ahead(x, s.todo, rs) /\ Settled(h, x, s.pushed, bound)

UpTo(todo, bound) == \A e \in todo : Own(e.path) => e.rev <= bound

Listed(h, x, s, k, rs) ==
  /\ s.pc # "idle" => s.pulled = k.pulled
  /\ s.pc = "rescan" => s.upper = 0
  /\ s.pc \in {"rescan", "changes"} /\ s.upper = 0 => s.after = s.pulled /\ s.todo = {}
  /\ s.pc = "changes" /\ s.upper # 0 =>
       Lists(h, x, s, rs, s.upper, s.after) /\ x.head <= s.upper /\ UpTo(s.todo, s.upper)
  /\ s.pc \in {"journal", "announce", "pull", "commit"} => Lists(h, x, s, rs, s.through, s.through)
  /\ s.pc = "journal" => UpTo(s.todo, s.through) /\ (s.upper # 0 => s.through <= s.upper)
  /\ s.pc \in {"announce", "pull", "commit"} =>
       \A e \in s.todo : Own(e.path) /\ e.path \in s.requested => e.rev <= Stands(x, e.path)
  /\ s.pc = "scan" => Settled(h, x, s.pushed, s.pulled)

(* A request names a revision that the record stands on or has passed. *)
Asked(h, x, rs) ==
  \A r \in rs : Own(r[1]) => \E n \in 1..h.head : Version(h.journal[n]) = r[2] /\ h.journal[n].path = r[1]
                                                  /\ n <= Stands(x, r[1])

(* No proposal up to a sequence number. *)
Agrees(x, bound) == \A p \in DOMAIN x.entries : Own(p) /\ x.entries[p].seq <= bound => x.entries[p].rev # 0

(* What the push cursor is to pass, or a successful round has passed, is no proposal any more. *)
Closed(x, s, k) ==
  /\ s.pc \in {"push", "send"} /\ ~s.early /\ ~s.sent => k.pushed <= s.pushThrough /\ Agrees(x, s.pushThrough)
  /\ s.ok => s.pc = "idle" /\ Agrees(x, k.pushed)

Confirms(h, x, s, k, rs) ==
  /\ k.pulled <= h.head /\ \A n \in 1..k.pulled : Caught(h, x, n)
  /\ Asked(h, x, rs) /\ Listed(h, x, s, k, rs) /\ Closed(x, s, k)

(* The records that each mirror has. *)
Marks == UNION {{<<c, p>> : p \in DOMAIN dev[c].entries} : c \in Clients}

(* What a manifest submits is new to the authority. *)
Offered(h, W, m) ==
  \A e \in m.members : /\ Based(h, e.path, e.base) /\ Known(W, e.path, e.clock)
                       /\ Own(e.path) => Fresh(h, e)

Confirmed ==
  /\ \A d \in Device : Sound(Marks, dev[d])
  /\ \A c \in Clients : /\ Offered(host, Marks, manifests[c])
                        /\ Confirms(host, dev[c], session[c], peers[c], requests[c])

(* What a device may become. *)
Leads(d, y, R) ==
  /\ DOMAIN dev[d].entries \subseteq DOMAIN y.entries /\ (d = Host => Extends(host, y))
  /\ \A W : Marks \subseteq W /\ (d \in Clients => \A p \in DOMAIN y.entries : <<d, p>> \in W) =>
       Sound(W, y) /\ (d # Host => Moves(dev[d], y, R))

LEMMA MarkFacts ==
  \A c, p : <<c, p>> \in Marks <=> c \in Clients /\ p \in DOMAIN dev[c].entries
BY DEF Marks

LEMMA LeadsSame ==
  ASSUME IInv, Confirmed, NEW d \in Device, NEW y, SameIndex(dev[d], y)
  PROVE  \A R : Leads(d, y, R)
<1>1. Sound(Marks, dev[d]) BY DEF Confirmed
<1>2. ASSUME NEW W, Marks \subseteq W PROVE Sound(W, y)
  <2>1. Sound(W, dev[d]) BY <1>1, <1>2, SoundMore
  <2> QED BY <2>1, SoundDisk
<1>3. \A R : Moves(dev[d], y, R) BY SoundDisk
<1>4. d = Host => Extends(host, y)
  <2>1. host.head \in Nat BY DEF IInv, Devices, Good, Solid, Shape, host, Device
  <2> QED BY <2>1 DEF Extends, SameIndex, host
<1> QED BY <1>2, <1>3, <1>4 DEF Leads, SameIndex

LEMMA LeadsIndexed ==
  ASSUME IInv, Orderly, Confirmed, NEW d \in Device, NEW p, NEW base
  PROVE  \A R : Leads(d, observed(dev[d], p, base), R)
<1> DEFINE x == dev[d]
           y == observed(x, p, base)
<1>1. Good(x) /\ Tidy(x) /\ x.id = d /\ Sound(Marks, x) BY DEF Confirmed, Orderly, IInv, Devices
<1>2. Evolves(x, y, {}) BY <1>1, Observed
<1> HIDE DEF y
<1>3. ASSUME NEW W, Marks \subseteq W, d \in Clients => \A q \in DOMAIN y.entries : <<d, q>> \in W
      PROVE  Sound(W, y) /\ (d # Host => Moves(x, y, {}))
  <2>1. x.id \in Clients /\ Own(p) /\ <<x.id, p>> \in Marks => p \in DOMAIN x.entries BY <1>1, MarkFacts
  <2>2. x.id \in Clients /\ p \in DOMAIN observed(x, p, base).entries => <<x.id, p>> \in W BY <1>1, <1>3 DEF y
  <2> QED BY <1>1, <1>3, <2>1, <2>2, ObservedSound DEF y
<1>4. DOMAIN x.entries \subseteq DOMAIN y.entries /\ Extends(x, y) BY <1>2 DEF Evolves
<1> QED BY <1>3, <1>4, MovesMore DEF Leads, y, host

(* What a mirror becomes by merging an entry it has listed. *)
LEMMA LeadsMerged ==
  ASSUME IInv, Orderly, Confirmed, NEW c \in Clients, NEW e \in session[c].todo, session[c].pc \in {"pull", "commit"}
  PROVE  /\ \A b \in BOOLEAN :
              /\ \A t \in merge(dev[c], e, b).torn \union {merge(dev[c], e, b).dev} : Leads(c, t, {e}) /\ Ready(dev[c], t, e)
              /\ merge(dev[c], e, b).status = "complete" => Stands(merge(dev[c], e, b).dev, e.path) = e.rev
         /\ acceptsMetadata(dev[c], e) =>
              /\ \A t \in acceptMetadata(dev[c], e).torn \union {acceptMetadata(dev[c], e).dev} :
                   Leads(c, t, {e}) /\ Ready(dev[c], t, e)
              /\ Stands(acceptMetadata(dev[c], e).dev, e.path) = e.rev
<1> DEFINE x == dev[c]
<1>1. /\ Good(x) /\ x.id = c /\ x.id # Host /\ c # Host /\ Session(session[c]) /\ c \in Device
      /\ Record(e) /\ Path(e.path) /\ Tidy(x) /\ Sound(Marks, x)
  BY About DEF Session, Orderly, Named, Addressed, Confirmed
<1>2. Own(e.path) => e.rev # 0
  <2>1. Own(e.path) => Newest(host, e, session[c].through) BY DEF Confirmed, Confirms, Listed, Lists, Brings
  <2>2. host.head \in Nat BY About DEF Good, Solid, Shape
  <2> QED BY <2>1, <2>2 DEF Newest
<1>3. Own(e.path) /\ <<x.id, e.path>> \in Marks => e.path \in DOMAIN x.entries BY <1>1, MarkFacts
<1>4. Proposed(Marks, x, e) BY <1>1 DEF Proposed
<1>5. ASSUME NEW t, NEW W, c \in Clients => \A p \in DOMAIN t.entries : <<c, p>> \in W
      PROVE  e.path \in DOMAIN t.entries => <<x.id, e.path>> \in W
  BY <1>1, <1>5
<1>6. \A t : Ready(x, t, e) => DOMAIN x.entries \subseteq DOMAIN t.entries BY DEF Ready, Evolves
<1> HIDE DEF x
<1> DEFINE V == Marks \union {<<c, e.path>>}
<1>7. Marks \subseteq V /\ <<x.id, e.path>> \in V BY <1>1
<1> HIDE DEF V
<1>8. ASSUME NEW b \in BOOLEAN
      PROVE  /\ \A t \in merge(x, e, b).torn \union {merge(x, e, b).dev} : Leads(c, t, {e}) /\ Ready(x, t, e)
             /\ merge(x, e, b).status = "complete" => Stands(merge(x, e, b).dev, e.path) = e.rev
  <2>1. ASSUME NEW t \in merge(x, e, b).torn \union {merge(x, e, b).dev}, NEW W, Marks \subseteq W,
               c \in Clients => \A p \in DOMAIN t.entries : <<c, p>> \in W
        PROVE  Minds(W, x, t, e)
    <3>1. x.id \in Clients /\ e.path \in DOMAIN t.entries => <<x.id, e.path>> \in W BY <1>5, <2>1
    <3> QED BY <1>1, <1>2, <1>3, <1>4, <2>1, <3>1, MergeSound
  <2>2. Outcome(x, merge(x, e, b), e) BY <1>1, MergeFacts
  <2>3. \A t \in merge(x, e, b).torn \union {merge(x, e, b).dev} : Ready(x, t, e) BY <2>2 DEF Outcome
  <2>4. \A t \in merge(x, e, b).torn \union {merge(x, e, b).dev} : Leads(c, t, {e})
    BY <1>1, <1>6, <2>1, <2>3 DEF Leads, Minds, x
  <2>5. merge(x, e, b).status = "complete" => Stands(merge(x, e, b).dev, e.path) = e.rev
    BY <1>1, <1>2, <1>3, <1>4, <1>7, MergeSound
  <2> QED BY <2>3, <2>4, <2>5
<1>9. ASSUME acceptsMetadata(x, e)
      PROVE  /\ \A t \in acceptMetadata(x, e).torn \union {acceptMetadata(x, e).dev} : Leads(c, t, {e}) /\ Ready(x, t, e)
             /\ Stands(acceptMetadata(x, e).dev, e.path) = e.rev
  <2>1. ASSUME NEW t \in acceptMetadata(x, e).torn \union {acceptMetadata(x, e).dev}, NEW W, Marks \subseteq W,
               c \in Clients => \A p \in DOMAIN t.entries : <<c, p>> \in W
        PROVE  Minds(W, x, t, e)
    <3>1. e.path \in DOMAIN t.entries => <<x.id, e.path>> \in W BY <1>5, <2>1
    <3> QED BY <1>1, <1>3, <1>9, <2>1, <3>1, MetadataSound
  <2>3. \A t \in acceptMetadata(x, e).torn \union {acceptMetadata(x, e).dev} : Ready(x, t, e)
    BY <1>1, <1>9, MetadataFacts
  <2>4. \A t \in acceptMetadata(x, e).torn \union {acceptMetadata(x, e).dev} : Leads(c, t, {e})
    BY <1>1, <1>6, <2>1, <2>3 DEF Leads, Minds, x
  <2>5. Stands(acceptMetadata(x, e).dev, e.path) = e.rev
    BY <1>1, <1>3, <1>7, <1>9, MetadataSound
  <2> QED BY <2>3, <2>4, <2>5
<1> QED BY <1>8, <1>9 DEF x

(* What the authority becomes by merging an announced proposal. *)
LEMMA LeadsDecided ==
  ASSUME IInv, Orderly, Confirmed, NEW c \in Clients, NEW gen, NEW e, announced(c, gen, e), NEW b
  PROVE  \A t \in merge(host, e, b).torn \union {merge(host, e, b).dev} : \A R : Leads(Host, t, R)
<1> DEFINE x == dev[Host]
<1>1. /\ Good(x) /\ x.id = Host /\ Host \in Device /\ Client(x, dev[c], session[c], peers[c], manifests[c])
      /\ e \in manifests[c].members /\ Outcome(x, merge(x, e, b), e)
  BY About, AuthorityTakes DEF host
<1>2. /\ Record(e) /\ Path(e.path) /\ Based(x, e.path, e.base) /\ Tidy(x) /\ Sound(Marks, x)
      /\ Known(Marks, e.path, e.clock) /\ (Own(e.path) => Fresh(x, e))
  BY <1>1 DEF Client, Plan, Orderly, Named, Addressed, Confirmed, Offered, host
<1>3. Proposed(Marks, x, e) /\ Host \notin Clients BY <1>2, HostAssumption DEF Proposed
<1> HIDE DEF x
<1> SUFFICES ASSUME NEW t \in merge(x, e, b).torn \union {merge(x, e, b).dev}, NEW R
             PROVE  Leads(Host, t, R)
  BY DEF x, host
<1>4. Ready(x, t, e) BY <1>1 DEF Outcome
<1>5. DOMAIN x.entries \subseteq DOMAIN t.entries /\ Extends(x, t) BY <1>4 DEF Ready, Evolves
<1>6. ASSUME NEW W, Marks \subseteq W PROVE Sound(W, t)
  <2>1. Minds(W, x, t, e) BY <1>1, <1>2, <1>3, <1>6, MergeSound
  <2> QED BY <2>1 DEF Minds
<1> QED BY <1>5, <1>6 DEF Leads, x, host

(* What a mirror becomes by accepting a page of the journal. *)
LEMMA LeadsHistory ==
  ASSUME IInv, Confirmed, NEW c \in Clients, NEW y, y.id = dev[c].id, y.entries = dev[c].entries,
         dev[c].head <= y.head, y.head <= host.head, y.head \in Nat, \A n \in 1..y.head : y.journal[n] = host.journal[n]
  PROVE  \A R : Leads(c, y, R)
<1> DEFINE x == dev[c]
<1>1. /\ Good(x) /\ x.id = c /\ c # Host /\ c \in Device /\ Good(host) /\ Host \in Device
      /\ Client(host, x, session[c], peers[c], manifests[c])
  BY About
<1>2. host.head \in Nat /\ x.head \in Nat /\ x.head <= host.head /\ \A n \in 1..x.head : x.journal[n] = host.journal[n]
  BY <1>1 DEF Good, Solid, Shape, Client, Follows
<1>3. \A p \in DOMAIN x.entries : Own(p) /\ x.entries[p].rev = 0 => Fresh(x, x.entries[p]) /\ ~x.entries[p].remote
  BY <1>1 DEF Confirmed, Sound, Rooted
<1> HIDE DEF x
<1>4. y.id = x.id /\ y.entries = x.entries BY DEF x
<1>5. \A n \in 1..x.head : n \in 1..y.head /\ y.journal[n] = x.journal[n] BY <1>2, <1>4 DEF x
<1>6. \A p \in DOMAIN x.entries : Based(x, p, x.entries[p].base) BY <1>1 DEF Good, Solid
<1>7. Rooted(y)
  <2> SUFFICES ASSUME NEW p \in DOMAIN x.entries, Own(p), x.entries[p].rev = 0
               PROVE  Fresh(y, x.entries[p]) /\ ~x.entries[p].remote
    BY <1>4 DEF Rooted
  <2>1. Fresh(x, x.entries[p]) /\ ~x.entries[p].remote BY <1>3
  <2>2. x.entries[p].base # 0 => y.journal[x.entries[p].base] = x.journal[x.entries[p].base] BY <1>5, <1>6 DEF Based
  <2> QED BY <2>1, <2>2 DEF Fresh
<1>8. Within(Marks, y)
  <2>1. Within(Marks, x) /\ Within(Marks, host) BY <1>1 DEF Confirmed, Sound, x, host
  <2>2. \A n \in 1..y.head : n \in 1..host.head BY <1>2
  <2> QED BY <1>4, <2>1, <2>2 DEF Within
<1>9. Sound(Marks, y) BY <1>1, <1>4, <1>7, <1>8 DEF Sound
<1>10. \A R : Moves(x, y, R) BY <1>4 DEF Moves, Stands, entry
<1> QED BY <1>1, <1>4, <1>9, <1>10, SoundMore DEF Leads, x

(* All devices and manifests at once. *)
LEMMA SoundNext ==
  ASSUME IInv, IInv', Confirmed, \A d \in Device : \E R : Leads(d, dev'[d], R),
         \A c \in Clients : \/ manifests'[c].members \subseteq manifests[c].members
                            \/ Offered(host, Marks, manifests'[c])
  PROVE  /\ Marks \subseteq Marks' /\ Extends(host, dev'[Host])
         /\ \A d \in Device : Sound(Marks', dev'[d])
         /\ \A c \in Clients : Offered(dev'[Host], Marks', manifests'[c])
<1>1. Host \in Device /\ Clients \subseteq Device BY DEF Device
<1>2. \A c, p : <<c, p>> \in Marks' <=> c \in Clients /\ p \in DOMAIN dev'[c].entries BY DEF Marks
<1>3. Marks \subseteq Marks'
  <2>1. \A d \in Device : DOMAIN dev[d].entries \subseteq DOMAIN dev'[d].entries BY DEF Leads
  <2> SUFFICES ASSUME NEW w \in Marks PROVE w \in Marks' OBVIOUS
  <2>2. PICK c \in Clients : w \in {<<c, p>> : p \in DOMAIN dev[c].entries} BY DEF Marks
  <2>3. PICK p \in DOMAIN dev[c].entries : w = <<c, p>> BY <2>2
  <2> QED BY <1>1, <1>2, <2>1, <2>3
<1>4. Extends(host, dev'[Host]) BY <1>1 DEF Leads
<1>5. \A d \in Device : Sound(Marks', dev'[d])
  <2> SUFFICES ASSUME NEW d \in Device PROVE Sound(Marks', dev'[d]) OBVIOUS
  <2>1. PICK R : Leads(d, dev'[d], R) OBVIOUS
  <2> QED BY <1>2, <1>3, <2>1 DEF Leads
<1>6. ASSUME NEW c \in Clients PROVE Offered(dev'[Host], Marks', manifests'[c])
  <2>1. Offered(host, Marks, manifests'[c])
    <3>1. Offered(host, Marks, manifests[c]) BY DEF Confirmed
    <3> QED BY <3>1 DEF Offered
  <2> SUFFICES ASSUME NEW e \in manifests'[c].members
               PROVE  /\ Based(dev'[Host], e.path, e.base) /\ Known(Marks', e.path, e.clock)
                      /\ Own(e.path) => Fresh(dev'[Host], e)
    BY DEF Offered
  <2>2. Based(host, e.path, e.base) /\ Known(Marks, e.path, e.clock) /\ (Own(e.path) => Fresh(host, e)) BY <2>1 DEF Offered
  <2>5. host.head \in Nat /\ dev'[Host].head \in Nat /\ host.head <= dev'[Host].head
    BY <1>1, <1>4 DEF IInv, Devices, Good, Solid, Shape, Extends, host
  <2>3. Known(Marks', e.path, e.clock) BY <1>3, <2>2, SoundMore
  <2>4. Own(e.path) => Fresh(dev'[Host], e)
    <3>1. e.base # 0 => dev'[Host].journal[e.base] = host.journal[e.base] BY <1>4, <2>2 DEF Based, Extends
    <3> QED BY <2>2, <3>1 DEF Fresh
  <2>6. Based(dev'[Host], e.path, e.base) BY <1>4, <2>2, <2>5 DEF Based, Extends
  <2> QED BY <2>3, <2>4, <2>6
<1> QED BY <1>3, <1>4, <1>5, <1>6

-----------------------------------------------------------------------------
(* What a record stands on is a revision of its path. *)
LEMMA StandsFacts ==
  ASSUME NEW x, Good(x), x.id # Host, NEW p
  PROVE  /\ Stands(x, p) \in Nat /\ x.head \in Nat
         /\ Stands(x, p) # 0 => /\ Stands(x, p) \in 1..x.head /\ x.journal[Stands(x, p)].path = p
                                /\ p \in DOMAIN x.entries /\ Stands(x, p) <= object(x, p)
         /\ p \in DOMAIN x.entries => entry(x, p) = x.entries[p]
         /\ entry(x, p).rev # 0 => Backs(x, p, entry(x, p))
<1>1. /\ p \in DOMAIN x.entries => entry(x, p) = x.entries[p]
      /\ p \notin DOMAIN x.entries => entry(x, p) = NoEntry(p)
      /\ entry(x, p).rev \in Nat /\ entry(x, p).base \in Nat
  BY Holds
<1>2. Solid(x) /\ x.head \in Nat BY DEF Good, Solid, Shape
<1>3. p \notin DOMAIN x.entries => entry(x, p).rev = 0 /\ entry(x, p).base = 0 BY <1>1 DEF NoEntry
<1>4. entry(x, p).rev # 0 => p \in DOMAIN x.entries /\ Backs(x, p, entry(x, p)) BY <1>1, <1>2, <1>3 DEF Solid
<1>5. entry(x, p).base # 0 => p \in DOMAIN x.entries /\ Based(x, p, entry(x, p).base) BY <1>1, <1>2, <1>3 DEF Solid
<1>6. Stands(x, p) \in Nat BY <1>1 DEF Stands
<1>7. Stands(x, p) # 0 => /\ Stands(x, p) \in 1..x.head /\ x.journal[Stands(x, p)].path = p /\ p \in DOMAIN x.entries
  <2>1. CASE entry(x, p).rev # 0 BY <1>4, <2>1, BackedPath DEF Stands
  <2>2. CASE entry(x, p).rev = 0 BY <1>5, <2>2 DEF Stands, Based
  <2> QED BY <2>1, <2>2
<1>8. Stands(x, p) # 0 => Stands(x, p) <= object(x, p)
  <2>1. \A m \in 1..x.head : m <= x.head /\ x.journal[m].path = p => m <= object(x, p)
    BY <1>2, LatestFacts DEF object
  <2> QED BY <1>2, <1>7, <2>1
<1> QED BY <1>1, <1>2, <1>4, <1>6, <1>7, <1>8

(* The authority's journal grows. *)
LEMMA ProjectedOn ==
  ASSUME NEW h, NEW g, NEW n, g.journal[n] = h.journal[n]
  PROVE  projected(g, n) = projected(h, n)
BY DEF projected

LEMMA BringsOn ==
  ASSUME NEW h, Good(h), NEW g, Good(g), Extends(h, g), NEW x, NEW todo, NEW bound \in Nat, NEW after,
         Brings(h, x, todo, bound, after)
  PROVE  Brings(g, x, todo, bound, after)
<1>1. /\ h.head \in Nat /\ g.head \in Nat /\ h.head <= g.head
      /\ \A n \in 1..h.head : n \in 1..g.head /\ g.journal[n] = h.journal[n]
  BY Grows
<1>2. bound <= h.head /\ bound <= g.head BY <1>1 DEF Brings
<1>3. \A n \in 1..bound : n \in 1..h.head /\ g.journal[n] = h.journal[n] BY <1>1, <1>2
<1>4. \A p : LatestUpTo(g, p, bound) = LatestUpTo(h, p, bound) BY <1>1, <1>2, LatestStable
<1>5. ASSUME NEW e \in todo, Own(e.path) PROVE Newest(g, e, bound) /\ e = projected(g, e.rev)
  <2>1. Newest(h, e, bound) /\ e = projected(h, e.rev) BY <1>5 DEF Brings
  <2>2. e.rev \in 1..h.head BY <2>1 DEF Newest
  <2>3. Newest(g, e, bound) BY <1>1, <1>3, <2>1, <2>2 DEF Newest
  <2> QED BY <1>1, <2>1, <2>2, <2>3, ProjectedOn
<1>6. \A n \in 1..bound : \/ Caught(g, x, n)
                          \/ \E e \in todo : e.path = g.journal[n].path
                          \/ LatestUpTo(g, g.journal[n].path, bound) > after
  BY <1>3, <1>4 DEF Brings, Caught
<1> QED BY <1>2, <1>5, <1>6 DEF Brings

LEMMA SettledOn ==
  ASSUME NEW h, Good(h), NEW g, Good(g), Extends(h, g), NEW x, NEW pushed, NEW bound, Settled(h, x, pushed, bound)
  PROVE  Settled(g, x, pushed, bound)
<1>1. \A n \in 1..h.head : n \in 1..g.head /\ g.journal[n] = h.journal[n] BY Grows
<1> QED BY <1>1 DEF Settled

LEMMA AuthorityMovesOn ==
  ASSUME NEW h, Good(h), NEW g, Good(g), Extends(h, g), NEW x, NEW s, Session(s), NEW k, Cursor(k), NEW rs,
         Confirms(h, x, s, k, rs)
  PROVE  Confirms(g, x, s, k, rs)
<1>1. /\ h.head \in Nat /\ g.head \in Nat /\ h.head <= g.head
      /\ \A n \in 1..h.head : n \in 1..g.head /\ g.journal[n] = h.journal[n]
  BY Grows
<1>2. s.upper \in Nat /\ s.through \in Nat /\ k.pulled \in Nat BY DEF Session, Cursor
<1>3. k.pulled <= g.head /\ \A n \in 1..k.pulled : Caught(g, x, n)
  <2>1. k.pulled <= h.head /\ \A n \in 1..k.pulled : Caught(h, x, n) BY DEF Confirms
  <2>2. \A n \in 1..k.pulled : n \in 1..h.head BY <1>1, <1>2, <2>1
  <2> QED BY <1>1, <1>2, <2>1, <2>2 DEF Caught
<1>4. Asked(g, x, rs) BY <1>1 DEF Confirms, Asked
<1>5. \A bound \in Nat : \A after : Lists(h, x, s, rs, bound, after) => Lists(g, x, s, rs, bound, after)
  BY BringsOn, SettledOn DEF Lists
<1>6. Settled(h, x, s.pushed, s.pulled) => Settled(g, x, s.pushed, s.pulled) BY SettledOn
<1>7. Listed(g, x, s, k, rs) BY <1>2, <1>5, <1>6 DEF Confirms, Listed
<1> QED BY <1>3, <1>4, <1>7 DEF Confirms

(* The mirror's own index changes. *)
LEMMA StandsOn ==
  ASSUME NEW x, Good(x), x.id # Host, NEW y, NEW R, Moves(x, y, R), NEW p, Own(p), NEW n \in Nat, n # 0,
         n <= Stands(x, p), \A e \in R : e.path = p => n <= e.rev
  PROVE  n <= Stands(y, p)
<1>1. Stands(x, p) \in Nat BY StandsFacts
<1>2. Stands(x, p) # 0 BY <1>1
<1>3. \/ Stands(y, p) = Stands(x, p)
      \/ \E e \in R : e.path = p /\ Stands(y, p) = e.rev
  BY <1>2 DEF Moves
<1> QED BY <1>3

LEMMA BringsMoved ==
  ASSUME NEW h, NEW x, Good(x), x.id # Host, NEW y, NEW R, Moves(x, y, R), NEW todo, R \subseteq todo,
         NEW bound \in Nat, NEW after, Brings(h, x, todo, bound, after)
  PROVE  Brings(h, y, todo, bound, after)
<1>1. ASSUME NEW n \in 1..bound, Caught(h, x, n) PROVE Caught(h, y, n)
  <2> SUFFICES ASSUME Own(h.journal[n].path) PROVE n <= Stands(y, h.journal[n].path) BY DEF Caught
  <2>1. n <= Stands(x, h.journal[n].path) /\ n \in Nat /\ n # 0 BY <1>1 DEF Caught
  <2>2. \A e \in R : e.path = h.journal[n].path => n <= e.rev BY DEF Brings, Newest
  <2> QED BY <2>1, <2>2, StandsOn
<1> QED BY <1>1 DEF Brings

LEMMA AheadMoved ==
  ASSUME NEW h, Good(h), NEW x, Good(x), x.id # Host, NEW y, NEW R, Moves(x, y, R), NEW todo, R \subseteq todo,
         \A e, f \in todo : Own(e.path) /\ e.path = f.path => e = f, \A e \in todo : e.rev \in Nat,
         NEW rs, Asked(h, x, rs), Ahead(x, todo, rs)
  PROVE  Ahead(y, todo, rs)
<1> SUFFICES ASSUME NEW e \in todo, Own(e.path)
             PROVE  \/ Stands(y, e.path) <= e.rev
                    \/ entry(y, e.path).rev = 0 /\ \A r \in rs : r[1] # e.path
  BY DEF Ahead
<1>1. \/ Stands(y, e.path) = Stands(x, e.path) /\ entry(y, e.path).rev \in {0, entry(x, e.path).rev}
      \/ Stands(x, e.path) = 0 /\ entry(y, e.path).rev = 0
      \/ \E f \in R : f.path = e.path /\ Stands(y, e.path) = f.rev
  BY DEF Moves
<1>2. CASE Stands(y, e.path) = Stands(x, e.path) /\ entry(y, e.path).rev \in {0, entry(x, e.path).rev}
  BY <1>2 DEF Ahead
<1>3. CASE Stands(x, e.path) = 0 /\ entry(y, e.path).rev = 0
  <2>1. \A r \in rs : r[1] # e.path
    <3> SUFFICES ASSUME NEW r \in rs, r[1] = e.path PROVE FALSE OBVIOUS
    <3>1. PICK n \in 1..h.head : n <= Stands(x, r[1]) BY DEF Asked
    <3>2. n \in Nat /\ n >= 1 BY DEF Good, Solid, Shape
    <3> QED BY <1>3, <3>1, <3>2
  <2> QED BY <1>3, <2>1
<1>4. CASE \E f \in R : f.path = e.path /\ Stands(y, e.path) = f.rev
  <2>1. PICK f \in R : f.path = e.path /\ Stands(y, e.path) = f.rev BY <1>4
  <2>2. f = e BY <2>1
  <2> QED BY <2>1, <2>2
<1> QED BY <1>1, <1>2, <1>3, <1>4

LEMMA SettledMoved ==
  ASSUME NEW h, NEW x, Good(x), NEW y, Good(y), NEW R, Evolves(x, y, R), NEW pushed \in Nat, pushed <= x.seq, NEW bound,
         Settled(h, x, pushed, bound)
  PROVE  Settled(h, y, pushed, bound)
<1>1. x.seq \in Nat /\ \A p \in DOMAIN y.entries : y.entries[p].seq \in Nat BY DEF Good, Solid, Shape, Entry
<1> SUFFICES ASSUME NEW p \in DOMAIN y.entries, Own(p), y.entries[p].seq <= pushed
             PROVE  \E n \in 1..h.head : /\ n <= bound /\ h.journal[n].path = p /\ Covers(h.journal[n].clock, y.entries[p].clock)
                                         /\ y.entries[p].body = Directory => h.journal[n].body = Directory
  BY DEF Settled
<1>2. ~(y.entries[p].seq > x.seq) BY <1>1
<1>3. /\ p \in DOMAIN x.entries /\ y.entries[p].seq = x.entries[p].seq
      /\ y.entries[p].clock = x.entries[p].clock /\ y.entries[p].body = x.entries[p].body
  BY <1>2 DEF Evolves
<1> QED BY <1>3 DEF Settled

(* A record that loses its revision gets a sequence number of its own. *)
Steady(x, y) ==
  \A p \in DOMAIN y.entries : y.entries[p].seq > x.seq \/ (p \in DOMAIN x.entries /\ y.entries[p].rev = x.entries[p].rev)

LEMMA AgreesMoved ==
  ASSUME NEW x, Good(x), NEW y, Good(y), NEW R, Evolves(x, y, R), Steady(x, y), NEW bound \in Nat, bound <= x.seq,
         Agrees(x, bound)
  PROVE  Agrees(y, bound)
<1>1. x.seq \in Nat /\ \A p \in DOMAIN y.entries : y.entries[p].seq \in Nat BY DEF Good, Solid, Shape, Entry
<1> SUFFICES ASSUME NEW p \in DOMAIN y.entries, Own(p), y.entries[p].seq <= bound PROVE y.entries[p].rev # 0 BY DEF Agrees
<1>2. ~(y.entries[p].seq > x.seq) BY <1>1
<1>3. /\ p \in DOMAIN x.entries /\ y.entries[p].seq = x.entries[p].seq /\ y.entries[p].rev = x.entries[p].rev
  BY <1>2 DEF Evolves, Steady
<1> QED BY <1>3 DEF Agrees

LEMMA MirrorMovesOn ==
  ASSUME NEW h, Good(h), NEW x, Good(x), x.id # Host, NEW y, Good(y), NEW R, Evolves(x, y, R), Moves(x, y, R),
         NEW s, NEW k, NEW m, Client(h, x, s, k, m), NEW rs, Confirms(h, x, s, k, rs), R \subseteq s.todo,
         \/ s.pc \in {"pull", "commit"}
         \/ R = {} /\ Steady(x, y)
  PROVE  Confirms(h, y, s, k, rs)
<1>1. Session(s) /\ Cursor(k) /\ Pushes(h, x, s, k, m) BY DEF Client
<1>2. /\ s.upper \in Nat /\ s.through \in Nat /\ k.pulled \in Nat /\ k.pushed \in Nat /\ s.pushed \in Nat
      /\ s.pushThrough \in Nat /\ \A e \in s.todo : e.rev \in Nat
  BY <1>1 DEF Session, Cursor, Record
<1>3. x.seq \in Nat /\ x.head = y.head /\ h.head \in Nat BY DEF Good, Solid, Shape, Evolves, Extends
<1>4. s.pc # "idle" => s.pushed <= x.seq /\ s.pushed <= k.pushed BY <1>1, <1>2, <1>3 DEF Pushes
<1>5. k.pushed <= x.seq /\ (s.pc \in {"push", "send"} => s.pushThrough <= x.seq) BY <1>1 DEF Pushes, Announced
<1>6. \A e \in R : Own(e.path) => Newest(h, e, s.through) /\ k.pulled <= s.through
  BY DEF Confirms, Listed, Lists, Brings
<1>7. k.pulled <= h.head /\ \A n \in 1..k.pulled : Caught(h, y, n)
  <2>1. k.pulled <= h.head /\ \A n \in 1..k.pulled : Caught(h, x, n) BY DEF Confirms
  <2> SUFFICES ASSUME NEW n \in 1..k.pulled, Own(h.journal[n].path) PROVE n <= Stands(y, h.journal[n].path)
    BY <2>1 DEF Caught
  <2>2. n \in Nat /\ n # 0 /\ n <= Stands(x, h.journal[n].path) BY <1>2, <2>1 DEF Caught
  <2>3. \A e \in R : e.path = h.journal[n].path => n <= e.rev
    <3> SUFFICES ASSUME NEW e \in R, e.path = h.journal[n].path PROVE n <= e.rev OBVIOUS
    <3>1. Newest(h, e, s.through) /\ k.pulled <= s.through BY <1>6
    <3>2. n \in 1..s.through BY <1>2, <3>1
    <3> QED BY <3>1, <3>2 DEF Newest
  <2> QED BY <2>2, <2>3, StandsOn
<1>8. Asked(h, y, rs)
  <2> SUFFICES ASSUME NEW r \in rs, Own(r[1])
               PROVE  \E n \in 1..h.head : Version(h.journal[n]) = r[2] /\ h.journal[n].path = r[1] /\ n <= Stands(y, r[1])
    BY DEF Asked
  <2>1. PICK n \in 1..h.head : Version(h.journal[n]) = r[2] /\ h.journal[n].path = r[1] /\ n <= Stands(x, r[1])
    BY DEF Confirms, Asked
  <2>2. n \in Nat /\ n # 0 /\ Stands(x, r[1]) \in Nat BY <1>3, StandsFacts
  <2>3. \A e \in R : e.path = r[1] => n <= e.rev
    <3> SUFFICES ASSUME NEW e \in R, e.path = r[1] PROVE n <= e.rev OBVIOUS
    <3>1. s.pc \in {"pull", "commit"} /\ Own(e.path) /\ e \in s.todo /\ e.rev \in Nat BY <1>2
    <3>2. Ahead(x, s.todo, rs) BY <3>1 DEF Confirms, Listed, Lists
    <3>3. Stands(x, e.path) <= e.rev BY <3>1, <3>2 DEF Ahead
    <3> QED BY <2>1, <2>2, <3>1, <3>3
  <2>4. n <= Stands(y, r[1]) BY <2>1, <2>2, <2>3, StandsOn
  <2> QED BY <2>1, <2>4
<1>9. \A bound \in Nat : \A after : s.pc # "idle" /\ Lists(h, x, s, rs, bound, after) => Lists(h, y, s, rs, bound, after)
  <2> SUFFICES ASSUME NEW bound \in Nat, NEW after, s.pc # "idle", Lists(h, x, s, rs, bound, after)
               PROVE  Lists(h, y, s, rs, bound, after)
    OBVIOUS
  <2>1. Brings(h, x, s.todo, bound, after) /\ Ahead(x, s.todo, rs) /\ Settled(h, x, s.pushed, bound) /\ s.pulled <= bound
    BY DEF Lists
  <2>2. Brings(h, y, s.todo, bound, after) BY <2>1, BringsMoved
  <2>3. Ahead(y, s.todo, rs)
    <3>1. \A e, f \in s.todo : Own(e.path) /\ e.path = f.path => e = f BY <2>1 DEF Brings
    <3>2. Asked(h, x, rs) BY DEF Confirms
    <3> QED BY <1>2, <2>1, <3>1, <3>2, AheadMoved
  <2>4. Settled(h, y, s.pushed, bound) BY <1>2, <1>4, <2>1, SettledMoved
  <2> QED BY <2>1, <2>2, <2>3, <2>4 DEF Lists
<1>10. s.pc = "scan" => Settled(h, y, s.pushed, s.pulled)
  <2>1. s.pc = "scan" => Settled(h, x, s.pushed, s.pulled) BY DEF Confirms, Listed
  <2> QED BY <1>2, <1>4, <2>1, SettledMoved
<1>11. ASSUME s.pc \in {"announce", "pull", "commit"}, NEW e \in s.todo, Own(e.path), e.path \in s.requested
       PROVE  e.rev <= Stands(y, e.path)
  <2>1. e.rev <= Stands(x, e.path) BY <1>11 DEF Confirms, Listed
  <2>2. Newest(h, e, s.through) /\ \A f \in s.todo : e.path = f.path => e = f BY <1>11 DEF Confirms, Listed, Lists, Brings
  <2>3. e.rev # 0 BY <1>3, <2>2 DEF Newest
  <2>4. \A f \in R : f.path = e.path => e.rev <= f.rev BY <1>2, <2>2
  <2> QED BY <1>2, <1>11, <2>1, <2>3, <2>4, StandsOn
<1>12. Listed(h, y, s, k, rs)
  <2>1. Listed(h, x, s, k, rs) BY DEF Confirms
  <2> QED BY <1>2, <1>3, <1>9, <1>10, <1>11, <2>1 DEF Listed
<1>13. Closed(y, s, k)
  <2>1. Closed(x, s, k) BY DEF Confirms
  <2>2. CASE s.pc \in {"pull", "commit"} BY <2>1, <2>2 DEF Closed
  <2>3. CASE Steady(x, y) BY <1>2, <1>5, <2>1, <2>3, AgreesMoved DEF Closed
  <2> QED BY <2>2, <2>3
<1> QED BY <1>7, <1>8, <1>12, <1>13 DEF Confirms

LEMMA SteadySame ==
  ASSUME NEW x, Good(x), NEW y, SameIndex(x, y)
  PROVE  Steady(x, y)
BY DEF Steady, SameIndex

LEMMA SteadyIndexed ==
  ASSUME NEW x, Good(x), x.id # Host, NEW p, NEW base
  PROVE  Steady(x, observed(x, p, base))
<1>1. Evolves(x, observed(x, p, base), {}) BY Observed
<1>2. CASE observed(x, p, base) = x BY <1>2 DEF Steady
<1>3. ASSUME NEW r \in BOOLEAN, p \in DOMAIN x.entries, entry(x, p).path = p, Record(entry(x, p)),
             observed(x, p, base) = save(x, entry(x, p), r, base)
      PROVE  Steady(x, observed(x, p, base))
  <2> DEFINE y == observed(x, p, base)
  <2>1. /\ DOMAIN y.entries = DOMAIN x.entries \union {p} /\ y.entries[p].rev = entry(x, p).rev
        /\ \A q \in DOMAIN x.entries : q # p => y.entries[q] = x.entries[q]
    BY <1>3, SavedExactly
  <2>2. entry(x, p) = x.entries[p] BY <1>3, Holds
  <2> HIDE DEF y
  <2>3. Steady(x, y) BY <1>3, <2>1, <2>2 DEF Steady
  <2> QED BY <2>3 DEF y
<1>4. ASSUME NEW z, NEW e, NEW tick \in Nat, NEW r \in BOOLEAN,
             Good(z), SameTable(x, z), observed(x, p, base) = save(z, e, r, base), Record(e), e.path = p,
             e.clock = [entry(x, p).clock EXCEPT ![x.id] = tick], tick > entry(x, p).clock[x.id]
      PROVE  Steady(x, observed(x, p, base))
  <2> DEFINE y == observed(x, p, base)
             old == entry(x, p)
  <2>1. /\ DOMAIN y.entries = DOMAIN x.entries \union {p} /\ y.entries[p].clock = e.clock
        /\ \A q \in DOMAIN x.entries : q # p => y.entries[q] = x.entries[q]
    BY <1>4, SavedExactly DEF SameTable
  <2>2. old.clock \in Clock /\ x.id \in Device BY Holds DEF Good, Solid, Shape
  <2>3. e.clock # old.clock
    <3>1. e.clock[x.id] = tick /\ old.clock[x.id] \in Nat BY <1>4, <2>2 DEF Clock
    <3> QED BY <1>4, <3>1
  <2>4. p \in DOMAIN x.entries => old = x.entries[p] BY Holds
  <2> HIDE DEF y, old
  <2>5. y.entries[p].seq > x.seq BY <1>1, <2>1, <2>3, <2>4 DEF Evolves, y
  <2>6. Steady(x, y) BY <2>1, <2>5 DEF Steady
  <2> QED BY <2>6 DEF y
<1>5. CASE /\ p \in DOMAIN x.entries /\ entry(x, p).path = p /\ Record(entry(x, p))
           /\ \E r \in BOOLEAN : ~r /\ observed(x, p, base) = save(x, entry(x, p), r, base)
  BY <1>3, <1>5
<1>6. CASE \E z, e : \E tick \in Nat : \E r \in BOOLEAN :
             /\ Good(z) /\ SameTable(x, z) /\ ~r /\ observed(x, p, base) = save(z, e, r, base)
             /\ Record(e) /\ e.path = p /\ e.rev = 0 /\ e.base = observedBase(x, entry(x, p)) /\ Based(z, p, e.base)
             /\ e.clock = [entry(x, p).clock EXCEPT ![x.id] = tick] /\ tick > entry(x, p).clock[x.id]
  BY <1>4, <1>6
<1> QED BY <1>2, <1>5, <1>6, ObservedCases

-----------------------------------------------------------------------------
(* The steps of a round, on the state of one mirror. *)
LEMMA FewerOn ==
  ASSUME NEW h, NEW x, NEW s, NEW k, NEW rs, Confirms(h, x, s, k, rs), NEW qs, qs \subseteq rs
  PROVE  Confirms(h, x, s, k, qs)
<1>1. Asked(h, x, qs) BY DEF Confirms, Asked
<1>2. \A todo : Ahead(x, todo, rs) => Ahead(x, todo, qs) BY DEF Ahead
<1>3. \A bound, after : Lists(h, x, s, rs, bound, after) => Lists(h, x, s, qs, bound, after) BY <1>2 DEF Lists
<1>4. Listed(h, x, s, k, qs) BY <1>3 DEF Confirms, Listed
<1> QED BY <1>1, <1>4 DEF Confirms

LEMMA EndsOn ==
  ASSUME NEW h, NEW x, NEW s, NEW k, NEW rs, Confirms(h, x, s, k, rs), NEW g
  PROVE  Confirms(h, x, Inactive(g, FALSE), k, rs)
<1>1. Inactive(g, FALSE).pc = "idle" /\ Inactive(g, FALSE).ok = FALSE BY DEF Inactive
<1>2. Listed(h, x, Inactive(g, FALSE), k, rs) BY <1>1 DEF Listed
<1>3. Closed(x, Inactive(g, FALSE), k) BY <1>1 DEF Closed
<1> QED BY <1>2, <1>3 DEF Confirms

LEMMA StartsOn ==
  ASSUME NEW h, NEW x, NEW s, NEW k, NEW rs, Confirms(h, x, s, k, rs), NEW g,
         NEW t, t = [Inactive(g, FALSE) EXCEPT
                       !.pc = "rescan", !.pulled = k.pulled, !.pushed = k.pushed, !.after = k.pulled]
  PROVE  Confirms(h, x, t, k, rs)
<1>1. t.pc = "rescan" /\ t.ok = FALSE /\ t.upper = 0 /\ t.todo = {} /\ t.after = k.pulled /\ t.pulled = k.pulled
  BY DEF Inactive
<1>2. Listed(h, x, t, k, rs) BY <1>1 DEF Listed
<1>3. Closed(x, t, k) BY <1>1 DEF Closed
<1> QED BY <1>2, <1>3 DEF Confirms

LEMMA DropsOn ==
  ASSUME NEW h, NEW x, Good(x), x.id # Host, NEW s, Session(s), NEW k, NEW rs, Confirms(h, x, s, k, rs), s.pc \in Announced,
         NEW e, s.pc \in {"pull", "commit"} => e \in s.todo /\ (Own(e.path) => e.rev <= Stands(x, e.path))
  PROVE  Confirms(h, x, Drop(s, e), k, rs)
<1> DEFINE t == Drop(s, e)
           q == IF s.pc = "commit" THEN "pull" ELSE IF s.pc = "send" THEN "push" ELSE s.pc
<1>1. t = [s EXCEPT !.pc = q, !.todo = s.todo \ {e}, !.current = NoRecord] BY DEF Drop
<1>2. \/ s.pc \in {"pull", "commit"} /\ q = "pull"
      \/ s.pc \in {"push", "send"} /\ q = "push"
  BY DEF Announced
<1> HIDE DEF q, t
<1>3. /\ t.pc = q /\ t.pulled = s.pulled /\ t.pushed = s.pushed /\ t.through = s.through /\ t.todo = s.todo \ {e}
      /\ t.pushThrough = s.pushThrough /\ t.requested = s.requested /\ t.early = s.early /\ t.sent = s.sent /\ t.ok = s.ok
  BY ONLY <1>1, Session(s) DEF Session
<1>4. Closed(x, t, k) BY <1>2, <1>3 DEF Confirms, Closed
<1>5. Listed(h, x, t, k, rs)
  <2>1. CASE s.pc \in {"push", "send"} BY <1>2, <1>3, <2>1 DEF Confirms, Listed
  <2>2. CASE s.pc \in {"pull", "commit"}
    <3>1. Lists(h, x, s, rs, s.through, s.through) /\ e \in s.todo BY <2>2 DEF Confirms, Listed
    <3>2. Brings(h, x, t.todo, s.through, s.through)
      <4>1. Brings(h, x, s.todo, s.through, s.through) BY <3>1 DEF Lists
      <4>2. ASSUME NEW n \in 1..s.through, e.path = h.journal[n].path PROVE Caught(h, x, n)
        <5> SUFFICES ASSUME Own(e.path) PROVE n <= Stands(x, e.path) BY <4>2 DEF Caught
        <5>1. Newest(h, e, s.through) /\ e.rev <= Stands(x, e.path) BY <2>2, <3>1, <4>1 DEF Brings
        <5>2. n <= e.rev BY <4>2, <5>1 DEF Newest
        <5>3. n \in Nat /\ e.rev \in Nat /\ Stands(x, e.path) \in Nat BY <3>1, StandsFacts DEF Session, Record
        <5> QED BY <5>1, <5>2, <5>3
      <4> QED BY <1>3, <4>1, <4>2 DEF Brings
    <3>3. Ahead(x, t.todo, rs) BY <1>3, <3>1 DEF Lists, Ahead
    <3>4. Lists(h, x, t, rs, t.through, t.through) BY <1>3, <3>1, <3>2, <3>3 DEF Lists
    <3> QED BY <1>2, <1>3, <2>2, <3>4 DEF Confirms, Listed
  <2> QED BY <1>2, <2>1, <2>2
<1> QED BY <1>4, <1>5 DEF Confirms, t

LEMMA TransfersOn ==
  ASSUME NEW h, NEW x, NEW s, Session(s), NEW k, NEW rs, Confirms(h, x, s, k, rs), NEW e, NEW pc, NEW t, TransferOf(s, e, pc, t)
  PROVE  Confirms(h, x, t, k, rs)
<1>1. t = [s EXCEPT !.pc = pc, !.current = e] /\ ((s.pc = "pull" /\ pc = "commit") \/ (s.pc = "push" /\ pc = "send"))
  BY DEF TransferOf
<1>2. /\ t.pc = pc /\ t.pulled = s.pulled /\ t.pushed = s.pushed /\ t.through = s.through /\ t.todo = s.todo
      /\ t.pushThrough = s.pushThrough /\ t.requested = s.requested /\ t.early = s.early /\ t.sent = s.sent /\ t.ok = s.ok
  BY ONLY <1>1, Session(s) DEF Session
<1>3. Closed(x, t, k) BY <1>1, <1>2 DEF Confirms, Closed
<1>4. Lists(h, x, s, rs, s.through, s.through) => Lists(h, x, t, rs, t.through, t.through) BY <1>2 DEF Lists
<1>5. Listed(h, x, t, k, rs) BY <1>1, <1>2, <1>4 DEF Confirms, Listed
<1> QED BY <1>3, <1>5 DEF Confirms

LEMMA PushesEarlyOn ==
  ASSUME NEW h, NEW x, NEW s, Session(s), NEW k, NEW rs, Confirms(h, x, s, k, rs), s.pc = "pull", NEW new,
         NEW t, t = [s EXCEPT !.pc = "push", !.todo = new, !.early = TRUE]
  PROVE  Confirms(h, x, t, k, rs)
<1>1. t.pc = "push" /\ t.pulled = s.pulled /\ t.early = TRUE /\ t.ok = s.ok BY ONLY t = [s EXCEPT !.pc = "push", !.todo = new, !.early = TRUE], Session(s) DEF Session
<1>2. Closed(x, t, k) BY <1>1 DEF Confirms, Closed
<1>3. Listed(h, x, t, k, rs) BY <1>1 DEF Confirms, Listed
<1> QED BY <1>2, <1>3 DEF Confirms

LEMMA PullEndsOn ==
  ASSUME NEW h, Good(h), NEW x, NEW s, Session(s), NEW k, Cursor(k), NEW rs, Confirms(h, x, s, k, rs), NEW t, NEW j,
         PullEndOf(s, k, t, j)
  PROVE  Confirms(h, x, t, j, rs)
<1>1. /\ s.pc = "pull" /\ s.todo = {} /\ t = [s EXCEPT !.pc = "scan", !.pulled = s.through]
      /\ j = [k EXCEPT !.pulled = IF k.pulled > s.through THEN k.pulled ELSE s.through]
  BY DEF PullEndOf
<1>2. t.pc = "scan" /\ t.pulled = s.through /\ t.pushed = s.pushed /\ t.ok = s.ok BY ONLY <1>1, Session(s) DEF Session
<1>3. s.through \in Nat /\ k.pulled \in Nat BY DEF Session, Cursor
<1>4. s.pulled = k.pulled /\ Lists(h, x, s, rs, s.through, s.through) /\ ~s.ok BY <1>1 DEF Confirms, Listed, Closed
<1>5. j.pulled = s.through /\ s.through <= h.head
  <2>1. k.pulled <= s.through /\ s.through <= h.head BY <1>4 DEF Lists, Brings
  <2> QED BY <1>1, <1>3, <2>1 DEF Cursor
<1>6. \A n \in 1..s.through : Caught(h, x, n)
  <2> SUFFICES ASSUME NEW n \in 1..s.through PROVE Caught(h, x, n) OBVIOUS
  <2> DEFINE l == LatestUpTo(h, h.journal[n].path, s.through)
  <2>1. h.head \in Nat BY DEF Good, Solid, Shape
  <2>2. l = 0 \/ (l \in 1..h.head /\ l <= s.through) BY <1>3, <2>1, LatestFacts
  <2> HIDE DEF l
  <2>3. ~(l > s.through) BY <1>3, <2>1, <2>2
  <2> QED BY <1>1, <1>4, <2>3 DEF Lists, Brings, l
<1>7. Listed(h, x, t, j, rs) BY <1>2, <1>4, <1>5 DEF Listed, Lists
<1>8. Closed(x, t, j) BY <1>2, <1>4 DEF Closed
<1> QED BY <1>5, <1>6, <1>7, <1>8 DEF Confirms

LEMMA RepagesOn ==
  ASSUME NEW h, NEW x, NEW s, NEW k, NEW rs, Confirms(h, x, s, k, rs), NEW r, Session(r), r.pulled = k.pulled, ~r.ok,
         NEW t, t = Repage(r) \/ t = [Repage(r) EXCEPT !.pc = "rescan"]
  PROVE  Confirms(h, x, t, k, rs)
<1> DEFINE u == Repage(r)
<1>1. u.pc = "changes" /\ u.pulled = r.pulled /\ u.after = r.pulled /\ u.upper = 0 /\ u.todo = {} /\ u.ok = r.ok
  BY DEF Session, Repage
<1>2. [u EXCEPT !.pc = "rescan"].pc = "rescan" /\ LET v == [u EXCEPT !.pc = "rescan"] IN
        v.pulled = r.pulled /\ v.after = r.pulled /\ v.upper = 0 /\ v.todo = {} /\ v.ok = r.ok
  BY DEF Session, Repage
<1>3. t.pc \in {"changes", "rescan"} /\ t.pulled = r.pulled /\ t.after = r.pulled /\ t.upper = 0 /\ t.todo = {} /\ t.ok = r.ok
  BY <1>1, <1>2
<1>4. Listed(h, x, t, k, rs) BY <1>3 DEF Listed
<1>5. Closed(x, t, k) BY <1>3 DEF Closed
<1> QED BY <1>4, <1>5 DEF Confirms

(* The end of the uploads: the push cursor advances. *)
LEMMA PushCursorOn ==
  ASSUME NEW h, NEW x, NEW s, Session(s), NEW k, Cursor(k), NEW rs, Confirms(h, x, s, k, rs), s.pc = "push", NEW j,
         j.pulled = k.pulled, j.pushed = IF k.pushed > s.pushThrough THEN k.pushed ELSE s.pushThrough
  PROVE  /\ s.early \/ s.sent => Confirms(h, x, s, j, rs)
         /\ ~s.early /\ ~s.sent => \A g : Confirms(h, x, Inactive(g, TRUE), j, rs)
<1>1. j.pulled = k.pulled /\ j.pushed = IF k.pushed > s.pushThrough THEN k.pushed ELSE s.pushThrough OBVIOUS
<1>2. ~s.ok BY DEF Confirms, Closed
<1>3. Listed(h, x, s, j, rs) BY <1>1 DEF Confirms, Listed
<1>4. s.early \/ s.sent => Confirms(h, x, s, j, rs) BY <1>1, <1>2, <1>3 DEF Confirms, Closed
<1>5. ASSUME ~s.early, ~s.sent, NEW g PROVE Confirms(h, x, Inactive(g, TRUE), j, rs)
  <2>1. Inactive(g, TRUE).pc = "idle" BY DEF Inactive
  <2>2. k.pushed <= s.pushThrough /\ Agrees(x, s.pushThrough) BY <1>5 DEF Confirms, Closed
  <2>3. k.pushed \in Nat /\ s.pushThrough \in Nat BY DEF Cursor, Session
  <2>4. j.pushed = s.pushThrough BY <1>1, <2>2, <2>3
  <2>5. Closed(x, Inactive(g, TRUE), j) BY <2>1, <2>2, <2>4 DEF Closed
  <2>6. Listed(h, x, Inactive(g, TRUE), j, rs) BY <2>1 DEF Listed
  <2> QED BY <1>1, <2>5, <2>6 DEF Confirms
<1> QED BY <1>1, <1>4, <1>5

(* An original is requested: its record is a revision. *)
LEMMA RequestsOn ==
  ASSUME NEW h, Good(h), NEW x, Good(x), x.id # Host, NEW W, Sound(W, x), NEW s, NEW k, NEW m, Client(h, x, s, k, m),
         NEW rs, Confirms(h, x, s, k, rs), NEW p, entry(x, p).remote, p \in DOMAIN x.entries,
         NEW qs, qs = rs \union {<<p, Version(entry(x, p))>>}
  PROVE  Confirms(h, x, s, k, qs)
<1>1. entry(x, p) = x.entries[p] /\ (entry(x, p).rev # 0 => Backs(x, p, entry(x, p))) BY StandsFacts
<1>2. Own(p) => entry(x, p).rev # 0 BY <1>1 DEF Sound, Rooted
<1>3. entry(x, p).path = p BY Holds
<1>4. Asked(h, x, qs)
  <2> SUFFICES ASSUME NEW r \in qs, Own(r[1])
               PROVE  \E n \in 1..h.head : Version(h.journal[n]) = r[2] /\ h.journal[n].path = r[1] /\ n <= Stands(x, r[1])
    BY DEF Asked
  <2>1. CASE r \in rs BY <2>1 DEF Confirms, Asked
  <2>2. CASE r = <<p, Version(entry(x, p))>>
    <3> DEFINE n == entry(x, p).rev
    <3>1. n # 0 /\ Backs(x, p, entry(x, p)) BY <1>1, <1>2, <2>2
    <3>2. n \in 1..x.head /\ x.journal[n].path = p /\ x.journal[n].body = entry(x, p).body
          /\ x.journal[n].clock = entry(x, p).clock
      BY <3>1, BackedPath
    <3>3. x.head <= h.head /\ \A i \in 1..x.head : x.journal[i] = h.journal[i] BY DEF Client, Follows
    <3>4. x.head \in Nat /\ h.head \in Nat BY DEF Good, Solid, Shape
    <3>5. n \in Nat /\ (n \in 1..h.head)
      <4>1. Session(s) /\ Cursor(k) BY DEF Client
      <4>2. n <= h.head /\ n \in Nat /\ n >= 1 BY <3>2, <3>3, <3>4
      <4> QED BY <4>2
    <3>6. n <= Stands(x, p)
      <4>1. Stands(x, p) = n BY <3>1 DEF Stands
      <4> QED BY <3>5, <4>1
    <3>7. Version(h.journal[n]) = Version(entry(x, p)) /\ h.journal[n].path = p BY <1>3, <3>2, <3>3 DEF Version
    <3> QED BY <2>2, <3>5, <3>6, <3>7
  <2> QED BY <2>1, <2>2
<1>5. \A todo : Ahead(x, todo, rs) => Ahead(x, todo, qs)
  <2> SUFFICES ASSUME NEW todo, Ahead(x, todo, rs), NEW e \in todo, Own(e.path)
               PROVE  \/ Stands(x, e.path) <= e.rev
                      \/ entry(x, e.path).rev = 0 /\ \A r \in qs : r[1] # e.path
    BY DEF Ahead
  <2>1. e.path = p => entry(x, e.path).rev # 0 BY <1>2
  <2> QED BY <2>1 DEF Ahead
<1>6. \A bound, after : Lists(h, x, s, rs, bound, after) => Lists(h, x, s, qs, bound, after) BY <1>5 DEF Lists
<1>7. Listed(h, x, s, k, qs) BY <1>6 DEF Confirms, Listed
<1> QED BY <1>4, <1>7 DEF Confirms

-----------------------------------------------------------------------------
(* The session after a page of changes: either there is more beyond b, or the page was the last. *)
LEMMA PageSession ==
  ASSUME NEW h, Good(h), NEW s, Session(s), NEW limit \in Nat, NEW rows, NEW last, NEW t, NEW u, PageOf(h, s, limit, rows, last, t, u)
  PROVE  /\ rows \subseteq Rows(h, s.after, limit)
         /\ u.pulled = s.pulled /\ u.pushed = s.pushed /\ u.through = limit /\ u.requested = s.requested /\ u.ok = s.ok
         /\ u.todo = s.todo \union {projected(h, n) : n \in rows}
         /\ \E b \in Nat : /\ \A n \in Rows(h, s.after, limit) \ rows : n > b
                           /\ \/ u.pc = "changes" /\ u.after = b /\ u.upper = limit /\ limit # 0
                              \/ u.pc = "journal" /\ u.upper = 0 /\ b = limit
<1> DEFINE R == Rows(h, s.after, limit)
           more == Cardinality(rows) = PageLimit /\ last < limit
           todo == s.todo \union {projected(h, n) : n \in rows}
           q == IF more THEN "changes" ELSE "journal"
           a == IF more THEN last ELSE 0
           l == IF more THEN limit ELSE 0
           b == IF more THEN last ELSE limit
<1>1. /\ rows = firstRows(R) /\ (rows # {} => last \in rows /\ \A n \in rows : n <= last)
      /\ t = [s EXCEPT !.through = limit, !.todo = todo]
      /\ u = [t EXCEPT !.pc = q, !.after = a, !.upper = l]
  BY DEF PageOf
<1>2. h.head \in Nat BY DEF Good, Solid, Shape
<1>3. R \subseteq 1..h.head /\ \A n \in R : n <= limit BY DEF Rows
<1> HIDE DEF R
<1>4. /\ rows \subseteq R /\ \A i \in R, n \in rows : i <= n => i \in rows
      /\ rows # R => Cardinality(rows) = PageLimit
  BY <1>1, <1>2, <1>3, PageRows
<1>5. Cardinality(rows) = PageLimit => rows # {}
  <2>1. Cardinality({}) = 0 BY FS_EmptySet
  <2>2. PageLimit \in Nat /\ PageLimit > 0 BY PageLimitAssumption
  <2> QED BY <2>1, <2>2
<1>6. more => last \in Nat /\ limit # 0
  <2>1. more => last \in rows /\ last \in 1..h.head BY <1>1, <1>3, <1>4, <1>5
  <2> QED BY <1>2, <2>1
<1>7. b \in Nat BY <1>6
<1>8. ASSUME NEW n \in R \ rows PROVE n > b
  <2>1. rows # R BY <1>8
  <2>2. Cardinality(rows) = PageLimit /\ rows # {} BY <1>4, <1>5, <2>1
  <2>3. last \in rows /\ ~(n <= last) BY <1>1, <1>4, <1>8, <2>2
  <2>4. n \in 1..h.head /\ last \in 1..h.head BY <1>3, <1>4, <1>8, <2>3
  <2>5. n \in Nat /\ last \in Nat /\ n > last BY <1>2, <2>3, <2>4
  <2>6. CASE more BY <2>5, <2>6
  <2>7. CASE ~more
    <3>1. ~(last < limit) BY <2>2, <2>7
    <3> QED BY <1>3, <1>8, <2>5, <2>7, <3>1
  <2> QED BY <2>6, <2>7
<1>9. \/ more /\ q = "changes" /\ a = b /\ l = limit /\ limit # 0
      \/ q = "journal" /\ l = 0 /\ b = limit
  BY <1>6
<1> HIDE DEF todo, q, a, l, b, more
<1>10. /\ t.through = limit /\ t.todo = todo /\ t.pulled = s.pulled /\ t.pushed = s.pushed /\ t.requested = s.requested /\ t.ok = s.ok
       /\ DOMAIN t = DOMAIN s /\ "pc" \in DOMAIN s /\ "after" \in DOMAIN s /\ "upper" \in DOMAIN s
  BY ONLY <1>1, Session(s) DEF Session
<1>11. /\ u.through = t.through /\ u.todo = t.todo /\ u.pulled = t.pulled /\ u.pushed = t.pushed /\ u.requested = t.requested
       /\ u.ok = t.ok /\ u.pc = q /\ u.after = a /\ u.upper = l
  BY ONLY <1>1, <1>10
<1>12. \/ u.pc = "changes" /\ u.after = b /\ u.upper = limit /\ limit # 0
       \/ u.pc = "journal" /\ u.upper = 0 /\ b = limit
  BY <1>9, <1>11
<1>13. \E i \in Nat : /\ \A n \in R \ rows : n > i
                      /\ \/ u.pc = "changes" /\ u.after = i /\ u.upper = limit /\ limit # 0
                         \/ u.pc = "journal" /\ u.upper = 0 /\ i = limit
  BY <1>7, <1>8, <1>12
<1> QED BY <1>4, <1>10, <1>11, <1>13 DEF R, todo

LEMMA PagesOn ==
  ASSUME NEW h, Good(h), NEW x, Good(x), x.id # Host, NEW s, NEW k, NEW m, Client(h, x, s, k, m), NEW rs, Confirms(h, x, s, k, rs),
         NEW limit, NEW rows, NEW last, NEW t, NEW u, PageOf(h, s, limit, rows, last, t, u)
  PROVE  Confirms(h, x, u, k, rs)
<1>1. /\ Session(s) /\ Cursor(k) /\ h.head \in Nat /\ x.head \in Nat /\ x.head <= h.head
      /\ \A n \in 1..x.head : x.journal[n] = h.journal[n]
  BY DEF Client, Follows, Good, Solid, Shape
<1>2. /\ s.pc \in {"changes", "rescan"} /\ limit = IF s.upper = 0 THEN h.head ELSE s.upper
  BY DEF PageOf
<1>3. /\ limit \in Nat /\ s.after \in Nat /\ s.pulled \in Nat /\ s.upper \in Nat /\ k.pulled \in Nat /\ k.pushed \in Nat
      /\ s.pushed \in Nat
  BY <1>1, <1>2 DEF Session, Cursor
<1>4. Listed(h, x, s, k, rs) /\ s.pulled = k.pulled /\ k.pulled <= h.head /\ (\A n \in 1..k.pulled : Caught(h, x, n)) /\ ~s.ok
  BY <1>2 DEF Confirms, Listed, Closed
<1>5. ASSUME NEW p, NEW n \in 1..limit, limit <= h.head, h.journal[n].path = p
      PROVE  /\ LatestUpTo(h, p, limit) \in 1..h.head /\ LatestUpTo(h, p, limit) <= limit
             /\ h.journal[LatestUpTo(h, p, limit)].path = p /\ n <= LatestUpTo(h, p, limit)
  <2>1. n \in 1..h.head /\ n <= limit BY <1>1, <1>3, <1>5
  <2> QED BY <1>1, <1>3, <1>5, <2>1, LatestFacts
<1>6. Lists(h, x, s, rs, limit, s.after) /\ x.head <= limit /\ limit <= h.head /\ UpTo(s.todo, limit)
  <2>1. CASE s.upper = 0
    <3>1. s.after = s.pulled /\ s.todo = {} /\ limit = h.head BY <1>2, <1>4, <2>1 DEF Listed
    <3>2. limit <= h.head BY <1>1, <3>1
    <3>3. ASSUME NEW n \in 1..limit
          PROVE  Caught(h, x, n) \/ LatestUpTo(h, h.journal[n].path, limit) > s.after
      <4>1. CASE n <= k.pulled BY <1>3, <1>4, <4>1
      <4>2. CASE ~(n <= k.pulled)
        <5> DEFINE l == LatestUpTo(h, h.journal[n].path, limit)
        <5>1. l \in 1..h.head /\ n <= l BY <1>5, <3>2
        <5> HIDE DEF l
        <5>2. l \in Nat BY <1>1, <5>1
        <5>3. l > s.after BY <1>3, <1>4, <3>1, <4>2, <5>1, <5>2
        <5> QED BY <5>3 DEF l
      <4> QED BY <4>1, <4>2
    <3>4. Brings(h, x, s.todo, limit, s.after) BY <3>1, <3>2, <3>3 DEF Brings
    <3>5. Settled(h, x, s.pushed, limit)
      <4>1. s.pushed <= k.pushed /\ \A p \in DOMAIN x.entries : x.entries[p].seq <= k.pushed => Decided(h, p, x.entries[p])
        BY <1>2 DEF Client, Pushes
      <4>2. \A p \in DOMAIN x.entries : x.entries[p].seq \in Nat BY DEF Good, Solid, Entry
      <4>3. \A n \in 1..h.head : n <= limit BY <3>1
      <4> SUFFICES ASSUME NEW p \in DOMAIN x.entries, x.entries[p].seq <= s.pushed
                   PROVE  \E n \in 1..h.head : /\ n <= limit /\ h.journal[n].path = p /\ Covers(h.journal[n].clock, x.entries[p].clock)
                                               /\ x.entries[p].body = Directory => h.journal[n].body = Directory
        BY DEF Settled
      <4>4. Decided(h, p, x.entries[p]) BY <1>3, <4>1, <4>2
      <4> QED BY <4>3, <4>4 DEF Decided
    <3>6. UpTo(s.todo, limit) /\ Ahead(x, s.todo, rs) BY <3>1 DEF UpTo, Ahead
    <3>7. s.pulled <= limit /\ x.head <= limit BY <1>1, <1>4, <3>1
    <3> QED BY <3>2, <3>4, <3>5, <3>6, <3>7 DEF Lists
  <2>2. CASE s.upper # 0
    <3>1. s.pc = "changes" BY <1>2, <1>4, <2>2 DEF Listed
    <3>2. Lists(h, x, s, rs, s.upper, s.after) /\ x.head <= s.upper /\ UpTo(s.todo, s.upper) BY <1>4, <2>2, <3>1 DEF Listed
    <3> QED BY <1>2, <2>2, <3>2 DEF Lists, Brings
  <2> QED BY <2>1, <2>2
<1>7. /\ rows \subseteq Rows(h, s.after, limit)
      /\ u.pulled = s.pulled /\ u.pushed = s.pushed /\ u.through = limit /\ u.ok = s.ok
      /\ u.todo = s.todo \union {projected(h, n) : n \in rows}
  BY <1>1, <1>3, PageSession
<1>8. PICK b \in Nat : /\ \A n \in Rows(h, s.after, limit) \ rows : n > b
                       /\ \/ u.pc = "changes" /\ u.after = b /\ u.upper = limit /\ limit # 0
                          \/ u.pc = "journal" /\ u.upper = 0 /\ b = limit
  BY <1>1, <1>3, PageSession
<1>9. ASSUME NEW n \in rows
      PROVE  LET e == projected(h, n)
             IN /\ n \in Nat /\ n <= limit /\ e.path = h.journal[n].path /\ e.rev = n /\ Newest(h, e, limit)
                /\ LatestUpTo(h, e.path, limit) = n
  <2> DEFINE e == projected(h, n)
  <2>1. n \in 1..h.head /\ n <= limit /\ LatestUpTo(h, h.journal[n].path, limit) = n BY <1>7 DEF Rows
  <2>2. e.path = h.journal[n].path /\ e.rev = n BY <2>1, ProjectedFacts DEF Good
  <2> HIDE DEF e
  <2>3. \A j \in 1..limit : h.journal[j].path = e.path => j <= e.rev BY <1>5, <1>6, <2>1, <2>2
  <2>4. Newest(h, e, limit) BY <2>1, <2>2, <2>3 DEF Newest
  <2> QED BY <1>1, <2>1, <2>2, <2>4 DEF e
<1> DEFINE new == {projected(h, n) : n \in rows}
<1>10. ASSUME NEW e \in new PROVE e.rev \in rows /\ e = projected(h, e.rev) BY <1>9
<1>11. \A e \in s.todo : Own(e.path) => /\ Newest(h, e, limit) /\ e = projected(h, e.rev) /\ e.rev <= limit
                                        /\ e.rev \in 1..limit
  <2> SUFFICES ASSUME NEW e \in s.todo, Own(e.path)
               PROVE  Newest(h, e, limit) /\ e = projected(h, e.rev) /\ e.rev <= limit /\ e.rev \in 1..limit
    OBVIOUS
  <2>1. Newest(h, e, limit) /\ e = projected(h, e.rev) /\ e.rev <= limit BY <1>6 DEF Lists, Brings, UpTo
  <2> QED BY <1>1, <1>3, <2>1 DEF Newest
<1> HIDE DEF new
<1>12. u.todo = s.todo \union new BY <1>7 DEF new
<1>13. ASSUME NEW e \in s.todo, NEW f \in new, Own(e.path), e.path = f.path PROVE e = f
  <2>1. Newest(h, e, limit) /\ e = projected(h, e.rev) /\ e.rev \in 1..limit BY <1>11, <1>13
  <2>2. f.rev \in rows /\ f = projected(h, f.rev) BY <1>10
  <2>3. h.journal[f.rev].path = f.path /\ LatestUpTo(h, f.path, limit) = f.rev /\ f.rev \in Nat /\ f.rev <= limit /\ f.rev \in 1..h.head
    BY <1>7, <1>9, <2>2 DEF Rows
  <2>4. h.journal[e.rev].path = e.path BY <2>1, ProjectedFacts DEF Newest, Good
  <2>5. e.rev <= f.rev BY <1>5, <1>6, <1>13, <2>1, <2>3, <2>4
  <2>6. f.rev <= e.rev
    <3>1. f.rev \in 1..limit BY <1>3, <2>3
    <3> QED BY <1>13, <2>1, <2>3, <3>1 DEF Newest
  <2>7. e.rev \in Nat BY <1>3, <2>1
  <2> QED BY <2>1, <2>2, <2>3, <2>5, <2>6, <2>7
<1>14. ASSUME NEW e \in new, NEW f \in new, e.path = f.path PROVE e = f
  <2>1. e.rev \in rows /\ e = projected(h, e.rev) /\ f.rev \in rows /\ f = projected(h, f.rev) BY <1>10
  <2>2. LatestUpTo(h, e.path, limit) = e.rev /\ LatestUpTo(h, f.path, limit) = f.rev BY <1>9, <2>1
  <2> QED BY <1>14, <2>1, <2>2
<1>15. ASSUME NEW n \in 1..limit
       PROVE  Caught(h, x, n) \/ (\E e \in u.todo : e.path = h.journal[n].path) \/ LatestUpTo(h, h.journal[n].path, limit) > b
  <2> DEFINE l == LatestUpTo(h, h.journal[n].path, limit)
  <2>1. l \in 1..h.head /\ l <= limit /\ h.journal[l].path = h.journal[n].path BY <1>5, <1>6
  <2>2. LatestUpTo(h, h.journal[l].path, limit) = l BY <2>1
  <2>3. Caught(h, x, n) \/ (\E e \in s.todo : e.path = h.journal[n].path) \/ l > s.after BY <1>6 DEF Lists, Brings
  <2> HIDE DEF l
  <2>4. ASSUME l > s.after PROVE (\E e \in u.todo : e.path = h.journal[n].path) \/ l > b
    <3>1. l \in Rows(h, s.after, limit)
      <4>1. s.after < l BY <1>1, <1>3, <2>1, <2>4
      <4> QED BY <2>1, <2>2, <4>1 DEF Rows
    <3>2. CASE l \in rows
      <4> DEFINE e == projected(h, l)
      <4>1. e \in u.todo /\ e.path = h.journal[n].path BY <1>9, <1>12, <2>1, <3>2 DEF new
      <4> HIDE DEF e
      <4> QED BY <4>1
    <3>3. CASE l \notin rows BY <1>8, <3>1, <3>3
    <3> QED BY <3>2, <3>3
  <2> QED BY <1>12, <2>3, <2>4 DEF l
<1>16. Brings(h, x, u.todo, limit, b)
  <2>1. \A e \in u.todo : Own(e.path) => Newest(h, e, limit) /\ e = projected(h, e.rev)
    <3>1. \A e \in new : Newest(h, e, limit) /\ e = projected(h, e.rev) BY <1>9, <1>10
    <3> QED BY <1>11, <1>12, <3>1
  <2>2. \A e, f \in u.todo : Own(e.path) /\ e.path = f.path => e = f
    <3>1. \A e, f \in s.todo : Own(e.path) /\ e.path = f.path => e = f BY <1>6 DEF Lists, Brings
    <3> SUFFICES ASSUME NEW e \in u.todo, NEW f \in u.todo, Own(e.path), e.path = f.path PROVE e = f OBVIOUS
    <3>2. CASE e \in s.todo /\ f \in s.todo BY <3>1, <3>2
    <3>3. CASE e \in s.todo /\ f \in new BY <1>13, <3>3
    <3>4. CASE e \in new /\ f \in s.todo BY <1>13, <3>4
    <3>5. CASE e \in new /\ f \in new BY <1>14, <3>5
    <3> QED BY <1>12, <3>2, <3>3, <3>4, <3>5
  <2> QED BY <1>6, <1>15, <2>1, <2>2 DEF Brings
<1>17. Ahead(x, u.todo, rs)
  <2>1. ASSUME NEW e \in new, Own(e.path) PROVE Stands(x, e.path) <= e.rev
    <3>1. e.rev \in rows /\ e = projected(h, e.rev) BY <1>10
    <3>2. e.rev \in Nat /\ LatestUpTo(h, e.path, limit) = e.rev BY <1>9, <3>1
    <3>3. Stands(x, e.path) \in Nat BY StandsFacts
    <3>4. CASE Stands(x, e.path) = 0 BY <3>2, <3>3, <3>4
    <3>5. CASE Stands(x, e.path) # 0
      <4>1. Stands(x, e.path) \in 1..x.head /\ x.journal[Stands(x, e.path)].path = e.path BY <3>5, StandsFacts
      <4>2. Stands(x, e.path) \in 1..limit BY <1>1, <1>3, <1>6, <4>1
      <4>3. h.journal[Stands(x, e.path)].path = e.path BY <1>1, <4>1
      <4> QED BY <1>5, <1>6, <3>2, <4>2, <4>3
    <3> QED BY <3>4, <3>5
  <2>2. Ahead(x, s.todo, rs) BY <1>6 DEF Lists
  <2> QED BY <1>12, <2>1, <2>2 DEF Ahead
<1>18. UpTo(u.todo, limit)
  <2>1. \A e \in new : e.rev <= limit BY <1>9, <1>10
  <2> QED BY <1>6, <1>12, <2>1 DEF UpTo
<1>19. Lists(h, x, u, rs, limit, b) BY <1>6, <1>7, <1>16, <1>17 DEF Lists
<1>20. Listed(h, x, u, k, rs)
  <2>1. CASE u.pc = "changes" /\ u.after = b /\ u.upper = limit /\ limit # 0
    BY <1>4, <1>6, <1>7, <1>18, <1>19, <2>1 DEF Listed
  <2>2. CASE u.pc = "journal" /\ u.upper = 0 /\ b = limit
    BY <1>4, <1>6, <1>7, <1>18, <1>19, <2>2 DEF Listed
  <2> QED BY <1>8, <2>1, <2>2
<1>21. Closed(x, u, k) BY <1>4, <1>7, <1>8 DEF Closed
<1> QED BY <1>20, <1>21 DEF Confirms

-----------------------------------------------------------------------------
(* The records are those of x, the journal is longer. *)
LEMMA SameRecords ==
  ASSUME NEW h, NEW x, NEW y, y.entries = x.entries
  PROVE  /\ \A p : entry(y, p) = entry(x, p) /\ Stands(y, p) = Stands(x, p)
         /\ \A n : Caught(h, x, n) => Caught(h, y, n)
         /\ \A rs : Asked(h, x, rs) => Asked(h, y, rs)
         /\ \A todo, bound, after : Brings(h, x, todo, bound, after) => Brings(h, y, todo, bound, after)
         /\ \A todo, rs : Ahead(x, todo, rs) => Ahead(y, todo, rs)
         /\ \A pushed, bound : Settled(h, x, pushed, bound) => Settled(h, y, pushed, bound)
<1>1. \A p : entry(y, p) = entry(x, p) BY DEF entry
<1>2. \A p : Stands(y, p) = Stands(x, p) BY <1>1 DEF Stands
<1>3. \A n : Caught(h, x, n) => Caught(h, y, n) BY <1>2 DEF Caught
<1>4. \A rs : Asked(h, x, rs) => Asked(h, y, rs) BY <1>2 DEF Asked
<1>5. \A todo, bound, after : Brings(h, x, todo, bound, after) => Brings(h, y, todo, bound, after) BY <1>3 DEF Brings
<1>6. \A todo, rs : Ahead(x, todo, rs) => Ahead(y, todo, rs) BY <1>1, <1>2 DEF Ahead
<1>7. \A pushed, bound : Settled(h, x, pushed, bound) => Settled(h, y, pushed, bound) BY DEF Settled
<1> QED BY <1>1, <1>2, <1>3, <1>4, <1>5, <1>6, <1>7

(* Two revisions of an original are two versions. *)
LEMMA OneVersion ==
  ASSUME NEW h, Good(h), Rises(h), NEW m \in 1..h.head, NEW n \in 1..h.head, Version(h.journal[m]) = Version(h.journal[n]),
         Own(h.journal[m].path)
  PROVE  m = n
<1>1. /\ h.journal[m].path = h.journal[n].path /\ h.journal[m].body = h.journal[n].body
      /\ h.journal[m].clock = h.journal[n].clock /\ h.journal[m].clock \in Clock
  BY DEF Version, Good, Solid
<1>2. h.head \in Nat BY DEF Good, Solid, Shape
<1>3. \A i, j \in 1..h.head : i < j /\ h.journal[i].path = h.journal[j].path /\ Own(h.journal[j].path)
                                => Later(h.journal[i], h.journal[j])
  BY DEF Rises
<1>4. ~Later(h.journal[m], h.journal[n]) /\ ~Later(h.journal[n], h.journal[m])
  BY <1>1, DominatesFacts, CoversItself DEF Later
<1>5. ~(m < n) /\ ~(n < m) BY <1>1, <1>3, <1>4
<1> QED BY <1>2, <1>5

LEMMA HistoryGoesOnOn ==
  ASSUME NEW h, NEW x, NEW s, Session(s), NEW k, NEW rs, Confirms(h, x, s, k, rs), s.pc = "journal",
         NEW y, y.entries = x.entries, NEW limit, s.upper # 0 => s.upper = limit, s.upper = 0 => limit = h.head,
         NEW t, t = [s EXCEPT !.upper = limit]
  PROVE  Confirms(h, y, t, k, rs)
<1>1. /\ t.pc = "journal" /\ t.pulled = s.pulled /\ t.pushed = s.pushed /\ t.upper = limit /\ t.through = s.through
      /\ t.todo = s.todo /\ t.ok = s.ok
  BY ONLY t = [s EXCEPT !.upper = limit], Session(s), s.pc = "journal" DEF Session
<1>2. Lists(h, x, s, rs, s.through, s.through) /\ UpTo(s.todo, s.through) /\ (s.upper # 0 => s.through <= s.upper)
  BY DEF Confirms, Listed
<1>3. Lists(h, y, t, rs, t.through, t.through) BY <1>1, <1>2, SameRecords DEF Lists
<1>4. t.through <= t.upper BY <1>1, <1>2 DEF Lists, Brings
<1>5. Listed(h, y, t, k, rs) BY <1>1, <1>2, <1>3, <1>4 DEF Confirms, Listed
<1>6. Closed(y, t, k) BY <1>1 DEF Confirms, Closed
<1>7. k.pulled <= h.head /\ (\A n \in 1..k.pulled : Caught(h, y, n)) /\ Asked(h, y, rs)
  BY SameRecords DEF Confirms
<1> QED BY <1>5, <1>6, <1>7 DEF Confirms

LEMMA HistoryDoneOn ==
  ASSUME NEW h, Good(h), Rises(h), NEW x, NEW s, Session(s), NEW k, NEW rs, Confirms(h, x, s, k, rs),
         s.pc = "journal", NEW y, Good(y), y.id # Host, y.entries = x.entries, y.head <= h.head,
         \A n \in 1..y.head : y.journal[n] = h.journal[n],
         s.upper # 0 => s.upper = y.head, s.upper = 0 => y.head = h.head,
         NEW kept, kept \subseteq rs, \A r \in kept : valid(y, r),
         NEW paths, paths = {r[1] : r \in kept}, NEW extra,
         \A e \in extra : /\ e = projected(y, object(y, e.path)) /\ e.path \in paths /\ \A f \in s.todo : f.path # e.path,
         NEW t, t = [s EXCEPT !.pc = "announce", !.upper = 0, !.requested = paths, !.todo = s.todo \union extra]
  PROVE  Confirms(h, y, t, k, kept)
<1>1. /\ t.pc = "announce" /\ t.pulled = s.pulled /\ t.pushed = s.pushed /\ t.through = s.through
      /\ t.todo = s.todo \union extra /\ t.ok = s.ok /\ t.requested = paths
  BY ONLY t = [s EXCEPT !.pc = "announce", !.upper = 0, !.requested = paths, !.todo = s.todo \union extra],
          Session(s), s.pc = "journal" DEF Session
<1>2. /\ s.pulled = k.pulled /\ Lists(h, x, s, rs, s.through, s.through) /\ UpTo(s.todo, s.through)
      /\ (s.upper # 0 => s.through <= s.upper) /\ ~s.ok
  BY DEF Confirms, Listed, Closed
<1>3. /\ s.pulled <= s.through /\ Brings(h, y, s.todo, s.through, s.through) /\ Ahead(y, s.todo, rs)
      /\ Settled(h, y, s.pushed, s.through)
  BY <1>2, SameRecords DEF Lists
<1>4. s.through <= y.head BY <1>2, <1>3 DEF Brings
<1>5. h.head \in Nat /\ y.head \in Nat /\ s.through \in Nat /\ Solid(y) /\ Solid(h)
  BY DEF Good, Solid, Shape, Session
<1>6. ASSUME NEW p PROVE /\ object(y, p) # 0 => object(y, p) \in 1..y.head /\ y.journal[object(y, p)].path = p
                         /\ \A n \in 1..y.head : y.journal[n].path = p => n <= object(y, p) /\ object(y, p) # 0
  <2>1. \A n \in 1..y.head : n <= y.head BY <1>5
  <2> QED BY <1>5, <2>1, LatestFacts DEF object
<1>7. \A n \in 1..y.head : n \in 1..h.head BY <1>5
<1>8. ASSUME NEW p \in paths
      PROVE  /\ object(y, p) \in 1..y.head /\ object(y, p) \in Nat /\ h.journal[object(y, p)] = y.journal[object(y, p)]
             /\ y.journal[object(y, p)].path = p
             /\ Own(p) => object(y, p) <= Stands(y, p)
  <2>1. PICK r \in kept : p = r[1] OBVIOUS
  <2>2. object(y, p) # 0 /\ Version(y.journal[object(y, p)]) = r[2] BY <2>1 DEF valid
  <2> DEFINE l == object(y, p)
  <2>3. l \in 1..y.head /\ y.journal[l].path = p BY <1>6, <2>2
  <2>4. l \in 1..h.head /\ h.journal[l] = y.journal[l] /\ l \in Nat BY <1>5, <1>7, <2>3
  <2>5. ASSUME Own(p) PROVE l <= Stands(y, p)
    <3>1. PICK n \in 1..h.head : Version(h.journal[n]) = r[2] /\ h.journal[n].path = p /\ n <= Stands(x, p)
      BY <2>1, <2>5 DEF Confirms, Asked
    <3> HIDE DEF l
    <3>2. Version(h.journal[n]) = Version(h.journal[l]) BY <2>2, <2>4, <3>1 DEF l
    <3>3. n = l BY <2>4, <2>5, <3>1, <3>2, OneVersion
    <3> QED BY <3>1, <3>3, SameRecords
  <2> QED BY <2>3, <2>4, <2>5
<1>9. ASSUME NEW e \in extra
      PROVE  e.path \in paths /\ e.rev = object(y, e.path) /\ e = projected(h, e.rev) /\ e.rev \in 1..y.head
  <2>1. e.path \in paths /\ e = projected(y, object(y, e.path)) OBVIOUS
  <2>2. object(y, e.path) \in 1..y.head /\ h.journal[object(y, e.path)] = y.journal[object(y, e.path)] BY <1>8, <2>1
  <2>3. e.rev = object(y, e.path) BY <1>5, <2>1, <2>2, ProjectedFacts
  <2>4. projected(h, e.rev) = projected(y, e.rev) BY <2>2, <2>3, ProjectedOn
  <2> QED BY <2>1, <2>2, <2>3, <2>4
<1>10. Brings(h, y, t.todo, s.through, s.through)
  <2>1. \A e \in extra : Newest(h, e, s.through)
    <3> SUFFICES ASSUME NEW e \in extra, NEW n \in 1..s.through, h.journal[n].path = e.path PROVE n <= e.rev
      BY <1>7, <1>9 DEF Newest
    <3>1. n \in 1..y.head BY <1>4, <1>5
    <3> QED BY <1>6, <1>9, <3>1
  <2>2. \A e, f \in t.todo : Own(e.path) /\ e.path = f.path => e = f
    <3>1. \A e, f \in s.todo : Own(e.path) /\ e.path = f.path => e = f BY <1>3 DEF Brings
    <3>2. \A e, f \in extra : e.path = f.path => e = f OBVIOUS
    <3>3. \A e \in extra, f \in s.todo : e.path # f.path OBVIOUS
    <3> QED BY <1>1, <3>1, <3>2, <3>3
  <2>3. \A e \in t.todo : Own(e.path) => Newest(h, e, s.through) /\ e = projected(h, e.rev)
    BY <1>1, <1>3, <1>9, <2>1 DEF Brings
  <2>4. \A n \in 1..s.through : \/ Caught(h, y, n)
                                \/ \E e \in t.todo : e.path = h.journal[n].path
                                \/ LatestUpTo(h, h.journal[n].path, s.through) > s.through
    BY <1>1, <1>3 DEF Brings
  <2> QED BY <1>3, <2>2, <2>3, <2>4 DEF Brings
<1>11. Ahead(y, t.todo, kept)
  <2>1. \A e \in extra : Stands(y, e.path) <= e.rev
    <3> SUFFICES ASSUME NEW e \in extra PROVE Stands(y, e.path) <= e.rev OBVIOUS
    <3>1. Stands(y, e.path) = 0 \/ Stands(y, e.path) <= object(y, e.path) BY StandsFacts
    <3>2. e.rev = object(y, e.path) /\ e.rev \in Nat BY <1>5, <1>9
    <3> QED BY <3>1, <3>2
  <2>2. Ahead(y, s.todo, kept) BY <1>3 DEF Ahead
  <2> QED BY <1>1, <2>1, <2>2 DEF Ahead
<1>12. \A e \in t.todo : Own(e.path) /\ e.path \in paths => e.rev <= Stands(y, e.path)
  <2> SUFFICES ASSUME NEW e \in t.todo, Own(e.path), e.path \in paths PROVE e.rev <= Stands(y, e.path)
    OBVIOUS
  <2>1. object(y, e.path) \in Nat /\ object(y, e.path) <= Stands(y, e.path) BY <1>8
  <2>2. CASE e \in extra BY <1>9, <2>1, <2>2
  <2>3. CASE e \in s.todo
    <3>1. Newest(h, e, s.through) /\ e = projected(h, e.rev) /\ e.rev <= s.through BY <1>2, <1>3, <2>3 DEF Brings, UpTo
    <3>2. e.rev \in 1..h.head BY <3>1 DEF Newest
    <3>3. h.journal[e.rev].path = e.path BY <1>5, <3>1, <3>2, ProjectedFacts
    <3>4. e.rev \in 1..y.head BY <1>4, <1>5, <3>1, <3>2
    <3>5. e.rev <= object(y, e.path) BY <1>6, <3>3, <3>4
    <3>6. e.rev \in Nat /\ Stands(y, e.path) \in Nat BY <1>5, <3>2, StandsFacts
    <3> QED BY <2>1, <3>5, <3>6
  <2> QED BY <1>1, <2>2, <2>3
<1>13. Lists(h, y, t, kept, t.through, t.through) BY <1>1, <1>3, <1>10, <1>11 DEF Lists
<1>14. Listed(h, y, t, k, kept) BY <1>1, <1>2, <1>12, <1>13 DEF Listed
<1>15. Closed(y, t, k) BY <1>1, <1>2 DEF Closed
<1>16. k.pulled <= h.head /\ (\A n \in 1..k.pulled : Caught(h, y, n)) /\ Asked(h, y, rs)
  BY SameRecords DEF Confirms
<1>17. Asked(h, y, kept) BY <1>16 DEF Asked
<1> QED BY <1>14, <1>15, <1>16, <1>17 DEF Confirms

-----------------------------------------------------------------------------
(* What a mirror announces is known, and goes beyond what it was made on. *)
LEMMA OffersNew ==
  ASSUME NEW h, Good(h), NEW x, Good(x), x.head <= h.head, \A n \in 1..x.head : x.journal[n] = h.journal[n],
         NEW W, Sound(W, x), NEW pushed, NEW m, m.members = proposals(x, pushed)
  PROVE  Offered(h, W, m)
<1>1. \A e \in proposals(x, pushed) :
        \E p \in DOMAIN x.entries : /\ e.path = p /\ e.body = x.entries[p].body /\ e.clock = x.entries[p].clock
                                    /\ e.base = x.entries[p].base /\ x.entries[p].rev = 0
  BY DEF proposals
<1> SUFFICES ASSUME NEW e \in proposals(x, pushed)
             PROVE  /\ Based(h, e.path, e.base) /\ Known(W, e.path, e.clock)
                    /\ Own(e.path) => Fresh(h, e)
  BY DEF Offered
<1>2. PICK p \in DOMAIN x.entries : /\ e.path = p /\ e.body = x.entries[p].body /\ e.clock = x.entries[p].clock
                                    /\ e.base = x.entries[p].base /\ x.entries[p].rev = 0
  BY <1>1
<1>3. Based(h, e.path, e.base) BY ProposalFacts
<1>4. Known(W, e.path, e.clock) BY <1>2 DEF Sound, Within
<1>5. ASSUME Own(e.path) PROVE Fresh(h, e)
  <2>1. Fresh(x, x.entries[p]) /\ Based(x, p, x.entries[p].base) BY <1>2, <1>5 DEF Sound, Rooted, Good, Solid
  <2>2. e.base # 0 => h.journal[e.base] = x.journal[e.base] BY <1>2, <2>1 DEF Based
  <2> QED BY <1>2, <2>1, <2>2 DEF Fresh
<1> QED BY <1>3, <1>4, <1>5

(* A decision the mirror has caught up with leaves no proposal that it decides. *)
LEMMA Answered ==
  ASSUME NEW h, Good(h), Rises(h), NEW x, Good(x), x.id # Host, x.head <= h.head,
         \A n \in 1..x.head : x.journal[n] = h.journal[n], Rooted(x), NEW p \in DOMAIN x.entries, Own(p),
         x.entries[p].rev = 0, NEW n \in 1..h.head, h.journal[n].path = p,
         Covers(h.journal[n].clock, x.entries[p].clock),
         x.entries[p].body = Directory => h.journal[n].body = Directory, Caught(h, x, n)
  PROVE  FALSE
<1> DEFINE e == x.entries[p]
           b == x.entries[p].base
<1>1. Fresh(x, e) /\ Based(x, p, b) /\ e \in Entry(p) BY DEF Rooted, Good, Solid
<1>2. n <= b BY StandsFacts DEF Caught, Stands
<1>3. h.head \in Nat /\ x.head \in Nat BY DEF Good, Solid, Shape
<1>4. b \in Nat /\ e.clock \in Clock /\ e.base = b BY <1>1 DEF Entry
<1>5. b # 0 BY <1>2, <1>3, <1>4
<1> HIDE DEF b
<1>6. b \in 1..x.head /\ x.journal[b].path = p BY <1>1, <1>5 DEF Based
<1>7. b \in 1..h.head /\ h.journal[b] = x.journal[b] BY <1>3, <1>6
<1>8. h.journal[n].clock \in Clock /\ h.journal[b].clock \in Clock BY <1>7 DEF Good, Solid
<1>9. /\ Covers(h.journal[b].clock, h.journal[n].clock)
      /\ n # b => Later(h.journal[n], h.journal[b])
  BY <1>2, <1>6, <1>7, RisesFacts
<1>10. Covers(h.journal[n].clock, e.clock) /\ (e.body = Directory => h.journal[n].body = Directory) OBVIOUS
<1> HIDE DEF e
<1>11. Covers(h.journal[b].clock, e.clock) BY <1>4, <1>8, <1>9, <1>10, CoversTrans
<1>12. e.clock = h.journal[b].clock /\ e.body = Directory /\ h.journal[b].body # Directory
  BY <1>1, <1>4, <1>5, <1>7, <1>11 DEF Fresh
<1>13. n # b BY <1>10, <1>12
<1>14. Covers(h.journal[n].clock, h.journal[b].clock) BY <1>10, <1>12
<1>15. ~Dominates(h.journal[b].clock, h.journal[n].clock) BY <1>8, <1>14, DominatesFacts
<1> QED BY <1>9, <1>12, <1>13, <1>15 DEF Later

LEMMA AnnouncesOn ==
  ASSUME NEW h, Good(h), Rises(h), NEW x, Good(x), x.id # Host, NEW W, Sound(W, x), NEW s, NEW k, NEW m,
         Client(h, x, s, k, m), NEW rs, Confirms(h, x, s, k, rs),
         NEW out, NEW keep, NEW t, NEW n, NEW u, AnnouncementOf(x, s, m, out, keep, t, n, u)
  PROVE  Confirms(h, x, u, k, rs)
<1>1. /\ Session(s) /\ Cursor(k) /\ h.head \in Nat /\ x.head \in Nat /\ x.seq \in Nat /\ x.head <= h.head /\ k.pushed <= x.seq
      /\ \A i \in 1..x.head : x.journal[i] = h.journal[i]
  BY DEF Client, Follows, Pushes, Good, Solid, Shape
<1>2. /\ out = proposals(x, s.pushed) /\ t = [s EXCEPT !.outgoing = out, !.pushThrough = x.seq, !.acknowledged = keep]
      /\ \/ s.pc = "announce" /\ u = [t EXCEPT !.pc = "pull"]
         \/ s.pc = "scan" /\ u = pushing(t, out)
  BY DEF AnnouncementOf
<1>3. /\ t.pulled = s.pulled /\ t.pushed = s.pushed /\ t.through = s.through /\ t.todo = s.todo /\ t.requested = s.requested
      /\ t.early = s.early /\ t.ok = s.ok /\ t.pushThrough = x.seq /\ DOMAIN t = DOMAIN s
  BY ONLY <1>1, <1>2 DEF Session
<1>4. ~s.ok /\ s.pulled = k.pulled BY <1>2 DEF Confirms, Closed, Listed
<1>5. CASE s.pc = "announce" /\ u = [t EXCEPT !.pc = "pull"]
  <2>1. "pc" \in DOMAIN t BY ONLY <1>1, <1>3 DEF Session
  <2>2. /\ u.pc = "pull" /\ u.pulled = s.pulled /\ u.pushed = s.pushed /\ u.through = s.through /\ u.todo = s.todo
        /\ u.requested = s.requested /\ u.ok = s.ok
    BY ONLY <1>3, <1>5, <2>1
  <2>3. Lists(h, x, s, rs, s.through, s.through) BY <1>5 DEF Confirms, Listed
  <2>4. Lists(h, x, u, rs, u.through, u.through) BY <2>2, <2>3 DEF Lists
  <2>5. Listed(h, x, u, k, rs)
    <3>1. \A e \in s.todo : Own(e.path) /\ e.path \in s.requested => e.rev <= Stands(x, e.path)
      BY <1>5 DEF Confirms, Listed
    <3> QED BY <1>4, <2>2, <2>4, <3>1 DEF Listed
  <2>6. Closed(x, u, k) BY <1>4, <2>2 DEF Closed
  <2> QED BY <2>5, <2>6 DEF Confirms
<1>6. CASE s.pc = "scan" /\ u = pushing(t, out)
  <2> DEFINE sent == out # {}
  <2>1. {"pc", "sent", "todo"} \subseteq DOMAIN t BY ONLY <1>1, <1>3 DEF Session
  <2>2. u = [t EXCEPT !.pc = "push", !.todo = out, !.sent = sent] BY <1>6 DEF pushing
  <2> HIDE DEF sent
  <2>3. /\ u.pc = "push" /\ u.pulled = s.pulled /\ u.pushThrough = x.seq /\ u.sent = sent /\ u.ok = s.ok
    BY ONLY <1>3, <2>1, <2>2
  <2>4. ASSUME ~sent PROVE Agrees(x, x.seq)
    <3> SUFFICES ASSUME NEW p \in DOMAIN x.entries, Own(p), x.entries[p].rev = 0 PROVE FALSE
      BY DEF Agrees
    <3>1. x.entries[p].seq \in Nat /\ s.pushed \in Nat BY <1>1 DEF Session, Good, Solid, Entry
    <3>2. ~(x.entries[p].seq > s.pushed) BY <1>1, <1>2, <2>4, ProposalFacts DEF sent
    <3>3. Settled(h, x, s.pushed, s.pulled) BY <1>6 DEF Confirms, Listed
    <3>4. PICK i \in 1..h.head : /\ i <= s.pulled /\ h.journal[i].path = p /\ Covers(h.journal[i].clock, x.entries[p].clock)
                                 /\ x.entries[p].body = Directory => h.journal[i].body = Directory
      BY <3>1, <3>2, <3>3 DEF Settled
    <3>5. i \in 1..k.pulled
      <4>1. k.pulled \in Nat BY <1>1 DEF Cursor
      <4> QED BY <1>1, <1>4, <3>4, <4>1
    <3>6. Caught(h, x, i) BY <3>5 DEF Confirms
    <3> QED BY <1>1, <3>4, <3>6, Answered DEF Sound
  <2>5. Closed(x, u, k) BY <1>1, <1>4, <2>3, <2>4 DEF Closed
  <2>6. Listed(h, x, u, k, rs) BY <1>4, <2>3 DEF Listed
  <2> QED BY <2>5, <2>6 DEF Confirms
<1> QED BY <1>2, <1>5, <1>6

-----------------------------------------------------------------------------
(***************************************************************************)
(* The system.  A step keeps the invariant when each device becomes what   *)
(* it may, no manifest has an unfit member, and each mirror stands well    *)
(* with the authority as it was.                                           *)
(***************************************************************************)
LEMMA Turn ==
  ASSUME IInv, IInv', Confirmed, \A d \in Device : \E R : Leads(d, dev'[d], R),
         \A c \in Clients : \/ manifests'[c].members \subseteq manifests[c].members
                            \/ Offered(host, Marks, manifests'[c]),
         \A c \in Clients : Confirms(host, dev'[c], session'[c], peers'[c], requests'[c])
  PROVE  Confirmed'
<1> DEFINE g == dev'[Host]
<1>1. /\ Extends(host, g) /\ \A d \in Device : Sound(Marks', dev'[d])
      /\ \A c \in Clients : Offered(g, Marks', manifests'[c])
  BY SoundNext
<1>2. Good(host) /\ Good(g) BY DEF IInv, Devices, Device, host
<1> HIDE DEF g
<1>3. ASSUME NEW c \in Clients PROVE Confirms(g, dev'[c], session'[c], peers'[c], requests'[c])
  <2>1. Session(session'[c]) /\ Cursor(peers'[c]) BY DEF IInv, Mirrors, Client
  <2> QED BY <1>1, <1>2, <2>1, AuthorityMovesOn
<1>4. host' = g BY DEF host, g
<1> QED BY <1>1, <1>3, <1>4 DEF Confirmed

(* A step of one mirror c. *)
LEMMA OneTurn ==
  ASSUME IInv, IInv', Confirmed, NEW c \in Clients,
         dev' = dev \/ (\E v : dev' = [dev EXCEPT ![c] = v]) \/ (\E v : dev' = [dev EXCEPT ![Host] = v])
           \/ \E v, w : dev' = [dev EXCEPT ![c] = v, ![Host] = w],
         peers' = peers \/ \E v : peers' = [peers EXCEPT ![c] = v],
         session' = session \/ \E v : session' = [session EXCEPT ![c] = v],
         \/ manifests' = manifests \/ \E v : manifests' = [manifests EXCEPT ![c] = v]
         \/ manifests' = [d \in Clients |-> NoManifest],
         requests' = requests \/ \E v : requests' = [requests EXCEPT ![c] = v],
         \E R : Leads(c, dev'[c], R), \E R : Leads(Host, dev'[Host], R),
         manifests'[c].members \subseteq manifests[c].members \/ Offered(host, Marks, manifests'[c]),
         Confirms(host, dev'[c], session'[c], peers'[c], requests'[c])
  PROVE  Confirmed'
<1>1. /\ dev = [d \in Device |-> dev[d]]
      /\ peers = [d \in Clients |-> peers[d]] /\ session = [d \in Clients |-> session[d]]
      /\ manifests = [d \in Clients |-> manifests[d]] /\ requests = [d \in Clients |-> requests[d]]
  BY DEF IInv, Tables
<1>2. c \in Device /\ Host \in Device /\ c # Host /\ Clients \subseteq Device /\ Host \notin Clients
  BY HostAssumption DEF Device
<1>3. \A d \in Device : d # c /\ d # Host => dev'[d] = dev[d]
  <2>1. CASE dev' = dev BY <2>1
  <2>2. CASE \E v : dev' = [dev EXCEPT ![c] = v] BY <1>1, <1>2, <2>2, Updated
  <2>3. CASE \E v : dev' = [dev EXCEPT ![Host] = v] BY <1>1, <1>2, <2>3, Updated
  <2>4. CASE \E v, w : dev' = [dev EXCEPT ![c] = v, ![Host] = w]
    <3>1. PICK v, w : dev' = [dev EXCEPT ![c] = v, ![Host] = w] BY <2>4
    <3> DEFINE f == [dev EXCEPT ![c] = v]
    <3>2. f = [d \in Device |-> f[d]] /\ \A d \in Device : d # c => f[d] = dev[d] BY <1>1, <1>2, Updated
    <3>3. dev' = [f EXCEPT ![Host] = w] BY <3>1
    <3> HIDE DEF f
    <3>4. \A d \in Device : d # Host => dev'[d] = f[d] BY <1>2, <3>2, <3>3, Updated
    <3> QED BY <3>2, <3>4
  <2> QED BY <2>1, <2>2, <2>3, <2>4
<1>4. \A d \in Clients : d # c => peers'[d] = peers[d] BY <1>1, Updated
<1>5. \A d \in Clients : d # c => session'[d] = session[d] BY <1>1, Updated
<1>6. \A d \in Clients : d # c => requests'[d] = requests[d] BY <1>1, Updated
<1>7. \A d \in Clients : d # c => manifests'[d].members \subseteq manifests[d].members
  <2>1. CASE manifests' = manifests \/ \E v : manifests' = [manifests EXCEPT ![c] = v] BY <1>1, <2>1, Updated
  <2>2. CASE manifests' = [d \in Clients |-> NoManifest] BY <2>2 DEF NoManifest
  <2> QED BY <2>1, <2>2
<1>8. \A d \in Device : \E R : Leads(d, dev'[d], R)
  <2> SUFFICES ASSUME NEW d \in Device PROVE \E R : Leads(d, dev'[d], R) OBVIOUS
  <2>1. CASE d = c BY <2>1
  <2>2. CASE d = Host BY <2>2
  <2>3. CASE d # c /\ d # Host
    <3>1. \A R : Leads(d, dev[d], R) BY LeadsSame DEF SameIndex
    <3> QED BY <1>3, <2>3, <3>1
  <2> QED BY <2>1, <2>2, <2>3
<1>9. \A d \in Clients : Confirms(host, dev'[d], session'[d], peers'[d], requests'[d])
  <2> SUFFICES ASSUME NEW d \in Clients, d # c PROVE Confirms(host, dev'[d], session'[d], peers'[d], requests'[d])
    OBVIOUS
  <2>1. Confirms(host, dev[d], session[d], peers[d], requests[d]) BY DEF Confirmed
  <2> QED BY <1>2, <1>3, <1>4, <1>5, <1>6, <2>1
<1>10. \A d \in Clients : \/ manifests'[d].members \subseteq manifests[d].members
                          \/ Offered(host, Marks, manifests'[d])
  BY <1>7
<1> QED BY <1>8, <1>9, <1>10, Turn

(* What the invariant says of one mirror. *)
LEMMA Concerns ==
  ASSUME IInv, Confirmed, NEW c \in Clients
  PROVE  /\ Confirms(host, dev[c], session[c], peers[c], requests[c]) /\ Sound(Marks, dev[c]) /\ Sound(Marks, host) /\ Rises(host)
         /\ \A R : Leads(c, dev[c], R) /\ Leads(Host, host, R)
<1>1. c \in Device /\ Host \in Device /\ host.id = Host BY About
<1>2. \A R : Leads(c, dev[c], R) BY <1>1, LeadsSame DEF SameIndex
<1>3. \A R : Leads(Host, dev[Host], R) BY <1>1, LeadsSame DEF SameIndex
<1>4. Confirms(host, dev[c], session[c], peers[c], requests[c]) /\ Sound(Marks, dev[c]) /\ Sound(Marks, host)
  BY <1>1 DEF Confirmed, host
<1> QED BY <1>1, <1>2, <1>3, <1>4 DEF host, Sound

(* The session of c, its cursors and its requests change. *)
LEMMA SessionTurn ==
  ASSUME IInv, IInv', Confirmed, NEW c \in Clients, NEW t, To(c, t), UNCHANGED <<dev, manifests>>,
         peers' = peers \/ (\E v : peers' = [peers EXCEPT ![c] = v]),
         requests' = requests \/ (\E v : requests' = [requests EXCEPT ![c] = v]),
         Confirms(host, dev[c], t, peers'[c], requests'[c])
  PROVE  Confirmed'
<1>1. session' = [session EXCEPT ![c] = t] /\ session'[c] = t BY DEF To, IInv, Tables
<1>2. dev' = dev /\ manifests' = manifests /\ dev'[Host] = host BY DEF host
<1>3. (\E R : Leads(c, dev'[c], R)) /\ (\E R : Leads(Host, dev'[Host], R)) BY <1>2, Concerns
<1>4. manifests'[c].members \subseteq manifests[c].members BY <1>2
<1> QED BY <1>1, <1>2, <1>3, <1>4, OneTurn

(* The device and the session of c change. *)
LEMMA MirrorTurn ==
  ASSUME IInv, IInv', Confirmed, NEW c \in Clients, NEW y, Local(c, y), NEW t, To(c, t),
         UNCHANGED <<peers, manifests>>, requests' = requests \/ (\E v : requests' = [requests EXCEPT ![c] = v]),
         NEW R, Leads(c, y, R), Confirms(host, y, t, peers[c], requests'[c])
  PROVE  Confirmed'
<1>1. session' = [session EXCEPT ![c] = t] /\ session'[c] = t BY DEF To, IInv, Tables
<1>2. dev' = [dev EXCEPT ![c] = y] BY DEF Local
<1>3. dev'[c] = y /\ dev'[Host] = host BY <1>2, About DEF IInv, Tables, host
<1>4. peers' = peers /\ manifests' = manifests OBVIOUS
<1>5. (\E Q : Leads(c, dev'[c], Q)) /\ (\E Q : Leads(Host, dev'[Host], Q)) BY <1>3, Concerns
<1>6. manifests'[c].members \subseteq manifests[c].members BY <1>4
<1>7. Confirms(host, dev'[c], session'[c], peers'[c], requests'[c]) BY <1>1, <1>3, <1>4
<1> QED BY <1>1, <1>2, <1>4, <1>5, <1>6, <1>7, OneTurn

(* The authority changes, and the session of c. *)
LEMMA AuthorityTurn ==
  ASSUME IInv, IInv', Confirmed, NEW c \in Clients, NEW g, Local(Host, g),
         session' = session \/ (\E v : session' = [session EXCEPT ![c] = v]), UNCHANGED <<peers, requests>>,
         \/ manifests' = manifests \/ \E v : manifests' = [manifests EXCEPT ![c] = v]
         \/ manifests' = [d \in Clients |-> NoManifest],
         manifests'[c].members \subseteq manifests[c].members,
         \A R : Leads(Host, g, R), Confirms(host, dev[c], session'[c], peers[c], requests[c])
  PROVE  Confirmed'
<1>1. dev' = [dev EXCEPT ![Host] = g] BY DEF Local
<1>2. dev'[c] = dev[c] /\ dev'[Host] = g BY <1>1, About DEF IInv, Tables
<1>3. peers' = peers /\ requests' = requests OBVIOUS
<1>4. (\E R : Leads(c, dev'[c], R)) /\ (\E R : Leads(Host, dev'[Host], R)) BY <1>2, Concerns
<1>5. Confirms(host, dev'[c], session'[c], peers'[c], requests'[c]) BY <1>2, <1>3
<1> QED BY <1>1, <1>3, <1>4, <1>5, OneTurn

-----------------------------------------------------------------------------
(* The steps, one by one. *)
LEMMA FinishTurn ==
  ASSUME IInv, IInv', Confirmed, NEW c \in Clients, Finish(c), UNCHANGED <<dev, peers, manifests, requests>>
  PROVE  Confirmed'
<1> DEFINE t == Inactive(session[c].gen, FALSE)
<1>1. To(c, t) BY DEF Finish
<1>2. Confirms(host, dev[c], t, peers[c], requests[c]) BY Concerns, EndsOn
<1> HIDE DEF t
<1>3. UNCHANGED <<dev, manifests>> /\ peers' = peers /\ requests' = requests OBVIOUS
<1>4. Confirms(host, dev[c], t, peers'[c], requests'[c]) BY <1>2, <1>3
<1> QED BY <1>1, <1>3, <1>4, SessionTurn

LEMMA StartTurn ==
  ASSUME IInv, IInv', Confirmed, NEW c \in Clients, Start(c)
  PROVE  Confirmed'
<1> DEFINE t == [Inactive(session[c].gen, FALSE) EXCEPT
                   !.pc = "rescan", !.pulled = peers[c].pulled, !.pushed = peers[c].pushed, !.after = peers[c].pulled]
<1>1. To(c, t) /\ UNCHANGED <<dev, manifests>> /\ peers' = peers /\ requests' = requests BY DEF Start
<1>2. Confirms(host, dev[c], t, peers[c], requests[c]) BY Concerns, StartsOn
<1> HIDE DEF t
<1>3. Confirms(host, dev[c], t, peers'[c], requests'[c]) BY <1>1, <1>2
<1> QED BY <1>1, <1>3, SessionTurn

LEMMA ChangesPageTurn ==
  ASSUME IInv, IInv', Confirmed, NEW c \in Clients, ChangesPage(c)
  PROVE  Confirmed'
<1> DEFINE s     == session[c]
           limit == IF s.upper = 0 THEN host.head ELSE s.upper
           rows  == firstRows(changes(s.after, limit))
           last  == CHOOSE n \in rows : \A m \in rows : m <= n
           more  == Cardinality(rows) = PageLimit /\ last < limit
           t     == [s EXCEPT !.through = limit, !.todo = @ \union {projected(host, n) : n \in rows}]
           u     == IF more THEN [t EXCEPT !.pc = "changes", !.after = last, !.upper = limit]
                            ELSE [t EXCEPT !.pc = "journal", !.after = 0, !.upper = 0]
<1>1. /\ s.pc \in {"changes", "rescan"} /\ To(c, u)
      /\ UNCHANGED <<dev, manifests>> /\ peers' = peers /\ requests' = requests
  BY DEF ChangesPage
<1>2. rows = firstRows(Rows(host, s.after, limit)) BY DEF changes, Rows
<1>3. rows # {} => last \in rows /\ \A n \in rows : n <= last
  <2>1. host.head \in Nat BY About DEF Good, Solid, Shape
  <2>2. Rows(host, s.after, limit) \subseteq 1..host.head BY DEF Rows
  <2> HIDE DEF rows, limit
  <2>3. rows # {} => \E n \in rows : \A m \in rows : m <= n BY <1>2, <2>1, <2>2, PageRows
  <2> QED BY <2>3
<1>5. u = IF Cardinality(rows) = PageLimit /\ last < limit
            THEN [t EXCEPT !.pc = "changes", !.after = last, !.upper = limit]
            ELSE [t EXCEPT !.pc = "journal", !.after = 0, !.upper = 0]
  OBVIOUS
<1>6. limit = IF s.upper = 0 THEN host.head ELSE s.upper OBVIOUS
<1>7. t = [s EXCEPT !.through = limit, !.todo = @ \union {projected(host, n) : n \in rows}] OBVIOUS
<1>8. Client(host, dev[c], s, peers[c], manifests[c]) /\ Good(host) /\ Good(dev[c]) /\ dev[c].id # Host
      /\ Confirms(host, dev[c], s, peers[c], requests[c])
  BY About, Concerns
<1> HIDE DEF u, t, more, last, rows, limit, s
<1>9. PageOf(host, s, limit, rows, last, t, u) BY <1>1, <1>2, <1>3, <1>5, <1>6, <1>7 DEF PageOf
<1>10. Confirms(host, dev[c], u, peers'[c], requests'[c]) BY <1>1, <1>8, <1>9, PagesOn
<1> QED BY <1>1, <1>10, SessionTurn

LEMMA JournalPageTurn ==
  ASSUME IInv, IInv', Confirmed, NEW c \in Clients, JournalPage(c)
  PROVE  Confirmed'
<1> DEFINE s     == session[c]
           d     == dev[c]
           limit == IF s.upper = 0 THEN host.head ELSE s.upper
           next  == IF d.head + PageLimit < limit THEN d.head + PageLimit ELSE limit
           new   == accept(d, next)
           ok    == \A n \in d.head + 1 .. next : acceptable(new, host.journal[n], n - 1)
           kept  == {r \in requests[c] : valid(new, r)}
           paths == {r[1] : r \in kept}
           extra == {projected(new, object(new, p)) :
                       p \in {q \in paths : ~resident(new, q) /\ \A e \in s.todo : e.path # q}}
           t     == [s EXCEPT !.pc = "announce", !.upper = 0, !.requested = paths, !.todo = s.todo \union extra]
           k     == peers[c]
<1>1. /\ s.pc = "journal"
      /\ \/ Finish(c) /\ UNCHANGED <<dev, requests>>
         \/ /\ Local(c, new)
            /\ \/ To(c, [s EXCEPT !.upper = limit]) /\ UNCHANGED requests
               \/ ~(next < limit) /\ To(c, t) /\ requests' = [requests EXCEPT ![c] = kept]
      /\ UNCHANGED <<peers, manifests>>
  BY DEF JournalPage
<1>2. /\ Client(host, d, s, k, manifests[c]) /\ Session(s) /\ Good(host) /\ Good(d) /\ d.id = c /\ d.id # Host
      /\ Confirms(host, d, s, k, requests[c]) /\ Rises(host)
  BY About, Concerns
<1>3. new = [d EXCEPT !.head = next, !.journal = [n \in 1..next |-> IF n <= d.head THEN @[n] ELSE host.journal[n]]]
  BY DEF accept
<1>4. limit = IF s.upper = 0 THEN host.head ELSE s.upper OBVIOUS
<1>5. next = IF d.head + PageLimit < limit THEN d.head + PageLimit ELSE limit OBVIOUS
<1> HIDE DEF next, limit, new, s
<1>6. /\ Good(new) /\ new.id = d.id /\ new.entries = d.entries /\ new.seq = d.seq
      /\ limit \in Nat /\ next <= limit
      /\ new.head = next /\ next <= host.head /\ limit <= host.head /\ \A n \in 1..next : new.journal[n] = host.journal[n]
  <2>1. HistoryOf(host, d, s, limit, next, new) BY <1>1, <1>3, <1>4, <1>5 DEF HistoryOf
  <2> QED BY <1>2, <2>1, HistoryTaken
<1>7. \A R : Leads(c, new, R)
  <2>1. d.head \in Nat /\ new.head \in Nat /\ d.head <= new.head
    <3>1. d.head \in Nat /\ new.head \in Nat /\ PageLimit \in Nat BY <1>2, <1>6, PageLimitAssumption DEF Good, Solid, Shape
    <3>2. d.head <= limit BY <1>1, <1>2, <1>4, <3>1 DEF Client, Follows
    <3> QED BY <1>5, <1>6, <3>1, <3>2
  <2> QED BY <1>6, <2>1, LeadsHistory
<1>8. CASE Finish(c) /\ UNCHANGED <<dev, requests>>
  <2>1. UNCHANGED <<dev, peers, manifests, requests>> BY <1>1, <1>8
  <2> QED BY <1>8, <2>1, FinishTurn
<1>9. CASE Local(c, new) /\ To(c, [s EXCEPT !.upper = limit]) /\ UNCHANGED requests
  <2> DEFINE v == [s EXCEPT !.upper = limit]
  <2>1. v = [s EXCEPT !.upper = limit] OBVIOUS
  <2> HIDE DEF d, v
  <2>2. Confirms(host, new, v, k, requests[c]) BY <1>1, <1>2, <1>4, <1>6, <2>1, HistoryGoesOnOn
  <2>3. To(c, v) /\ UNCHANGED <<peers, manifests>> /\ requests' = requests BY <1>1, <1>9 DEF v
  <2>4. Confirms(host, new, v, peers[c], requests'[c]) BY <2>2, <2>3
  <2> QED BY <1>7, <1>9, <2>3, <2>4, MirrorTurn
<1>10. CASE Local(c, new) /\ ~(next < limit) /\ To(c, t) /\ requests' = [requests EXCEPT ![c] = kept]
  <2>1. new.head = limit
    <3>1. next \in Nat BY <1>6 DEF Good, Solid, Shape
    <3> QED BY <1>6, <1>10, <3>1
  <2>2. kept \subseteq requests[c] /\ (\A r \in kept : valid(new, r)) /\ paths = {r[1] : r \in kept} OBVIOUS
  <2>3. ASSUME NEW e \in extra
        PROVE  e = projected(new, object(new, e.path)) /\ e.path \in paths /\ \A f \in s.todo : f.path # e.path
    <3>1. PICK p \in paths : e = projected(new, object(new, p)) /\ \A f \in s.todo : f.path # p OBVIOUS
    <3>2. PICK r \in kept : p = r[1] BY <3>1
    <3>3. object(new, p) # 0 BY <3>2 DEF valid
    <3>4. Solid(new) /\ new.head \in Nat BY <1>6 DEF Good, Solid, Shape
    <3>5. object(new, p) \in 1..new.head /\ new.journal[object(new, p)].path = p BY <3>3, <3>4, LatestFacts DEF object
    <3> HIDE DEF extra, paths, kept
    <3>6. e.path = p BY <3>1, <3>4, <3>5, ProjectedFacts
    <3> QED BY <3>1, <3>6
  <2>4. t = [s EXCEPT !.pc = "announce", !.upper = 0, !.requested = paths, !.todo = s.todo \union extra] OBVIOUS
  <2> HIDE DEF extra, paths, kept, t, d
  <2>5. Confirms(host, new, t, k, kept)
    <3>1. /\ Good(new) /\ new.id # Host /\ new.entries = d.entries /\ new.head <= host.head
          /\ \A n \in 1..new.head : new.journal[n] = host.journal[n]
      BY <1>2, <1>6
    <3>2. (s.upper # 0 => s.upper = new.head) /\ (s.upper = 0 => new.head = host.head) BY <1>4, <2>1
    <3>3. Confirms(host, d, s, k, requests[c]) /\ Good(host) /\ Rises(host) /\ Session(s) /\ s.pc = "journal" BY <1>1, <1>2
    <3> HIDE DEF ok, k
    <3> QED BY ONLY <2>2, <2>3, <2>4, <3>1, <3>2, <3>3, HistoryDoneOn
  <2>6. requests'[c] = kept BY <1>10 DEF IInv, Tables
  <2>7. UNCHANGED <<peers, manifests>> /\ (\E v : requests' = [requests EXCEPT ![c] = v]) BY <1>1, <1>10
  <2> QED BY <1>7, <1>10, <2>5, <2>6, <2>7, MirrorTurn
<1> QED BY <1>1, <1>8, <1>9, <1>10

LEMMA AnnounceTurn ==
  ASSUME IInv, IInv', Confirmed, NEW c \in Clients, Announce(c)
  PROVE  Confirmed'
<1> DEFINE s    == session[c]
           x    == dev[c]
           out  == proposals(x, s.pushed)
           keep == out = {} /\ s.acknowledged
           t    == [s EXCEPT !.outgoing = out, !.pushThrough = x.seq, !.acknowledged = keep]
           n    == IF keep THEN manifests[c] ELSE [gen |-> s.gen, members |-> out, applied |-> {}]
           u    == IF s.pc = "announce" THEN [t EXCEPT !.pc = "pull"] ELSE pushing(t, out)
<1>1. /\ To(c, u)
      /\ \/ s.pc = "announce" /\ u = [t EXCEPT !.pc = "pull"]
         \/ s.pc = "scan" /\ u = pushing(t, out)
      /\ manifests' = IF keep THEN manifests
                      ELSE [manifests EXCEPT ![c] = [gen |-> s.gen, members |-> out, applied |-> {}]]
      /\ dev' = dev /\ peers' = peers /\ requests' = requests
  BY DEF Announce
<1>2. manifests'[c] = n BY <1>1 DEF IInv, Tables
<1>3. /\ Client(host, x, s, peers[c], manifests[c]) /\ Good(host) /\ Good(x) /\ x.id = c /\ x.id # Host
      /\ Confirms(host, x, s, peers[c], requests[c]) /\ Sound(Marks, x) /\ Rises(host)
      /\ \A R : Leads(c, x, R) /\ Leads(Host, host, R)
  BY About, Concerns
<1>4. out = proposals(x, s.pushed) /\ keep = (out = {} /\ s.acknowledged) OBVIOUS
<1>5. t = [s EXCEPT !.outgoing = out, !.pushThrough = x.seq, !.acknowledged = keep] OBVIOUS
<1>6. n = IF keep THEN manifests[c] ELSE [gen |-> s.gen, members |-> out, applied |-> {}] OBVIOUS
<1>7. n = manifests[c] \/ n.members = proposals(x, s.pushed) OBVIOUS
<1>8. dev'[c] = x /\ dev'[Host] = host BY <1>1 DEF host
<1> HIDE DEF u, n, t, keep, out, s, x
<1>9. Confirms(host, x, u, peers[c], requests[c])
  <2>1. AnnouncementOf(x, s, manifests[c], out, keep, t, n, u) BY <1>1, <1>4, <1>5, <1>6 DEF AnnouncementOf
  <2> QED BY <1>3, <2>1, AnnouncesOn
<1>10. n = manifests[c] \/ Offered(host, Marks, n)
  <2>1. x.head <= host.head /\ \A i \in 1..x.head : x.journal[i] = host.journal[i] BY <1>3 DEF Client, Follows
  <2> QED BY <1>3, <1>7, <2>1, OffersNew
<1>11. session' = [session EXCEPT ![c] = u] /\ session'[c] = u BY <1>1 DEF To, IInv, Tables
<1>12. manifests' = manifests \/ \E v : manifests' = [manifests EXCEPT ![c] = v] BY <1>1
<1>13. (\E R : Leads(c, dev'[c], R)) /\ (\E R : Leads(Host, dev'[Host], R)) BY <1>3, <1>8
<1>14. Confirms(host, dev'[c], session'[c], peers'[c], requests'[c]) BY <1>1, <1>8, <1>9, <1>11
<1>15. manifests'[c].members \subseteq manifests[c].members \/ Offered(host, Marks, manifests'[c]) BY <1>2, <1>10
<1> QED BY <1>1, <1>11, <1>12, <1>13, <1>14, <1>15, OneTurn

(* A record is taken in, or the attempt ends the round. *)
LEMMA LeadsTaken ==
  ASSUME IInv, Orderly, Confirmed, NEW c \in Clients, NEW e \in session[c].todo, session[c].pc \in {"pull", "commit"},
         NEW r, r = merge(dev[c], e, TRUE) \/ r = merge(dev[c], e, FALSE)
  PROVE  /\ \A t \in r.torn \union {r.dev} : Leads(c, t, {e}) /\ Ready(dev[c], t, e)
         /\ r.status = "complete" => Stands(r.dev, e.path) = e.rev
<1>1. \E b \in BOOLEAN : r = merge(dev[c], e, b)
  <2>1. CASE r = merge(dev[c], e, TRUE) BY <2>1, Zenon
  <2>2. CASE r = merge(dev[c], e, FALSE) BY <2>2, Zenon
  <2> QED BY <2>1, <2>2
<1>2. PICK b \in BOOLEAN : r = merge(dev[c], e, b) BY <1>1
<1>3. /\ \A t \in merge(dev[c], e, b).torn \union {merge(dev[c], e, b).dev} : Leads(c, t, {e}) /\ Ready(dev[c], t, e)
      /\ merge(dev[c], e, b).status = "complete" => Stands(merge(dev[c], e, b).dev, e.path) = e.rev
  BY LeadsMerged
<1> QED BY <1>2, <1>3

LEMMA Taken ==
  ASSUME IInv, Confirmed, NEW c \in Clients, NEW e \in session[c].todo, session[c].pc \in {"pull", "commit"},
         NEW y, Ready(dev[c], y, e), Leads(c, y, {e}), NEW qs, qs \subseteq requests[c], NEW t,
         \/ t = session[c]
         \/ t = Drop(session[c], e) /\ (Own(e.path) => e.rev <= Stands(y, e.path))
         \/ \E g : t = Inactive(g, FALSE)
  PROVE  Confirms(host, y, t, peers[c], qs)
<1> DEFINE x == dev[c]
           s == session[c]
           k == peers[c]
           W == Marks \union {<<c, p>> : p \in DOMAIN y.entries}
<1>1. /\ Good(host) /\ Good(x) /\ x.id = c /\ x.id # Host /\ c # Host /\ Client(host, x, s, k, manifests[c])
      /\ Session(s) /\ Confirms(host, x, s, k, requests[c])
  BY About, Concerns
<1>2. Marks \subseteq W /\ \A p \in DOMAIN y.entries : <<c, p>> \in W OBVIOUS
<1> HIDE DEF W
<1>3. Moves(x, y, {e}) BY <1>1, <1>2 DEF Leads
<1>4. Good(y) /\ Evolves(x, y, {e}) /\ y.id # Host BY <1>1 DEF Ready, Evolves, Extends
<1>5. {e} \subseteq s.todo OBVIOUS
<1> HIDE DEF x, s, k
<1>6. Confirms(host, y, s, k, requests[c]) BY <1>1, <1>3, <1>4, <1>5, MirrorMovesOn DEF s
<1>7. Confirms(host, y, s, k, qs) BY <1>6, FewerOn
<1>8. s.pc \in Announced BY DEF Announced, s
<1>9. (Own(e.path) => e.rev <= Stands(y, e.path)) => Confirms(host, y, Drop(s, e), k, qs)
  BY <1>1, <1>4, <1>5, <1>7, <1>8, DropsOn
<1>10. \A g : Confirms(host, y, Inactive(g, FALSE), k, qs) BY <1>7, EndsOn
<1> QED BY <1>7, <1>9, <1>10 DEF s, k

LEMMA TakingTurn ==
  ASSUME IInv, IInv', Confirmed, NEW c \in Clients, NEW e \in session[c].todo, session[c].pc \in {"pull", "commit"},
         NEW y, Ready(dev[c], y, e), Leads(c, y, {e}), Local(c, y), NEW t, To(c, t),
         \/ t = Drop(session[c], e) /\ (Own(e.path) => e.rev <= Stands(y, e.path))
         \/ \E g : t = Inactive(g, FALSE),
         UNCHANGED <<peers, manifests>>, requests' = requests \/ (\E v : requests' = [requests EXCEPT ![c] = v]),
         requests'[c] \subseteq requests[c]
  PROVE  Confirmed'
<1>1. Confirms(host, y, t, peers[c], requests'[c]) BY Taken
<1> QED BY <1>1, MirrorTurn

LEMMA SettledFewer ==
  ASSUME IInv, NEW c \in Clients, NEW d, NEW p, requests' = settled(c, d, p)
  PROVE  /\ requests' = requests \/ \E v : requests' = [requests EXCEPT ![c] = v]
         /\ requests'[c] \subseteq requests[c]
<1>1. outstanding(d, requests[c]) \subseteq requests[c] BY DEF outstanding
<1>2. requests' = requests \/ requests' = [requests EXCEPT ![c] = outstanding(d, requests[c])] BY DEF settled
<1>3. requests = [i \in Clients |-> requests[i]] BY DEF IInv, Tables
<1> QED BY <1>1, <1>2, <1>3

LEMMA PullMetadataTurn ==
  ASSUME IInv, IInv', Orderly, Confirmed, NEW c \in Clients, NEW e, PullMetadata(c, e)
  PROVE  Confirmed'
<1> DEFINE x == dev[c]
           s == session[c]
<1>1. /\ s.pc = "pull" /\ e \in s.todo
      /\ \/ acceptsMetadata(x, e) /\ Local(c, acceptMetadata(x, e).dev) /\ To(c, Drop(s, e))
         \/ Local(c, x) /\ Finish(c)
         \/ Local(c, observed(x, e.path, 0)) /\ Finish(c)
      /\ UNCHANGED <<peers, manifests>> /\ requests' = requests
  BY DEF PullMetadata, nextEntries, metadataOnly
<1>2. Good(x) /\ x.id # Host /\ Session(s) /\ c \in Device BY About
<1>3. Record(e) /\ requests'[c] \subseteq requests[c] BY <1>1, <1>2 DEF Session
<1>4. CASE acceptsMetadata(x, e) /\ Local(c, acceptMetadata(x, e).dev) /\ To(c, Drop(s, e))
  <2> DEFINE y == acceptMetadata(x, e).dev
  <2>1. Leads(c, y, {e}) /\ Ready(x, y, e) /\ Stands(y, e.path) = e.rev BY <1>1, <1>4, LeadsMerged
  <2> HIDE DEF y
  <2>2. Local(c, y) BY <1>4 DEF y
  <2>3. e.rev <= Stands(y, e.path) BY <1>3, <2>1 DEF Record
  <2> QED BY <1>1, <1>3, <1>4, <2>1, <2>2, <2>3, TakingTurn
<1>5. CASE (Local(c, x) \/ Local(c, observed(x, e.path, 0))) /\ Finish(c)
  <2>1. \A R : Leads(c, x, R) /\ Leads(c, observed(x, e.path, 0), R) BY <1>2, LeadsIndexed, Concerns
  <2>2. PICK y : Local(c, y) /\ Ready(x, y, e) /\ Leads(c, y, {e}) BY <1>2, <1>5, <2>1, Refreshed
  <2> DEFINE t == Inactive(s.gen, FALSE)
  <2>3. To(c, t) /\ \E g : t = Inactive(g, FALSE) BY <1>5 DEF Finish
  <2> HIDE DEF t
  <2> QED BY <1>1, <1>3, <2>2, <2>3, TakingTurn
<1> QED BY <1>1, <1>4, <1>5

LEMMA PullCommitTurn ==
  ASSUME IInv, IInv', Orderly, Confirmed, NEW c \in Clients, PullCommit(c)
  PROVE  Confirmed'
<1> DEFINE x == dev[c]
           s == session[c]
           e == s.current
           r == merge(x, e, TRUE)
<1>1. /\ s.pc = "commit"
      /\ \/ e.path \in s.requested /\ To(c, Drop(s, e)) /\ UNCHANGED <<dev, requests>>
         \/ Local(c, r.dev) /\ Finish(c) /\ UNCHANGED requests
         \/ r.status = "complete" /\ Local(c, r.dev) /\ To(c, Drop(s, e)) /\ requests' = settled(c, r.dev, e.path)
      /\ UNCHANGED <<peers, manifests>>
  BY DEF PullCommit
<1>2. Good(x) /\ x.id # Host /\ Session(s) BY About
<1>3. e \in s.todo /\ Record(e) /\ e.rev \in Nat BY <1>1, <1>2 DEF Session, Record
<1>4. r = merge(dev[c], e, TRUE) OBVIOUS
<1> HIDE DEF e, r
<1>5. /\ Leads(c, r.dev, {e}) /\ Ready(x, r.dev, e)
      /\ r.status = "complete" => Stands(r.dev, e.path) = e.rev
  BY <1>1, <1>3, <1>4, LeadsTaken
<1>7. CASE e.path \in s.requested /\ To(c, Drop(s, e)) /\ UNCHANGED <<dev, requests>>
  <2>1. Own(e.path) => e.rev <= Stands(x, e.path) BY <1>1, <1>3, <1>7, Concerns DEF Confirms, Listed
  <2>2. dev' = [dev EXCEPT ![c] = x] BY <1>7, About DEF IInv, Tables
  <2>3. Local(c, x) /\ Ready(x, x, e) /\ Leads(c, x, {e}) BY <1>2, <2>2, Refreshed, Concerns DEF Local
  <2>4. requests' = requests /\ requests'[c] \subseteq requests[c] BY <1>7
  <2> QED BY <1>1, <1>3, <1>7, <2>1, <2>3, <2>4, TakingTurn
<1>8. CASE Local(c, r.dev) /\ Finish(c) /\ UNCHANGED requests
  <2> DEFINE t == Inactive(s.gen, FALSE)
  <2>1. To(c, t) /\ \E g : t = Inactive(g, FALSE) BY <1>8 DEF Finish
  <2> HIDE DEF t
  <2>2. requests' = requests /\ requests'[c] \subseteq requests[c] BY <1>8
  <2> QED BY <1>1, <1>3, <1>5, <1>8, <2>1, <2>2, TakingTurn
<1>9. CASE r.status = "complete" /\ Local(c, r.dev) /\ To(c, Drop(s, e)) /\ requests' = settled(c, r.dev, e.path)
  <2>1. /\ requests' = requests \/ \E v : requests' = [requests EXCEPT ![c] = v]
        /\ requests'[c] \subseteq requests[c]
    BY <1>9, SettledFewer
  <2>2. e.rev <= Stands(r.dev, e.path) BY <1>3, <1>5, <1>9
  <2> QED BY <1>1, <1>3, <1>5, <1>9, <2>1, <2>2, TakingTurn
<1> QED BY <1>1, <1>7, <1>8, <1>9

LEMMA PullBeginTurn ==
  ASSUME IInv, IInv', Orderly, Confirmed, NEW c \in Clients, NEW e, PullBegin(c, e)
  PROVE  Confirmed'
<1> DEFINE x == dev[c]
           s == session[c]
           k == peers[c]
           r == merge(x, e, FALSE)
           g == IF blocked(host, e.path) THEN host ELSE observed(host, e.path, 0)
           t == [s EXCEPT !.pc = "commit", !.current = e]
<1>1. /\ s.pc = "pull" /\ e \in s.todo
      /\ \/ Local(c, r.dev) /\ Finish(c) /\ UNCHANGED requests
         \/ r.status = "complete" /\ Local(c, r.dev) /\ To(c, Drop(s, e)) /\ requests' = settled(c, r.dev, e.path)
         \/ dev' = [dev EXCEPT ![c] = r.dev, ![Host] = g] /\ (To(c, t) \/ Finish(c)) /\ UNCHANGED requests
      /\ UNCHANGED <<peers, manifests>>
  BY DEF PullBegin, nextEntries
<1>2. Good(x) /\ x.id # Host /\ c # Host /\ Session(s) /\ c \in Device /\ Host \in Device BY About
<1>3. Record(e) /\ e.rev \in Nat BY <1>1, <1>2 DEF Session, Record
<1>4. \A R : Leads(Host, g, R) BY <1>2, LeadsIndexed, Concerns DEF host
<1>5. r = merge(dev[c], e, FALSE) OBVIOUS
<1> HIDE DEF g, r
<1>6. /\ Leads(c, r.dev, {e}) /\ Ready(x, r.dev, e)
      /\ r.status = "complete" => Stands(r.dev, e.path) = e.rev
  BY <1>1, <1>5, LeadsTaken
<1>8. CASE Local(c, r.dev) /\ Finish(c) /\ UNCHANGED requests
  <2> DEFINE u == Inactive(s.gen, FALSE)
  <2>1. To(c, u) /\ \E i : u = Inactive(i, FALSE) BY <1>8 DEF Finish
  <2> HIDE DEF u
  <2>2. requests' = requests /\ requests'[c] \subseteq requests[c] BY <1>8
  <2> QED BY <1>1, <1>6, <1>8, <2>1, <2>2, TakingTurn
<1>9. CASE r.status = "complete" /\ Local(c, r.dev) /\ To(c, Drop(s, e)) /\ requests' = settled(c, r.dev, e.path)
  <2>1. /\ requests' = requests \/ \E v : requests' = [requests EXCEPT ![c] = v]
        /\ requests'[c] \subseteq requests[c]
    BY <1>9, SettledFewer
  <2>2. e.rev <= Stands(r.dev, e.path) BY <1>3, <1>6, <1>9
  <2> QED BY <1>1, <1>6, <1>9, <2>1, <2>2, TakingTurn
<1>10. CASE dev' = [dev EXCEPT ![c] = r.dev, ![Host] = g] /\ (To(c, t) \/ Finish(c)) /\ UNCHANGED requests
  <2>1. Confirms(host, r.dev, s, k, requests[c]) BY <1>1, <1>6, Taken
  <2>2. TransferOf(s, e, "commit", t) BY <1>1 DEF TransferOf
  <2> HIDE DEF t
  <2>3. Confirms(host, r.dev, t, k, requests[c]) BY <1>2, <2>1, <2>2, TransfersOn
  <2>4. \A i : Confirms(host, r.dev, Inactive(i, FALSE), k, requests[c]) BY <2>1, EndsOn
  <2>5. dev'[c] = r.dev /\ dev'[Host] = g BY <1>2, <1>10 DEF IInv, Tables
  <2>6. \E u : session' = [session EXCEPT ![c] = u] /\ Confirms(host, r.dev, u, k, requests[c])
    BY <1>10, <2>3, <2>4 DEF To, Finish
  <2>7. PICK u : session' = [session EXCEPT ![c] = u] /\ Confirms(host, r.dev, u, k, requests[c]) BY <2>6
  <2>8. session'[c] = u BY <2>7 DEF IInv, Tables
  <2>9. peers' = peers /\ manifests' = manifests /\ requests' = requests BY <1>1, <1>10
  <2>10. (\E R : Leads(c, dev'[c], R)) /\ (\E R : Leads(Host, dev'[Host], R)) BY <1>4, <1>6, <2>5
  <2>11. manifests'[c].members \subseteq manifests[c].members BY <2>9
  <2>12. Confirms(host, dev'[c], session'[c], peers'[c], requests'[c]) BY <2>5, <2>7, <2>8, <2>9
  <2> QED BY <1>10, <2>7, <2>9, <2>10, <2>11, <2>12, OneTurn
<1> QED BY <1>1, <1>8, <1>9, <1>10

LEMMA EarlyPushTurn ==
  ASSUME IInv, IInv', Confirmed, NEW c \in Clients, EarlyPush(c)
  PROVE  Confirmed'
<1> DEFINE new == fresh(c)
           t   == [session[c] EXCEPT !.pc = "push", !.todo = new, !.early = TRUE]
<1>1. session[c].pc = "pull" /\ To(c, t) /\ UNCHANGED <<dev, manifests>> /\ peers' = peers /\ requests' = requests
  BY DEF EarlyPush
<1>2. Session(session[c]) /\ Confirms(host, dev[c], session[c], peers[c], requests[c]) BY About, Concerns
<1> HIDE DEF new
<1>3. Confirms(host, dev[c], t, peers[c], requests[c]) BY <1>1, <1>2, PushesEarlyOn
<1> HIDE DEF t
<1>4. Confirms(host, dev[c], t, peers'[c], requests'[c]) BY <1>1, <1>3
<1> QED BY <1>1, <1>4, SessionTurn

LEMMA PullDoneTurn ==
  ASSUME IInv, IInv', Confirmed, NEW c \in Clients, PullDone(c)
  PROVE  Confirmed'
<1> DEFINE s == session[c]
           k == peers[c]
           t == [s EXCEPT !.pc = "scan", !.pulled = s.through]
           j == [k EXCEPT !.pulled = IF k.pulled > s.through THEN k.pulled ELSE s.through]
<1>1. /\ s.pc = "pull" /\ s.todo = {} /\ To(c, t) /\ peers' = [peers EXCEPT ![c] = j]
      /\ UNCHANGED <<dev, manifests>> /\ requests' = requests
  BY DEF PullDone
<1>2. PullEndOf(s, k, t, j) BY <1>1 DEF PullEndOf
<1>3. Good(host) /\ Session(s) /\ Cursor(k) /\ Confirms(host, dev[c], s, k, requests[c]) BY About, Concerns DEF Client
<1> HIDE DEF t, j
<1>4. Confirms(host, dev[c], t, j, requests[c]) BY <1>2, <1>3, PullEndsOn
<1>5. peers'[c] = j BY <1>1 DEF IInv, Tables
<1>6. Confirms(host, dev[c], t, peers'[c], requests'[c]) BY <1>1, <1>4, <1>5
<1> QED BY <1>1, <1>6, SessionTurn

LEMMA SendFailedTurn ==
  ASSUME IInv, IInv', Orderly, Confirmed, NEW c \in Clients, SendFailed(c)
  PROVE  Confirmed'
<1> DEFINE x == dev[c]
           s == session[c]
           k == peers[c]
           o == observed(x, s.current.path, 0)
           y == IF blocked(x, s.current.path) THEN x ELSE o
           t == Inactive(s.gen, FALSE)
<1>1. Local(c, y) /\ To(c, t) /\ UNCHANGED <<peers, manifests>> /\ requests' = requests BY DEF SendFailed, Finish
<1>2. /\ Good(host) /\ Good(x) /\ x.id = c /\ x.id # Host /\ c # Host /\ c \in Device
      /\ Client(host, x, s, k, manifests[c]) /\ Confirms(host, x, s, k, requests[c])
  BY About, Concerns
<1>3. \A R : Leads(c, x, R) /\ Leads(c, o, R) BY <1>2, LeadsIndexed, Concerns
<1>4. Good(o) /\ Evolves(x, o, {}) /\ Steady(x, o) BY <1>2, Observed, SteadyIndexed
<1>5. Evolves(x, x, {}) /\ Steady(x, x) BY <1>2, EvolvesNot DEF Steady
<1>6. y = x \/ y = o OBVIOUS
<1> HIDE DEF o, y
<1>7. Leads(c, y, {}) /\ Good(y) /\ Evolves(x, y, {}) /\ Steady(x, y) BY <1>2, <1>3, <1>4, <1>5, <1>6
<1>8. Moves(x, y, {})
  <2> DEFINE W == Marks \union {<<c, p>> : p \in DOMAIN y.entries}
  <2>1. Marks \subseteq W /\ \A p \in DOMAIN y.entries : <<c, p>> \in W OBVIOUS
  <2> HIDE DEF W
  <2> QED BY <1>2, <1>7, <2>1 DEF Leads
<1> HIDE DEF x, s, k
<1>9. Confirms(host, y, s, k, requests[c]) BY <1>2, <1>7, <1>8, MirrorMovesOn
<1>10. Confirms(host, y, t, k, requests[c]) BY <1>9, EndsOn
<1> HIDE DEF t
<1>11. Confirms(host, y, t, peers[c], requests'[c]) BY <1>1, <1>10 DEF k
<1> QED BY <1>1, <1>7, <1>11, MirrorTurn

LEMMA SliceExpiredTurn ==
  ASSUME IInv, IInv', Confirmed, NEW c \in Clients, SliceExpired(c)
  PROVE  Confirmed'
<1> DEFINE s == session[c]
           t == [Repage(s) EXCEPT !.pc = "rescan"]
<1>1. s.pc \in {"commit", "send"} /\ To(c, t) /\ UNCHANGED <<dev, manifests>> /\ peers' = peers /\ requests' = requests
  BY DEF SliceExpired
<1>2. Session(s) /\ Confirms(host, dev[c], s, peers[c], requests[c]) BY About, Concerns
<1>3. s.pulled = peers[c].pulled /\ ~s.ok BY <1>1, <1>2 DEF Confirms, Listed, Closed
<1> HIDE DEF s
<1>4. Confirms(host, dev[c], t, peers[c], requests[c]) BY <1>2, <1>3, RepagesOn
<1> HIDE DEF t
<1>5. Confirms(host, dev[c], t, peers'[c], requests'[c]) BY <1>1, <1>4
<1> QED BY <1>1, <1>5, SessionTurn

LEMMA AbortTurn ==
  ASSUME IInv, IInv', Confirmed, NEW c \in Clients, Abort(c)
  PROVE  Confirmed'
<1> DEFINE i == session[c].gen + 1
           t == Inactive(i, FALSE)
<1>1. To(c, t) /\ UNCHANGED <<dev, manifests>> /\ peers' = peers /\ requests' = requests BY DEF Abort
<1> HIDE DEF i
<1>2. Confirms(host, dev[c], t, peers[c], requests[c]) BY Concerns, EndsOn
<1> HIDE DEF t
<1>3. Confirms(host, dev[c], t, peers'[c], requests'[c]) BY <1>1, <1>2
<1> QED BY <1>1, <1>3, SessionTurn

LEMMA ClientCrashTurn ==
  ASSUME IInv, IInv', Orderly, Confirmed, NEW c \in Clients, ClientCrash(c)
  PROVE  Confirmed'
<1> DEFINE s == session[c]
           i == s.gen + 1
           t == Inactive(i, FALSE)
<1>1. /\ \E e : /\ (s.pc = "commit" /\ e = s.current) \/ (s.pc = "pull" /\ e \in nextEntries(s))
                /\ \E d \in torn(c, e) : Local(c, d)
      /\ To(c, t) /\ UNCHANGED <<peers, manifests>> /\ requests' = requests
  BY DEF ClientCrash
<1>2. PICK e, y : /\ (s.pc = "commit" /\ e = s.current) \/ (s.pc = "pull" /\ e \in nextEntries(s))
                  /\ y \in torn(c, e) /\ Local(c, y)
  BY <1>1
<1>3. Session(s) BY About
<1>4. e \in s.todo /\ s.pc \in {"pull", "commit"} BY <1>2, <1>3 DEF nextEntries, Session
<1>5. Leads(c, y, {e}) /\ Ready(dev[c], y, e)
  <2>1. CASE y \in merge(dev[c], e, TRUE).torn \/ y \in merge(dev[c], e, FALSE).torn
    <3>1. CASE y \in merge(dev[c], e, TRUE).torn BY <1>4, <3>1, LeadsTaken
    <3>2. CASE y \in merge(dev[c], e, FALSE).torn BY <1>4, <3>2, LeadsTaken
    <3> QED BY <2>1, <3>1, <3>2
  <2>2. CASE acceptsMetadata(dev[c], e) /\ y \in acceptMetadata(dev[c], e).torn BY <1>4, <2>2, LeadsMerged
  <2> QED BY <1>2, <2>1, <2>2 DEF torn
<1>6. \E g : t = Inactive(g, FALSE) OBVIOUS
<1> HIDE DEF i, t
<1>7. requests'[c] \subseteq requests[c] BY <1>1
<1> QED BY <1>1, <1>2, <1>4, <1>5, <1>6, <1>7, TakingTurn

(* The authority becomes g, one outcome of merging a proposal of c. *)
LEMMA GivingTurn ==
  ASSUME IInv, IInv', Orderly, Confirmed, NEW c \in Clients, NEW gen, NEW e, announced(c, gen, e),
         NEW r, r = merge(host, e, TRUE) \/ r = merge(host, e, FALSE), NEW g \in r.torn \union {r.dev}, Local(Host, g),
         session' = session \/ (\E v : session' = [session EXCEPT ![c] = v]), UNCHANGED <<peers, requests>>,
         UNCHANGED manifests \/ (\E f : Applied(c, f)) \/ manifests' = [d \in Clients |-> NoManifest],
         Confirms(host, dev[c], session'[c], peers[c], requests[c])
  PROVE  Confirmed'
<1>1. \E b \in BOOLEAN : r = merge(host, e, b)
  <2>1. CASE r = merge(host, e, TRUE) BY <2>1, Zenon
  <2>2. CASE r = merge(host, e, FALSE) BY <2>2, Zenon
  <2> QED BY <2>1, <2>2
<1>2. PICK b \in BOOLEAN : r = merge(host, e, b) BY <1>1
<1>3. \A R : Leads(Host, g, R) BY <1>2, LeadsDecided
<1>4. manifests'[c].members \subseteq manifests[c].members BY FewerFacts DEF Fewer
<1>5. \/ manifests' = manifests \/ \E v : manifests' = [manifests EXCEPT ![c] = v]
      \/ manifests' = [d \in Clients |-> NoManifest]
  BY DEF Applied
<1> QED BY <1>3, <1>4, <1>5, AuthorityTurn

(* The session of c goes on, or ends, as the authority decides. *)
LEMMA GivingOn ==
  ASSUME IInv, Confirmed, NEW c \in Clients, session[c].pc \in {"push", "send"}, NEW e,
         \/ Finish(c) \/ To(c, Drop(session[c], e)) \/ (\E g : To(c, Inactive(g, FALSE)))
         \/ \E t : TransferOf(session[c], e, "send", t) /\ To(c, t)
  PROVE  /\ \E v : session' = [session EXCEPT ![c] = v]
         /\ Confirms(host, dev[c], session'[c], peers[c], requests[c])
<1> DEFINE x == dev[c]
           s == session[c]
           k == peers[c]
<1>1. Good(x) /\ x.id # Host /\ Session(s) /\ Confirms(host, x, s, k, requests[c]) BY About, Concerns
<1>2. s.pc \in Announced /\ s.pc \notin {"pull", "commit"} BY DEF Announced
<1> HIDE DEF x, s, k
<1>3. Confirms(host, x, Drop(s, e), k, requests[c]) BY <1>1, <1>2, DropsOn
<1>4. \A g : Confirms(host, x, Inactive(g, FALSE), k, requests[c]) BY <1>1, EndsOn
<1>5. \A t : TransferOf(s, e, "send", t) => Confirms(host, x, t, k, requests[c]) BY <1>1, TransfersOn
<1>6. \E t : To(c, t) /\ Confirms(host, x, t, k, requests[c])
  <2>1. CASE Finish(c) BY <1>4, <2>1 DEF Finish
  <2>2. CASE To(c, Drop(s, e)) BY <1>3, <2>2
  <2>3. CASE \E g : To(c, Inactive(g, FALSE)) BY <1>4, <2>3
  <2>4. CASE \E t : TransferOf(s, e, "send", t) /\ To(c, t) BY <1>5, <2>4
  <2> QED BY <2>1, <2>2, <2>3, <2>4 DEF s
<1>7. PICK t : To(c, t) /\ Confirms(host, x, t, k, requests[c]) BY <1>6
<1>8. session' = [session EXCEPT ![c] = t] /\ session'[c] = t BY <1>7 DEF To, IInv, Tables
<1> QED BY <1>7, <1>8 DEF x, k

LEMMA PushBeginTurn ==
  ASSUME IInv, IInv', Orderly, Confirmed, NEW c \in Clients, NEW e, PushBegin(c, e)
  PROVE  Confirmed'
<1> DEFINE s == session[c]
           r == merge(host, e, FALSE)
           t == [s EXCEPT !.pc = "send", !.current = e]
<1>1. /\ s.pc = "push" /\ e \in s.todo
      /\ \/ Finish(c) /\ UNCHANGED <<dev, manifests>>
         \/ /\ announced(c, s.gen, e) /\ Local(Host, r.dev)
            /\ \/ Finish(c) /\ UNCHANGED manifests
               \/ To(c, Drop(s, e)) /\ Applied(c, e)
               \/ To(c, t) /\ UNCHANGED manifests
      /\ UNCHANGED <<peers, requests>>
  BY DEF PushBegin, nextEntries
<1>2. TransferOf(s, e, "send", t) BY <1>1 DEF TransferOf
<1>3. r = merge(host, e, FALSE) OBVIOUS
<1> HIDE DEF r, t
<1>4. CASE Finish(c) /\ UNCHANGED <<dev, manifests>> BY <1>1, <1>4, FinishTurn
<1>5. CASE /\ announced(c, s.gen, e) /\ Local(Host, r.dev)
           /\ \/ Finish(c) /\ UNCHANGED manifests
              \/ To(c, Drop(s, e)) /\ Applied(c, e)
              \/ To(c, t) /\ UNCHANGED manifests
  <2>1. /\ \E v : session' = [session EXCEPT ![c] = v]
        /\ Confirms(host, dev[c], session'[c], peers[c], requests[c])
    BY <1>1, <1>2, <1>5, GivingOn
  <2>2. UNCHANGED manifests \/ \E f : Applied(c, f) BY <1>5
  <2>3. r.dev \in r.torn \union {r.dev} OBVIOUS
  <2> QED BY <1>1, <1>3, <1>5, <2>1, <2>2, <2>3, GivingTurn
<1> QED BY <1>1, <1>4, <1>5

LEMMA PushCommitTurn ==
  ASSUME IInv, IInv', Orderly, Confirmed, NEW c \in Clients, PushCommit(c)
  PROVE  Confirmed'
<1> DEFINE s == session[c]
           e == s.current
           r == merge(host, e, TRUE)
<1>1. /\ s.pc = "send"
      /\ \/ Finish(c) /\ UNCHANGED <<dev, manifests>>
         \/ /\ announced(c, s.gen, e) /\ Local(Host, r.dev)
            /\ \/ Finish(c) /\ UNCHANGED manifests
               \/ To(c, Drop(s, e)) /\ Applied(c, e)
      /\ UNCHANGED <<peers, requests>>
  BY DEF PushCommit
<1>2. r = merge(host, e, TRUE) OBVIOUS
<1> HIDE DEF r, e
<1>3. CASE Finish(c) /\ UNCHANGED <<dev, manifests>> BY <1>1, <1>3, FinishTurn
<1>4. CASE /\ announced(c, s.gen, e) /\ Local(Host, r.dev)
           /\ \/ Finish(c) /\ UNCHANGED manifests
              \/ To(c, Drop(s, e)) /\ Applied(c, e)
  <2>1. /\ \E v : session' = [session EXCEPT ![c] = v]
        /\ Confirms(host, dev[c], session'[c], peers[c], requests[c])
    BY <1>1, <1>4, GivingOn
  <2>2. UNCHANGED manifests \/ \E f : Applied(c, f) BY <1>4
  <2>3. r.dev \in r.torn \union {r.dev} OBVIOUS
  <2> QED BY <1>1, <1>2, <1>4, <2>1, <2>2, <2>3, GivingTurn
<1> QED BY <1>1, <1>3, <1>4

LEMMA LateCommitTurn ==
  ASSUME IInv, IInv', Orderly, Confirmed, NEW c \in Clients, NEW l, LateCommit(c, l)
  PROVE  Confirmed'
<1> DEFINE e == l.entry
           r == merge(host, e, TRUE)
<1>1. /\ \/ UNCHANGED <<dev, manifests>>
         \/ /\ announced(c, l.gen, e) /\ Local(Host, r.dev)
            /\ Applied(c, e) \/ UNCHANGED manifests
      /\ session' = session /\ UNCHANGED <<peers, requests>>
  BY DEF LateCommit
<1>2. r = merge(host, e, TRUE) OBVIOUS
<1> HIDE DEF r, e
<1>3. CASE UNCHANGED <<dev, manifests>>
  <2>1. dev' = dev /\ manifests' = manifests /\ peers' = peers /\ session' = session /\ requests' = requests BY <1>1, <1>3
  <2> QED BY <2>1 DEF Confirmed, Marks, host
<1>4. CASE announced(c, l.gen, e) /\ Local(Host, r.dev) /\ (Applied(c, e) \/ UNCHANGED manifests)
  <2>1. Confirms(host, dev[c], session'[c], peers[c], requests[c]) BY <1>1, Concerns
  <2>2. UNCHANGED manifests \/ \E f : Applied(c, f) BY <1>4
  <2>3. r.dev \in r.torn \union {r.dev} OBVIOUS
  <2> QED BY <1>1, <1>2, <1>4, <2>1, <2>2, <2>3, GivingTurn
<1> QED BY <1>1, <1>3, <1>4

LEMMA HostCrashTurn ==
  ASSUME IInv, IInv', Orderly, Confirmed, NEW c \in Clients, HostCrash(c)
  PROVE  Confirmed'
<1> DEFINE s == session[c]
           i == s.gen + 1
           t == Inactive(i, FALSE)
<1>1. PICK e, g : /\ announced(c, s.gen, e) /\ Local(Host, g)
                  /\ g \in merge(host, e, TRUE).torn \/ g \in merge(host, e, FALSE).torn
  BY DEF HostCrash
<1>2. To(c, t) /\ manifests' = [d \in Clients |-> NoManifest] /\ UNCHANGED <<peers, requests>> BY DEF HostCrash
<1> HIDE DEF i
<1>3. Confirms(host, dev[c], t, peers[c], requests[c]) BY Concerns, EndsOn
<1> HIDE DEF t
<1>4. session' = [session EXCEPT ![c] = t] /\ session'[c] = t BY <1>2 DEF To, IInv, Tables
<1>5. \E r : (r = merge(host, e, TRUE) \/ r = merge(host, e, FALSE)) /\ g \in r.torn BY <1>1
<1>6. PICK r : (r = merge(host, e, TRUE) \/ r = merge(host, e, FALSE)) /\ g \in r.torn BY <1>5
<1> QED BY <1>1, <1>2, <1>3, <1>4, <1>6, GivingTurn

LEMMA HostRestartTurn ==
  ASSUME IInv, IInv', Confirmed, HostRestart
  PROVE  Confirmed'
<1>1. /\ dev' = dev /\ peers' = peers /\ session' = session /\ requests' = requests
      /\ manifests' = [d \in Clients |-> NoManifest]
  BY DEF HostRestart
<1>2. \A c \in Clients : manifests'[c].members \subseteq manifests[c].members BY <1>1 DEF NoManifest
<1>3. ASSUME NEW d \in Device PROVE \E R : Leads(d, dev'[d], R)
  <2>1. \A R : Leads(d, dev[d], R) BY LeadsSame DEF SameIndex
  <2> QED BY <1>1, <2>1
<1>4. \A c \in Clients : Confirms(host, dev'[c], session'[c], peers'[c], requests'[c]) BY <1>1 DEF Confirmed
<1> QED BY <1>2, <1>3, <1>4, Turn

(* The receipt of a round is noted. *)
LEMMA Acknowledged ==
  ASSUME NEW s, Session(s), s.pc = "push",
         NEW t, t = [s EXCEPT !.acknowledged = TRUE, !.pushed = s.pushThrough]
  PROVE  Session(t) /\ t.pulled = s.pulled /\ t.ok = s.ok
<1> DEFINE v == [s EXCEPT !.pushed = s.pushThrough]
           P == [pc : {s.pc}, pulled : {s.pulled}, pushed : {s.pushThrough}, after : Nat, upper : Nat, through : Nat,
                 todo : {s.todo}, outgoing : {s.outgoing}, pushThrough : Nat, requested : {s.requested},
                 current : {s.current}, acknowledged : BOOLEAN, early : BOOLEAN, sent : BOOLEAN, gen : Nat, ok : {s.ok}]
<1>1. v \in P BY ONLY Session(s) DEF Session
<1>2. t = [v EXCEPT !.acknowledged = TRUE] OBVIOUS
<1> HIDE DEF v
<1>3. t \in P BY ONLY <1>1, <1>2
<1>4. /\ t.pc = s.pc /\ t.pulled = s.pulled /\ t.pushed = s.pushThrough /\ t.todo = s.todo /\ t.outgoing = s.outgoing
      /\ t.requested = s.requested /\ t.current = s.current /\ t.ok = s.ok
  BY ONLY <1>3
<1>5. s.pc \in Phase /\ s.pulled \in Nat /\ s.pushThrough \in Nat /\ s.ok \in BOOLEAN BY DEF Session
<1>6. \A e \in t.todo \union t.outgoing : Record(e) BY <1>4 DEF Session
<1>7. t.pc \notin {"commit", "send"} BY <1>4
<1>8. Session(t) BY ONLY <1>3, <1>4, <1>5, <1>6, <1>7 DEF Session
<1> QED BY <1>4, <1>8

LEMMA PushDoneTurn ==
  ASSUME IInv, IInv', Confirmed, NEW c \in Clients, PushDone(c)
  PROVE  Confirmed'
<1> DEFINE x  == dev[c]
           s  == session[c]
           k  == peers[c]
           t  == [s EXCEPT !.acknowledged = TRUE, !.pushed = s.pushThrough]
           j  == [k EXCEPT !.pushed = IF k.pushed > s.pushThrough THEN k.pushed ELSE s.pushThrough]
           rs == outstanding(x, requests[c])
<1>1. /\ s.pc = "push" /\ UNCHANGED <<dev, manifests>>
      /\ \/ To(c, Repage(s)) /\ UNCHANGED <<peers, requests>>
         \/ Finish(c) /\ UNCHANGED <<peers, requests>>
         \/ /\ peers' = [peers EXCEPT ![c] = j] /\ ~s.early
            /\ \/ s.sent /\ To(c, Repage(t)) /\ UNCHANGED requests
               \/ ~s.sent /\ To(c, Inactive(s.gen, TRUE)) /\ requests' = [requests EXCEPT ![c] = rs]
  BY DEF PushDone
<1>2. Session(s) /\ Cursor(k) /\ Confirms(host, x, s, k, requests[c]) BY About, Concerns DEF Client
<1>3. s.pulled = k.pulled /\ ~s.ok BY <1>1, <1>2 DEF Confirms, Listed, Closed
<1>4. CASE To(c, Repage(s)) /\ UNCHANGED <<peers, requests>>
  <2> DEFINE u == Repage(s)
  <2>1. Confirms(host, x, u, k, requests[c]) BY <1>2, <1>3, RepagesOn
  <2> HIDE DEF u
  <2>2. To(c, u) /\ peers' = peers /\ requests' = requests BY <1>4 DEF u
  <2>3. Confirms(host, x, u, peers'[c], requests'[c]) BY <2>1, <2>2
  <2> QED BY <1>1, <2>2, <2>3, SessionTurn
<1>5. CASE Finish(c) /\ UNCHANGED <<peers, requests>> BY <1>1, <1>5, FinishTurn
<1>6. CASE /\ peers' = [peers EXCEPT ![c] = j] /\ ~s.early
           /\ \/ s.sent /\ To(c, Repage(t)) /\ UNCHANGED requests
              \/ ~s.sent /\ To(c, Inactive(s.gen, TRUE)) /\ requests' = [requests EXCEPT ![c] = rs]
  <2>1. j.pulled = k.pulled /\ j.pushed = IF k.pushed > s.pushThrough THEN k.pushed ELSE s.pushThrough
    BY ONLY <1>2 DEF Cursor
  <2> HIDE DEF j
  <2>2. /\ j.pulled = k.pulled /\ (s.early \/ s.sent => Confirms(host, x, s, j, requests[c]))
        /\ ~s.early /\ ~s.sent => \A g : Confirms(host, x, Inactive(g, TRUE), j, requests[c])
    <3>1. s.pc = "push" /\ Session(s) /\ Cursor(k) /\ Confirms(host, x, s, k, requests[c]) BY <1>1, <1>2
    <3> HIDE DEF x, s, k
    <3> QED BY ONLY <2>1, <3>1, PushCursorOn
  <2>3. peers'[c] = j BY <1>6 DEF IInv, Tables
  <2>4. CASE s.sent /\ To(c, Repage(t)) /\ UNCHANGED requests
    <3> DEFINE u == Repage(t)
    <3>1. Session(t) /\ t.pulled = s.pulled /\ t.ok = s.ok BY <1>1, <1>2, Acknowledged
    <3> HIDE DEF t
    <3>2. Confirms(host, x, u, j, requests[c]) BY <1>3, <2>2, <2>4, <3>1, RepagesOn
    <3> HIDE DEF u
    <3>3. To(c, u) /\ requests' = requests BY <2>4 DEF u
    <3>4. Confirms(host, x, u, peers'[c], requests'[c]) BY <2>3, <3>2, <3>3
    <3> QED BY <1>1, <1>6, <3>3, <3>4, SessionTurn
  <2>5. CASE ~s.sent /\ To(c, Inactive(s.gen, TRUE)) /\ requests' = [requests EXCEPT ![c] = rs]
    <3> DEFINE u == Inactive(s.gen, TRUE)
    <3>1. Confirms(host, x, u, j, requests[c]) BY <1>6, <2>2, <2>5
    <3>2. rs \subseteq requests[c] BY DEF outstanding
    <3> HIDE DEF rs, u
    <3>3. Confirms(host, x, u, j, rs) BY <3>1, <3>2, FewerOn
    <3>4. To(c, u) /\ requests'[c] = rs BY <2>5 DEF IInv, Tables, u
    <3>5. Confirms(host, x, u, peers'[c], requests'[c]) BY <2>3, <3>3, <3>4
    <3> QED BY <1>1, <1>6, <2>5, <3>4, <3>5, SessionTurn
  <2> QED BY <1>6, <2>4, <2>5
<1> QED BY <1>1, <1>4, <1>5, <1>6

(* Apps ask for originals, and give them up. *)
LEMMA ChoiceTurn ==
  ASSUME IInv, IInv', Confirmed, NEW c \in Clients, Choice(c)
  PROVE  Confirmed'
<1> DEFINE x == dev[c]
<1>1. /\ dev' = dev /\ peers' = peers /\ session' = session /\ manifests' = manifests
      /\ \/ \E p \in DOMAIN x.entries :
              entry(x, p).remote /\ requests' = [requests EXCEPT ![c] = @ \union {<<p, Version(entry(x, p))>>}]
         \/ \E r : requests' = [requests EXCEPT ![c] = @ \ {r}]
  BY DEF Choice, Request, CancelRequest
<1>2. /\ Good(host) /\ Good(x) /\ x.id # Host /\ Client(host, x, session[c], peers[c], manifests[c])
      /\ Confirms(host, x, session[c], peers[c], requests[c]) /\ Sound(Marks, x)
  BY About, Concerns
<1> HIDE DEF x
<1>3. \E qs : requests' = [requests EXCEPT ![c] = qs] /\ Confirms(host, x, session[c], peers[c], qs)
  <2>1. CASE \E p \in DOMAIN x.entries :
               entry(x, p).remote /\ requests' = [requests EXCEPT ![c] = @ \union {<<p, Version(entry(x, p))>>}]
    <3>1. PICK p \in DOMAIN x.entries :
            entry(x, p).remote /\ requests' = [requests EXCEPT ![c] = @ \union {<<p, Version(entry(x, p))>>}]
      BY <2>1
    <3> DEFINE qs == requests[c] \union {<<p, Version(entry(x, p))>>}
    <3>2. Confirms(host, x, session[c], peers[c], qs) BY <1>2, <3>1, RequestsOn
    <3> QED BY <3>1, <3>2
  <2>2. CASE \E r : requests' = [requests EXCEPT ![c] = @ \ {r}]
    <3>1. PICK r : requests' = [requests EXCEPT ![c] = @ \ {r}] BY <2>2
    <3> DEFINE qs == requests[c] \ {r}
    <3>2. qs \subseteq requests[c] OBVIOUS
    <3>3. Confirms(host, x, session[c], peers[c], qs) BY <1>2, <3>2, FewerOn
    <3> QED BY <3>1, <3>3
  <2> QED BY <1>1, <2>1, <2>2
<1>4. PICK qs : requests' = [requests EXCEPT ![c] = qs] /\ Confirms(host, x, session[c], peers[c], qs) BY <1>3
<1>5. requests'[c] = qs BY <1>4 DEF IInv, Tables
<1>6. dev'[c] = x /\ dev'[Host] = host BY <1>1 DEF x, host
<1>7. (\E R : Leads(c, dev'[c], R)) /\ (\E R : Leads(Host, dev'[Host], R)) BY <1>6, Concerns DEF x
<1>8. manifests'[c].members \subseteq manifests[c].members BY <1>1
<1>9. Confirms(host, dev'[c], session'[c], peers'[c], requests'[c]) BY <1>1, <1>4, <1>5, <1>6
<1> QED BY <1>1, <1>4, <1>7, <1>8, <1>9, OneTurn

(* One device changes on its own: its user, or its indexer. *)
LEMMA DeviceTurn ==
  ASSUME IInv, IInv', Confirmed, NEW d \in Device, NEW y, Local(d, y), Good(y), Evolves(dev[d], y, {}), Leads(d, y, {}),
         d \in Clients => Steady(dev[d], y), UNCHANGED <<peers, session, manifests, requests>>
  PROVE  Confirmed'
<1>1. peers' = peers /\ session' = session /\ manifests' = manifests /\ requests' = requests OBVIOUS
<1>2. dev' = [dev EXCEPT ![d] = y] BY DEF Local
<1>3. dev'[d] = y /\ \A i \in Device : i # d => dev'[i] = dev[i] BY <1>2 DEF IInv, Tables
<1>4. Clients \subseteq Device BY DEF Device
<1>5. ASSUME NEW i \in Device PROVE \E R : Leads(i, dev'[i], R)
  <2>1. \A R : Leads(i, dev[i], R) BY LeadsSame DEF SameIndex
  <2> QED BY <1>3, <2>1
<1>6. ASSUME NEW c \in Clients PROVE Confirms(host, dev'[c], session'[c], peers'[c], requests'[c])
  <2>1. Confirms(host, dev[c], session[c], peers[c], requests[c]) BY DEF Confirmed
  <2>2. CASE c # d BY <1>1, <1>3, <1>4, <2>1, <2>2
  <2>3. CASE c = d
    <3> DEFINE x == dev[c]
               s == session[c]
               k == peers[c]
    <3>1. /\ Good(host) /\ Good(x) /\ x.id # Host /\ c # Host /\ Client(host, x, s, k, manifests[c])
      BY About
    <3>2. Evolves(x, y, {}) /\ Steady(x, y) /\ {} \subseteq s.todo BY <2>3
    <3>3. Moves(x, y, {})
      <4> DEFINE W == Marks \union {<<c, p>> : p \in DOMAIN y.entries}
      <4>1. Marks \subseteq W /\ \A p \in DOMAIN y.entries : <<c, p>> \in W OBVIOUS
      <4> HIDE DEF W
      <4> QED BY <2>3, <3>1, <4>1 DEF Leads
    <3>4. Confirms(host, x, s, k, requests[c]) BY <2>1
    <3> HIDE DEF x, s, k
    <3>5. Confirms(host, y, s, k, requests[c]) BY <3>1, <3>2, <3>3, <3>4, MirrorMovesOn
    <3> QED BY <1>1, <1>3, <2>3, <3>5 DEF s, k
  <2> QED BY <2>2, <2>3
<1>7. \A c \in Clients : manifests'[c].members \subseteq manifests[c].members BY <1>1
<1> QED BY <1>5, <1>6, <1>7, Turn

LEMMA EditTurn ==
  ASSUME IInv, IInv', Confirmed, NEW d \in Device, NEW p, NEW body \in Body, Edit(d, p, body)
  PROVE  Confirmed'
<1> DEFINE y == onDisk(dev[d], p, body)
<1>1. Local(d, y) /\ UNCHANGED <<peers, session, manifests, requests>> BY DEF Edit
<1>2. Good(dev[d]) BY DEF IInv, Devices
<1>3. Good(y) /\ Evolves(dev[d], y, {}) BY <1>2, DiskOnly
<1>4. SameIndex(dev[d], y) BY <1>2, Written
<1> HIDE DEF y
<1>5. Steady(dev[d], y) BY <1>2, <1>4, SteadySame
<1>6. Leads(d, y, {}) BY <1>4, LeadsSame
<1> QED BY <1>1, <1>3, <1>5, <1>6, DeviceTurn

LEMMA UserEditTurn ==
  ASSUME IInv, IInv', Confirmed, UserEdit
  PROVE  Confirmed'
<1>1. Deleted \in Body /\ Directory \in Body BY DEF Body
<1>2. NewContent \in Body
  <2>1. Len(Seed) \in Nat /\ edits \in Nat BY SeedAssumption, LenProperties DEF IInv, Tables
  <2> QED BY <2>1 DEF NewContent, Body, IsFile
<1>3. \E d \in Device : \E p : \E body \in {NewContent, Deleted, Directory} : Edit(d, p, body) BY DEF UserEdit
<1> QED BY <1>1, <1>2, <1>3, EditTurn

LEMMA IndexTurn ==
  ASSUME IInv, IInv', Orderly, Confirmed, NEW d \in Device, IndexSome(d)
  PROVE  Confirmed'
<1>1. PICK p : Index(d, p) BY DEF IndexSome
<1> DEFINE y == observed(dev[d], p, 0)
<1>2. Local(d, y) /\ UNCHANGED <<peers, session, manifests, requests>> BY <1>1 DEF Index
<1>3. Good(dev[d]) /\ dev[d].id = d BY DEF IInv, Devices
<1>4. Good(y) /\ Evolves(dev[d], y, {}) BY <1>3, Observed
<1>5. d \in Clients => Steady(dev[d], y)
  <2>1. d \in Clients => dev[d].id # Host BY <1>3, HostAssumption
  <2> QED BY <1>3, <2>1, SteadyIndexed
<1>6. Leads(d, y, {}) BY LeadsIndexed
<1> HIDE DEF y
<1> QED BY <1>2, <1>4, <1>5, <1>6, DeviceTurn

-----------------------------------------------------------------------------
(* The first state. *)
LEMMA InitConfirmed == Init => Confirmed
<1> SUFFICES ASSUME Init PROVE Confirmed OBVIOUS
<1> DEFINE N == Len(Seed)
<1>1. /\ \A d \in Device : dev[d] = SeededDevice(d)
      /\ \A c \in Clients : /\ peers[c] = [pulled |-> N, pushed |-> N] /\ session[c] = Inactive(0, FALSE)
                            /\ manifests[c] = NoManifest /\ requests[c] = {}
  BY DEF Init
<1>2. N \in Nat BY SeedFacts
<1>3. ASSUME NEW d \in Device
      PROVE  /\ Good(dev[d]) /\ dev[d].id = d /\ dev[d].head = N /\ DOMAIN dev[d].entries = SeedPaths
             /\ \A p \in SeedPaths : /\ SeedIndex(p) \in 1..N
                                     /\ dev[d].entries[p].rev = SeedIndex(p) /\ dev[d].entries[p].clock = SeedClock(SeedIndex(p))
             /\ \A n \in 1..N : dev[d].journal[n].path = <<Seed[n].name>> /\ dev[d].journal[n].clock = SeedClock(n)
  <2> DEFINE x == SeededDevice(d)
  <2>1. /\ Good(x) /\ x.id = d /\ x.head = N /\ DOMAIN x.entries = SeedPaths
        /\ \A p \in SeedPaths : x.entries[p].rev = SeedIndex(p) /\ x.entries[p].clock = SeedClock(SeedIndex(p))
    BY SeededFacts
  <2>2. ASSUME NEW n \in 1..N PROVE x.journal[n].path = <<Seed[n].name>> /\ x.journal[n].clock = SeedClock(n)
    <3> DEFINE row == [path |-> <<Seed[n].name>>, body |-> Seed[n].body, clock |-> SeedClock(n), parents |-> {}]
    <3>1. x.journal[n] = row BY SeededFacts
    <3>2. row.path = <<Seed[n].name>> /\ row.clock = SeedClock(n) OBVIOUS
    <3> HIDE DEF row, x
    <3> QED BY <3>1, <3>2
  <2>3. dev[d] = x BY <1>1
  <2>4. \A p \in SeedPaths : SeedIndex(p) \in 1..N BY SeedFacts
  <2> HIDE DEF x, N
  <2> QED BY <2>1, <2>2, <2>3, <2>4
<1>4. ASSUME NEW i \in 1..N, NEW c \in Clients PROVE SeedClock(i)[c] = 0
  <2>1. c # Host /\ c \in Device BY HostAssumption DEF Device
  <2> QED BY <2>1 DEF SeedClock, ZeroClock
<1>5. \A i, j \in 1..N : <<Seed[i].name>> = <<Seed[j].name>> => i = j
  <2> SUFFICES ASSUME NEW i \in 1..N, NEW j \in 1..N, <<Seed[i].name>> = <<Seed[j].name>> PROVE i = j OBVIOUS
  <2>1. SeedIndex(<<Seed[i].name>>) = i /\ SeedIndex(<<Seed[j].name>>) = j BY SeedFacts
  <2> QED BY <2>1
<1>6. Host \in Device /\ Clients \subseteq Device BY DEF Device
<1> HIDE DEF N
<1>7. ASSUME NEW d \in Device PROVE Sound(Marks, dev[d])
  <2> DEFINE x == dev[d]
  <2>1. \A p \in DOMAIN x.entries : x.entries[p].rev # 0
    <3>1. \A p \in SeedPaths : x.entries[p].rev \in 1..N BY <1>3
    <3> QED BY <1>2, <1>3, <3>1
  <2>2. \A p \in DOMAIN x.entries : Known(Marks, p, x.entries[p].clock) BY <1>3, <1>4 DEF Known
  <2>3. \A n \in 1..x.head : Known(Marks, x.journal[n].path, x.journal[n].clock) BY <1>3, <1>4 DEF Known
  <2>4. Rises(x)
    <3> SUFFICES ASSUME NEW m \in 1..x.head, NEW n \in 1..x.head, m < n, x.journal[m].path = x.journal[n].path PROVE FALSE
      BY DEF Rises
    <3>1. m \in 1..N /\ n \in 1..N BY <1>3
    <3>2. x.journal[m].path = <<Seed[m].name>> /\ x.journal[n].path = <<Seed[n].name>> BY <1>3, <3>1
    <3>3. m = n BY <1>5, <3>1, <3>2
    <3> QED BY <1>2, <3>1, <3>3
  <2> QED BY <2>1, <2>2, <2>3, <2>4 DEF Sound, Rooted, Within
<1>8. ASSUME NEW c \in Clients
      PROVE  Offered(host, Marks, manifests[c]) /\ Confirms(host, dev[c], session[c], peers[c], requests[c])
  <2> DEFINE s == session[c]
             k == peers[c]
             x == dev[c]
  <2>1. manifests[c].members = {} /\ requests[c] = {}
    <3>1. manifests[c] = NoManifest /\ requests[c] = {} BY <1>1
    <3> QED BY ONLY <3>1 DEF NoManifest
  <2>2. s.pc = "idle" /\ s.ok = FALSE BY <1>1 DEF Inactive
  <2>3. k.pulled = N
    <3>1. peers[c] = [pulled |-> N, pushed |-> N] BY <1>1
    <3> QED BY ONLY <3>1
  <2>4. host.head = N /\ N <= N BY <1>2, <1>3, <1>6 DEF host
  <2>5. ASSUME NEW n \in 1..N PROVE Caught(host, x, n)
    <3> DEFINE p == <<Seed[n].name>>
    <3>1. host.journal[n].path = p BY <1>3, <1>6 DEF host
    <3>2. p \in SeedPaths /\ SeedIndex(p) = n BY SeedFacts DEF N
    <3>3. c \in Device BY <1>6
    <3>4. Good(x) /\ p \in DOMAIN x.entries /\ x.entries[p].rev = n BY <1>3, <3>2, <3>3
    <3>5. entry(x, p).rev = n BY <3>4, Holds
    <3>6. n \in Nat /\ n # 0 /\ n <= n BY <1>2
    <3> QED BY <3>1, <3>5, <3>6 DEF Caught, Stands
  <2> HIDE DEF s, k, x
  <2>6. Asked(host, x, {}) BY DEF Asked
  <2>7. Listed(host, x, s, k, {}) BY <2>2 DEF Listed
  <2>8. Closed(x, s, k) BY <2>2 DEF Closed
  <2>9. Confirms(host, x, s, k, {}) BY <2>3, <2>4, <2>5, <2>6, <2>7, <2>8 DEF Confirms
  <2>10. Offered(host, Marks, manifests[c]) BY <2>1 DEF Offered
  <2> QED BY <2>1, <2>9, <2>10 DEF s, k, x
<1> QED BY <1>7, <1>8 DEF Confirmed

LEMMA NextConfirmed ==
  ASSUME IInv, IInv', Orderly, Confirmed, Next
  PROVE  Confirmed'
<1>1. CASE UserEdit BY <1>1, UserEditTurn
<1>2. CASE HostRestart BY <1>2, HostRestartTurn
<1>3. CASE \E d \in Device : IndexSome(d) BY <1>3, IndexTurn
<1>4. ASSUME NEW c \in Clients, Round(c) PROVE Confirmed'
  <2>1. CASE Start(c) BY <2>1, StartTurn
  <2>2. CASE ScanFailed(c)
    <3>1. Finish(c) /\ UNCHANGED <<dev, peers, manifests, requests>> BY <2>2 DEF ScanFailed
    <3> QED BY <3>1, FinishTurn
  <2>3. CASE ChangesPage(c) BY <2>3, ChangesPageTurn
  <2>4. CASE JournalPage(c) BY <2>4, JournalPageTurn
  <2>5. CASE Announce(c) BY <2>5, AnnounceTurn
  <2>6. CASE \E e \in session[c].todo : PullMetadata(c, e) BY <2>6, PullMetadataTurn
  <2>7. CASE \E e \in session[c].todo : PullBegin(c, e) BY <2>7, PullBeginTurn
  <2>8. CASE \E e \in session[c].todo : PushBegin(c, e) BY <2>8, PushBeginTurn
  <2>9. CASE PullCommit(c) BY <2>9, PullCommitTurn
  <2>10. CASE EarlyPush(c) BY <2>10, EarlyPushTurn
  <2>11. CASE PullDone(c) BY <2>11, PullDoneTurn
  <2>12. CASE SendFailed(c) BY <2>12, SendFailedTurn
  <2>13. CASE PushCommit(c) BY <2>13, PushCommitTurn
  <2>14. CASE PushDone(c) BY <2>14, PushDoneTurn
  <2> QED BY <1>4, <2>1, <2>2, <2>3, <2>4, <2>5, <2>6, <2>7, <2>8, <2>9, <2>10, <2>11, <2>12, <2>13, <2>14 DEF Round
<1>5. ASSUME NEW c \in Clients, Fault(c) PROVE Confirmed'
  <2>1. CASE SliceExpired(c) BY <2>1, SliceExpiredTurn
  <2>2. CASE Abort(c) BY <2>2, AbortTurn
  <2>3. CASE HostCrash(c) BY <2>3, HostCrashTurn
  <2>4. CASE ClientCrash(c) BY <2>4, ClientCrashTurn
  <2>5. CASE \E m \in late[c] : LateCommit(c, m) BY <2>5, LateCommitTurn
  <2> QED BY <1>5, <2>1, <2>2, <2>3, <2>4, <2>5 DEF Fault
<1>6. ASSUME NEW c \in Clients, Choice(c) PROVE Confirmed' BY <1>6, ChoiceTurn
<1> QED BY <1>1, <1>2, <1>3, <1>4, <1>5, <1>6 DEF Next

(***************************************************************************)
(* For every device, edit, page limit, content policy, failure and         *)
(* interleaving: what a round lists covers the originals the cursor is to  *)
(* pass, a mirror's record of one stands on the revision it was listed     *)
(* with or goes beyond it, and what a round may close has been decided     *)
(* (pullNext, pushNext, savePeerState).                                    *)
(***************************************************************************)
THEOREM Standing == Spec => []Confirmed
<1>1. Init => Orderly /\ Confirmed BY InitOrderly, InitConfirmed
<1>2. /\ IInv /\ IInv' /\ Orderly /\ Confirmed /\ [Next /\ UNCHANGED metadataFirst]_<<vars, metadataFirst>>
      => Orderly' /\ Confirmed'
  <2> SUFFICES ASSUME IInv, IInv', Orderly, Confirmed, [Next /\ UNCHANGED metadataFirst]_<<vars, metadataFirst>>
               PROVE  Orderly' /\ Confirmed'
    OBVIOUS
  <2>1. CASE Next BY <2>1, NextOrderly, NextConfirmed
  <2>2. CASE UNCHANGED vars
    <3>1. dev' = dev /\ peers' = peers /\ session' = session /\ manifests' = manifests /\ requests' = requests
      BY <2>2 DEF vars
    <3>2. Orderly' BY <3>1 DEF Orderly, Named
    <3>3. Confirmed' BY <3>1 DEF Confirmed, Marks, host
    <3> QED BY <3>2, <3>3
  <2> QED BY <2>1, <2>2
<1> QED BY <1>1, <1>2, Invariance, PTL DEF Spec

(***************************************************************************)
(* A round that reports success has received the decision on every         *)
(* user-visible path it had submitted, under either content policy         *)
(* (pushNext, finish).                                                     *)
(***************************************************************************)
THEOREM DecisionsReturn == Spec => []OriginalsConfirmed
<1>1. Confirmed => OriginalsConfirmed
  <2> SUFFICES ASSUME Confirmed, NEW c \in Clients, session[c].ok, NEW p \in DOMAIN dev[c].entries, Len(p) = 1,
                      dev[c].entries[p].seq <= peers[c].pushed
               PROVE  ~Pending(dev[c].entries[p])
    BY DEF OriginalsConfirmed
  <2>1. Agrees(dev[c], peers[c].pushed) BY DEF Confirmed, Confirms, Closed
  <2>2. dev[c].entries[p].rev # 0 BY <2>1 DEF Agrees, Own
  <2> QED BY <2>2 DEF Pending
<1> QED BY <1>1, Standing, PTL

(***************************************************************************)
(* The pull cursor passes over no user-visible path, under either content  *)
(* policy: what CursorSound says, of every path that is not a conflict     *)
(* copy (pullNext, savePeerState).                                         *)
(***************************************************************************)
OriginalsPulled ==
  \A c \in Clients : \A n \in 1..peers[c].pulled :
    LET p == host.journal[n].path
        e == entry(dev[c], p)
    IN Own(p) => /\ e.body # Missing
                 /\ Pending(e) \/ e.rev >= LatestUpTo(host, p, peers[c].pulled)

THEOREM OriginalsReach == Spec => []OriginalsPulled
<1>1. IInv /\ Confirmed => OriginalsPulled
  <2> SUFFICES ASSUME IInv, Confirmed, NEW c \in Clients, NEW n \in 1..peers[c].pulled, Own(host.journal[n].path)
               PROVE  LET p == host.journal[n].path
                          e == entry(dev[c], p)
                      IN e.body # Missing /\ (Pending(e) \/ e.rev >= LatestUpTo(host, p, peers[c].pulled))
    BY DEF OriginalsPulled
  <2> DEFINE h == host
             x == dev[c]
             k == peers[c]
             p == h.journal[n].path
             l == LatestUpTo(h, p, k.pulled)
  <2>1. Good(x) /\ Good(h) /\ Cursor(k) BY About DEF Client
  <2>2. h.head \in Nat /\ k.pulled \in Nat BY <2>1 DEF Good, Solid, Shape, Cursor
  <2>3. k.pulled <= h.head /\ \A i \in 1..k.pulled : Caught(h, x, i) BY DEF Confirmed, Confirms
  <2>4. n \in 1..h.head /\ n <= k.pulled /\ Own(p) BY <2>2, <2>3
  <2> HIDE DEF h, x, k
  <2>5. l \in 1..h.head /\ l <= k.pulled /\ h.journal[l].path = p
    <3> HIDE DEF p
    <3>1. h.journal[n].path = p BY DEF p
    <3>2. \/ l = 0 \/ (l \in 1..h.head /\ l <= k.pulled /\ h.journal[l].path = p) BY <2>2, LatestFacts
    <3>3. \A i \in 1..h.head : i <= k.pulled /\ h.journal[i].path = p => i <= l /\ l # 0 BY <2>2, LatestFacts
    <3> QED BY <2>4, <3>1, <3>2, <3>3
  <2> HIDE DEF p, l
  <2>6. l \in 1..k.pulled BY <2>2, <2>5
  <2>7. l <= Stands(x, p) BY <2>3, <2>4, <2>5, <2>6 DEF Caught
  <2>8. l \in Nat /\ l # 0 BY <2>2, <2>5
  <2>9. Stands(x, p) # 0 /\ Stands(x, p) \in Nat BY <2>1, <2>7, <2>8, Holds DEF Stands
  <2>10. p \in DOMAIN x.entries
    <3>1. CASE p \notin DOMAIN x.entries
      <4>1. entry(x, p) = NoEntry(p) BY <2>1, <3>1, Holds
      <4>2. entry(x, p).rev = 0 /\ entry(x, p).base = 0 BY <4>1 DEF NoEntry
      <4> QED BY <2>9, <4>2 DEF Stands
    <3> QED BY <3>1
  <2>11. entry(x, p).body \in Body /\ Missing \notin Body BY <2>1, <2>10, Holds DEF Entry
  <2>12. entry(x, p).body # Missing BY <2>11
  <2>13. entry(x, p).rev = 0 => Pending(entry(x, p)) BY <2>12 DEF Pending
  <2>14. entry(x, p).rev # 0 => entry(x, p).rev >= l
    <3>1. entry(x, p).rev \in Nat BY <2>1, Holds
    <3> QED BY <2>7, <2>8, <3>1 DEF Stands
  <2> QED BY <2>12, <2>13, <2>14 DEF h, x, k, p, l
<1> QED BY <1>1, Standing, Invariance, PTL
=============================================================================
