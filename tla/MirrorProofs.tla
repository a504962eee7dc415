---------------------------- MODULE MirrorProofs ----------------------------
(***************************************************************************)
(* What an application is shown of the selected drive, for any places,     *)
(* daemons and numbers of edits, packages, selections and restarts.        *)
(***************************************************************************)
EXTENDS Mirror, SequenceTheorems, TLAPS

Drive == Root \X Nat
Storage == Drive \union {None}
Rows == [drive : Storage, content : Nat, available : BOOLEAN]
State == [available : BOOLEAN, id : Storage, instance : Nat, revision : Nat, running : BOOLEAN]
File == [id : Drive, instance : Nat, revision : Nat, seen : Nat, running : BOOLEAN]
Publisher ==
  [running : BOOLEAN, id : Storage, instance : Nat, revision : Nat, seen : Nat, initial : BOOLEAN,
   pc : {"idle", "write"}, scan : Nat]
Job == [epoch : Nat, storage : Storage, rows : Rows \union {None}]
Subscription == [id : Storage, epoch : Nat, previous : State \union {None}]
FileSystem ==
  [storage : Storage, rows : Rows, epoch : Nat, inFlight : BOOLEAN, pending : BOOLEAN, job : Job \union {None},
   timer : BOOLEAN, monitorEpoch : Nat, watched : Storage, sub : Subscription \union {None}, state : State]
RowsCall == [type : {"rows"}, epoch : Nat, value : Rows]
StateCall == [type : {"state"}, epoch : Nat, value : State]

World ==
  /\ package \in [Root -> Nat] /\ content \in [Root -> Nat]
  /\ file \in [Root -> File \union {None}] /\ fresh \in [Root -> BOOLEAN]

-----------------------------------------------------------------------------
(***************************************************************************)
(* The daemons.  A package has one running publisher.  While the state     *)
(* file is of its package, it has counted at least as far as the file, and *)
(* once it has written, the file says what it knows.                       *)
(***************************************************************************)
Alone == \A d, e \in Daemons : pub[d].running /\ pub[e].running /\ pub[d].id = pub[e].id => d = e

Counts(p, f) ==
  p.running /\ f # None /\ f.id = p.id =>
    /\ f.revision <= p.revision
    /\ ~p.initial => f.revision = p.revision /\ f.seen = p.seen

DInv ==
  /\ pub \in [Daemons -> Publisher] /\ instances \in Nat
  /\ \A d \in Daemons : pub[d].running => pub[d].id \in Drive
  /\ \A r \in Root : file[r] # None => file[r].id[1] = r
  /\ Alone /\ \A d \in Daemons, r \in Root : Counts(pub[d], file[r])

(***************************************************************************)
(* The application.  Rows are never ahead of their drive; those of a scan  *)
(* that is not outdated are of the selected drive and no older than what   *)
(* is shown.  One scan is in flight, with the worker or in the event loop. *)
(***************************************************************************)
NotAhead(rows, k, c) ==
  rows.available =>
    /\ rows.drive \in Drive /\ rows.drive[2] <= k[rows.drive[1]]
    /\ rows.drive[2] = k[rows.drive[1]] => rows.content <= c[rows.drive[1]]

Follows(rows, f) ==
  rows.available => rows.drive = f.storage /\ (f.rows.available => f.rows.content <= rows.content)

(* The job of the worker. *)
Scans(f, k, c) ==
  f.job # None =>
    /\ f.inFlight /\ f.job.epoch <= f.epoch
    /\ f.job.epoch = f.epoch => f.job.storage = f.storage
    /\ f.job.rows # None => NotAhead(f.job.rows, k, c) /\ (f.job.epoch = f.epoch => Follows(f.job.rows, f))

(* A call in the event loop. *)
Tells(call, f, k, c) ==
  IF call.type = "rows"
  THEN /\ call.epoch <= f.epoch /\ NotAhead(call.value, k, c)
       /\ call.epoch = f.epoch => Follows(call.value, f)
  ELSE /\ call.epoch <= f.monitorEpoch
       /\ call.epoch = f.monitorEpoch /\ call.value.available => call.value.id = f.storage

Scanned(calls) == {i \in 1..Len(calls) : calls[i].type = "rows"}

One(f, calls) ==
  /\ f.job # None => Scanned(calls) = {}
  /\ Scanned(calls) # {} => f.inFlight
  /\ \A i, j \in Scanned(calls) : i = j

Watches(f) ==
  /\ f.watched # None => f.watched = f.storage
  /\ f.sub # None => f.sub.id = f.storage /\ f.sub.epoch = f.monitorEpoch
  /\ f.state.available => f.state.id = f.storage

Shows(f, k, c) ==
  /\ NotAhead(f.rows, k, c)
  /\ f.rows.available => f.rows.drive = f.storage

(* An application f with these calls in its event loop, when packages and contents are k and c. *)
Tracks(f, calls, k, c) ==
  /\ f \in FileSystem /\ calls \in Seq(RowsCall \union StateCall)
  /\ Shows(f, k, c) /\ Scans(f, k, c) /\ Watches(f) /\ One(f, calls)
  /\ \A i \in 1..Len(calls) : Tells(calls[i], f, k, c)

AInv == Tracks(fs, events, package, content)

IInv == World /\ DInv /\ AInv

-----------------------------------------------------------------------------
(* Numbers and names of drives. *)
LEMMA DriveFacts ==
  /\ None \notin Drive
  /\ \A s \in Drive : s[1] \in Root /\ s[2] \in Nat /\ s = <<s[1], s[2]>>
  /\ World => \A r \in Root : Id(r) \in Drive /\ Id(r)[1] = r /\ Id(r)[2] = package[r] /\ valid(Id(r))
<1>1. None \notin Drive BY NoneAssumption DEF Drive
<1>2. \A s \in Drive : s[1] \in Root /\ s[2] \in Nat /\ s = <<s[1], s[2]>> BY DEF Drive
<1>3. ASSUME World, NEW r \in Root PROVE Id(r) \in Drive /\ Id(r)[1] = r /\ Id(r)[2] = package[r] /\ valid(Id(r))
  <2>1. package[r] \in Nat BY <1>3 DEF World
  <2>2. Id(r) \in Drive /\ Id(r)[1] = r /\ Id(r)[2] = package[r] BY <2>1 DEF Id, Drive
  <2> QED BY <1>1, <2>2 DEF valid
<1> QED BY <1>1, <1>2, <1>3

(* A write of a publisher follows what the state file of its package says. *)
FileForward(r) ==
  file[r] # None /\ file'[r] # None /\ file'[r].id = file[r].id
  => \/ file'[r].revision > file[r].revision
     \/ file'[r].revision = file[r].revision /\ file'[r].seen = file[r].seen

(* The world and the daemons: every step keeps their invariant and the numbers of the files. *)
LEMMA StepDaemons ==
  ASSUME World, DInv, [Next]_vars
  PROVE  World' /\ DInv' /\ \A r \in Root : FileForward(r)
<1> USE DEF drives, daemon, app
<1>w. /\ package \in [Root -> Nat] /\ content \in [Root -> Nat]
      /\ file \in [Root -> File \union {None}] /\ fresh \in [Root -> BOOLEAN]
  BY DEF World
<1>d. /\ pub \in [Daemons -> Publisher] /\ instances \in Nat /\ Alone
      /\ \A d \in Daemons : pub[d].running => pub[d].id \in Drive
      /\ \A d \in Daemons, r \in Root : Counts(pub[d], file[r])
  BY DEF DInv
<1>f. \A r \in Root : file[r] # None => file[r].id[1] = r BY DEF DInv
<1>n. \A r \in Root : file[r] # None => file[r] \in File /\ file[r].revision \in Nat
  <2>1. ASSUME NEW x \in File PROVE x.revision \in Nat BY DEF File
  <2> QED BY <2>1, <1>w
<1>u. ASSUME UNCHANGED <<file, pub, instances>>, World' PROVE World' /\ DInv' /\ \A r \in Root : FileForward(r)
  <2> QED BY <1>u, <1>n DEF DInv, Alone, Counts, FileForward
<1>1. ASSUME NEW r \in Root, Edit(r) \/ Age(r) PROVE World' /\ DInv' /\ \A q \in Root : FileForward(q)
  <2>1. UNCHANGED <<file, pub, instances, package>> BY <1>1 DEF Edit, Age
  <2>2. content' \in [Root -> Nat] /\ fresh' \in [Root -> BOOLEAN]
    <3>1. CASE Edit(r) BY <3>1, <1>w DEF Edit
    <3>2. CASE Age(r) BY <3>2, <1>w DEF Age
    <3> QED BY <1>1, <3>1, <3>2
  <2> QED BY <1>w, <1>u, <2>1, <2>2 DEF World
<1>2. ASSUME NEW r \in Root, Replace(r) PROVE World' /\ DInv' /\ \A q \in Root : FileForward(q)
  <2>1. /\ package' = [package EXCEPT ![r] = @ + 1] /\ content' = [content EXCEPT ![r] = 1]
        /\ file' = [file EXCEPT ![r] = None] /\ UNCHANGED <<fresh, pub, instances>>
    BY <1>2 DEF Replace
  <2>2. World' BY <2>1, <1>w DEF World
  <2>3. \A q \in Root : file'[q] = None \/ file'[q] = file[q] BY <2>1, <1>w
  <2>4. DInv' BY <2>1, <2>3, <1>d, <1>f DEF DInv, Alone, Counts
  <2>5. \A q \in Root : FileForward(q) BY <2>3 DEF FileForward
  <2> QED BY <2>2, <2>4, <2>5
<1>3. ASSUME UNCHANGED <<package, content, file, fresh, instances>>, NEW d \in Daemons,
             NEW p \in Publisher, pub' = [pub EXCEPT ![d] = p],
             p.running => /\ pub[d].running /\ p.id = pub[d].id /\ p.revision = pub[d].revision
                          /\ p.initial = pub[d].initial /\ p.seen = pub[d].seen
      PROVE  World' /\ DInv' /\ \A q \in Root : FileForward(q)
  <2>1. /\ pub'[d] = p /\ \A e \in Daemons \ {d} : pub'[e] = pub[e]
        /\ pub' \in [Daemons -> Publisher]
    BY <1>3, <1>d
  <2>2. \A e \in Daemons : pub'[e].running => pub[e].running /\ pub'[e].id = pub[e].id BY <1>3, <2>1
  <2>3. Alone' BY <2>2, <1>d DEF Alone
  <2>4. \A e \in Daemons, q \in Root : Counts(pub'[e], file[q]) BY <1>3, <2>1, <1>d DEF Counts
  <2>5. \A q \in Root : FileForward(q) BY <1>3 DEF FileForward
  <2> QED BY <1>3, <1>w, <1>d, <2>1, <2>2, <2>3, <2>4, <2>5, <1>f DEF World, DInv
<1>i. Idle \in Publisher /\ ~Idle.running BY DEF Idle, Publisher, Storage
<1>4. ASSUME NEW d \in Daemons, NEW r \in Root, PublisherStart(d, r)
      PROVE  World' /\ DInv' /\ \A q \in Root : FileForward(q)
  <2> DEFINE p == [Idle EXCEPT !.running = TRUE, !.id = Id(r), !.instance = instances + 1,
                               !.revision = adopted(Id(r)), !.initial = TRUE]
  <2>1. /\ ~locked(Id(r)) /\ instances' = instances + 1 /\ UNCHANGED <<package, content, file, fresh>>
        /\ pub' = [pub EXCEPT ![d] = p]
    BY <1>4 DEF PublisherStart
  <2>2. Id(r) \in Drive /\ Id(r)[1] = r /\ valid(Id(r)) BY DriveFacts
  <2>3. /\ adopted(Id(r)) \in Nat
        /\ file[r] # None /\ file[r].id = Id(r) => adopted(Id(r)) = file[r].revision
    <3> QED BY <2>2, <1>n DEF adopted, readable
  <2>4. p \in Publisher /\ p.running /\ p.id = Id(r) /\ p.revision = adopted(Id(r)) /\ p.initial
    <3> DEFINE s == Id(r)
               v == adopted(Id(r))
               k == instances + 1
    <3>1. s \in Storage /\ v \in Nat /\ k \in Nat BY <2>2, <2>3, <1>d DEF Storage
    <3> HIDE DEF s, v, k
    <3>2. p = [Idle EXCEPT !.running = TRUE, !.id = s, !.instance = k, !.revision = v, !.initial = TRUE]
      BY DEF s, v, k
    <3>3. /\ [Idle EXCEPT !.running = TRUE, !.id = s, !.instance = k, !.revision = v, !.initial = TRUE] \in Publisher
          /\ p.running /\ p.id = s /\ p.revision = v /\ p.initial
      BY <3>1, <3>2, <1>i DEF Publisher
    <3> QED BY <3>2, <3>3 DEF s, v
  <2> HIDE DEF p
  <2>5. /\ pub'[d] = p /\ \A e \in Daemons \ {d} : pub'[e] = pub[e]
        /\ pub' \in [Daemons -> Publisher]
    BY <2>1, <2>4, <1>d
  <2>6. Alone' BY <2>1, <2>4, <2>5, <1>d DEF Alone, locked
  <2>7. \A q \in Root : Counts(p, file[q])
    <3> SUFFICES ASSUME NEW q \in Root, file[q] # None, file[q].id = p.id PROVE file[q].revision <= p.revision
      BY <2>4 DEF Counts
    <3>1. CASE q = r BY <2>3, <2>4, <3>1, <1>n
    <3>2. CASE q # r BY <2>2, <2>4, <3>2, <1>f
    <3> QED BY <3>1, <3>2
  <2>8. \A e \in Daemons, q \in Root : Counts(pub'[e], file[q]) BY <2>5, <2>7, <1>d
  <2>9. \A q \in Root : FileForward(q) BY <2>1 DEF FileForward
  <2> QED BY <2>1, <2>2, <2>4, <2>5, <2>6, <2>8, <2>9, <1>w, <1>d, <1>f DEF World, DInv
<1>5. ASSUME NEW d \in Daemons, PollScan(d) PROVE World' /\ DInv' /\ \A q \in Root : FileForward(q)
  <2> DEFINE p == IF valid(pub[d].id) THEN [pub[d] EXCEPT !.pc = "write", !.scan = content[pub[d].id[1]]] ELSE Idle
  <2>1. UNCHANGED <<package, content, file, fresh, instances>> /\ pub' = [pub EXCEPT ![d] = p] /\ pub[d].running
    BY <1>5, <1>d DEF PollScan
  <2>2. content[pub[d].id[1]] \in Nat
    <3>1. pub[d].id[1] \in Root BY <2>1, <1>d, DriveFacts
    <3> QED BY <3>1, <1>w
  <2>3. /\ p \in Publisher
        /\ p.running => /\ p.id = pub[d].id /\ p.revision = pub[d].revision
                        /\ p.initial = pub[d].initial /\ p.seen = pub[d].seen
    <3>1. pub[d] \in Publisher BY <1>d
    <3> DEFINE c == content[pub[d].id[1]]
    <3>2. c \in Nat BY <2>2
    <3> HIDE DEF c
    <3>3. CASE valid(pub[d].id)
      <4>1. p = [pub[d] EXCEPT !.pc = "write", !.scan = c] BY <3>3 DEF c
      <4> HIDE DEF p
      <4> QED BY <3>1, <3>2, <4>1 DEF Publisher
    <3>4. CASE ~valid(pub[d].id) BY <3>4, <1>i
    <3> QED BY <3>3, <3>4
  <2> HIDE DEF p
  <2> QED BY <1>3, <2>1, <2>3
<1>6. ASSUME NEW d \in Daemons, Crash(d) PROVE World' /\ DInv' /\ \A q \in Root : FileForward(q)
  <2>1. UNCHANGED <<package, content, file, fresh, instances>> /\ pub' = [pub EXCEPT ![d] = Idle]
    BY <1>6 DEF Crash
  <2> QED BY <1>3, <1>i, <2>1
(* A publisher writes the state file of its package. *)
<1>7. ASSUME NEW d \in Daemons, pub[d].running, NEW x \in File \union {None}, NEW p \in Publisher,
             file' = [file EXCEPT ![pub[d].id[1]] = x], pub' = [pub EXCEPT ![d] = p],
             UNCHANGED <<package, content, instances>>, fresh' \in [Root -> BOOLEAN],
             x # None => /\ x.id = pub[d].id
                         /\ \/ x.revision > pub[d].revision
                            \/ x.revision = pub[d].revision /\ x.seen = pub[d].seen /\ ~pub[d].initial,
             p.running => p.id = pub[d].id /\ p.revision = x.revision /\ p.seen = x.seen
      PROVE  World' /\ DInv' /\ \A q \in Root : FileForward(q)
  <2> DEFINE r == pub[d].id[1]
  <2>1. pub[d].id \in Drive /\ r \in Root /\ pub[d].id = <<r, pub[d].id[2]>> BY <1>7, <1>d, DriveFacts
  <2>2. file'[r] = x /\ \A q \in Root \ {r} : file'[q] = file[q] BY <1>7, <1>w, <2>1
  <2>3. file' \in [Root -> File \union {None}] BY <1>7, <1>w, <2>1
  <2>4. /\ pub'[d] = p /\ \A e \in Daemons \ {d} : pub'[e] = pub[e]
        /\ pub' \in [Daemons -> Publisher]
    BY <1>7, <1>d
  <2>5. \A e \in Daemons : pub'[e].running => /\ pub[e].running /\ pub'[e].id = pub[e].id
    BY <1>7, <2>4
  <2>6. Alone' BY <2>5, <1>d DEF Alone
  <2>7. x # None => x.revision \in Nat BY <1>7 DEF File
  <2>8. \A e \in Daemons, q \in Root : Counts(pub'[e], file'[q])
    <3> SUFFICES ASSUME NEW e \in Daemons, NEW q \in Root PROVE Counts(pub'[e], file'[q]) OBVIOUS
    <3>1. CASE q # r /\ e # d BY <3>1, <2>2, <2>4, <1>d
    <3>2. CASE q # r /\ e = d
      <4>1. file[q] # None => file[q].id # pub[d].id BY <3>2, <1>f, <2>1
      <4> QED BY <3>2, <4>1, <2>2, <2>4, <1>7 DEF Counts
    <3>3. CASE q = r /\ e # d
      <4>1. pub[e].running => pub[e].id # pub[d].id BY <3>3, <1>7, <1>d DEF Alone
      <4> QED BY <3>3, <4>1, <2>2, <2>4, <1>7 DEF Counts
    <3>4. CASE q = r /\ e = d BY <3>4, <2>2, <2>4, <2>7, <1>7 DEF Counts
    <3> QED BY <3>1, <3>2, <3>3, <3>4
  <2>9. \A q \in Root : file'[q] # None => file'[q].id[1] = q BY <1>7, <1>f, <2>1, <2>2
  <2>10. \A q \in Root : FileForward(q)
    <3> SUFFICES ASSUME NEW q \in Root PROVE FileForward(q) OBVIOUS
    <3>1. CASE q # r BY <3>1, <2>2 DEF FileForward
    <3>2. CASE q = r
      <4>1. Counts(pub[d], file[r]) BY <2>1, <1>d
      <4>2. file[r] # None => file[r].revision \in Nat BY <2>1, <1>n
      <4>3. pub[d].revision \in Nat
        <5>1. pub[d] \in Publisher BY <1>d
        <5> QED BY <5>1 DEF Publisher
      <4> QED BY <3>2, <4>1, <4>2, <4>3, <2>2, <2>7, <1>7 DEF FileForward, Counts
    <3> QED BY <3>1, <3>2
  <2>11. World' BY <1>7, <1>w, <2>3 DEF World
  <2>12. \A e \in Daemons : pub'[e].running => pub'[e].id \in Drive BY <2>5, <1>d
  <2>13. DInv' BY <1>7, <1>d, <2>4, <2>6, <2>8, <2>9, <2>12 DEF DInv
  <2> QED BY <2>10, <2>11, <2>13
<1>8. ASSUME NEW d \in Daemons, PollWrite(d) PROVE World' /\ DInv' /\ \A q \in Root : FileForward(q)
  <2> DEFINE p == pub[d]
             v == IF moves(p) THEN p.revision + 1 ELSE p.revision
             x == [id |-> p.id, instance |-> p.instance, revision |-> v, seen |-> p.scan, running |-> TRUE]
             w == [p EXCEPT !.pc = "idle", !.revision = v, !.seen = p.scan, !.initial = FALSE]
  <2>1. /\ p.running /\ UNCHANGED <<package, content, instances>>
        /\ \/ /\ file' = [file EXCEPT ![p.id[1]] = x] /\ fresh' = [fresh EXCEPT ![p.id[1]] = TRUE]
              /\ pub' = [pub EXCEPT ![d] = w]
           \/ pub' = [pub EXCEPT ![d].pc = "idle"] /\ UNCHANGED <<file, fresh>>
    BY <1>8 DEF PollWrite
  <2>2. /\ p \in Publisher /\ p.id \in Drive /\ p.revision \in Nat /\ p.scan \in Nat /\ p.instance \in Nat
        /\ p.seen \in Nat
    <3>1. p \in Publisher /\ p.id \in Drive BY <2>1, <1>d
    <3> HIDE DEF p
    <3> QED BY <3>1 DEF Publisher
  <2>3. CASE pub' = [pub EXCEPT ![d].pc = "idle"] /\ UNCHANGED <<file, fresh>>
    <3> DEFINE i == [p EXCEPT !.pc = "idle"]
    <3>1. pub' = [pub EXCEPT ![d] = i] BY <2>3, <1>d
    <3>2. /\ i \in Publisher /\ i.id = p.id /\ i.revision = p.revision /\ i.initial = p.initial /\ i.seen = p.seen
      <4> HIDE DEF p
      <4> QED BY <2>2 DEF Publisher
    <3> HIDE DEF i
    <3> QED BY <1>3, <2>1, <2>3, <3>1, <3>2
  <2>4. CASE /\ file' = [file EXCEPT ![p.id[1]] = x] /\ fresh' = [fresh EXCEPT ![p.id[1]] = TRUE]
             /\ pub' = [pub EXCEPT ![d] = w]
    <3>1. v \in Nat /\ (v > p.revision \/ (v = p.revision /\ p.scan = p.seen /\ ~p.initial))
      <4> HIDE DEF p
      <4> QED BY <2>2 DEF moves
    <3> HIDE DEF v
    <3>2. x \in File /\ x.id = p.id /\ x.revision = v /\ x.seen = p.scan
      <4> HIDE DEF p
      <4> QED BY <2>2, <3>1 DEF File
    <3>3. w \in Publisher /\ w.id = p.id /\ w.revision = v /\ w.seen = p.scan
      <4> HIDE DEF p
      <4> QED BY <2>2, <3>1 DEF Publisher
    <3>4. fresh' \in [Root -> BOOLEAN] BY <2>4, <1>w
    <3> HIDE DEF x, w
    <3> QED BY <1>7, <2>1, <2>4, <3>1, <3>2, <3>3, <3>4
  <2> QED BY <2>1, <2>3, <2>4
<1>9. ASSUME NEW d \in Daemons, PublisherStop(d) PROVE World' /\ DInv' /\ \A q \in Root : FileForward(q)
  <2> DEFINE p == pub[d]
             y == [id |-> p.id, instance |-> p.instance, revision |-> p.revision, seen |-> p.seen, running |-> FALSE]
             x == IF p.initial THEN None ELSE y
  <2>1. /\ p.running /\ UNCHANGED <<package, content, instances, fresh>> /\ pub' = [pub EXCEPT ![d] = Idle]
        /\ file' = [file EXCEPT ![p.id[1]] = x] \/ file' = file
    BY <1>9 DEF PublisherStop
  <2>2. CASE file' = file BY <1>3, <1>i, <2>1, <2>2
  <2>3. CASE file' = [file EXCEPT ![p.id[1]] = x]
    <3>1. p \in Publisher /\ p.id \in Drive BY <2>1, <1>d
    <3>2. y \in File /\ y.id = p.id /\ y.revision = p.revision /\ y.seen = p.seen
      <4> HIDE DEF p
      <4> QED BY <3>1 DEF Publisher, File
    <3> HIDE DEF y
    <3>3. x \in File \union {None} /\ (x # None => x.id = p.id /\ x.revision = p.revision /\ x.seen = p.seen /\ ~p.initial)
      BY <3>2
    <3> HIDE DEF x
    <3> QED BY <1>7, <1>i, <1>w, <2>1, <2>3, <3>3
  <2> QED BY <2>1, <2>2, <2>3
<1>10. CASE Save
  <2>1. UNCHANGED <<package, file, fresh, pub, instances>> /\ content' = [content EXCEPT ![fs.storage[1]] = @ + 1]
    BY <1>10 DEF Save
  <2>2. content' \in [Root -> Nat]
    <3>1. ASSUME NEW r PROVE [content EXCEPT ![r] = content[r] + 1] \in [Root -> Nat]
      <4>1. CASE r \in Root BY <4>1, <1>w
      <4>2. CASE r \notin Root BY <4>2, <1>w
      <4> QED BY <4>1, <4>2
    <3> QED BY <2>1, <3>1
  <2>3. World' BY <1>w, <2>1, <2>2 DEF World
  <2> QED BY <1>u, <2>1, <2>3
<1>11. CASE (\E r \in Root : Open(r)) \/ adoptStorage \/ RefreshRequested \/ Timer
            \/ ScanStart \/ ScanEnd \/ SubscriptionRead \/ RowsEvent \/ StateEvent \/ UNCHANGED vars
  <2>1. UNCHANGED <<package, content, file, fresh, pub, instances>>
    BY <1>11 DEF Open, adoptStorage, RefreshRequested, Timer, ScanStart, ScanEnd, SubscriptionRead,
                 RowsEvent, StateEvent, vars
  <2>2. World' BY <1>w, <2>1 DEF World
  <2> QED BY <1>u, <2>1, <2>2
<1> QED BY <1>1, <1>2, <1>4, <1>5, <1>6, <1>8, <1>9, <1>10, <1>11 DEF Next

-----------------------------------------------------------------------------
(* The world goes on: rows that were not ahead of it are not now. *)
LEMMA AheadKept ==
  ASSUME NEW k \in [Root -> Nat], NEW c \in [Root -> Nat], NEW l \in [Root -> Nat], NEW d \in [Root -> Nat],
         \A r \in Root : k[r] < l[r] \/ (k[r] = l[r] /\ c[r] <= d[r]), NEW rows \in Rows, NotAhead(rows, k, c)
  PROVE  NotAhead(rows, l, d)
<1> SUFFICES ASSUME rows.available PROVE NotAhead(rows, l, d) BY DEF NotAhead
<1>1. rows.drive \in Drive /\ rows.drive[2] <= k[rows.drive[1]] BY DEF NotAhead
<1>2. rows.drive[1] \in Root /\ rows.drive[2] \in Nat /\ rows.content \in Nat BY <1>1, DriveFacts DEF Rows
<1>3. rows.drive[2] = k[rows.drive[1]] => rows.content <= c[rows.drive[1]] BY DEF NotAhead
<1> QED BY <1>1, <1>2, <1>3 DEF NotAhead

(* The parts of an application and of its calls. *)
LEMMA Typed ==
  /\ \A f \in FileSystem :
       /\ f.storage \in Storage /\ f.rows \in Rows /\ f.epoch \in Nat /\ f.inFlight \in BOOLEAN
       /\ f.pending \in BOOLEAN /\ f.job \in Job \union {None} /\ f.timer \in BOOLEAN /\ f.monitorEpoch \in Nat
       /\ f.watched \in Storage /\ f.sub \in Subscription \union {None} /\ f.state \in State
  /\ \A calls \in Seq(RowsCall \union StateCall) : \A i \in 1..Len(calls) : calls[i] \in RowsCall \union StateCall
  /\ \A call \in RowsCall : call.type = "rows" /\ call.epoch \in Nat /\ call.value \in Rows
  /\ \A call \in StateCall : call.type = "state" /\ call.epoch \in Nat /\ call.value \in State
  /\ \A j \in Job : j.epoch \in Nat /\ j.storage \in Storage /\ j.rows \in Rows \union {None}
  /\ \A u \in Subscription : u.id \in Storage /\ u.epoch \in Nat /\ u.previous \in State \union {None}
  /\ \A r \in Rows : r.drive \in Storage /\ r.content \in Nat /\ r.available \in BOOLEAN
<1>1. \A f \in FileSystem :
       /\ f.storage \in Storage /\ f.rows \in Rows /\ f.epoch \in Nat /\ f.inFlight \in BOOLEAN
       /\ f.pending \in BOOLEAN /\ f.job \in Job \union {None} /\ f.timer \in BOOLEAN /\ f.monitorEpoch \in Nat
       /\ f.watched \in Storage /\ f.sub \in Subscription \union {None} /\ f.state \in State
  BY DEF FileSystem
<1>2. \A calls \in Seq(RowsCall \union StateCall) : \A i \in 1..Len(calls) : calls[i] \in RowsCall \union StateCall
  BY ElementOfSeq
<1>3. \A call \in RowsCall : call.type = "rows" /\ call.epoch \in Nat /\ call.value \in Rows BY DEF RowsCall
<1>4. \A call \in StateCall : call.type = "state" /\ call.epoch \in Nat /\ call.value \in State BY DEF StateCall
<1>5. \A j \in Job : j.epoch \in Nat /\ j.storage \in Storage /\ j.rows \in Rows \union {None} BY DEF Job
<1>6. \A u \in Subscription : u.id \in Storage /\ u.epoch \in Nat /\ u.previous \in State \union {None}
  BY DEF Subscription
<1>7. \A r \in Rows : r.drive \in Storage /\ r.content \in Nat /\ r.available \in BOOLEAN BY DEF Rows
<1> QED BY <1>1, <1>2, <1>3, <1>4, <1>5, <1>6, <1>7

LEMMA WorldGoesOn ==
  ASSUME NEW k \in [Root -> Nat], NEW c \in [Root -> Nat], NEW l \in [Root -> Nat], NEW d \in [Root -> Nat],
         \A r \in Root : k[r] < l[r] \/ (k[r] = l[r] /\ c[r] <= d[r]),
         NEW f, NEW calls, Tracks(f, calls, k, c)
  PROVE  Tracks(f, calls, l, d)
<1>1. f \in FileSystem /\ calls \in Seq(RowsCall \union StateCall) BY DEF Tracks
<1>2. f.rows \in Rows /\ (f.job # None /\ f.job.rows # None => f.job.rows \in Rows)
  <2>1. f.rows \in Rows /\ f.job \in Job \union {None} BY <1>1, Typed
  <2>2. ASSUME NEW j \in Job PROVE j.rows \in Rows \union {None} BY Typed
  <2> QED BY <2>1, <2>2
<1>k. ASSUME NEW rows \in Rows, NotAhead(rows, k, c) PROVE NotAhead(rows, l, d) BY <1>k, AheadKept
<1>3. Shows(f, l, d) BY <1>2, <1>k DEF Tracks, Shows
<1>4. Scans(f, l, d)
  <2>1. Scans(f, k, c) BY DEF Tracks
  <2> QED BY <1>2, <1>k, <2>1 DEF Scans
<1>5. \A i \in 1..Len(calls) : Tells(calls[i], f, l, d)
  <2> SUFFICES ASSUME NEW i \in 1..Len(calls) PROVE Tells(calls[i], f, l, d) OBVIOUS
  <2>1. Tells(calls[i], f, k, c) BY DEF Tracks
  <2>2. calls[i].type = "rows" => calls[i].value \in Rows
    <3>1. calls[i] \in RowsCall \union StateCall BY <1>1, Typed
    <3>2. ASSUME NEW x \in StateCall PROVE x.type # "rows" BY DEF StateCall
    <3>3. ASSUME NEW x \in RowsCall PROVE x.value \in Rows BY Typed
    <3> QED BY <3>1, <3>2, <3>3
  <2> QED BY <2>1, <2>2, <1>k DEF Tells
<1> QED BY <1>1, <1>3, <1>4, <1>5 DEF Tracks

(* A scan shows the drive as it is, or that it is gone. *)
LEMMA ScannedRows ==
  ASSUME World, NEW s \in Storage
  PROVE  /\ scanned(s) \in Rows /\ NotAhead(scanned(s), package, content)
         /\ scanned(s).available => scanned(s).drive = s /\ s \in Drive /\ valid(s) /\ scanned(s).content = content[s[1]]
<1>1. CASE valid(s)
  <2>1. s \in Drive /\ s[1] \in Root /\ s[2] = package[s[1]] BY <1>1, DriveFacts DEF valid, Storage
  <2>2. content[s[1]] \in Nat BY <2>1 DEF World
  <2>3. scanned(s) = [drive |-> s, content |-> content[s[1]], available |-> TRUE] BY <1>1 DEF scanned
  <2>4. scanned(s) \in Rows /\ scanned(s).drive = s /\ scanned(s).content = content[s[1]] BY <2>2, <2>3 DEF Rows
  <2>5. package[s[1]] \in Nat BY <2>1 DEF World
  <2> QED BY <1>1, <2>1, <2>2, <2>4, <2>5 DEF NotAhead
<1>2. CASE ~valid(s)
  <2>1. scanned(s) = NoRows BY <1>2 DEF scanned
  <2>2. NoRows \in Rows /\ ~NoRows.available BY DEF NoRows, Rows, Storage
  <2> QED BY <2>1, <2>2 DEF NotAhead
<1> QED BY <1>1, <1>2

(* Rows of the drive as it is follow what is shown of it. *)
LEMMA ScannedFollows ==
  ASSUME World, NEW f \in FileSystem, Shows(f, package, content)
  PROVE  /\ Follows(scanned(f.storage), f)
         /\ \A s \in Storage : f.rows.available /\ scanned(s).available /\ scanned(s).drive = f.rows.drive
                                 => f.rows.content <= scanned(s).content
<1>1. f.rows \in Rows /\ f.storage \in Storage BY Typed
<1>2. ASSUME NEW s \in Storage, f.rows.available, scanned(s).available, scanned(s).drive = f.rows.drive
      PROVE  f.rows.content <= scanned(s).content
  <2>1. scanned(s).drive = s /\ s \in Drive /\ valid(s) /\ scanned(s).content = content[s[1]] BY <1>2, ScannedRows
  <2> QED BY <1>2, <2>1 DEF Shows, NotAhead, valid
<1>3. scanned(f.storage).available => scanned(f.storage).drive = f.storage BY <1>1, ScannedRows
<1>4. Follows(scanned(f.storage), f) BY <1>1, <1>2, <1>3 DEF Follows, Shows
<1> QED BY <1>2, <1>4

(* Another scan is asked for. *)
LEMMA RequestTracks ==
  ASSUME NEW k, NEW c, NEW f, NEW calls, Tracks(f, calls, k, c)
  PROVE  /\ Tracks(requestSynchronization(f), calls, k, c)
         /\ requestSynchronization(f).rows = f.rows
<1> DEFINE job == [epoch |-> f.epoch, storage |-> f.storage, rows |-> None]
           g == requestSynchronization(f)
<1>1. f \in FileSystem BY DEF Tracks
<1>2. /\ f.inFlight => g = [f EXCEPT !.pending = TRUE]
      /\ ~f.inFlight => g = [f EXCEPT !.inFlight = TRUE, !.job = job]
  BY DEF requestSynchronization
<1>3. job \in Job /\ job.epoch = f.epoch /\ job.storage = f.storage /\ job.rows = None BY <1>1, Typed DEF Job
<1> HIDE DEF job, g
<1>4. /\ g \in FileSystem /\ g.storage = f.storage /\ g.rows = f.rows /\ g.epoch = f.epoch /\ g.inFlight
      /\ g.monitorEpoch = f.monitorEpoch /\ g.watched = f.watched /\ g.sub = f.sub /\ g.state = f.state
      /\ g.job = IF f.inFlight THEN f.job ELSE job
  <2>1. CASE f.inFlight
    <3>1. g = [f EXCEPT !.pending = TRUE] BY <1>2, <2>1
    <3> QED BY <1>1, <2>1, <3>1 DEF FileSystem
  <2>2. CASE ~f.inFlight
    <3>1. g = [f EXCEPT !.inFlight = TRUE, !.job = job] BY <1>2, <2>2
    <3> QED BY <1>1, <1>3, <2>2, <3>1 DEF FileSystem
  <2> QED BY <2>1, <2>2
<1>5. Scans(g, k, c)
  <2>1. CASE f.inFlight BY <1>4, <2>1 DEF Tracks, Scans, Follows
  <2>2. CASE ~f.inFlight
    <3>1. f.epoch \in Nat BY <1>1, Typed
    <3> QED BY <1>3, <1>4, <2>2, <3>1 DEF Scans
  <2> QED BY <2>1, <2>2
<1>6. One(g, calls) BY <1>4 DEF Tracks, One
<1>7. Shows(g, k, c) /\ Watches(g) BY <1>4 DEF Tracks, Shows, Watches
<1>8. \A i \in 1..Len(calls) : Tells(calls[i], g, k, c) BY <1>4 DEF Tracks, Tells, Follows
<1> QED BY <1>4, <1>5, <1>6, <1>7, <1>8 DEF Tracks, g

(* The parts of an application that neither the selection nor its monitor changes. *)
SameScan(f, g) == g.job = f.job /\ g.inFlight = f.inFlight

(* The monitor stops, and starts again for the selected drive unless it is watched already. *)
LEMMA MonitorStops ==
  ASSUME NEW f \in FileSystem
  PROVE  LET g == stopMonitor(f)
         IN /\ g \in FileSystem /\ SameScan(f, g) /\ g.storage = f.storage /\ g.rows = f.rows /\ g.epoch = f.epoch
            /\ g.pending = f.pending /\ g.monitorEpoch = f.monitorEpoch + 1
            /\ g.watched = None /\ g.sub = None /\ ~g.state.available
<1> DEFINE g == stopMonitor(f)
           n == f.monitorEpoch + 1
           e == NoState
<1>1. n \in Nat BY Typed
<1>2. e \in State /\ ~e.available BY DEF NoState, State, Storage
<1>3. g = [f EXCEPT !.monitorEpoch = n, !.watched = None, !.sub = None, !.timer = TRUE, !.state = e] BY DEF stopMonitor
<1>4. None \in Storage BY DEF Storage
<1> HIDE DEF g, n, e
<1>5. /\ g \in FileSystem /\ g.job = f.job /\ g.inFlight = f.inFlight /\ g.storage = f.storage /\ g.rows = f.rows
      /\ g.epoch = f.epoch /\ g.pending = f.pending /\ g.monitorEpoch = n /\ g.watched = None /\ g.sub = None
      /\ g.state = e
  BY <1>1, <1>2, <1>3, <1>4 DEF FileSystem
<1>6. SameScan(f, g) /\ ~g.state.available /\ g.monitorEpoch = f.monitorEpoch + 1 BY <1>2, <1>5 DEF SameScan, n
<1> QED BY <1>5, <1>6 DEF g

LEMMA MonitorStarts ==
  ASSUME NEW f \in FileSystem
  PROVE  LET g == startMonitor(f)
         IN /\ g \in FileSystem /\ SameScan(f, g) /\ g.storage = f.storage /\ g.rows = f.rows /\ g.epoch = f.epoch
            /\ \/ g = f /\ (f.storage = None \/ f.watched = f.storage)
               \/ g.monitorEpoch = f.monitorEpoch + 1 /\ Watches(g)
<1> DEFINE g == startMonitor(f)
           h == stopMonitor(f)
<1>1. CASE f.storage = None \/ f.watched = f.storage
  <2>1. g = f BY <1>1 DEF startMonitor
  <2> QED BY <1>1, <2>1 DEF SameScan
<1>2. CASE ~(f.storage = None \/ f.watched = f.storage)
  <2> DEFINE n == f.monitorEpoch + 1
             u == IF valid(f.storage) THEN [id |-> f.storage, epoch |-> n, previous |-> None] ELSE None
             w == f.storage
  <2>1. g = [h EXCEPT !.watched = w, !.sub = u] BY <1>2 DEF startMonitor
  <2>2. /\ h \in FileSystem /\ SameScan(f, h) /\ h.storage = f.storage /\ h.rows = f.rows /\ h.epoch = f.epoch
        /\ h.monitorEpoch = n /\ ~h.state.available
    BY MonitorStops
  <2>3. w \in Storage /\ n \in Nat BY Typed
  <2>4. u \in Subscription \union {None} /\ (u # None => u.id = w /\ u.epoch = n)
    <3> HIDE DEF n
    <3>1. [id |-> f.storage, epoch |-> n, previous |-> None] \in Subscription BY <2>3 DEF Subscription
    <3>2. [id |-> f.storage, epoch |-> n, previous |-> None].id = w /\ [id |-> f.storage, epoch |-> n, previous |-> None].epoch = n
      OBVIOUS
    <3> QED BY <3>1, <3>2
  <2>5. w = f.storage OBVIOUS
  <2> HIDE DEF g, h, n, u, w
  <2>6. /\ g \in FileSystem /\ g.job = h.job /\ g.inFlight = h.inFlight /\ g.storage = h.storage /\ g.rows = h.rows
        /\ g.epoch = h.epoch /\ g.monitorEpoch = h.monitorEpoch /\ g.watched = w /\ g.sub = u /\ g.state = h.state
    BY <2>1, <2>2, <2>3, <2>4 DEF FileSystem
  <2>7. Watches(g) BY <2>2, <2>4, <2>5, <2>6 DEF Watches
  <2>8. SameScan(f, g) BY <2>2, <2>6 DEF SameScan
  <2> QED BY <2>2, <2>5, <2>6, <2>7, <2>8 DEF g, n
<1> QED BY <1>1, <1>2

(* A new selection outdates the scan in flight, and another monitor the states that are queued. *)
LEMMA SelectedTracks ==
  ASSUME NEW k, NEW c, NEW f, NEW calls, Tracks(f, calls, k, c),
         NEW g \in FileSystem, g.epoch > f.epoch, SameScan(f, g), Shows(g, k, c), Watches(g),
         \/ g.monitorEpoch > f.monitorEpoch
         \/ g.monitorEpoch = f.monitorEpoch /\ g.storage = f.storage
  PROVE  Tracks(g, calls, k, c)
<1>1. /\ f \in FileSystem /\ calls \in Seq(RowsCall \union StateCall) /\ Scans(f, k, c) /\ One(f, calls)
      /\ \A i \in 1..Len(calls) : Tells(calls[i], f, k, c)
  BY DEF Tracks
<1>2. /\ f.epoch \in Nat /\ g.epoch \in Nat /\ f.monitorEpoch \in Nat /\ g.monitorEpoch \in Nat
      /\ f.job \in Job \union {None}
  BY <1>1, Typed
<1>3. Scans(g, k, c)
  <2>1. ASSUME NEW j \in Job PROVE j.epoch \in Nat BY Typed
  <2>2. f.job # None => f.job.epoch \in Nat BY <1>2, <2>1
  <2> QED BY <1>1, <1>2, <2>2 DEF Scans, SameScan
<1>4. One(g, calls) BY <1>1 DEF One, SameScan
<1>5. ASSUME NEW i \in 1..Len(calls) PROVE Tells(calls[i], g, k, c)
  <2>1. calls[i] \in RowsCall \union StateCall BY <1>1, Typed
  <2>2. ASSUME NEW x \in RowsCall \union StateCall PROVE x.epoch \in Nat BY Typed
  <2>3. calls[i].epoch \in Nat BY <2>1, <2>2
  <2> QED BY <1>1, <1>2, <2>3 DEF Tells
<1> QED BY <1>1, <1>3, <1>4, <1>5 DEF Tracks

Call == RowsCall \union StateCall

(* A call is queued behind the others, and the first is taken. *)
LEMMA CallQueued ==
  ASSUME NEW calls \in Seq(Call), NEW x \in Call
  PROVE  /\ Append(calls, x) \in Seq(Call) /\ Len(Append(calls, x)) = Len(calls) + 1
         /\ \A i \in 1..Len(calls) : Append(calls, x)[i] = calls[i]
         /\ Append(calls, x)[Len(calls) + 1] = x
         /\ Scanned(Append(calls, x)) = Scanned(calls) \union (IF x.type = "rows" THEN {Len(calls) + 1} ELSE {})
<1>1. /\ Append(calls, x) \in Seq(Call) /\ Len(Append(calls, x)) = Len(calls) + 1
      /\ \A i \in 1..Len(calls) : Append(calls, x)[i] = calls[i]
      /\ Append(calls, x)[Len(calls) + 1] = x
  BY AppendProperties
<1>2. Len(calls) \in Nat BY LenProperties
<1> QED BY <1>1, <1>2 DEF Scanned

LEMMA CallTaken ==
  ASSUME NEW calls \in Seq(Call), calls # <<>>
  PROVE  /\ Tail(calls) \in Seq(Call) /\ Len(Tail(calls)) = Len(calls) - 1 /\ Len(calls) \in Nat /\ 1 \in 1..Len(calls)
         /\ Head(calls) = calls[1] /\ Head(calls) \in Call
         /\ \A i \in 1..Len(Tail(calls)) : Tail(calls)[i] = calls[i + 1] /\ i + 1 \in 1..Len(calls)
<1>1. /\ Tail(calls) \in Seq(Call) /\ Len(Tail(calls)) = Len(calls) - 1
      /\ \A i \in 1..Len(Tail(calls)) : Tail(calls)[i] = calls[i + 1]
      /\ Head(calls) = calls[1] /\ Head(calls) \in Call
  BY HeadTailProperties
<1>2. Len(calls) \in Nat /\ Len(calls) # 0 BY LenProperties, EmptySeq
<1> QED BY <1>1, <1>2

(* What is left of an application's calls when the first is done. *)
LEMMA TailTracks ==
  ASSUME NEW k, NEW c, NEW f, NEW calls, Tracks(f, calls, k, c), calls # <<>>
  PROVE  /\ Head(calls).type # "rows" => Tracks(f, Tail(calls), k, c)
         /\ Head(calls).type = "rows" => f.job = None /\ Scanned(Tail(calls)) = {}
         /\ Tells(Head(calls), f, k, c) /\ Head(calls) \in Call /\ Tail(calls) \in Seq(Call)
         /\ \A i \in 1..Len(Tail(calls)) : Tells(Tail(calls)[i], f, k, c)
<1>1. calls \in Seq(Call) /\ One(f, calls) /\ \A i \in 1..Len(calls) : Tells(calls[i], f, k, c) BY DEF Tracks, Call
<1>2. /\ Tail(calls) \in Seq(Call) /\ Len(Tail(calls)) = Len(calls) - 1 /\ Len(calls) \in Nat /\ 1 \in 1..Len(calls)
      /\ Head(calls) = calls[1] /\ Head(calls) \in Call
      /\ \A i \in 1..Len(Tail(calls)) : Tail(calls)[i] = calls[i + 1] /\ i + 1 \in 1..Len(calls)
  BY <1>1, CallTaken
<1>3. \A i \in Scanned(Tail(calls)) : i \in Nat /\ i + 1 \in Scanned(calls) /\ i + 1 # 1 BY <1>2 DEF Scanned
<1>4. ASSUME Head(calls).type = "rows" PROVE f.job = None /\ Scanned(Tail(calls)) = {}
  <2>1. 1 \in Scanned(calls) BY <1>2, <1>4 DEF Scanned
  <2>2. f.job = None BY <1>1, <2>1 DEF One
  <2>3. ASSUME NEW i \in Scanned(Tail(calls)) PROVE FALSE
    <3>1. i + 1 \in Scanned(calls) /\ i + 1 # 1 BY <1>3
    <3> QED BY <1>1, <2>1, <3>1 DEF One
  <2> QED BY <2>2, <2>3
<1>5. /\ f.job # None => Scanned(Tail(calls)) = {}
      /\ Scanned(Tail(calls)) # {} => f.inFlight
      /\ \A i, j \in Scanned(Tail(calls)) : i = j
  <2>1. ASSUME NEW i \in Scanned(Tail(calls)) PROVE f.job = None /\ f.inFlight
    <3>1. i + 1 \in Scanned(calls) BY <1>3
    <3> QED BY <1>1, <3>1 DEF One
  <2>2. ASSUME NEW i \in Scanned(Tail(calls)), NEW j \in Scanned(Tail(calls)) PROVE i = j
    <3>1. i \in Nat /\ j \in Nat /\ i + 1 \in Scanned(calls) /\ j + 1 \in Scanned(calls) BY <1>3
    <3>2. i + 1 = j + 1 BY <1>1, <3>1 DEF One
    <3> QED BY <3>1, <3>2
  <2> QED BY <2>1, <2>2
<1>6. \A i \in 1..Len(Tail(calls)) : Tells(Tail(calls)[i], f, k, c) BY <1>1, <1>2
<1>7. Tells(Head(calls), f, k, c) BY <1>1, <1>2
<1>8. Tracks(f, Tail(calls), k, c)
  <2>1. One(f, Tail(calls)) BY <1>5 DEF One
  <2> QED BY <1>2, <1>6, <2>1 DEF Tracks, Call
<1> QED BY <1>2, <1>4, <1>6, <1>7, <1>8

(* The explicit refresh shows the selected drive as it is. *)
LEMMA Synchronized ==
  ASSUME World, NEW f \in FileSystem
  PROVE  LET g == synchronize(f)
         IN /\ g \in FileSystem /\ SameScan(f, g) /\ g.storage = f.storage /\ g.epoch = f.epoch + 1
            /\ g.rows = scanned(f.storage) /\ Shows(g, package, content)
            /\ g.monitorEpoch = f.monitorEpoch /\ (Watches(f) => Watches(g))
<1> DEFINE g == synchronize(f)
           r == scanned(f.storage)
           n == f.epoch + 1
<1>1. f.storage \in Storage /\ n \in Nat BY Typed
<1>2. r \in Rows /\ NotAhead(r, package, content) /\ (r.available => r.drive = f.storage) BY <1>1, ScannedRows
<1>3. g = [f EXCEPT !.epoch = n, !.rows = r] BY DEF synchronize
<1> HIDE DEF g, r, n
<1>4. /\ g \in FileSystem /\ g.job = f.job /\ g.inFlight = f.inFlight /\ g.storage = f.storage /\ g.epoch = n
      /\ g.rows = r /\ g.monitorEpoch = f.monitorEpoch /\ g.watched = f.watched /\ g.sub = f.sub /\ g.state = f.state
  BY <1>1, <1>2, <1>3 DEF FileSystem
<1>5. SameScan(f, g) /\ Shows(g, package, content) /\ (Watches(f) => Watches(g))
  BY <1>2, <1>4 DEF SameScan, Shows, Watches
<1> QED BY <1>4, <1>5 DEF g, r, n

-----------------------------------------------------------------------------
(* What is shown of a drive never goes back, except to captured rows. *)
RowsForward ==
  fs.rows.available /\ fs'.rows.available /\ fs'.rows.drive = fs.rows.drive
  => adoptStorage \/ fs'.rows.content >= fs.rows.content

(* A drive is selected, and its files refreshed. *)
LEMMA OpenTracks ==
  ASSUME World, AInv, NEW r \in Root, Open(r)
  PROVE  Tracks(fs', events, package, content) /\ RowsForward
<1>1. PICK s \in {Id(r), None} :
        fs' = synchronize(startMonitor(IF s = None THEN stopMonitor([fs EXCEPT !.epoch = @ + 1, !.storage = s])
                                       ELSE [fs EXCEPT !.epoch = @ + 1, !.storage = s]))
  BY DEF Open
<1> DEFINE n == fs.epoch + 1
           f == [fs EXCEPT !.epoch = n, !.storage = s]
           h == IF s = None THEN stopMonitor(f) ELSE f
           g == startMonitor(h)
<1>2. fs' = synchronize(g) BY <1>1
<1>3. fs \in FileSystem /\ Tracks(fs, events, package, content) /\ Watches(fs) /\ Shows(fs, package, content)
  BY DEF AInv, Tracks
<1>4. s \in Storage /\ n \in Nat /\ n > fs.epoch /\ fs.epoch \in Nat /\ fs.monitorEpoch \in Nat
  <2>1. s \in Storage BY DriveFacts DEF Storage
  <2>2. fs.epoch \in Nat /\ fs.monitorEpoch \in Nat BY <1>3, Typed
  <2> QED BY <2>1, <2>2
<1>5. /\ f \in FileSystem /\ SameScan(fs, f) /\ f.storage = s /\ f.rows = fs.rows /\ f.epoch = n
      /\ f.monitorEpoch = fs.monitorEpoch /\ f.watched = fs.watched /\ f.sub = fs.sub /\ f.state = fs.state
  <2> HIDE DEF n
  <2> QED BY <1>3, <1>4 DEF FileSystem, SameScan
<1> HIDE DEF n, f
<1>6. /\ g \in FileSystem /\ SameScan(fs, g) /\ g.storage = s /\ g.epoch = n /\ Watches(g)
      /\ \/ g.monitorEpoch > fs.monitorEpoch
         \/ g.monitorEpoch = fs.monitorEpoch /\ g.storage = fs.storage
  <2>1. CASE s = None
    <3>1. h = stopMonitor(f) BY <2>1
    <3> HIDE DEF h, g
    <3>2. /\ h \in FileSystem /\ SameScan(f, h) /\ h.storage = f.storage /\ h.epoch = f.epoch
          /\ h.monitorEpoch = f.monitorEpoch + 1 /\ h.watched = None /\ h.sub = None /\ ~h.state.available
      BY <1>5, <3>1, MonitorStops
    <3>3. g = h BY <1>5, <2>1, <3>2 DEF startMonitor, g
    <3> QED BY <1>4, <1>5, <3>2, <3>3 DEF SameScan, Watches
  <2>2. CASE s # None
    <3>1. h = f BY <2>2
    <3> HIDE DEF h
    <3>2. /\ g \in FileSystem /\ SameScan(f, g) /\ g.storage = f.storage /\ g.epoch = f.epoch
          /\ \/ g = f /\ (f.storage = None \/ f.watched = f.storage)
             \/ g.monitorEpoch = f.monitorEpoch + 1 /\ Watches(g)
      BY <1>5, <3>1, MonitorStarts
    <3> HIDE DEF g
    <3>3. CASE g = f /\ f.watched = f.storage
      <4>1. fs.storage = s BY <1>3, <1>5, <2>2, <3>3 DEF Watches
      <4> QED BY <1>3, <1>5, <3>3, <4>1 DEF Watches
    <3>4. CASE g.monitorEpoch = f.monitorEpoch + 1 /\ Watches(g) BY <1>4, <1>5, <3>2, <3>4 DEF SameScan
    <3> QED BY <1>5, <2>2, <3>2, <3>3, <3>4
  <2> QED BY <2>1, <2>2
<1> HIDE DEF h, g
<1>7. /\ fs' \in FileSystem /\ SameScan(g, fs') /\ fs'.storage = s /\ fs'.epoch = n + 1 /\ fs'.rows = scanned(s)
      /\ Shows(fs', package, content) /\ fs'.monitorEpoch = g.monitorEpoch /\ Watches(fs')
  BY <1>2, <1>6, Synchronized
<1>8. Tracks(fs', events, package, content)
  <2>1. SameScan(fs, fs') /\ fs'.epoch > fs.epoch BY <1>4, <1>6, <1>7 DEF SameScan
  <2> HIDE DEF Tracks
  <2> QED BY <1>3, <1>6, <1>7, <2>1, SelectedTracks
<1>9. RowsForward
  <2>1. fs.rows.available /\ scanned(s).available /\ scanned(s).drive = fs.rows.drive => fs.rows.content <= scanned(s).content
    BY <1>3, <1>4, ScannedFollows
  <2>2. fs.rows.content \in Nat
    <3>1. fs.rows \in Rows BY <1>3, Typed
    <3> QED BY <3>1, Typed
  <2>3. scanned(s).content \in Nat
    <3>1. scanned(s) \in Rows BY <1>4, ScannedRows
    <3> QED BY <3>1, Typed
  <2> QED BY <1>7, <2>1, <2>2, <2>3 DEF RowsForward
<1> QED BY <1>8, <1>9

(* A captured selection is shown with the rows it had. *)
LEMMA AdoptTracks ==
  ASSUME World, AInv, adoptStorage
  PROVE  Tracks(fs', events, package, content)
<1>1. PICK p \in preparedStorage :
        /\ p.storage # None => p.rows.content <= content[p.storage[1]]
        /\ fs' = startMonitor([stopMonitor([fs EXCEPT !.epoch = @ + 1, !.pending = FALSE])
                                EXCEPT !.storage = p.storage, !.rows = p.rows])
  BY DEF adoptStorage
<1> DEFINE n == fs.epoch + 1
           f == [fs EXCEPT !.epoch = n, !.pending = FALSE]
           h == stopMonitor(f)
           s == p.storage
           rows == p.rows
           g == [h EXCEPT !.storage = s, !.rows = rows]
<1>2. fs' = startMonitor(g) BY <1>1
<1>3. fs \in FileSystem /\ Tracks(fs, events, package, content) BY DEF AInv, Tracks
<1>4. n \in Nat /\ n > fs.epoch /\ fs.monitorEpoch \in Nat BY <1>3, Typed
<1>5. /\ s \in Storage /\ rows \in Rows /\ NotAhead(rows, package, content) /\ (rows.available => rows.drive = s)
  <2>1. CASE p = [storage |-> None, rows |-> NoRows]
    <3>1. s = None /\ rows = NoRows BY <2>1
    <3>2. NoRows \in Rows /\ ~NoRows.available /\ None \in Storage BY DEF NoRows, Rows, Storage
    <3> QED BY <3>1, <3>2 DEF NotAhead
  <2>2. ASSUME NEW r \in Root, NEW c \in 1..MaxEdits,
               p = [storage |-> Id(r), rows |-> [drive |-> Id(r), content |-> c, available |-> TRUE]]
        PROVE  s \in Storage /\ rows \in Rows /\ NotAhead(rows, package, content) /\ (rows.available => rows.drive = s)
    <3>1. Id(r) \in Drive /\ Id(r)[1] = r /\ Id(r)[2] = package[r] BY DriveFacts
    <3>2. s = Id(r) /\ rows = [drive |-> Id(r), content |-> c, available |-> TRUE] BY <2>2
    <3>3. c \in Nat BY BoundsAssumption
    <3>4. package[r] \in Nat BY DEF World
    <3>5. s # None BY <3>1, <3>2, DriveFacts
    <3>6. rows \in Rows /\ rows.drive = s /\ rows.content = c BY <3>1, <3>2, <3>3 DEF Rows, Storage
    <3>7. c <= content[r] BY <1>1, <3>1, <3>2, <3>5, <3>6
    <3> HIDE DEF s, rows
    <3> QED BY <3>1, <3>2, <3>4, <3>6, <3>7 DEF NotAhead, Storage
  <2> QED BY <2>1, <2>2 DEF preparedStorage
<1>6. f \in FileSystem /\ SameScan(fs, f) /\ f.epoch = n /\ f.monitorEpoch = fs.monitorEpoch
  <2> HIDE DEF n
  <2> QED BY <1>3, <1>4 DEF FileSystem, SameScan
<1> HIDE DEF n, f
<1>7. /\ h \in FileSystem /\ SameScan(f, h) /\ h.epoch = n /\ h.monitorEpoch = fs.monitorEpoch + 1
      /\ h.watched = None /\ h.sub = None /\ ~h.state.available
  BY <1>6, MonitorStops
<1> HIDE DEF h, s, rows
<1>8. /\ g \in FileSystem /\ SameScan(h, g) /\ g.storage = s /\ g.rows = rows /\ g.epoch = n
      /\ g.monitorEpoch = fs.monitorEpoch + 1 /\ g.watched = None /\ g.sub = None /\ ~g.state.available
  BY <1>5, <1>7 DEF FileSystem, SameScan
<1> HIDE DEF g
<1>9. /\ fs' \in FileSystem /\ SameScan(g, fs') /\ fs'.storage = s /\ fs'.rows = rows /\ fs'.epoch = n
      /\ fs'.monitorEpoch > fs.monitorEpoch /\ Watches(fs')
  <2>1. /\ fs' \in FileSystem /\ SameScan(g, fs') /\ fs'.storage = g.storage /\ fs'.rows = g.rows /\ fs'.epoch = g.epoch
        /\ fs' = g \/ (fs'.monitorEpoch = g.monitorEpoch + 1 /\ Watches(fs'))
    BY <1>2, <1>8, MonitorStarts
  <2>2. Watches(g) BY <1>8 DEF Watches
  <2> QED BY <1>4, <1>8, <2>1, <2>2
<1>10. SameScan(fs, fs') BY <1>6, <1>7, <1>8, <1>9 DEF SameScan
<1>11. Shows(fs', package, content) BY <1>5, <1>9 DEF Shows
<1> QED BY <1>3, <1>4, <1>9, <1>10, <1>11, SelectedTracks

(* A file operation changes the drive and shows it as it left it. *)
LEMMA SaveTracks ==
  ASSUME World, World', AInv, Save
  PROVE  Tracks(fs', events, package, content') /\ RowsForward
<1> DEFINE s == fs.storage
           m == content'[s[1]]
           h == synchronize(fs)
<1>1. /\ valid(s) /\ content' = [content EXCEPT ![s[1]] = @ + 1] /\ fs' = [h EXCEPT !.rows.content = m]
  BY DEF Save
<1>2. fs \in FileSystem /\ Tracks(fs, events, package, content) /\ Watches(fs) /\ Shows(fs, package, content)
  BY DEF AInv, Tracks
<1>3. s \in Drive /\ s[1] \in Root /\ s[2] = package[s[1]] /\ s \in Storage
  <2>1. s \in Storage BY <1>2, Typed
  <2> QED BY <1>1, <2>1, DriveFacts DEF valid, Storage
<1>4. package \in [Root -> Nat] /\ content \in [Root -> Nat] /\ content' \in [Root -> Nat] BY DEF World
<1>5. m = content[s[1]] + 1 /\ content[s[1]] \in Nat /\ m \in Nat BY <1>1, <1>3, <1>4
<1>6. Tracks(fs, events, package, content')
  <2>1. \A r \in Root : package[r] = package[r] /\ content[r] <= content'[r] BY <1>1, <1>4
  <2> HIDE DEF Tracks
  <2> QED BY <1>2, <1>4, <2>1, WorldGoesOn
<1>7. scanned(s) = [drive |-> s, content |-> content[s[1]], available |-> TRUE] BY <1>1 DEF scanned
<1>8. /\ h \in FileSystem /\ SameScan(fs, h) /\ h.storage = s /\ h.epoch = fs.epoch + 1
      /\ h.rows = scanned(s) /\ h.monitorEpoch = fs.monitorEpoch /\ Watches(h)
  BY <1>2, Synchronized
<1> DEFINE rows == [h.rows EXCEPT !.content = m]
<1>9. rows \in Rows /\ rows.drive = s /\ rows.content = m /\ rows.available
  <2>1. h.rows \in Rows /\ h.rows.drive = s /\ h.rows.available BY <1>3, <1>7, <1>8, ScannedRows
  <2> HIDE DEF s, m, h
  <2> QED BY <1>5, <2>1 DEF Rows
<1>10. fs' = [h EXCEPT !.rows = rows] BY <1>1
<1> HIDE DEF h, rows
<1>11. /\ fs' \in FileSystem /\ SameScan(h, fs') /\ fs'.storage = h.storage /\ fs'.epoch = h.epoch /\ fs'.rows = rows
       /\ fs'.monitorEpoch = h.monitorEpoch /\ fs'.watched = h.watched /\ fs'.sub = h.sub /\ fs'.state = h.state
  BY <1>8, <1>9, <1>10 DEF FileSystem, SameScan
<1>12. Watches(fs') /\ SameScan(fs, fs') BY <1>8, <1>11 DEF Watches, SameScan
<1>13. Shows(fs', package, content')
  <2>1. package[s[1]] \in Nat BY <1>3, <1>4
  <2> QED BY <1>3, <1>5, <1>8, <1>9, <1>11, <2>1 DEF Shows, NotAhead
<1>14. fs'.epoch > fs.epoch
  <2>1. fs.epoch \in Nat BY <1>2, Typed
  <2> QED BY <1>8, <1>11, <2>1
<1>15. Tracks(fs', events, package, content')
  <2> HIDE DEF Tracks
  <2> QED BY <1>6, <1>8, <1>11, <1>12, <1>13, <1>14, SelectedTracks
<1>16. RowsForward
  <2>1. ASSUME fs.rows.available, rows.drive = fs.rows.drive PROVE fs.rows.content <= content[s[1]]
    BY <1>2, <1>3, <1>9, <2>1 DEF Shows, NotAhead
  <2>2. fs.rows.content \in Nat
    <3>1. fs.rows \in Rows BY <1>2, Typed
    <3> QED BY <3>1, Typed
  <2> QED BY <1>5, <1>9, <1>11, <2>1, <2>2 DEF RowsForward
<1> QED BY <1>15, <1>16

(* The worker scans the drive of its job, and hands the rows on. *)
LEMMA ScanTracks ==
  ASSUME World, AInv, ScanStart \/ ScanEnd
  PROVE  Tracks(fs', events', package, content) /\ RowsForward
<1> DEFINE j == fs.job
<1>1. /\ fs \in FileSystem /\ events \in Seq(Call) /\ Shows(fs, package, content) /\ Scans(fs, package, content)
      /\ Watches(fs) /\ One(fs, events) /\ \A i \in 1..Len(events) : Tells(events[i], fs, package, content)
  BY DEF AInv, Tracks, Call
<1>2. j \in Job /\ j # None /\ fs.inFlight /\ j.epoch <= fs.epoch /\ (j.epoch = fs.epoch => j.storage = fs.storage)
  <2>1. j # None BY DEF ScanStart, ScanEnd
  <2>2. j \in Job BY <1>1, <2>1, Typed
  <2> QED BY <1>1, <2>1, <2>2 DEF Scans
<1>3. j.epoch \in Nat /\ j.storage \in Storage /\ j.rows \in Rows \union {None} BY <1>2, Typed
<1>4. fs.rows.content \in Nat
  <2>1. fs.rows \in Rows BY <1>1, Typed
  <2> QED BY <2>1, Typed
<1>5. CASE ScanStart
  <2> DEFINE r == scanned(j.storage)
             i == [j EXCEPT !.rows = r]
  <2>1. fs' = [fs EXCEPT !.job.rows = r] /\ events' = events BY <1>5 DEF ScanStart
  <2>2. r \in Rows /\ NotAhead(r, package, content) BY <1>3, ScannedRows
  <2>3. j.epoch = fs.epoch => Follows(r, fs) BY <1>1, <1>2, ScannedFollows
  <2> HIDE DEF r
  <2>4. i \in Job /\ i.epoch = j.epoch /\ i.storage = j.storage /\ i.rows = r
    <3> HIDE DEF j
    <3> QED BY <1>2, <2>2 DEF Job
  <2>5. fs' = [fs EXCEPT !.job = i] BY <2>1
  <2> HIDE DEF i
  <2>6. /\ fs' \in FileSystem /\ fs'.job = i /\ fs'.inFlight = fs.inFlight /\ fs'.storage = fs.storage
        /\ fs'.rows = fs.rows /\ fs'.epoch = fs.epoch
        /\ fs'.monitorEpoch = fs.monitorEpoch /\ fs'.watched = fs.watched /\ fs'.sub = fs.sub /\ fs'.state = fs.state
    <3> HIDE DEF j
    <3> QED BY <1>1, <2>4, <2>5 DEF FileSystem
  <2>7. Scans(fs', package, content) BY <1>2, <2>2, <2>3, <2>4, <2>6 DEF Scans, Follows
  <2>8. Shows(fs', package, content) /\ Watches(fs')
    <3>1. Shows(fs', package, content) BY <1>1, <2>6 DEF Shows
    <3>2. Watches(fs') BY <1>1, <2>6 DEF Watches
    <3> QED BY <3>1, <3>2
  <2>9. One(fs', events) BY <1>1, <1>2, <2>6 DEF One
  <2>10. \A n \in 1..Len(events) : Tells(events[n], fs', package, content) BY <1>1, <2>6 DEF Tells, Follows
  <2> QED BY <1>1, <1>4, <2>1, <2>6, <2>7, <2>8, <2>9, <2>10 DEF Tracks, Call, RowsForward
<1>6. CASE ScanEnd
  <2> DEFINE r == IF valid(j.storage) THEN j.rows ELSE NoRows
             x == [type |-> "rows", epoch |-> j.epoch, value |-> r]
             n == Len(events) + 1
  <2>1. fs' = [fs EXCEPT !.job = None] /\ events' = Append(events, x) /\ j.rows # None BY <1>6 DEF ScanEnd
  <2>2. r \in Rows /\ NotAhead(r, package, content) /\ (j.epoch = fs.epoch => Follows(r, fs))
    <3>1. j.rows \in Rows /\ NotAhead(j.rows, package, content) /\ (j.epoch = fs.epoch => Follows(j.rows, fs))
      BY <1>1, <1>2, <1>3, <2>1 DEF Scans
    <3>2. NoRows \in Rows /\ ~NoRows.available BY DEF NoRows, Rows, Storage
    <3>3. NotAhead(NoRows, package, content) /\ Follows(NoRows, fs) BY <3>2 DEF NotAhead, Follows
    <3> QED BY <3>1, <3>2, <3>3
  <2> HIDE DEF r
  <2>3. x \in RowsCall /\ x.type = "rows" /\ x.epoch = j.epoch /\ x.value = r
    <3> HIDE DEF j
    <3> QED BY <1>3, <2>2 DEF RowsCall
  <2> HIDE DEF x
  <2>4. /\ events' \in Seq(Call) /\ Len(events') = n /\ events'[n] = x /\ Scanned(events') = Scanned(events) \union {n}
        /\ \A i \in 1..Len(events) : events'[i] = events[i]
    <3>1. x \in Call BY <2>3 DEF Call
    <3> QED BY <1>1, <2>1, <2>3, <3>1, CallQueued
  <2>5. /\ fs' \in FileSystem /\ fs'.job = None /\ fs'.inFlight = fs.inFlight /\ fs'.storage = fs.storage
        /\ fs'.rows = fs.rows /\ fs'.epoch = fs.epoch
        /\ fs'.monitorEpoch = fs.monitorEpoch /\ fs'.watched = fs.watched /\ fs'.sub = fs.sub /\ fs'.state = fs.state
    BY <1>1, <2>1 DEF FileSystem
  <2>6. One(fs', events')
    <3>1. Scanned(events') = {n} BY <1>1, <1>2, <2>4 DEF One
    <3> QED BY <1>2, <2>5, <3>1 DEF One
  <2>7. \A i \in 1..Len(events') : Tells(events'[i], fs', package, content)
    <3>1. ASSUME NEW i \in 1..Len(events) PROVE Tells(events[i], fs', package, content) BY <1>1, <2>5 DEF Tells, Follows
    <3>2. Tells(x, fs', package, content) BY <1>2, <2>2, <2>3, <2>5 DEF Tells, Follows
    <3>3. Len(events) \in Nat BY <1>1, LenProperties
    <3>4. \A i \in 1..n : i \in 1..Len(events) \/ i = n BY <3>3
    <3> QED BY <2>4, <3>1, <3>2, <3>4
  <2>8. Shows(fs', package, content) /\ Watches(fs') /\ Scans(fs', package, content)
    BY <1>1, <2>5 DEF Shows, Watches, Scans
  <2> QED BY <1>4, <2>4, <2>5, <2>6, <2>7, <2>8 DEF Tracks, Call, RowsForward
<1> QED BY <1>5, <1>6

(* A state that is read is of the drive that was asked for. *)
LEMMA StateRead ==
  ASSUME World, NEW s \in Storage
  PROVE  read(s) \in State /\ (read(s).available => read(s).id = s)
<1>1. CASE readable(s)
  <2>1. s \in Drive /\ s[1] \in Root BY <1>1, DriveFacts DEF readable, valid, Storage
  <2> DEFINE f == file[s[1]]
             n == f.running /\ fresh[s[1]]
  <2>2. f \in File /\ f.id = s BY <1>1, <2>1 DEF readable, World
  <2>3. read(s) = [available |-> TRUE, id |-> f.id, instance |-> f.instance, revision |-> f.revision, running |-> n]
    BY <1>1 DEF read
  <2>4. n \in BOOLEAN OBVIOUS
  <2> HIDE DEF f, n
  <2> QED BY <2>1, <2>2, <2>3, <2>4 DEF File, State, Storage
<1>2. CASE ~readable(s)
  <2>1. read(s) = NoState BY <1>2 DEF read
  <2> QED BY <2>1 DEF NoState, State, Storage
<1> QED BY <1>1, <1>2

(* The subscription hands a state on. *)
LEMMA SubscriptionTracks ==
  ASSUME World, AInv, SubscriptionRead
  PROVE  Tracks(fs', events', package, content) /\ fs'.rows = fs.rows
<1> DEFINE u == fs.sub
           v == read(u.id)
           w == [u EXCEPT !.previous = v]
           x == [type |-> "state", epoch |-> u.epoch, value |-> v]
           n == Len(events) + 1
<1>1. /\ fs \in FileSystem /\ events \in Seq(Call) /\ Shows(fs, package, content) /\ Scans(fs, package, content)
      /\ Watches(fs) /\ One(fs, events) /\ \A i \in 1..Len(events) : Tells(events[i], fs, package, content)
  BY DEF AInv, Tracks, Call
<1>2. u # None /\ fs' = [fs EXCEPT !.sub.previous = v] /\ events' = Append(events, x) BY DEF SubscriptionRead
<1>3. u \in Subscription /\ u.id = fs.storage /\ u.epoch = fs.monitorEpoch
  <2>1. u \in Subscription BY <1>1, <1>2, Typed
  <2> QED BY <1>1, <1>2, <2>1 DEF Watches
<1>4. u.id \in Storage /\ u.epoch \in Nat BY <1>3, Typed
<1>5. v \in State /\ (v.available => v.id = u.id) BY <1>4, StateRead
<1> HIDE DEF v
<1>6. w \in Subscription /\ w.id = u.id /\ w.epoch = u.epoch
  <2> HIDE DEF u
  <2> QED BY <1>3, <1>5 DEF Subscription
<1>7. x \in StateCall /\ x.type = "state" /\ x.epoch = u.epoch /\ x.value = v
  <2> HIDE DEF u
  <2> QED BY <1>4, <1>5 DEF StateCall
<1>8. fs' = [fs EXCEPT !.sub = w] BY <1>2
<1> HIDE DEF w, x
<1>9. /\ fs' \in FileSystem /\ fs'.job = fs.job /\ fs'.inFlight = fs.inFlight /\ fs'.storage = fs.storage
       /\ fs'.rows = fs.rows /\ fs'.epoch = fs.epoch
       /\ fs'.monitorEpoch = fs.monitorEpoch /\ fs'.watched = fs.watched /\ fs'.sub = w /\ fs'.state = fs.state
  <2> HIDE DEF u
  <2> QED BY <1>1, <1>6, <1>8 DEF FileSystem
<1>10. /\ events' \in Seq(Call) /\ Len(events') = n /\ events'[n] = x /\ Scanned(events') = Scanned(events)
       /\ \A i \in 1..Len(events) : events'[i] = events[i]
  <2>1. x \in Call /\ x.type # "rows" BY <1>7 DEF Call
  <2>2. /\ Append(events, x) \in Seq(Call) /\ Len(Append(events, x)) = Len(events) + 1
        /\ \A i \in 1..Len(events) : Append(events, x)[i] = events[i]
        /\ Append(events, x)[Len(events) + 1] = x
        /\ Scanned(Append(events, x)) = Scanned(events) \union (IF x.type = "rows" THEN {Len(events) + 1} ELSE {})
    BY <1>1, <2>1, CallQueued
  <2> QED BY <1>2, <2>1, <2>2
<1>11. \A i \in 1..Len(events') : Tells(events'[i], fs', package, content)
  <2>1. ASSUME NEW i \in 1..Len(events) PROVE Tells(events[i], fs', package, content) BY <1>1, <1>9 DEF Tells, Follows
  <2>2. fs.monitorEpoch \in Nat BY <1>1, Typed
  <2>3. Tells(x, fs', package, content) BY <1>3, <1>5, <1>7, <1>9, <2>2 DEF Tells
  <2>4. Len(events) \in Nat BY <1>1, LenProperties
  <2>5. \A i \in 1..n : i \in 1..Len(events) \/ i = n BY <2>4
  <2> QED BY <1>10, <2>1, <2>3, <2>5
<1>12. One(fs', events') BY <1>1, <1>9, <1>10 DEF One
<1>13. Watches(fs') BY <1>1, <1>3, <1>6, <1>9 DEF Watches
<1>14. Shows(fs', package, content) BY <1>1, <1>9 DEF Shows
<1>15. Scans(fs', package, content) BY <1>1, <1>9 DEF Scans, Follows
<1> QED BY <1>9, <1>10, <1>11, <1>12, <1>13, <1>14, <1>15 DEF Tracks, Call

(* The rows of a scan are shown unless something was selected since; then the next scan begins. *)
LEMMA RowsTracks ==
  ASSUME World, AInv, RowsEvent
  PROVE  Tracks(fs', events', package, content) /\ RowsForward
<1> DEFINE x == Head(events)
           r == IF current(x.epoch) THEN x.value ELSE fs.rows
           g == [fs EXCEPT !.inFlight = FALSE, !.pending = FALSE, !.rows = r]
<1>1. /\ events # <<>> /\ x.type = "rows" /\ events' = Tail(events)
      /\ fs' = IF fs.pending THEN requestSynchronization(g) ELSE g
  BY DEF RowsEvent
<1>2. /\ fs \in FileSystem /\ Shows(fs, package, content) /\ Watches(fs) /\ Tracks(fs, events, package, content)
  BY DEF AInv, Tracks
<1>3. /\ fs.job = None /\ Scanned(Tail(events)) = {} /\ Tells(x, fs, package, content) /\ x \in Call
      /\ Tail(events) \in Seq(Call) /\ \A i \in 1..Len(Tail(events)) : Tells(Tail(events)[i], fs, package, content)
  BY <1>1, <1>2, TailTracks
<1>4. x.value \in Rows
  <2>1. ASSUME NEW y \in StateCall PROVE y.type # "rows" BY DEF StateCall
  <2>2. ASSUME NEW y \in RowsCall PROVE y.value \in Rows BY Typed
  <2> QED BY <1>1, <1>3, <2>1, <2>2 DEF Call
<1>5. /\ r \in Rows /\ NotAhead(r, package, content) /\ (r.available => r.drive = fs.storage)
      /\ r.available /\ fs.rows.available => r.content >= fs.rows.content
  <2>1. fs.rows \in Rows /\ fs.rows.content \in Nat /\ x.value.content \in Nat
    <3>1. fs.rows \in Rows BY <1>2, Typed
    <3> QED BY <1>4, <3>1, Typed
  <2>2. CASE x.epoch = fs.epoch
    <3>1. r = x.value BY <2>2 DEF current
    <3> QED BY <1>1, <1>3, <1>4, <2>1, <2>2, <3>1 DEF Tells, Follows
  <2>3. CASE x.epoch # fs.epoch
    <3>1. r = fs.rows BY <2>3 DEF current
    <3> QED BY <1>2, <2>1, <3>1 DEF Shows
  <2> QED BY <2>2, <2>3
<1> HIDE DEF x, r
<1>6. /\ g \in FileSystem /\ g.job = fs.job /\ g.inFlight = FALSE /\ g.storage = fs.storage
      /\ g.rows = r /\ g.epoch = fs.epoch
      /\ g.monitorEpoch = fs.monitorEpoch /\ g.watched = fs.watched /\ g.sub = fs.sub /\ g.state = fs.state
  BY <1>2, <1>5 DEF FileSystem
<1> HIDE DEF g
<1>7. Shows(g, package, content) BY <1>5, <1>6 DEF Shows
<1>8. Watches(g) BY <1>2, <1>6 DEF Watches
<1>9. Scans(g, package, content) BY <1>3, <1>6 DEF Scans
<1>10. One(g, Tail(events)) BY <1>3, <1>6 DEF One
<1>11. \A i \in 1..Len(Tail(events)) : Tells(Tail(events)[i], g, package, content)
  <2> SUFFICES ASSUME NEW i \in 1..Len(Tail(events)) PROVE Tells(Tail(events)[i], g, package, content) OBVIOUS
  <2>1. Tail(events)[i].type # "rows" BY <1>3 DEF Scanned
  <2> QED BY <1>3, <1>6, <2>1 DEF Tells
<1>12. Tracks(g, Tail(events), package, content) BY <1>3, <1>6, <1>7, <1>8, <1>9, <1>10, <1>11 DEF Tracks, Call
<1>13. /\ Tracks(requestSynchronization(g), Tail(events), package, content)
       /\ requestSynchronization(g).rows = r
  BY <1>6, <1>12, RequestTracks
<1>14. Tracks(fs', events', package, content) /\ fs'.rows = r
  <2>1. CASE fs.pending BY <1>1, <1>13, <2>1
  <2>2. CASE ~fs.pending BY <1>1, <1>6, <1>12, <2>2
  <2> QED BY <2>1, <2>2
<1> QED BY <1>5, <1>14 DEF RowsForward

(* A state of the monitor is taken, and a number that moved asks for a scan. *)
LEMMA StateTracks ==
  ASSUME World, AInv, StateEvent
  PROVE  Tracks(fs', events', package, content) /\ fs'.rows = fs.rows
<1> DEFINE x == Head(events)
           v == x.value
           t == ~(v.running /\ v.available /\ Authority)
           g == [fs EXCEPT !.state = v, !.timer = t]
<1>1. /\ events # <<>> /\ x.type = "state" /\ events' = Tail(events)
      /\ \/ fs' = fs
         \/ x.epoch = fs.monitorEpoch /\ (fs' = g \/ fs' = requestSynchronization(g))
  BY DEF StateEvent
<1>2. Tracks(fs, events, package, content) BY DEF AInv
<1>3. Tracks(fs, Tail(events), package, content) /\ Tells(x, fs, package, content) /\ x \in Call
  BY <1>1, <1>2, TailTracks
<1>4. CASE fs' = fs BY <1>1, <1>3, <1>4
<1>5. CASE x.epoch = fs.monitorEpoch /\ (fs' = g \/ fs' = requestSynchronization(g))
  <2>1. v \in State /\ (v.available => v.id = fs.storage)
    <3>1. ASSUME NEW y \in RowsCall PROVE y.type # "state" BY DEF RowsCall
    <3>2. ASSUME NEW y \in StateCall PROVE y.value \in State BY Typed
    <3> QED BY <1>1, <1>3, <1>5, <3>1, <3>2 DEF Call, Tells
  <2>2. t \in BOOLEAN OBVIOUS
  <2> HIDE DEF v, t
  <2>3. /\ fs \in FileSystem /\ Tail(events) \in Seq(Call) /\ Shows(fs, package, content) /\ Scans(fs, package, content)
        /\ Watches(fs) /\ One(fs, Tail(events))
        /\ \A i \in 1..Len(Tail(events)) : Tells(Tail(events)[i], fs, package, content)
    BY <1>3 DEF Tracks, Call
  <2>4. /\ g \in FileSystem /\ g.job = fs.job /\ g.inFlight = fs.inFlight /\ g.storage = fs.storage
        /\ g.rows = fs.rows /\ g.epoch = fs.epoch
        /\ g.monitorEpoch = fs.monitorEpoch /\ g.watched = fs.watched /\ g.sub = fs.sub /\ g.state = v
    BY <2>1, <2>2, <2>3 DEF FileSystem
  <2> HIDE DEF g
  <2>5. Shows(g, package, content) BY <2>3, <2>4 DEF Shows
  <2>6. Scans(g, package, content) BY <2>3, <2>4 DEF Scans, Follows
  <2>7. Watches(g) BY <2>1, <2>3, <2>4 DEF Watches
  <2>8. One(g, Tail(events)) BY <2>3, <2>4 DEF One
  <2>9. \A i \in 1..Len(Tail(events)) : Tells(Tail(events)[i], g, package, content)
    BY <2>3, <2>4 DEF Tells, Follows
  <2>10. Tracks(g, Tail(events), package, content) BY <2>3, <2>4, <2>5, <2>6, <2>7, <2>8, <2>9 DEF Tracks, Call
  <2>11. /\ Tracks(requestSynchronization(g), Tail(events), package, content)
         /\ requestSynchronization(g).rows = fs.rows
    BY <2>4, <2>10, RequestTracks
  <2>12. CASE fs' = g BY <1>1, <2>4, <2>10, <2>12
  <2>13. CASE fs' = requestSynchronization(g) BY <1>1, <2>11, <2>13
  <2> QED BY <1>5, <2>12, <2>13
<1> QED BY <1>1, <1>4, <1>5

-----------------------------------------------------------------------------
(* The application: every step keeps its invariant and never shows older rows. *)
LEMMA StepApplication ==
  ASSUME World, World', AInv, [Next]_vars
  PROVE  AInv' /\ RowsForward
<1> USE DEF drives, daemon, app
<1>1. Tracks(fs, events, package, content) BY DEF AInv
<1>2. ASSUME NEW r \in Rows PROVE r.content >= r.content
  <2>1. r.content \in Nat BY Typed
  <2> QED BY <2>1
<1>3. fs.rows \in Rows
  <2>1. fs \in FileSystem BY DEF AInv, Tracks
  <2> QED BY <2>1, Typed
<1>4. fs.rows.content >= fs.rows.content BY <1>2, <1>3
<1>5. ASSUME fs'.rows = fs.rows PROVE RowsForward BY <1>4, <1>5 DEF RowsForward
<1>6. ASSUME UNCHANGED <<package, content>>, Tracks(fs', events', package, content) PROVE AInv' BY <1>6 DEF AInv
<1>7. package \in [Root -> Nat] /\ content \in [Root -> Nat] /\ package' \in [Root -> Nat] /\ content' \in [Root -> Nat]
  BY DEF World
<1>8. ASSUME NEW r \in Root, Edit(r) \/ Replace(r) PROVE AInv' /\ RowsForward
  <2>1. UNCHANGED <<fs, events>> BY <1>8 DEF Edit, Replace
  <2>2. \A q \in Root : package[q] < package'[q] \/ (package[q] = package'[q] /\ content[q] <= content'[q])
    <3>1. CASE Edit(r) BY <1>7, <3>1 DEF Edit
    <3>2. CASE Replace(r) BY <1>7, <3>2 DEF Replace
    <3> QED BY <1>8, <3>1, <3>2
  <2>3. Tracks(fs, events, package', content') BY <1>1, <1>7, <2>2, WorldGoesOn
  <2> QED BY <1>5, <2>1, <2>3 DEF AInv
<1>9. ASSUME UNCHANGED <<drives, app>> PROVE AInv' /\ RowsForward
  BY <1>1, <1>5, <1>6, <1>9
<1>10. CASE \/ UNCHANGED vars \/ \E r \in Root : Age(r)
            \/ \E d \in Daemons : \/ \E r \in Root : PublisherStart(d, r)
                                  \/ PollScan(d) \/ PollWrite(d) \/ PublisherStop(d) \/ Crash(d)
  <2>1. UNCHANGED <<drives, app>> BY <1>10 DEF vars, Age, PublisherStart, PollScan, PollWrite, PublisherStop, Crash
  <2> QED BY <1>9, <2>1
<1>11. ASSUME NEW r \in Root, Open(r) PROVE AInv' /\ RowsForward
  <2>1. UNCHANGED <<package, content, events>> BY <1>11 DEF Open
  <2>2. Tracks(fs', events, package, content) /\ RowsForward BY <1>11, OpenTracks
  <2> QED BY <1>6, <2>1, <2>2
<1>12. CASE Save
  <2>1. UNCHANGED <<package, events>> BY <1>12 DEF Save
  <2>2. Tracks(fs', events, package, content') /\ RowsForward BY <1>12, SaveTracks
  <2> QED BY <2>1, <2>2 DEF AInv
<1>13. CASE adoptStorage
  <2>1. UNCHANGED <<package, content, events>> BY <1>13 DEF adoptStorage
  <2>2. Tracks(fs', events, package, content) BY <1>13, AdoptTracks
  <2> QED BY <1>6, <1>13, <2>1, <2>2 DEF RowsForward
<1>14. CASE RefreshRequested \/ Timer
  <2>1. UNCHANGED <<package, content, events>> /\ fs' = requestSynchronization(fs)
    BY <1>14 DEF RefreshRequested, Timer
  <2>2. Tracks(requestSynchronization(fs), events, package, content) /\ requestSynchronization(fs).rows = fs.rows
    BY <1>1, RequestTracks
  <2> QED BY <1>5, <1>6, <2>1, <2>2
<1>15. CASE ScanStart \/ ScanEnd
  <2>1. UNCHANGED <<package, content>> BY <1>15 DEF ScanStart, ScanEnd
  <2> QED BY <1>6, <1>15, <2>1, ScanTracks
<1>16. CASE SubscriptionRead
  <2>1. UNCHANGED <<package, content>> BY <1>16 DEF SubscriptionRead
  <2> QED BY <1>5, <1>6, <1>16, <2>1, SubscriptionTracks
<1>17. CASE RowsEvent
  <2>1. UNCHANGED <<package, content>> BY <1>17 DEF RowsEvent
  <2> QED BY <1>6, <1>17, <2>1, RowsTracks
<1>18. CASE StateEvent
  <2>1. UNCHANGED <<package, content>> BY <1>18 DEF StateEvent
  <2> QED BY <1>5, <1>6, <1>18, <2>1, StateTracks
<1> QED BY <1>8, <1>10, <1>11, <1>12, <1>13, <1>14, <1>15, <1>16, <1>17, <1>18 DEF Next

LEMMA InitialMirror == Init => IInv
<1> SUFFICES ASSUME Init PROVE IInv OBVIOUS
<1>1. World
  <2>1. ASSUME NEW r \in Root PROVE Left(r) \in File BY DEF Left, File, Drive
  <2>2. file \in [Root -> File \union {None}] BY <2>1 DEF Init
  <2> QED BY <2>2 DEF Init, World
<1>2. DInv
  <2>1. Idle \in Publisher /\ ~Idle.running BY DEF Idle, Publisher, Storage
  <2>2. \A d \in Daemons : pub[d] = Idle BY DEF Init
  <2>3. pub \in [Daemons -> Publisher] /\ instances = 0 BY <2>1 DEF Init
  <2>4. \A r \in Root : file[r].id[1] = r BY DEF Init, Left
  <2> QED BY <2>1, <2>2, <2>3, <2>4 DEF DInv, Alone, Counts
<1>3. AInv
  <2> DEFINE e == <<>>
             rows == NoRows
             state == NoState
  <2>1. e \in Seq(RowsCall \union StateCall) /\ Len(e) = 0 BY EmptySeq
  <2>2. rows \in Rows /\ ~rows.available BY DEF NoRows, Rows, Storage
  <2>3. state \in State /\ ~state.available BY DEF NoState, State, Storage
  <2>4. /\ fs = [storage |-> None, rows |-> rows, epoch |-> 0, inFlight |-> FALSE, pending |-> FALSE,
                 job |-> None, timer |-> TRUE, monitorEpoch |-> 0, watched |-> None, sub |-> None, state |-> state]
        /\ events = e
    BY DEF Init
  <2> HIDE DEF e, rows, state
  <2>5. /\ fs \in FileSystem /\ fs.rows = rows /\ fs.job = None /\ fs.watched = None /\ fs.sub = None /\ fs.state = state
    BY <2>2, <2>3, <2>4 DEF FileSystem, Storage
  <2>6. \A i \in 1..Len(events) : FALSE BY <2>1, <2>4
  <2>7. Scanned(events) = {} BY <2>6 DEF Scanned
  <2>8. Shows(fs, package, content) /\ Scans(fs, package, content) BY <2>2, <2>5 DEF Shows, Scans, NotAhead
  <2>9. Watches(fs) BY <2>3, <2>5 DEF Watches
  <2>10. One(fs, events) BY <2>5, <2>7 DEF One
  <2>11. \A i \in 1..Len(events) : Tells(events[i], fs, package, content) BY <2>6
  <2> QED BY <2>1, <2>4, <2>5, <2>8, <2>9, <2>10, <2>11 DEF AInv, Tracks
<1> QED BY <1>1, <1>2, <1>3 DEF IInv

LEMMA StepMirror == IInv /\ [Next]_vars => IInv'
<1> SUFFICES ASSUME World, DInv, AInv, [Next]_vars PROVE World' /\ DInv' /\ AInv' BY DEF IInv
<1>1. World' /\ DInv' BY StepDaemons
<1>2. AInv' BY <1>1, StepApplication
<1> QED BY <1>1, <1>2

(* The drives, their publishers and the application with the scan, the subscription and the queued
   calls that it has under way keep their invariant in every behaviour. *)
THEOREM Invariance == Spec => []IInv
<1>1. Init => IInv BY InitialMirror
<1>2. IInv /\ [Next]_vars => IInv' BY StepMirror
<1> QED BY <1>1, <1>2, PTL DEF Spec

(* Whatever is selected, saved, replaced or adopted while a scan or a state is under way, the rows
   and the revision that are shown are of the selected drive. *)
THEOREM ShownIsSelected == Spec => []MirrorOfSelection
<1>1. IInv => MirrorOfSelection BY DEF IInv, AInv, Tracks, Shows, Watches, MirrorOfSelection
<1> QED BY <1>1, Invariance, PTL

(* No step shows older rows of the drive that is shown, and none turns the number of a state file
   back or changes what it says without a new number. *)
THEOREM NothingGoesBack == Spec => NothingOlder
<1>1. IInv /\ [Next]_vars =>
        [/\ fs.rows.available /\ fs'.rows.available /\ fs'.rows.drive = fs.rows.drive
              => adoptStorage \/ fs'.rows.content >= fs.rows.content
         /\ \A r \in Root :
              file[r] # None /\ file'[r] # None /\ file'[r].id = file[r].id
              => \/ file'[r].revision > file[r].revision
                 \/ file'[r].revision = file[r].revision /\ file'[r].seen = file[r].seen]_vars
  <2> SUFFICES ASSUME World, DInv, AInv, [Next]_vars PROVE RowsForward /\ \A r \in Root : FileForward(r)
    BY DEF IInv, RowsForward, FileForward
  <2>1. World' /\ \A r \in Root : FileForward(r) BY StepDaemons
  <2>2. RowsForward BY <2>1, StepApplication
  <2> QED BY <2>1, <2>2
<1> QED BY <1>1, Invariance, PTL DEF Spec, NothingOlder
=============================================================================
