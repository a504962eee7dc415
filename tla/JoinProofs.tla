----------------------------- MODULE JoinProofs -----------------------------
(***************************************************************************)
(* How devices join.  What adopting a host's container keeps, for any      *)
(* files, hosts and containers, any number of adoptions, edits and         *)
(* crashes; and what pairing keeps, for any devices and desktops, offers,  *)
(* restarts and changes of settings.                                       *)
(***************************************************************************)
EXTENDS Adoption, Pairing, SequenceTheorems, WellFoundedInduction, NaturalsInduction, TLAPS

(***************************************************************************)
(* Identity.  A plan under way is of a host, is never complete, and has    *)
(* told the binding so before the manifest changes its identifier; the     *)
(* journal calls a mirror complete only after the manifest is published.   *)
(***************************************************************************)
Fields == {"container", "adoption", "host", "replica", "target", "complete", "detached", "plan", "entries", "pulled"}
Journal(d) == d = [f \in Fields |-> d[f]]
Operation(o) == o = None \/ o = [kind |-> o.kind, offer |-> o.offer, step |-> o.step, todo |-> o.todo]
Published(k) == manifest = [id |-> k, ready |-> TRUE]

Detaching == db.adoption = "detaching"

Steps ==
  /\ op # None /\ op.kind = "bind" => op.offer \in Offers
  /\ At("decide") => op.offer \in Offers /\ ~Detaching
  /\ At("identity") \/ At("moving") => Detaching /\ (mirror # None => ~mirror.complete)
  /\ At("moving") => manifest.id = db.target /\ op.todo \subseteq db.plan
  /\ At("complete") => db.adoption = "pulling" /\ Published(db.target)

Identified ==
  /\ Journal(db) /\ Operation(op) /\ manifest = [id |-> manifest.id, ready |-> manifest.ready]
  /\ Detaching => db.host # None /\ ~db.complete
  /\ db.complete => Published(db.target)
  /\ Steps

(***************************************************************************)
(* Foreign files.  Contents that users save are new; of those that were    *)
(* there before the adoption under way, or the last one, only the ones     *)
(* still to be moved aside are in the sections.                            *)
(***************************************************************************)
Known(x) == x \in Int => x <= edits
Left == IF ~Detaching THEN {} ELSE IF At("moving") THEN op.todo ELSE db.plan

Numbered ==
  /\ edits \in Nat /\ \A n \in DOMAIN disk : Known(disk[n])
  /\ \A f \in foreign : f = <<f[1], f[2]>> /\ Known(f[1]) /\ f[1] # f[2]
  /\ db.host = None => foreign = {}
  /\ db.adoption \in {"detaching", "pulling"} => db.target \notin Int

Aside == db.host # None => \A n \in DOMAIN disk \ Left : <<disk[n], db.target>> \notin foreign

Sorted == Numbered /\ Aside

IInv == Identified /\ IdentityAgrees /\ Sorted

(* It holds when the drive has been created. *)
LEMMA InitialIdentified == Init => Identified /\ IdentityAgrees
<1> SUFFICES ASSUME Init PROVE Identified /\ IdentityAgrees OBVIOUS
<1>1. Journal(db) /\ db.adoption = None /\ db.complete = FALSE /\ db.pulled = None /\ db.container = Own
  BY DEF Init, Journal, Fields
<1>2. op = None /\ mirror = None /\ manifest = [id |-> Own, ready |-> TRUE] BY DEF Init
<1>3. ~Detaching BY <1>1, AdoptionAssumption DEF Detaching
<1> QED BY <1>1, <1>2, <1>3 DEF Identified, IdentityAgrees, bound, Operation, Detaching, Steps, At

LEMMA InitialSorted == Init => Sorted
<1> SUFFICES ASSUME Init PROVE Sorted OBVIOUS
<1>1. \A n \in DOMAIN disk : Known(disk[n]) BY AdoptionAssumption DEF Init, Known
<1> QED BY <1>1, AdoptionAssumption DEF Init, Sorted, Numbered, Aside

(* The operation under way: what each step may find. *)
LEMMA StepIdentified ==
  ASSUME Identified, IdentityAgrees, [Next]_vars
  PROVE  Identified' /\ IdentityAgrees'
<1> USE DEF durable, files, history
<1>j. /\ db = [f \in Fields |-> db[f]] /\ manifest = [id |-> manifest.id, ready |-> manifest.ready]
      /\ op = None \/ op = [kind |-> op.kind, offer |-> op.offer, step |-> op.step, todo |-> op.todo]
  BY DEF Identified, Journal, Operation
<1>0. ASSUME UNCHANGED <<db, manifest, mirror>>, op' = None PROVE Identified' /\ IdentityAgrees'
  BY <1>0 DEF Identified, IdentityAgrees, bound, Journal, Operation, Published, Detaching, Steps, At
<1>1. ASSUME UNCHANGED <<db, manifest, mirror, op>> PROVE Identified' /\ IdentityAgrees'
  BY <1>1 DEF Identified, IdentityAgrees, bound, Journal, Operation, Published, Detaching, Steps, At
<1>2. CASE open
  BY <1>2 DEF open, Begin, Identified, IdentityAgrees, bound, Journal, Operation, Published, Detaching, Steps, At
<1>3. ASSUME NEW o \in Offers, NEW r \in BOOLEAN, bindHost(o, r) PROVE Identified' /\ IdentityAgrees'
  BY <1>3 DEF bindHost, Begin, Identified, IdentityAgrees, bound, Journal, Operation, Published, Detaching, Steps, At
<1>4. CASE Resume
  <2>1. UNCHANGED <<db, manifest>> /\ At("resume") /\ mirror' = binding BY <1>4 DEF Resume
  <2>2. /\ \/ Detaching /\ op' = [op EXCEPT !.step = "identity"]
           \/ ~Detaching /\ op.kind = "bind" /\ op' = [op EXCEPT !.step = "decide"]
           \/ op' = None
    BY <1>4 DEF Resume, Detaching, Go, Ended
  <2>3. mirror' # None /\ mirror'.complete => manifest = [id |-> mirror'.container, ready |-> TRUE]
    BY <2>1 DEF binding, Identified, IdentityAgrees, Published
  <2>4. Detaching => ~mirror'.complete BY <2>1 DEF binding, Identified
  <2>5. Operation(op') /\ (op' # None => op'.offer = op.offer /\ op'.kind = op.kind)
    BY <1>j, <2>1, <2>2 DEF Operation, At
  <2>6. Steps' BY <1>j, <2>1, <2>2, <2>4, <2>5 DEF Identified, Steps, At, Detaching
  <2>7. IdentityAgrees' BY <2>1, <2>3 DEF IdentityAgrees, bound
  <2> QED BY <2>1, <2>5, <2>6, <2>7 DEF Identified, Journal, Published, Detaching
<1>5. CASE Identity
  <2>1. /\ UNCHANGED <<db, mirror>> /\ At("identity") /\ manifest' = [id |-> db.target, ready |-> FALSE]
        /\ op' = [op EXCEPT !.step = "moving", !.todo = db.plan]
    BY <1>5 DEF Identity
  <2>2. Detaching /\ (mirror # None => ~mirror.complete) /\ db.host # None /\ ~db.complete
    BY <2>1 DEF Identified, Steps
  <2>3. Operation(op') /\ op'.step = "moving" /\ op'.todo = db.plan /\ op'.kind = op.kind /\ op'.offer = op.offer
    BY <1>j, <2>1 DEF Operation, At
  <2>4. Steps' BY <2>1, <2>2, <2>3 DEF Identified, Steps, At, Detaching
  <2>5. IdentityAgrees' BY <2>1, <2>2 DEF IdentityAgrees, bound, Detaching
  <2> QED BY <2>1, <2>2, <2>3, <2>4, <2>5 DEF Identified, Journal, Published, Detaching
<1>6. CASE Detach
  <2>1. UNCHANGED <<db, manifest, mirror>> /\ At("moving") BY <1>6 DEF Detach
  <2>2. \/ op' = None
        \/ op' = [op EXCEPT !.todo = @ \ {Min(op.todo)}]
    BY <1>6 DEF Detach, detach, moved, passed, Failed
  <2>3. CASE op' = [op EXCEPT !.todo = @ \ {Min(op.todo)}]
    <3>1. Operation(op') /\ op'.step = "moving" /\ op'.todo \subseteq op.todo /\ op'.kind = op.kind /\ op'.offer = op.offer
      BY <1>j, <2>1, <2>3 DEF Operation, At
    <3>2. Steps' BY <2>1, <3>1 DEF Identified, Steps, At, Detaching
    <3>3. IdentityAgrees' BY <2>1 DEF IdentityAgrees, bound
    <3> QED BY <2>1, <3>1, <3>2, <3>3 DEF Identified, Journal, Published, Detaching
  <2> QED BY <2>1, <2>2, <2>3, <1>0
<1>7. CASE Adopted
  <2>1. /\ UNCHANGED <<manifest, mirror>> /\ At("moving") /\ op' = [op EXCEPT !.step = "resume"]
        /\ db' = [db EXCEPT !.container = manifest.id, !.adoption = "pulling", !.plan = {}, !.entries = {}, !.pulled = None]
    BY <1>7 DEF Adopted, Go
  <2>2. /\ Journal(db') /\ db'.container = manifest.id /\ db'.adoption = "pulling" /\ db'.pulled = None
        /\ db'.host = db.host /\ db'.complete = db.complete /\ db'.target = db.target
    BY <2>1, <1>j DEF Journal, Fields
  <2>3. Operation(op') /\ op'.step = "resume" /\ op'.kind = op.kind /\ op'.offer = op.offer
    BY <1>j, <2>1 DEF Operation, At
  <2>4. op.kind # "bind" \/ op.offer \in Offers BY <2>1 DEF Identified, Steps, At
  <2>5. Steps' BY <2>3, <2>4 DEF Steps, At
  <2>6. IdentityAgrees' BY <2>1, <2>2 DEF IdentityAgrees, bound
  <2>7. ~db.complete BY <2>1 DEF Identified, Steps
  <2> QED BY <2>1, <2>2, <2>3, <2>5, <2>6, <2>7, <1>j DEF Identified, Detaching
<1>8. CASE Same
  <2>1. /\ UNCHANGED <<manifest, mirror>> /\ At("decide") /\ op' = [op EXCEPT !.kind = "open", !.step = "resume"]
        /\ db' = db \/ db' = [db EXCEPT !.pulled = None, !.replica = op.offer.replica]
    BY <1>8 DEF Same
  <2>2. /\ Journal(db') /\ db'.container = db.container /\ db'.adoption = db.adoption
        /\ db'.host = db.host /\ db'.complete = db.complete /\ db'.target = db.target
        /\ db' = db \/ db'.pulled = None
    BY <2>1, <1>j DEF Journal, Fields
  <2>3. Operation(op') /\ op'.step = "resume" /\ op'.kind = "open" BY <1>j, <2>1 DEF Operation, At
  <2>4. Steps' BY <2>3 DEF Steps, At
  <2>5. IdentityAgrees' BY <2>1, <2>2 DEF IdentityAgrees, bound
  <2> QED BY <2>1, <2>2, <2>3, <2>4, <2>5 DEF Identified, Detaching, Published
<1>9. CASE Plan
  <2>1. /\ UNCHANGED <<manifest, mirror>> /\ At("decide") /\ op' = [op EXCEPT !.kind = "open", !.step = "resume"]
        /\ db' = plan(op.offer) /\ op.offer \in Offers /\ ~Detaching
    BY <1>9 DEF Plan, Identified, Steps
  <2>2. /\ Journal(db') /\ db'.container = db.container /\ db'.adoption = "detaching"
        /\ db'.host = op.offer.peer /\ ~db'.complete
    BY <2>1, <1>j DEF Journal, Fields, plan
  <2>3. Operation(op') /\ op'.step = "resume" /\ op'.kind = "open" BY <1>j, <2>1 DEF Operation, At
  <2>4. Steps' BY <2>3 DEF Steps, At
  <2>5. IdentityAgrees' BY <2>1, <2>2 DEF IdentityAgrees, bound, Detaching
  <2>6. db'.host # None BY <2>1, <2>2, AdoptionAssumption
  <2> QED BY <2>1, <2>2, <2>3, <2>4, <2>5, <2>6, <1>j DEF Identified, Detaching, Published
<1>10. CASE Completed
  <2>1. /\ UNCHANGED <<manifest, mirror>> /\ At("complete") /\ op' = [op EXCEPT !.step = "resume"]
        /\ db' = [db EXCEPT !.complete = TRUE]
    BY <1>10 DEF Completed, Go
  <2>2. db.adoption = "pulling" /\ Published(db.target) /\ (op.kind = "bind" => op.offer \in Offers)
    BY <2>1 DEF Identified, Steps, At
  <2>3. /\ Journal(db') /\ db'.container = db.container /\ db'.adoption = db.adoption
        /\ db'.host = db.host /\ db'.target = db.target /\ db'.pulled = db.pulled /\ db'.replica = db.replica
    BY <2>1, <1>j DEF Journal, Fields
  <2>4. Operation(op') /\ op'.step = "resume" /\ op'.kind = op.kind /\ op'.offer = op.offer
    BY <1>j, <2>1 DEF Operation, At
  <2>5. Steps' BY <2>2, <2>4 DEF Steps, At
  <2>6. bound' BY <2>1, <2>3 DEF IdentityAgrees, bound
  <2>7. IdentityAgrees' BY <2>1, <2>3, <2>6 DEF IdentityAgrees
  <2> QED BY <2>1, <2>2, <2>3, <2>4, <2>5, <2>7, <1>j DEF Identified, Detaching, Published
<1>11. CASE completeBootstrap
  <2>1. /\ UNCHANGED <<db, mirror>> /\ op = None /\ manifest' = [manifest EXCEPT !.ready = TRUE]
        /\ op' = [kind |-> "complete", offer |-> None, step |-> "complete", todo |-> {}]
        /\ db.adoption = "pulling" /\ db.target = manifest.id
    BY <1>11 DEF completeBootstrap, Idle, Begin
  <2>2. manifest' = [id |-> manifest.id, ready |-> TRUE] BY <1>j, <2>1
  <2>3. Operation(op') /\ op'.step = "complete" /\ op'.kind = "complete" BY <2>1 DEF Operation
  <2>4. Steps' BY <2>1, <2>2, <2>3 DEF Steps, At, Published
  <2>5. mirror # None /\ mirror.complete => manifest' = [id |-> mirror.container, ready |-> TRUE]
    <3>1. mirror # None /\ mirror.complete => manifest.id = mirror.container BY DEF IdentityAgrees
    <3> QED BY <2>2, <3>1
  <2>6. manifest'.id = manifest.id BY <2>2
  <2>7. IdentityAgrees' BY <2>1, <2>5, <2>6 DEF IdentityAgrees, bound
  <2> QED BY <2>1, <2>2, <2>3, <2>4, <2>7 DEF Identified, Detaching, Published, Journal
<1>12. ASSUME UNCHANGED <<manifest, mirror>>, op' = op, op = None, Journal(db'),
              db'.container = db.container, db'.adoption = db.adoption, db'.host = db.host, db'.target = db.target,
              db'.complete = db.complete, db'.pulled \in {db.pulled, db.replica}, db'.replica = db.replica
       PROVE  Identified' /\ IdentityAgrees'
  <2>1. Steps' BY <1>12 DEF Steps, At
  <2>2. IdentityAgrees' BY <1>12 DEF IdentityAgrees, bound
  <2> QED BY <1>12, <2>1, <2>2 DEF Identified, Detaching, Published, Operation
<1>13. CASE scan
  <2>1. /\ UNCHANGED <<manifest, mirror, op>> /\ op = None
        /\ db' = [db EXCEPT !.entries = {disk[n] : n \in DOMAIN disk}]
    BY <1>13 DEF scan, Idle
  <2> DEFINE e == {disk[n] : n \in DOMAIN disk}
  <2> HIDE DEF e
  <2>2. db' = [db EXCEPT !.entries = e] BY <2>1 DEF e
  <2>3. /\ Journal(db') /\ db'.container = db.container /\ db'.adoption = db.adoption /\ db'.host = db.host
        /\ db'.target = db.target /\ db'.complete = db.complete /\ db'.pulled = db.pulled /\ db'.replica = db.replica
    BY <2>2, <1>j DEF Journal, Fields
  <2> QED BY <2>1, <2>3, <1>12
<1>14. ASSUME NEW n \in Names, Pull(n) PROVE Identified' /\ IdentityAgrees'
  <2>1. /\ UNCHANGED <<manifest, mirror, op>> /\ op = None
        /\ db' = [db EXCEPT !.pulled = db.replica, !.entries = @ \union {db.target}]
    BY <1>14 DEF Pull, Idle
  <2>2. /\ Journal(db') /\ db'.container = db.container /\ db'.adoption = db.adoption /\ db'.host = db.host
        /\ db'.target = db.target /\ db'.complete = db.complete /\ db'.pulled = db.replica /\ db'.replica = db.replica
    BY <2>1, <1>j DEF Journal, Fields
  <2> QED BY <2>1, <2>2, <1>12
<1>15. ASSUME NEW n \in Names, Create(n) \/ Delete(n) PROVE Identified' /\ IdentityAgrees'
  BY <1>1, <1>15 DEF Create, Delete
<1>16. CASE Crash \/ Error BY <1>0, <1>16 DEF Crash, Error, Failed
<1>17. CASE ClaimCheck \/ ClaimWrite BY <1>1, <1>17 DEF ClaimCheck, ClaimWrite
<1>18. CASE UNCHANGED vars BY <1>1, <1>18 DEF vars
<1> QED
  BY <1>2, <1>3, <1>4, <1>5, <1>6, <1>7, <1>8, <1>9, <1>10, <1>11, <1>13, <1>14, <1>15, <1>16, <1>17, <1>18
  DEF Next, Step

(* Contents that are nobody's, and files that were put aside, stay out of what may be proposed. *)
LEMMA StepSorted ==
  ASSUME Identified, Sorted, [Next]_vars
  PROVE  Sorted'
<1> USE DEF durable, files, history
<1>j. /\ db = [f \in Fields |-> db[f]] /\ edits \in Nat
      /\ op = None \/ op = [kind |-> op.kind, offer |-> op.offer, step |-> op.step, todo |-> op.todo]
  BY DEF Identified, Journal, Operation, Sorted, Numbered
<1>k. ASSUME edits' \in Nat, edits <= edits'
      PROVE  /\ \A y : (y \in Int => y <= edits) => (y \in Int => y <= edits')
             /\ \A f \in foreign : f = <<f[1], f[2]>> /\ (f[1] \in Int => f[1] <= edits') /\ f[1] # f[2]
  <2>1. \A y : (y \in Int => y <= edits) => (y \in Int => y <= edits') BY <1>j, <1>k
  <2> QED BY <2>1 DEF Sorted, Numbered, Known
(* The files stay where they are, or go, and no fewer of them are still to be moved. *)
<1>m. ASSUME foreign' = foreign, edits' \in Nat, edits <= edits', db'.host = db.host, db'.target = db.target,
             db'.adoption = db.adoption \/ Detaching,
             DOMAIN disk' \subseteq DOMAIN disk, \A n \in DOMAIN disk' : disk'[n] = disk[n],
             DOMAIN disk' \ Left' \subseteq DOMAIN disk \ Left
      PROVE  Sorted'
  <2>1. Numbered' BY <1>m, <1>k DEF Sorted, Numbered, Known, Detaching
  <2>2. Aside' BY <1>m DEF Sorted, Aside
  <2> QED BY <2>1, <2>2 DEF Sorted
(* A file comes, of a content that is not foreign. *)
<1>n. ASSUME NEW n, NEW x, n \notin DOMAIN disk, disk' = With(disk, n, x), Left' = Left,
             foreign' = foreign, edits' \in Nat, edits <= edits', x \in Int => x <= edits',
             db'.host = db.host, db'.target = db.target, db'.adoption = db.adoption, <<x, db.target>> \notin foreign
      PROVE  Sorted'
  <2>1. /\ DOMAIN disk' = DOMAIN disk \union {n} /\ disk'[n] = x
        /\ \A m \in DOMAIN disk : disk'[m] = disk[m]
    BY <1>n DEF With
  <2>2. Numbered'
    <3>1. \A m \in DOMAIN disk' : disk'[m] \in Int => disk'[m] <= edits'
      BY <1>n, <1>k, <2>1 DEF Sorted, Numbered, Known
    <3> QED BY <1>n, <1>k, <3>1 DEF Sorted, Numbered, Known
  <2>3. Aside' BY <1>n, <2>1 DEF Sorted, Aside
  <2> QED BY <2>2, <2>3 DEF Sorted
<1>1. ASSUME UNCHANGED <<disk, foreign, edits>>, db'.host = db.host, db'.target = db.target,
             db'.adoption = db.adoption \/ Detaching, Left \subseteq Left'
      PROVE  Sorted'
  BY <1>1, <1>j, <1>m
<1>2. CASE open
  <2>1. op = None /\ op'.step = "resume" /\ UNCHANGED <<db, disk, foreign, edits>> BY <1>2 DEF open, Begin
  <2>2. Left' = Left BY <2>1 DEF Left, At, Detaching
  <2> QED BY <1>1, <2>1, <2>2
<1>3. ASSUME NEW o \in Offers, NEW r \in BOOLEAN, bindHost(o, r) PROVE Sorted'
  <2>1. op = None /\ op'.step = "resume" /\ UNCHANGED <<db, disk, foreign, edits>> BY <1>3 DEF bindHost, Begin
  <2>2. Left' = Left BY <2>1 DEF Left, At, Detaching
  <2> QED BY <1>1, <2>1, <2>2
<1>4. CASE Resume
  <2>1. UNCHANGED <<db, disk, foreign, edits>> /\ At("resume") BY <1>4 DEF Resume
  <2>2. op' = None \/ op'.step \in {"identity", "decide"}
    BY <1>4, <1>j DEF Resume, Go, Ended, At
  <2>3. Left' = Left BY <2>1, <2>2 DEF Left, At, Detaching
  <2> QED BY <1>1, <2>1, <2>3
<1>5. CASE Identity
  <2>1. UNCHANGED <<db, disk, foreign, edits>> /\ At("identity") /\ op' = [op EXCEPT !.step = "moving", !.todo = db.plan]
    BY <1>5 DEF Identity
  <2>2. op'.todo = db.plan BY <1>j, <2>1 DEF At
  <2>3. Left' = Left BY <2>1, <2>2 DEF Left, At, Detaching
  <2> QED BY <1>1, <2>1, <2>3
<1>6. CASE Detach
  <2> DEFINE n == Min(op.todo)
  <2>1. UNCHANGED <<db, foreign, edits>> /\ At("moving") /\ detach(n) BY <1>6 DEF Detach
  <2>2. Detaching /\ Left = op.todo /\ op.todo \subseteq db.plan BY <2>1 DEF Identified, Steps, Left, At
  <2> HIDE DEF n
  <2>3. CASE moved(n)
    <3>1. disk' = Without(disk, n) /\ op' = [op EXCEPT !.todo = @ \ {n}] BY <2>3 DEF moved
    <3>2. op'.step = "moving" /\ op'.todo = op.todo \ {n} BY <1>j, <2>1, <3>1 DEF At
    <3>3. Left' = op.todo \ {n} \/ Left' = db.plan BY <2>1, <2>2, <3>2 DEF Left, At, Detaching
    <3>4. DOMAIN disk' = DOMAIN disk \ {n} /\ \A m \in DOMAIN disk' : disk'[m] = disk[m] BY <3>1 DEF Without
    <3> QED BY <1>j, <1>m, <2>1, <2>2, <3>3, <3>4
  <2>4. CASE n \notin DOMAIN disk /\ passed(n)
    <3>1. disk' = disk /\ op' = [op EXCEPT !.todo = @ \ {n}] BY <2>4 DEF passed
    <3>2. op'.step = "moving" /\ op'.todo = op.todo \ {n} BY <1>j, <2>1, <3>1 DEF At
    <3>3. Left' = op.todo \ {n} \/ Left' = db.plan BY <2>1, <2>2, <3>2 DEF Left, At, Detaching
    <3> QED BY <1>j, <1>m, <2>1, <2>2, <2>4, <3>1, <3>3
  <2>5. CASE Failed /\ disk' = disk
    <3>1. Left' = db.plan BY <2>1, <2>2, <2>5 DEF Left, At, Failed, Detaching
    <3> QED BY <1>1, <2>1, <2>2, <2>5, <3>1
  <2> QED BY <2>1, <2>3, <2>4, <2>5 DEF detach
<1>7. CASE Adopted
  <2>1. /\ UNCHANGED <<disk, foreign, edits>> /\ At("moving") /\ op.todo = {}
        /\ db' = [db EXCEPT !.container = manifest.id, !.adoption = "pulling", !.plan = {}, !.entries = {}, !.pulled = None]
    BY <1>7 DEF Adopted
  <2>2. db'.host = db.host /\ db'.target = db.target BY <2>1, <1>j DEF Fields
  <2>3. Left = {} /\ Detaching BY <2>1 DEF Identified, Steps, Left, At
  <2> QED BY <1>1, <2>1, <2>2, <2>3
<1>8. CASE Same
  <2>1. /\ UNCHANGED <<disk, foreign, edits>> /\ At("decide")
        /\ db' = db \/ db' = [db EXCEPT !.pulled = None, !.replica = op.offer.replica]
    BY <1>8 DEF Same
  <2>2. db'.host = db.host /\ db'.target = db.target /\ db'.adoption = db.adoption BY <2>1, <1>j DEF Fields
  <2>3. Left = {} BY <2>1 DEF Identified, Steps, Left
  <2> QED BY <1>1, <2>1, <2>2, <2>3
<1>9. CASE Plan
  <2> DEFINE k == op.offer.container
             here == {disk[n] : n \in DOMAIN disk}
  <2>1. /\ UNCHANGED <<disk, edits>> /\ At("decide") /\ db' = plan(op.offer)
        /\ op' = [op EXCEPT !.kind = "open", !.step = "resume"]
        /\ foreign' = IF logical /\ db.host = None THEN foreign ELSE foreign \union {<<x, k>> : x \in here \ {k}}
    BY <1>9 DEF Plan
  <2>2. op.offer \in Offers /\ op.offer.peer # None BY <2>1, AdoptionAssumption DEF Identified, Steps
  <2>3. /\ db'.target = k /\ db'.host = op.offer.peer /\ db'.adoption = "detaching" /\ db'.plan = planned
    BY <2>1, <1>j DEF Fields, plan
  <2>4. op'.step = "resume" BY <1>j, <2>1 DEF At
  <2>5. Left' = planned BY <2>3, <2>4 DEF Left, At, Detaching
  <2>6. \A x \in here : Known(x) BY DEF Sorted, Numbered
  <2>7. \A f \in foreign' : f \in foreign \/ \E x \in here : f = <<x, k>> /\ x # k BY <2>1
  <2>8. Numbered'
    <3>1. \A f \in foreign' : f = <<f[1], f[2]>> /\ Known(f[1]) /\ f[1] # f[2]
      <4> SUFFICES ASSUME NEW f \in foreign' PROVE f = <<f[1], f[2]>> /\ Known(f[1]) /\ f[1] # f[2] OBVIOUS
      <4>1. CASE f \in foreign BY <4>1 DEF Sorted, Numbered
      <4>2. CASE \E x \in here : f = <<x, k>> /\ x # k BY <2>6, <4>2
      <4> QED BY <2>7, <4>1, <4>2
    <3>2. k \notin Int BY <2>2, AdoptionAssumption
    <3> QED BY <2>1, <2>2, <2>3, <3>1, <3>2 DEF Sorted, Numbered, Known
  <2>9. Aside'
    <3>1. CASE logical /\ db.host = None
      <4>1. foreign' = {} BY <2>1, <3>1 DEF Sorted, Numbered
      <4> QED BY <4>1 DEF Aside
    <3>2. CASE ~(logical /\ db.host = None)
      <4>1. Left' = DOMAIN disk' BY <2>1, <2>5, <3>2 DEF planned
      <4> QED BY <4>1 DEF Aside
    <3> QED BY <3>1, <3>2
  <2> QED BY <2>8, <2>9 DEF Sorted
<1>10. CASE Completed
  <2>1. UNCHANGED <<disk, foreign, edits>> /\ At("complete") /\ db' = [db EXCEPT !.complete = TRUE]
    BY <1>10 DEF Completed
  <2>2. db'.host = db.host /\ db'.target = db.target /\ db'.adoption = db.adoption BY <2>1, <1>j DEF Fields
  <2>3. Left = {} BY <2>1 DEF Identified, Steps, Left, Detaching
  <2> QED BY <1>1, <2>1, <2>2, <2>3
<1>11. CASE completeBootstrap
  <2>1. UNCHANGED <<db, disk, foreign, edits>> /\ db.adoption = "pulling" BY <1>11 DEF completeBootstrap
  <2>2. Left = {} BY <2>1 DEF Left, Detaching
  <2> QED BY <1>1, <2>1, <2>2
<1>12. CASE scan
  <2>1. /\ UNCHANGED <<disk, foreign, edits>> /\ op' = op
        /\ db' = [db EXCEPT !.entries = {disk[n] : n \in DOMAIN disk}]
    BY <1>12 DEF scan
  <2> DEFINE e == {disk[n] : n \in DOMAIN disk}
  <2> HIDE DEF e
  <2>2. db' = [db EXCEPT !.entries = e] BY <2>1 DEF e
  <2>3. db'.host = db.host /\ db'.target = db.target /\ db'.adoption = db.adoption /\ db'.plan = db.plan
    BY <2>2, <1>j DEF Fields
  <2>4. Left' = Left BY <2>1, <2>3 DEF Left, At, Detaching
  <2> QED BY <1>1, <2>1, <2>3, <2>4
<1>13. ASSUME NEW n \in Names, Pull(n) PROVE Sorted'
  <2>1. /\ UNCHANGED <<foreign, edits, op>> /\ n \notin DOMAIN disk /\ disk' = With(disk, n, db.target)
        /\ db' = [db EXCEPT !.pulled = db.replica, !.entries = @ \union {db.target}] /\ db.adoption = "pulling"
    BY <1>13 DEF Pull
  <2>2. db'.host = db.host /\ db'.target = db.target /\ db'.adoption = db.adoption /\ db'.plan = db.plan
    BY <2>1, <1>j DEF Fields
  <2>3. Left' = Left BY <2>1, <2>2 DEF Left, At, Detaching
  <2>4. <<db.target, db.target>> \notin foreign BY DEF Sorted, Numbered
  <2>5. db.target \notin Int BY <2>1 DEF Sorted, Numbered
  <2> QED BY <1>n, <1>j, <2>1, <2>2, <2>3, <2>4, <2>5
<1>14. ASSUME NEW n \in Names, Create(n) PROVE Sorted'
  <2>1. /\ UNCHANGED <<db, foreign, op>> /\ n \notin DOMAIN disk /\ disk' = With(disk, n, edits + 1)
        /\ edits' = edits + 1
    BY <1>14 DEF Create
  <2>2. Left' = Left BY <2>1 DEF Left, At, Detaching
  <2>3. <<edits + 1, db.target>> \notin foreign
    <3>1. ~Known(edits + 1) BY <1>j DEF Known
    <3> QED BY <3>1 DEF Sorted, Numbered
  <2>4. edits' \in Nat /\ edits <= edits' /\ edits + 1 <= edits' BY <1>j, <2>1
  <2> QED BY <1>n, <2>1, <2>2, <2>3, <2>4
<1>15. ASSUME NEW n \in Names, Delete(n) PROVE Sorted'
  <2>1. UNCHANGED <<db, foreign, op>> /\ disk' = Without(disk, n) /\ edits' = edits + 1 BY <1>15 DEF Delete
  <2>2. Left' = Left BY <2>1 DEF Left, At, Detaching
  <2>3. DOMAIN disk' \subseteq DOMAIN disk /\ \A m \in DOMAIN disk' : disk'[m] = disk[m] BY <2>1 DEF Without
  <2>4. edits' \in Nat /\ edits <= edits' BY <1>j, <2>1
  <2> QED BY <1>m, <2>1, <2>2, <2>3, <2>4
<1>16. CASE Crash \/ Error
  <2>1. UNCHANGED <<db, disk, foreign, edits>> /\ op' = None BY <1>16 DEF Crash, Error, Failed
  <2>2. Left \subseteq Left' BY <2>1 DEF Identified, Steps, Left, At, Detaching
  <2> QED BY <1>1, <2>1, <2>2
<1>17. CASE ClaimCheck \/ ClaimWrite
  <2>1. UNCHANGED <<db, disk, foreign, edits, op>> BY <1>17 DEF ClaimCheck, ClaimWrite
  <2> QED BY <1>1, <2>1 DEF Left, At, Detaching
<1>18. CASE UNCHANGED vars
  <2>1. UNCHANGED <<db, disk, foreign, edits, op>> BY <1>18 DEF vars
  <2> QED BY <1>1, <2>1 DEF Left, At, Detaching
<1> QED
  BY <1>2, <1>3, <1>4, <1>5, <1>6, <1>7, <1>8, <1>9, <1>10, <1>11, <1>12, <1>13, <1>14, <1>15, <1>16, <1>17, <1>18
  DEF Next, Step

(* The files of users: each move puts its file where nothing was. *)
Contents(f) == {f[n] : n \in DOMAIN f}
Recovery == UNION {Contents(recovered[a]) : a \in DOMAIN recovered}

LEMMA MovedKeeps ==
  ASSUME NEW n, n \in DOMAIN disk, ~saved(n), moved(n)
  PROVE  Contents(disk) \union Recovery \subseteq (Contents(disk) \union Recovery)'
<1> DEFINE a == db.detached
           old == IF a \in DOMAIN recovered THEN recovered[a] ELSE <<>>
           new == With(old, n, disk[n])
<1>1. recovered' = With(recovered, a, new) /\ disk' = Without(disk, n) BY DEF moved
<1>2. n \notin DOMAIN old BY DEF saved
<1>3. /\ DOMAIN new = DOMAIN old \union {n} /\ new[n] = disk[n]
      /\ \A m \in DOMAIN old : new[m] = old[m]
  <2> HIDE DEF old
  <2> QED BY <1>2 DEF With
<1>4. a \in DOMAIN recovered => Contents(recovered[a]) \subseteq Contents(new)
  <2>1. Contents(old) \subseteq Contents(new)
    <3> HIDE DEF old, new
    <3> QED BY <1>3 DEF Contents
  <2> QED BY <2>1
<1>5. disk[n] \in Contents(new)
  <2> HIDE DEF new, old
  <2> QED BY <1>3 DEF Contents
<1> HIDE DEF old, new
<1>6. /\ DOMAIN recovered' = DOMAIN recovered \union {a} /\ recovered'[a] = new
      /\ \A b \in DOMAIN recovered \ {a} : recovered'[b] = recovered[b]
  BY <1>1 DEF With
<1>7. Recovery \subseteq Recovery' BY <1>4, <1>6 DEF Recovery
<1>8. disk[n] \in Recovery' BY <1>5, <1>6 DEF Recovery
<1>9. \A m \in DOMAIN disk \ {n} : disk[m] \in Contents(disk') BY <1>1 DEF Without, Contents
<1> QED BY <1>7, <1>8, <1>9 DEF Contents

LEMMA StepPreserved == ASSUME Preserved, [Next]_vars PROVE Preserved'
<1> USE DEF durable, files, history
<1>p. kept \subseteq Contents(disk) \union Recovery BY DEF Preserved, Contents, Recovery
<1>q. ASSUME kept' \subseteq (Contents(disk) \union Recovery)' PROVE Preserved'
  BY <1>q DEF Preserved, Contents, Recovery
<1>1. CASE UNCHANGED <<disk, recovered, kept>>
  BY <1>1 DEF Preserved
<1>2. CASE Detach
  <2> DEFINE n == Min(op.todo)
  <2>1. kept' = kept /\ detach(n) BY <1>2 DEF Detach
  <2> HIDE DEF n
  <2>2. CASE UNCHANGED files BY <2>1, <2>2, <1>1
  <2>3. CASE n \in DOMAIN disk /\ ~saved(n) /\ moved(n) BY <2>1, <2>3, <1>p, <1>q, MovedKeeps
  <2> QED BY <2>1, <2>2, <2>3 DEF detach, passed
<1>3. ASSUME NEW n, NEW x, n \notin DOMAIN disk, disk' = With(disk, n, x), recovered' = recovered,
             kept' \subseteq kept \union {x}
      PROVE  Preserved'
  <2>1. Contents(disk') = Contents(disk) \union {x} BY <1>3 DEF With, Contents
  <2>2. Recovery' = Recovery BY <1>3 DEF Recovery
  <2> QED BY <1>3, <2>1, <2>2, <1>p, <1>q
<1>4. ASSUME NEW n \in Names, Pull(n) PROVE Preserved'
  BY <1>4, <1>3 DEF Pull
<1>5. ASSUME NEW n \in Names, Create(n) PROVE Preserved'
  BY <1>5, <1>3 DEF Create
<1>6. ASSUME NEW n \in Names, Delete(n) PROVE Preserved'
  <2>1. /\ disk' = Without(disk, n) /\ recovered' = recovered
        /\ kept' = kept \ ({disk[n]} \ {disk[m] : m \in DOMAIN disk \ {n}})
    BY <1>6 DEF Delete
  <2>2. Contents(disk') = {disk[m] : m \in DOMAIN disk \ {n}} BY <2>1 DEF Without, Contents
  <2>3. Recovery' = Recovery BY <2>1 DEF Recovery
  <2>4. Contents(disk) \subseteq Contents(disk') \union {disk[n]} BY <2>2 DEF Contents
  <2> QED BY <2>1, <2>2, <2>3, <2>4, <1>p, <1>q
<1>7. CASE open \/ Resume \/ Identity \/ Adopted \/ Same \/ Plan \/ Completed \/ completeBootstrap \/ scan
           \/ Crash \/ Error \/ ClaimCheck \/ ClaimWrite \/ \E o \in Offers, r \in BOOLEAN : bindHost(o, r)
  <2>1. UNCHANGED <<disk, recovered, kept>>
    BY <1>7 DEF open, Resume, Identity, Adopted, Same, Plan, Completed, completeBootstrap, scan, Crash, Error,
                ClaimCheck, ClaimWrite, bindHost
  <2> QED BY <1>1, <2>1
<1>8. CASE UNCHANGED vars BY <1>1, <1>8 DEF vars
<1> QED BY <1>2, <1>4, <1>5, <1>6, <1>7, <1>8 DEF Next, Step

-----------------------------------------------------------------------------
(* The operation that holds the lock, the journal, the manifest and the binding agree, and the files
   still to be moved aside are the only foreign ones in the sections, in every reachable state. *)
THEOREM Invariance == Spec => []IInv
<1>1. Init => IInv BY InitialIdentified, InitialSorted DEF IInv
<1>2. IInv /\ [Next]_vars => IInv' BY StepIdentified, StepSorted DEF IInv
<1> QED BY <1>1, <1>2, PTL DEF Spec

(* The three records of who the drive is agree at every point a crash can come
   (open, writeBinding, completeBootstrap). *)
THEOREM IdentitiesAgree == Spec => []IdentityAgrees
<1>1. IInv => IdentityAgrees BY DEF IInv
<1> QED BY <1>1, Invariance, PTL

(* What a drive held before it adopted a container is never proposed to that container's host
   (bindHost, resumeAdoption). *)
THEOREM NothingForeignProposed == Spec => []NothingForeign
<1>1. IInv => NothingForeign
  <2> SUFFICES ASSUME IInv, NEW p \in proposals, p \in foreign PROVE FALSE BY DEF NothingForeign
  <2>1. op = None /\ db.host # None /\ db.complete BY DEF proposals, Idle, bootstrapping
  <2>2. PICK n \in DOMAIN disk : p = <<disk[n], db.target>> BY DEF proposals
  <2>3. Left = {} BY <2>1 DEF IInv, Identified, Left
  <2> QED BY <2>1, <2>2, <2>3 DEF IInv, Sorted, Aside
<1> QED BY <1>1, Invariance, PTL

(* Nothing a user saved is lost by adopting one container after another
   (resumeAdoption, ConfinedFiles::detach). *)
THEOREM NothingLost == Spec => []Preserved
<1>1. Init => Preserved BY DEF Init, Preserved
<1>2. Preserved /\ [Next]_vars => Preserved' BY StepPreserved
<1> QED BY <1>1, <1>2, PTL DEF Spec

-----------------------------------------------------------------------------
(***************************************************************************)
(* Pairing: what a step may change of a device, and what it keeps.         *)
(***************************************************************************)
DeviceFields ==
  {"nonce", "auth", "host", "primary", "ep", "retired", "outgoing", "incoming", "accepted", "code", "seen",
   "quiet", "resume", "enabled", "current", "leader", "owns", "retry", "session"}

Listed(s) == \E S : s \in Seq(S)

(* The invitations of w: under way, or being repeated. *)
Invites(w) ==
  {m \in w.net : m.op = "invite"} \union {w.dev[d].outgoing : d \in {x \in Device : w.dev[x].outgoing # Nothing}}

Ops == {"invite", "accept", "verify", "decline", "cancel", "resume", "resume-ready"}
InviteFields == {"op", "from", "to", "request", "nonce", "senderNonce", "proof"}

(* What device x knows of others names devices. *)
Links(x) ==
  /\ x.outgoing # Nothing => /\ x.outgoing.op = "invite" /\ DOMAIN x.outgoing = InviteFields
                          /\ x.outgoing.from \in Device /\ x.outgoing.to \in Device
  /\ x.incoming # Nothing => x.incoming.from \in Device
  /\ x.accepted # Nothing => x.accepted.from \in Device
  /\ x.primary \in Device \union {Nothing}

Posted(m) == m.op \in Ops /\ m.from \in Device /\ m.to \in Device

Shape(w) ==
  /\ DOMAIN w = {"dev", "net", "tls"} /\ DOMAIN w.dev = Device /\ Listed(w.tls)
  /\ \A d \in Device : DOMAIN w.dev[d] = DeviceFields /\ w.dev[d].nonce \in Nat /\ Links(w.dev[d])
  /\ \A m \in w.net : Posted(m)

(* A device is the same process and remembers what is not in X, or it is a later process. *)
Remembers(w, v, X) ==
  \A d \in Device :
    \/ w.dev[d].nonce < v.dev[d].nonce
    \/ w.dev[d].nonce = v.dev[d].nonce /\ w.dev[d].seen \ X \subseteq v.dev[d].seen

(* A step from w to v that makes no offer. *)
Keeps(w, v, X) ==
  /\ Shape(v) /\ Remembers(w, v, X) /\ Invites(v) \subseteq Invites(w) /\ Len(v.tls) = Len(w.tls)

LEMMA KeepsTrans ==
  ASSUME NEW X, NEW u, NEW w, NEW v, Shape(u), Keeps(u, w, X), Keeps(w, v, X)
  PROVE  Keeps(u, v, X)
<1>1. ASSUME NEW d \in Device
      PROVE  \/ u.dev[d].nonce < v.dev[d].nonce
             \/ u.dev[d].nonce = v.dev[d].nonce /\ u.dev[d].seen \ X \subseteq v.dev[d].seen
  <2>1. u.dev[d].nonce \in Nat /\ w.dev[d].nonce \in Nat /\ v.dev[d].nonce \in Nat BY DEF Shape, Keeps
  <2>2. \/ u.dev[d].nonce < w.dev[d].nonce
        \/ u.dev[d].nonce = w.dev[d].nonce /\ u.dev[d].seen \ X \subseteq w.dev[d].seen
    BY DEF Keeps, Remembers
  <2>3. \/ w.dev[d].nonce < v.dev[d].nonce
        \/ w.dev[d].nonce = v.dev[d].nonce /\ w.dev[d].seen \ X \subseteq v.dev[d].seen
    BY DEF Keeps, Remembers
  <2> QED BY <2>1, <2>2, <2>3
<1> QED BY <1>1 DEF Keeps, Remembers

LEMMA KeepsSame == ASSUME NEW X, NEW w, Shape(w) PROVE Keeps(w, w, X)
BY DEF Keeps, Remembers

(* Only device d changes, and neither its process nor, outside X, its memory. *)
Only(w, v, d, X) ==
  /\ DOMAIN v = {"dev", "net", "tls"} /\ v.net = w.net /\ v.tls = w.tls
  /\ DOMAIN v.dev = Device /\ \A e \in Device : e # d => v.dev[e] = w.dev[e]
  /\ DOMAIN v.dev[d] = DeviceFields /\ v.dev[d].nonce = w.dev[d].nonce
  /\ w.dev[d].seen \ X \subseteq v.dev[d].seen
  /\ v.dev[d].outgoing \in {Nothing, w.dev[d].outgoing} /\ Links(v.dev[d])

LEMMA OnlyKeeps ==
  ASSUME NEW X, NEW w, NEW v, NEW d \in Device, Shape(w), Only(w, v, d, X)
  PROVE  Keeps(w, v, X)
<1>1. Shape(v) BY DEF Only, Shape
<1>2. Remembers(w, v, X) BY DEF Only, Remembers
<1>3. Invites(v) \subseteq Invites(w) BY DEF Only, Invites
<1> QED BY <1>1, <1>2, <1>3 DEF Keeps, Only

LEMMA SendKeeps ==
  ASSUME NEW X, NEW w, NEW m, Shape(w), Posted(m), m.op # "invite" \/ m \in Invites(w)
  PROVE  Keeps(w, send(w, m), X)
<1> DEFINE v == send(w, m)
<1>1. DOMAIN v = {"dev", "net", "tls"} /\ v.dev = w.dev /\ v.tls = w.tls /\ v.net = w.net \union {m}
  BY DEF send, Shape
<1> HIDE DEF v
<1>2. Shape(v) BY <1>1 DEF Shape
<1>3. Invites(v) \subseteq Invites(w) BY <1>1 DEF Invites
<1>4. Remembers(w, v, X) BY <1>1 DEF Remembers
<1> QED BY <1>1, <1>2, <1>3, <1>4 DEF Keeps, v

LEMMA DeclineKeeps ==
  ASSUME NEW X, NEW w, NEW d \in Device, Shape(w)
  PROVE  Keeps(w, decline(w, d), X)
<1> DEFINE i == w.dev[d].incoming
           m == reply(w, d, i, "decline")
           u == IF i # Nothing /\ known(w, d, i.from) THEN send(w, m) ELSE w
           v == [u EXCEPT !.dev[d].incoming = Nothing]
<1>1. decline(w, d) = v BY DEF decline
<1>2. m.op = "decline" /\ m.from = d /\ m.to = i.from BY DEF reply
<1> HIDE DEF m
<1>3. Keeps(w, u, X)
  <2>1. CASE i # Nothing
    <3>1. Posted(m) BY <1>2, <2>1 DEF Posted, Ops, Shape, Links
    <3> QED BY <1>2, <3>1, SendKeeps, KeepsSame
  <2>2. CASE i = Nothing BY <2>2, KeepsSame
  <2> QED BY <2>1, <2>2
<1> HIDE DEF u
<1>4. Shape(u) BY <1>3 DEF Keeps
<1>5. Only(u, v, d, X) BY <1>4 DEF Only, Shape, DeviceFields, Links
<1>6. Keeps(u, v, X) BY <1>4, <1>5, OnlyKeeps
<1> QED BY <1>1, <1>3, <1>6, KeepsTrans

LEMMA CompleteKeeps ==
  ASSUME NEW X, NEW w, NEW d \in Device, Shape(w)
  PROVE  Keeps(w, complete(w, d), X)
<1>1. Only(w, complete(w, d), d, X) BY DEF complete, Only, Shape, DeviceFields, Links
<1> QED BY <1>1, OnlyKeeps

LEMMA CancelKeeps ==
  ASSUME NEW X, NEW w, NEW d \in Device, Shape(w)
  PROVE  Keeps(w, cancel(w, d), X)
<1> DEFINE o == w.dev[d].outgoing
           a == decline(w, d)
           m == [o EXCEPT !.op = "cancel", !.proof = w.dev[d].auth]
           u == IF o # Nothing /\ known(w, d, o.to) THEN send(a, m) ELSE a
<1>1. cancel(w, d) = complete(u, d) BY DEF cancel
<1>2. Keeps(w, a, X) BY DeclineKeeps
<1>3. o # Nothing => m.op = "cancel" /\ Posted(m) BY DEF Shape, Links, InviteFields, Posted, Ops
<1> HIDE DEF o, a, m
<1>4. Shape(a) BY <1>2 DEF Keeps
<1>5. Keeps(a, u, X) BY <1>3, <1>4, SendKeeps, KeepsSame
<1> HIDE DEF u
<1>6. Shape(u) BY <1>5 DEF Keeps
<1>7. Keeps(u, complete(u, d), X) BY <1>6, CompleteKeeps
<1>8. Keeps(w, u, X) BY <1>2, <1>5, KeepsTrans
<1> QED BY <1>1, <1>7, <1>8, KeepsTrans

(* The link. *)
LEMMA Relisted ==
  ASSUME NEW s, NEW t, Listed(s), t = [i \in DOMAIN s |-> t[i]]
  PROVE  Listed(t) /\ Len(t) = Len(s)
<1>1. PICK S : s \in Seq(S) BY DEF Listed
<1> DEFINE T == {t[i] : i \in DOMAIN s}
<1>2. Len(s) \in Nat /\ DOMAIN s = 1..Len(s) BY <1>1, LenProperties
<1>3. t \in [1..Len(s) -> T] BY <1>2
<1>4. t \in Seq(T) BY <1>2, <1>3, SeqDef
<1>5. Len(t) = Len(s)
  <2>1. Len(t) \in Nat /\ DOMAIN t = 1..Len(t) BY <1>4, LenProperties
  <2>2. DOMAIN t = 1..Len(s) BY <1>3
  <2> QED BY <1>2, <2>1, <2>2
<1> QED BY <1>4, <1>5 DEF Listed

LEMMA LinkKeeps ==
  ASSUME NEW X, NEW w, NEW v, Shape(w), DOMAIN v = {"dev", "net", "tls"}, v.dev = w.dev, v.net = w.net,
         v.tls = [i \in DOMAIN w.tls |-> v.tls[i]]
  PROVE  Keeps(w, v, X)
<1>1. Listed(v.tls) /\ Len(v.tls) = Len(w.tls) BY Relisted DEF Shape
<1>2. Shape(v) BY <1>1 DEF Shape
<1>3. Invites(v) = Invites(w) BY DEF Invites
<1>4. Remembers(w, v, X) BY DEF Remembers
<1> QED BY <1>1, <1>2, <1>3, <1>4 DEF Keeps

LEMMA ClosedKeeps ==
  ASSUME NEW X, NEW w, NEW id, Shape(w)
  PROVE  Keeps(w, [w EXCEPT !.tls[id].stage = "closed"], X) /\ Keeps(w, [w EXCEPT !.tls[id].stage = "paired"], X)
<1>1. ASSUME NEW y PROVE Keeps(w, [w EXCEPT !.tls[id].stage = y], X)
  <2> DEFINE x == [w.tls[id] EXCEPT !.stage = y]
             t == [w.tls EXCEPT ![id] = x]
             v == [w EXCEPT !.tls[id].stage = y]
  <2>1. v = [w EXCEPT !.tls = t] OBVIOUS
  <2> HIDE DEF x
  <2>2. t = [i \in DOMAIN w.tls |-> t[i]] OBVIOUS
  <2> HIDE DEF t, v
  <2>3. DOMAIN v = {"dev", "net", "tls"} /\ v.dev = w.dev /\ v.net = w.net /\ v.tls = t BY <2>1 DEF Shape
  <2>4. Keeps(w, v, X) BY <2>2, <2>3, LinkKeeps
  <2> QED BY <2>4 DEF v
<1> QED BY <1>1

LEMMA CancelPairingKeeps ==
  ASSUME NEW X, NEW w, NEW d \in Device, Shape(w)
  PROVE  Keeps(w, cancelPairing(w, d), X)
<1> DEFINE u == Closed(w, w.dev[d].session)
           v == [u EXCEPT !.dev[d].session = Nothing]
<1>1. cancelPairing(w, d) \in {w, v} BY DEF cancelPairing
<1>2. Keeps(w, u, X) BY ClosedKeeps DEF Closed
<1> HIDE DEF u
<1>3. Shape(u) BY <1>2 DEF Keeps
<1>4. Only(u, v, d, X) BY <1>3 DEF Only, Shape, DeviceFields, Links
<1>5. Keeps(u, v, X) BY <1>3, <1>4, OnlyKeeps
<1>6. Keeps(w, v, X) BY <1>2, <1>5, KeepsTrans
<1> QED BY <1>1, <1>6, KeepsSame

LEMMA StopKeeps ==
  ASSUME NEW X, NEW w, NEW d \in Device, Shape(w)
  PROVE  Keeps(w, stop(w, d), X)
<1> DEFINE t == [i \in DOMAIN w.tls |-> IF d \in {w.tls[i].host, w.tls[i].client}
                                        THEN [w.tls[i] EXCEPT !.stage = "closed"] ELSE w.tls[i]]
           u == [w EXCEPT !.dev[d].session = Nothing]
           v == stop(w, d)
<1>1. Only(w, u, d, X) BY DEF Only, Shape, DeviceFields, Links
<1>2. Keeps(w, u, X) BY <1>1, OnlyKeeps
<1>3. u.tls = w.tls /\ DOMAIN u = {"dev", "net", "tls"} BY <1>1 DEF Only
<1>4. v = [u EXCEPT !.tls = t] BY DEF stop, Shape
<1>5. t = [i \in DOMAIN u.tls |-> t[i]] BY <1>3
<1> HIDE DEF t, u, v
<1>6. Shape(u) BY <1>2 DEF Keeps
<1>7. DOMAIN v = {"dev", "net", "tls"} /\ v.dev = u.dev /\ v.net = u.net /\ v.tls = t BY <1>3, <1>4
<1>8. Keeps(u, v, X) BY <1>5, <1>6, <1>7, LinkKeeps
<1> QED BY <1>2, <1>8, KeepsTrans DEF v

-----------------------------------------------------------------------------
(* The attempt. *)
LEMMA FinishKeeps ==
  ASSUME NEW X, NEW w, NEW d \in Device, NEW success, Shape(w)
  PROVE  Keeps(w, finish(w, d, success), X)
<1> DEFINE id == w.dev[d].current
           v == [w EXCEPT !.dev[d].current = Nothing]
           a == [v EXCEPT !.dev[d].retry = @ \ {id}]
           b == [v EXCEPT !.dev[d].retry = @ \union {id}]
<1>1. finish(w, d, success) \in {w, complete(a, d), cancelPairing(cancel(b, d), d)} BY DEF finish
<1>2. Only(w, a, d, X) /\ Only(w, b, d, X) BY DEF Only, Shape, DeviceFields, Links
<1> HIDE DEF a, b
<1>3. Keeps(w, a, X) /\ Keeps(w, b, X) BY <1>2, OnlyKeeps
<1>4. Shape(a) /\ Shape(b) BY <1>3 DEF Keeps
<1>5. Keeps(a, complete(a, d), X) /\ Keeps(b, cancel(b, d), X) BY <1>4, CompleteKeeps, CancelKeeps
<1>6. Shape(cancel(b, d)) BY <1>5 DEF Keeps
<1>7. Keeps(cancel(b, d), cancelPairing(cancel(b, d), d), X) BY <1>6, CancelPairingKeeps
<1>8. Keeps(w, complete(a, d), X) BY <1>3, <1>5, KeepsTrans
<1>9. Keeps(w, cancel(b, d), X) BY <1>3, <1>5, KeepsTrans
<1>10. Keeps(w, cancelPairing(cancel(b, d), d), X) BY <1>9, <1>7, KeepsTrans
<1> QED BY <1>1, <1>8, <1>10, KeepsSame

LEMMA ResetKeeps ==
  ASSUME NEW X, NEW w, NEW d \in Device, Shape(w)
  PROVE  Keeps(w, reset(w, d), X)
<1> DEFINE v == [w EXCEPT !.dev[d].owns = FALSE, !.dev[d].current = Nothing, !.dev[d].leader = Nothing,
                          !.dev[d].retry = {}]
<1>1. reset(w, d) \in {v, stop(cancel(v, d), d)} BY DEF reset
<1>2. Only(w, v, d, X) BY DEF Only, Shape, DeviceFields, Links
<1> HIDE DEF v
<1>3. Keeps(w, v, X) BY <1>2, OnlyKeeps
<1>4. Shape(v) BY <1>3 DEF Keeps
<1>5. Keeps(v, cancel(v, d), X) BY <1>4, CancelKeeps
<1>6. Shape(cancel(v, d)) BY <1>5 DEF Keeps
<1>7. Keeps(cancel(v, d), stop(cancel(v, d), d), X) BY <1>6, StopKeeps
<1>8. Keeps(w, cancel(v, d), X) BY <1>3, <1>5, KeepsTrans
<1>9. Keeps(w, stop(cancel(v, d), d), X) BY <1>7, <1>8, KeepsTrans
<1> QED BY <1>1, <1>3, <1>9

LEMMA FoundKeeps ==
  ASSUME NEW X, NEW w, NEW d \in Device, NEW e, NEW r, NEW fresh, Shape(w)
  PROVE  Keeps(w, found(w, d, e, r, fresh), X)
<1> DEFINE old == w.dev[d].ep[e]
           restarted == old # Nothing /\ w.dev[d].auth /\ r.proof /\ old.nonce # r.nonce
           retired == (IF fresh THEN w.dev[d].retired \ {<<e, r.nonce>>} ELSE w.dev[d].retired)
                      \union (IF fresh /\ restarted THEN {<<e, old.nonce>>} ELSE {})
           v == [w EXCEPT !.dev[d].ep[e] = r, !.dev[d].retired = retired]
<1>1. found(w, d, e, r, fresh) \in {w, v, finish(cancel(v, d), d, FALSE)} BY DEF found
<1> HIDE DEF retired
<1>2. Only(w, v, d, X) BY DEF Only, Shape, DeviceFields, Links
<1> HIDE DEF v
<1>3. Keeps(w, v, X) BY <1>2, OnlyKeeps
<1>4. Shape(v) BY <1>3 DEF Keeps
<1>5. Keeps(v, cancel(v, d), X) BY <1>4, CancelKeeps
<1>6. Shape(cancel(v, d)) BY <1>5 DEF Keeps
<1>7. Keeps(cancel(v, d), finish(cancel(v, d), d, FALSE), X) BY <1>6, FinishKeeps
<1>8. Keeps(w, cancel(v, d), X) BY <1>3, <1>5, KeepsTrans
<1>9. Keeps(w, finish(cancel(v, d), d, FALSE), X) BY <1>7, <1>8, KeepsTrans
<1> QED BY <1>1, <1>3, <1>9, KeepsSame

LEMMA AnsweredKeeps ==
  ASSUME NEW X, NEW w, NEW d \in Device, NEW m, Shape(w), m.op \in {"verify", "accept", "decline"}
  PROVE  Keeps(w, answered(w, d, m), X)
<1> DEFINE a == [w EXCEPT !.dev[d].code = m.code]
           b == [w EXCEPT !.dev[d].quiet = TRUE]
           v == [w EXCEPT !.dev[d].outgoing = Nothing]
<1>1. answered(w, d, m) \in {w, a, b, finish(v, d, FALSE)} BY DEF answered
<1>2. Only(w, a, d, X) /\ Only(w, b, d, X) /\ Only(w, v, d, X) BY DEF Only, Shape, DeviceFields, Links
<1> HIDE DEF a, b, v
<1>3. Keeps(w, a, X) /\ Keeps(w, b, X) /\ Keeps(w, v, X) BY <1>2, OnlyKeeps
<1>4. Keeps(v, finish(v, d, FALSE), X) BY <1>3, FinishKeeps DEF Keeps
<1>5. Keeps(w, finish(v, d, FALSE), X) BY <1>3, <1>4, KeepsTrans
<1> QED BY <1>1, <1>3, <1>5, KeepsSame

LEMMA ResumedKeeps ==
  ASSUME NEW X, NEW w, NEW d \in Device, NEW m, Shape(w), Posted(m)
  PROVE  Keeps(w, resumed(w, d, m), X)
<1> DEFINE ready == [op |-> "resume-ready", from |-> d, to |-> m.from, request |-> m.request,
                     record |-> record(w, d), proof |-> w.dev[d].auth]
           a == [w EXCEPT !.dev[d].seen = @ \union {m.request}]
           s == send(a, ready)
           b == [w EXCEPT !.dev[d].resume = Nothing]
<1>1. resumed(w, d, m) \in {w, found(s, d, m.from, m.record, TRUE), found(b, d, m.from, m.record, TRUE)}
  BY DEF resumed
<1>2. Only(w, a, d, X) /\ Only(w, b, d, X) BY DEF Only, Shape, DeviceFields, Links
<1>3. ready.op # "invite" /\ Posted(ready) BY DEF Posted, Ops
<1> HIDE DEF a, b, ready
<1>4. Keeps(w, a, X) /\ Keeps(w, b, X) BY <1>2, OnlyKeeps
<1>5. Keeps(a, s, X) BY <1>3, <1>4, SendKeeps DEF Keeps
<1>6. Keeps(w, s, X) BY <1>4, <1>5, KeepsTrans
<1> HIDE DEF s
<1> DEFINE e == m.from
           r == m.record
<1> HIDE DEF e, r
<1>7. Keeps(s, found(s, d, e, r, TRUE), X)
  <2>1. Shape(s) BY <1>6 DEF Keeps
  <2> QED BY <2>1, FoundKeeps
<1>8. Keeps(b, found(b, d, e, r, TRUE), X)
  <2>1. Shape(b) BY <1>4 DEF Keeps
  <2> QED BY <2>1, FoundKeeps
<1>9. Keeps(w, found(s, d, e, r, TRUE), X) BY <1>6, <1>7, KeepsTrans
<1>10. Keeps(w, found(b, d, e, r, TRUE), X) BY <1>4, <1>8, KeepsTrans
<1> QED BY <1>1, <1>9, <1>10, KeepsSame DEF e, r

LEMMA ReceivedKeeps ==
  ASSUME NEW X, NEW w, NEW m, Shape(w), m \in w.net
  PROVE  Keeps(w, received(w, m), X)
<1>1. Posted(m) BY DEF Shape
<1>2. m.to \in Device /\ m.op \in Ops BY <1>1 DEF Posted
<1> DEFINE d == m.to
<1>3. CASE m.op = "invite"
  <2> DEFINE v == [w EXCEPT !.dev[d].incoming = m, !.dev[d].seen = @ \union {m.request}]
  <2>1. received(w, m) \in {w, v} BY <1>3 DEF received
  <2>2. Only(w, v, d, X) BY <1>1, <1>2 DEF Only, Shape, DeviceFields, Links, Posted
  <2> HIDE DEF v, d
  <2>3. Keeps(w, v, X) BY <1>2, <2>2, OnlyKeeps DEF d
  <2> QED BY <2>1, <2>3, KeepsSame
<1>4. CASE m.op \in {"verify", "accept", "decline"}
  <2>1. received(w, m) = answered(w, d, m) BY <1>4 DEF received
  <2> QED BY <1>2, <1>4, <2>1, AnsweredKeeps
<1>5. CASE m.op = "cancel"
  <2> DEFINE v == [w EXCEPT !.dev[d].incoming = Nothing]
  <2>1. received(w, m) \in {w, v} BY <1>5 DEF received, cancelled
  <2>2. Only(w, v, d, X) BY <1>2 DEF Only, Shape, DeviceFields, Links
  <2> HIDE DEF v, d
  <2>3. Keeps(w, v, X) BY <1>2, <2>2, OnlyKeeps DEF d
  <2> QED BY <2>1, <2>3, KeepsSame
<1>6. CASE m.op \in {"resume", "resume-ready"}
  <2>1. received(w, m) = resumed(w, d, m) BY <1>6 DEF received
  <2> QED BY <1>1, <1>2, <2>1, ResumedKeeps
<1> QED BY <1>2, <1>3, <1>4, <1>5, <1>6 DEF Ops

-----------------------------------------------------------------------------
(* pump. *)
LEMMA LedKeeps ==
  ASSUME NEW X, NEW w, NEW d \in Device, Shape(w)
  PROVE  Keeps(w, led(w, d), X)
<1> DEFINE l == leader(w, d)
           v == finish(w, d, FALSE)
           u == IF v.dev[d].owns THEN stop(v, d) ELSE v
           x == [u EXCEPT !.dev[d].owns = FALSE, !.dev[d].leader = l]
<1>1. led(w, d) \in {w, x} BY DEF led
<1>2. Keeps(w, v, X) BY FinishKeeps
<1> HIDE DEF v, l
<1>3. Shape(v) BY <1>2 DEF Keeps
<1>4. Keeps(v, u, X) BY <1>3, StopKeeps, KeepsSame
<1> HIDE DEF u
<1>5. Shape(u) BY <1>4 DEF Keeps
<1>6. Only(u, x, d, X) BY <1>5 DEF Only, Shape, DeviceFields, Links
<1> HIDE DEF x
<1>7. Keeps(u, x, X) BY <1>5, <1>6, OnlyKeeps
<1>8. Keeps(w, u, X) BY <1>2, <1>4, KeepsTrans
<1>9. Keeps(w, x, X) BY <1>7, <1>8, KeepsTrans
<1> QED BY <1>1, <1>9, KeepsSame

LEMMA AttemptKeeps ==
  ASSUME NEW X, NEW w, NEW d \in Device, NEW late, Shape(w)
  PROVE  Keeps(w, attempt(w, d, late), X)
<1> DEFINE x == w.dev[d]
           m == [op |-> "verify", from |-> d, to |-> x.accepted.from, request |-> x.accepted.request,
                 nonce |-> x.accepted.senderNonce, senderNonce |-> x.nonce, proof |-> TRUE, code |-> x.session]
           p == [w EXCEPT !.tls[x.session].stage = "paired"]
<1>1. \/ attempt(w, d, late) \in {w, finish(w, d, FALSE), finish(p, d, TRUE)}
      \/ x.accepted # Nothing /\ attempt(w, d, late) = send(w, m)
  BY DEF attempt
<1>2. Keeps(w, p, X) BY ClosedKeeps
<1>3. x.accepted # Nothing => m.op # "invite" /\ Posted(m) BY DEF Shape, Links, Posted, Ops
<1> HIDE DEF p, m
<1>4. Keeps(p, finish(p, d, TRUE), X)
  <2>1. Shape(p) BY <1>2 DEF Keeps
  <2> QED BY <2>1, FinishKeeps
<1>5. Keeps(w, finish(p, d, TRUE), X) BY <1>2, <1>4, KeepsTrans
<1>6. x.accepted # Nothing => Keeps(w, send(w, m), X) BY <1>3, SendKeeps
<1> QED BY <1>1, <1>5, <1>6, FinishKeeps, KeepsSame

LEMMA AcceptKeeps ==
  ASSUME NEW X, NEW w, NEW d \in Device, NEW fails, Shape(w), w.dev[d].incoming # Nothing
  PROVE  Keeps(w, accept(w, d, fails), X)
<1> DEFINE i == w.dev[d].incoming
           v == [w EXCEPT !.dev[d].current = w.dev[d].leader, !.dev[d].owns = TRUE]
           m == reply(v, d, i, "accept")
           s == send(v, m)
           a == [s EXCEPT !.dev[d].accepted = i, !.dev[d].incoming = Nothing]
           x == [a EXCEPT !.dev[d].session = i.request]
<1>1. accept(w, d, fails) \in {finish(decline(v, d), d, FALSE), finish(a, d, FALSE), x} BY DEF accept
<1>2. Only(w, v, d, X) BY DEF Only, Shape, DeviceFields, Links
<1>3. m.op # "invite" /\ Posted(m) BY DEF reply, Posted, Ops, Shape, Links
<1>4. i.from \in Device BY DEF Shape, Links
<1> HIDE DEF i, v, m
<1>5. Keeps(w, v, X) BY <1>2, OnlyKeeps
<1>6. Shape(v) BY <1>5 DEF Keeps
<1>7. Keeps(v, s, X) BY <1>3, <1>6, SendKeeps
<1> HIDE DEF s
<1>8. Shape(s) BY <1>7 DEF Keeps
<1>9. Only(s, a, d, X) BY <1>4, <1>8 DEF Only, Shape, DeviceFields, Links
<1> HIDE DEF a
<1>10. Keeps(s, a, X) BY <1>8, <1>9, OnlyKeeps
<1>11. Keeps(w, a, X)
  <2>1. Keeps(w, s, X) BY <1>5, <1>7, KeepsTrans
  <2> QED BY <1>10, <2>1, KeepsTrans
<1>12. Keeps(w, x, X) /\ Keeps(w, finish(a, d, FALSE), X)
  <2>1. Shape(a) BY <1>10 DEF Keeps
  <2>2. Only(a, x, d, X) BY <2>1 DEF Only, Shape, DeviceFields, Links
  <2> HIDE DEF x
  <2>3. Keeps(a, x, X) BY <2>1, <2>2, OnlyKeeps
  <2>4. Keeps(a, finish(a, d, FALSE), X) BY <2>1, FinishKeeps
  <2> QED BY <1>11, <2>3, <2>4, KeepsTrans
<1>13. Keeps(v, decline(v, d), X) BY <1>6, DeclineKeeps
<1>14. Shape(decline(v, d)) BY <1>13 DEF Keeps
<1>15. Keeps(decline(v, d), finish(decline(v, d), d, FALSE), X) BY <1>14, FinishKeeps
<1>16. Keeps(w, decline(v, d), X) BY <1>5, <1>13, KeepsTrans
<1>17. Keeps(w, finish(decline(v, d), d, FALSE), X) BY <1>15, <1>16, KeepsTrans
<1> QED BY <1>1, <1>12, <1>17

(* A step that makes one offer, with a new number. *)
Invited(w, v, X) ==
  /\ Shape(v) /\ Remembers(w, v, X) /\ Len(v.tls) = Len(w.tls) + 1
  /\ \E o : Invites(v) \subseteq Invites(w) \union {o} /\ o.request = Len(w.tls) + 1

LEMMA InviteOffers ==
  ASSUME NEW X, NEW w, NEW d \in Device, NEW e \in Device, Shape(w)
  PROVE  Invited(w, invite(w, d, e, FALSE), X)
<1> DEFINE r == Len(w.tls) + 1
           o == [op |-> "invite", from |-> d, to |-> e, request |-> r, nonce |-> w.dev[d].ep[e].nonce,
                 senderNonce |-> w.dev[d].nonce, proof |-> TRUE]
           u == cancel(w, d)
           k == [host |-> d, client |-> e, stage |-> "offered"]
           t == Append(u.tls, k)
           x == [u EXCEPT !.tls = Append(@, [host |-> d, client |-> e, stage |-> "offered"]),
                    !.dev[d].current = e, !.dev[d].owns = TRUE, !.dev[d].session = r,
                    !.dev[d].outgoing = o, !.dev[d].quiet = FALSE]
           v == send(x, o)
<1>1. invite(w, d, e, FALSE) = v BY DEF invite
<1>2. Keeps(w, u, X) BY CancelKeeps
<1>3. o.op = "invite" /\ o.from = d /\ o.to = e /\ o.request = r /\ DOMAIN o = InviteFields BY DEF InviteFields
<1> HIDE DEF u, o, k
<1>4. Shape(u) /\ Len(u.tls) = Len(w.tls) BY <1>2 DEF Keeps
<1>5. Listed(t) /\ Len(t) = Len(u.tls) + 1
  <2>1. PICK S : u.tls \in Seq(S) BY <1>4 DEF Shape, Listed
  <2> DEFINE T == S \union {k}
  <2>2. u.tls \in Seq(T) /\ k \in T
    <3>1. Len(u.tls) \in Nat /\ DOMAIN u.tls = 1..Len(u.tls) BY <2>1, LenProperties
    <3>2. \A i \in 1..Len(u.tls) : u.tls[i] \in T BY <2>1, ElementOfSeq
    <3> QED BY <2>1, <3>1, <3>2, SeqDef
  <2> HIDE DEF T
  <2>3. t \in Seq(T) /\ Len(t) = Len(u.tls) + 1 BY <2>2, AppendProperties
  <2> QED BY <2>3 DEF Listed
<1>6. /\ DOMAIN x = {"dev", "net", "tls"} /\ x.tls = t /\ x.net = u.net
      /\ DOMAIN x.dev = Device /\ \A b \in Device : b # d => x.dev[b] = u.dev[b]
      /\ DOMAIN x.dev[d] = DeviceFields /\ x.dev[d].nonce = u.dev[d].nonce /\ x.dev[d].seen = u.dev[d].seen
      /\ x.dev[d].outgoing = o /\ x.dev[d].incoming = u.dev[d].incoming
      /\ x.dev[d].accepted = u.dev[d].accepted /\ x.dev[d].primary = u.dev[d].primary
  <2>1. DOMAIN u = {"dev", "net", "tls"} /\ DOMAIN u.dev = Device /\ DOMAIN u.dev[d] = DeviceFields
    BY <1>4 DEF Shape
  <2>2. DOMAIN x = {"dev", "net", "tls"} /\ x.net = u.net /\ DOMAIN x.dev = Device BY <2>1
  <2>3. x.tls = t BY <2>1 DEF k
  <2>4. \A b \in Device : b # d => x.dev[b] = u.dev[b] BY <2>1
  <2>5. DOMAIN x.dev[d] = DeviceFields BY <2>1
  <2>6. x.dev[d].nonce = u.dev[d].nonce /\ x.dev[d].seen = u.dev[d].seen BY <2>1 DEF DeviceFields
  <2>7. x.dev[d].outgoing = o BY <2>1 DEF DeviceFields
  <2>8. x.dev[d].incoming = u.dev[d].incoming BY <2>1 DEF DeviceFields
  <2>9. x.dev[d].accepted = u.dev[d].accepted /\ x.dev[d].primary = u.dev[d].primary BY <2>1 DEF DeviceFields
  <2> HIDE DEF x, t
  <2> QED BY <2>2, <2>3, <2>4, <2>5, <2>6, <2>7, <2>8, <2>9
<1> HIDE DEF x, t
<1>7. DOMAIN v = {"dev", "net", "tls"} /\ v.tls = t /\ v.net = u.net \union {o} /\ v.dev = x.dev
  BY <1>6 DEF send
<1> HIDE DEF v
<1>8. Posted(o) BY <1>3 DEF Posted, Ops
<1>9. Links(x.dev[d]) BY <1>3, <1>4, <1>6 DEF Links, Shape
<1>10. Shape(v) BY <1>4, <1>5, <1>6, <1>7, <1>8, <1>9 DEF Shape
<1>11. Remembers(u, v, X) BY <1>6, <1>7 DEF Remembers
<1>12. Remembers(w, v, X)
  <2>1. \A b \in Device : v.dev[b].nonce = u.dev[b].nonce /\ v.dev[b].seen = u.dev[b].seen BY <1>6, <1>7
  <2>2. Remembers(w, u, X) BY <1>2 DEF Keeps
  <2> QED BY <2>1, <2>2 DEF Remembers
<1>13. Invites(v) \subseteq Invites(u) \union {o} BY <1>6, <1>7 DEF Invites
<1>14. Invites(u) \subseteq Invites(w) BY <1>2 DEF Keeps
<1>15. Invites(v) \subseteq Invites(w) \union {o} BY <1>13, <1>14
<1> QED BY <1>1, <1>3, <1>4, <1>5, <1>7, <1>10, <1>12, <1>15 DEF Invited

LEMMA InviteFails ==
  ASSUME NEW X, NEW w, NEW d \in Device, NEW e, Shape(w)
  PROVE  Keeps(w, invite(w, d, e, TRUE), X)
<1> DEFINE v == [w EXCEPT !.dev[d].current = e, !.dev[d].owns = TRUE]
<1>1. invite(w, d, e, TRUE) = finish(v, d, FALSE) BY DEF invite
<1>2. Only(w, v, d, X) BY DEF Only, Shape, DeviceFields, Links
<1> HIDE DEF v
<1>3. Keeps(w, v, X) BY <1>2, OnlyKeeps
<1>4. Keeps(v, finish(v, d, FALSE), X) BY <1>3, FinishKeeps DEF Keeps
<1> QED BY <1>1, <1>3, <1>4, KeepsTrans

LEMMA KeepsOffers ==
  ASSUME NEW X, NEW u, NEW w, NEW v, Shape(u), Keeps(u, w, X), Invited(w, v, X)
  PROVE  Invited(u, v, X)
<1>1. ASSUME NEW d \in Device
      PROVE  \/ u.dev[d].nonce < v.dev[d].nonce
             \/ u.dev[d].nonce = v.dev[d].nonce /\ u.dev[d].seen \ X \subseteq v.dev[d].seen
  <2>1. u.dev[d].nonce \in Nat /\ w.dev[d].nonce \in Nat /\ v.dev[d].nonce \in Nat BY DEF Shape, Keeps, Invited
  <2>2. \/ u.dev[d].nonce < w.dev[d].nonce
        \/ u.dev[d].nonce = w.dev[d].nonce /\ u.dev[d].seen \ X \subseteq w.dev[d].seen
    BY DEF Keeps, Remembers
  <2>3. \/ w.dev[d].nonce < v.dev[d].nonce
        \/ w.dev[d].nonce = v.dev[d].nonce /\ w.dev[d].seen \ X \subseteq v.dev[d].seen
    BY DEF Invited, Remembers
  <2> QED BY <2>1, <2>2, <2>3
<1>2. Remembers(u, v, X) BY <1>1 DEF Remembers
<1>3. PICK o : Invites(v) \subseteq Invites(w) \union {o} /\ o.request = Len(w.tls) + 1 BY DEF Invited
<1>4. Invites(v) \subseteq Invites(u) \union {o} /\ o.request = Len(u.tls) + 1 BY <1>3 DEF Keeps
<1> QED BY <1>2, <1>4 DEF Keeps, Invited

LEMMA FirstIn ==
  ASSUME NEW S, S \subseteq Device, S # {}
  PROVE  First(S) \in S
<1> DEFINE R == OpToRel(<, Nat)
<1>1. S \subseteq Nat BY DeviceAssumption
<1>2. \A x, y \in Nat : x < y => <<x, y>> \in R BY DEF OpToRel
<1>3. IsWellFoundedOn(R, Nat) BY NatLessThanWellFounded
<1> HIDE DEF R
<1>4. PICK m \in S : \A n \in S : ~(<<n, m>> \in R) BY <1>1, <1>3, WFMin
<1>5. \A n \in S : m <= n
  <2> TAKE n \in S
  <2>1. m \in Nat /\ n \in Nat /\ ~(<<n, m>> \in R) BY <1>1, <1>4
  <2>2. ~(n < m) BY <1>2, <2>1
  <2> QED BY <2>1, <2>2
<1>6. Min(S) \in S BY <1>5 DEF Min
<1> QED BY <1>6 DEF First

LEMMA PumpedMoves ==
  ASSUME NEW X, NEW w, NEW d \in Device, NEW late \in BOOLEAN, Shape(w)
  PROVE  Keeps(w, pumped(w, d, late), X) \/ Invited(w, pumped(w, d, late), X)
<1> DEFINE free == {e \in queue(w, d) : e \notin w.dev[d].retry}
<1>1. \/ pumped(w, d, late) \in {w, attempt(w, d, late), decline(w, d)}
      \/ w.dev[d].incoming # Nothing /\ pumped(w, d, late) = accept(w, d, late)
      \/ free # {} /\ pumped(w, d, late) = invite(w, d, First(free), late)
  BY DEF pumped
<1>2. free \subseteq Device BY DEF queue, devices
<1> HIDE DEF free
<1>3. CASE pumped(w, d, late) \in {w, attempt(w, d, late), decline(w, d)}
  BY <1>3, KeepsSame, AttemptKeeps, DeclineKeeps
<1>4. CASE w.dev[d].incoming # Nothing /\ pumped(w, d, late) = accept(w, d, late) BY <1>4, AcceptKeeps
<1>5. CASE free # {} /\ pumped(w, d, late) = invite(w, d, First(free), late)
  <2>1. First(free) \in Device BY <1>2, <1>5, FirstIn
  <2>2. CASE late = TRUE BY <1>5, <2>1, <2>2, InviteFails
  <2>3. CASE late = FALSE BY <1>5, <2>1, <2>3, InviteOffers
  <2> QED BY <2>2, <2>3
<1> QED BY <1>1, <1>3, <1>4, <1>5

-----------------------------------------------------------------------------
(***************************************************************************)
(* The inductive invariant.  One number, one invitation: whoever repeats   *)
(* it, it is for the same device and process.  An invitation that was put  *)
(* before its device since the device's memory was last cleared is too     *)
(* old, or for an earlier process, or remembered.                          *)
(***************************************************************************)
OneEach(w) ==
  \A m, n \in Invites(w) :
    /\ m.request \in Nat \ {0} /\ m.request <= Len(w.tls)
    /\ m.request = n.request => m.to = n.to /\ m.nonce = n.nonce

Over(w, m, X) ==
  \/ m.request \in X
  \/ /\ m.nonce \in Nat
     /\ \/ m.nonce < w.dev[m.to].nonce
        \/ m.nonce = w.dev[m.to].nonce /\ m.request \in w.dev[m.to].seen

Spent(w, k, X) ==
  /\ DOMAIN k = Device
  /\ \A d \in Device :
       /\ DOMAIN k[d] = 1..MaxOffers
       /\ \A r \in 1..MaxOffers :
            /\ k[d][r] \in {0, 1} /\ (r > Len(w.tls) => k[d][r] = 0)
            /\ k[d][r] = 1 => \A m \in Invites(w) : m.request = r /\ m.to = d => Over(w, m, X)

Inv(w, k, X) == Shape(w) /\ OneEach(w) /\ Spent(w, k, X)

PairInv == Inv(World, taken, expired)

LEMMA InviteTo == ASSUME NEW w, Shape(w), NEW m \in Invites(w) PROVE m.to \in Device
BY DEF Invites, Shape, Links, Posted

LEMMA TlsLength == ASSUME NEW w, Shape(w) PROVE Len(w.tls) \in Nat
BY LenProperties DEF Shape, Listed

LEMMA OverKeeps ==
  ASSUME NEW X, NEW w, NEW v, Shape(w), Shape(v), Remembers(w, v, X), NEW m, m.to \in Device, Over(w, m, X)
  PROVE  Over(v, m, X)
<1> DEFINE d == m.to
<1>1. w.dev[d].nonce \in Nat /\ v.dev[d].nonce \in Nat BY DEF Shape
<1>2. \/ w.dev[d].nonce < v.dev[d].nonce
      \/ w.dev[d].nonce = v.dev[d].nonce /\ w.dev[d].seen \ X \subseteq v.dev[d].seen
  BY DEF Remembers
<1> QED BY <1>1, <1>2 DEF Over

LEMMA KeepsInv ==
  ASSUME NEW X, NEW k, NEW w, NEW v, Inv(w, k, X), Keeps(w, v, X)
  PROVE  Inv(v, k, X)
<1>1. Shape(w) /\ Shape(v) /\ Remembers(w, v, X) /\ Invites(v) \subseteq Invites(w) /\ Len(v.tls) = Len(w.tls)
  BY DEF Inv, Keeps
<1>2. OneEach(v) BY <1>1 DEF Inv, OneEach
<1>3. \A m \in Invites(v) : Over(w, m, X) => Over(v, m, X) BY <1>1, InviteTo, OverKeeps
<1>4. Spent(v, k, X) BY <1>1, <1>3 DEF Inv, Spent
<1> QED BY <1>1, <1>2, <1>4 DEF Inv

LEMMA OffersInv ==
  ASSUME NEW X, NEW k, NEW w, NEW v, Inv(w, k, X), Invited(w, v, X)
  PROVE  Inv(v, k, X)
<1>1. Shape(w) /\ Shape(v) /\ Remembers(w, v, X) /\ Len(v.tls) = Len(w.tls) + 1 BY DEF Inv, Invited
<1>2. PICK o : Invites(v) \subseteq Invites(w) \union {o} /\ o.request = Len(w.tls) + 1 BY DEF Invited
<1>3. Len(w.tls) \in Nat BY <1>1, TlsLength
<1>4. ASSUME NEW m \in Invites(w)
      PROVE  m.request \in Nat \ {0} /\ m.request <= Len(w.tls) /\ m.request # o.request
  <2>1. m.request \in Nat \ {0} /\ m.request <= Len(w.tls) BY DEF Inv, OneEach
  <2> QED BY <1>2, <1>3, <2>1
<1>5. OneEach(v)
  <2> SUFFICES ASSUME NEW m \in Invites(v), NEW n \in Invites(v)
               PROVE  /\ m.request \in Nat \ {0} /\ m.request <= Len(v.tls)
                      /\ m.request = n.request => m.to = n.to /\ m.nonce = n.nonce
    BY DEF OneEach
  <2>1. m.request \in Nat \ {0} /\ m.request <= Len(v.tls)
    <3>1. CASE m = o BY <1>1, <1>2, <1>3, <3>1
    <3>2. CASE m \in Invites(w) BY <1>1, <1>3, <1>4, <3>2
    <3> QED BY <1>2, <3>1, <3>2
  <2>2. m.request = n.request => m.to = n.to /\ m.nonce = n.nonce
    <3>1. CASE m \in Invites(w) /\ n \in Invites(w) BY <3>1 DEF Inv, OneEach
    <3>2. CASE m = o /\ n = o BY <3>2
    <3>3. CASE m # n /\ (m = o \/ n = o) BY <1>2, <1>4, <3>3
    <3> QED BY <1>2, <3>1, <3>2, <3>3
  <2> QED BY <2>1, <2>2
<1>6. Spent(v, k, X)
  <2>1. DOMAIN k = Device /\ \A d \in Device : DOMAIN k[d] = 1..MaxOffers BY DEF Inv, Spent
  <2>2. ASSUME NEW d \in Device, NEW r \in 1..MaxOffers
        PROVE  /\ k[d][r] \in {0, 1} /\ (r > Len(v.tls) => k[d][r] = 0)
               /\ k[d][r] = 1 => \A m \in Invites(v) : m.request = r /\ m.to = d => Over(v, m, X)
    <3>1. /\ k[d][r] \in {0, 1} /\ (r > Len(w.tls) => k[d][r] = 0)
          /\ k[d][r] = 1 => \A m \in Invites(w) : m.request = r /\ m.to = d => Over(w, m, X)
      BY DEF Inv, Spent
    <3>2. r > Len(v.tls) => r > Len(w.tls) BY <1>1, <1>3
    <3>3. ASSUME k[d][r] = 1, NEW m \in Invites(v), m.request = r, m.to = d PROVE Over(v, m, X)
      <4>1. r # Len(w.tls) + 1 BY <1>3, <3>1, <3>3
      <4>2. m \in Invites(w) BY <1>2, <3>3, <4>1
      <4>3. m.to \in Device BY <1>1, <4>2, InviteTo
      <4> QED BY <1>1, <3>1, <3>3, <4>2, <4>3, OverKeeps
    <3> QED BY <3>1, <3>2, <3>3
  <2> QED BY <2>1, <2>2 DEF Spent
<1> QED BY <1>1, <1>5, <1>6 DEF Inv

-----------------------------------------------------------------------------
(* The steps. *)
LEMMA Reached ==
  ASSUME NEW v, Become(v), Inv(v, taken', expired')
  PROVE  PairInv'
<1> DEFINE n == [dev |-> dev', net |-> net', tls |-> tls']
<1>1. DOMAIN n = {"dev", "net", "tls"} /\ n.dev = v.dev /\ n.net = v.net /\ n.tls = v.tls BY DEF Become
<1>2. World' = n BY DEF World
<1> HIDE DEF n
<1>3. Shape(v) BY DEF Inv
<1>4. v.tls = [i \in DOMAIN v.tls |-> v.tls[i]]
  <2>1. PICK S : v.tls \in Seq(S) BY <1>3 DEF Shape, Listed
  <2> QED BY <2>1, LenProperties, SeqDef
<1>5. Keeps(v, n, expired') BY <1>1, <1>3, <1>4, LinkKeeps
<1>6. Inv(n, taken', expired') BY <1>5, KeepsInv
<1> QED BY <1>2, <1>6 DEF PairInv

LEMMA Kept ==
  ASSUME NEW v, PairInv, Keeps(World, v, expired) \/ Invited(World, v, expired), Become(v), UNCHANGED rest
  PROVE  PairInv'
<1>1. Inv(World, taken, expired) BY DEF PairInv
<1>2. Inv(v, taken, expired) BY <1>1, KeepsInv, OffersInv
<1> QED BY <1>2, Reached DEF rest

LEMMA PairInitially ==
  ASSUME PairingInit
  PROVE  PairInv
<1>1. PICK p \in Desktop : dev = [d \in Device |-> [Fresh(1) EXCEPT !.host = d \in Desktop, !.primary = p]] BY DEF PairingInit
<1>2. net = {} /\ tls = <<>> /\ expired = {} /\ taken = [d \in Device |-> [r \in 1..MaxOffers |-> 0]]
  BY DEF PairingInit
<1>3. DOMAIN World = {"dev", "net", "tls"} /\ World.dev = dev /\ World.net = {} /\ World.tls = <<>> BY <1>2 DEF World
<1>4. \A d \in Device : /\ DOMAIN dev[d] = DeviceFields /\ dev[d].nonce = 1 /\ dev[d].outgoing = Nothing
                        /\ dev[d].incoming = Nothing /\ dev[d].accepted = Nothing /\ dev[d].primary = p
  BY <1>1 DEF Fresh, DeviceFields
<1>5. DOMAIN dev = Device BY <1>1
<1>6. Listed(<<>>)
  <2>1. <<>> \in Seq({}) OBVIOUS
  <2> QED BY <2>1 DEF Listed
<1>7. Shape(World) BY <1>3, <1>4, <1>5, <1>6, DeviceAssumption DEF Shape, Links
<1>8. Invites(World) = {} BY <1>3, <1>4 DEF Invites
<1>9. OneEach(World) BY <1>8 DEF OneEach
<1>10. Spent(World, taken, expired) BY <1>2, <1>8 DEF Spent
<1> QED BY <1>7, <1>9, <1>10 DEF PairInv, Inv

LEMMA WorldShape ==
  ASSUME PairInv
  PROVE  Shape(World) /\ World.dev = dev /\ World.net = net /\ World.tls = tls
BY DEF PairInv, Inv, World

LEMMA WorldMoves == Become([dev |-> dev', net |-> net', tls |-> tls'])
BY DEF Become

(* An invitation is put before its device only when nothing of it was there before. *)
LEMMA ReceiveStep ==
  ASSUME PairInv, NEW m \in net, receive(m)
  PROVE  PairInv'
<1> DEFINE v == received(World, m)
           d == m.to
<1>1. Shape(World) /\ World.dev = dev /\ World.net = net BY WorldShape
<1>2. Become(v) /\ expired' = expired BY DEF receive
<1>3. Keeps(World, v, expired) BY <1>1, ReceivedKeeps
<1>4. Inv(v, taken, expired) BY <1>3, KeepsInv DEF PairInv
<1>5. CASE ~(m.op = "invite" /\ invitable(World, m.to, m))
  <2>1. taken' = taken BY <1>5 DEF receive
  <2> HIDE DEF v
  <2> QED BY <1>2, <1>4, <2>1, Reached
<1>6. CASE m.op = "invite" /\ invitable(World, m.to, m)
  <2> DEFINE r == m.request
  <2>1. taken' = [taken EXCEPT ![d][r] = @ + 1] BY <1>6 DEF receive
  <2>2. Posted(m) BY <1>1 DEF Shape
  <2>3. d \in Device BY <2>2 DEF Posted
  <2>4. r \notin dev[d].seen /\ r \notin expired /\ m.nonce = dev[d].nonce
    BY <1>1, <1>6 DEF invitable, addressed
  <2>5. dev[d].nonce \in Nat BY <1>1, <2>3 DEF Shape
  <2>6. m \in Invites(World) BY <1>1, <1>6 DEF Invites
  <2>7. ~Over(World, m, expired) BY <1>1, <2>4, <2>5 DEF Over
  <2>8. /\ DOMAIN v = {"dev", "net", "tls"} /\ v.net = net /\ v.tls = World.tls
        /\ v.dev[d].nonce = dev[d].nonce /\ v.dev[d].seen = dev[d].seen \union {r}
    <3>1. v = [World EXCEPT !.dev[d].incoming = m, !.dev[d].seen = @ \union {r}] BY <1>6 DEF received
    <3>2. DOMAIN World = {"dev", "net", "tls"} /\ DOMAIN dev = Device /\ DOMAIN dev[d] = DeviceFields
      BY <1>1, <2>3 DEF Shape
    <3> QED BY <1>1, <2>3, <3>1, <3>2 DEF DeviceFields
  <2> HIDE DEF v
  <2>9. OneEach(World) /\ Spent(World, taken, expired) BY DEF PairInv, Inv
  <2>10. r \in 1..MaxOffers => taken[d][r] = 0 BY <2>3, <2>6, <2>7, <2>9 DEF Spent
  <2>11. r \in Nat /\ r <= Len(v.tls) BY <2>6, <2>8, <2>9 DEF OneEach
  <2>12. ASSUME NEW n \in Invites(v), n.request = r PROVE Over(v, n, expired)
    <3>1. n \in Invites(World) BY <1>3 DEF Keeps
    <3>2. n.to = d /\ n.nonce = m.nonce BY <2>6, <2>9, <2>12, <3>1 DEF OneEach
    <3> QED BY <2>4, <2>5, <2>8, <2>12, <3>2 DEF Over
  <2>13. Spent(v, taken', expired)
    <3>1. /\ DOMAIN taken' = Device /\ \A c \in Device : c # d => taken'[c] = taken[c]
          /\ taken'[d] = [taken[d] EXCEPT ![r] = @ + 1]
      BY <2>1, <2>3, <2>9 DEF Spent
    <3>2. ASSUME NEW c \in Device, NEW s \in 1..MaxOffers
          PROVE  /\ taken'[c][s] \in {0, 1} /\ (s > Len(v.tls) => taken'[c][s] = 0)
                 /\ taken'[c][s] = 1 => \A n \in Invites(v) : n.request = s /\ n.to = c => Over(v, n, expired)
      <4>1. CASE c = d /\ s = r
        <5>1. taken'[c][s] = 1
          <6>1. DOMAIN taken[d] = 1..MaxOffers BY <2>3, <2>9 DEF Spent
          <6>2. taken[d][r] = 0 BY <2>10, <4>1
          <6> HIDE DEF r
          <6>3. taken'[d][r] = taken[d][r] + 1 BY <3>1, <4>1, <6>1
          <6> QED BY <4>1, <6>2, <6>3
        <5>2. Len(v.tls) \in Nat BY <1>4, TlsLength DEF Inv
        <5>3. ~(s > Len(v.tls)) BY <2>11, <4>1, <5>2
        <5> QED BY <2>12, <4>1, <5>1, <5>3
      <4>2. CASE c # d \/ s # r
        <5>1. taken'[c][s] = taken[c][s] BY <2>9, <3>1, <4>2 DEF Spent
        <5> QED BY <1>4, <5>1 DEF Inv, Spent
      <4> QED BY <4>1, <4>2
    <3>3. \A c \in Device : DOMAIN taken'[c] = 1..MaxOffers BY <2>3, <2>9, <3>1 DEF Spent
    <3> QED BY <3>1, <3>2, <3>3 DEF Spent
  <2>14. Inv(v, taken', expired') BY <1>2, <1>4, <2>13 DEF Inv
  <2> QED BY <1>2, <2>14, Reached
<1> QED BY <1>5, <1>6

LEMMA ExpireStep ==
  ASSUME PairInv, NEW r, Expire(r)
  PROVE  PairInv'
<1>1. expired' = expired \union {r} /\ dev' = dev /\ net' = net /\ tls' = tls /\ taken' = taken BY DEF Expire
<1>2. Become(World) BY <1>1 DEF Become, World
<1>3. \A m : Over(World, m, expired) => Over(World, m, expired') BY <1>1 DEF Over
<1> DEFINE w == World
<1>4. Shape(w) /\ OneEach(w) /\ Spent(w, taken, expired) BY DEF PairInv, Inv
<1>5. \A m : Over(w, m, expired) => Over(w, m, expired') BY <1>3
<1> HIDE DEF w
<1>6. Spent(w, taken', expired') BY <1>1, <1>4, <1>5 DEF Spent
<1>7. Inv(w, taken', expired') BY <1>4, <1>6 DEF Inv
<1> QED BY <1>2, <1>7, Reached DEF w

LEMMA FoundStep ==
  ASSUME PairInv, NEW d \in Device, NEW e \in Device, Found(d, e)
  PROVE  PairInv'
<1>1. Shape(World) /\ World.dev = dev /\ World.net = net /\ World.tls = tls BY WorldShape
<1>2. UNCHANGED rest BY DEF Found
<1> DEFINE a == record(World, e)
           b == [record(World, e) EXCEPT !.nonce = @ - 1]
           x == [World EXCEPT !.dev[d].ep[e] = Nothing]
<1>3. \/ Become(found(World, d, e, a, FALSE)) \/ Become(found(World, d, e, b, FALSE))
      \/ dev' = [dev EXCEPT ![d].ep[e] = Nothing] /\ net' = net /\ tls' = tls
  BY DEF Found
<1> HIDE DEF a, b
<1>4. CASE Become(found(World, d, e, a, FALSE)) BY <1>1, <1>2, <1>4, FoundKeeps, Kept
<1>5. CASE Become(found(World, d, e, b, FALSE)) BY <1>1, <1>2, <1>5, FoundKeeps, Kept
<1>6. CASE dev' = [dev EXCEPT ![d].ep[e] = Nothing] /\ net' = net /\ tls' = tls
  <2>1. Become(x) BY <1>6 DEF Become, World
  <2>2. Only(World, x, d, expired) BY <1>1 DEF Only, Shape, DeviceFields, Links
  <2> HIDE DEF x
  <2>3. Keeps(World, x, expired) BY <1>1, <2>2, OnlyKeeps
  <2> QED BY <1>2, <2>1, <2>3, Kept
<1> QED BY <1>3, <1>4, <1>5, <1>6

LEMMA SendResumeStep ==
  ASSUME PairInv, NEW d \in Device, sendResume(d)
  PROVE  PairInv'
<1>1. Shape(World) /\ World.dev = dev /\ World.net = net /\ World.tls = tls BY WorldShape
<1> DEFINE y == -changes'
           u == [World EXCEPT !.dev[d].resume = y]
           m == [op |-> "resume", from |-> d, to |-> dev[d].primary, request |-> y,
                 record |-> record(World, d), proof |-> TRUE]
<1>2. Become(send(u, m)) /\ dev[d].primary # Nothing /\ UNCHANGED rest BY DEF sendResume
<1> HIDE DEF y
<1>3. Only(World, u, d, expired) BY <1>1 DEF Only, Shape, DeviceFields, Links
<1>4. m.op # "invite" /\ Posted(m) BY <1>1, <1>2 DEF Posted, Ops, Shape, Links
<1> HIDE DEF u, m
<1>5. Keeps(World, u, expired) BY <1>1, <1>3, OnlyKeeps
<1>6. Shape(u) BY <1>5 DEF Keeps
<1>7. Keeps(u, send(u, m), expired) BY <1>4, <1>6, SendKeeps
<1>8. Keeps(World, send(u, m), expired) BY <1>1, <1>5, <1>7, KeepsTrans
<1> QED BY <1>2, <1>8, Kept

(* A new process forgets everything, and is not the one an earlier invitation names. *)
LEMMA FreshKeeps ==
  ASSUME NEW X, NEW w, NEW u, NEW d \in Device, NEW p \in Device \union {Nothing}, NEW h, Shape(w), Keeps(w, u, X)
  PROVE  Keeps(w, [u EXCEPT !.dev[d] = [Fresh(w.dev[d].nonce + 1) EXCEPT !.host = h, !.primary = p]], X)
<1> DEFINE x == [Fresh(w.dev[d].nonce + 1) EXCEPT !.host = h, !.primary = p]
           v == [u EXCEPT !.dev[d] = x]
<1>1. w.dev[d].nonce \in Nat BY DEF Shape
<1>2. /\ DOMAIN x = DeviceFields /\ x.nonce = w.dev[d].nonce + 1 /\ x.outgoing = Nothing /\ x.incoming = Nothing
      /\ x.accepted = Nothing /\ x.primary = p
  BY DEF Fresh, DeviceFields
<1> HIDE DEF x
<1>3. Shape(u) /\ Remembers(w, u, X) /\ Invites(u) \subseteq Invites(w) /\ Len(u.tls) = Len(w.tls) BY DEF Keeps
<1>4. /\ DOMAIN v = {"dev", "net", "tls"} /\ v.net = u.net /\ v.tls = u.tls /\ DOMAIN v.dev = Device
      /\ v.dev[d] = x /\ \A e \in Device : e # d => v.dev[e] = u.dev[e]
  BY <1>3 DEF Shape
<1> HIDE DEF v
<1>5. Links(x) BY <1>2 DEF Links
<1>6. Shape(v) BY <1>1, <1>2, <1>3, <1>4, <1>5 DEF Shape
<1>7. Invites(v) \subseteq Invites(u) BY <1>2, <1>4 DEF Invites
<1>8. Remembers(w, v, X)
  <2> SUFFICES ASSUME NEW e \in Device
               PROVE  \/ w.dev[e].nonce < v.dev[e].nonce
                      \/ w.dev[e].nonce = v.dev[e].nonce /\ w.dev[e].seen \ X \subseteq v.dev[e].seen
    BY DEF Remembers
  <2>1. CASE e = d BY <1>1, <1>2, <1>4, <2>1
  <2>2. CASE e # d BY <1>3, <1>4, <2>2 DEF Remembers
  <2> QED BY <2>1, <2>2
<1>9. Keeps(w, v, X) BY <1>3, <1>4, <1>6, <1>7, <1>8 DEF Keeps
<1> QED BY <1>9 DEF v, x

LEMMA RestartStep ==
  ASSUME PairInv, NEW d \in Device, Restart(d)
  PROVE  PairInv'
<1>1. Shape(World) /\ World.dev = dev BY WorldShape
<1>2. PICK w \in {cancel(reset(World, d), d), World} :
        Become([stop(w, d) EXCEPT !.dev[d] = [Fresh(dev[d].nonce + 1) EXCEPT !.host = d \in Desktop,
                                                                            !.primary = dev[d].primary]])
  BY DEF Restart
<1>3. UNCHANGED rest BY DEF Restart
<1>4. Keeps(World, w, expired)
  <2> DEFINE u == reset(World, d)
  <2>1. Keeps(World, u, expired) BY <1>1, ResetKeeps
  <2> HIDE DEF u
  <2>2. Shape(u) BY <2>1 DEF Keeps
  <2>3. Keeps(u, cancel(u, d), expired) BY <2>2, CancelKeeps
  <2>4. Keeps(World, cancel(u, d), expired) BY <1>1, <2>1, <2>3, KeepsTrans
  <2> QED BY <1>1, <1>2, <2>4, KeepsSame DEF u
<1>5. Shape(w) BY <1>4 DEF Keeps
<1>6. Keeps(w, stop(w, d), expired) BY <1>5, StopKeeps
<1> DEFINE s == stop(w, d)
           h == d \in Desktop
           p == dev[d].primary
           z == World
           v == [s EXCEPT !.dev[d] = [Fresh(z.dev[d].nonce + 1) EXCEPT !.host = h, !.primary = p]]
<1>7. Keeps(World, s, expired) BY <1>1, <1>4, <1>6, KeepsTrans
<1>8. p \in Device \union {Nothing} BY <1>1 DEF Shape, Links
<1>9. Become(v) BY <1>1, <1>2
<1> HIDE DEF s, h, p, z
<1>10. Shape(z) /\ Keeps(z, s, expired) BY <1>1, <1>7 DEF z
<1>11. Keeps(z, v, expired) BY <1>8, <1>10, FreshKeeps
<1> HIDE DEF v
<1> QED BY <1>3, <1>9, <1>11, Kept DEF z

LEMMA SetCredentialsStep ==
  ASSUME PairInv, NEW d \in Device, setCredentials(d)
  PROVE  PairInv'
<1>1. Shape(World) /\ World.dev = dev BY WorldShape
<1>2. PICK auth \in BOOLEAN, host \in {FALSE, (d \in Desktop)}, chosen \in {Nothing} \union Desktop :
        /\ <<auth, host, chosen>> # <<dev[d].auth, dev[d].host, dev[d].primary>>
        /\ LET w == [World EXCEPT !.dev[d].auth = auth, !.dev[d].host = host, !.dev[d].primary = chosen]
           IN Become(IF dev[d].auth /\ ~auth THEN reset(w, d) ELSE w)
  BY DEF setCredentials
<1>3. UNCHANGED rest BY DEF setCredentials
<1> DEFINE w == [World EXCEPT !.dev[d].auth = auth, !.dev[d].host = host, !.dev[d].primary = chosen]
<1>4. chosen \in Device \union {Nothing} BY DeviceAssumption
<1>5. Only(World, w, d, expired) BY <1>1, <1>4 DEF Only, Shape, DeviceFields, Links
<1>6. Become(w) \/ Become(reset(w, d)) BY <1>2
<1> HIDE DEF w
<1>7. Keeps(World, w, expired) BY <1>1, <1>5, OnlyKeeps
<1>8. Shape(w) BY <1>7 DEF Keeps
<1>9. Keeps(w, reset(w, d), expired) BY <1>8, ResetKeeps
<1>10. Keeps(World, reset(w, d), expired) BY <1>1, <1>7, <1>9, KeepsTrans
<1> QED BY <1>3, <1>6, <1>7, <1>10, Kept

(* A device forgets all requests, and counting starts again for it. *)
LEMMA ForgetsInv ==
  ASSUME NEW X, NEW k, NEW w, NEW d \in Device, Inv(w, k, X)
  PROVE  Inv([w EXCEPT !.dev[d].seen = {}], [k EXCEPT ![d] = [r \in 1..MaxOffers |-> 0]], X)
<1> DEFINE z == [r \in 1..MaxOffers |-> 0]
           v == [w EXCEPT !.dev[d].seen = {}]
           j == [k EXCEPT ![d] = z]
<1>1. Shape(w) /\ OneEach(w) /\ Spent(w, k, X) BY DEF Inv
<1>2. /\ DOMAIN v = {"dev", "net", "tls"} /\ v.net = w.net /\ v.tls = w.tls /\ DOMAIN v.dev = Device
      /\ \A e \in Device : e # d => v.dev[e] = w.dev[e]
      /\ DOMAIN v.dev[d] = DeviceFields /\ v.dev[d].nonce = w.dev[d].nonce
      /\ v.dev[d].outgoing = w.dev[d].outgoing /\ v.dev[d].incoming = w.dev[d].incoming
      /\ v.dev[d].accepted = w.dev[d].accepted /\ v.dev[d].primary = w.dev[d].primary
  BY <1>1 DEF Shape, DeviceFields
<1> HIDE DEF v
<1>3. Links(v.dev[d]) BY <1>1, <1>2 DEF Shape, Links
<1>4. Shape(v) BY <1>1, <1>2, <1>3 DEF Shape
<1>5. Invites(v) = Invites(w) BY <1>2 DEF Invites
<1>6. OneEach(v) BY <1>1, <1>2, <1>5 DEF OneEach
<1>7. \A m : m.to \in Device /\ m.to # d /\ Over(w, m, X) => Over(v, m, X) BY <1>2 DEF Over
<1>8. DOMAIN j = Device /\ j[d] = z /\ \A e \in Device : e # d => j[e] = k[e] BY <1>1 DEF Spent
<1> HIDE DEF j
<1>9. Spent(v, j, X)
  <2>1. ASSUME NEW e \in Device
        PROVE  /\ DOMAIN j[e] = 1..MaxOffers
               /\ \A r \in 1..MaxOffers :
                    /\ j[e][r] \in {0, 1} /\ (r > Len(v.tls) => j[e][r] = 0)
                    /\ j[e][r] = 1 => \A m \in Invites(v) : m.request = r /\ m.to = e => Over(v, m, X)
    <3>1. CASE e = d BY <1>8, <3>1
    <3>2. CASE e # d BY <1>1, <1>2, <1>5, <1>7, <1>8, <3>2 DEF Spent
    <3> QED BY <3>1, <3>2
  <2> QED BY <1>8, <2>1 DEF Spent
<1>10. Inv(v, j, X) BY <1>4, <1>6, <1>9 DEF Inv
<1> QED BY <1>10 DEF v, j

(* A device with the requests that tick leaves it, before it says anything. *)
Ticked(d, seen, gone) ==
  LET x == dev[d]
      i == IF x.incoming # Nothing /\ x.incoming.request \in expired THEN Nothing ELSE x.incoming
  IN [World EXCEPT !.dev[d].seen = seen, !.dev[d].retired = @ \ gone, !.dev[d].incoming = i]

Spoken(d, y) ==
  LET o == dev[d].outgoing
  IN \/ Become(finish([y EXCEPT !.dev[d].outgoing = Nothing], d, FALSE))
     \/ o # Nothing /\ Become(send(y, o))
     \/ Become(y)

LEMMA TickSplit ==
  ASSUME Shape(World), NEW d \in Device, tick(d)
  PROVE  \E old \in SUBSET (dev[d].seen \intersect expired), gone \in SUBSET dev[d].retired :
           LET full == Cardinality(dev[d].seen \ old) > MaxSeen
           IN /\ Spoken(d, Ticked(d, IF full THEN {} ELSE dev[d].seen \ old, gone)) /\ expired' = expired
              /\ taken' = (IF full THEN [taken EXCEPT ![d] = [r \in 1..MaxOffers |-> 0]] ELSE taken)
<1> DEFINE x == dev[d]
           o == x.outgoing
           z == [r \in 1..MaxOffers |-> 0]
           full(old) == Cardinality(x.seen \ old) > MaxSeen
           w(old, gone) == Ticked(d, IF full(old) THEN {} ELSE x.seen \ old, gone)
           stays(old, gone) ==
             [World EXCEPT !.dev[d].seen = IF full(old) THEN {} ELSE @ \ old,
                           !.dev[d].retired = @ \ gone,
                           !.dev[d].incoming = IF @ # Nothing /\ x.incoming.request \in expired THEN Nothing ELSE @]
           ended == o # Nothing /\ o.request \in expired
<1>1. PICK old \in SUBSET (x.seen \intersect expired), gone \in SUBSET x.retired :
        /\ \/ ended /\ Become(finish([stays(old, gone) EXCEPT !.dev[d].outgoing = Nothing], d, FALSE))
           \/ /\ ~ended /\ o # Nothing /\ ~x.quiet /\ known(World, d, o.to)
              /\ Become(send(stays(old, gone), o))
           \/ ~ended /\ stays(old, gone) # World /\ Become(stays(old, gone))
        /\ taken' = (IF full(old) THEN [taken EXCEPT ![d] = z] ELSE taken)
        /\ UNCHANGED <<changes, expired>>
  BY ZenonT(60) DEF tick
<1>2. World.dev = dev BY DEF World
<1>3. stays(old, gone) = w(old, gone) BY <1>2 DEF Shape, DeviceFields, Ticked
<1> HIDE DEF stays, w, ended, z
<1>4. Spoken(d, w(old, gone)) BY <1>1, <1>3 DEF Spoken
<1> QED BY <1>1, <1>4 DEF w, z

(* What tick forgets is too old to be put before a device again, unless it forgets everything. *)
LEMMA TickStep ==
  ASSUME PairInv, NEW d \in Device, tick(d)
  PROVE  PairInv'
<1>1. Shape(World) /\ World.dev = dev BY WorldShape
<1> DEFINE x == dev[d]
           i == IF x.incoming # Nothing /\ x.incoming.request \in expired THEN Nothing ELSE x.incoming
           o == x.outgoing
           full(old) == Cardinality(x.seen \ old) > MaxSeen
           forgot(old) == IF full(old) THEN {} ELSE x.seen \ old
           w(old, gone) == Ticked(d, forgot(old), gone)
           z == [r \in 1..MaxOffers |-> 0]
<1>2. PICK old \in SUBSET (x.seen \intersect expired), gone \in SUBSET x.retired :
        /\ Spoken(d, w(old, gone)) /\ expired' = expired
        /\ taken' = (IF full(old) THEN [taken EXCEPT ![d] = z] ELSE taken)
  BY <1>1, TickSplit
<1> DEFINE f == IF full(old) THEN [World EXCEPT !.dev[d].seen = {}] ELSE World
           y == w(old, gone)
           u == [y EXCEPT !.dev[d].outgoing = Nothing]
<1>3. Inv(f, taken', expired) BY <1>2, ForgetsInv DEF PairInv
<1>4. i \in {Nothing, x.incoming} OBVIOUS
<1>5. y = [World EXCEPT !.dev[d].seen = forgot(old), !.dev[d].retired = @ \ gone, !.dev[d].incoming = i] BY DEF Ticked
<1> HIDE DEF i
<1>6. Only(f, y, d, expired) /\ y.dev[d].outgoing = o
  <2>1. y.dev[d].outgoing = o
    <3> HIDE DEF y, w, forgot
    <3> QED BY <1>1, <1>5 DEF Shape, DeviceFields
  <2> DEFINE g == [World EXCEPT !.dev[d].seen = {}]
  <2>2. CASE full(old)
    <3>1. y = [World EXCEPT !.dev[d].seen = {}, !.dev[d].retired = @ \ gone, !.dev[d].incoming = i] BY <1>5, <2>2
    <3>2. f = g BY <2>2
    <3> HIDE DEF y, f, full
    <3>3. Only(g, y, d, expired) BY <1>1, <1>4, <3>1 DEF Only, Shape, DeviceFields, Links
    <3> QED BY <2>1, <3>2, <3>3
  <2>3. CASE ~full(old)
    <3>1. y = [World EXCEPT !.dev[d].seen = x.seen \ old, !.dev[d].retired = @ \ gone, !.dev[d].incoming = i]
      BY <1>5, <2>3
    <3>2. f = World BY <2>3
    <3> HIDE DEF y, f, full
    <3>3. Only(World, y, d, expired) BY <1>1, <1>2, <1>4, <3>1 DEF Only, Shape, DeviceFields, Links
    <3> QED BY <2>1, <3>2, <3>3
  <2> QED BY <2>2, <2>3
<1>7. Become(finish(u, d, FALSE)) \/ (o # Nothing /\ Become(send(y, o))) \/ Become(y) BY <1>2 DEF Spoken
<1> HIDE DEF f, y, w
<1>8. Shape(f) BY <1>3 DEF Inv
<1>9. Keeps(f, y, expired) BY <1>6, <1>8, OnlyKeeps
<1>10. Shape(y) BY <1>9 DEF Keeps
<1>11. Only(y, u, d, expired) BY <1>10 DEF Only, Shape, DeviceFields, Links
<1> HIDE DEF u
<1>12. Keeps(y, u, expired) BY <1>10, <1>11, OnlyKeeps
<1>13. Shape(u) BY <1>12 DEF Keeps
<1>14. Keeps(u, finish(u, d, FALSE), expired) BY <1>13, FinishKeeps
<1>15. Keeps(f, finish(u, d, FALSE), expired)
  <2>1. Keeps(f, u, expired) BY <1>8, <1>9, <1>12, KeepsTrans
  <2> QED BY <1>8, <1>14, <2>1, KeepsTrans
<1>16. o # Nothing => Keeps(f, send(y, o), expired)
  <2>1. o # Nothing => Posted(o) /\ o \in Invites(y) BY <1>6, <1>10 DEF Shape, Links, Posted, Ops, Invites
  <2>2. o # Nothing => Keeps(y, send(y, o), expired) BY <1>10, <2>1, SendKeeps
  <2> QED BY <1>8, <1>9, <2>2, KeepsTrans
<1>17. PICK v : Become(v) /\ Keeps(f, v, expired) BY <1>7, <1>9, <1>15, <1>16
<1>18. Inv(v, taken', expired') BY <1>2, <1>3, <1>17, KeepsInv
<1> QED BY <1>17, <1>18, Reached

LEMMA PumpStep ==
  ASSUME PairInv, NEW d \in Device, NEW late \in BOOLEAN, pump(d, late)
  PROVE  PairInv'
<1>1. Shape(World) /\ World.dev = dev BY WorldShape
<1> DEFINE w == led(World, d)
           R == devices(w, d)
           v == [w EXCEPT !.dev[d].retry = @ \intersect R]
<1>2. (Become(decline(World, d)) \/ Become(pumped(v, d, late))) /\ UNCHANGED rest BY DEF pump
<1>3. Keeps(World, w, expired) BY <1>1, LedKeeps
<1> HIDE DEF R, w
<1>4. Shape(w) BY <1>3 DEF Keeps
<1>5. Only(w, v, d, expired) BY <1>4 DEF Only, Shape, DeviceFields, Links
<1> HIDE DEF v
<1>6. Keeps(w, v, expired) BY <1>4, <1>5, OnlyKeeps
<1>7. Keeps(World, v, expired) BY <1>1, <1>3, <1>6, KeepsTrans
<1>8. Shape(v) BY <1>6 DEF Keeps
<1> DEFINE y == pumped(v, d, late)
<1>9. Keeps(v, y, expired) \/ Invited(v, y, expired) BY <1>8, PumpedMoves
<1> HIDE DEF y
<1>10. Keeps(World, y, expired) \/ Invited(World, y, expired) BY <1>1, <1>7, <1>9, KeepsTrans, KeepsOffers
<1>11. Keeps(World, decline(World, d), expired) BY <1>1, DeclineKeeps
<1> QED BY <1>2, <1>10, <1>11, Kept DEF y

LEMMA BackoffStep ==
  ASSUME PairInv, NEW d \in Device, Backoff(d)
  PROVE  PairInv'
<1>1. Shape(World) /\ World.dev = dev BY WorldShape
<1> DEFINE x == [World EXCEPT !.dev[d].retry = {}]
<1>2. Become(x) /\ UNCHANGED rest BY DEF Become, World, Backoff
<1>3. Only(World, x, d, expired) BY <1>1 DEF Only, Shape, DeviceFields, Links
<1> HIDE DEF x
<1>4. Keeps(World, x, expired) BY <1>1, <1>3, OnlyKeeps
<1> QED BY <1>2, <1>4, Kept

LEMMA SetEnabledStep ==
  ASSUME PairInv, NEW d \in Device, setEnabled(d)
  PROVE  PairInv'
<1>1. Shape(World) /\ World.dev = dev BY WorldShape
<1> DEFINE c == cancel(World, d)
           w == IF dev[d].enabled /\ dev[d].current # Nothing THEN cancelPairing(c, d) ELSE World
           v == [w EXCEPT !.dev[d].enabled = ~@, !.dev[d].current = IF dev[d].enabled THEN Nothing ELSE @]
<1>2. Become(v) /\ UNCHANGED rest BY DEF setEnabled
<1>3. Keeps(World, c, expired) BY <1>1, CancelKeeps
<1> HIDE DEF c
<1>4. Shape(c) BY <1>3 DEF Keeps
<1>5. Keeps(c, cancelPairing(c, d), expired) BY <1>4, CancelPairingKeeps
<1>6. Keeps(World, cancelPairing(c, d), expired) BY <1>1, <1>3, <1>5, KeepsTrans
<1>7. Keeps(World, w, expired) BY <1>1, <1>6, KeepsSame
<1> HIDE DEF w
<1>8. Shape(w) BY <1>7 DEF Keeps
<1>9. Only(w, v, d, expired) BY <1>8 DEF Only, Shape, DeviceFields, Links
<1> HIDE DEF v
<1>10. Keeps(w, v, expired) BY <1>8, <1>9, OnlyKeeps
<1>11. Keeps(World, v, expired) BY <1>1, <1>7, <1>10, KeepsTrans
<1> QED BY <1>2, <1>11, Kept

LEMMA PairedStep ==
  ASSUME PairInv, NEW d \in Device, Paired(d)
  PROVE  PairInv'
<1>1. Shape(World) BY WorldShape
<1>2. Become(finish(World, d, TRUE)) /\ UNCHANGED rest BY DEF Paired
<1> QED BY <1>1, <1>2, FinishKeeps, Kept

LEMMA LinkStep ==
  ASSUME PairInv, NEW i, Connect(i) \/ Disconnect(i)
  PROVE  PairInv'
<1>1. Shape(World) BY WorldShape
<1> DEFINE a == [tls[i] EXCEPT !.stage = "confirming"]
           b == [tls[i] EXCEPT !.stage = "closed"]
<1>2. /\ tls' \in {[tls EXCEPT ![i] = a], [tls EXCEPT ![i] = b]}
      /\ dev' = dev /\ net' = net /\ UNCHANGED rest
  BY DEF Connect, Disconnect
<1> HIDE DEF a, b
<1> DEFINE x == [dev |-> dev', net |-> net', tls |-> tls']
<1>3. DOMAIN x = {"dev", "net", "tls"} /\ x.dev = World.dev /\ x.net = World.net /\ x.tls = tls' BY <1>2 DEF World
<1>4. tls' = [j \in DOMAIN tls |-> tls'[j]] BY <1>2
<1>5. World.tls = tls BY DEF World
<1>6. Become(x) BY DEF Become
<1> HIDE DEF x
<1>7. Keeps(World, x, expired) BY <1>1, <1>3, <1>4, <1>5, LinkKeeps
<1> QED BY <1>2, <1>6, <1>7, Kept

LEMMA PairInductive ==
  ASSUME PairInv, [PairingNext]_pairingVars
  PROVE  PairInv'
<1>1. CASE UNCHANGED pairingVars
  <2>1. dev' = dev /\ net' = net /\ tls' = tls /\ UNCHANGED rest BY <1>1 DEF pairingVars, rest
  <2>2. Become(World) BY <2>1 DEF Become, World
  <2>3. Keeps(World, World, expired) BY WorldShape, KeepsSame
  <2> QED BY <2>1, <2>2, <2>3, Kept
<1>2. CASE \E m \in net : receive(m) BY <1>2, ReceiveStep
<1>3. CASE \E d, e \in Device : Found(d, e) BY <1>3, FoundStep
<1>4. ASSUME NEW d \in Device, sendResume(d) \/ Restart(d) \/ setCredentials(d) PROVE PairInv'
  BY <1>4, SendResumeStep, RestartStep, SetCredentialsStep
<1>5. ASSUME NEW d \in Device, tick(d) \/ Pump(d) \/ Deadline(d) PROVE PairInv'
  BY <1>5, TickStep, PumpStep DEF Pump, Deadline
<1>6. ASSUME NEW d \in Device, Backoff(d) \/ setEnabled(d) \/ Paired(d) PROVE PairInv'
  BY <1>6, BackoffStep, SetEnabledStep, PairedStep
<1>7. ASSUME NEW i, Expire(i) \/ Connect(i) \/ Disconnect(i) PROVE PairInv' BY <1>7, ExpireStep, LinkStep
<1> QED BY <1>1, <1>2, <1>3, <1>4, <1>5, <1>6, <1>7 DEF PairingNext

(***************************************************************************)
(* One number is one invitation, to one process of one device.  An         *)
(* invitation that was put before its device since tick last cleared the   *)
(* device's memory is remembered, too old or for an earlier process,       *)
(* whatever AutomaticPairing and NearbyDevices do on any number of devices *)
(* with a memory of any size.                                              *)
(***************************************************************************)
THEOREM PairInvariance == PairingSpec => []PairInv
<1>1. PairingInit => PairInv BY PairInitially
<1>2. PairInv /\ [PairingNext]_pairingVars => PairInv' BY PairInductive
<1> QED BY <1>1, <1>2, PTL DEF PairingSpec

(***************************************************************************)
(* Between two overflows of a device's memory of requests, which make tick *)
(* clear it, NearbyDevices puts an invitation before the device at most    *)
(* once, however often the network repeats the datagram, late or out of    *)
(* order, and however often either process restarts.                       *)
(***************************************************************************)
THEOREM InvitationsOnce == PairingSpec => []InvitedOnce
<1>1. PairInv => InvitedOnce
  <2> SUFFICES ASSUME PairInv, NEW d \in Device, NEW r \in 1..MaxOffers PROVE taken[d][r] <= 1 BY DEF InvitedOnce
  <2>1. taken[d][r] \in {0, 1} BY DEF PairInv, Inv, Spent
  <2> QED BY <2>1
<1> QED BY <1>1, PairInvariance, PTL

-----------------------------------------------------------------------------
(***************************************************************************)
(* What belongs to the attempt under way.  An attempt owns the transport;  *)
(* links are numbered as they were made, and none is opened again.         *)
(***************************************************************************)
Making == {"offered", "confirming"}

Engaged(w, d) ==
  LET x == w.dev[d]
  IN /\ x.outgoing # Nothing => x.current = x.outgoing.to
     /\ x.accepted # Nothing => x.current = x.accepted.from
     /\ phase(w, d) \in Making => x.current # Nothing
     /\ x.current # Nothing => x.owns
     /\ x.session # Nothing => x.session \in 1..Len(w.tls)
     /\ x.incoming # Nothing => x.incoming.request \in 1..Len(w.tls)

Stages == {"offered", "confirming", "paired", "closed"}
Staged(w) == \A i \in 1..Len(w.tls) : DOMAIN w.tls[i] = {"host", "client", "stage"} /\ w.tls[i].stage \in Stages

Backed(w) == Shape(w) /\ Staged(w) /\ \A d \in Device : Engaged(w, d)

(* No attempt, and nothing that belongs to one. *)
AtRest(w, d) ==
  LET x == w.dev[d]
  IN /\ x.current = Nothing /\ x.outgoing = Nothing /\ x.accepted = Nothing /\ phase(w, d) \notin Making
     /\ x.session # Nothing => x.session \in 1..Len(w.tls)
     /\ x.incoming # Nothing => x.incoming.request \in 1..Len(w.tls)

(* A step of device d: the others have their links as before, or closed. *)
Tame(w, v) ==
  /\ Len(w.tls) <= Len(v.tls) /\ (Staged(w) => Staged(v))
  /\ \A i \in 1..Len(w.tls) : v.tls[i].stage \in Making => w.tls[i].stage \in Making

Moves(w, v, d) == Tame(w, v) /\ \A e \in Device : e # d => v.dev[e] = w.dev[e]

(* A step of device d that at most takes something back. *)
Alike(w, v, d) ==
  /\ Shape(v) /\ v.tls = w.tls /\ \A e \in Device : e # d => v.dev[e] = w.dev[e]
  /\ v.dev[d].current = w.dev[d].current /\ v.dev[d].session = w.dev[d].session
  /\ v.dev[d].owns = w.dev[d].owns
  /\ v.dev[d].outgoing \in {Nothing, w.dev[d].outgoing}
  /\ v.dev[d].accepted \in {Nothing, w.dev[d].accepted}
  /\ v.dev[d].incoming \in {Nothing, w.dev[d].incoming}

LEMMA MovesBacked ==
  ASSUME NEW w, NEW v, NEW d \in Device, Shape(w), Shape(v), Staged(w), Moves(w, v, d),
         \A e \in Device : e # d => Engaged(w, e), Engaged(v, d)
  PROVE  Backed(v)
<1>1. Len(w.tls) \in Nat /\ Len(v.tls) \in Nat /\ Len(w.tls) <= Len(v.tls) BY TlsLength DEF Moves, Tame
<1>2. ASSUME NEW e \in Device, e # d PROVE Engaged(v, e)
  <2>1. v.dev[e] = w.dev[e] /\ Engaged(w, e) BY <1>2 DEF Moves
  <2>2. phase(v, e) \in Making => phase(w, e) \in Making
    BY <2>1 DEF Engaged, phase, Moves, Tame, Making
  <2> QED BY <1>1, <2>1, <2>2 DEF Engaged
<1> QED BY <1>2 DEF Backed, Moves, Tame

LEMMA EndedOwn == ASSUME NEW w, NEW d, AtRest(w, d) PROVE Engaged(w, d)
BY DEF AtRest, Engaged

LEMMA AlikeBacked ==
  ASSUME NEW w, NEW v, NEW d \in Device, Backed(w), Alike(w, v, d)
  PROVE  Backed(v)
<1>1. Engaged(w, d) BY DEF Backed
<1>2. phase(v, d) = phase(w, d) BY DEF Alike, phase
<1>3. Engaged(v, d) BY <1>1, <1>2 DEF Engaged, Alike
<1>4. Len(w.tls) \in Nat BY TlsLength DEF Backed
<1>5. Moves(w, v, d) BY <1>4 DEF Moves, Tame, Alike, Staged
<1>6. Shape(w) /\ Shape(v) /\ Staged(w) /\ \A e \in Device : e # d => Engaged(w, e) BY DEF Backed, Alike
<1> QED BY <1>3, <1>5, <1>6, MovesBacked

LEMMA AlikeTrans ==
  ASSUME NEW u, NEW w, NEW v, NEW d, Alike(u, w, d), Alike(w, v, d)
  PROVE  Alike(u, v, d)
BY DEF Alike

LEMMA AlikeSame == ASSUME NEW w, NEW d, Shape(w) PROVE Alike(w, w, d)
BY DEF Alike

LEMMA SendAlike ==
  ASSUME NEW w, NEW m, NEW d, Shape(w), Shape(send(w, m))
  PROVE  Alike(w, send(w, m), d)
<1> DEFINE v == send(w, m)
<1>1. v.dev = w.dev /\ v.tls = w.tls BY DEF send, Shape
<1> HIDE DEF v
<1> QED BY <1>1 DEF Alike, v

LEMMA DeclineAlike ==
  ASSUME NEW w, NEW d \in Device, Shape(w)
  PROVE  Alike(w, decline(w, d), d) /\ decline(w, d).dev[d].incoming = Nothing
<1> DEFINE i == w.dev[d].incoming
           m == reply(w, d, i, "decline")
           u == IF i # Nothing /\ known(w, d, i.from) THEN send(w, m) ELSE w
           v == [u EXCEPT !.dev[d].incoming = Nothing]
<1>1. decline(w, d) = v BY DEF decline
<1>2. m.op = "decline" /\ m.from = d /\ m.to = i.from BY DEF reply
<1> HIDE DEF m
<1>3. Alike(w, u, d)
  <2>1. CASE i # Nothing
    <3>1. Posted(m) BY <1>2, <2>1 DEF Posted, Ops, Shape, Links
    <3>2. Shape(send(w, m)) BY <1>2, <3>1, SendKeeps DEF Keeps
    <3> QED BY <3>2, SendAlike, AlikeSame
  <2>2. CASE i = Nothing BY <2>2, AlikeSame
  <2> QED BY <2>1, <2>2
<1> HIDE DEF u
<1>4. Shape(u) BY <1>3 DEF Alike
<1>5. Shape(v) BY <1>1, DeclineKeeps DEF Keeps
<1>6. Alike(u, v, d) /\ v.dev[d].incoming = Nothing BY <1>4, <1>5 DEF Alike, Shape, DeviceFields
<1> QED BY <1>1, <1>3, <1>6, AlikeTrans

LEMMA CompleteAlike ==
  ASSUME NEW w, NEW d \in Device, Shape(w)
  PROVE  LET v == complete(w, d) IN
         Alike(w, v, d) /\ v.dev[d].outgoing = Nothing /\ v.dev[d].accepted = Nothing
<1> DEFINE v == complete(w, d)
<1>1. Shape(v) BY CompleteKeeps DEF Keeps
<1>2. v.tls = w.tls /\ \A e \in Device : e # d => v.dev[e] = w.dev[e] BY DEF complete, Shape
<1>3. /\ v.dev[d].current = w.dev[d].current /\ v.dev[d].session = w.dev[d].session
      /\ v.dev[d].owns = w.dev[d].owns /\ v.dev[d].incoming = w.dev[d].incoming
  BY DEF complete, Shape, DeviceFields
<1>4. v.dev[d].outgoing = Nothing /\ v.dev[d].accepted = Nothing BY DEF complete, Shape, DeviceFields
<1> HIDE DEF v
<1> QED BY <1>1, <1>2, <1>3, <1>4 DEF Alike, v

LEMMA CancelAlike ==
  ASSUME NEW w, NEW d \in Device, Shape(w)
  PROVE  LET v == cancel(w, d) IN
         /\ Alike(w, v, d)
         /\ v.dev[d].outgoing = Nothing /\ v.dev[d].accepted = Nothing /\ v.dev[d].incoming = Nothing
<1> DEFINE o == w.dev[d].outgoing
           a == decline(w, d)
           m == [o EXCEPT !.op = "cancel", !.proof = w.dev[d].auth]
           u == IF o # Nothing /\ known(w, d, o.to) THEN send(a, m) ELSE a
           v == complete(u, d)
<1>1. cancel(w, d) = v BY DEF cancel
<1>2. Alike(w, a, d) /\ a.dev[d].incoming = Nothing BY DeclineAlike
<1>3. o # Nothing => m.op = "cancel" /\ Posted(m) BY DEF Shape, Links, InviteFields, Posted, Ops
<1> HIDE DEF o, a, m
<1>4. Shape(a) BY <1>2 DEF Alike
<1>5. Alike(a, u, d) BY <1>3, <1>4, SendKeeps, SendAlike, AlikeSame DEF Keeps
<1> HIDE DEF u
<1>6. Alike(u, v, d) /\ v.dev[d].outgoing = Nothing /\ v.dev[d].accepted = Nothing
  BY <1>5, CompleteAlike DEF Alike
<1> HIDE DEF v
<1>7. Alike(w, v, d) BY <1>2, <1>5, <1>6, AlikeTrans
<1>8. v.dev[d].incoming = Nothing BY <1>2, <1>5, <1>6 DEF Alike
<1> QED BY <1>1, <1>6, <1>7, <1>8

(* The links. *)
LEMMA ListedDomain == ASSUME NEW w, Shape(w) PROVE DOMAIN w.tls = 1..Len(w.tls) /\ Len(w.tls) \in Nat
BY LenProperties DEF Shape, Listed

LEMMA Stage ==
  ASSUME NEW w, NEW v, NEW id, NEW y \in Stages, Shape(w), Shape(v), Staged(w), Len(v.tls) = Len(w.tls),
         y \notin Making \/ w.tls[id].stage \in Making,
         v.tls = [w.tls EXCEPT ![id] = [w.tls[id] EXCEPT !.stage = y]]
  PROVE  Tame(w, v) /\ (id \in 1..Len(w.tls) => v.tls[id].stage = y)
<1> DEFINE x == [w.tls[id] EXCEPT !.stage = y]
<1>1. DOMAIN w.tls = 1..Len(w.tls) /\ Len(w.tls) \in Nat BY ListedDomain
<1>2. id \in 1..Len(w.tls) => DOMAIN x = {"host", "client", "stage"} /\ x.stage = y BY DEF Staged
<1>3. v.tls = [w.tls EXCEPT ![id] = x] OBVIOUS
<1> HIDE DEF x
<1>4. \A i \in 1..Len(w.tls) : v.tls[i] = IF i = id THEN x ELSE w.tls[i] BY <1>1, <1>3
<1>5. Staged(v) BY <1>2, <1>4 DEF Staged
<1>6. \A i \in 1..Len(w.tls) : v.tls[i].stage \in Making => w.tls[i].stage \in Making BY <1>2, <1>4
<1>7. id \in 1..Len(w.tls) => v.tls[id].stage = y BY <1>2, <1>4
<1> QED BY <1>1, <1>5, <1>6, <1>7 DEF Tame

LEMMA MovesTrans ==
  ASSUME NEW u, NEW w, NEW v, NEW d, Shape(u), Shape(w), Shape(v), Moves(u, w, d), Moves(w, v, d)
  PROVE  Moves(u, v, d)
<1>1. Len(u.tls) \in Nat /\ Len(w.tls) \in Nat /\ Len(v.tls) \in Nat BY ListedDomain
<1> QED BY <1>1 DEF Moves, Tame

LEMMA AlikeMoves ==
  ASSUME NEW w, NEW v, NEW d, Shape(w), Alike(w, v, d)
  PROVE  Moves(w, v, d)
<1>1. Len(w.tls) \in Nat BY ListedDomain
<1> QED BY <1>1 DEF Moves, Tame, Alike, Staged

LEMMA ClosedMoves ==
  ASSUME NEW w, NEW id, NEW d, NEW y \in {"closed", "paired"}, Shape(w), Staged(w)
  PROVE  LET v == [w EXCEPT !.tls[id].stage = y] IN
         /\ Shape(v) /\ v.dev = w.dev /\ Len(v.tls) = Len(w.tls) /\ Moves(w, v, d)
         /\ id \in 1..Len(w.tls) => v.tls[id].stage = y
<1> DEFINE v == [w EXCEPT !.tls[id].stage = y]
<1>1. Shape(v) /\ Len(v.tls) = Len(w.tls) BY ClosedKeeps DEF Keeps
<1>2. v.dev = w.dev /\ v.tls = [w.tls EXCEPT ![id] = [w.tls[id] EXCEPT !.stage = y]] BY DEF Shape
<1>3. y \notin Making /\ y \in Stages BY DEF Making, Stages
<1> HIDE DEF v
<1>4. Tame(w, v) /\ (id \in 1..Len(w.tls) => v.tls[id].stage = y) BY <1>1, <1>2, <1>3, Stage
<1>5. Moves(w, v, d) BY <1>2, <1>4 DEF Moves
<1> QED BY <1>1, <1>2, <1>4, <1>5 DEF v

LEMMA CancelPairingEnds ==
  ASSUME NEW w, NEW d \in Device, Shape(w), Staged(w)
  PROVE  LET v == cancelPairing(w, d) IN
         /\ Shape(v) /\ Len(v.tls) = Len(w.tls) /\ Moves(w, v, d) /\ phase(v, d) \notin Making
         /\ v.dev[d].current = w.dev[d].current /\ v.dev[d].outgoing = w.dev[d].outgoing
         /\ v.dev[d].accepted = w.dev[d].accepted /\ v.dev[d].owns = w.dev[d].owns
         /\ v.dev[d].incoming = w.dev[d].incoming /\ v.dev[d].session \in {Nothing, w.dev[d].session}
<1> DEFINE id == w.dev[d].session
           u == [w EXCEPT !.tls[id].stage = "closed"]
           v == [u EXCEPT !.dev[d].session = Nothing]
           x == cancelPairing(w, d)
<1>1. Shape(x) /\ Len(x.tls) = Len(w.tls) BY CancelPairingKeeps DEF Keeps
<1>2. CASE phase(w, d) \in {"idle", "paired"}
  <2>1. x = w BY <1>2 DEF cancelPairing
  <2>2. phase(w, d) \notin Making BY <1>2 DEF Making
  <2> HIDE DEF x
  <2>3. Moves(w, x, d) BY <2>1, AlikeSame, AlikeMoves
  <2> QED BY <1>1, <2>1, <2>2, <2>3 DEF x
<1>3. CASE phase(w, d) \notin {"idle", "paired"}
  <2>1. x = v BY <1>3 DEF cancelPairing, Closed
  <2> HIDE DEF x
  <2>2. Shape(u) /\ u.dev = w.dev /\ Len(u.tls) = Len(w.tls) /\ Moves(w, u, d) BY ClosedMoves
  <2> HIDE DEF u
  <2>3. v.tls = u.tls /\ \A e \in Device : e # d => v.dev[e] = u.dev[e] BY <2>2 DEF Shape
  <2>4. /\ v.dev[d].current = u.dev[d].current /\ v.dev[d].outgoing = u.dev[d].outgoing
        /\ v.dev[d].accepted = u.dev[d].accepted /\ v.dev[d].owns = u.dev[d].owns
        /\ v.dev[d].incoming = u.dev[d].incoming /\ v.dev[d].session = Nothing
    BY <2>2 DEF Shape, DeviceFields
  <2> HIDE DEF v
  <2>5. phase(v, d) \notin Making BY <2>4 DEF phase, Making
  <2>6. Moves(w, v, d) BY <2>2, <2>3 DEF Moves, Tame, Staged
  <2> QED BY <1>1, <2>1, <2>2, <2>4, <2>5, <2>6 DEF x
<1> QED BY <1>2, <1>3

LEMMA StopMoves ==
  ASSUME NEW w, NEW d \in Device, Shape(w), Staged(w)
  PROVE  LET v == stop(w, d) IN
         /\ Shape(v) /\ Len(v.tls) = Len(w.tls) /\ Moves(w, v, d) /\ phase(v, d) \notin Making
         /\ v.dev[d].current = w.dev[d].current /\ v.dev[d].outgoing = w.dev[d].outgoing
         /\ v.dev[d].accepted = w.dev[d].accepted /\ v.dev[d].owns = w.dev[d].owns
         /\ v.dev[d].incoming = w.dev[d].incoming /\ v.dev[d].session = Nothing
<1> DEFINE v == stop(w, d)
<1>1. Shape(v) /\ Len(v.tls) = Len(w.tls) BY StopKeeps DEF Keeps
<1>2. /\ v.tls = [i \in DOMAIN w.tls |-> IF d \in {w.tls[i].host, w.tls[i].client}
                                        THEN [w.tls[i] EXCEPT !.stage = "closed"] ELSE w.tls[i]]
      /\ \A e \in Device : e # d => v.dev[e] = w.dev[e]
  BY DEF stop, Shape
<1>3. /\ v.dev[d].current = w.dev[d].current /\ v.dev[d].outgoing = w.dev[d].outgoing
      /\ v.dev[d].accepted = w.dev[d].accepted /\ v.dev[d].owns = w.dev[d].owns
      /\ v.dev[d].incoming = w.dev[d].incoming /\ v.dev[d].session = Nothing
  BY DEF stop, Shape, DeviceFields
<1> HIDE DEF v
<1>4. phase(v, d) \notin Making BY <1>3 DEF phase, Making
<1>5. DOMAIN w.tls = 1..Len(w.tls) /\ Len(w.tls) \in Nat BY ListedDomain
<1>6. ASSUME NEW i \in 1..Len(w.tls)
      PROVE  /\ DOMAIN v.tls[i] = {"host", "client", "stage"} /\ v.tls[i].stage \in Stages
             /\ v.tls[i].stage \in Making => w.tls[i].stage \in Making
  <2> DEFINE x == [w.tls[i] EXCEPT !.stage = "closed"]
  <2>1. DOMAIN w.tls[i] = {"host", "client", "stage"} /\ w.tls[i].stage \in Stages BY DEF Staged
  <2>2. DOMAIN x = {"host", "client", "stage"} /\ x.stage \notin Making /\ x.stage \in Stages
    BY <2>1 DEF Making, Stages
  <2>3. v.tls[i] \in {x, w.tls[i]} BY <1>2, <1>5
  <2> HIDE DEF x
  <2> QED BY <2>1, <2>2, <2>3
<1>7. Tame(w, v) BY <1>1, <1>5, <1>6 DEF Tame, Staged
<1>8. Moves(w, v, d) BY <1>2, <1>7 DEF Moves
<1> QED BY <1>1, <1>3, <1>4, <1>8 DEF v

(* The end of an attempt. *)
LEMMA EndedBacked ==
  ASSUME NEW w, NEW v, NEW d \in Device, Backed(w), Shape(v), Moves(w, v, d), AtRest(v, d)
  PROVE  Backed(v)
<1>1. Engaged(v, d) BY EndedOwn
<1>2. Shape(w) /\ Staged(w) /\ \A e \in Device : Engaged(w, e) BY DEF Backed
<1> QED BY <1>1, <1>2, MovesBacked

LEMMA FinishBacked ==
  ASSUME NEW w, NEW d \in Device, NEW success \in BOOLEAN, Backed(w), success => phase(w, d) \notin Making
  PROVE  Backed(finish(w, d, success)) /\ finish(w, d, success).dev[d].current = Nothing
<1> DEFINE id == w.dev[d].current
           v == [w EXCEPT !.dev[d].current = Nothing]
           a == [v EXCEPT !.dev[d].retry = @ \ {id}]
           b == [v EXCEPT !.dev[d].retry = @ \union {id}]
           p == cancel(b, d)
           s == complete(a, d)
           f == cancelPairing(p, d)
<1>1. Shape(w) /\ Staged(w) /\ Engaged(w, d) BY DEF Backed
<1>2. CASE id = Nothing BY <1>2 DEF finish
<1>3. CASE id # Nothing
  <2>1. finish(w, d, success) = IF success THEN s ELSE f BY <1>3 DEF finish
  <2>2. Only(w, a, d, {}) /\ Only(w, b, d, {}) BY <1>1 DEF Only, Shape, DeviceFields, Links
  <2>3. /\ a.dev[d].current = Nothing /\ a.dev[d].session = w.dev[d].session
        /\ a.dev[d].incoming = w.dev[d].incoming
    BY <1>1 DEF Shape, DeviceFields
  <2>4. /\ b.dev[d].current = Nothing /\ b.dev[d].session = w.dev[d].session
        /\ b.dev[d].incoming = w.dev[d].incoming
    BY <1>1 DEF Shape, DeviceFields
  <2> HIDE DEF a, b
  <2>5. Shape(a) /\ Shape(b) BY <1>1, <2>2, OnlyKeeps DEF Keeps
  <2>6. a.tls = w.tls /\ b.tls = w.tls BY <2>2 DEF Only
  <2>7. Len(w.tls) \in Nat BY <1>1, ListedDomain
  <2>8. Moves(w, a, d) /\ Moves(w, b, d) BY <2>2, <2>6, <2>7 DEF Only, Moves, Tame, Staged
  <2>9. CASE success
    <3>1. Alike(a, s, d) /\ s.dev[d].outgoing = Nothing /\ s.dev[d].accepted = Nothing BY <2>5, CompleteAlike
    <3> HIDE DEF s
    <3>2. Shape(s) /\ s.tls = w.tls /\ s.dev[d].current = Nothing /\ s.dev[d].session = w.dev[d].session
          /\ s.dev[d].incoming \in {Nothing, w.dev[d].incoming}
      BY <2>3, <2>6, <3>1 DEF Alike
    <3>3. phase(s, d) = phase(w, d) BY <3>2 DEF phase
    <3>4. AtRest(s, d) BY <1>1, <2>9, <3>1, <3>2, <3>3 DEF AtRest, Engaged
    <3>5. Moves(a, s, d) BY <2>5, <3>1, AlikeMoves
    <3>6. Moves(w, s, d) BY <1>1, <2>5, <2>8, <3>2, <3>5, MovesTrans
    <3> QED BY <2>1, <2>9, <3>2, <3>4, <3>6, EndedBacked
  <2>10. CASE ~success
    <3>1. Alike(b, p, d) /\ p.dev[d].outgoing = Nothing /\ p.dev[d].accepted = Nothing
          /\ p.dev[d].incoming = Nothing
      BY <2>5, CancelAlike
    <3> HIDE DEF p
    <3>2. Shape(p) /\ p.tls = w.tls /\ p.dev[d].current = Nothing /\ p.dev[d].session = w.dev[d].session
      BY <2>4, <2>6, <3>1 DEF Alike
    <3>3. Staged(p) BY <1>1, <3>2 DEF Staged
    <3>4. /\ Shape(f) /\ Len(f.tls) = Len(p.tls) /\ Moves(p, f, d) /\ phase(f, d) \notin Making
          /\ f.dev[d].current = Nothing /\ f.dev[d].outgoing = Nothing
          /\ f.dev[d].accepted = Nothing /\ f.dev[d].incoming = Nothing
          /\ f.dev[d].session \in {Nothing, w.dev[d].session}
      BY <3>1, <3>2, <3>3, CancelPairingEnds
    <3> HIDE DEF f
    <3>5. AtRest(f, d) BY <1>1, <3>2, <3>4 DEF AtRest, Engaged
    <3>6. Moves(b, p, d) BY <2>5, <3>1, AlikeMoves
    <3>7. Moves(w, p, d) BY <1>1, <2>5, <2>8, <3>2, <3>6, MovesTrans
    <3>8. Moves(w, f, d) BY <1>1, <3>2, <3>4, <3>7, MovesTrans
    <3> QED BY <2>1, <2>10, <3>4, <3>5, <3>8, EndedBacked
  <2> QED BY <2>9, <2>10
<1> QED BY <1>2, <1>3

LEMMA ResetBacked ==
  ASSUME NEW w, NEW d \in Device, Backed(w)
  PROVE  Backed(reset(w, d))
<1> DEFINE v == [w EXCEPT !.dev[d].owns = FALSE, !.dev[d].current = Nothing, !.dev[d].leader = Nothing,
                          !.dev[d].retry = {}]
           p == cancel(v, d)
           s == stop(p, d)
<1>1. Shape(w) /\ Staged(w) /\ Engaged(w, d) BY DEF Backed
<1>2. reset(w, d) = IF w.dev[d].owns THEN s ELSE v BY DEF reset
<1>3. Only(w, v, d, {}) BY <1>1 DEF Only, Shape, DeviceFields, Links
<1>4. /\ v.dev[d].current = Nothing /\ v.dev[d].session = w.dev[d].session /\ v.dev[d].owns = FALSE
      /\ v.dev[d].incoming = w.dev[d].incoming /\ v.dev[d].outgoing = w.dev[d].outgoing
      /\ v.dev[d].accepted = w.dev[d].accepted
  BY <1>1 DEF Shape, DeviceFields
<1> HIDE DEF v
<1>5. Shape(v) BY <1>1, <1>3, OnlyKeeps DEF Keeps
<1>6. v.tls = w.tls BY <1>3 DEF Only
<1>7. Len(w.tls) \in Nat BY <1>1, ListedDomain
<1>8. Moves(w, v, d) BY <1>3, <1>6, <1>7 DEF Only, Moves, Tame, Staged
<1>9. CASE ~w.dev[d].owns
  <2>1. w.dev[d].current = Nothing BY <1>1, <1>9 DEF Engaged
  <2>2. phase(v, d) = phase(w, d) BY <1>4, <1>6 DEF phase
  <2>3. Engaged(v, d) BY <1>1, <1>4, <1>6, <2>1, <2>2 DEF Engaged
  <2>4. \A e \in Device : Engaged(w, e) BY DEF Backed
  <2>5. Backed(v) BY <1>1, <1>5, <1>8, <2>3, <2>4, MovesBacked
  <2> QED BY <1>2, <1>9, <2>5
<1>10. CASE w.dev[d].owns
  <2>1. Alike(v, p, d) /\ p.dev[d].outgoing = Nothing /\ p.dev[d].accepted = Nothing
        /\ p.dev[d].incoming = Nothing
    BY <1>5, CancelAlike
  <2> HIDE DEF p
  <2>2. Shape(p) /\ p.tls = w.tls /\ p.dev[d].current = Nothing BY <1>4, <1>6, <2>1 DEF Alike
  <2>3. Staged(p) BY <1>1, <2>2 DEF Staged
  <2>4. /\ Shape(s) /\ Len(s.tls) = Len(p.tls) /\ Moves(p, s, d) /\ phase(s, d) \notin Making
        /\ s.dev[d].current = Nothing /\ s.dev[d].outgoing = Nothing
        /\ s.dev[d].accepted = Nothing /\ s.dev[d].incoming = Nothing /\ s.dev[d].session = Nothing
    BY <2>1, <2>2, <2>3, StopMoves
  <2> HIDE DEF s
  <2>5. AtRest(s, d) BY <2>4 DEF AtRest
  <2>6. Moves(v, p, d) BY <1>5, <2>1, AlikeMoves
  <2>7. Moves(w, p, d) BY <1>1, <1>5, <1>8, <2>2, <2>6, MovesTrans
  <2>8. Moves(w, s, d) BY <1>1, <2>2, <2>4, <2>7, MovesTrans
  <2>9. Backed(s) BY <2>4, <2>5, <2>8, EndedBacked
  <2> QED BY <1>2, <1>10, <2>9
<1> QED BY <1>9, <1>10

LEMMA TameBacked ==
  ASSUME NEW w, NEW v, Backed(w), Shape(v), v.dev = w.dev, Tame(w, v)
  PROVE  Backed(v)
<1>1. Len(w.tls) \in Nat /\ Len(v.tls) \in Nat /\ Len(w.tls) <= Len(v.tls) BY TlsLength DEF Backed, Tame
<1>2. ASSUME NEW e \in Device PROVE Engaged(v, e)
  <2>1. Engaged(w, e) BY DEF Backed
  <2>2. phase(v, e) \in Making => phase(w, e) \in Making BY <2>1 DEF Engaged, phase, Tame, Making
  <2> QED BY <1>1, <2>1, <2>2 DEF Engaged
<1> QED BY <1>2 DEF Backed, Tame

LEMMA OnlyBacked ==
  ASSUME NEW w, NEW v, NEW d \in Device, NEW X, Backed(w), Only(w, v, d, X), Engaged(v, d)
  PROVE  Backed(v)
<1>1. Shape(w) /\ Staged(w) /\ \A e \in Device : Engaged(w, e) BY DEF Backed
<1>2. Shape(v) BY <1>1, OnlyKeeps DEF Keeps
<1>3. Len(w.tls) \in Nat BY <1>1, ListedDomain
<1>4. Moves(w, v, d) BY <1>3 DEF Only, Moves, Tame, Staged
<1> QED BY <1>1, <1>2, <1>4, MovesBacked

(* What a device learns changes nothing of its attempt. *)
SameAttempt(w, v, d) ==
  /\ v.dev[d].current = w.dev[d].current /\ v.dev[d].session = w.dev[d].session
  /\ v.dev[d].owns = w.dev[d].owns
  /\ v.dev[d].outgoing \in {Nothing, w.dev[d].outgoing}
  /\ v.dev[d].accepted \in {Nothing, w.dev[d].accepted}
  /\ v.dev[d].incoming \in {Nothing, w.dev[d].incoming}

LEMMA OnlyAlike ==
  ASSUME NEW w, NEW v, NEW d \in Device, NEW X, Shape(w), Only(w, v, d, X), SameAttempt(w, v, d)
  PROVE  Alike(w, v, d)
<1>1. Shape(v) BY OnlyKeeps DEF Keeps
<1> QED BY <1>1 DEF Alike, Only, SameAttempt

LEMMA CancelBacked ==
  ASSUME NEW w, NEW d \in Device, Backed(w)
  PROVE  Backed(cancel(w, d))
<1>1. Shape(w) BY DEF Backed
<1>2. Alike(w, cancel(w, d), d) BY <1>1, CancelAlike
<1> QED BY <1>2, AlikeBacked

LEMMA FoundBacked ==
  ASSUME NEW w, NEW d \in Device, NEW e, NEW r, NEW fresh, Backed(w)
  PROVE  Backed(found(w, d, e, r, fresh))
<1> DEFINE old == w.dev[d].ep[e]
           restarted == old # Nothing /\ w.dev[d].auth /\ r.proof /\ old.nonce # r.nonce
           retired == (IF fresh THEN w.dev[d].retired \ {<<e, r.nonce>>} ELSE w.dev[d].retired)
                      \union (IF fresh /\ restarted THEN {<<e, old.nonce>>} ELSE {})
           v == [w EXCEPT !.dev[d].ep[e] = r, !.dev[d].retired = retired]
           c == cancel(v, d)
<1>1. found(w, d, e, r, fresh) \in {w, v, finish(c, d, FALSE)} BY DEF found
<1> HIDE DEF retired
<1>2. Shape(w) BY DEF Backed
<1>3. Only(w, v, d, {}) BY <1>2 DEF Only, Shape, DeviceFields, Links
<1>4. SameAttempt(w, v, d) BY <1>2 DEF SameAttempt, Shape, DeviceFields
<1> HIDE DEF v
<1>5. Backed(v) BY <1>2, <1>3, <1>4, OnlyAlike, AlikeBacked
<1>6. Backed(c) BY <1>5, CancelBacked
<1> HIDE DEF c
<1>7. Backed(finish(c, d, FALSE)) BY <1>6, FinishBacked
<1> QED BY <1>1, <1>5, <1>7

LEMMA AnsweredBacked ==
  ASSUME NEW w, NEW d \in Device, NEW m, Backed(w), m.op \in {"verify", "accept", "decline"}
  PROVE  Backed(answered(w, d, m))
<1> DEFINE a == [w EXCEPT !.dev[d].code = m.code]
           b == [w EXCEPT !.dev[d].quiet = TRUE]
           v == [w EXCEPT !.dev[d].outgoing = Nothing]
<1>1. answered(w, d, m) \in {w, a, b, finish(v, d, FALSE)} BY DEF answered
<1>2. Shape(w) BY DEF Backed
<1>3. Only(w, a, d, {}) /\ Only(w, b, d, {}) /\ Only(w, v, d, {})
  BY <1>2 DEF Only, Shape, DeviceFields, Links
<1>4. SameAttempt(w, a, d) /\ SameAttempt(w, b, d) /\ SameAttempt(w, v, d)
  BY <1>2 DEF SameAttempt, Shape, DeviceFields
<1> HIDE DEF a, b, v
<1>5. Backed(a) /\ Backed(b) /\ Backed(v) BY <1>2, <1>3, <1>4, OnlyAlike, AlikeBacked
<1>6. Backed(finish(v, d, FALSE)) BY <1>5, FinishBacked
<1> QED BY <1>1, <1>5, <1>6

LEMMA ResumedBacked ==
  ASSUME NEW w, NEW d \in Device, NEW m, Backed(w), Posted(m)
  PROVE  Backed(resumed(w, d, m))
<1> DEFINE ready == [op |-> "resume-ready", from |-> d, to |-> m.from, request |-> m.request,
                     record |-> record(w, d), proof |-> w.dev[d].auth]
           a == [w EXCEPT !.dev[d].seen = @ \union {m.request}]
           s == send(a, ready)
           b == [w EXCEPT !.dev[d].resume = Nothing]
           e == m.from
           r == m.record
<1>1. resumed(w, d, m) \in {w, found(s, d, e, r, TRUE), found(b, d, e, r, TRUE)} BY DEF resumed
<1>2. Shape(w) BY DEF Backed
<1>3. Only(w, a, d, {}) /\ Only(w, b, d, {}) BY <1>2 DEF Only, Shape, DeviceFields, Links
<1>4. SameAttempt(w, a, d) /\ SameAttempt(w, b, d) BY <1>2 DEF SameAttempt, Shape, DeviceFields
<1>5. ready.op # "invite" /\ Posted(ready) BY DEF Posted, Ops
<1> HIDE DEF a, b, ready, e, r
<1>6. Backed(a) /\ Backed(b) BY <1>2, <1>3, <1>4, OnlyAlike, AlikeBacked
<1>7. Shape(a) BY <1>6 DEF Backed
<1>8. Shape(s) BY <1>5, <1>7, SendKeeps DEF Keeps
<1>9. Backed(s) BY <1>6, <1>7, <1>8, SendAlike, AlikeBacked
<1> HIDE DEF s
<1> QED BY <1>1, <1>6, <1>9, FoundBacked

LEMMA ReceivedBacked ==
  ASSUME NEW w, NEW m, Backed(w), OneEach(w), m \in w.net
  PROVE  Backed(received(w, m))
<1> DEFINE d == m.to
<1>1. Shape(w) /\ Engaged(w, d) /\ Posted(m) /\ d \in Device /\ m.op \in Ops BY DEF Backed, Shape, Posted
<1>2. CASE m.op = "invite"
  <2> DEFINE v == [w EXCEPT !.dev[d].incoming = m, !.dev[d].seen = @ \union {m.request}]
  <2>1. received(w, m) \in {w, v} BY <1>2 DEF received
  <2>2. m \in Invites(w) BY <1>2 DEF Invites
  <2>3. m.request \in 1..Len(w.tls) BY <1>1, <2>2, ListedDomain DEF OneEach
  <2>4. Only(w, v, d, {}) BY <1>1 DEF Only, Shape, DeviceFields, Links, Posted
  <2>5. /\ v.dev[d].current = w.dev[d].current /\ v.dev[d].session = w.dev[d].session
        /\ v.dev[d].owns = w.dev[d].owns /\ v.dev[d].outgoing = w.dev[d].outgoing
        /\ v.dev[d].accepted = w.dev[d].accepted /\ v.dev[d].incoming = m /\ v.tls = w.tls
    BY <1>1 DEF Shape, DeviceFields
  <2> HIDE DEF v, d
  <2>6. phase(v, d) = phase(w, d) BY <2>5 DEF phase
  <2>7. Engaged(v, d) BY <1>1, <2>3, <2>5, <2>6 DEF Engaged
  <2>8. Backed(v) BY <1>1, <2>4, <2>7, OnlyBacked
  <2> QED BY <2>1, <2>8
<1>3. CASE m.op \in {"verify", "accept", "decline"}
  <2>1. received(w, m) = answered(w, d, m) BY <1>3 DEF received
  <2> QED BY <1>1, <1>3, <2>1, AnsweredBacked
<1>4. CASE m.op = "cancel"
  <2> DEFINE v == [w EXCEPT !.dev[d].incoming = Nothing]
  <2>1. received(w, m) \in {w, v} BY <1>4 DEF received, cancelled
  <2>2. Only(w, v, d, {}) BY <1>1 DEF Only, Shape, DeviceFields, Links
  <2>3. SameAttempt(w, v, d) BY <1>1 DEF SameAttempt, Shape, DeviceFields
  <2> HIDE DEF v, d
  <2>4. Backed(v) BY <1>1, <2>2, <2>3, OnlyAlike, AlikeBacked
  <2> QED BY <2>1, <2>4
<1>5. CASE m.op \in {"resume", "resume-ready"}
  <2>1. received(w, m) = resumed(w, d, m) BY <1>5 DEF received
  <2> QED BY <1>1, <2>1, ResumedBacked
<1> QED BY <1>1, <1>2, <1>3, <1>4, <1>5 DEF Ops

LEMMA LedBacked ==
  ASSUME NEW w, NEW d \in Device, Backed(w)
  PROVE  Backed(led(w, d))
<1> DEFINE l == leader(w, d)
           v == finish(w, d, FALSE)
           s == stop(v, d)
           u == IF v.dev[d].owns THEN s ELSE v
           x == [u EXCEPT !.dev[d].owns = FALSE, !.dev[d].leader = l]
<1>1. led(w, d) \in {w, x} BY DEF led
<1>2. Backed(v) /\ v.dev[d].current = Nothing BY FinishBacked
<1> HIDE DEF v, l
<1>3. Shape(v) /\ Staged(v) /\ Engaged(v, d) BY <1>2 DEF Backed
<1>4. Backed(u) /\ u.dev[d].current = Nothing
  <2>1. CASE v.dev[d].owns
    <3>1. /\ Shape(s) /\ Len(s.tls) = Len(v.tls) /\ Moves(v, s, d) /\ phase(s, d) \notin Making
          /\ s.dev[d].current = v.dev[d].current /\ s.dev[d].outgoing = v.dev[d].outgoing
          /\ s.dev[d].accepted = v.dev[d].accepted /\ s.dev[d].owns = v.dev[d].owns
          /\ s.dev[d].incoming = v.dev[d].incoming /\ s.dev[d].session = Nothing
      BY <1>3, StopMoves
    <3> HIDE DEF s
    <3>2. Engaged(s, d) BY <1>3, <3>1 DEF Engaged
    <3>3. \A e \in Device : Engaged(v, e) BY <1>2 DEF Backed
    <3>4. Backed(s) BY <1>3, <3>1, <3>2, <3>3, MovesBacked
    <3> QED BY <1>2, <2>1, <3>1, <3>4
  <2>2. CASE ~v.dev[d].owns BY <1>2, <2>2
  <2> QED BY <2>1, <2>2
<1> HIDE DEF u
<1>5. Shape(u) /\ Engaged(u, d) BY <1>4 DEF Backed
<1>6. Only(u, x, d, {}) BY <1>5 DEF Only, Shape, DeviceFields, Links
<1>7. /\ x.dev[d].current = Nothing /\ x.dev[d].session = u.dev[d].session
      /\ x.dev[d].outgoing = u.dev[d].outgoing /\ x.dev[d].accepted = u.dev[d].accepted
      /\ x.dev[d].incoming = u.dev[d].incoming /\ x.tls = u.tls
  BY <1>4, <1>5 DEF Shape, DeviceFields
<1> HIDE DEF x
<1>8. phase(x, d) = phase(u, d) BY <1>7 DEF phase
<1>9. Engaged(x, d) BY <1>4, <1>5, <1>7, <1>8 DEF Engaged
<1>10. Backed(x) BY <1>4, <1>6, <1>9, OnlyBacked
<1> QED BY <1>1, <1>10

LEMMA TriedBacked ==
  ASSUME NEW w, NEW d \in Device, NEW late, Backed(w)
  PROVE  Backed(attempt(w, d, late))
<1> DEFINE x == w.dev[d]
           m == [op |-> "verify", from |-> d, to |-> x.accepted.from, request |-> x.accepted.request,
                 nonce |-> x.accepted.senderNonce, senderNonce |-> x.nonce, proof |-> TRUE, code |-> x.session]
           p == [w EXCEPT !.tls[x.session].stage = "paired"]
<1>1. \/ attempt(w, d, late) \in {w, finish(w, d, FALSE)}
      \/ phase(w, d) = "confirming" /\ attempt(w, d, late) = finish(p, d, TRUE)
      \/ x.accepted # Nothing /\ attempt(w, d, late) = send(w, m)
  BY DEF attempt
<1>2. Shape(w) /\ Staged(w) /\ Engaged(w, d) BY DEF Backed
<1>3. x.accepted # Nothing => m.op # "invite" /\ Posted(m) BY <1>2 DEF Shape, Links, Posted, Ops
<1> HIDE DEF m
<1>4. x.accepted # Nothing => Shape(send(w, m)) BY <1>2, <1>3, SendKeeps DEF Keeps
<1>5. x.accepted # Nothing => Backed(send(w, m)) BY <1>2, <1>4, SendAlike, AlikeBacked
<1>6. CASE phase(w, d) = "confirming" /\ attempt(w, d, late) = finish(p, d, TRUE)
  <2>1. x.session # Nothing BY <1>6 DEF phase
  <2>2. x.session \in 1..Len(w.tls) BY <1>2, <2>1 DEF Engaged
  <2>3. Shape(p) /\ p.dev = w.dev /\ Moves(w, p, d) /\ p.tls[x.session].stage = "paired"
    BY <1>2, <2>2, ClosedMoves
  <2> HIDE DEF p
  <2>4. Backed(p) BY <2>3, TameBacked DEF Moves
  <2>5. phase(p, d) \notin Making BY <2>1, <2>3 DEF phase, Making
  <2>6. Backed(finish(p, d, TRUE)) BY <2>4, <2>5, FinishBacked
  <2> QED BY <1>6, <2>6
<1>7. Backed(finish(w, d, FALSE)) BY FinishBacked
<1> QED BY <1>1, <1>5, <1>6, <1>7

(* Without an attempt a device has no offer and no acceptance. *)
LEMMA IdleHasNone ==
  ASSUME NEW w, NEW d \in Device, Shape(w), Engaged(w, d), w.dev[d].current = Nothing
  PROVE  w.dev[d].outgoing = Nothing /\ w.dev[d].accepted = Nothing
<1>1. Nothing \notin Device BY DeviceAssumption
<1> QED BY <1>1 DEF Shape, Links, Engaged

LEMMA AcceptBacked ==
  ASSUME NEW w, NEW d \in Device, NEW fails, Backed(w), w.dev[d].current = Nothing, w.dev[d].incoming # Nothing,
         w.dev[d].incoming.from = w.dev[d].leader
  PROVE  Backed(accept(w, d, fails))
<1> DEFINE i == w.dev[d].incoming
           v == [w EXCEPT !.dev[d].current = w.dev[d].leader, !.dev[d].owns = TRUE]
           m == reply(v, d, i, "accept")
           s == send(v, m)
           a == [s EXCEPT !.dev[d].accepted = i, !.dev[d].incoming = Nothing]
           x == [a EXCEPT !.dev[d].session = i.request]
           y == decline(v, d)
<1>1. accept(w, d, fails) \in {finish(y, d, FALSE), finish(a, d, FALSE), x} BY DEF accept
<1>2. Shape(w) /\ Engaged(w, d) BY DEF Backed
<1>3. Only(w, v, d, {}) BY <1>2 DEF Only, Shape, DeviceFields, Links
<1>4. i.from \in Device /\ i.from # Nothing BY <1>2, DeviceAssumption DEF Shape, Links
<1>5. m.op # "invite" /\ Posted(m) BY <1>4 DEF reply, Posted, Ops
<1>6. w.dev[d].outgoing = Nothing /\ w.dev[d].accepted = Nothing BY <1>2, IdleHasNone
<1>7. i.request \in 1..Len(w.tls) BY <1>2 DEF Engaged
<1>8. /\ v.dev[d].current = i.from /\ v.dev[d].session = w.dev[d].session /\ v.dev[d].owns = TRUE
      /\ v.dev[d].outgoing = Nothing /\ v.dev[d].accepted = Nothing /\ v.dev[d].incoming = i /\ v.tls = w.tls
  BY <1>2, <1>6 DEF Shape, DeviceFields
<1> HIDE DEF i, v, m
<1>9. Engaged(v, d) BY <1>2, <1>4, <1>7, <1>8 DEF Engaged
<1>10. Backed(v) BY <1>3, <1>9, OnlyBacked
<1>11. Shape(v) BY <1>10 DEF Backed
<1>12. Shape(s) BY <1>5, <1>11, SendKeeps DEF Keeps
<1>13. Alike(v, s, d) BY <1>11, <1>12, SendAlike
<1>14. Backed(s) BY <1>10, <1>13, AlikeBacked
<1>15. s.dev = v.dev BY <1>11 DEF send, Shape
<1> HIDE DEF s
<1>16. Only(s, a, d, {}) BY <1>4, <1>12 DEF Only, Shape, DeviceFields, Links
<1>17. /\ a.dev[d].current = s.dev[d].current /\ a.dev[d].owns = s.dev[d].owns
       /\ a.dev[d].outgoing = s.dev[d].outgoing /\ a.dev[d].accepted = i
       /\ a.dev[d].incoming = Nothing /\ a.dev[d].session = s.dev[d].session /\ a.tls = s.tls
  BY <1>12 DEF Shape, DeviceFields
<1> HIDE DEF a
<1>18. a.tls = w.tls BY <1>8, <1>13, <1>17 DEF Alike
<1>19. Backed(a) /\ Backed(finish(a, d, FALSE))
  <2>1. phase(a, d) = phase(w, d) BY <1>8, <1>15, <1>17, <1>18 DEF phase
  <2>2. Engaged(a, d) BY <1>2, <1>4, <1>7, <1>8, <1>15, <1>17, <1>18, <2>1 DEF Engaged
  <2>3. Backed(a) BY <1>14, <1>16, <2>2, OnlyBacked
  <2> QED BY <2>3, FinishBacked
<1>20. Backed(x)
  <2>1. Shape(a) BY <1>19 DEF Backed
  <2>2. Only(a, x, d, {}) BY <2>1 DEF Only, Shape, DeviceFields, Links
  <2>3. /\ x.dev[d].current = a.dev[d].current /\ x.dev[d].owns = a.dev[d].owns
        /\ x.dev[d].outgoing = a.dev[d].outgoing /\ x.dev[d].accepted = a.dev[d].accepted
        /\ x.dev[d].incoming = a.dev[d].incoming /\ x.dev[d].session = i.request /\ x.tls = a.tls
    BY <2>1 DEF Shape, DeviceFields
  <2> HIDE DEF x
  <2>4. Engaged(x, d) BY <1>4, <1>7, <1>8, <1>15, <1>17, <1>18, <2>3 DEF Engaged
  <2> QED BY <1>19, <2>2, <2>4, OnlyBacked
<1>21. Alike(v, y, d) BY <1>11, DeclineAlike
<1>22. Backed(y) BY <1>10, <1>21, AlikeBacked
<1> HIDE DEF y
<1>23. Backed(finish(y, d, FALSE)) BY <1>22, FinishBacked
<1> QED BY <1>1, <1>19, <1>20, <1>23

LEMMA InviteFailsBacked ==
  ASSUME NEW w, NEW d \in Device, NEW e \in Device, Backed(w), w.dev[d].current = Nothing
  PROVE  Backed(invite(w, d, e, TRUE))
<1> DEFINE v == [w EXCEPT !.dev[d].current = e, !.dev[d].owns = TRUE]
<1>1. invite(w, d, e, TRUE) = finish(v, d, FALSE) BY DEF invite
<1>2. Shape(w) /\ Engaged(w, d) BY DEF Backed
<1>3. Only(w, v, d, {}) BY <1>2 DEF Only, Shape, DeviceFields, Links
<1>4. w.dev[d].outgoing = Nothing /\ w.dev[d].accepted = Nothing BY <1>2, IdleHasNone
<1>5. /\ v.dev[d].current = e /\ v.dev[d].session = w.dev[d].session /\ v.dev[d].owns = TRUE
      /\ v.dev[d].outgoing = Nothing /\ v.dev[d].accepted = Nothing
      /\ v.dev[d].incoming = w.dev[d].incoming /\ v.tls = w.tls
  BY <1>2, <1>4 DEF Shape, DeviceFields
<1>6. e # Nothing BY DeviceAssumption
<1> HIDE DEF v
<1>7. Engaged(v, d) BY <1>2, <1>5, <1>6 DEF Engaged
<1>8. Backed(v) BY <1>3, <1>7, OnlyBacked
<1> QED BY <1>1, <1>8, FinishBacked

LEMMA InviteBacked ==
  ASSUME NEW w, NEW d \in Device, NEW e \in Device, Backed(w)
  PROVE  Backed(invite(w, d, e, FALSE))
<1> DEFINE r == Len(w.tls) + 1
           o == [op |-> "invite", from |-> d, to |-> e, request |-> r, nonce |-> w.dev[d].ep[e].nonce,
                 senderNonce |-> w.dev[d].nonce, proof |-> TRUE]
           u == cancel(w, d)
           k == [host |-> d, client |-> e, stage |-> "offered"]
           t == Append(u.tls, k)
           x == [u EXCEPT !.tls = Append(@, [host |-> d, client |-> e, stage |-> "offered"]),
                    !.dev[d].current = e, !.dev[d].owns = TRUE, !.dev[d].session = r,
                    !.dev[d].outgoing = o, !.dev[d].quiet = FALSE]
           v == send(x, o)
<1>1. invite(w, d, e, FALSE) = v BY DEF invite
<1>2. Shape(w) /\ Staged(w) /\ \A b \in Device : Engaged(w, b) BY DEF Backed
<1>3. Alike(w, u, d) /\ u.dev[d].accepted = Nothing /\ u.dev[d].incoming = Nothing BY <1>2, CancelAlike
<1>4. o.to = e OBVIOUS
<1>5. Shape(v) BY <1>1, <1>2, InviteOffers DEF Invited
<1>6. DOMAIN k = {"host", "client", "stage"} /\ k.stage \in Stages BY DEF Stages
<1> HIDE DEF u, o
<1>7. Shape(u) /\ u.tls = w.tls BY <1>3 DEF Alike
<1>8. Len(w.tls) \in Nat /\ DOMAIN w.tls = 1..Len(w.tls) BY <1>2, ListedDomain
<1>9. DOMAIN u = {"dev", "net", "tls"} /\ DOMAIN u.dev = Device /\ DOMAIN u.dev[d] = DeviceFields
  BY <1>7 DEF Shape
<1>10. x.tls = t BY <1>9
<1>11. \A b \in Device : b # d => x.dev[b] = u.dev[b] BY <1>9
<1>12. x.dev[d].current = e /\ x.dev[d].owns = TRUE /\ x.dev[d].session = r /\ x.dev[d].outgoing = o
  BY <1>9 DEF DeviceFields
<1>13. x.dev[d].accepted = Nothing /\ x.dev[d].incoming = Nothing BY <1>3, <1>9 DEF DeviceFields
<1>14. v.dev = x.dev /\ v.tls = x.tls
  <2>1. DOMAIN x = {"dev", "net", "tls"} BY <1>9
  <2> HIDE DEF x
  <2> QED BY <2>1 DEF send
<1> HIDE DEF x, v, k
<1>15. Len(v.tls) = Len(w.tls) + 1 /\ v.tls[Len(w.tls) + 1] = k /\ \A i \in 1..Len(w.tls) : v.tls[i] = w.tls[i]
  <2>1. PICK S : w.tls \in Seq(S) BY <1>2 DEF Shape, Listed
  <2> DEFINE T == S \union {k}
  <2>2. \A i \in 1..Len(w.tls) : w.tls[i] \in T BY <2>1, ElementOfSeq
  <2>3. w.tls \in Seq(T) /\ k \in T BY <1>8, <2>1, <2>2, SeqDef
  <2> HIDE DEF T
  <2>4. v.tls = Append(w.tls, k) BY <1>7, <1>10, <1>14
  <2> QED BY <2>3, <2>4, AppendProperties
<1>16. \A i \in 1..Len(v.tls) : i \in 1..Len(w.tls) \/ i = Len(w.tls) + 1 BY <1>8, <1>15
<1>17. Staged(v) BY <1>2, <1>6, <1>15, <1>16 DEF Staged
<1>18. Moves(w, v, d) BY <1>3, <1>8, <1>11, <1>14, <1>15, <1>17 DEF Moves, Tame, Alike
<1>19. e # Nothing BY DeviceAssumption
<1>20. Engaged(v, d) BY <1>4, <1>8, <1>12, <1>13, <1>14, <1>15, <1>19 DEF Engaged
<1>21. Backed(v) BY <1>2, <1>5, <1>18, <1>20, MovesBacked
<1> QED BY <1>1, <1>21

LEMMA PumpedBacked ==
  ASSUME NEW w, NEW d \in Device, NEW late \in BOOLEAN, Backed(w)
  PROVE  Backed(pumped(w, d, late))
<1> DEFINE free == {e \in queue(w, d) : e \notin w.dev[d].retry}
<1>1. \/ pumped(w, d, late) \in {w, attempt(w, d, late), decline(w, d)}
      \/ /\ w.dev[d].current = Nothing /\ w.dev[d].incoming # Nothing
         /\ w.dev[d].incoming.from = w.dev[d].leader /\ pumped(w, d, late) = accept(w, d, late)
      \/ /\ free # {} /\ w.dev[d].current = Nothing
         /\ pumped(w, d, late) = invite(w, d, First(free), late)
  BY DEF pumped
<1>2. free \subseteq Device BY DEF queue, devices
<1> HIDE DEF free
<1>3. Shape(w) BY DEF Backed
<1>4. Alike(w, decline(w, d), d) BY <1>3, DeclineAlike
<1>5. Backed(decline(w, d)) BY <1>4, AlikeBacked
<1>6. CASE free # {} /\ w.dev[d].current = Nothing /\ pumped(w, d, late) = invite(w, d, First(free), late)
  <2>1. First(free) \in Device BY <1>2, <1>6, FirstIn
  <2>2. CASE late = TRUE BY <1>6, <2>1, <2>2, InviteFailsBacked
  <2>3. CASE late = FALSE BY <1>6, <2>1, <2>3, InviteBacked
  <2> QED BY <2>2, <2>3
<1> QED BY <1>1, <1>5, <1>6, TriedBacked, AcceptBacked

(* The steps. *)
LEMMA BackedReached ==
  ASSUME NEW v, Become(v), Backed(v)
  PROVE  Backed(World')
<1> DEFINE n == [dev |-> dev', net |-> net', tls |-> tls']
<1>1. DOMAIN n = {"dev", "net", "tls"} /\ n.dev = v.dev /\ n.net = v.net /\ n.tls = v.tls BY DEF Become
<1>2. World' = n BY DEF World
<1> HIDE DEF n
<1>3. Shape(v) /\ Staged(v) BY DEF Backed
<1>4. Shape(n) BY <1>1, <1>3 DEF Shape
<1>5. Len(v.tls) \in Nat BY <1>3, ListedDomain
<1>6. Tame(v, n) BY <1>1, <1>5 DEF Tame, Staged
<1>7. Backed(n) BY <1>1, <1>4, <1>6, TameBacked
<1> QED BY <1>2, <1>7

LEMMA BackedInitially ==
  ASSUME PairingInit
  PROVE  Backed(World)
<1>1. PICK p \in Desktop : dev = [d \in Device |-> [Fresh(1) EXCEPT !.host = d \in Desktop, !.primary = p]]
  BY DEF PairingInit
<1>2. World.dev = dev /\ World.tls = <<>> BY DEF World, PairingInit
<1>3. \A d \in Device : /\ dev[d].current = Nothing /\ dev[d].outgoing = Nothing /\ dev[d].incoming = Nothing
                        /\ dev[d].accepted = Nothing /\ dev[d].session = Nothing
  BY <1>1 DEF Fresh
<1>4. Shape(World) BY PairInitially DEF PairInv, Inv
<1>5. \A d \in Device : phase(World, d) \notin Making BY <1>2, <1>3 DEF phase, Making
<1>6. \A d \in Device : Engaged(World, d) BY <1>2, <1>3, <1>5 DEF Engaged
<1>7. Staged(World)
  <2>1. Len(<<>>) = 0 OBVIOUS
  <2> QED BY <1>2, <2>1 DEF Staged
<1> QED BY <1>4, <1>6, <1>7 DEF Backed

LEMMA FoundBackedStep ==
  ASSUME Backed(World), NEW d \in Device, NEW e \in Device, Found(d, e)
  PROVE  Backed(World')
<1>1. Shape(World) /\ World.dev = dev BY DEF Backed, World
<1> DEFINE a == record(World, e)
           b == [record(World, e) EXCEPT !.nonce = @ - 1]
           x == [World EXCEPT !.dev[d].ep[e] = Nothing]
<1>2. \/ Become(found(World, d, e, a, FALSE)) \/ Become(found(World, d, e, b, FALSE))
      \/ dev' = [dev EXCEPT ![d].ep[e] = Nothing] /\ net' = net /\ tls' = tls
  BY DEF Found
<1> HIDE DEF a, b
<1>3. CASE dev' = [dev EXCEPT ![d].ep[e] = Nothing] /\ net' = net /\ tls' = tls
  <2>1. Become(x) BY <1>3 DEF Become, World
  <2>2. Only(World, x, d, {}) BY <1>1 DEF Only, Shape, DeviceFields, Links
  <2>3. SameAttempt(World, x, d) BY <1>1 DEF SameAttempt, Shape, DeviceFields
  <2> HIDE DEF x
  <2>4. Backed(x) BY <1>1, <2>2, <2>3, OnlyAlike, AlikeBacked
  <2> QED BY <2>1, <2>4, BackedReached
<1>4. Backed(found(World, d, e, a, FALSE)) /\ Backed(found(World, d, e, b, FALSE)) BY FoundBacked
<1> QED BY <1>2, <1>3, <1>4, BackedReached

LEMMA SendResumeBacked ==
  ASSUME Backed(World), NEW d \in Device, sendResume(d)
  PROVE  Backed(World')
<1>1. Shape(World) /\ World.dev = dev BY DEF Backed, World
<1> DEFINE y == -changes'
           u == [World EXCEPT !.dev[d].resume = y]
           m == [op |-> "resume", from |-> d, to |-> dev[d].primary, request |-> y,
                 record |-> record(World, d), proof |-> TRUE]
<1>2. Become(send(u, m)) /\ dev[d].primary # Nothing BY DEF sendResume
<1> HIDE DEF y
<1>3. Only(World, u, d, {}) BY <1>1 DEF Only, Shape, DeviceFields, Links
<1>4. SameAttempt(World, u, d) BY <1>1 DEF SameAttempt, Shape, DeviceFields
<1>5. m.op # "invite" /\ Posted(m) BY <1>1, <1>2 DEF Posted, Ops, Shape, Links
<1> HIDE DEF u, m
<1>6. Backed(u) BY <1>1, <1>3, <1>4, OnlyAlike, AlikeBacked
<1>7. Shape(u) BY <1>6 DEF Backed
<1>8. Shape(send(u, m)) BY <1>5, <1>7, SendKeeps DEF Keeps
<1>9. Backed(send(u, m)) BY <1>6, <1>7, <1>8, SendAlike, AlikeBacked
<1> QED BY <1>2, <1>9, BackedReached

LEMMA RestartBacked ==
  ASSUME Backed(World), NEW d \in Device, Restart(d)
  PROVE  Backed(World')
<1>1. Shape(World) /\ World.dev = dev BY DEF Backed, World
<1>2. PICK w \in {cancel(reset(World, d), d), World} :
        Become([stop(w, d) EXCEPT !.dev[d] = [Fresh(dev[d].nonce + 1) EXCEPT !.host = d \in Desktop,
                                                                            !.primary = dev[d].primary]])
  BY DEF Restart
<1>3. Backed(w)
  <2>1. Backed(reset(World, d)) BY ResetBacked
  <2>2. Backed(cancel(reset(World, d), d)) BY <2>1, CancelBacked
  <2> QED BY <1>2, <2>2
<1> DEFINE s == stop(w, d)
           h == d \in Desktop
           p == dev[d].primary
           n == dev[d].nonce + 1
           x == [Fresh(n) EXCEPT !.host = h, !.primary = p]
           v == [s EXCEPT !.dev[d] = x]
<1>4. Become(v) BY <1>2
<1>5. Shape(w) /\ Staged(w) BY <1>3 DEF Backed
<1>6. Shape(s) /\ Len(s.tls) = Len(w.tls) /\ Moves(w, s, d) BY <1>5, StopMoves
<1>7. n \in Nat /\ p \in Device \union {Nothing} BY <1>1 DEF Shape, Links
<1> HIDE DEF s, n, h, p
<1>8. /\ DOMAIN x = DeviceFields /\ x.nonce = n /\ x.outgoing = Nothing /\ x.incoming = Nothing
      /\ x.accepted = Nothing /\ x.primary = p /\ x.current = Nothing /\ x.session = Nothing
  BY DEF Fresh, DeviceFields
<1> HIDE DEF x
<1>9. /\ DOMAIN v = {"dev", "net", "tls"} /\ v.net = s.net /\ v.tls = s.tls /\ DOMAIN v.dev = Device
      /\ v.dev[d] = x /\ \A e \in Device : e # d => v.dev[e] = s.dev[e]
  BY <1>6 DEF Shape
<1> HIDE DEF v
<1>10. Links(x) BY <1>7, <1>8 DEF Links
<1>11. Shape(v) BY <1>6, <1>7, <1>8, <1>9, <1>10 DEF Shape
<1>12. phase(v, d) \notin Making BY <1>8, <1>9 DEF phase, Making
<1>13. AtRest(v, d) BY <1>8, <1>9, <1>12 DEF AtRest
<1>14. Moves(w, v, d) BY <1>6, <1>9 DEF Moves, Tame, Staged
<1>15. Backed(v) BY <1>3, <1>11, <1>13, <1>14, EndedBacked
<1> QED BY <1>4, <1>15, BackedReached

LEMMA SetCredentialsBacked ==
  ASSUME Backed(World), NEW d \in Device, setCredentials(d)
  PROVE  Backed(World')
<1>1. Shape(World) /\ World.dev = dev BY DEF Backed, World
<1>2. PICK auth \in BOOLEAN, host \in {FALSE, (d \in Desktop)}, chosen \in {Nothing} \union Desktop :
        /\ <<auth, host, chosen>> # <<dev[d].auth, dev[d].host, dev[d].primary>>
        /\ LET w == [World EXCEPT !.dev[d].auth = auth, !.dev[d].host = host, !.dev[d].primary = chosen]
           IN Become(IF dev[d].auth /\ ~auth THEN reset(w, d) ELSE w)
  BY DEF setCredentials
<1> DEFINE w == [World EXCEPT !.dev[d].auth = auth, !.dev[d].host = host, !.dev[d].primary = chosen]
<1>3. chosen \in Device \union {Nothing} BY DeviceAssumption
<1>4. Only(World, w, d, {}) BY <1>1, <1>3 DEF Only, Shape, DeviceFields, Links
<1>5. SameAttempt(World, w, d) BY <1>1 DEF SameAttempt, Shape, DeviceFields
<1>6. Become(w) \/ Become(reset(w, d)) BY <1>2
<1> HIDE DEF w
<1>7. Backed(w) BY <1>1, <1>4, <1>5, OnlyAlike, AlikeBacked
<1>8. Backed(reset(w, d)) BY <1>7, ResetBacked
<1> QED BY <1>6, <1>7, <1>8, BackedReached

LEMMA TickBacked ==
  ASSUME Backed(World), NEW d \in Device, tick(d)
  PROVE  Backed(World')
<1>1. Shape(World) /\ World.dev = dev BY DEF Backed, World
<1> DEFINE x == dev[d]
           i == IF x.incoming # Nothing /\ x.incoming.request \in expired THEN Nothing ELSE x.incoming
           o == x.outgoing
<1>2. PICK seen \in SUBSET x.seen, gone \in SUBSET x.retired : Spoken(d, Ticked(d, seen, gone)) BY <1>1, TickSplit
<1> DEFINE w == Ticked(d, seen, gone)
           u == [w EXCEPT !.dev[d].outgoing = Nothing]
<1>3. Become(finish(u, d, FALSE)) \/ (o # Nothing /\ Become(send(w, o))) \/ Become(w) BY <1>2 DEF Spoken
<1>4. i \in {Nothing, x.incoming} OBVIOUS
<1>5. w = [World EXCEPT !.dev[d].seen = seen, !.dev[d].retired = @ \ gone, !.dev[d].incoming = i] BY DEF Ticked
<1> HIDE DEF i
<1>6. Only(World, w, d, x.seen) /\ SameAttempt(World, w, d) /\ w.dev[d].outgoing = o
  <2>1. Only(World, w, d, x.seen) BY <1>1, <1>4, <1>5 DEF Only, Shape, DeviceFields, Links
  <2>2. SameAttempt(World, w, d) /\ w.dev[d].outgoing = o BY <1>1, <1>4, <1>5 DEF SameAttempt, Shape, DeviceFields
  <2> QED BY <2>1, <2>2
<1> HIDE DEF w
<1>7. Backed(w) BY <1>1, <1>6, OnlyAlike, AlikeBacked
<1>8. Shape(w) BY <1>7 DEF Backed
<1>9. Only(w, u, d, {}) BY <1>8 DEF Only, Shape, DeviceFields, Links
<1>10. SameAttempt(w, u, d) BY <1>8 DEF SameAttempt, Shape, DeviceFields
<1> HIDE DEF u
<1>11. Backed(u) BY <1>7, <1>8, <1>9, <1>10, OnlyAlike, AlikeBacked
<1>12. Backed(finish(u, d, FALSE)) BY <1>11, FinishBacked
<1>13. CASE o # Nothing /\ Become(send(w, o))
  <2>1. Posted(o) /\ o \in Invites(w) BY <1>6, <1>8, <1>13 DEF Shape, Links, Posted, Ops, Invites
  <2>2. Shape(send(w, o)) BY <1>8, <2>1, SendKeeps DEF Keeps
  <2>3. Backed(send(w, o)) BY <1>7, <1>8, <2>2, SendAlike, AlikeBacked
  <2> QED BY <1>13, <2>3, BackedReached
<1> QED BY <1>3, <1>7, <1>12, <1>13, BackedReached

LEMMA PumpBacked ==
  ASSUME Backed(World), NEW d \in Device, NEW late \in BOOLEAN, pump(d, late)
  PROVE  Backed(World')
<1> DEFINE w == led(World, d)
           R == devices(w, d)
           v == [w EXCEPT !.dev[d].retry = @ \intersect R]
<1>1. Become(decline(World, d)) \/ Become(pumped(v, d, late)) BY DEF pump
<1>2. Backed(w) BY LedBacked
<1> HIDE DEF R, w
<1>3. Shape(w) BY <1>2 DEF Backed
<1>4. Only(w, v, d, {}) BY <1>3 DEF Only, Shape, DeviceFields, Links
<1>5. SameAttempt(w, v, d) BY <1>3 DEF SameAttempt, Shape, DeviceFields
<1> HIDE DEF v
<1>6. Backed(v) BY <1>2, <1>3, <1>4, <1>5, OnlyAlike, AlikeBacked
<1>7. Backed(pumped(v, d, late)) BY <1>6, PumpedBacked
<1>8. Alike(World, decline(World, d), d) BY DeclineAlike DEF Backed
<1>9. Backed(decline(World, d)) BY <1>8, AlikeBacked
<1> QED BY <1>1, <1>7, <1>9, BackedReached

LEMMA BackoffBacked ==
  ASSUME Backed(World), NEW d \in Device, Backoff(d)
  PROVE  Backed(World')
<1>1. Shape(World) BY DEF Backed
<1> DEFINE x == [World EXCEPT !.dev[d].retry = {}]
<1>2. Become(x) BY DEF Become, World, Backoff
<1>3. Only(World, x, d, {}) BY <1>1 DEF Only, Shape, DeviceFields, Links
<1>4. SameAttempt(World, x, d) BY <1>1 DEF SameAttempt, Shape, DeviceFields
<1> HIDE DEF x
<1>5. Backed(x) BY <1>1, <1>3, <1>4, OnlyAlike, AlikeBacked
<1> QED BY <1>2, <1>5, BackedReached

LEMMA SetEnabledBacked ==
  ASSUME Backed(World), NEW d \in Device, setEnabled(d)
  PROVE  Backed(World')
<1>1. Shape(World) /\ Staged(World) /\ Engaged(World, d) /\ World.dev = dev BY DEF Backed, World
<1> DEFINE c == cancel(World, d)
           p == cancelPairing(c, d)
           w == IF dev[d].enabled /\ dev[d].current # Nothing THEN p ELSE World
           y == ~w.dev[d].enabled
           z == IF dev[d].enabled THEN Nothing ELSE w.dev[d].current
           v == [w EXCEPT !.dev[d].enabled = y, !.dev[d].current = z]
<1>2. Become([w EXCEPT !.dev[d].enabled = ~@, !.dev[d].current = IF dev[d].enabled THEN Nothing ELSE @])
  BY DEF setEnabled
<1> HIDE DEF c, p
<1>3. ASSUME Shape(w)
      PROVE  /\ Only(w, v, d, {}) /\ Become(v) /\ v.tls = w.tls /\ v.dev[d].current = z
             /\ v.dev[d].session = w.dev[d].session /\ v.dev[d].owns = w.dev[d].owns
             /\ v.dev[d].outgoing = w.dev[d].outgoing /\ v.dev[d].accepted = w.dev[d].accepted
             /\ v.dev[d].incoming = w.dev[d].incoming
  <2> HIDE DEF w
  <2>1. v = [w EXCEPT !.dev[d].enabled = ~@, !.dev[d].current = IF dev[d].enabled THEN Nothing ELSE @]
    BY <1>3 DEF Shape, DeviceFields
  <2> HIDE DEF y, z
  <2>2. Only(w, v, d, {}) BY <1>3 DEF Only, Shape, DeviceFields, Links
  <2>3. /\ v.tls = w.tls /\ v.dev[d].current = z
        /\ v.dev[d].session = w.dev[d].session /\ v.dev[d].owns = w.dev[d].owns
        /\ v.dev[d].outgoing = w.dev[d].outgoing /\ v.dev[d].accepted = w.dev[d].accepted
        /\ v.dev[d].incoming = w.dev[d].incoming
    BY <1>3 DEF Shape, DeviceFields
  <2> HIDE DEF v
  <2> QED BY <1>2, <2>1, <2>2, <2>3
<1> HIDE DEF v
<1>4. CASE dev[d].enabled /\ dev[d].current # Nothing
  <2>1. /\ Alike(World, c, d) /\ c.dev[d].outgoing = Nothing /\ c.dev[d].accepted = Nothing
        /\ c.dev[d].incoming = Nothing
    BY <1>1, CancelAlike DEF c
  <2>2. Shape(c) /\ Staged(c) /\ c.tls = World.tls /\ c.dev[d].session = World.dev[d].session
    BY <1>1, <2>1 DEF Alike, Staged
  <2>3. /\ Shape(p) /\ Len(p.tls) = Len(c.tls) /\ Moves(c, p, d) /\ phase(p, d) \notin Making
        /\ p.dev[d].outgoing = Nothing /\ p.dev[d].accepted = Nothing
        /\ p.dev[d].incoming = Nothing /\ p.dev[d].session \in {Nothing, c.dev[d].session}
    BY <2>1, <2>2, CancelPairingEnds DEF p
  <2>4. w = p /\ z = Nothing BY <1>4
  <2> HIDE DEF w, z
  <2>5. /\ Only(p, v, d, {}) /\ Become(v) /\ v.tls = p.tls /\ v.dev[d].current = Nothing
        /\ v.dev[d].session = p.dev[d].session /\ v.dev[d].outgoing = p.dev[d].outgoing
        /\ v.dev[d].accepted = p.dev[d].accepted /\ v.dev[d].incoming = p.dev[d].incoming
    BY <1>3, <2>3, <2>4
  <2>6. phase(v, d) = phase(p, d) BY <2>5 DEF phase
  <2>7. AtRest(v, d) BY <1>1, <2>2, <2>3, <2>5, <2>6 DEF AtRest, Engaged
  <2>8. Shape(v) BY <2>3, <2>5, OnlyKeeps DEF Keeps
  <2>9. Len(p.tls) \in Nat BY <2>3, ListedDomain
  <2>10. Moves(p, v, d) BY <2>5, <2>9 DEF Only, Moves, Tame, Staged
  <2>11. Moves(World, c, d) BY <1>1, <2>1, AlikeMoves
  <2>12. Moves(World, p, d) BY <1>1, <2>2, <2>3, <2>11, MovesTrans
  <2>13. Moves(World, v, d) BY <1>1, <2>3, <2>8, <2>10, <2>12, MovesTrans
  <2>14. Backed(v) BY <2>7, <2>8, <2>13, EndedBacked
  <2> QED BY <2>5, <2>14, BackedReached
<1>5. CASE ~(dev[d].enabled /\ dev[d].current # Nothing)
  <2>1. w = World BY <1>5
  <2>2. z = World.dev[d].current BY <1>1, <1>5, <2>1
  <2> HIDE DEF w, z
  <2>3. Only(World, v, d, {}) /\ Become(v) /\ SameAttempt(World, v, d) BY <1>1, <1>3, <2>1, <2>2 DEF SameAttempt
  <2>4. Backed(v) BY <1>1, <2>3, OnlyAlike, AlikeBacked
  <2> QED BY <2>3, <2>4, BackedReached
<1> QED BY <1>4, <1>5

LEMMA LinkBacked ==
  ASSUME Backed(World), NEW i, Connect(i) \/ Disconnect(i)
  PROVE  Backed(World')
<1>1. Shape(World) /\ Staged(World) /\ World.dev = dev /\ World.tls = tls BY DEF Backed, World
<1>2. PICK y \in {"confirming", "closed"} :
        /\ tls' = [tls EXCEPT ![i] = [tls[i] EXCEPT !.stage = y]]
        /\ dev' = dev /\ net' = net /\ (y = "confirming" => tls[i].stage = "offered")
  BY DEF Connect, Disconnect
<1> DEFINE x == [tls[i] EXCEPT !.stage = y]
           t == [tls EXCEPT ![i] = x]
           v == [dev |-> dev, net |-> net, tls |-> t]
<1>3. tls' = t BY <1>2
<1> HIDE DEF x
<1>4. t = [j \in DOMAIN tls |-> t[j]] OBVIOUS
<1> HIDE DEF t
<1>5. DOMAIN v = {"dev", "net", "tls"} /\ v.dev = World.dev /\ v.net = World.net /\ v.tls = t BY DEF World
<1>6. Become(v) BY <1>2, <1>3 DEF Become
<1> HIDE DEF v
<1>7. Keeps(World, v, {}) BY <1>1, <1>4, <1>5, LinkKeeps
<1>8. Shape(v) /\ Len(v.tls) = Len(World.tls) BY <1>7 DEF Keeps
<1>9. v.tls = [World.tls EXCEPT ![i] = [World.tls[i] EXCEPT !.stage = y]] BY <1>1, <1>5 DEF t, x
<1>10. y \in Stages /\ (y \notin Making \/ World.tls[i].stage \in Making) BY <1>1, <1>2 DEF Making, Stages
<1>11. Tame(World, v) BY <1>1, <1>8, <1>9, <1>10, Stage
<1>12. Backed(v) BY <1>5, <1>8, <1>11, TameBacked
<1> QED BY <1>6, <1>12, BackedReached

LEMMA BackedStep ==
  ASSUME PairInv, Backed(World), [PairingNext]_pairingVars
  PROVE  Backed(World')
<1>1. ASSUME dev' = dev, net' = net, tls' = tls PROVE Backed(World')
  <2>1. Become(World) BY <1>1 DEF Become, World
  <2> QED BY <2>1, BackedReached
<1>2. ASSUME NEW m \in net, receive(m) PROVE Backed(World')
  <2>1. Become(received(World, m)) BY <1>2 DEF receive
  <2>2. OneEach(World) /\ World.net = net BY DEF PairInv, Inv, World
  <2>3. Backed(received(World, m)) BY <2>2, ReceivedBacked
  <2> QED BY <2>1, <2>3, BackedReached
<1>3. CASE \E d, e \in Device : Found(d, e) BY <1>3, FoundBackedStep
<1>4. ASSUME NEW d \in Device, sendResume(d) \/ Restart(d) \/ setCredentials(d) PROVE Backed(World')
  BY <1>4, SendResumeBacked, RestartBacked, SetCredentialsBacked
<1>5. ASSUME NEW d \in Device, tick(d) \/ Pump(d) \/ Deadline(d) PROVE Backed(World')
  BY <1>5, TickBacked, PumpBacked DEF Pump, Deadline
<1>6. ASSUME NEW d \in Device, Paired(d) PROVE Backed(World')
  <2>1. Become(finish(World, d, TRUE)) /\ phase(World, d) \notin Making BY <1>6 DEF Paired, Making
  <2>2. Backed(finish(World, d, TRUE)) BY <2>1, FinishBacked
  <2> QED BY <2>1, <2>2, BackedReached
<1>7. ASSUME NEW d \in Device, Backoff(d) \/ setEnabled(d) PROVE Backed(World')
  BY <1>7, BackoffBacked, SetEnabledBacked
<1>8. ASSUME NEW i, Expire(i) PROVE Backed(World') BY <1>1, <1>8 DEF Expire
<1>9. ASSUME NEW i, Connect(i) \/ Disconnect(i) PROVE Backed(World') BY <1>9, LinkBacked
<1>10. CASE UNCHANGED pairingVars BY <1>1, <1>10 DEF pairingVars
<1> QED BY <1>2, <1>3, <1>4, <1>5, <1>6, <1>7, <1>8, <1>9, <1>10 DEF PairingNext

(***************************************************************************)
(* An offer, an acceptance and a connection being made belong to the       *)
(* attempt under way: AutomaticPairing leaves none of them behind when it  *)
(* finishes, resets or takes over from the user, on any number of devices, *)
(* whatever arrives, expires or restarts meanwhile.                        *)
(***************************************************************************)
THEOREM AttemptsBacked == PairingSpec => []AttemptBacked
<1> DEFINE BInv == PairInv /\ Backed(World)
<1>1. PairingInit => BInv BY PairInitially, BackedInitially
<1>2. BInv /\ [PairingNext]_pairingVars => BInv' BY PairInductive, BackedStep
<1>3. BInv => AttemptBacked
  <2> SUFFICES ASSUME Backed(World), NEW d \in Device
               PROVE  /\ dev[d].outgoing # Nothing => dev[d].current = dev[d].outgoing.to
                      /\ dev[d].accepted # Nothing => dev[d].current = dev[d].accepted.from
                      /\ phase(World, d) \in {"offered", "confirming"} => dev[d].current # Nothing
    BY DEF AttemptBacked
  <2> QED BY DEF Backed, Engaged, World, Making
<1> QED BY <1>1, <1>2, <1>3, PTL DEF PairingSpec

-----------------------------------------------------------------------------
(***************************************************************************)
(* Who leads.  A leader, a primary and a record that claims to host are of *)
(* desktops, and a device that owns the transport has a leader.            *)
(***************************************************************************)
Resumes == {"resume", "resume-ready"}

Honest(r, e) == (r.host => e \in Desktop) /\ r.primary \in Desktop \union {Nothing}

Guide(x, d) ==
  /\ x.leader \in Desktop \union {Nothing} /\ (x.owns => x.leader # Nothing)
  /\ x.primary \in Desktop \union {Nothing} /\ (x.host => d \in Desktop)
  /\ DOMAIN x.ep = Device /\ \A e \in Device : x.ep[e] # Nothing => Honest(x.ep[e], e)

Guided(w) ==
  /\ Shape(w) /\ \A d \in Device : Guide(w.dev[d], d)
  /\ \A m \in w.net : m.op \in Resumes => Honest(m.record, m.from)

(* What a device knows of the others, and who leads, is as before; it may give up the transport. *)
SameGuide(w, v, d) ==
  /\ v.dev[d].leader = w.dev[d].leader /\ v.dev[d].primary = w.dev[d].primary
  /\ v.dev[d].host = w.dev[d].host /\ v.dev[d].ep = w.dev[d].ep
  /\ v.dev[d].owns => w.dev[d].owns

Calm(w, v, d) ==
  /\ Shape(v) /\ SameGuide(w, v, d)
  /\ \A e \in Device : e # d => v.dev[e] = w.dev[e]
  /\ \A m \in v.net : m \in w.net \/ m.op \notin Resumes

LEMMA CalmGuided ==
  ASSUME NEW w, NEW v, NEW d \in Device, Guided(w), Calm(w, v, d)
  PROVE  Guided(v)
<1>1. Guide(v.dev[d], d)
  <2>1. Guide(w.dev[d], d) BY DEF Guided
  <2> QED BY <2>1 DEF Guide, Calm, SameGuide
<1>2. \A e \in Device : Guide(v.dev[e], e) BY <1>1 DEF Guided, Calm
<1>3. \A m \in v.net : m.op \in Resumes => Honest(m.record, m.from) BY DEF Guided, Calm
<1> QED BY <1>2, <1>3 DEF Guided, Calm

LEMMA CalmSame == ASSUME NEW w, NEW d, Shape(w) PROVE Calm(w, w, d)
BY DEF Calm, SameGuide

LEMMA CalmTrans ==
  ASSUME NEW u, NEW w, NEW v, NEW d, Calm(u, w, d), Calm(w, v, d)
  PROVE  Calm(u, v, d)
BY DEF Calm, SameGuide

LEMMA OnlyCalm ==
  ASSUME NEW X, NEW w, NEW v, NEW d \in Device, Shape(w), Only(w, v, d, X), SameGuide(w, v, d)
  PROVE  Calm(w, v, d)
<1>1. Shape(v) BY OnlyKeeps DEF Keeps
<1> QED BY <1>1 DEF Calm, Only

LEMMA SendCalm ==
  ASSUME NEW w, NEW m, NEW d, Shape(w), Posted(m), m.op \notin Resumes
  PROVE  Calm(w, send(w, m), d)
<1> DEFINE v == send(w, m)
<1>1. DOMAIN v = {"dev", "net", "tls"} /\ v.dev = w.dev /\ v.tls = w.tls /\ v.net = w.net \union {m}
  BY DEF send, Shape
<1> HIDE DEF v
<1>2. Shape(v) BY <1>1 DEF Shape
<1>3. Calm(w, v, d) BY <1>1, <1>2 DEF Calm, SameGuide
<1> QED BY <1>3 DEF v

LEMMA LinkCalm ==
  ASSUME NEW w, NEW v, NEW d, Shape(v), v.dev = w.dev, v.net = w.net
  PROVE  Calm(w, v, d)
BY DEF Calm, SameGuide

LEMMA DeclineCalm ==
  ASSUME NEW w, NEW d \in Device, Shape(w)
  PROVE  Calm(w, decline(w, d), d)
<1> DEFINE i == w.dev[d].incoming
           m == reply(w, d, i, "decline")
           u == IF i # Nothing /\ known(w, d, i.from) THEN send(w, m) ELSE w
           v == [u EXCEPT !.dev[d].incoming = Nothing]
<1>1. decline(w, d) = v BY DEF decline
<1>2. m.op = "decline" /\ m.from = d /\ m.to = i.from BY DEF reply
<1> HIDE DEF m
<1>3. Calm(w, u, d)
  <2>1. CASE i # Nothing
    <3>1. Posted(m) /\ m.op \notin Resumes BY <1>2, <2>1 DEF Posted, Ops, Shape, Links, Resumes
    <3> QED BY <3>1, SendCalm, CalmSame
  <2>2. CASE i = Nothing BY <2>2, CalmSame
  <2> QED BY <2>1, <2>2
<1> HIDE DEF u
<1>4. Shape(u) BY <1>3 DEF Calm
<1>5. Only(u, v, d, {}) BY <1>4 DEF Only, Shape, DeviceFields, Links
<1>6. SameGuide(u, v, d) BY <1>4 DEF SameGuide, Shape, DeviceFields
<1> HIDE DEF v
<1>7. Calm(u, v, d) BY <1>4, <1>5, <1>6, OnlyCalm
<1> QED BY <1>1, <1>3, <1>7, CalmTrans

LEMMA CompleteCalm ==
  ASSUME NEW w, NEW d \in Device, Shape(w)
  PROVE  Calm(w, complete(w, d), d)
<1>1. Only(w, complete(w, d), d, {}) BY DEF complete, Only, Shape, DeviceFields, Links
<1>2. SameGuide(w, complete(w, d), d) BY DEF complete, SameGuide, Shape, DeviceFields
<1> QED BY <1>1, <1>2, OnlyCalm

LEMMA CancelCalm ==
  ASSUME NEW w, NEW d \in Device, Shape(w)
  PROVE  Calm(w, cancel(w, d), d)
<1> DEFINE o == w.dev[d].outgoing
           a == decline(w, d)
           m == [o EXCEPT !.op = "cancel", !.proof = w.dev[d].auth]
           u == IF o # Nothing /\ known(w, d, o.to) THEN send(a, m) ELSE a
<1>1. cancel(w, d) = complete(u, d) BY DEF cancel
<1>2. Calm(w, a, d) BY DeclineCalm
<1>3. o # Nothing => m.op \notin Resumes /\ Posted(m) BY DEF Shape, Links, InviteFields, Posted, Ops, Resumes
<1> HIDE DEF o, a, m
<1>4. Shape(a) BY <1>2 DEF Calm
<1>5. Calm(a, u, d) BY <1>3, <1>4, SendCalm, CalmSame
<1> HIDE DEF u
<1>6. Calm(u, complete(u, d), d) BY <1>5, CompleteCalm DEF Calm
<1> QED BY <1>1, <1>2, <1>5, <1>6, CalmTrans

LEMMA CancelPairingCalm ==
  ASSUME NEW w, NEW d \in Device, Shape(w)
  PROVE  Calm(w, cancelPairing(w, d), d)
<1> DEFINE u == Closed(w, w.dev[d].session)
           v == [u EXCEPT !.dev[d].session = Nothing]
<1>1. cancelPairing(w, d) \in {w, v} BY DEF cancelPairing
<1>2. Shape(u) BY ClosedKeeps DEF Keeps, Closed
<1>3. u.dev = w.dev /\ u.net = w.net BY DEF Closed, Shape
<1> HIDE DEF u
<1>4. Calm(w, u, d) BY <1>2, <1>3, LinkCalm
<1>5. Only(u, v, d, {}) BY <1>2 DEF Only, Shape, DeviceFields, Links
<1>6. SameGuide(u, v, d) BY <1>2 DEF SameGuide, Shape, DeviceFields
<1> HIDE DEF v
<1>7. Calm(u, v, d) BY <1>2, <1>5, <1>6, OnlyCalm
<1> QED BY <1>1, <1>4, <1>7, CalmSame, CalmTrans

LEMMA StopCalm ==
  ASSUME NEW w, NEW d \in Device, Shape(w)
  PROVE  Calm(w, stop(w, d), d)
<1> DEFINE v == stop(w, d)
<1>1. Shape(v) BY StopKeeps DEF Keeps
<1>2. v.net = w.net /\ \A e \in Device : e # d => v.dev[e] = w.dev[e] BY DEF stop, Shape
<1>3. SameGuide(w, v, d) BY DEF stop, SameGuide, Shape, DeviceFields
<1> HIDE DEF v
<1>4. Calm(w, v, d) BY <1>1, <1>2, <1>3 DEF Calm
<1> QED BY <1>4 DEF v

LEMMA FinishCalm ==
  ASSUME NEW w, NEW d \in Device, NEW success, Shape(w)
  PROVE  Calm(w, finish(w, d, success), d)
<1> DEFINE id == w.dev[d].current
           v == [w EXCEPT !.dev[d].current = Nothing]
           a == [v EXCEPT !.dev[d].retry = @ \ {id}]
           b == [v EXCEPT !.dev[d].retry = @ \union {id}]
           c == cancel(b, d)
<1>1. finish(w, d, success) \in {w, complete(a, d), cancelPairing(c, d)} BY DEF finish
<1>2. Only(w, a, d, {}) /\ Only(w, b, d, {}) BY DEF Only, Shape, DeviceFields, Links
<1>3. SameGuide(w, a, d) /\ SameGuide(w, b, d) BY DEF SameGuide, Shape, DeviceFields
<1> HIDE DEF a, b
<1>4. Calm(w, a, d) /\ Calm(w, b, d) BY <1>2, <1>3, OnlyCalm
<1>5. Calm(a, complete(a, d), d) /\ Calm(b, c, d) BY <1>4, CompleteCalm, CancelCalm DEF Calm
<1> HIDE DEF c
<1>6. Calm(c, cancelPairing(c, d), d) BY <1>5, CancelPairingCalm DEF Calm
<1>7. Calm(w, complete(a, d), d) BY <1>4, <1>5, CalmTrans
<1>8. Calm(w, c, d) BY <1>4, <1>5, CalmTrans
<1>9. Calm(w, cancelPairing(c, d), d) BY <1>6, <1>8, CalmTrans
<1> QED BY <1>1, <1>7, <1>9, CalmSame

LEMMA OnlyGuided ==
  ASSUME NEW X, NEW w, NEW v, NEW d \in Device, Guided(w), Only(w, v, d, X), Guide(v.dev[d], d)
  PROVE  Guided(v)
<1>1. Shape(v) BY OnlyKeeps DEF Keeps, Guided
<1>2. \A e \in Device : Guide(v.dev[e], e) BY DEF Guided, Only
<1>3. \A m \in v.net : m.op \in Resumes => Honest(m.record, m.from) BY DEF Guided, Only
<1> QED BY <1>1, <1>2, <1>3 DEF Guided

LEMMA ResetGuided ==
  ASSUME NEW w, NEW d \in Device, Guided(w)
  PROVE  Guided(reset(w, d))
<1> DEFINE v == [w EXCEPT !.dev[d].owns = FALSE, !.dev[d].current = Nothing, !.dev[d].leader = Nothing,
                          !.dev[d].retry = {}]
           c == cancel(v, d)
<1>1. Shape(w) /\ Guide(w.dev[d], d) BY DEF Guided
<1>2. reset(w, d) \in {v, stop(c, d)} BY DEF reset
<1>3. Only(w, v, d, {}) BY <1>1 DEF Only, Shape, DeviceFields, Links
<1>4. /\ v.dev[d].owns = FALSE /\ v.dev[d].leader = Nothing /\ v.dev[d].primary = w.dev[d].primary
      /\ v.dev[d].host = w.dev[d].host /\ v.dev[d].ep = w.dev[d].ep
  BY <1>1 DEF Shape, DeviceFields
<1> HIDE DEF v
<1>5. Guide(v.dev[d], d) BY <1>1, <1>4 DEF Guide
<1>6. Guided(v) BY <1>3, <1>5, OnlyGuided
<1>7. Calm(v, c, d) BY <1>6, CancelCalm DEF Guided
<1> HIDE DEF c
<1>8. Guided(c) BY <1>6, <1>7, CalmGuided
<1>9. Calm(c, stop(c, d), d) BY <1>8, StopCalm DEF Guided
<1>10. Guided(stop(c, d)) BY <1>8, <1>9, CalmGuided
<1> QED BY <1>2, <1>6, <1>10

LEMMA FinishGuided ==
  ASSUME NEW w, NEW d \in Device, NEW success, Guided(w)
  PROVE  Guided(finish(w, d, success))
<1>1. Calm(w, finish(w, d, success), d) BY FinishCalm DEF Guided
<1> QED BY <1>1, CalmGuided

LEMMA FoundGuided ==
  ASSUME NEW w, NEW d \in Device, NEW e \in Device, NEW r, NEW fresh, Guided(w), Honest(r, e)
  PROVE  Guided(found(w, d, e, r, fresh))
<1> DEFINE old == w.dev[d].ep[e]
           restarted == old # Nothing /\ w.dev[d].auth /\ r.proof /\ old.nonce # r.nonce
           retired == (IF fresh THEN w.dev[d].retired \ {<<e, r.nonce>>} ELSE w.dev[d].retired)
                      \union (IF fresh /\ restarted THEN {<<e, old.nonce>>} ELSE {})
           v == [w EXCEPT !.dev[d].ep[e] = r, !.dev[d].retired = retired]
           c == cancel(v, d)
<1>1. found(w, d, e, r, fresh) \in {w, v, finish(c, d, FALSE)} BY DEF found
<1> HIDE DEF retired
<1>2. Shape(w) /\ Guide(w.dev[d], d) BY DEF Guided
<1>3. Only(w, v, d, {}) BY <1>2 DEF Only, Shape, DeviceFields, Links
<1>4. /\ v.dev[d].owns = w.dev[d].owns /\ v.dev[d].leader = w.dev[d].leader
      /\ v.dev[d].primary = w.dev[d].primary /\ v.dev[d].host = w.dev[d].host
      /\ v.dev[d].ep = [w.dev[d].ep EXCEPT ![e] = r]
  BY <1>2 DEF Shape, DeviceFields
<1> HIDE DEF v
<1>5. Guide(v.dev[d], d) BY <1>2, <1>4 DEF Guide
<1>6. Guided(v) BY <1>3, <1>5, OnlyGuided
<1>7. Calm(v, c, d) BY <1>6, CancelCalm DEF Guided
<1> HIDE DEF c
<1>8. Guided(c) BY <1>6, <1>7, CalmGuided
<1>9. Guided(finish(c, d, FALSE)) BY <1>8, FinishGuided
<1> QED BY <1>1, <1>6, <1>9

LEMMA RecordHonest ==
  ASSUME NEW w, NEW e \in Device, Guided(w)
  PROVE  Honest(record(w, e), e)
BY DEF Guided, Guide, Honest, record

LEMMA AnsweredGuided ==
  ASSUME NEW w, NEW d \in Device, NEW m, Guided(w), m.op \in {"verify", "accept", "decline"}
  PROVE  Guided(answered(w, d, m))
<1> DEFINE a == [w EXCEPT !.dev[d].code = m.code]
           b == [w EXCEPT !.dev[d].quiet = TRUE]
           v == [w EXCEPT !.dev[d].outgoing = Nothing]
<1>1. answered(w, d, m) \in {w, a, b, finish(v, d, FALSE)} BY DEF answered
<1>2. Shape(w) BY DEF Guided
<1>3. Only(w, a, d, {}) /\ Only(w, b, d, {}) /\ Only(w, v, d, {})
  BY <1>2 DEF Only, Shape, DeviceFields, Links
<1>4. SameGuide(w, a, d) /\ SameGuide(w, b, d) /\ SameGuide(w, v, d)
  BY <1>2 DEF SameGuide, Shape, DeviceFields
<1> HIDE DEF a, b, v
<1>5. Guided(a) /\ Guided(b) /\ Guided(v) BY <1>2, <1>3, <1>4, OnlyCalm, CalmGuided
<1> QED BY <1>1, <1>5, FinishGuided

LEMMA ResumedGuided ==
  ASSUME NEW w, NEW d \in Device, NEW m, Guided(w), Posted(m), Honest(m.record, m.from)
  PROVE  Guided(resumed(w, d, m))
<1> DEFINE ready == [op |-> "resume-ready", from |-> d, to |-> m.from, request |-> m.request,
                     record |-> record(w, d), proof |-> w.dev[d].auth]
           a == [w EXCEPT !.dev[d].seen = @ \union {m.request}]
           s == send(a, ready)
           b == [w EXCEPT !.dev[d].resume = Nothing]
           e == m.from
           r == m.record
<1>1. resumed(w, d, m) \in {w, found(s, d, e, r, TRUE), found(b, d, e, r, TRUE)} BY DEF resumed
<1>2. Shape(w) BY DEF Guided
<1>3. Only(w, a, d, {}) /\ Only(w, b, d, {}) BY <1>2 DEF Only, Shape, DeviceFields, Links
<1>4. SameGuide(w, a, d) /\ SameGuide(w, b, d) BY <1>2 DEF SameGuide, Shape, DeviceFields
<1>5. ready.op = "resume-ready" /\ Posted(ready) /\ ready.record = record(w, d) /\ ready.from = d
  BY DEF Posted, Ops
<1>6. e \in Device BY DEF Posted
<1> HIDE DEF a, b, ready, e, r
<1>7. Guided(a) /\ Guided(b) BY <1>2, <1>3, <1>4, OnlyCalm, CalmGuided
<1>8. Shape(a) BY <1>7 DEF Guided
<1>9. Shape(s) BY <1>5, <1>8, SendKeeps DEF Keeps
<1>10. s.dev = a.dev /\ s.net = a.net \union {ready} BY <1>8 DEF send, Shape
<1> HIDE DEF s
<1>11. Honest(ready.record, ready.from) BY <1>5, RecordHonest
<1>12. Guided(s) BY <1>7, <1>9, <1>10, <1>11 DEF Guided
<1>13. Honest(r, e) BY DEF r, e
<1> QED BY <1>1, <1>6, <1>7, <1>12, <1>13, FoundGuided

LEMMA ReceivedGuided ==
  ASSUME NEW w, NEW m, Guided(w), m \in w.net
  PROVE  Guided(received(w, m))
<1> DEFINE d == m.to
<1>1. Shape(w) /\ Posted(m) /\ d \in Device /\ m.op \in Ops BY DEF Guided, Shape, Posted
<1>2. CASE m.op = "invite"
  <2> DEFINE v == [w EXCEPT !.dev[d].incoming = m, !.dev[d].seen = @ \union {m.request}]
  <2>1. received(w, m) \in {w, v} BY <1>2 DEF received
  <2>2. Only(w, v, d, {}) BY <1>1 DEF Only, Shape, DeviceFields, Links, Posted
  <2>3. SameGuide(w, v, d) BY <1>1 DEF SameGuide, Shape, DeviceFields
  <2> HIDE DEF v, d
  <2>4. Guided(v) BY <1>1, <2>2, <2>3, OnlyCalm, CalmGuided
  <2> QED BY <2>1, <2>4
<1>3. CASE m.op \in {"verify", "accept", "decline"}
  <2>1. received(w, m) = answered(w, d, m) BY <1>3 DEF received
  <2> QED BY <1>1, <1>3, <2>1, AnsweredGuided
<1>4. CASE m.op = "cancel"
  <2> DEFINE v == [w EXCEPT !.dev[d].incoming = Nothing]
  <2>1. received(w, m) \in {w, v} BY <1>4 DEF received, cancelled
  <2>2. Only(w, v, d, {}) BY <1>1 DEF Only, Shape, DeviceFields, Links
  <2>3. SameGuide(w, v, d) BY <1>1 DEF SameGuide, Shape, DeviceFields
  <2> HIDE DEF v, d
  <2>4. Guided(v) BY <1>1, <2>2, <2>3, OnlyCalm, CalmGuided
  <2> QED BY <2>1, <2>4
<1>5. CASE m.op \in {"resume", "resume-ready"}
  <2>1. received(w, m) = resumed(w, d, m) BY <1>5 DEF received
  <2>2. Honest(m.record, m.from) BY <1>5 DEF Guided, Resumes
  <2> QED BY <1>1, <2>1, <2>2, ResumedGuided
<1> QED BY <1>1, <1>2, <1>3, <1>4, <1>5 DEF Ops

(* pump. *)
LEMMA LeaderIn ==
  ASSUME NEW w, NEW d \in Device, Guided(w)
  PROVE  leader(w, d) \in Desktop \union {Nothing}
<1> DEFINE x == w.dev[d]
           hosts == {e \in devices(w, d) : x.ep[e].host} \union (IF x.host THEN {d} ELSE {})
           established == {x.ep[e].primary : e \in devices(w, d)} \ {Nothing}
<1>1. leader(w, d) \in {x.primary, x.leader, First(established), First(hosts)} BY DEF leader
<1>2. Guide(x, d) BY DEF Guided
<1>3. devices(w, d) \subseteq {e \in Device : x.ep[e] # Nothing} BY DEF devices, verified, known
<1>4. hosts \subseteq Desktop /\ established \subseteq Desktop BY <1>2, <1>3 DEF Guide, Honest
<1> HIDE DEF hosts, established
<1>5. ASSUME NEW S, S \subseteq Desktop PROVE First(S) \in Desktop \union {Nothing}
  <2>1. CASE S = {} BY <2>1 DEF First
  <2>2. CASE S # {} BY <1>5, <2>2, FirstIn, DeviceAssumption
  <2> QED BY <2>1, <2>2
<1>6. First(established) \in Desktop \union {Nothing} /\ First(hosts) \in Desktop \union {Nothing} BY <1>4, <1>5
<1> QED BY <1>1, <1>2, <1>6 DEF Guide

LEMMA LedGuided ==
  ASSUME NEW w, NEW d \in Device, Guided(w)
  PROVE  Guided(led(w, d))
<1> DEFINE l == leader(w, d)
           v == finish(w, d, FALSE)
           u == IF v.dev[d].owns THEN stop(v, d) ELSE v
           x == [u EXCEPT !.dev[d].owns = FALSE, !.dev[d].leader = l]
<1>1. led(w, d) \in {w, x} BY DEF led
<1>2. Guided(v) BY FinishGuided
<1>3. l \in Desktop \union {Nothing} BY LeaderIn
<1> HIDE DEF v, l
<1>4. Guided(u)
  <2>1. Calm(v, stop(v, d), d) BY <1>2, StopCalm DEF Guided
  <2> QED BY <1>2, <2>1, CalmGuided
<1> HIDE DEF u
<1>5. Shape(u) /\ Guide(u.dev[d], d) BY <1>4 DEF Guided
<1>6. Only(u, x, d, {}) BY <1>5 DEF Only, Shape, DeviceFields, Links
<1>7. /\ x.dev[d].owns = FALSE /\ x.dev[d].leader = l /\ x.dev[d].primary = u.dev[d].primary
      /\ x.dev[d].host = u.dev[d].host /\ x.dev[d].ep = u.dev[d].ep
  BY <1>5 DEF Shape, DeviceFields
<1> HIDE DEF x
<1>8. Guide(x.dev[d], d) BY <1>3, <1>5, <1>7 DEF Guide
<1>9. Guided(x) BY <1>4, <1>6, <1>8, OnlyGuided
<1> QED BY <1>1, <1>9

LEMMA AttemptCalm ==
  ASSUME NEW w, NEW d \in Device, NEW late, Shape(w)
  PROVE  Calm(w, attempt(w, d, late), d)
<1> DEFINE x == w.dev[d]
           m == [op |-> "verify", from |-> d, to |-> x.accepted.from, request |-> x.accepted.request,
                 nonce |-> x.accepted.senderNonce, senderNonce |-> x.nonce, proof |-> TRUE, code |-> x.session]
           p == [w EXCEPT !.tls[x.session].stage = "paired"]
<1>1. \/ attempt(w, d, late) \in {w, finish(w, d, FALSE), finish(p, d, TRUE)}
      \/ x.accepted # Nothing /\ attempt(w, d, late) = send(w, m)
  BY DEF attempt
<1>2. Shape(p) /\ p.dev = w.dev /\ p.net = w.net BY ClosedKeeps DEF Keeps, Shape
<1>3. x.accepted # Nothing => m.op \notin Resumes /\ Posted(m) BY DEF Shape, Links, Posted, Ops, Resumes
<1> HIDE DEF p, m
<1>4. Calm(w, p, d) BY <1>2, LinkCalm
<1>5. Calm(p, finish(p, d, TRUE), d) BY <1>2, FinishCalm
<1>6. Calm(w, finish(p, d, TRUE), d) BY <1>4, <1>5, CalmTrans
<1>7. x.accepted # Nothing => Calm(w, send(w, m), d) BY <1>3, SendCalm
<1> QED BY <1>1, <1>6, <1>7, FinishCalm, CalmSame

LEMMA AcceptGuided ==
  ASSUME NEW w, NEW d \in Device, NEW fails, Guided(w), w.dev[d].incoming # Nothing,
         w.dev[d].incoming.from = w.dev[d].leader
  PROVE  Guided(accept(w, d, fails)) /\ accept(w, d, fails).dev[d].leader = w.dev[d].leader
<1> DEFINE i == w.dev[d].incoming
           v == [w EXCEPT !.dev[d].current = w.dev[d].leader, !.dev[d].owns = TRUE]
           m == reply(v, d, i, "accept")
           s == send(v, m)
           a == [s EXCEPT !.dev[d].accepted = i, !.dev[d].incoming = Nothing]
           x == [a EXCEPT !.dev[d].session = i.request]
           y == decline(v, d)
<1>1. accept(w, d, fails) \in {finish(y, d, FALSE), finish(a, d, FALSE), x} BY DEF accept
<1>2. Shape(w) /\ Guide(w.dev[d], d) BY DEF Guided
<1>3. Only(w, v, d, {}) BY <1>2 DEF Only, Shape, DeviceFields, Links
<1>4. i.from \in Device /\ w.dev[d].leader # Nothing BY <1>2, DeviceAssumption DEF Shape, Links
<1>5. m.op \notin Resumes /\ Posted(m) BY <1>4 DEF reply, Posted, Ops, Resumes
<1>6. /\ v.dev[d].owns = TRUE /\ v.dev[d].leader = w.dev[d].leader /\ v.dev[d].primary = w.dev[d].primary
      /\ v.dev[d].host = w.dev[d].host /\ v.dev[d].ep = w.dev[d].ep
  BY <1>2 DEF Shape, DeviceFields
<1> HIDE DEF i, v, m
<1>7. Guide(v.dev[d], d) BY <1>2, <1>4, <1>6 DEF Guide
<1>8. Guided(v) BY <1>3, <1>7, OnlyGuided
<1>9. Shape(v) BY <1>8 DEF Guided
<1>10. Calm(v, s, d) BY <1>5, <1>9, SendCalm
<1> HIDE DEF s
<1>11. Shape(s) BY <1>10 DEF Calm
<1>12. Only(s, a, d, {}) BY <1>4, <1>11 DEF Only, Shape, DeviceFields, Links
<1>13. SameGuide(s, a, d) BY <1>11 DEF SameGuide, Shape, DeviceFields
<1> HIDE DEF a
<1>14. Calm(s, a, d) BY <1>11, <1>12, <1>13, OnlyCalm
<1>15. Calm(v, x, d) /\ Calm(v, finish(a, d, FALSE), d)
  <2>1. Shape(a) BY <1>14 DEF Calm
  <2>2. Only(a, x, d, {}) BY <2>1 DEF Only, Shape, DeviceFields, Links
  <2>3. SameGuide(a, x, d) BY <2>1 DEF SameGuide, Shape, DeviceFields
  <2> HIDE DEF x
  <2>4. Calm(a, x, d) /\ Calm(a, finish(a, d, FALSE), d) BY <2>1, <2>2, <2>3, OnlyCalm, FinishCalm
  <2>5. Calm(v, a, d) BY <1>10, <1>14, CalmTrans
  <2> QED BY <2>4, <2>5, CalmTrans
<1>16. Calm(v, y, d) BY <1>9, DeclineCalm
<1> HIDE DEF y
<1>17. Calm(y, finish(y, d, FALSE), d) BY <1>16, FinishCalm DEF Calm
<1>18. Calm(v, finish(y, d, FALSE), d) BY <1>16, <1>17, CalmTrans
<1>19. Calm(v, accept(w, d, fails), d) BY <1>1, <1>15, <1>18
<1> QED BY <1>6, <1>8, <1>19, CalmGuided DEF Calm, SameGuide

LEMMA InviteFailsGuided ==
  ASSUME NEW w, NEW d \in Device, NEW e \in Device, Guided(w), w.dev[d].leader = d
  PROVE  Guided(invite(w, d, e, TRUE)) /\ invite(w, d, e, TRUE).dev[d].leader = d
<1> DEFINE v == [w EXCEPT !.dev[d].current = e, !.dev[d].owns = TRUE]
<1>1. invite(w, d, e, TRUE) = finish(v, d, FALSE) BY DEF invite
<1>2. Shape(w) /\ Guide(w.dev[d], d) BY DEF Guided
<1>3. Only(w, v, d, {}) BY <1>2 DEF Only, Shape, DeviceFields, Links
<1>4. /\ v.dev[d].owns = TRUE /\ v.dev[d].leader = d /\ v.dev[d].primary = w.dev[d].primary
      /\ v.dev[d].host = w.dev[d].host /\ v.dev[d].ep = w.dev[d].ep
  BY <1>2 DEF Shape, DeviceFields
<1>5. d # Nothing BY DeviceAssumption
<1> HIDE DEF v
<1>6. Guide(v.dev[d], d) BY <1>2, <1>4, <1>5 DEF Guide
<1>7. Guided(v) BY <1>3, <1>6, OnlyGuided
<1>8. Calm(v, finish(v, d, FALSE), d) BY <1>7, FinishCalm DEF Guided
<1> QED BY <1>1, <1>4, <1>7, <1>8, CalmGuided DEF Calm, SameGuide

LEMMA InviteGuided ==
  ASSUME NEW w, NEW d \in Device, NEW e \in Device, Guided(w), w.dev[d].leader = d
  PROVE  Guided(invite(w, d, e, FALSE)) /\ invite(w, d, e, FALSE).dev[d].leader = d
<1> DEFINE r == Len(w.tls) + 1
           o == [op |-> "invite", from |-> d, to |-> e, request |-> r, nonce |-> w.dev[d].ep[e].nonce,
                 senderNonce |-> w.dev[d].nonce, proof |-> TRUE]
           u == cancel(w, d)
           k == [host |-> d, client |-> e, stage |-> "offered"]
           x == [u EXCEPT !.tls = Append(@, [host |-> d, client |-> e, stage |-> "offered"]),
                    !.dev[d].current = e, !.dev[d].owns = TRUE, !.dev[d].session = r,
                    !.dev[d].outgoing = o, !.dev[d].quiet = FALSE]
           v == send(x, o)
<1>1. invite(w, d, e, FALSE) = v BY DEF invite
<1>2. Shape(w) BY DEF Guided
<1>3. Calm(w, u, d) BY <1>2, CancelCalm
<1>4. Guided(u) /\ u.dev[d].leader = d BY <1>3, CalmGuided DEF Calm, SameGuide
<1>5. Shape(v)
  <2> HIDE DEF v
  <2>1. Invited(w, v, {}) BY <1>1, <1>2, InviteOffers
  <2> QED BY <2>1 DEF Invited
<1>6. o.op \notin Resumes BY DEF Resumes
<1> HIDE DEF u, o
<1>7. Shape(u) /\ Guide(u.dev[d], d) BY <1>4 DEF Guided
<1>8. DOMAIN u = {"dev", "net", "tls"} /\ DOMAIN u.dev = Device /\ DOMAIN u.dev[d] = DeviceFields
  BY <1>7 DEF Shape
<1>9. \A b \in Device : b # d => x.dev[b] = u.dev[b] BY <1>8
<1>10. x.dev[d].owns = TRUE /\ x.dev[d].leader = u.dev[d].leader BY <1>8 DEF DeviceFields
<1>11. x.dev[d].primary = u.dev[d].primary /\ x.dev[d].host = u.dev[d].host BY <1>8 DEF DeviceFields
<1>12. x.dev[d].ep = u.dev[d].ep BY <1>8 DEF DeviceFields
<1>13. v.dev = x.dev /\ v.net = u.net \union {o}
  <2>1. DOMAIN x = {"dev", "net", "tls"} /\ x.net = u.net BY <1>8
  <2> HIDE DEF x
  <2> QED BY <2>1 DEF send
<1> HIDE DEF x, v
<1>14. d # Nothing BY DeviceAssumption
<1>15. Guide(v.dev[d], d) BY <1>4, <1>7, <1>10, <1>11, <1>12, <1>13, <1>14 DEF Guide
<1>16. \A b \in Device : Guide(v.dev[b], b) BY <1>4, <1>9, <1>13, <1>15 DEF Guided
<1>17. \A m \in v.net : m.op \in Resumes => Honest(m.record, m.from) BY <1>4, <1>6, <1>13 DEF Guided
<1>18. Guided(v) BY <1>5, <1>16, <1>17 DEF Guided
<1> QED BY <1>1, <1>4, <1>10, <1>13, <1>18

LEMMA PumpedGuided ==
  ASSUME NEW w, NEW d \in Device, NEW late \in BOOLEAN, Guided(w)
  PROVE  Guided(pumped(w, d, late)) /\ pumped(w, d, late).dev[d].leader = w.dev[d].leader
<1> DEFINE free == {e \in queue(w, d) : e \notin w.dev[d].retry}
           p == pumped(w, d, late)
<1>1. \/ p \in {w, attempt(w, d, late), decline(w, d)}
      \/ /\ w.dev[d].incoming # Nothing /\ w.dev[d].incoming.from = w.dev[d].leader
         /\ p = accept(w, d, late)
      \/ free # {} /\ w.dev[d].leader = d /\ p = invite(w, d, First(free), late)
  BY DEF pumped
<1>2. free \subseteq Device BY DEF queue, devices
<1> HIDE DEF free, p
<1>3. CASE p \in {w, attempt(w, d, late), decline(w, d)}
  <2>1. Calm(w, w, d) /\ Calm(w, attempt(w, d, late), d) /\ Calm(w, decline(w, d), d)
    BY CalmSame, AttemptCalm, DeclineCalm DEF Guided
  <2>2. Calm(w, p, d) BY <1>3, <2>1
  <2>3. Guided(p) BY <2>2, CalmGuided
  <2>4. p.dev[d].leader = w.dev[d].leader BY <2>2 DEF Calm, SameGuide
  <2> QED BY <2>3, <2>4 DEF p
<1>4. CASE /\ w.dev[d].incoming # Nothing /\ w.dev[d].incoming.from = w.dev[d].leader
           /\ p = accept(w, d, late)
  <2>1. Guided(p) /\ p.dev[d].leader = w.dev[d].leader BY <1>4, AcceptGuided
  <2> QED BY <2>1 DEF p
<1>5. CASE free # {} /\ w.dev[d].leader = d /\ p = invite(w, d, First(free), late)
  <2>1. First(free) \in Device BY <1>2, <1>5, FirstIn
  <2>2. Guided(p) /\ p.dev[d].leader = w.dev[d].leader
    <3>1. CASE late = TRUE BY <1>5, <2>1, <3>1, InviteFailsGuided
    <3>2. CASE late = FALSE BY <1>5, <2>1, <3>2, InviteGuided
    <3> QED BY <3>1, <3>2
  <2> QED BY <2>2 DEF p
<1> QED BY <1>1, <1>3, <1>4, <1>5

(* The steps. *)
LEMMA GuidedReached ==
  ASSUME NEW v, Become(v), Guided(v)
  PROVE  Guided(World')
<1> DEFINE n == [dev |-> dev', net |-> net', tls |-> tls']
<1>1. DOMAIN n = {"dev", "net", "tls"} /\ n.dev = v.dev /\ n.net = v.net /\ n.tls = v.tls BY DEF Become
<1>2. World' = n BY DEF World
<1> HIDE DEF n
<1>3. Shape(n) BY <1>1 DEF Shape, Guided
<1>4. Guided(n) BY <1>1, <1>3 DEF Guided
<1> QED BY <1>2, <1>4

LEMMA GuidedInitially ==
  ASSUME PairingInit
  PROVE  Guided(World)
<1>1. PICK p \in Desktop : dev = [d \in Device |-> [Fresh(1) EXCEPT !.host = d \in Desktop, !.primary = p]]
  BY DEF PairingInit
<1>2. World.dev = dev /\ World.net = {} BY DEF World, PairingInit
<1>3. \A d \in Device : /\ dev[d].owns = FALSE /\ dev[d].leader = Nothing /\ dev[d].primary = p
                        /\ dev[d].host = (d \in Desktop) /\ dev[d].ep = [e \in Device |-> Nothing]
  BY <1>1 DEF Fresh
<1>4. \A d \in Device : Guide(dev[d], d) BY <1>3 DEF Guide
<1>5. Shape(World) BY PairInitially DEF PairInv, Inv
<1> QED BY <1>2, <1>4, <1>5 DEF Guided

LEMMA FoundGuidedStep ==
  ASSUME Guided(World), NEW d \in Device, NEW e \in Device, Found(d, e)
  PROVE  Guided(World')
<1>1. Shape(World) /\ World.dev = dev /\ Guide(World.dev[d], d) BY DEF Guided, World
<1> DEFINE a == record(World, e)
           b == [record(World, e) EXCEPT !.nonce = @ - 1]
           x == [World EXCEPT !.dev[d].ep[e] = Nothing]
<1>2. \/ Become(found(World, d, e, a, FALSE)) \/ Become(found(World, d, e, b, FALSE))
      \/ dev' = [dev EXCEPT ![d].ep[e] = Nothing] /\ net' = net /\ tls' = tls
  BY DEF Found
<1>3. Honest(a, e) BY RecordHonest
<1>4. b.host = a.host /\ b.primary = a.primary BY DEF record
<1> HIDE DEF a, b
<1>5. Honest(b, e) BY <1>3, <1>4 DEF Honest
<1>6. CASE dev' = [dev EXCEPT ![d].ep[e] = Nothing] /\ net' = net /\ tls' = tls
  <2>1. Become(x) BY <1>6 DEF Become, World
  <2>2. Only(World, x, d, {}) BY <1>1 DEF Only, Shape, DeviceFields, Links
  <2>3. /\ x.dev[d].owns = World.dev[d].owns /\ x.dev[d].leader = World.dev[d].leader
        /\ x.dev[d].primary = World.dev[d].primary /\ x.dev[d].host = World.dev[d].host
        /\ x.dev[d].ep = [World.dev[d].ep EXCEPT ![e] = Nothing]
    BY <1>1 DEF Shape, DeviceFields
  <2> HIDE DEF x
  <2>4. Guide(x.dev[d], d) BY <1>1, <2>3 DEF Guide
  <2>5. Guided(x) BY <2>2, <2>4, OnlyGuided
  <2> QED BY <2>1, <2>5, GuidedReached
<1>7. Guided(found(World, d, e, a, FALSE)) /\ Guided(found(World, d, e, b, FALSE)) BY <1>3, <1>5, FoundGuided
<1> QED BY <1>2, <1>6, <1>7, GuidedReached

LEMMA SendResumeGuided ==
  ASSUME Guided(World), NEW d \in Device, sendResume(d)
  PROVE  Guided(World')
<1>1. Shape(World) /\ World.dev = dev BY DEF Guided, World
<1> DEFINE y == -changes'
           u == [World EXCEPT !.dev[d].resume = y]
           m == [op |-> "resume", from |-> d, to |-> dev[d].primary, request |-> y,
                 record |-> record(World, d), proof |-> TRUE]
<1>2. Become(send(u, m)) /\ dev[d].primary # Nothing BY DEF sendResume
<1> HIDE DEF y
<1>3. Only(World, u, d, {}) BY <1>1 DEF Only, Shape, DeviceFields, Links
<1>4. SameGuide(World, u, d) BY <1>1 DEF SameGuide, Shape, DeviceFields
<1>5. m.op # "invite" /\ Posted(m) /\ m.record = record(World, d) /\ m.from = d
  BY <1>1, <1>2 DEF Posted, Ops, Shape, Links
<1> HIDE DEF u, m
<1>6. Guided(u) BY <1>1, <1>3, <1>4, OnlyCalm, CalmGuided
<1>7. Shape(u) BY <1>6 DEF Guided
<1>8. Shape(send(u, m)) BY <1>5, <1>7, SendKeeps DEF Keeps
<1>9. Honest(m.record, m.from) BY <1>5, RecordHonest
<1>10. send(u, m).dev = u.dev /\ send(u, m).net = u.net \union {m} BY <1>7 DEF send, Shape
<1>11. Guided(send(u, m)) BY <1>6, <1>8, <1>9, <1>10 DEF Guided
<1> QED BY <1>2, <1>11, GuidedReached

LEMMA RestartGuided ==
  ASSUME Guided(World), NEW d \in Device, Restart(d)
  PROVE  Guided(World')
<1>1. Shape(World) /\ World.dev = dev /\ Guide(dev[d], d) BY DEF Guided, World
<1>2. PICK w \in {cancel(reset(World, d), d), World} :
        Become([stop(w, d) EXCEPT !.dev[d] = [Fresh(dev[d].nonce + 1) EXCEPT !.host = d \in Desktop,
                                                                            !.primary = dev[d].primary]])
  BY DEF Restart
<1>3. Guided(w)
  <2>1. Guided(reset(World, d)) BY ResetGuided
  <2>2. Guided(cancel(reset(World, d), d)) BY <2>1, CancelCalm, CalmGuided DEF Guided
  <2> QED BY <1>2, <2>2
<1> DEFINE s == stop(w, d)
           h == d \in Desktop
           p == dev[d].primary
           n == dev[d].nonce + 1
           x == [Fresh(n) EXCEPT !.host = h, !.primary = p]
           v == [s EXCEPT !.dev[d] = x]
<1>4. Become(v) BY <1>2
<1>5. Guided(s) BY <1>3, StopCalm, CalmGuided DEF Guided
<1>6. n \in Nat /\ p \in Device \union {Nothing} /\ p \in Desktop \union {Nothing}
  BY <1>1 DEF Shape, Links, Guide
<1>7. h => d \in Desktop OBVIOUS
<1> HIDE DEF s, n, h, p
<1>8. /\ DOMAIN x = DeviceFields /\ x.nonce = n /\ x.outgoing = Nothing /\ x.incoming = Nothing
      /\ x.accepted = Nothing /\ x.primary = p
  BY DEF Fresh, DeviceFields
<1>9. x.host = h /\ x.leader = Nothing /\ x.owns = FALSE /\ x.ep = [e \in Device |-> Nothing] BY DEF Fresh
<1> HIDE DEF x
<1>10. Shape(s) BY <1>5 DEF Guided
<1>11. /\ DOMAIN v = {"dev", "net", "tls"} /\ v.net = s.net /\ v.tls = s.tls /\ DOMAIN v.dev = Device
       /\ v.dev[d] = x /\ \A e \in Device : e # d => v.dev[e] = s.dev[e]
  BY <1>10 DEF Shape
<1> HIDE DEF v
<1>12. Links(x) BY <1>6, <1>8 DEF Links
<1>13. Shape(v) BY <1>6, <1>8, <1>10, <1>11, <1>12 DEF Shape
<1>14. Guide(x, d) BY <1>6, <1>7, <1>8, <1>9 DEF Guide
<1>15. Guided(v) BY <1>5, <1>11, <1>13, <1>14 DEF Guided
<1> QED BY <1>4, <1>15, GuidedReached

LEMMA SetCredentialsGuided ==
  ASSUME Guided(World), NEW d \in Device, setCredentials(d)
  PROVE  Guided(World')
<1>1. Shape(World) /\ World.dev = dev /\ Guide(World.dev[d], d) BY DEF Guided, World
<1>2. PICK auth \in BOOLEAN, host \in {FALSE, (d \in Desktop)}, chosen \in {Nothing} \union Desktop :
        /\ <<auth, host, chosen>> # <<dev[d].auth, dev[d].host, dev[d].primary>>
        /\ LET w == [World EXCEPT !.dev[d].auth = auth, !.dev[d].host = host, !.dev[d].primary = chosen]
           IN Become(IF dev[d].auth /\ ~auth THEN reset(w, d) ELSE w)
  BY DEF setCredentials
<1> DEFINE w == [World EXCEPT !.dev[d].auth = auth, !.dev[d].host = host, !.dev[d].primary = chosen]
<1>3. chosen \in Device \union {Nothing} BY DeviceAssumption
<1>4. Only(World, w, d, {}) BY <1>1, <1>3 DEF Only, Shape, DeviceFields, Links
<1>5. /\ w.dev[d].owns = World.dev[d].owns /\ w.dev[d].leader = World.dev[d].leader
      /\ w.dev[d].primary = chosen /\ w.dev[d].host = host /\ w.dev[d].ep = World.dev[d].ep
  BY <1>1 DEF Shape, DeviceFields
<1>6. Become(w) \/ Become(reset(w, d)) BY <1>2
<1> HIDE DEF w
<1>7. host => d \in Desktop OBVIOUS
<1>8. Guide(w.dev[d], d) BY <1>1, <1>5, <1>7 DEF Guide
<1>9. Guided(w) BY <1>4, <1>8, OnlyGuided
<1>10. Guided(reset(w, d)) BY <1>9, ResetGuided
<1> QED BY <1>6, <1>9, <1>10, GuidedReached

LEMMA TickGuided ==
  ASSUME Guided(World), NEW d \in Device, tick(d)
  PROVE  Guided(World')
<1>1. Shape(World) /\ World.dev = dev BY DEF Guided, World
<1> DEFINE x == dev[d]
           i == IF x.incoming # Nothing /\ x.incoming.request \in expired THEN Nothing ELSE x.incoming
           o == x.outgoing
<1>2. PICK seen \in SUBSET x.seen, gone \in SUBSET x.retired : Spoken(d, Ticked(d, seen, gone)) BY <1>1, TickSplit
<1> DEFINE w == Ticked(d, seen, gone)
           u == [w EXCEPT !.dev[d].outgoing = Nothing]
<1>3. Become(finish(u, d, FALSE)) \/ (o # Nothing /\ Become(send(w, o))) \/ Become(w) BY <1>2 DEF Spoken
<1>4. i \in {Nothing, x.incoming} OBVIOUS
<1>5. w = [World EXCEPT !.dev[d].seen = seen, !.dev[d].retired = @ \ gone, !.dev[d].incoming = i] BY DEF Ticked
<1> HIDE DEF i
<1>6. Only(World, w, d, x.seen) /\ SameGuide(World, w, d)
  <2>1. Only(World, w, d, x.seen) BY <1>1, <1>4, <1>5 DEF Only, Shape, DeviceFields, Links
  <2>2. SameGuide(World, w, d) BY <1>1, <1>4, <1>5 DEF SameGuide, Shape, DeviceFields
  <2> QED BY <2>1, <2>2
<1> HIDE DEF w
<1>7. Guided(w) BY <1>1, <1>6, OnlyCalm, CalmGuided
<1>8. Shape(w) BY <1>7 DEF Guided
<1>9. Only(w, u, d, {}) BY <1>8 DEF Only, Shape, DeviceFields, Links
<1>10. SameGuide(w, u, d) BY <1>8 DEF SameGuide, Shape, DeviceFields
<1> HIDE DEF u
<1>11. Guided(u) BY <1>7, <1>8, <1>9, <1>10, OnlyCalm, CalmGuided
<1>12. Guided(finish(u, d, FALSE)) BY <1>11, FinishGuided
<1>13. CASE o # Nothing /\ Become(send(w, o))
  <2>1. Posted(o) /\ o.op \notin Resumes BY <1>1, <1>13 DEF Shape, Links, Posted, Ops, Resumes
  <2>2. Guided(send(w, o)) BY <1>7, <1>8, <2>1, SendCalm, CalmGuided
  <2> QED BY <1>13, <2>2, GuidedReached
<1> QED BY <1>3, <1>7, <1>12, <1>13, GuidedReached

LEMMA PumpGuided ==
  ASSUME Guided(World), NEW d \in Device, NEW late \in BOOLEAN, pump(d, late)
  PROVE  Guided(World')
<1> DEFINE w == led(World, d)
           R == devices(w, d)
           v == [w EXCEPT !.dev[d].retry = @ \intersect R]
<1>1. Become(decline(World, d)) \/ Become(pumped(v, d, late)) BY DEF pump
<1>2. Guided(w) BY LedGuided
<1> HIDE DEF R, w
<1>3. Shape(w) BY <1>2 DEF Guided
<1>4. Only(w, v, d, {}) BY <1>3 DEF Only, Shape, DeviceFields, Links
<1>5. SameGuide(w, v, d) BY <1>3 DEF SameGuide, Shape, DeviceFields
<1> HIDE DEF v
<1>6. Guided(v) BY <1>2, <1>3, <1>4, <1>5, OnlyCalm, CalmGuided
<1>7. Guided(pumped(v, d, late)) BY <1>6, PumpedGuided
<1>8. Guided(decline(World, d)) BY DeclineCalm, CalmGuided DEF Guided
<1> QED BY <1>1, <1>7, <1>8, GuidedReached

LEMMA BackoffGuided ==
  ASSUME Guided(World), NEW d \in Device, Backoff(d)
  PROVE  Guided(World')
<1>1. Shape(World) BY DEF Guided
<1> DEFINE x == [World EXCEPT !.dev[d].retry = {}]
<1>2. Become(x) BY DEF Become, World, Backoff
<1>3. Only(World, x, d, {}) BY <1>1 DEF Only, Shape, DeviceFields, Links
<1>4. SameGuide(World, x, d) BY <1>1 DEF SameGuide, Shape, DeviceFields
<1> HIDE DEF x
<1>5. Guided(x) BY <1>1, <1>3, <1>4, OnlyCalm, CalmGuided
<1> QED BY <1>2, <1>5, GuidedReached

LEMMA SetEnabledGuided ==
  ASSUME Guided(World), NEW d \in Device, setEnabled(d)
  PROVE  Guided(World')
<1> DEFINE c == cancel(World, d)
           p == cancelPairing(c, d)
           w == IF dev[d].enabled /\ dev[d].current # Nothing THEN p ELSE World
           v == [w EXCEPT !.dev[d].enabled = ~@, !.dev[d].current = IF dev[d].enabled THEN Nothing ELSE @]
<1>1. Become(v) BY DEF setEnabled
<1>2. Guided(c) BY CancelCalm, CalmGuided DEF Guided
<1> HIDE DEF c
<1>3. Guided(p) BY <1>2, CancelPairingCalm, CalmGuided DEF Guided
<1> HIDE DEF p
<1>4. Guided(w) BY <1>3
<1> HIDE DEF w
<1>5. Shape(w) BY <1>4 DEF Guided
<1>6. Only(w, v, d, {}) BY <1>5 DEF Only, Shape, DeviceFields, Links
<1>7. SameGuide(w, v, d) BY <1>5 DEF SameGuide, Shape, DeviceFields
<1> HIDE DEF v
<1>8. Guided(v) BY <1>4, <1>5, <1>6, <1>7, OnlyCalm, CalmGuided
<1> QED BY <1>1, <1>8, GuidedReached

LEMMA GuidedStep ==
  ASSUME Guided(World), [PairingNext]_pairingVars
  PROVE  Guided(World')
<1>1. ASSUME dev' = dev, net' = net, tls' = tls PROVE Guided(World')
  <2>1. Become(World) BY <1>1 DEF Become, World
  <2> QED BY <2>1, GuidedReached
<1>2. ASSUME NEW m \in net, receive(m) PROVE Guided(World')
  <2>1. Become(received(World, m)) /\ World.net = net BY <1>2 DEF receive, World
  <2> QED BY <2>1, ReceivedGuided, GuidedReached
<1>3. CASE \E d, e \in Device : Found(d, e) BY <1>3, FoundGuidedStep
<1>4. ASSUME NEW d \in Device, sendResume(d) \/ Restart(d) \/ setCredentials(d) PROVE Guided(World')
  BY <1>4, SendResumeGuided, RestartGuided, SetCredentialsGuided
<1>5. ASSUME NEW d \in Device, tick(d) \/ Pump(d) \/ Deadline(d) PROVE Guided(World')
  BY <1>5, TickGuided, PumpGuided DEF Pump, Deadline
<1>6. ASSUME NEW d \in Device, Paired(d) PROVE Guided(World')
  BY <1>6, FinishGuided, GuidedReached DEF Paired
<1>7. ASSUME NEW d \in Device, Backoff(d) \/ setEnabled(d) PROVE Guided(World')
  BY <1>7, BackoffGuided, SetEnabledGuided
<1>8. ASSUME NEW i, Expire(i) PROVE Guided(World') BY <1>1, <1>8 DEF Expire
<1>9. ASSUME NEW i, Connect(i) \/ Disconnect(i) PROVE Guided(World')
  <2> DEFINE v == [dev |-> dev', net |-> net', tls |-> tls']
  <2>1. dev' = dev /\ net' = net BY <1>9 DEF Connect, Disconnect
  <2>2. PICK y : tls' = [tls EXCEPT ![i] = y]
    <3> DEFINE f(s) == [tls[i] EXCEPT !.stage = s]
    <3>1. tls' = [tls EXCEPT ![i] = f("confirming")] \/ tls' = [tls EXCEPT ![i] = f("closed")]
      BY <1>9 DEF Connect, Disconnect
    <3> QED BY <3>1
  <2>3. tls' = [j \in DOMAIN tls |-> tls'[j]] BY <2>2
  <2>4. DOMAIN v = {"dev", "net", "tls"} /\ v.dev = World.dev /\ v.net = World.net /\ v.tls = tls' BY <2>1 DEF World
  <2>5. World.tls = tls /\ Become(v) BY DEF World, Become
  <2> HIDE DEF v
  <2>6. Shape(v) BY <2>3, <2>4, <2>5, LinkKeeps DEF Guided, Keeps
  <2>7. Guided(v) BY <2>4, <2>6 DEF Guided
  <2> QED BY <2>5, <2>7, GuidedReached
<1>10. CASE UNCHANGED pairingVars BY <1>1, <1>10 DEF pairingVars
<1> QED BY <1>2, <1>3, <1>4, <1>5, <1>6, <1>7, <1>8, <1>9, <1>10 DEF PairingNext

(* Quiet: a host that leads knows it, has no attempt, and can neither decline nor invite. *)
LEMMA OnlyHostLeads ==
  ASSUME Guided(World), Ready, NEW h \in Desktop, Desktop = {h}
  PROVE  leader(World, h) = h
<1> DEFINE w == World
           x == w.dev[h]
           hosts == {e \in devices(w, h) : x.ep[e].host} \union (IF x.host THEN {h} ELSE {})
           established == {x.ep[e].primary : e \in devices(w, h)} \ {Nothing}
           D == devices(w, h)
           C == connected(w, h)
<1>1. leader(w, h) = IF x.primary # Nothing THEN x.primary
                     ELSE IF x.owns /\ C # {} /\ x.leader \notin D THEN x.leader
                     ELSE IF established # {} THEN First(established) ELSE First(hosts)
  BY DEF leader
<1>2. h \in Device /\ Guide(x, h) /\ x.host = TRUE BY DeviceAssumption DEF Guided, Ready, World
<1>3. D \subseteq {e \in Device : x.ep[e] # Nothing} BY DEF devices, verified, known
<1>4. hosts \subseteq {h} /\ established \subseteq {h} BY <1>2, <1>3 DEF Guide, Honest
<1>5. hosts # {} BY <1>2
<1> HIDE DEF hosts, established, D, C
<1>6. First({h}) = h BY <1>2, FirstIn
<1>7. established # {} => First(established) = h BY <1>4, <1>6
<1>8. First(hosts) = h BY <1>4, <1>5, <1>6
<1> HIDE DEF x, w
<1> QED BY <1>1, <1>2, <1>7, <1>8 DEF Guide, w

LEMMA LeaderKnown ==
  ASSUME Guided(World), Still, NEW h \in Device, leader(World, h) = h
  PROVE  led(World, h) = World /\ World.dev[h].leader = h
<1> DEFINE w == World
           l == leader(w, h)
           v == finish(w, h, FALSE)
           u == IF v.dev[h].owns THEN stop(v, h) ELSE v
           x == [u EXCEPT !.dev[h].owns = FALSE, !.dev[h].leader = l]
<1>1. led(w, h) = IF l = w.dev[h].leader THEN w ELSE x BY DEF led
<1>2. pumped(led(w, h), h, FALSE) = w BY DEF Still
<1>3. CASE l = w.dev[h].leader BY <1>1, <1>3
<1>4. CASE l # w.dev[h].leader
  <2>1. Guided(led(w, h)) BY LedGuided
  <2>2. Guided(v) BY FinishGuided
  <2> HIDE DEF v, l
  <2>3. Guided(u) BY <2>2, StopCalm, CalmGuided DEF Guided
  <2> HIDE DEF u
  <2>4. x.dev[h].leader = l BY <2>3 DEF Guided, Shape, DeviceFields
  <2> HIDE DEF x, w
  <2>5. led(w, h).dev[h].leader = l BY <1>1, <1>4, <2>4
  <2>6. w.dev[h].leader = l BY <1>2, <2>1, <2>5, PumpedGuided
  <2> QED BY <1>4, <2>6
<1> QED BY <1>3, <1>4

LEMMA NoneDeclined ==
  ASSUME Guided(World), Still, NEW h \in Device, leader(World, h) = h
  PROVE  World.dev[h].incoming = Nothing /\ World.dev[h].current = Nothing
<1> DEFINE w == World
<1>1. Shape(w) /\ w.dev[h].current = Nothing BY DEF Guided, Still, World
<1>2. w.dev[h].leader = h /\ pumped(w, h, FALSE) = w BY LeaderKnown DEF Still
<1> HIDE DEF w
<1>3. CASE w.dev[h].incoming # Nothing
  <2>1. decline(w, h) = w BY <1>1, <1>2, <1>3 DEF pumped
  <2>2. decline(w, h).dev[h].incoming = Nothing BY <1>1, DeclineAlike
  <2> QED BY <1>3, <2>1, <2>2
<1> QED BY <1>1, <1>3 DEF w

LEMMA NobodyLeft ==
  ASSUME Backed(World), Guided(World), Ready, Still, NEW h \in Device, NEW d \in Device, h # d,
         leader(World, h) = h
  PROVE  d \in connected(World, h)
<1> DEFINE w == World
           x == w.dev[h]
           C == connected(w, h)
           free == {e \in queue(w, h) : e \notin x.retry}
<1> SUFFICES ASSUME d \notin C PROVE FALSE OBVIOUS
<1>1. x.leader = h /\ pumped(w, h, FALSE) = w BY LeaderKnown DEF Still
<1>2. x.incoming = Nothing /\ x.current = Nothing BY NoneDeclined
<1>3. x.retry = {} /\ x.auth /\ known(w, h, d) /\ x.ep[d] = record(w, d) /\ w.dev[d].auth
  BY DEF Ready, World
<1>4. Len(w.tls) < MaxOffers BY DEF Still, World
<1>5. Shape(w) /\ Staged(w) /\ Engaged(w, h) BY DEF Backed
<1>6. phase(w, h) \in {"idle", "closed", "paired"} BY <1>2, <1>5 DEF phase, Engaged, Staged, Stages, Making
<1>7. d \in free
  <2>1. verified(w, h, d) BY <1>3 DEF verified, record
  <2> HIDE DEF w
  <2> QED BY <1>1, <1>3, <2>1 DEF queue, devices
<1>8. free \subseteq Device BY DEF queue, devices
<1> HIDE DEF w, free
<1>9. pumped(w, h, FALSE) = invite(w, h, First(free), FALSE) BY <1>1, <1>2, <1>4, <1>6, <1>7 DEF pumped, free
<1>10. First(free) \in Device BY <1>7, <1>8, FirstIn
<1>11. Len(invite(w, h, First(free), FALSE).tls) = Len(w.tls) + 1 BY <1>5, <1>10, InviteOffers DEF Invited
<1>12. Len(w.tls) \in Nat BY <1>5, ListedDomain
<1>13. invite(w, h, First(free), FALSE) = w BY <1>1, <1>9
<1>14. Len(w.tls) = Len(w.tls) + 1 BY <1>11, <1>13
<1> HIDE DEF x, C
<1> QED BY <1>12, <1>14

(***************************************************************************)
(* Nobody waits for nobody: when every device is ready and nothing would   *)
(* move, a host that AutomaticPairing takes for the leader, and the only   *)
(* host there is, has paired with every other device, on any number of     *)
(* devices.  An idle leader knows it leads, keeps no invitation it would   *)
(* have to decline, and has no connection in the making, so any device     *)
(* that is not connected would be invited.                                 *)
(***************************************************************************)
THEOREM NobodyWaits == PairingSpec => []NoSilentWait
<1> DEFINE GInv == PairInv /\ Backed(World) /\ Guided(World)
<1>1. PairingInit => GInv BY PairInitially, BackedInitially, GuidedInitially
<1>2. GInv /\ [PairingNext]_pairingVars => GInv' BY PairInductive, BackedStep, GuidedStep
<1>3. GInv => NoSilentWait
  <2> SUFFICES ASSUME GInv, Ready, Still, NEW h \in Desktop, NEW d \in Device, h # d,
                      Desktop = {h} \/ leader(World, h) = h
               PROVE  d \in connected(World, h)
    BY DEF NoSilentWait
  <2>1. h \in Device BY DeviceAssumption
  <2>2. leader(World, h) = h BY OnlyHostLeads
  <2> QED BY <2>1, <2>2, NobodyLeft
<1> QED BY <1>1, <1>2, <1>3, PTL DEF PairingSpec
=============================================================================
