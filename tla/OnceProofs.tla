----------------------------- MODULE OnceProofs -----------------------------
(***************************************************************************)
(* What is sent again is done once: theorems about Delivery, for any       *)
(* number of daemons, consumers, reading processes, messages and crashes,  *)
(* and about HostDrive, for any tables, requests, tokens and reopenings.   *)
(***************************************************************************)
EXTENDS Delivery, HostDrive, FiniteSetTheorems, SequenceTheorems, TLAPS

(***************************************************************************)
(* The inductive invariant.  Tables(o, i, n) says what ExactlyOnce and     *)
(* FifoOrder follow from: the inbox is exactly the first n messages at     *)
(* their own positions, the outbox is the rest, and rowids order it as the *)
(* ids do.  It holds of the committed tables and of the working copy of an *)
(* open transaction, whose remaining rows are the oldest of its outbox.    *)
(***************************************************************************)
Tables(o, i, n) ==
  /\ IsFiniteSet(o) /\ IsFiniteSet(i)
  /\ n <= sent
  /\ i = {[sequence |-> k, id |-> k] : k \in 1..n}
  /\ \A r \in o : n < r.id /\ r.id <= sent
  /\ \A k \in n + 1 .. sent : \E r \in o : r.id = k
  /\ \A r, s \in o : r.rowid < s.rowid => r.id < s.id
  /\ \A r, s \in o : r.rowid = s.rowid => r = s

Oldest(rows, o) ==
  /\ rows \subseteq o
  /\ \A r \in rows, s \in o : s.rowid < r.rowid => s \in rows

ReaderOK(i) ==
  /\ reader[i].cursor <= last
  /\ 1..reader[i].cursor \subseteq handled[ConsumerOf[i]]

TxOK == tx.owner # NoOne =>
          /\ Tables(tx.outbox, tx.inbox, tx.last) /\ Oldest(tx.rows, tx.outbox)
          /\ last <= tx.last

IInv ==
  /\ TypeOK
  /\ Tables(outbox, inbox, last)
  /\ TxOK
  /\ \A i \in Instances : ReaderOK(i)
  /\ CheckpointHandled

-----------------------------------------------------------------------------
(* The first rows by rowid are downward closed. *)
LEMMA FirstRowsOldest ==
  ASSUME NEW o \in SUBSET Row, IsFiniteSet(o)
  PROVE  Oldest(firstRows(o), o)
<1>1. firstRows(o) \subseteq o
  BY DEF firstRows
<1>2. ASSUME NEW r \in firstRows(o), NEW s \in o, s.rowid < r.rowid
      PROVE  s \in firstRows(o)
  <2> DEFINE below(x) == {t \in o : t.rowid <= x.rowid}
  <2>1. below(s) \subseteq below(r)
    BY <1>1, <1>2 DEF Row
  <2>2. IsFiniteSet(below(r)) /\ IsFiniteSet(below(s))
    BY FS_Subset
  <2>3. Cardinality(below(s)) <= Cardinality(below(r))
    BY <2>1, <2>2, FS_Subset
  <2>4. Cardinality(below(r)) <= Limit
    BY <1>2 DEF firstRows
  <2>5. Cardinality(below(s)) \in Nat /\ Cardinality(below(r)) \in Nat
    BY <2>2, FS_CardinalityType
  <2> QED BY <2>3, <2>4, <2>5, <1>2, LimitAssumption DEF firstRows
<1> QED BY <1>1, <1>2 DEF Oldest

(* A page contains every row between its cursor and any of its rows. *)
LEMMA PageContiguous ==
  ASSUME TypeOK, IsFiniteSet(inbox), NEW after \in Nat, NEW r \in page(after),
         NEW s \in inbox, after < s.sequence, s.sequence <= r.sequence
  PROVE  s \in page(after)
<1> DEFINE rows == {t \in inbox : t.sequence > after}
<1> DEFINE below(x) == {t \in rows : t.sequence <= x.sequence}
<1>0. rows \subseteq Received /\ r \in rows /\ s \in rows
  BY DEF TypeOK, page
<1>1. below(s) \subseteq below(r)
  BY <1>0 DEF Received
<1>2. IsFiniteSet(below(r)) /\ IsFiniteSet(below(s))
  BY FS_Subset
<1>3. Cardinality(below(s)) <= Cardinality(below(r))
  BY <1>1, <1>2, FS_Subset
<1>4. Cardinality(below(r)) <= Limit
  BY DEF page
<1>5. Cardinality(below(s)) \in Nat /\ Cardinality(below(r)) \in Nat
  BY <1>2, FS_CardinalityType
<1> QED BY <1>3, <1>4, <1>5, <1>0, LimitAssumption DEF page

(* What the invariant says about the tables implies the two properties. *)
LEMMA TablesImply ==
  ASSUME NEW o \in SUBSET Row, NEW i, NEW n \in Nat, sent \in Nat, Tables(o, i, n)
  PROVE  Once(o, i) /\ Ordered(o, i, n)
<1>1. \A r \in i : r.sequence \in 1..n /\ r.id = r.sequence /\ r = [sequence |-> r.sequence, id |-> r.id]
  BY DEF Tables
<1>2. \A k \in 1..n : \E r \in i : r.sequence = k /\ r.id = k
  <2> SUFFICES ASSUME NEW k \in 1..n
               PROVE  \E r \in i : r.sequence = k /\ r.id = k
    OBVIOUS
  <2>1. [sequence |-> k, id |-> k] \in i
    BY DEF Tables
  <2> QED BY <2>1
<1>3. {r.sequence : r \in i} = 1..n
  BY <1>1, <1>2
<1>4. {r.id : r \in o} \union {r.id : r \in i} = 1..sent
  <2>1. ASSUME NEW k \in 1..sent PROVE k \in {r.id : r \in o} \union {r.id : r \in i}
    <3>1. CASE k <= n
      BY <1>2, <3>1
    <3>2. CASE k > n
      BY <3>2 DEF Tables
    <3> QED BY <3>1, <3>2
  <2>2. ASSUME NEW r \in o PROVE r.id \in 1..sent
    BY <2>2 DEF Tables, Row
  <2>3. ASSUME NEW r \in i PROVE r.id \in 1..sent
    BY <1>1, <2>3 DEF Tables
  <2> QED BY <2>1, <2>2, <2>3
<1>5. \A r \in o, s \in i : s.id < r.id
  BY <1>1 DEF Tables, Row
<1>6. \A r, s \in o : r.id = s.id => r = s
  <2> SUFFICES ASSUME NEW r \in o, NEW s \in o, r.id = s.id PROVE r = s
    OBVIOUS
  <2>1. r.rowid \in Nat /\ s.rowid \in Nat /\ r.id \in Nat /\ s.id \in Nat
    BY DEF Row
  <2>2. ~(r.rowid < s.rowid) /\ ~(s.rowid < r.rowid)
    BY <2>1 DEF Tables
  <2>3. r.rowid = s.rowid
    BY <2>1, <2>2
  <2> QED BY <2>3 DEF Tables
<1>7. \A r, s \in i : r.id = s.id => r = s
  BY <1>1
<1>8. \A r, s \in i : r.sequence < s.sequence => r.id < s.id
  BY <1>1
<1>9. \A r \in o, s \in i : r.id # s.id
  BY <1>5, <1>1 DEF Row
<1> QED BY <1>3, <1>4, <1>5, <1>6, <1>7, <1>8, <1>9 DEF Once, Ordered

-----------------------------------------------------------------------------
(* The empty store of a fresh database satisfies the invariant. *)
LEMMA InitIInv == Init => IInv
<1> SUFFICES ASSUME Init PROVE IInv
  OBVIOUS
<1>1. TypeOK
  BY DaemonsAssumption DEF Init, TypeOK, NoTransaction, Row, Received
<1>2. Tables(outbox, inbox, last)
  <2>1. IsFiniteSet({})
    BY FS_EmptySet
  <2> QED BY <2>1 DEF Init, Tables
<1>3. TxOK
  BY DEF Init, TxOK, NoTransaction
<1>4. \A i \in Instances : ReaderOK(i)
  BY InstancesAssumption DEF Init, ReaderOK
<1>5. CheckpointHandled
  BY DEF Init, CheckpointHandled
<1> QED BY <1>1, <1>2, <1>3, <1>4, <1>5 DEF IInv

(* The row a transaction moves next is the oldest message not received. *)
LEMMA OldestNext ==
  ASSUME NEW o \in SUBSET Row, NEW i, NEW n \in Nat, sent \in Nat, Tables(o, i, n),
         NEW rows, Oldest(rows, o),
         NEW r \in rows, \A s \in rows : r.rowid <= s.rowid
  PROVE  /\ r.id = n + 1
         /\ \A s \in o : s # r => n + 1 < s.id
<1>1. r \in o /\ r.id \in Nat /\ r.rowid \in Nat /\ n < r.id /\ r.id <= sent
  BY DEF Oldest, Tables, Row
<1>2. \A s \in o : s # r => r.rowid < s.rowid
  <2> SUFFICES ASSUME NEW s \in o, s # r PROVE r.rowid < s.rowid
    OBVIOUS
  <2>1. s.rowid \in Nat /\ s.rowid # r.rowid
    BY <1>1 DEF Tables, Row
  <2>2. ~(s.rowid < r.rowid)
    BY <1>1, <2>1 DEF Oldest
  <2> QED BY <1>1, <2>1, <2>2
<1>3. \A s \in o : s # r => r.id < s.id
  BY <1>1, <1>2 DEF Tables
<1>4. PICK s \in o : s.id = n + 1
  BY <1>1 DEF Tables
<1>5. r.id = n + 1
  BY <1>1, <1>3, <1>4
<1> QED BY <1>3, <1>5

(* Moving that row keeps the tables in shape, one message further. *)
LEMMA MovedTables ==
  ASSUME sent \in Nat, NEW t \in [owner : Daemons \union {NoOne}, outbox : SUBSET Row,
                                  inbox : SUBSET Received, last : Nat, rows : SUBSET Row],
         Tables(t.outbox, t.inbox, t.last), Oldest(t.rows, t.outbox),
         NEW r \in t.rows, \A s \in t.rows : r.rowid <= s.rowid
  PROVE  LET u == moved(t, r) IN
         /\ u \in [owner : Daemons \union {NoOne}, outbox : SUBSET Row,
                   inbox : SUBSET Received, last : Nat, rows : SUBSET Row]
         /\ u.owner = t.owner /\ u.last = t.last + 1
         /\ Tables(u.outbox, u.inbox, u.last) /\ Oldest(u.rows, u.outbox)
<1> DEFINE new == [sequence |-> t.last + 1, id |-> r.id]
           u == moved(t, r)
<1>1. r.id = t.last + 1 /\ \A s \in t.outbox : s # r => t.last + 1 < s.id
  BY OldestNext
<1>2. ~Ignored(t.inbox, r)
  BY <1>1 DEF Ignored, Tables
<1>3. u.outbox = {s \in t.outbox : s.id # r.id} /\ u.rows = t.rows \ {r}
      /\ u.inbox = t.inbox \union {new} /\ u.last = t.last + 1 /\ u.owner = t.owner
  BY <1>2 DEF moved
<1>4. u.outbox = t.outbox \ {r}
  BY <1>1, <1>3 DEF Row
<1>5. u \in [owner : Daemons \union {NoOne}, outbox : SUBSET Row,
             inbox : SUBSET Received, last : Nat, rows : SUBSET Row]
  <2>1. new \in Received
    BY <1>1 DEF Received
  <2> QED BY <1>2, <2>1 DEF moved
<1>6. IsFiniteSet(u.outbox) /\ IsFiniteSet(u.inbox)
  <2>1. IsFiniteSet(t.outbox) /\ IsFiniteSet(t.inbox)
    BY DEF Tables
  <2>2. IsFiniteSet(t.outbox \ {r}) /\ IsFiniteSet(t.inbox \union {new})
    BY <2>1, FS_RemoveElement, FS_AddElement
  <2> QED BY <1>3, <1>4, <2>2
<1>7. u.inbox = {[sequence |-> k, id |-> k] : k \in 1..u.last}
  <2>1. t.inbox = {[sequence |-> k, id |-> k] : k \in 1..t.last}
    BY DEF Tables
  <2>2. new = [sequence |-> t.last + 1, id |-> t.last + 1]
    BY <1>1
  <2>3. 1..(t.last + 1) = (1..t.last) \union {t.last + 1}
    OBVIOUS
  <2> QED BY <2>1, <2>2, <2>3, <1>3
<1>8. u.last <= sent
  BY <1>1, <1>3 DEF Tables, Oldest
<1>9. \A s \in u.outbox : u.last < s.id /\ s.id <= sent
  BY <1>1, <1>3, <1>4 DEF Tables
<1>10. \A k \in u.last + 1 .. sent : \E s \in u.outbox : s.id = k
  BY <1>1, <1>3, <1>4 DEF Tables
<1>11. /\ \A x, y \in u.outbox : x.rowid < y.rowid => x.id < y.id
       /\ \A x, y \in u.outbox : x.rowid = y.rowid => x = y
  BY <1>4 DEF Tables
<1>12. Oldest(u.rows, u.outbox)
  BY <1>3, <1>4 DEF Oldest, Row
<1>13. Tables(u.outbox, u.inbox, u.last)
  BY <1>6, <1>7, <1>8, <1>9, <1>10, <1>11 DEF Tables
<1> QED BY <1>3, <1>5, <1>12, <1>13

-----------------------------------------------------------------------------
(* A step outside the open transaction leaves what it holds valid. *)
LEMMA TxUnchanged ==
  ASSUME IInv, UNCHANGED <<tx, last, sent>>
  PROVE  TxOK'
BY DEF IInv, TxOK, Tables, Oldest

(* A new message gets a rowid above those in use, hence the last place (enqueue). *)
LEMMA EnqueueStep == IInv /\ enqueue => IInv'
<1> SUFFICES ASSUME IInv, enqueue PROVE IInv'
  OBVIOUS
<1> USE DEF IInv
<1>1. PICK n \in newRowid(outbox) : outbox' = outbox \union {[rowid |-> n, id |-> sent + 1]}
  BY DEF enqueue
<1>2. n \in Nat /\ \A r \in outbox : r.rowid < n
  BY <1>1 DEF newRowid, TypeOK, Row
<1>3. sent \in Nat /\ sent' = sent + 1 /\ UNCHANGED <<inbox, last, tx, acks, reader, handled, crashes>>
  BY DEF enqueue, TypeOK, readers
<1> DEFINE new == [rowid |-> n, id |-> sent + 1]
<1>4. TypeOK'
  <2>1. new \in Row
    BY <1>2, <1>3 DEF Row
  <2>2. outbox' \subseteq Row
    BY <1>1, <2>1 DEF TypeOK
  <2> QED BY <1>3, <2>2 DEF TypeOK
<1>5. Tables(outbox, inbox, last)'
  <2>1. IsFiniteSet(outbox') /\ IsFiniteSet(inbox')
    BY <1>1, <1>3, FS_AddElement DEF Tables
  <2>2. /\ \A r, s \in outbox' : r.rowid < s.rowid => r.id < s.id
        /\ \A r, s \in outbox' : r.rowid = s.rowid => r = s
    <3>1. \A r \in outbox : r.id < sent + 1 /\ r.rowid \in Nat
      BY <1>3 DEF Tables, TypeOK, Row
    <3> QED BY <1>1, <1>2, <1>3, <3>1 DEF Tables
  <2>3. \A r \in outbox' : last' < r.id /\ r.id <= sent'
    BY <1>1, <1>3 DEF Tables, TypeOK, Row
  <2>4. \A k \in last' + 1 .. sent' : \E r \in outbox' : r.id = k
    <3> SUFFICES ASSUME NEW k \in last' + 1 .. sent' PROVE \E r \in outbox' : r.id = k
      OBVIOUS
    <3>1. CASE k <= sent
      BY <1>1, <1>3, <3>1 DEF Tables, TypeOK
    <3>2. CASE k = sent + 1
      <4>1. new \in outbox' /\ new.id = sent + 1
        BY <1>1
      <4> QED BY <3>2, <4>1
    <3> QED BY <1>3, <3>1, <3>2 DEF TypeOK
  <2>5. last' <= sent' /\ inbox' = {[sequence |-> k, id |-> k] : k \in 1..last'}
    BY <1>3 DEF Tables, TypeOK
  <2> QED BY <2>1, <2>2, <2>3, <2>4, <2>5 DEF Tables
<1>6. TxOK'
  BY <1>3 DEF enqueue, Unlocked, TxOK
<1>7. (\A i \in Instances : ReaderOK(i))' /\ CheckpointHandled'
  BY <1>3 DEF ReaderOK, CheckpointHandled
<1> QED BY <1>4, <1>5, <1>6, <1>7

(* A transaction starts from the committed tables and the oldest rows (receivePending). *)
LEMMA BeginStep == ASSUME NEW d \in Daemons PROVE IInv /\ Begin(d) => IInv'
<1> SUFFICES ASSUME IInv, Begin(d) PROVE IInv'
  OBVIOUS
<1> USE DEF IInv
<1>1. UNCHANGED <<outbox, inbox, last, acks, reader, handled, sent, crashes>>
  BY DEF Begin, store, readers
<1>2. tx' = [owner |-> d, outbox |-> outbox, inbox |-> inbox, last |-> last,
             rows |-> firstRows(outbox)]
  BY DEF Begin
<1>3. TypeOK'
  BY <1>1, <1>2 DEF TypeOK, firstRows
<1>4. Tables(outbox, inbox, last)'
  BY <1>1 DEF Tables
<1>5. TxOK'
  <2>1. Oldest(firstRows(outbox), outbox)
    BY FirstRowsOldest DEF TypeOK, Tables
  <2> QED BY <1>1, <1>2, <1>4, <2>1 DEF TxOK, Oldest, Tables, TypeOK
<1>6. (\A i \in Instances : ReaderOK(i))' /\ CheckpointHandled'
  BY <1>1 DEF ReaderOK, CheckpointHandled
<1> QED BY <1>3, <1>4, <1>5, <1>6

(* Each INSERT OR IGNORE and DELETE receives the next message (receivePending). *)
LEMMA MoveStep == ASSUME NEW d \in Daemons PROVE IInv /\ Move(d) => IInv'
<1> SUFFICES ASSUME IInv, Move(d) PROVE IInv'
  OBVIOUS
<1> USE DEF IInv
<1>1. UNCHANGED <<outbox, inbox, last, acks, reader, handled, sent, crashes>>
  BY DEF Move, store, readers
<1>2. PICK r \in tx.rows : (\A s \in tx.rows : r.rowid <= s.rowid) /\ tx' = moved(tx, r)
  BY DEF Move
<1>3. tx.owner # NoOne
  BY DaemonsAssumption DEF Move
<1>4. Tables(tx.outbox, tx.inbox, tx.last) /\ Oldest(tx.rows, tx.outbox) /\ last <= tx.last
  BY <1>3 DEF TxOK
<1>5. /\ tx' \in [owner : Daemons \union {NoOne}, outbox : SUBSET Row,
                  inbox : SUBSET Received, last : Nat, rows : SUBSET Row]
      /\ tx'.last = tx.last + 1
      /\ Tables(tx'.outbox, tx'.inbox, tx'.last) /\ Oldest(tx'.rows, tx'.outbox)
  BY <1>2, <1>4, MovedTables DEF TypeOK
<1>6. TypeOK'
  BY <1>1, <1>5 DEF TypeOK
<1>7. Tables(outbox, inbox, last)'
  BY <1>1 DEF Tables
<1>8. TxOK'
  BY <1>1, <1>4, <1>5 DEF TxOK, Tables, TypeOK
<1>9. (\A i \in Instances : ReaderOK(i))' /\ CheckpointHandled'
  BY <1>1 DEF ReaderOK, CheckpointHandled
<1> QED BY <1>6, <1>7, <1>8, <1>9

(* The working tables become the committed ones (receivePending). *)
LEMMA CommitStep == ASSUME NEW d \in Daemons PROVE IInv /\ Commit(d) => IInv'
<1> SUFFICES ASSUME IInv, Commit(d) PROVE IInv'
  OBVIOUS
<1> USE DEF IInv
<1>1. UNCHANGED <<acks, reader, handled, sent, crashes>>
  BY DEF Commit, readers
<1>2. outbox' = tx.outbox /\ inbox' = tx.inbox /\ last' = tx.last /\ tx' = NoTransaction
  BY DEF Commit
<1>3. Tables(tx.outbox, tx.inbox, tx.last) /\ last <= tx.last
  BY DaemonsAssumption DEF Commit, TxOK
<1>4. TypeOK'
  BY <1>1, <1>2 DEF TypeOK, NoTransaction
<1>5. Tables(outbox, inbox, last)'
  BY <1>1, <1>2, <1>3 DEF Tables
<1>6. TxOK'
  BY <1>2 DEF TxOK, NoTransaction
<1>7. (\A i \in Instances : ReaderOK(i))' /\ CheckpointHandled'
  BY <1>1, <1>2, <1>3 DEF ReaderOK, CheckpointHandled, TypeOK
<1> QED BY <1>4, <1>5, <1>6, <1>7

(* A failed or interrupted transaction leaves the tables as they were. *)
LEMMA RollbackStep == ASSUME NEW d \in Daemons PROVE IInv /\ Rollback(d) => IInv'
<1> SUFFICES ASSUME IInv, Rollback(d) PROVE IInv'
  OBVIOUS
<1> USE DEF IInv
<1>1. UNCHANGED <<outbox, inbox, last, acks, reader, handled, sent>> /\ crashes' = crashes + 1
  BY DEF Rollback, store, readers
<1>2. tx' = NoTransaction
  BY DEF Rollback
<1>3. TypeOK'
  BY <1>1, <1>2 DEF TypeOK, NoTransaction
<1>4. Tables(outbox, inbox, last)'
  BY <1>1 DEF Tables
<1>5. TxOK'
  BY <1>2 DEF TxOK, NoTransaction
<1>6. (\A i \in Instances : ReaderOK(i))' /\ CheckpointHandled'
  BY <1>1 DEF ReaderOK, CheckpointHandled
<1> QED BY <1>3, <1>4, <1>5, <1>6

(* The steps of a reading process leave the tables and the transaction alone. *)
LEMMA ReaderStep ==
  ASSUME NEW i \in Instances
  PROVE  IInv /\ (Reader(i) \/ Die(i)) => IInv'
<1> SUFFICES ASSUME IInv, Reader(i) \/ Die(i) PROVE IInv'
  OBVIOUS
<1> USE DEF IInv
<1> DEFINE c == ConsumerOf[i]
<1>0. c \in Consumers
  BY InstancesAssumption
<1>1. UNCHANGED <<outbox, inbox, last, tx, sent>>
  BY DEF Reader, Die, Resume, readAfter, CheckReceived, acknowledge, store
<1>2. Tables(outbox, inbox, last)' /\ TxOK'
  BY <1>1, TxUnchanged DEF Tables
<1>3. SUFFICES TypeOK' /\ (\A j \in Instances : ReaderOK(j)') /\ CheckpointHandled'
  BY <1>2
<1>4. CASE Resume(i)
  <2>1. reader' = [reader EXCEPT ![i] = [pc |-> "reading", cursor |-> acks[c]]]
        /\ UNCHANGED <<acks, handled, crashes>>
    BY <1>4 DEF Resume
  <2> QED BY <1>0, <1>1, <2>1 DEF TypeOK, ReaderOK, CheckpointHandled
<1>5. CASE readAfter(i)
  <2> DEFINE rows == page(reader[i].cursor)
  <2>1. PICK r \in rows : /\ \A s \in rows : s.sequence <= r.sequence
                         /\ reader' = [reader EXCEPT ![i] = [pc |-> "handled", cursor |-> r.sequence]]
    BY <1>5 DEF readAfter
  <2>2. handled' = [handled EXCEPT ![c] = @ \union {s.sequence : s \in rows}]
        /\ UNCHANGED <<acks, crashes>>
    BY <1>5 DEF readAfter
  <2>3. reader[i].cursor \in Nat /\ r \in inbox /\ r.sequence \in 1..last
    BY DEF TypeOK, page, Tables
  <2>4. \A k \in 1..r.sequence : k \in handled'[c]
    <3> SUFFICES ASSUME NEW k \in 1..r.sequence PROVE k \in handled'[c]
      OBVIOUS
    <3>1. CASE k <= reader[i].cursor
      BY <1>0, <2>2, <2>3, <3>1 DEF ReaderOK, TypeOK
    <3>2. CASE k > reader[i].cursor
      <4> DEFINE s == [sequence |-> k, id |-> k]
      <4>1. s \in inbox /\ s.sequence = k
        BY <2>3 DEF Tables, TypeOK
      <4>2. s \in rows
        <5>1. IsFiniteSet(inbox) /\ TypeOK
          BY DEF Tables
        <5>2. reader[i].cursor < s.sequence /\ s.sequence <= r.sequence
          BY <2>3, <3>2, <4>1 DEF TypeOK
        <5>3. r \in page(reader[i].cursor) /\ s \in inbox
          BY <2>1, <4>1
        <5> HIDE DEF s
        <5> QED BY <2>3, <5>1, <5>2, <5>3, PageContiguous
      <4>3. k \in {t.sequence : t \in rows}
        BY <4>1, <4>2
      <4>4. handled'[c] = handled[c] \union {t.sequence : t \in rows}
        BY <1>0, <2>2 DEF TypeOK
      <4> QED BY <4>3, <4>4
    <3> QED BY <2>3, <3>1, <3>2
  <2>5. \A e \in Consumers : handled[e] \subseteq handled'[e]
    BY <2>2 DEF TypeOK
  <2>6. TypeOK'
    <3>1. {s.sequence : s \in rows} \subseteq Nat
      BY DEF page, TypeOK, Received
    <3>2. handled' \in [Consumers -> SUBSET Nat]
      BY <1>0, <2>2, <3>1 DEF TypeOK
    <3> QED BY <1>1, <2>1, <2>2, <2>3, <3>2 DEF TypeOK
  <2>7. ASSUME NEW j \in Instances PROVE ReaderOK(j)'
    <3>1. CASE j = i
      BY <1>1, <2>1, <2>3, <2>4, <3>1 DEF ReaderOK, TypeOK
    <3>2. CASE j # i
      BY <1>1, <2>1, <2>5, <3>2, InstancesAssumption DEF ReaderOK, TypeOK
    <3> QED BY <3>1, <3>2
  <2>8. CheckpointHandled'
    BY <1>1, <2>2, <2>5 DEF CheckpointHandled
  <2> QED BY <2>6, <2>7, <2>8
<1>6. CASE CheckReceived(i)
  <2>1. reader' = [reader EXCEPT ![i].pc = "checked"] /\ UNCHANGED <<acks, handled, crashes>>
    BY <1>6 DEF CheckReceived
  <2>2. TypeOK'
    BY <1>1, <2>1 DEF TypeOK
  <2>3. \A j \in Instances : reader'[j].cursor = reader[j].cursor
    BY <2>1 DEF TypeOK
  <2> QED BY <1>1, <2>1, <2>2, <2>3 DEF ReaderOK, CheckpointHandled
<1>7. CASE acknowledge(i)
  <2>1. /\ reader' = [reader EXCEPT ![i].pc = "reading"] /\ UNCHANGED <<handled, crashes>>
        /\ acks' = [acks EXCEPT ![c] = IF reader[i].cursor > @ THEN reader[i].cursor ELSE @]
    BY <1>7 DEF acknowledge
  <2>2. TypeOK'
    BY <1>0, <1>1, <2>1 DEF TypeOK
  <2>3. \A j \in Instances : reader'[j].cursor = reader[j].cursor
    BY <2>1 DEF TypeOK
  <2>4. CheckpointHandled'
    <3> SUFFICES ASSUME NEW e \in Consumers
                 PROVE  acks'[e] <= last /\ 1..acks'[e] \subseteq handled[e]
      BY <1>1, <2>1 DEF CheckpointHandled
    <3>1. CASE e = c
      BY <2>1, <3>1 DEF TypeOK, ReaderOK, CheckpointHandled
    <3>2. CASE e # c
      BY <2>1, <3>2 DEF TypeOK, CheckpointHandled
    <3> QED BY <3>1, <3>2
  <2> QED BY <1>1, <2>1, <2>2, <2>3, <2>4 DEF ReaderOK
<1>8. CASE Die(i)
  <2>1. reader' = [reader EXCEPT ![i] = [pc |-> "down", cursor |-> 0]]
        /\ UNCHANGED <<acks, handled>> /\ crashes' = crashes + 1
    BY <1>8 DEF Die
  <2> QED BY <1>0, <1>1, <2>1 DEF TypeOK, ReaderOK, CheckpointHandled
<1> QED BY <1>4, <1>5, <1>6, <1>7, <1>8 DEF Reader

(* Every step of the store keeps the invariant. *)
LEMMA StepIInv == IInv /\ [Next]_vars => IInv'
<1> SUFFICES ASSUME IInv, [Next]_vars PROVE IInv'
  OBVIOUS
<1>1. CASE enqueue
  BY <1>1, EnqueueStep
<1>2. ASSUME NEW d \in Daemons, Daemon(d) \/ Rollback(d) PROVE IInv'
  BY <1>2, BeginStep, MoveStep, CommitStep, RollbackStep DEF Daemon
<1>3. ASSUME NEW i \in Instances, Reader(i) \/ Die(i) PROVE IInv'
  BY <1>3, ReaderStep
<1>4. CASE UNCHANGED vars
  BY <1>4 DEF vars, IInv, TypeOK, Tables, TxOK, Oldest, ReaderOK, CheckpointHandled
<1> QED BY <1>1, <1>2, <1>3, <1>4 DEF Next

-----------------------------------------------------------------------------
(***************************************************************************)
(* Every state of the store satisfies the inductive invariant.             *)
(***************************************************************************)
THEOREM Invariance == Spec => []IInv
BY InitIInv, StepIInv, PTL DEF Spec

(***************************************************************************)
(* A message whose enqueue succeeded is stored exactly once, whatever      *)
(* daemons overlap, fail or die (receivePending).                          *)
(***************************************************************************)
THEOREM StoredOnce == Spec => []ExactlyOnce
<1>1. IInv => ExactlyOnce
  BY TablesImply DEF IInv, TypeOK, ExactlyOnce
<1> QED BY <1>1, Invariance, PTL

(***************************************************************************)
(* The inbox numbers messages in the order they were enqueued, without a   *)
(* gap (receivePending, rowid reuse).                                      *)
(***************************************************************************)
THEOREM ReceivedInOrder == Spec => []FifoOrder
<1>1. IInv => FifoOrder
  BY TablesImply DEF IInv, TypeOK, FifoOrder
<1> QED BY <1>1, Invariance, PTL

(***************************************************************************)
(* A checkpoint covers only received messages that the consumer's          *)
(* processes have handled (readAfter, acknowledge).                        *)
(***************************************************************************)
THEOREM CheckpointSafe == Spec => []CheckpointHandled
<1>1. IInv => CheckpointHandled
  BY DEF IInv
<1> QED BY <1>1, Invariance, PTL

(***************************************************************************)
(* A checkpoint never goes back (acknowledge).                             *)
(***************************************************************************)
THEOREM CheckpointForward == Spec => CheckpointMonotone
<1>1. IInv /\ [Next]_vars => [\A c \in Consumers : acks'[c] >= acks[c]]_vars
  <2> SUFFICES ASSUME IInv, Next PROVE \A c \in Consumers : acks'[c] >= acks[c]
    OBVIOUS
  <2>0. acks \in [Consumers -> Nat] /\ reader \in [Instances -> [pc : {"down", "reading", "handled", "checked"}, cursor : Nat]]
    BY DEF IInv, TypeOK
  <2>1. ASSUME NEW i \in Instances, acknowledge(i) PROVE \A c \in Consumers : acks'[c] >= acks[c]
    BY <2>0, <2>1 DEF acknowledge
  <2>2. CASE UNCHANGED acks
    BY <2>0, <2>2
  <2> QED BY <2>1, <2>2 DEF Next, enqueue, Daemon, Begin, Move, Commit, Rollback, Reader, Resume,
                            readAfter, CheckReceived, Die, readers
<1> QED BY <1>1, Invariance, PTL DEF Spec, CheckpointMonotone

(* An empty store is a channel nothing was sent on. *)
LEMMA InitChannel == Init => Promise!Init
BY DEF Init, Promise!Init

(* The pairs of a table whose row k holds message k. *)
LEMMA Positions ==
  ASSUME NEW n, NEW T, T = {[sequence |-> k, id |-> k] : k \in 1..n}
  PROVE  {<<r.sequence, r.id>> : r \in T} = {<<k, k>> : k \in 1..n}
<1>1. ASSUME NEW r \in T PROVE <<r.sequence, r.id>> \in {<<k, k>> : k \in 1..n}
  <2>1. PICK k \in 1..n : r = [sequence |-> k, id |-> k]
    OBVIOUS
  <2>2. r.sequence = k /\ r.id = k
    BY <2>1
  <2> QED BY <2>2
<1>2. ASSUME NEW k \in 1..n PROVE <<k, k>> \in {<<r.sequence, r.id>> : r \in T}
  <2> DEFINE r == [sequence |-> k, id |-> k]
  <2>1. r \in T /\ r.sequence = k /\ r.id = k
    OBVIOUS
  <2> HIDE DEF r
  <2> QED BY <2>1
<1> QED BY <1>1, <1>2

(* A commit delivers the next messages, an acknowledgement moves a checkpoint, *)
(* an enqueue sends, and every other step is invisible.                        *)
LEMMA StepChannel == IInv /\ IInv' /\ [Next]_vars => [Promise!Next]_Promise!vars
<1> SUFFICES ASSUME IInv, IInv', [Next]_vars PROVE [Promise!Next]_Promise!vars
  OBVIOUS
<1> DEFINE positions == {<<r.sequence, r.id>> : r \in inbox}
<1>1. CASE enqueue
  BY <1>1 DEF enqueue, Promise!Next, Promise!Send, readers
<1>2. ASSUME NEW d \in Daemons, Commit(d) PROVE [Promise!Next]_Promise!vars
  <2>1. UNCHANGED <<sent, acks>> /\ last <= last' /\ last \in Nat /\ last' \in Nat /\ last' <= sent /\ sent \in Nat
    <3>1. tx.owner # NoOne
      BY <1>2, DaemonsAssumption DEF Commit
    <3> QED BY <1>2, <3>1 DEF Commit, readers, IInv, TxOK, Tables, TypeOK
  <2>2. /\ inbox = {[sequence |-> k, id |-> k] : k \in 1..last}
        /\ inbox' = {[sequence |-> k, id |-> k] : k \in 1..last'}
    BY DEF IInv, Tables
  <2>3. positions = {<<k, k>> : k \in 1..last} /\ positions' = {<<k, k>> : k \in 1..last'}
    BY <2>2, Positions
  <2>4. CASE last' = last
    BY <2>1, <2>3, <2>4 DEF Promise!vars
  <2>5. CASE last < last'
    <3>1. 1..last' = (1..last) \union (last + 1 .. last')
      BY <2>1, <2>5
    <3>2. positions' = positions \union {<<n, n>> : n \in last + 1 .. last'}
      BY <2>3, <3>1
    <3> QED BY <2>1, <2>5, <3>2 DEF Promise!Next, Promise!Receive
  <2> QED BY <2>1, <2>4, <2>5
<1>3. ASSUME NEW i \in Instances, acknowledge(i) PROVE [Promise!Next]_Promise!vars
  <2> DEFINE c == ConsumerOf[i]
             n == reader[i].cursor
  <2>1. c \in Consumers /\ n \in Nat /\ n <= last /\ last \in Nat /\ acks \in [Consumers -> Nat]
    BY InstancesAssumption DEF IInv, TypeOK, ReaderOK
  <2>2. UNCHANGED <<sent, last, inbox>> /\ acks' = [acks EXCEPT ![c] = IF n > @ THEN n ELSE @]
    BY <1>3 DEF acknowledge, store
  <2>3. CASE n > acks[c]
    <3>1. n \in 1..last /\ acks' = [acks EXCEPT ![c] = n]
      BY <2>1, <2>2, <2>3
    <3>2. Promise!Acknowledge(c)
      BY <2>2, <2>3, <3>1 DEF Promise!Acknowledge
    <3> QED BY <2>1, <3>2 DEF Promise!Next
  <2>4. CASE ~(n > acks[c])
    <3>1. acks' = acks
      BY <2>1, <2>2, <2>4
    <3> QED BY <2>2, <3>1 DEF Promise!vars
  <2> QED BY <2>3, <2>4
<1>4. CASE UNCHANGED <<sent, last, inbox, acks>>
  BY <1>4 DEF Promise!vars
<1> QED BY <1>1, <1>2, <1>3, <1>4
     DEF Next, vars, Daemon, Begin, Move, Rollback, Reader, Resume, readAfter, CheckReceived, Die,
         store, readers

(***************************************************************************)
(* The store implements the channel: each commit delivers the next         *)
(* messages at their own positions, and nothing else is visible.           *)
(***************************************************************************)
THEOREM Refinement == Spec => ImplementsChannel
BY InitChannel, StepChannel, Invariance, PTL DEF Spec, ImplementsChannel, Promise!Spec

-----------------------------------------------------------------------------
(***************************************************************************)
(* HostDrive: the job table of the host and the writes of a client.        *)
(***************************************************************************)
Kinds == {"write", "describe", "catalog"}
Outcomes == {"write", "error"}
ClientFields == {"account", "registered", "online", "requests", "inspections", "snapshot", "again", "due",
                 "mirror", "next", "answers", "owed"}
RequestFields == {"kind", "args", "container", "retries", "at"}

(* A client whose public calls are the writes. *)
Formed(c) ==
  /\ DOMAIN c = ClientFields /\ c.next \in Nat /\ DOMAIN c.inspections = {}
  /\ \A id \in DOMAIN c.requests :
       /\ id \in Nat /\ id < c.next /\ DOMAIN c.requests[id] = RequestFields
       /\ c.requests[id].retries \in Nat /\ c.requests[id].kind \in Kinds
       /\ (id \in DOMAIN c.answers) <=> (c.requests[id].kind = "write")
  /\ \A id \in DOMAIN c.answers : id \in Nat /\ id < c.next /\ c.answers[id] \in Seq(Outcomes)

(* M has the writes that were reported as successful. *)
Reported(c, M) ==
  \A id \in DOMAIN c.answers : \A k \in 1..Len(c.answers[id]) : c.answers[id][k] = "write" => id \in M

(* Identifiers are new; a request that stays keeps its kind, and its token only advances. *)
Grows(c, v) ==
  /\ c.next <= v.next
  /\ \A id \in Nat : id < c.next => ((id \in DOMAIN v.answers) <=> (id \in DOMAIN c.answers))
  /\ \A id \in DOMAIN v.requests :
       id < c.next => id \in DOMAIN c.requests /\ c.requests[id].retries <= v.requests[id].retries

Step(c, v, M) == Formed(v) /\ Reported(v, M) /\ Grows(c, v)

LEMMA StepTrans ==
  ASSUME NEW M, NEW c, NEW v, NEW w, Formed(c), Step(c, v, M), Step(v, w, M)
  PROVE  Step(c, w, M)
<1>1. c.next \in Nat /\ v.next \in Nat /\ w.next \in Nat BY DEF Formed, Step
<1>2. c.next <= v.next /\ v.next <= w.next BY DEF Step, Grows
<1>3. c.next <= w.next BY <1>1, <1>2
<1>4. ASSUME NEW id \in Nat, id < c.next PROVE (id \in DOMAIN w.answers) <=> (id \in DOMAIN c.answers)
  <2>1. id < v.next BY <1>1, <1>2, <1>4
  <2> QED BY <1>4, <2>1 DEF Step, Grows
<1>5. ASSUME NEW id \in DOMAIN w.requests, id < c.next
      PROVE  id \in DOMAIN c.requests /\ c.requests[id].retries <= w.requests[id].retries
  <2>1. id \in Nat BY DEF Step, Formed
  <2>2. id < v.next BY <1>1, <1>2, <1>5, <2>1
  <2>3. id \in DOMAIN v.requests /\ v.requests[id].retries <= w.requests[id].retries BY <2>2 DEF Step, Grows
  <2>4. id \in DOMAIN c.requests /\ c.requests[id].retries <= v.requests[id].retries
    BY <1>5, <2>3 DEF Step, Grows
  <2>5. c.requests[id].retries \in Nat /\ v.requests[id].retries \in Nat /\ w.requests[id].retries \in Nat
    BY <2>3, <2>4 DEF Step, Formed
  <2> QED BY <2>3, <2>4, <2>5
<1> QED BY <1>3, <1>4, <1>5 DEF Step, Grows

(* A step that touches neither requests nor answers. *)
Same(c, v) ==
  /\ DOMAIN v = ClientFields /\ v.next = c.next /\ v.inspections = c.inspections
  /\ v.requests = c.requests /\ v.answers = c.answers

LEMMA SameStep ==
  ASSUME NEW M, NEW c, NEW v, Formed(c), Reported(c, M), Same(c, v)
  PROVE  Step(c, v, M)
<1>1. Formed(v) BY DEF Same, Formed
<1>2. Reported(v, M) BY DEF Same, Reported
<1>3. Grows(c, v)
  <2>1. c.next <= v.next BY DEF Same, Formed
  <2>2. \A id \in DOMAIN c.requests : c.requests[id].retries <= c.requests[id].retries BY DEF Formed
  <2> QED BY <2>1, <2>2 DEF Same, Grows
<1> QED BY <1>1, <1>2, <1>3 DEF Step

LEMMA SnapshotStep ==
  ASSUME NEW M, NEW c, NEW ok, Formed(c), Reported(c, M)
  PROVE  Step(c, finishSnapshot(c, ok), M) /\ Same(c, finishSnapshot(c, ok))
<1>1. Same(c, finishSnapshot(c, ok)) BY DEF Same, finishSnapshot, Formed, ClientFields
<1> QED BY <1>1, SameStep

LEMMA FetchStep ==
  ASSUME NEW M, NEW c, NEW kind, NEW args, Formed(c), Reported(c, M), kind \in {"describe", "catalog"}
  PROVE  Step(c, requestDrive(c, kind, args), M)
<1> DEFINE q == [kind |-> kind, args |-> args, container |-> c.account, retries |-> 0, at |-> "timer"]
           t == insert(c.requests, c.next, q)
           g == requestDrive(c, kind, args)
<1>1. DOMAIN q = RequestFields /\ q.kind = kind /\ q.retries = 0 BY DEF RequestFields
<1>2. g = [c EXCEPT !.next = c.next + 1, !.requests = t] BY DEF requestDrive, Formed, ClientFields
<1> HIDE DEF q
<1>3. /\ DOMAIN t = DOMAIN c.requests \union {c.next} /\ t[c.next] = q
      /\ \A id \in DOMAIN c.requests : id # c.next => t[id] = c.requests[id]
  BY DEF insert
<1> HIDE DEF t, g
<1>4. /\ DOMAIN g = ClientFields /\ g.next = c.next + 1 /\ g.requests = t
      /\ g.inspections = c.inspections /\ g.answers = c.answers
  BY <1>2 DEF Formed, ClientFields
<1>5. c.next \in Nat /\ g.next \in Nat /\ c.next < g.next BY <1>4 DEF Formed
<1>6. \A id \in DOMAIN c.requests \union DOMAIN c.answers : id \in Nat /\ id < c.next /\ id < g.next /\ id # c.next
  <2> TAKE id \in DOMAIN c.requests \union DOMAIN c.answers
  <2>1. id \in Nat /\ id < c.next BY DEF Formed
  <2> QED BY <2>1, <1>5
<1>7. Formed(g)
  <2>1. ASSUME NEW id \in DOMAIN g.requests
        PROVE  /\ id \in Nat /\ id < g.next /\ DOMAIN g.requests[id] = RequestFields
               /\ g.requests[id].retries \in Nat /\ g.requests[id].kind \in Kinds
               /\ (id \in DOMAIN g.answers) <=> (g.requests[id].kind = "write")
    <3>1. CASE id = c.next
      <4>1. c.next \notin DOMAIN c.answers BY <1>6
      <4> QED BY <1>1, <1>3, <1>4, <1>5, <3>1, <4>1 DEF Kinds
    <3>2. CASE id # c.next
      <4>1. id \in DOMAIN c.requests /\ g.requests[id] = c.requests[id] BY <1>3, <1>4, <3>2
      <4> QED BY <1>4, <1>6, <4>1 DEF Formed
    <3> QED BY <3>1, <3>2
  <2> QED BY <1>4, <1>5, <1>6, <2>1 DEF Formed
<1>8. Reported(g, M) BY <1>4 DEF Reported
<1>9. Grows(c, g)
  <2>1. ASSUME NEW id \in DOMAIN g.requests, id < c.next
        PROVE id \in DOMAIN c.requests /\ c.requests[id].retries <= g.requests[id].retries
    <3>1. id # c.next BY <1>5, <2>1
    <3>2. id \in DOMAIN c.requests /\ g.requests[id] = c.requests[id] BY <1>3, <1>4, <3>1
    <3>3. c.requests[id].retries \in Nat BY <3>2 DEF Formed
    <3> QED BY <3>2, <3>3
  <2> QED BY <1>4, <1>5, <2>1 DEF Grows
<1> QED BY <1>7, <1>8, <1>9 DEF Step, g

LEMMA PageStep ==
  ASSUME NEW M, NEW c, Formed(c), Reported(c, M)
  PROVE  Step(c, catalogPage(c), M)
<1>1. CASE refused(c) BY <1>1, SnapshotStep DEF catalogPage
<1>2. CASE ~refused(c) BY <1>2, FetchStep DEF catalogPage
<1> QED BY <1>1, <1>2

LEMMA RefreshStep ==
  ASSUME NEW M, NEW c, Formed(c), Reported(c, M)
  PROVE  Step(c, refreshHost(c), M)
<1> DEFINE a == [c EXCEPT !.again = TRUE, !.owed = TRUE]
           s == [c EXCEPT !.snapshot = NewSnapshot, !.owed = FALSE]
<1>1. Same(c, a) /\ Same(c, s) /\ Same(c, c) BY DEF Same, Formed, ClientFields
<1>2. Step(c, a, M) /\ Step(c, s, M) /\ Step(c, c, M) BY <1>1, SameStep
<1>3. refreshHost(c) = IF ~connected(c) THEN c ELSE IF c.snapshot # None THEN a
        ELSE IF refused(c) THEN finishSnapshot(s, FALSE) ELSE requestDrive(s, "describe", None)
  BY DEF refreshHost
<1> HIDE DEF a, s
<1>4. Formed(s) /\ Reported(s, M) BY <1>2 DEF Step
<1>5. Step(s, finishSnapshot(s, FALSE), M) BY <1>4, SnapshotStep
<1>6. Step(s, requestDrive(s, "describe", None), M) BY <1>4, FetchStep
<1>7. Step(c, finishSnapshot(s, FALSE), M) BY <1>2, <1>5, StepTrans
<1>8. Step(c, requestDrive(s, "describe", None), M) BY <1>2, <1>6, StepTrans
<1> QED BY <1>2, <1>3, <1>7, <1>8

LEMMA CataloguedStep ==
  ASSUME NEW M, NEW c, NEW r, Formed(c), Reported(c, M)
  PROVE  Step(c, catalogued(c, r), M)
<1> DEFINE s == [revision |-> r.revision, cursor |-> r.cursor, keys |-> c.snapshot.keys \union r.entries]
           g == [c EXCEPT !.snapshot = s]
<1>1. CASE ~r.ok \/ ~validPage(c.snapshot, r) BY <1>1, SnapshotStep DEF catalogued
<1>2. CASE ~(~r.ok \/ ~validPage(c.snapshot, r))
  <2>1. catalogued(c, r) = IF r.cursor = 0 THEN finishSnapshot(g, TRUE) ELSE catalogPage(g)
    BY <1>2 DEF catalogued
  <2> HIDE DEF s
  <2>2. Same(c, g) BY DEF Same, Formed, ClientFields
  <2> HIDE DEF g
  <2>3. Step(c, g, M) BY <2>2, SameStep
  <2>4. Formed(g) /\ Reported(g, M) BY <2>3 DEF Step
  <2>5. Step(g, finishSnapshot(g, TRUE), M) /\ Step(g, catalogPage(g), M) BY <2>4, SnapshotStep, PageStep
  <2>6. Step(c, finishSnapshot(g, TRUE), M) BY <2>3, <2>5, StepTrans
  <2>7. Step(c, catalogPage(g), M) BY <2>3, <2>5, StepTrans
  <2> QED BY <2>1, <2>6, <2>7
<1> QED BY <1>1, <1>2

LEMMA StruckStep ==
  ASSUME NEW M, NEW c, NEW id, Formed(c), Reported(c, M)
  PROVE  LET g == [c EXCEPT !.requests = Restrict(@, DOMAIN @ \ {id})]
         IN Step(c, g, M) /\ g.answers = c.answers /\ g.next = c.next
<1> DEFINE t == Restrict(c.requests, DOMAIN c.requests \ {id})
           g == [c EXCEPT !.requests = t]
<1>1. DOMAIN t = DOMAIN c.requests \ {id} /\ \A x \in DOMAIN t : t[x] = c.requests[x] BY DEF Restrict
<1> HIDE DEF t
<1>2. /\ DOMAIN g = ClientFields /\ g.requests = t /\ g.next = c.next
      /\ g.inspections = c.inspections /\ g.answers = c.answers
  BY DEF Formed, ClientFields
<1> HIDE DEF g
<1>3. Formed(g) BY <1>1, <1>2 DEF Formed
<1>4. Reported(g, M) BY <1>2 DEF Reported
<1>5. Grows(c, g)
  <2>1. \A x \in DOMAIN c.requests : c.requests[x].retries <= c.requests[x].retries BY DEF Formed
  <2>2. c.next <= g.next BY <1>2 DEF Formed
  <2> QED BY <1>1, <1>2, <2>1, <2>2 DEF Grows
<1> QED BY <1>2, <1>3, <1>4, <1>5 DEF Step, g, t

LEMMA ReplyStep ==
  ASSUME NEW M, NEW c, NEW id, NEW word \in Outcomes, Formed(c), Reported(c, M), id \in DOMAIN c.answers,
         word = "write" => id \in M
  PROVE  Step(c, emit(c, id, word), M)
<1> DEFINE s == Append(c.answers[id], word)
           a == [c.answers EXCEPT ![id] = s]
           g == emit(c, id, word)
<1>1. c.answers[id] \in Seq(Outcomes) BY DEF Formed
<1>2. /\ s \in Seq(Outcomes) /\ Len(s) = Len(c.answers[id]) + 1 /\ s[Len(s)] = word
      /\ \A k \in 1..Len(c.answers[id]) : s[k] = c.answers[id][k]
  BY <1>1, AppendProperties
<1>3. \A k \in 1..Len(s) : s[k] = "write" => id \in M
  <2> TAKE k \in 1..Len(s)
  <2>1. Len(c.answers[id]) \in Nat BY <1>1, LenProperties
  <2>2. k \in 1..Len(c.answers[id]) \/ k = Len(s) BY <1>2, <2>1
  <2> QED BY <1>2, <2>2 DEF Reported
<1>4. g = [c EXCEPT !.answers = a] BY DEF emit
<1> HIDE DEF s
<1>5. /\ DOMAIN a = DOMAIN c.answers /\ a[id] = s
      /\ \A x \in DOMAIN a : x # id => a[x] = c.answers[x]
  OBVIOUS
<1> HIDE DEF a, g
<1>6. /\ DOMAIN g = ClientFields /\ g.requests = c.requests /\ g.next = c.next
      /\ g.inspections = c.inspections /\ g.answers = a
  BY <1>4 DEF Formed, ClientFields
<1>7. \A x \in DOMAIN a : a[x] \in Seq(Outcomes) BY <1>2, <1>5 DEF Formed
<1>8. Formed(g) BY <1>5, <1>6, <1>7 DEF Formed
<1>9. Reported(g, M) BY <1>3, <1>5, <1>6 DEF Reported
<1>10. Grows(c, g)
  <2>1. \A x \in DOMAIN c.requests : c.requests[x].retries <= c.requests[x].retries BY DEF Formed
  <2>2. c.next <= g.next BY <1>6 DEF Formed
  <2> QED BY <1>5, <1>6, <2>1, <2>2 DEF Grows
<1> QED BY <1>8, <1>9, <1>10 DEF Step, g

(* The answer to a request; a write that succeeded is in M. *)
LEMMA FinishDriveStep ==
  ASSUME NEW M, NEW c, NEW id, NEW r, Formed(c), Reported(c, M), r.ok /\ id \in DOMAIN c.answers => id \in M
  PROVE  Step(c, finishDrive(c, id, r), M)
<1> DEFINE g == [c EXCEPT !.requests = Restrict(@, DOMAIN @ \ {id})]
           q == c.requests[id]
<1>1. CASE id \notin DOMAIN c.requests
  <2>1. Same(c, c) BY DEF Same, Formed
  <2>2. Step(c, c, M) BY <2>1, SameStep
  <2> QED BY <1>1, <2>2 DEF finishDrive
<1>2. CASE id \in DOMAIN c.requests
  <2>1. Step(c, g, M) /\ g.answers = c.answers /\ g.next = c.next BY StruckStep
  <2>2. finishDrive(c, id, r) = completion(g, q, id, r) BY <1>2 DEF finishDrive
  <2> HIDE DEF g
  <2>3. Formed(g) /\ Reported(g, M) BY <2>1 DEF Step
  <2>4. q.kind \in Kinds /\ (q.kind = "write" => id \in DOMAIN c.answers) BY <1>2 DEF Formed
  <2> HIDE DEF q
  <2>5. CASE q.kind = "describe"
    <3>1. completion(g, q, id, r) = IF r.ok THEN catalogPage(g) ELSE finishSnapshot(g, FALSE)
      BY <2>5 DEF completion
    <3>2. Step(g, catalogPage(g), M) /\ Step(g, finishSnapshot(g, FALSE), M) BY <2>3, PageStep, SnapshotStep
    <3>3. Step(g, completion(g, q, id, r), M) BY <3>1, <3>2
    <3> QED BY <2>1, <2>2, <3>3, StepTrans
  <2>6. CASE q.kind = "catalog"
    <3>1. completion(g, q, id, r) = catalogued(g, r) BY <2>6 DEF completion
    <3>2. Step(g, catalogued(g, r), M) BY <2>3, CataloguedStep
    <3> QED BY <2>1, <2>2, <3>1, <3>2, StepTrans
  <2>7. CASE q.kind = "write"
    <3> DEFINE f == IF r.ok THEN refreshHost(g) ELSE g
               word == IF r.ok THEN "write" ELSE "error"
    <3>1. completion(g, q, id, r) = emit(f, id, word) BY <2>7 DEF completion
    <3>2. Same(g, g) BY <2>3 DEF Same, Formed
    <3>3. Step(g, refreshHost(g), M) /\ Step(g, g, M) BY <2>3, <3>2, RefreshStep, SameStep
    <3>4. Step(g, f, M) BY <3>3
    <3>5. word \in Outcomes /\ (word = "write" => id \in M) BY <2>4, <2>7 DEF Outcomes
    <3> HIDE DEF f, word
    <3>6. Formed(f) /\ Reported(f, M) BY <3>4 DEF Step
    <3>7. id \in DOMAIN f.answers
      <4>1. id \in DOMAIN c.answers BY <2>4, <2>7
      <4>2. id \in Nat /\ id < g.next BY <2>1, <4>1 DEF Formed
      <4> QED BY <2>1, <3>4, <4>1, <4>2 DEF Step, Grows
    <3>8. Step(f, emit(f, id, word), M) BY <3>5, <3>6, <3>7, ReplyStep
    <3>9. Step(g, emit(f, id, word), M) BY <2>3, <3>4, <3>8, StepTrans
    <3> QED BY <2>1, <2>2, <3>1, <3>9, StepTrans
  <2> QED BY <2>4, <2>5, <2>6, <2>7 DEF Kinds
<1> QED BY <1>1, <1>2

(* One request is polled, retried or sent. *)
LEMMA SetStep ==
  ASSUME NEW M, NEW c, NEW id, NEW n \in Nat, NEW where, Formed(c), Reported(c, M), id \in DOMAIN c.requests
  PROVE  LET g == [c EXCEPT !.requests[id].at = where, !.requests[id].retries = @ + n]
         IN Step(c, g, M)
<1> DEFINE q == [c.requests[id] EXCEPT !.at = where, !.retries = @ + n]
           t == [c.requests EXCEPT ![id] = q]
           g == [c EXCEPT !.requests[id].at = where, !.requests[id].retries = @ + n]
<1>1. g = [c EXCEPT !.requests = t] BY DEF Formed, ClientFields, RequestFields
<1>2. /\ DOMAIN q = RequestFields /\ q.kind = c.requests[id].kind /\ q.retries = c.requests[id].retries + n
  BY DEF Formed, RequestFields
<1> HIDE DEF q
<1>3. DOMAIN t = DOMAIN c.requests /\ t[id] = q /\ \A x \in DOMAIN t : x # id => t[x] = c.requests[x] OBVIOUS
<1> HIDE DEF t, g
<1>4. /\ DOMAIN g = ClientFields /\ g.requests = t /\ g.next = c.next
      /\ g.inspections = c.inspections /\ g.answers = c.answers
  BY <1>1 DEF Formed, ClientFields
<1>5. c.requests[id].retries \in Nat BY DEF Formed
<1>6. q.retries \in Nat /\ c.requests[id].retries <= q.retries BY <1>2, <1>5
<1>7. Formed(g) BY <1>2, <1>3, <1>4, <1>6 DEF Formed
<1>8. Reported(g, M) BY <1>4 DEF Reported
<1>9. Grows(c, g)
  <2>1. \A x \in DOMAIN c.requests : c.requests[x].retries <= c.requests[x].retries BY DEF Formed
  <2>2. c.next <= g.next BY <1>4 DEF Formed
  <2> QED BY <1>3, <1>4, <1>6, <2>1, <2>2 DEF Grows
<1> QED BY <1>7, <1>8, <1>9 DEF Step, g

LEMMA ReceiveStep ==
  ASSUME NEW M, NEW c, NEW id, NEW p, Formed(c), Reported(c, M),
         p.type \in {"busy", "pending", "error", "result"},
         p.type = "result" /\ p.result.ok /\ id \in DOMAIN c.answers => id \in M
  PROVE  Step(c, receiveDrive(c, id, p), M)
<1>1. Same(c, c) BY DEF Same, Formed
<1>2. Step(c, c, M) BY <1>1, SameStep
<1>3. ~Failure.ok BY DEF Failure
<1>4. Step(c, finishDrive(c, id, Failure), M) BY <1>3, FinishDriveStep
<1>5. CASE id \in DOMAIN c.requests /\ connected(c)
  <2>1. CASE p.type = "busy" BY <1>5, <2>1, SetStep DEF receiveDrive, later
  <2>2. CASE p.type = "pending" BY <1>5, <2>2, SetStep DEF receiveDrive, later
  <2>3. CASE p.type = "error" BY <1>5, <1>4, <2>3 DEF receiveDrive
  <2>4. CASE p.type = "result"
    <3> DEFINE r == IF p.result.ok /\ p.result.container # c.account THEN Failure ELSE p.result
    <3>1. receiveDrive(c, id, p) = finishDrive(c, id, r) BY <1>5, <2>4 DEF receiveDrive
    <3>2. r.ok /\ id \in DOMAIN c.answers => id \in M BY <1>3, <2>4
    <3> HIDE DEF r
    <3> QED BY <3>1, <3>2, FinishDriveStep
  <2> QED BY <2>1, <2>2, <2>3, <2>4
<1> QED BY <1>2, <1>4, <1>5 DEF receiveDrive

LEMMA ClearStep ==
  ASSUME NEW M, NEW c, Formed(c), Reported(c, M)
  PROVE  Step(c, clearDrive(c), M)
<1> DEFINE ids == {id \in DOMAIN c.requests : id \in DOMAIN c.answers} \union DOMAIN c.inspections
           a == [id \in DOMAIN c.answers |->
                   IF id \in ids THEN Append(c.answers[id], "error") ELSE c.answers[id]]
           g == clearDrive(c)
<1>1. g = [c EXCEPT !.snapshot = None, !.again = FALSE, !.owed = FALSE, !.mirror = NoMirror,
                    !.requests = Empty, !.inspections = Empty, !.answers = a]
  BY DEF clearDrive, Formed, ClientFields
<1>2. ASSUME NEW id \in DOMAIN c.answers
      PROVE  /\ a[id] \in Seq(Outcomes)
             /\ \A k \in 1..Len(a[id]) : a[id][k] = "write" => id \in M
  <2> DEFINE old == c.answers[id]
             s == Append(old, "error")
  <2>1. old \in Seq(Outcomes) /\ \A k \in 1..Len(old) : old[k] = "write" => id \in M BY DEF Formed, Reported
  <2>2. "error" \in Outcomes BY DEF Outcomes
  <2>3. a[id] = s \/ a[id] = old OBVIOUS
  <2> HIDE DEF old
  <2>4. /\ s \in Seq(Outcomes) /\ Len(s) = Len(old) + 1 /\ s[Len(s)] = "error"
        /\ \A k \in 1..Len(old) : s[k] = old[k]
    BY <2>1, <2>2, AppendProperties
  <2>5. Len(old) \in Nat BY <2>1, LenProperties
  <2> HIDE DEF s
  <2>6. \A k \in 1..Len(s) : s[k] = "write" => id \in M
    <3> TAKE k \in 1..Len(s)
    <3>1. k \in 1..Len(old) \/ k = Len(s) BY <2>4, <2>5
    <3> QED BY <2>1, <2>4, <3>1
  <2> HIDE DEF a
  <2> QED BY <2>1, <2>3, <2>4, <2>6
<1>3. DOMAIN a = DOMAIN c.answers OBVIOUS
<1> HIDE DEF a, g
<1>4. /\ DOMAIN g = ClientFields /\ g.requests = Empty /\ g.next = c.next
      /\ g.inspections = Empty /\ g.answers = a
  BY <1>1 DEF Formed, ClientFields
<1>5. DOMAIN Empty = {} BY DEF Empty
<1>6. Formed(g) BY <1>2, <1>3, <1>4, <1>5 DEF Formed
<1>7. Reported(g, M) BY <1>2, <1>3, <1>4 DEF Reported
<1>8. Grows(c, g)
  <2>1. c.next <= g.next BY <1>4 DEF Formed
  <2> QED BY <1>3, <1>4, <1>5, <2>1 DEF Grows
<1> QED BY <1>6, <1>7, <1>8 DEF Step, g

LEMMA TransportStep ==
  ASSUME NEW M, NEW c, Formed(c), Reported(c, M)
  PROVE  Step(c, transportStop(c), M)
<1> DEFINE g == [c EXCEPT !.online = FALSE]
<1>1. Same(c, g) BY DEF Same, Formed, ClientFields
<1>2. transportStop(c) = clearDrive(g) BY DEF transportStop
<1> HIDE DEF g
<1>3. Step(c, g, M) BY <1>1, SameStep
<1>4. Step(g, clearDrive(g), M) BY <1>3, ClearStep DEF Step
<1> QED BY <1>2, <1>3, <1>4, StepTrans

LEMMA PeersStep ==
  ASSUME NEW M, NEW c, NEW paired, Formed(c), Reported(c, M)
  PROVE  Step(c, peers(c, paired), M)
<1> DEFINE g == [c EXCEPT !.online = paired]
<1>1. Same(c, g) BY DEF Same, Formed, ClientFields
<1>2. peers(c, paired) \in {g, clearDrive(g), refreshHost(g)} BY DEF peers
<1> HIDE DEF g
<1>3. Step(c, g, M) BY <1>1, SameStep
<1>4. Step(g, clearDrive(g), M) /\ Step(g, refreshHost(g), M) BY <1>3, ClearStep, RefreshStep DEF Step
<1>5. Step(c, clearDrive(g), M) BY <1>3, <1>4, StepTrans
<1>6. Step(c, refreshHost(g), M) BY <1>3, <1>4, StepTrans
<1> QED BY <1>2, <1>3, <1>5, <1>6

LEMMA UpdateStep ==
  ASSUME NEW M, NEW c, NEW paired, Formed(c), Reported(c, M)
  PROVE  Step(c, update(c, paired), M)
<1> DEFINE g == [c EXCEPT !.registered = c.account]
<1>1. Same(c, g) /\ Same(c, c) BY DEF Same, Formed, ClientFields
<1>2. update(c, paired) \in {transportStop(c), peers(transportStop(g), paired), peers(c, paired)}
  BY DEF update
<1> HIDE DEF g
<1>3. Step(c, g, M) BY <1>1, SameStep
<1>4. Step(g, transportStop(g), M) BY <1>3, TransportStep DEF Step
<1>5. Step(transportStop(g), peers(transportStop(g), paired), M) BY <1>4, PeersStep DEF Step
<1>6. Step(g, peers(transportStop(g), paired), M)
  <2>1. Formed(g) BY <1>3 DEF Step
  <2> QED BY <2>1, <1>4, <1>5, StepTrans
<1>7. Step(c, peers(transportStop(g), paired), M) BY <1>3, <1>6, StepTrans
<1> QED BY <1>2, <1>7, TransportStep, PeersStep

(* writeHostFile: a public call has an empty list of answers. *)
LEMMA WriteStep ==
  ASSUME NEW M, NEW c, NEW p, Formed(c), Reported(c, M)
  PROVE  Step(c, requestDrive([c EXCEPT !.answers = insert(@, c.next, <<>>)], "write", p), M)
<1> DEFINE a == insert(c.answers, c.next, <<>>)
           f == [c EXCEPT !.answers = insert(@, c.next, <<>>)]
           q == [kind |-> "write", args |-> p, container |-> f.account, retries |-> 0, at |-> "timer"]
           t == insert(f.requests, f.next, q)
           g == requestDrive(f, "write", p)
<1>1. f = [c EXCEPT !.answers = a] OBVIOUS
<1>2. DOMAIN q = RequestFields /\ q.kind = "write" /\ q.retries = 0 BY DEF RequestFields
<1> HIDE DEF q, a
<1>3. /\ DOMAIN f = ClientFields /\ f.next = c.next /\ f.requests = c.requests
      /\ f.inspections = c.inspections /\ f.answers = a
  BY <1>1 DEF Formed, ClientFields
<1> HIDE DEF f
<1>4. g = [f EXCEPT !.next = f.next + 1, !.requests = t] BY <1>3 DEF requestDrive, ClientFields, q
<1>5. /\ DOMAIN t = DOMAIN c.requests \union {c.next} /\ t[c.next] = q
      /\ \A id \in DOMAIN c.requests : id # c.next => t[id] = c.requests[id]
  BY <1>3 DEF insert
<1>6. /\ DOMAIN a = DOMAIN c.answers \union {c.next} /\ a[c.next] = <<>>
      /\ \A id \in DOMAIN c.answers : id # c.next => a[id] = c.answers[id]
  BY DEF insert, a
<1> HIDE DEF t, g
<1>7. /\ DOMAIN g = ClientFields /\ g.next = c.next + 1 /\ g.requests = t
      /\ g.inspections = c.inspections /\ g.answers = a
  BY <1>3, <1>4 DEF ClientFields
<1>8. c.next \in Nat /\ g.next \in Nat /\ c.next < g.next BY <1>7 DEF Formed
<1>9. \A id \in DOMAIN c.requests \union DOMAIN c.answers : id \in Nat /\ id < c.next /\ id < g.next /\ id # c.next
  <2> TAKE id \in DOMAIN c.requests \union DOMAIN c.answers
  <2>1. id \in Nat /\ id < c.next BY DEF Formed
  <2> QED BY <2>1, <1>8
<1>10. Formed(g)
  <2>1. ASSUME NEW id \in DOMAIN g.requests
        PROVE  /\ id \in Nat /\ id < g.next /\ DOMAIN g.requests[id] = RequestFields
               /\ g.requests[id].retries \in Nat /\ g.requests[id].kind \in Kinds
               /\ (id \in DOMAIN g.answers) <=> (g.requests[id].kind = "write")
    <3>1. CASE id = c.next BY <1>2, <1>5, <1>6, <1>7, <1>8, <3>1 DEF Kinds
    <3>2. CASE id # c.next
      <4>1. id \in DOMAIN c.requests /\ g.requests[id] = c.requests[id] BY <1>5, <1>7, <3>2
      <4>2. (id \in DOMAIN g.answers) <=> (id \in DOMAIN c.answers) BY <1>6, <1>7, <3>2
      <4> QED BY <1>7, <1>9, <4>1, <4>2 DEF Formed
    <3> QED BY <3>1, <3>2
  <2>2. ASSUME NEW id \in DOMAIN g.answers PROVE id \in Nat /\ id < g.next /\ g.answers[id] \in Seq(Outcomes)
    <3>1. CASE id = c.next BY <1>6, <1>7, <1>8, <3>1, EmptySeq
    <3>2. CASE id # c.next BY <1>6, <1>7, <1>9, <3>2 DEF Formed
    <3> QED BY <3>1, <3>2
  <2> QED BY <1>7, <1>8, <2>1, <2>2 DEF Formed
<1>11. Reported(g, M)
  <2> SUFFICES ASSUME NEW id \in DOMAIN g.answers, NEW k \in 1..Len(g.answers[id]), g.answers[id][k] = "write"
               PROVE  id \in M
    BY DEF Reported
  <2>1. CASE id = c.next BY <1>6, <1>7, <2>1, EmptySeq
  <2>2. CASE id # c.next BY <1>6, <1>7, <2>2 DEF Reported
  <2> QED BY <2>1, <2>2
<1>12. Grows(c, g)
  <2>1. ASSUME NEW id \in DOMAIN g.requests, id < c.next
        PROVE id \in DOMAIN c.requests /\ c.requests[id].retries <= g.requests[id].retries
    <3>1. id # c.next BY <1>8, <2>1
    <3>2. id \in DOMAIN c.requests /\ g.requests[id] = c.requests[id] BY <1>5, <1>7, <3>1
    <3>3. c.requests[id].retries \in Nat BY <3>2 DEF Formed
    <3> QED BY <3>2, <3>3
  <2>2. ASSUME NEW id \in Nat, id < c.next PROVE (id \in DOMAIN g.answers) <=> (id \in DOMAIN c.answers)
    <3>1. id # c.next BY <1>8, <2>2
    <3> QED BY <1>6, <1>7, <3>1
  <2> QED BY <1>7, <1>8, <2>1, <2>2 DEF Grows
<1> QED BY <1>10, <1>11, <1>12 DEF Step, g, f

-----------------------------------------------------------------------------
(* The host.  A token names a request as it is now, or as it was before a retry. *)
Named(c, t) ==
  /\ t \in Nat \X Nat /\ t[1] < c.next
  /\ t[1] \in DOMAIN c.requests => t[2] <= c.requests[t[1]].retries

(* Nobody waits for the answer to t any more, or ever will. *)
Dead(c, t) == t[1] \in DOMAIN c.requests => c.requests[t[1]].retries # t[2]

Asks(c, t, q) == Named(c, t) /\ ((t[1] \in DOMAIN c.answers) <=> (q.kind = "write"))

(* r as the answer to the request id: a write that succeeded is in M. *)
Backed(c, id, r, M) == r.ok /\ id \in DOMAIN c.answers => id \in M

Wire(c, n, M) ==
  \A m \in n :
    /\ m.to = "host" => m.token[1] = m.id /\ Asks(c, m.token, m.request)
    /\ m.to = "client" => /\ m.id \in Nat /\ m.id < c.next
                          /\ m.response.type \in {"busy", "pending", "error", "result"}
                          /\ m.response.type = "result" => Backed(c, m.id, m.response.result, M)

JobFields == {"finished", "result", "runs", "created"}

Entry(c, t, j, M) ==
  /\ Named(c, t) /\ DOMAIN j = JobFields
  /\ j.runs \in {0, 1} /\ Backed(c, t[1], j.result, M)
  /\ j.finished /\ j.runs = 0 => ~j.result.ok /\ Dead(c, t)

Table(c, jobs, M) == \A t \in DOMAIN jobs : Entry(c, t, jobs[t], M)

(* Tasks wait in the worker's queue and in its timers, reports in the controller's queue; their
   generations are not newer than the host's. *)
Listed(s) == \E S : s \in Seq(S)
Task(c, e, g) == e.type = "job" => e.gen \in Nat /\ e.gen <= g /\ Asks(c, e.token, e.request)
Report(c, s, g, M) ==
  s.type = "result" => s.gen \in Nat /\ s.gen <= g /\ Named(c, s.token) /\ Backed(c, s.token[1], s.result, M)
Tasks(c, es, ts, g) ==
  /\ Listed(es) /\ \A i \in DOMAIN es : Task(c, es[i], g)
  /\ \A e \in ts : e.type = "job" /\ Task(c, e, g)
Reports(c, ss, g, M) == Listed(ss) /\ \A i \in DOMAIN ss : Report(c, ss[i], g, M)

(* Those of the current generation. *)
IsTask(e, g) == e.type = "job" /\ e.gen = g
IsReport(s, g) == s.type = "result" /\ s.gen = g

(* No two of them are for the same job. *)
Single(es, ts, ss, g) ==
  /\ \A i, j \in DOMAIN es : IsTask(es[i], g) /\ IsTask(es[j], g) /\ es[i].token = es[j].token => i = j
  /\ \A e, f \in ts : IsTask(e, g) /\ IsTask(f, g) /\ e.token = f.token => e = f
  /\ \A i, j \in DOMAIN ss : IsReport(ss[i], g) /\ IsReport(ss[j], g) /\ ss[i].token = ss[j].token => i = j
  /\ \A i \in DOMAIN es, e \in ts : IsTask(es[i], g) /\ IsTask(e, g) => es[i].token # e.token
  /\ \A i \in DOMAIN es, j \in DOMAIN ss : IsTask(es[i], g) /\ IsReport(ss[j], g) => es[i].token # ss[j].token
  /\ \A e \in ts, j \in DOMAIN ss : IsTask(e, g) /\ IsReport(ss[j], g) => e.token # ss[j].token

(* The job of a task has not been executed; that of a report has, or has timed out. *)
Unstarted(jobs, e) == e.token \in DOMAIN jobs /\ ~jobs[e.token].finished /\ jobs[e.token].runs = 0
Ran(c, jobs, s) ==
  /\ s.token \in DOMAIN jobs /\ ~jobs[s.token].finished
  /\ jobs[s.token].runs = 1 \/ (jobs[s.token].runs = 0 /\ ~s.result.ok /\ Dead(c, s.token))

Waiting(c, jobs, es, ts, ss, g) ==
  /\ \A i \in DOMAIN es : IsTask(es[i], g) => Unstarted(jobs, es[i])
  /\ \A e \in ts : IsTask(e, g) => Unstarted(jobs, e)
  /\ \A i \in DOMAIN ss : IsReport(ss[i], g) => Ran(c, jobs, ss[i])

HostFields == {"gen", "path", "ready", "opening", "jobs"}

Device ==
  /\ DOMAIN host = HostFields /\ host.gen \in Nat
  /\ DOMAIN worker = {"gen", "open", "timers"}

Parties == Formed(client) /\ Reported(client, made) /\ Wire(client, net, made)
Work == 
  /\ Table(client, host.jobs, made)
  /\ Tasks(client, events, worker.timers, host.gen) /\ Reports(client, signals, host.gen, made)
  /\ Single(events, worker.timers, signals, host.gen)
  /\ Waiting(client, host.jobs, events, worker.timers, signals, host.gen)

JobInv == Device /\ Parties /\ Work

LEMMA JobInitially == DriveInit => JobInv
<1> SUFFICES ASSUME DriveInit PROVE JobInv OBVIOUS
<1>1. PICK d \in Container : client = NewClient(d) BY DEF DriveInit
<1>2. DOMAIN Empty = {} BY DEF Empty
<1>3. Parties
  <2>1. Formed(client) BY <1>1, <1>2 DEF NewClient, Formed, ClientFields
  <2>2. Reported(client, made) BY <1>1, <1>2 DEF NewClient, Reported
  <2>3. Wire(client, net, made) BY DEF DriveInit, Wire
  <2> QED BY <2>1, <2>2, <2>3 DEF Parties
<1>4. Device BY DEF DriveInit, Device, HostFields
<1>5. host.jobs = Empty /\ events = <<>> /\ signals = <<>> /\ worker.timers = {} BY DEF DriveInit
<1>6. DOMAIN events = {} /\ DOMAIN signals = {} BY <1>5
<1>7. Listed(<<>>) BY EmptySeq DEF Listed
<1>8. Work BY <1>2, <1>5, <1>6, <1>7 DEF Work, Table, Tasks, Reports, Single, Waiting
<1> QED BY <1>3, <1>4, <1>8 DEF JobInv

(* What a step of the client leaves true of what others know of its requests. *)
LEMMA NamedStable ==
  ASSUME NEW c, NEW v, NEW t, Formed(c), Formed(v), Grows(c, v), Named(c, t)
  PROVE  /\ Named(v, t) /\ (Dead(c, t) => Dead(v, t))
         /\ (t[1] \in DOMAIN v.answers) <=> (t[1] \in DOMAIN c.answers)
<1>1. t \in Nat \X Nat /\ t[1] < c.next BY DEF Named
<1>2. t[1] \in Nat /\ t[2] \in Nat BY <1>1
<1>3. c.next \in Nat /\ v.next \in Nat /\ c.next <= v.next BY DEF Formed, Grows
<1>4. t[1] < v.next BY <1>1, <1>2, <1>3
<1>5. ASSUME t[1] \in DOMAIN v.requests
      PROVE  /\ t[1] \in DOMAIN c.requests /\ t[2] <= v.requests[t[1]].retries
             /\ c.requests[t[1]].retries # t[2] => v.requests[t[1]].retries # t[2]
  <2>1. t[1] \in DOMAIN c.requests /\ c.requests[t[1]].retries <= v.requests[t[1]].retries
    BY <1>1, <1>5 DEF Grows
  <2>2. c.requests[t[1]].retries \in Nat /\ v.requests[t[1]].retries \in Nat BY <1>5, <2>1 DEF Formed
  <2>3. t[2] <= c.requests[t[1]].retries BY <2>1 DEF Named
  <2> QED BY <1>2, <2>1, <2>2, <2>3
<1>6. Named(v, t) BY <1>1, <1>4, <1>5 DEF Named
<1>7. Dead(c, t) => Dead(v, t) BY <1>5 DEF Dead
<1> QED BY <1>1, <1>2, <1>6, <1>7 DEF Grows

LEMMA ClientKeeps ==
  ASSUME NEW c, NEW v, NEW M, Formed(c), Formed(v), Grows(c, v)
  PROVE  /\ \A n : Wire(c, n, M) => Wire(v, n, M)
         /\ \A jobs : Table(c, jobs, M) => Table(v, jobs, M)
         /\ \A es, ts, g : Tasks(c, es, ts, g) => Tasks(v, es, ts, g)
         /\ \A ss, g : Reports(c, ss, g, M) => Reports(v, ss, g, M)
<1>1. \A t, q : Asks(c, t, q) => Asks(v, t, q) BY NamedStable DEF Asks
<1>2. \A t, r : Named(c, t) /\ Backed(c, t[1], r, M) => Named(v, t) /\ Backed(v, t[1], r, M)
  BY NamedStable DEF Backed
<1>3. ASSUME NEW n, Wire(c, n, M) PROVE Wire(v, n, M)
  <2> SUFFICES ASSUME NEW m \in n, m.to = "client"
               PROVE  /\ m.id \in Nat /\ m.id < v.next
                      /\ m.response.type \in {"busy", "pending", "error", "result"}
                      /\ m.response.type = "result" => Backed(v, m.id, m.response.result, M)
    BY <1>1, <1>3 DEF Wire
  <2>1. /\ m.id \in Nat /\ m.id < c.next
        /\ m.response.type \in {"busy", "pending", "error", "result"}
        /\ m.response.type = "result" => Backed(c, m.id, m.response.result, M)
    BY <1>3 DEF Wire
  <2>2. c.next \in Nat /\ v.next \in Nat /\ c.next <= v.next BY DEF Formed, Grows
  <2>3. m.id < v.next BY <2>1, <2>2
  <2>4. (m.id \in DOMAIN v.answers) <=> (m.id \in DOMAIN c.answers) BY <2>1 DEF Grows
  <2> QED BY <2>1, <2>3, <2>4 DEF Backed
<1>4. ASSUME NEW jobs, Table(c, jobs, M) PROVE Table(v, jobs, M)
  <2> SUFFICES ASSUME NEW t \in DOMAIN jobs PROVE Entry(v, t, jobs[t], M) BY DEF Table
  <2>1. Entry(c, t, jobs[t], M) BY <1>4 DEF Table
  <2>2. Named(c, t) BY <2>1 DEF Entry
  <2>3. Named(v, t) /\ (Dead(c, t) => Dead(v, t)) BY <2>2, NamedStable
  <2> QED BY <1>2, <2>1, <2>2, <2>3 DEF Entry
<1>5. ASSUME NEW es, NEW ts, NEW g, Tasks(c, es, ts, g) PROVE Tasks(v, es, ts, g)
  BY <1>1, <1>5 DEF Tasks, Task
<1>6. ASSUME NEW ss, NEW g, Reports(c, ss, g, M) PROVE Reports(v, ss, g, M)
  BY <1>2, <1>6 DEF Reports, Report
<1> QED BY <1>3, <1>4, <1>5, <1>6

LEMMA ClientWaits ==
  ASSUME NEW c, NEW v, NEW M, NEW jobs, NEW es, NEW ts, NEW ss, NEW g,
         Formed(c), Formed(v), Grows(c, v), Table(c, jobs, M), Waiting(c, jobs, es, ts, ss, g)
  PROVE  Waiting(v, jobs, es, ts, ss, g)
<1>1. \A t \in DOMAIN jobs : Dead(c, t) => Dead(v, t) BY NamedStable DEF Table, Entry
<1> QED BY <1>1 DEF Waiting, Ran

-----------------------------------------------------------------------------
(* The steps of the client. *)
LEMMA ClientMoves ==
  ASSUME JobInv, Step(client, client', made), Wire(client', net', made), UNCHANGED hostVars
  PROVE  JobInv'
<1>1. Formed(client) /\ Formed(client') /\ Reported(client', made) /\ Grows(client, client')
  BY DEF JobInv, Parties, Step
<1>2. Device' BY DEF JobInv, Device, hostVars
<1>3. Parties' BY <1>1 DEF Parties, hostVars
<1>4. /\ Table(client', host.jobs, made) /\ Tasks(client', events, worker.timers, host.gen)
      /\ Reports(client', signals, host.gen, made)
  BY <1>1, ClientKeeps DEF JobInv, Work
<1>5. Waiting(client', host.jobs, events, worker.timers, signals, host.gen)
  BY <1>1, ClientWaits DEF JobInv, Work
<1>6. Work' BY <1>4, <1>5 DEF JobInv, Work, hostVars
<1> QED BY <1>2, <1>3, <1>6 DEF JobInv

LEMMA ClientQuiet ==
  ASSUME JobInv, Step(client, client', made), net' = net, UNCHANGED hostVars
  PROVE  JobInv'
<1>1. Wire(client', net', made) BY ClientKeeps DEF JobInv, Parties, Step
<1> QED BY <1>1, ClientMoves

LEMMA ClientActs ==
  ASSUME JobInv, NEW p, NEW id, NEW d,
         Call(p) \/ RefreshDue \/ Update \/ Deadline(id) \/ AccountChanged(d)
  PROVE  JobInv'
<1>1. Formed(client) /\ Reported(client, made) BY DEF JobInv, Parties
<1>2. CASE Call(p)
  <2>1. Step(client, client', made) BY <1>1, <1>2, WriteStep DEF Call
  <2> QED BY <1>2, <2>1, ClientQuiet DEF Call
<1>3. CASE RefreshDue
  <2> DEFINE g == [client EXCEPT !.due = @ - 1]
  <2>1. Same(client, g) BY <1>1 DEF Same, Formed, ClientFields
  <2>2. client' = refreshHost(g) BY <1>3 DEF RefreshDue
  <2> HIDE DEF g
  <2>3. Step(client, g, made) BY <1>1, <2>1, SameStep
  <2>4. Step(g, refreshHost(g), made) BY <2>3, RefreshStep DEF Step
  <2>5. Step(client, client', made) BY <1>1, <2>2, <2>3, <2>4, StepTrans
  <2> QED BY <1>3, <2>5, ClientQuiet DEF RefreshDue
<1>4. CASE Update
  <2>1. Step(client, client', made) BY <1>1, <1>4, UpdateStep DEF Update
  <2> QED BY <1>4, <2>1, ClientQuiet DEF Update
<1>5. CASE Deadline(id)
  <2>1. ~Failure.ok BY DEF Failure
  <2>2. Step(client, client', made) BY <1>1, <1>5, <2>1, FinishDriveStep DEF Deadline
  <2> QED BY <1>5, <2>2, ClientQuiet DEF Deadline
<1>6. CASE AccountChanged(d)
  <2> DEFINE g == [client EXCEPT !.account = d]
  <2>1. Same(client, g) BY <1>1 DEF Same, Formed, ClientFields
  <2>2. client' = update(g, reachable) BY <1>6 DEF AccountChanged
  <2> HIDE DEF g
  <2>3. Step(client, g, made) BY <1>1, <2>1, SameStep
  <2>4. Step(g, update(g, reachable), made) BY <2>3, UpdateStep DEF Step
  <2>5. Step(client, client', made) BY <1>1, <2>2, <2>3, <2>4, StepTrans
  <2> QED BY <1>6, <2>5, ClientQuiet DEF AccountChanged
<1> QED BY <1>2, <1>3, <1>4, <1>5, <1>6

LEMMA ClientReceives == ASSUME JobInv, NEW m, Receive(m) PROVE JobInv'
<1>1. Formed(client) /\ Reported(client, made) /\ Wire(client, net, made) BY DEF JobInv, Parties
<1>2. /\ m \in net /\ m.to = "client" /\ net' = net \ {m} /\ UNCHANGED hostVars
      /\ client' = receiveDrive(client, m.id, m.response)
  BY DEF Receive
<1>3. /\ m.response.type \in {"busy", "pending", "error", "result"}
      /\ m.response.type = "result" => Backed(client, m.id, m.response.result, made)
  BY <1>1, <1>2 DEF Wire
<1>4. Step(client, client', made) BY <1>1, <1>2, <1>3, ReceiveStep DEF Backed
<1>5. Wire(client', net, made) BY <1>1, <1>4, ClientKeeps DEF Step
<1>6. Wire(client', net', made) BY <1>2, <1>5 DEF Wire
<1> QED BY <1>2, <1>4, <1>6, ClientMoves

LEMMA ClientSends == ASSUME JobInv, NEW id, transmitDrive(id) PROVE JobInv'
<1>1. Formed(client) /\ Reported(client, made) /\ Wire(client, net, made) BY DEF JobInv, Parties
<1>2. UNCHANGED hostVars /\ id \in DOMAIN client.requests BY DEF transmitDrive
<1> DEFINE q == client.requests[id]
           m == [to |-> "host", id |-> id, token |-> token(id), request |-> q]
<1>3. CASE client' = [client EXCEPT !.requests[id].at = "wire"] /\ net' = net \union {m}
  <2> DEFINE g == [client EXCEPT !.requests[id].at = "wire", !.requests[id].retries = @ + 0]
  <2>1. q.retries \in Nat /\ q.retries + 0 = q.retries BY <1>1, <1>2 DEF Formed
  <2>2. g = client'
    <3>1. [q EXCEPT !.at = "wire", !.retries = @ + 0] = [q EXCEPT !.at = "wire"]
      BY <1>1, <1>2, <2>1 DEF Formed, RequestFields
    <3> QED BY <1>1, <1>2, <1>3, <3>1 DEF Formed, ClientFields
  <2>3. Step(client, g, made) BY <1>1, <1>2, SetStep
  <2>4. Step(client, client', made) BY <2>2, <2>3
  <2>5. Wire(client', net, made) BY <1>1, <2>4, ClientKeeps DEF Step
  <2>6. Asks(client, token(id), q)
    <3>1. id \in Nat /\ id < client.next /\ ((id \in DOMAIN client.answers) <=> (q.kind = "write"))
      BY <1>1, <1>2 DEF Formed
    <3>2. token(id) = <<id, q.retries>> BY DEF token
    <3>3. q.retries <= q.retries BY <2>1
    <3> QED BY <2>1, <3>1, <3>2, <3>3 DEF Asks, Named
  <2>7. Asks(client', token(id), q) BY <1>1, <2>4, <2>6, NamedStable DEF Asks, Step
  <2>8. m.to = "host" /\ m.id = id /\ m.token = token(id) /\ m.request = q /\ token(id)[1] = id BY DEF token
  <2> HIDE DEF m
  <2>9. Wire(client', net', made) BY <1>3, <2>5, <2>7, <2>8 DEF Wire
  <2> QED BY <1>2, <2>4, <2>9, ClientMoves
<1>4. CASE client' = finishDrive(client, id, Failure) /\ net' = net
  <2>1. ~Failure.ok BY DEF Failure
  <2>2. Step(client, client', made) BY <1>1, <1>4, <2>1, FinishDriveStep
  <2> QED BY <1>2, <1>4, <2>2, ClientQuiet
<1> QED BY <1>3, <1>4 DEF transmitDrive

LEMMA WorldActs ==
  ASSUME JobInv, NEW d, NEW p, Link \/ HostEdit(d, p) \/ HostIndex(d)
  PROVE  JobInv'
<1>1. UNCHANGED <<client, net, host, worker, events, signals, made>> BY DEF Link, hostVars, HostEdit, HostIndex
<1> QED BY <1>1 DEF JobInv, Device, Parties, Work

-----------------------------------------------------------------------------
(* Queues. *)
LEMMA Appended ==
  ASSUME NEW s, NEW x, Listed(s)
  PROVE  /\ Listed(Append(s, x)) /\ DOMAIN Append(s, x) = DOMAIN s \union {Len(s) + 1}
         /\ Append(s, x)[Len(s) + 1] = x /\ Len(s) + 1 \notin DOMAIN s
         /\ \A i \in DOMAIN s : Append(s, x)[i] = s[i]
<1>1. PICK S : s \in Seq(S) BY DEF Listed
<1> DEFINE T == S \union {x}
<1>2. s \in Seq(T) /\ x \in T
  <2>1. Len(s) \in Nat /\ DOMAIN s = 1..Len(s) BY <1>1, LenProperties
  <2>2. \A i \in 1..Len(s) : s[i] \in T BY <1>1, ElementOfSeq
  <2> QED BY <1>1, <2>1, <2>2, SeqDef
<1> HIDE DEF T
<1>3. /\ Append(s, x) \in Seq(T) /\ Len(Append(s, x)) = Len(s) + 1
      /\ \A i \in 1..Len(s) : Append(s, x)[i] = s[i]
      /\ Append(s, x)[Len(s) + 1] = x
  BY <1>2, AppendProperties
<1>4. Len(s) \in Nat /\ DOMAIN s = 1..Len(s) /\ DOMAIN Append(s, x) = 1..(Len(s) + 1)
  BY <1>2, <1>3, LenProperties
<1>5. Listed(Append(s, x)) BY <1>3 DEF Listed
<1> QED BY <1>3, <1>4, <1>5

LEMMA Shortened ==
  ASSUME NEW s, Listed(s), s # <<>>
  PROVE  /\ Listed(Tail(s)) /\ 1 \in DOMAIN s /\ Head(s) = s[1]
         /\ \A i \in DOMAIN Tail(s) : i + 1 \in DOMAIN s /\ i + 1 # 1 /\ Tail(s)[i] = s[i + 1]
         /\ \A i, j \in DOMAIN Tail(s) : i + 1 = j + 1 => i = j
<1>1. PICK S : s \in Seq(S) BY DEF Listed
<1>2. /\ Head(s) \in S /\ Tail(s) \in Seq(S)
      /\ Len(Tail(s)) = Len(s) - 1 /\ \A i \in 1..Len(Tail(s)) : Tail(s)[i] = s[i + 1]
      /\ Head(s) = s[1]
  BY <1>1, HeadTailProperties
<1>3. Len(s) \in Nat /\ DOMAIN s = 1..Len(s) /\ DOMAIN Tail(s) = 1..(Len(s) - 1) /\ Len(s) # 0
  BY <1>1, <1>2, LenProperties, EmptySeq
<1>4. Listed(Tail(s)) BY <1>2 DEF Listed
<1> QED BY <1>2, <1>3, <1>4

(* No task and no report is for job t. *)
Clear(es, ts, ss, g, t) ==
  /\ \A i \in DOMAIN es : IsTask(es[i], g) => es[i].token # t
  /\ \A e \in ts : IsTask(e, g) => e.token # t
  /\ \A i \in DOMAIN ss : IsReport(ss[i], g) => ss[i].token # t

(* Both conditions on what waits. *)
Queued(c, jobs, es, ts, ss, g) == Single(es, ts, ss, g) /\ Waiting(c, jobs, es, ts, ss, g)

LEMMA TakeEvent ==
  ASSUME NEW c, NEW jobs, NEW es, NEW ts, NEW ss, NEW g, Queued(c, jobs, es, ts, ss, g), Listed(es), es # <<>>
  PROVE  /\ Queued(c, jobs, Tail(es), ts, ss, g)
         /\ IsTask(Head(es), g) =>
              Unstarted(jobs, Head(es)) /\ Clear(Tail(es), ts, ss, g, Head(es).token)
<1>1. /\ 1 \in DOMAIN es /\ Head(es) = es[1]
      /\ \A i \in DOMAIN Tail(es) : i + 1 \in DOMAIN es /\ i + 1 # 1 /\ Tail(es)[i] = es[i + 1]
      /\ \A i, j \in DOMAIN Tail(es) : i + 1 = j + 1 => i = j
  BY Shortened
<1>2. Single(Tail(es), ts, ss, g) BY <1>1 DEF Queued, Single
<1>3. Waiting(c, jobs, Tail(es), ts, ss, g) BY <1>1 DEF Queued, Waiting
<1>4. IsTask(Head(es), g) => Unstarted(jobs, Head(es)) BY <1>1 DEF Queued, Waiting
<1>5. IsTask(Head(es), g) => Clear(Tail(es), ts, ss, g, Head(es).token) BY <1>1 DEF Queued, Single, Clear
<1> QED BY <1>2, <1>3, <1>4, <1>5 DEF Queued

LEMMA TakeTimer ==
  ASSUME NEW c, NEW jobs, NEW es, NEW ts, NEW ss, NEW g, Queued(c, jobs, es, ts, ss, g), NEW e \in ts
  PROVE  /\ Queued(c, jobs, es, ts \ {e}, ss, g)
         /\ IsTask(e, g) => Unstarted(jobs, e) /\ Clear(es, ts \ {e}, ss, g, e.token)
<1>1. Single(es, ts \ {e}, ss, g) BY DEF Queued, Single
<1>2. Waiting(c, jobs, es, ts \ {e}, ss, g) BY DEF Queued, Waiting
<1>3. IsTask(e, g) => Unstarted(jobs, e) BY DEF Queued, Waiting
<1>4. IsTask(e, g) => Clear(es, ts \ {e}, ss, g, e.token) BY DEF Queued, Single, Clear
<1> QED BY <1>1, <1>2, <1>3, <1>4 DEF Queued

LEMMA TakeReport ==
  ASSUME NEW c, NEW jobs, NEW es, NEW ts, NEW ss, NEW g, Queued(c, jobs, es, ts, ss, g), Listed(ss), ss # <<>>
  PROVE  /\ Queued(c, jobs, es, ts, Tail(ss), g)
         /\ IsReport(Head(ss), g) =>
              Ran(c, jobs, Head(ss)) /\ Clear(es, ts, Tail(ss), g, Head(ss).token)
<1>1. /\ 1 \in DOMAIN ss /\ Head(ss) = ss[1]
      /\ \A i \in DOMAIN Tail(ss) : i + 1 \in DOMAIN ss /\ i + 1 # 1 /\ Tail(ss)[i] = ss[i + 1]
      /\ \A i, j \in DOMAIN Tail(ss) : i + 1 = j + 1 => i = j
  BY Shortened
<1>2. Single(es, ts, Tail(ss), g) BY <1>1 DEF Queued, Single
<1>3. Waiting(c, jobs, es, ts, Tail(ss), g) BY <1>1 DEF Queued, Waiting
<1>4. IsReport(Head(ss), g) => Ran(c, jobs, Head(ss)) BY <1>1 DEF Queued, Waiting
<1>5. IsReport(Head(ss), g) => Clear(es, ts, Tail(ss), g, Head(ss).token) BY <1>1 DEF Queued, Single, Clear
<1> QED BY <1>2, <1>3, <1>4, <1>5 DEF Queued

LEMMA PutEvent ==
  ASSUME NEW c, NEW jobs, NEW es, NEW ts, NEW ss, NEW g, NEW e, Queued(c, jobs, es, ts, ss, g), Listed(es),
         IsTask(e, g) => Unstarted(jobs, e) /\ Clear(es, ts, ss, g, e.token)
  PROVE  Queued(c, jobs, Append(es, e), ts, ss, g)
<1>1. /\ DOMAIN Append(es, e) = DOMAIN es \union {Len(es) + 1}
      /\ Append(es, e)[Len(es) + 1] = e /\ Len(es) + 1 \notin DOMAIN es
      /\ \A i \in DOMAIN es : Append(es, e)[i] = es[i]
  BY Appended
<1>2. Single(Append(es, e), ts, ss, g) BY <1>1 DEF Queued, Single, Clear
<1>3. Waiting(c, jobs, Append(es, e), ts, ss, g) BY <1>1 DEF Queued, Waiting
<1> QED BY <1>2, <1>3 DEF Queued

LEMMA PutTimer ==
  ASSUME NEW c, NEW jobs, NEW es, NEW ts, NEW ss, NEW g, NEW e, Queued(c, jobs, es, ts, ss, g),
         Unstarted(jobs, e), Clear(es, ts, ss, g, e.token)
  PROVE  Queued(c, jobs, es, ts \union {e}, ss, g)
<1>1. Single(es, ts \union {e}, ss, g) BY DEF Queued, Single, Clear
<1>2. Waiting(c, jobs, es, ts \union {e}, ss, g) BY DEF Queued, Waiting
<1> QED BY <1>1, <1>2 DEF Queued

LEMMA PutReport ==
  ASSUME NEW c, NEW jobs, NEW es, NEW ts, NEW ss, NEW g, NEW s, Queued(c, jobs, es, ts, ss, g), Listed(ss),
         IsReport(s, g) => Ran(c, jobs, s) /\ Clear(es, ts, ss, g, s.token)
  PROVE  Queued(c, jobs, es, ts, Append(ss, s), g)
<1>1. /\ DOMAIN Append(ss, s) = DOMAIN ss \union {Len(ss) + 1}
      /\ Append(ss, s)[Len(ss) + 1] = s /\ Len(ss) + 1 \notin DOMAIN ss
      /\ \A i \in DOMAIN ss : Append(ss, s)[i] = ss[i]
  BY Appended
<1>2. Single(es, ts, Append(ss, s), g) BY <1>1 DEF Queued, Single, Clear
<1>3. Waiting(c, jobs, es, ts, Append(ss, s), g) BY <1>1 DEF Queued, Waiting
<1> QED BY <1>2, <1>3 DEF Queued

(* The entry of a job nothing waits for may change. *)
LEMMA SetJob ==
  ASSUME NEW c, NEW jobs, NEW table, NEW es, NEW ts, NEW ss, NEW g, NEW t,
         Queued(c, jobs, es, ts, ss, g), Clear(es, ts, ss, g, t),
         \A x \in DOMAIN jobs : x # t => x \in DOMAIN table /\ table[x] = jobs[x]
  PROVE  Queued(c, table, es, ts, ss, g)
<1>1. Waiting(c, table, es, ts, ss, g) BY DEF Queued, Waiting, Clear, Unstarted, Ran
<1> QED BY <1>1 DEF Queued

(* Finished jobs may go. *)
LEMMA DropJobs ==
  ASSUME NEW c, NEW jobs, NEW table, NEW es, NEW ts, NEW ss, NEW g, Queued(c, jobs, es, ts, ss, g),
         \A x \in DOMAIN jobs : ~jobs[x].finished => x \in DOMAIN table /\ table[x] = jobs[x]
  PROVE  Queued(c, table, es, ts, ss, g)
<1>1. Waiting(c, table, es, ts, ss, g) BY DEF Queued, Waiting, Unstarted, Ran
<1> QED BY <1>1 DEF Queued

(* Nothing waits for a job that is not in the table. *)
LEMMA UnknownClear ==
  ASSUME NEW c, NEW jobs, NEW es, NEW ts, NEW ss, NEW g, NEW t, Queued(c, jobs, es, ts, ss, g), t \notin DOMAIN jobs
  PROVE  Clear(es, ts, ss, g, t)
BY DEF Queued, Waiting, Unstarted, Ran, Clear

-----------------------------------------------------------------------------
(* The steps of the host. *)
LEMMA TaskAppended ==
  ASSUME NEW c, NEW es, NEW ts, NEW g, NEW e, Tasks(c, es, ts, g), Task(c, e, g)
  PROVE  Tasks(c, Append(es, e), ts, g)
<1>1. /\ Listed(Append(es, e)) /\ DOMAIN Append(es, e) = DOMAIN es \union {Len(es) + 1}
      /\ Append(es, e)[Len(es) + 1] = e /\ \A i \in DOMAIN es : Append(es, e)[i] = es[i]
  BY Appended DEF Tasks
<1> QED BY <1>1 DEF Tasks

LEMMA ReportAppended ==
  ASSUME NEW c, NEW ss, NEW g, NEW M, NEW s, Reports(c, ss, g, M), Report(c, s, g, M)
  PROVE  Reports(c, Append(ss, s), g, M)
<1>1. /\ Listed(Append(ss, s)) /\ DOMAIN Append(ss, s) = DOMAIN ss \union {Len(ss) + 1}
      /\ Append(ss, s)[Len(ss) + 1] = s /\ \A i \in DOMAIN ss : Append(ss, s)[i] = ss[i]
  BY Appended DEF Reports
<1> QED BY <1>1 DEF Reports

LEMMA TaskTaken ==
  ASSUME NEW c, NEW es, NEW ts, NEW g, Tasks(c, es, ts, g), es # <<>>
  PROVE  Tasks(c, Tail(es), ts, g) /\ Task(c, Head(es), g)
<1>1. /\ Listed(Tail(es)) /\ 1 \in DOMAIN es /\ Head(es) = es[1]
      /\ \A i \in DOMAIN Tail(es) : i + 1 \in DOMAIN es /\ Tail(es)[i] = es[i + 1]
  BY Shortened DEF Tasks
<1> QED BY <1>1 DEF Tasks

LEMMA ReportTaken ==
  ASSUME NEW c, NEW ss, NEW g, NEW M, Reports(c, ss, g, M), ss # <<>>
  PROVE  Reports(c, Tail(ss), g, M) /\ Report(c, Head(ss), g, M)
<1>1. /\ Listed(Tail(ss)) /\ 1 \in DOMAIN ss /\ Head(ss) = ss[1]
      /\ \A i \in DOMAIN Tail(ss) : i + 1 \in DOMAIN ss /\ Tail(ss)[i] = ss[i + 1]
  BY Shortened DEF Reports
<1> QED BY <1>1 DEF Reports

LEMMA Replied ==
  ASSUME NEW c, NEW n, NEW M, NEW m \in n, NEW p, Formed(c), Wire(c, n, M), m.to = "host",
         p.type \in {"busy", "pending", "error", "result"},
         p.type = "result" => Backed(c, m.id, p.result, M)
  PROVE  Wire(c, (n \ {m}) \union {[to |-> "client", id |-> m.id, response |-> p]}, M)
<1> DEFINE a == [to |-> "client", id |-> m.id, response |-> p]
<1>1. a.to = "client" /\ a.id = m.id /\ a.response = p OBVIOUS
<1>2. m.id \in Nat /\ m.id < c.next
  <2>1. m.token[1] = m.id /\ Named(c, m.token) BY DEF Wire, Asks
  <2> QED BY <2>1 DEF Named
<1> HIDE DEF a
<1>3. Wire(c, (n \ {m}) \union {a}, M) BY <1>1, <1>2 DEF Wire
<1> QED BY <1>3 DEF a

LEMMA HostHandles == ASSUME JobInv, NEW m, handle(m) PROVE JobInv'
<1> DEFINE jobs == host.jobs
           g == host.gen
           ts == worker.timers
           q == [type |-> "pending"]
           outdated == {t \in DOMAIN jobs : jobs[t].finished /\ ~live(t)}
           told(r) == net' = (net \ {m}) \union {[to |-> "client", id |-> m.id, response |-> r]}
           e == [type |-> "job", gen |-> g, token |-> m.token, request |-> m.request]
<1>1. /\ Formed(client) /\ Reported(client, made) /\ Wire(client, net, made)
      /\ Table(client, jobs, made) /\ Tasks(client, events, ts, g) /\ Reports(client, signals, g, made)
      /\ Queued(client, jobs, events, ts, signals, g)
      /\ DOMAIN host = HostFields /\ g \in Nat
  BY DEF JobInv, Parties, Work, Device, Queued
<1>2. m \in net /\ m.to = "host" /\ UNCHANGED <<client, reachable, worker, signals, disk, catalogs, made>>
  BY DEF handle
<1>3. m.token[1] = m.id /\ Asks(client, m.token, m.request) BY <1>1, <1>2 DEF Wire
<1>4. ASSUME NEW r, told(r), r.type \in {"busy", "pending", "error", "result"},
             r.type = "result" => Backed(client, m.id, r.result, made)
      PROVE  Parties'
  <2>1. Wire(client, net', made) BY <1>1, <1>2, <1>4, Replied
  <2> QED BY <1>1, <1>2, <2>1 DEF Parties
<1>5. ASSUME UNCHANGED <<host, events>> PROVE Device' /\ Work' BY <1>2, <1>5 DEF JobInv, Device, Work
<1>6. CASE told([type |-> "error"]) /\ UNCHANGED <<host, events>>
  <2>1. Parties'
    <3> DEFINE r == [type |-> "error"]
    <3>1. r.type = "error" /\ told(r) BY <1>6
    <3> HIDE DEF r
    <3> QED BY <1>4, <3>1
  <2> QED BY <1>5, <1>6, <2>1 DEF JobInv
<1>7. CASE /\ m.token \in DOMAIN jobs /\ UNCHANGED <<host, events>>
           /\ told(IF jobs[m.token].finished
                   THEN [type |-> "result", result |-> jobs[m.token].result] ELSE q)
  <2>1. Backed(client, m.id, jobs[m.token].result, made) BY <1>1, <1>3, <1>7 DEF Table, Entry
  <2>2. Parties'
    <3>1. CASE jobs[m.token].finished
      <4> DEFINE r == [type |-> "result", result |-> jobs[m.token].result]
      <4>1. r.type = "result" /\ r.result = jobs[m.token].result /\ told(r) BY <1>7, <3>1
      <4> HIDE DEF r
      <4> QED BY <1>4, <2>1, <4>1
    <3>2. CASE ~jobs[m.token].finished
      <4> DEFINE r == [type |-> "pending"]
      <4>1. r.type = "pending" /\ told(r) BY <1>7, <3>2
      <4> HIDE DEF r
      <4> QED BY <1>4, <4>1
    <3> QED BY <3>1, <3>2
  <2> QED BY <1>5, <1>7, <2>2 DEF JobInv
<1>8. ASSUME NEW drop \in SUBSET outdated,
             m.token \notin DOMAIN jobs
      PROVE  LET kept == Restrict(jobs, DOMAIN jobs \ drop)
             IN /\ Table(client, kept, made) /\ Queued(client, kept, events, ts, signals, g)
                /\ DOMAIN kept \subseteq DOMAIN jobs
                /\ \A t \in DOMAIN kept : kept[t] = jobs[t]
                /\ \A table \in evicted(kept) :
                     /\ DOMAIN table \subseteq DOMAIN jobs
                     /\ Table(client, table, made) /\ Queued(client, table, events, ts, signals, g)
  <2> DEFINE kept == Restrict(jobs, DOMAIN jobs \ drop)
  <2>1. DOMAIN kept = DOMAIN jobs \ drop /\ \A t \in DOMAIN kept : kept[t] = jobs[t] BY DEF Restrict
  <2> HIDE DEF kept
  <2>2. Table(client, kept, made) BY <1>1, <2>1 DEF Table
  <2>3. \A x \in DOMAIN jobs : ~jobs[x].finished => x \in DOMAIN kept /\ kept[x] = jobs[x] BY <1>8, <2>1
  <2>4. Queued(client, kept, events, ts, signals, g) BY <1>1, <2>3, DropJobs
  <2>5. ASSUME NEW table \in evicted(kept)
        PROVE  /\ DOMAIN table \subseteq DOMAIN jobs
               /\ Table(client, table, made) /\ Queued(client, table, events, ts, signals, g)
    <3>1. CASE ~full(kept)
      <4>1. table = kept BY <2>5, <3>1 DEF evicted
      <4> QED BY <2>1, <2>2, <2>4, <4>1
    <3>2. CASE full(kept)
      <4>1. PICK t \in oldest(kept) : table = Restrict(kept, DOMAIN kept \ {t}) BY <2>5, <3>2 DEF evicted
      <4>2. DOMAIN table = DOMAIN kept \ {t} /\ \A x \in DOMAIN table : table[x] = kept[x] BY <4>1 DEF Restrict
      <4>3. kept[t].finished BY <4>1 DEF oldest
      <4>4. Table(client, table, made) BY <2>2, <4>2 DEF Table
      <4>5. \A x \in DOMAIN kept : ~kept[x].finished => x \in DOMAIN table /\ table[x] = kept[x]
        BY <4>2, <4>3
      <4>6. Queued(client, table, events, ts, signals, g) BY <2>4, <4>5, DropJobs
      <4> QED BY <2>1, <4>2, <4>4, <4>6
    <3> QED BY <3>1, <3>2
  <2> QED BY <2>1, <2>2, <2>4, <2>5 DEF kept
<1>9. ASSUME NEW drop \in SUBSET outdated, m.token \notin DOMAIN jobs,
             host' = [host EXCEPT !.jobs = Restrict(jobs, DOMAIN jobs \ drop)],
             told([type |-> "busy"]), UNCHANGED events
      PROVE  JobInv'
  <2> DEFINE kept == Restrict(jobs, DOMAIN jobs \ drop)
  <2>1. Table(client, kept, made) /\ Queued(client, kept, events, ts, signals, g) BY <1>8, <1>9
  <2>2. DOMAIN host' = HostFields /\ host'.jobs = kept /\ host'.gen = g
    BY <1>1, <1>9 DEF HostFields
  <2> HIDE DEF kept
  <2>3. Device' BY <1>2, <2>2, <1>1 DEF Device, JobInv
  <2>4. Parties'
    <3> DEFINE r == [type |-> "busy"]
    <3>1. r.type = "busy" /\ told(r) BY <1>9
    <3> HIDE DEF r
    <3> QED BY <1>4, <3>1
  <2>5. Work' BY <1>1, <1>2, <1>9, <2>1, <2>2 DEF Work, Queued
  <2> QED BY <2>3, <2>4, <2>5 DEF JobInv
<1>10. ASSUME NEW drop \in SUBSET outdated, m.token \notin DOMAIN jobs,
              NEW table \in evicted(Restrict(jobs, DOMAIN jobs \ drop)),
              host' = [host EXCEPT !.jobs = insert(table, m.token, NewJob(table))],
              told(q), events' = Append(events, e)
       PROVE  JobInv'
  <2> DEFINE j == NewJob(table)
             grown == insert(table, m.token, j)
  <2>1. /\ DOMAIN table \subseteq DOMAIN jobs
        /\ Table(client, table, made) /\ Queued(client, table, events, ts, signals, g)
    BY <1>8, <1>10
  <2>2. DOMAIN host' = HostFields /\ host'.jobs = grown /\ host'.gen = g
    BY <1>1, <1>10 DEF HostFields
  <2>3. DOMAIN j = JobFields /\ ~j.finished /\ j.runs = 0 /\ ~j.result.ok BY DEF NewJob, JobFields, Failure
  <2> HIDE DEF j
  <2>4. m.token \notin DOMAIN table BY <1>10, <2>1
  <2>5. /\ DOMAIN grown = DOMAIN table \union {m.token} /\ grown[m.token] = j
        /\ \A x \in DOMAIN table : grown[x] = table[x]
    BY <2>4 DEF insert
  <2> HIDE DEF grown
  <2>6. Entry(client, m.token, j, made) BY <1>3, <2>3 DEF Entry, Asks, Backed
  <2>7. Table(client, grown, made) BY <2>1, <2>5, <2>6 DEF Table
  <2>8. Clear(events, ts, signals, g, m.token) BY <2>1, <2>4, UnknownClear
  <2>9. Queued(client, grown, events, ts, signals, g) BY <2>1, <2>5, <2>8, SetJob
  <2>10. e.type = "job" /\ e.gen = g /\ e.token = m.token /\ e.request = m.request OBVIOUS
  <2> HIDE DEF e
  <2>11. Unstarted(grown, e) BY <2>3, <2>5, <2>10 DEF Unstarted
  <2>12. Listed(events) BY <1>1 DEF Tasks
  <2>13. Queued(client, grown, Append(events, e), ts, signals, g) BY <2>8, <2>9, <2>10, <2>11, <2>12, PutEvent
  <2>14. Task(client, e, g)
    <3>1. g <= g BY <1>1
    <3> QED BY <1>1, <1>3, <2>10, <3>1 DEF Task
  <2>15. Tasks(client, Append(events, e), ts, g) BY <1>1, <2>14, TaskAppended
  <2>16. Device' BY <1>2, <2>2, <1>1 DEF Device, JobInv
  <2>17. Parties'
    <3> DEFINE r == [type |-> "pending"]
    <3>1. r.type = "pending" /\ told(r) BY <1>10
    <3> HIDE DEF r
    <3> QED BY <1>4, <3>1
  <2>18. Work' BY <1>1, <1>2, <1>10, <2>2, <2>7, <2>13, <2>15 DEF Work, Queued
  <2> QED BY <2>16, <2>17, <2>18 DEF JobInv
<1> QED BY <1>6, <1>7, <1>9, <1>10 DEF handle

(* What was made stays made. *)
LEMMA MadeGrows ==
  ASSUME NEW c, NEW M, NEW N, M \subseteq N
  PROVE  /\ Reported(c, M) => Reported(c, N)
         /\ \A n : Wire(c, n, M) => Wire(c, n, N)
         /\ \A jobs : Table(c, jobs, M) => Table(c, jobs, N)
         /\ \A ss, g : Reports(c, ss, g, M) => Reports(c, ss, g, N)
<1>1. \A id, r : Backed(c, id, r, M) => Backed(c, id, r, N) BY DEF Backed
<1>2. Reported(c, M) => Reported(c, N) BY DEF Reported
<1>3. \A n : Wire(c, n, M) => Wire(c, n, N) BY <1>1 DEF Wire
<1>4. \A jobs : Table(c, jobs, M) => Table(c, jobs, N) BY <1>1 DEF Table, Entry
<1>5. \A ss, g : Reports(c, ss, g, M) => Reports(c, ss, g, N) BY <1>1 DEF Reports, Report
<1> QED BY <1>2, <1>3, <1>4, <1>5

(* A token is live as long as its request waits for it. *)
LEMMA LiveOrDead ==
  ASSUME NEW t, Named(client, t), ~live(t)
  PROVE  Dead(client, t)
<1>1. t \in Nat \X Nat BY DEF Named
<1>2. t = <<t[1], t[2]>> BY <1>1
<1> QED BY <1>2 DEF live, token, Dead

LEMMA DeadIsNotLive ==
  ASSUME NEW t, Named(client, t), Dead(client, t)
  PROVE  ~live(t)
<1>1. t \in Nat \X Nat BY DEF Named
<1>2. t = <<t[1], t[2]>> BY <1>1
<1>3. ASSUME live(t) PROVE FALSE
  <2>1. t[1] \in DOMAIN client.requests /\ <<t[1], client.requests[t[1]].retries>> = t BY <1>3 DEF live, token
  <2>2. client.requests[t[1]].retries = t[2] BY <1>2, <2>1
  <2> QED BY <2>1, <2>2 DEF Dead
<1> QED BY <1>3

(* Task e has left the queue or the timers of the worker. *)
LEMMA JobHandled ==
  ASSUME JobInv, NEW e, NEW ts, NEW es, events' = es, UNCHANGED <<client, reachable, net>>,
         e.type = "job", Task(client, e, host.gen), Tasks(client, es, ts, host.gen),
         Queued(client, host.jobs, es, ts, signals, host.gen),
         IsTask(e, host.gen) =>
           Unstarted(host.jobs, e) /\ Clear(es, ts, signals, host.gen, e.token),
         handleJob(e, ts)
  PROVE  JobInv'
<1> DEFINE jobs == host.jobs
           g == host.gen
           t == e.token
<1>1. /\ Formed(client) /\ Reported(client, made) /\ Wire(client, net, made)
      /\ Table(client, jobs, made) /\ Reports(client, signals, g, made)
      /\ DOMAIN host = HostFields /\ g \in Nat /\ DOMAIN worker = {"gen", "open", "timers"}
  BY DEF JobInv, Parties, Work, Device
<1>2. Asks(client, t, e.request) /\ Named(client, t) BY DEF Task, Asks
<1>3. ASSUME NEW kept, worker' = [worker EXCEPT !.timers = kept]
      PROVE  DOMAIN worker' = {"gen", "open", "timers"} /\ worker'.timers = kept
  BY <1>1, <1>3
<1>4. CASE /\ worker' = [worker EXCEPT !.timers = ts] /\ UNCHANGED <<host, signals, disk, catalogs, made>>
  <2>1. Device' BY <1>1, <1>3, <1>4 DEF Device
  <2>2. Parties' BY <1>1, <1>4 DEF Parties
  <2>3. Work' BY <1>1, <1>3, <1>4 DEF Work, Queued
  <2> QED BY <2>1, <2>2, <2>3 DEF JobInv
<1>5. ASSUME current(e)
      PROVE  IsTask(e, g) /\ Unstarted(jobs, e) /\ Clear(es, ts, signals, g, t) /\ e.gen = g
  BY <1>5 DEF current, IsTask
<1>6. CASE /\ current(e) /\ ~live(t)
           /\ worker' = [worker EXCEPT !.timers = ts]
           /\ signals' = report(e, Failure)
           /\ UNCHANGED <<host, disk, catalogs, made>>
  <2> DEFINE s == [type |-> "result", gen |-> e.gen, token |-> t, result |-> Failure]
  <2>1. s.type = "result" /\ s.gen = g /\ s.token = t /\ ~s.result.ok BY <1>5, <1>6 DEF Failure
  <2>2. signals' = Append(signals, s) BY <1>6 DEF report
  <2> HIDE DEF s
  <2>3. Ran(client, jobs, s) BY <1>2, <1>5, <1>6, <2>1, LiveOrDead DEF Ran, Unstarted
  <2>4. Queued(client, jobs, es, ts, signals', g) BY <1>1, <1>5, <1>6, <2>1, <2>2, <2>3, PutReport DEF Reports
  <2>5. g <= g BY <1>1
  <2>6. Report(client, s, g, made) BY <1>1, <1>2, <2>1, <2>5 DEF Report, Backed
  <2>7. Reports(client, signals', g, made) BY <1>1, <2>2, <2>6, ReportAppended
  <2>8. Device' BY <1>1, <1>3, <1>6 DEF Device
  <2>9. Parties' BY <1>1, <1>6 DEF Parties
  <2>10. Work' BY <1>1, <1>3, <1>6, <2>4, <2>7 DEF Work, Queued
  <2> QED BY <2>8, <2>9, <2>10 DEF JobInv
<1>7. CASE /\ current(e)
           /\ worker' = [worker EXCEPT !.timers = ts \union {e}]
           /\ UNCHANGED <<host, signals, disk, catalogs, made>>
  <2>1. Queued(client, jobs, es, ts \union {e}, signals, g) BY <1>5, <1>7, PutTimer
  <2>2. Tasks(client, es, ts \union {e}, g) BY DEF Tasks
  <2>3. worker'.timers = ts \union {e} BY <1>3, <1>7
  <2>4. Device' BY <1>1, <1>3, <1>7 DEF Device
  <2>5. Parties' BY <1>1, <1>7 DEF Parties
  <2>6. Work' BY <1>1, <1>7, <2>1, <2>2, <2>3 DEF Work, Queued
  <2> QED BY <2>4, <2>5, <2>6 DEF JobInv
<1>8. ASSUME current(e), NEW r, driveRequest(worker.open, e, r), signals' = report(e, r),
             worker' = [worker EXCEPT !.timers = ts],
             host' = [host EXCEPT !.jobs = counted(@, e)]
      PROVE  JobInv'
  <2> DEFINE s == [type |-> "result", gen |-> e.gen, token |-> t, result |-> r]
             table == counted(jobs, e)
             j == [jobs[t] EXCEPT !.runs = @ + 1]
  <2>1. made \subseteq made' BY <1>8 DEF driveRequest
  <2>2. r.ok /\ e.request.kind = "write" => t[1] \in made'
    BY <1>8 DEF driveRequest, written, Failure
  <2>3. Backed(client, t[1], r, made') BY <1>2, <2>2 DEF Backed, Asks
  <2>4. s.type = "result" /\ s.gen = g /\ s.token = t /\ s.result = r BY <1>5, <1>8
  <2>5. signals' = Append(signals, s) BY <1>8 DEF report
  <2> HIDE DEF s
  <2>6. /\ Reported(client, made') /\ Wire(client, net, made') /\ Table(client, jobs, made')
        /\ Reports(client, signals, g, made')
    BY <1>1, <2>1, MadeGrows
  <2>7. Unstarted(jobs, e) /\ Clear(es, ts, signals, g, t) BY <1>5, <1>8
  <2>8. t \in DOMAIN jobs /\ ~jobs[t].finished /\ jobs[t].runs = 0 BY <2>7 DEF Unstarted
  <2>9. Entry(client, t, jobs[t], made') BY <2>6, <2>8 DEF Table
  <2>10. DOMAIN j = JobFields /\ ~j.finished /\ j.runs = 1 /\ j.result = jobs[t].result
    BY <2>8, <2>9 DEF Entry, JobFields
  <2>11. /\ DOMAIN table = DOMAIN jobs /\ table[t] = j
         /\ \A x \in DOMAIN jobs : x # t => table[x] = jobs[x]
    BY <2>8 DEF counted
  <2> HIDE DEF j
  <2>12. DOMAIN host' = HostFields /\ host'.gen = g /\ host'.jobs = table BY <1>1, <1>8 DEF HostFields
  <2> HIDE DEF table
  <2>13. Entry(client, t, j, made') BY <2>9, <2>10 DEF Entry
  <2>14. Table(client, table, made') BY <2>6, <2>11, <2>13 DEF Table
  <2>15. Queued(client, table, es, ts, signals, g) BY <2>7, <2>11, SetJob
  <2>16. Ran(client, table, s) BY <2>4, <2>8, <2>10, <2>11 DEF Ran
  <2>17. Queued(client, table, es, ts, signals', g) BY <1>1, <2>4, <2>5, <2>7, <2>15, <2>16, PutReport DEF Reports
  <2>18. g <= g BY <1>1
  <2>19. Report(client, s, g, made') BY <1>1, <1>2, <2>3, <2>4, <2>18 DEF Report
  <2>20. Reports(client, signals', g, made') BY <2>5, <2>6, <2>19, ReportAppended
  <2>21. worker'.timers = ts /\ DOMAIN worker' = {"gen", "open", "timers"} BY <1>3, <1>8
  <2>22. Device' BY <1>1, <2>12, <2>21 DEF Device
  <2>23. Parties' BY <1>1, <2>6 DEF Parties
  <2>24. Work' BY <2>12, <2>14, <2>17, <2>20, <2>21 DEF Work, Queued
  <2> QED BY <2>22, <2>23, <2>24 DEF JobInv
<1> QED BY <1>4, <1>6, <1>7, <1>8 DEF handleJob

LEMMA WorkerActs ==
  ASSUME JobInv, NEW e, WorkerEvent \/ (e \in worker.timers /\ WorkerTimer(e))
  PROVE  JobInv'
<1>1. /\ Tasks(client, events, worker.timers, host.gen)
      /\ Queued(client, host.jobs, events, worker.timers, signals, host.gen)
  BY DEF JobInv, Work, Queued
<1>2. CASE e \in worker.timers /\ WorkerTimer(e)
  <2> DEFINE ts == worker.timers \ {e}
  <2>1. e.type = "job" /\ Task(client, e, host.gen) /\ Tasks(client, events, ts, host.gen)
    BY <1>1, <1>2 DEF Tasks
  <2>2. /\ Queued(client, host.jobs, events, ts, signals, host.gen)
        /\ IsTask(e, host.gen) => Unstarted(host.jobs, e) /\ Clear(events, ts, signals, host.gen, e.token)
    BY <1>1, <1>2, TakeTimer
  <2>3. handleJob(e, ts) /\ UNCHANGED <<client, reachable, net, events>> BY <1>2 DEF WorkerTimer
  <2> HIDE DEF ts
  <2> QED BY <2>1, <2>2, <2>3, JobHandled
<1>3. CASE WorkerEvent
  <2> DEFINE h == Head(events)
             es == Tail(events)
  <2>1. events # <<>> /\ events' = es /\ UNCHANGED <<client, reachable, net>> BY <1>3 DEF WorkerEvent
  <2>2. Listed(events) BY <1>1 DEF Tasks
  <2>3. Tasks(client, es, worker.timers, host.gen) /\ Task(client, h, host.gen) BY <1>1, <2>1, TaskTaken
  <2>4. /\ Queued(client, host.jobs, es, worker.timers, signals, host.gen)
        /\ IsTask(h, host.gen) =>
             Unstarted(host.jobs, h) /\ Clear(es, worker.timers, signals, host.gen, h.token)
    BY <1>1, <2>1, <2>2, TakeEvent
  <2> HIDE DEF h, es
  <2>5. CASE h.type = "job" /\ handleJob(h, worker.timers) BY <2>1, <2>3, <2>4, <2>5, JobHandled
  <2>6. CASE h.type = "configure" /\ configure(h)
    <3>1. UNCHANGED <<host, made>> BY <2>6 DEF configure
    <3>2. Parties' BY <2>1, <3>1 DEF JobInv, Parties
    <3>3. CASE UNCHANGED <<worker, signals>>
      <4>1. Device' BY <3>1, <3>3 DEF JobInv, Device
      <4>2. Work' BY <2>1, <2>3, <2>4, <3>1, <3>3 DEF JobInv, Work, Queued
      <4> QED BY <3>2, <4>1, <4>2 DEF JobInv
    <3>4. ASSUME NEW d, worker' = [worker EXCEPT !.gen = h.gen, !.open = d],
                 signals' = Append(signals, [type |-> "status", gen |-> h.gen, ready |-> d # None])
          PROVE  JobInv'
      <4> DEFINE s == [type |-> "status", gen |-> h.gen, ready |-> d # None]
      <4>1. s.type # "result" OBVIOUS
      <4>2. Reports(client, signals, host.gen, made) BY DEF JobInv, Work
      <4> HIDE DEF s
      <4>3. Report(client, s, host.gen, made) /\ ~IsReport(s, host.gen) BY <4>1 DEF Report, IsReport
      <4>4. Reports(client, Append(signals, s), host.gen, made) BY <4>2, <4>3, ReportAppended
      <4>5. Queued(client, host.jobs, es, worker.timers, Append(signals, s), host.gen)
        BY <2>4, <4>2, <4>3, PutReport DEF Reports
      <4>6. worker'.timers = worker.timers /\ DOMAIN worker' = {"gen", "open", "timers"}
        BY <3>4 DEF JobInv, Device
      <4>7. signals' = Append(signals, s) BY <3>4 DEF s
      <4>8. Device' BY <3>1, <4>6 DEF JobInv, Device
      <4>9. Work' BY <2>1, <2>3, <3>1, <4>4, <4>5, <4>6, <4>7 DEF JobInv, Work, Queued
      <4> QED BY <3>2, <4>8, <4>9 DEF JobInv
    <3> QED BY <2>6, <3>3, <3>4 DEF configure
  <2> QED BY <1>3, <2>5, <2>6 DEF WorkerEvent, h
<1> QED BY <1>2, <1>3

LEMMA SignalArrives == ASSUME JobInv, Signal PROVE JobInv'
<1> DEFINE s == Head(signals)
           ss == Tail(signals)
           jobs == host.jobs
           g == host.gen
           ts == worker.timers
<1>1. /\ signals # <<>> /\ signals' = ss
      /\ UNCHANGED <<client, reachable, net, worker, events, disk, catalogs, made>>
  BY DEF Signal
<1>2. /\ Table(client, jobs, made) /\ Tasks(client, events, ts, g) /\ Reports(client, signals, g, made)
      /\ Queued(client, jobs, events, ts, signals, g) /\ DOMAIN host = HostFields /\ g \in Nat
      /\ DOMAIN worker = {"gen", "open", "timers"}
  BY DEF JobInv, Work, Queued, Device
<1>3. Listed(signals) BY <1>2 DEF Reports
<1>4. Reports(client, ss, g, made) /\ Report(client, s, g, made) BY <1>1, <1>2, ReportTaken
<1>5. /\ Queued(client, jobs, events, ts, ss, g)
      /\ IsReport(s, g) => Ran(client, jobs, s) /\ Clear(events, ts, ss, g, s.token)
  BY <1>1, <1>2, <1>3, TakeReport
<1>6. Parties' BY <1>1 DEF JobInv, Parties
<1> HIDE DEF s, ss
<1>7. CASE UNCHANGED host
  <2>1. Device' BY <1>1, <1>7 DEF JobInv, Device
  <2>2. Work' BY <1>1, <1>2, <1>4, <1>5, <1>7 DEF Work, Queued
  <2> QED BY <1>6, <2>1, <2>2 DEF JobInv
<1>8. CASE host' = [host EXCEPT !.ready = s.ready, !.opening = FALSE]
  <2>1. DOMAIN host' = HostFields /\ host'.gen = g /\ host'.jobs = jobs BY <1>2, <1>8 DEF HostFields
  <2>2. Device' BY <1>1, <1>2, <2>1 DEF Device
  <2>3. Work' BY <1>1, <1>2, <1>4, <1>5, <2>1 DEF Work, Queued
  <2> QED BY <1>6, <2>2, <2>3 DEF JobInv
<1>9. CASE s.gen = g /\ s.type = "result" /\ host' = [host EXCEPT !.jobs = finished(@, s)]
  <2> DEFINE t == s.token
             table == finished(jobs, s)
             j == [jobs[t] EXCEPT !.finished = TRUE, !.result = s.result]
  <2>1. DOMAIN host' = HostFields /\ host'.gen = g /\ host'.jobs = table BY <1>2, <1>9 DEF HostFields
  <2>2. Ran(client, jobs, s) /\ Clear(events, ts, ss, g, t) BY <1>5, <1>9 DEF IsReport
  <2>3. t \in DOMAIN jobs BY <2>2 DEF Ran
  <2>4. Entry(client, t, jobs[t], made) BY <1>2, <2>3 DEF Table
  <2>5. DOMAIN j = JobFields /\ j.runs = jobs[t].runs /\ j.result = s.result
    BY <2>4 DEF Entry, JobFields
  <2>6. /\ DOMAIN table = DOMAIN jobs /\ table[t] = j
        /\ \A x \in DOMAIN jobs : x # t => table[x] = jobs[x]
    BY <2>3 DEF finished
  <2> HIDE DEF j, table
  <2>7. Backed(client, t[1], s.result, made) BY <1>4, <1>9 DEF Report
  <2>8. j.runs = 0 => ~j.result.ok /\ Dead(client, t) BY <2>2, <2>5 DEF Ran
  <2>9. Entry(client, t, j, made) BY <2>4, <2>5, <2>7, <2>8 DEF Entry
  <2>10. Table(client, table, made) BY <1>2, <2>6, <2>9 DEF Table
  <2>11. Queued(client, table, events, ts, ss, g) BY <1>5, <2>2, <2>6, SetJob
  <2>12. Device' BY <1>1, <1>2, <2>1 DEF Device
  <2>13. Work' BY <1>1, <1>2, <1>4, <2>1, <2>10, <2>11 DEF Work, Queued
  <2> QED BY <1>6, <2>12, <2>13 DEF JobInv
<1> QED BY <1>7, <1>8, <1>9 DEF Signal, s

LEMMA HostOpens == ASSUME JobInv, NEW d, Open(d) PROVE JobInv'
<1> DEFINE g == host.gen
           e == [type |-> "configure", gen |-> g + 1, path |-> d]
           ts == worker.timers
<1>1. /\ Tasks(client, events, ts, g) /\ Reports(client, signals, g, made) /\ g \in Nat
      /\ DOMAIN worker = {"gen", "open", "timers"}
  BY DEF JobInv, Work, Device
<1>2. /\ host' = [gen |-> g + 1, path |-> d, ready |-> FALSE, opening |-> d # None, jobs |-> Empty]
      /\ events' = Append(events, e)
      /\ UNCHANGED <<client, reachable, net, worker, signals, disk, catalogs, made>>
  BY DEF Open
<1>3. DOMAIN host' = HostFields /\ host'.gen = g + 1 /\ host'.jobs = Empty BY <1>2 DEF HostFields
<1>4. g + 1 \in Nat /\ \A n \in Nat : n <= g => n <= g + 1 /\ n # g + 1 BY <1>1
<1>5. e.type # "job" OBVIOUS
<1> HIDE DEF e
<1>6. Tasks(client, events, ts, g + 1) BY <1>1, <1>4 DEF Tasks, Task
<1>7. Task(client, e, g + 1) /\ ~IsTask(e, g + 1) BY <1>5 DEF Task, IsTask
<1>8. Tasks(client, events', ts, g + 1) BY <1>2, <1>6, <1>7, TaskAppended
<1>9. Reports(client, signals, g + 1, made) BY <1>1, <1>4 DEF Reports, Report
<1>10. /\ \A i \in DOMAIN events : ~IsTask(events[i], g + 1)
       /\ \A x \in ts : ~IsTask(x, g + 1)
  BY <1>1, <1>4 DEF Tasks, Task, IsTask
<1>11. \A i \in DOMAIN signals : ~IsReport(signals[i], g + 1) BY <1>1, <1>4 DEF Reports, Report, IsReport
<1>12. Queued(client, Empty, events, ts, signals, g + 1) BY <1>10, <1>11 DEF Queued, Single, Waiting
<1>13. Queued(client, Empty, events', ts, signals, g + 1) BY <1>1, <1>2, <1>7, <1>12, PutEvent DEF Tasks
<1>14. Table(client, Empty, made)
  <2>1. DOMAIN Empty = {} BY DEF Empty
  <2> QED BY <2>1 DEF Table
<1>15. Device' BY <1>1, <1>2, <1>3, <1>4 DEF Device
<1>16. Parties' BY <1>2 DEF JobInv, Parties
<1>17. Work' BY <1>2, <1>3, <1>8, <1>9, <1>13, <1>14 DEF Work, Queued
<1> QED BY <1>15, <1>16, <1>17 DEF JobInv

-----------------------------------------------------------------------------
(***************************************************************************)
(* The job table of Controller.cpp, the worker's queue, the results on     *)
(* their way back and the tokens that a client's requests carry keep the   *)
(* accounts above, for any tables, deadlines, collisions with the          *)
(* operation lock, evictions and reopenings.                               *)
(***************************************************************************)
THEOREM JobInvariance == DriveSpec => []JobInv
<1>1. JobInv /\ [DriveNext]_driveVars => JobInv'
  <2> SUFFICES ASSUME JobInv, [DriveNext]_driveVars PROVE JobInv' OBVIOUS
  <2>1. CASE UNCHANGED driveVars BY <2>1 DEF driveVars, JobInv, Device, Parties, Work
  <2>2. ASSUME NEW p \in Path, Call(p) PROVE JobInv' BY <2>2, ClientActs
  <2>3. CASE RefreshDue BY <2>3, ClientActs
  <2>4. CASE Update BY <2>4, ClientActs
  <2>5. CASE Link BY <2>5, WorldActs
  <2>6. ASSUME NEW id \in 1..MaxId, transmitDrive(id) PROVE JobInv' BY <2>6, ClientSends
  <2>7. ASSUME NEW id \in 1..MaxId, Deadline(id) PROVE JobInv' BY <2>7, ClientActs
  <2>8. ASSUME NEW d \in Container \union {None}, AccountChanged(d) PROVE JobInv' BY <2>8, ClientActs
  <2>9. ASSUME NEW d \in Container \union {None}, Open(d) PROVE JobInv' BY <2>9, HostOpens
  <2>10. ASSUME NEW m \in net, Receive(m) PROVE JobInv' BY <2>10, ClientReceives
  <2>11. ASSUME NEW m \in net, handle(m) PROVE JobInv' BY <2>11, HostHandles
  <2>12. CASE WorkerEvent BY <2>12, WorkerActs
  <2>13. CASE Signal BY <2>13, SignalArrives
  <2>14. ASSUME NEW e \in worker.timers, WorkerTimer(e) PROVE JobInv' BY <2>14, WorkerActs
  <2>15. ASSUME NEW d \in Container, HostIndex(d) PROVE JobInv' BY <2>15, WorldActs
  <2>16. ASSUME NEW d \in Container, NEW p \in Path, HostEdit(d, p) PROVE JobInv' BY <2>16, WorldActs
  <2> QED BY <2>1, <2>2, <2>3, <2>4, <2>5, <2>6, <2>7, <2>8, <2>9, <2>10, <2>11, <2>12, <2>13, <2>14,
             <2>15, <2>16 DEF DriveNext
<1> QED BY JobInitially, <1>1, PTL DEF DriveSpec

(***************************************************************************)
(* handleJob and result execute a job of the host's table at most once,    *)
(* whatever polls, repeats, evictions or timeouts come, and one that ended *)
(* without a run failed and is no longer queued.                           *)
(***************************************************************************)
THEOREM JobsRunOnce == DriveSpec => []JobRunsOnce
<1>1. JobInv => JobRunsOnce
  <2> SUFFICES ASSUME JobInv, NEW t \in DOMAIN host.jobs
               PROVE  LET j == host.jobs[t]
                      IN j.runs <= 1 /\ (j.finished /\ j.runs = 0 => ~j.result.ok /\ ~live(t))
    BY DEF JobRunsOnce
  <2>1. Entry(client, t, host.jobs[t], made) BY DEF JobInv, Work, Table
  <2>2. host.jobs[t].runs <= 1 BY <2>1 DEF Entry
  <2> QED BY <2>1, <2>2, DeadIsNotLive DEF Entry
<1> QED BY <1>1, JobInvariance, PTL

(***************************************************************************)
(* A write that driveRequest was told succeeded is one that receiveDrive   *)
(* has itself made, for any order of retries, deadlines and reopenings:    *)
(* never the result of another job, or somebody else's file.               *)
(***************************************************************************)
THEOREM WritesReported == DriveSpec => []WriteReported
<1>1. JobInv => WriteReported
  <2> SUFFICES ASSUME JobInv, NEW id \in DOMAIN client.answers, client.answers[id] = <<"write">>
               PROVE  id \in made
    BY DEF WriteReported
  <2>1. Reported(client, made) BY DEF JobInv, Parties
  <2>2. 1 \in 1..Len(client.answers[id]) /\ client.answers[id][1] = "write" OBVIOUS
  <2> QED BY <2>1, <2>2 DEF Reported
<1> QED BY <1>1, JobInvariance, PTL
=============================================================================
