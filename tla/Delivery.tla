------------------------------ MODULE Delivery ------------------------------
(***************************************************************************)
(* The persistent same-device message queue, src/Delivery/DeliveryStore.cpp *)
(* Applications enqueue, daemons move the outbox to the inbox in one SQLite *)
(* transaction, and consumer processes read the inbox from the last        *)
(* position their consumer acknowledged.  Every operation is one call of   *)
(* one process on its own connection; SQLite (WAL, one writer at a time)   *)
(* is external and modelled from how the store uses it.                    *)
(***************************************************************************)
EXTENDS Integers, FiniteSets

CONSTANTS Daemons,      \* processes that call receivePending
          Consumers,    \* names given to acknowledge
          Instances,    \* processes that read the inbox
          ConsumerOf,   \* the consumer each of them acknowledges as
          Limit,        \* rows of one batch and of one page (1 to 256)
          MaxMessages,  \* bound on enqueued messages
          MaxCrashes    \* bound on rolled back transactions and dead processes

ASSUME InstancesAssumption == ConsumerOf \in [Instances -> Consumers]
ASSUME LimitAssumption == Limit \in 1..256
ASSUME BoundsAssumption == MaxMessages \in Nat /\ MaxCrashes \in Nat

NoOne == "nobody"
ASSUME DaemonsAssumption == NoOne \notin Daemons

VARIABLES outbox,    \* table outbox: set of [rowid, id]
          inbox,     \* table inbox: set of [sequence, id]
          last,      \* the AUTOINCREMENT counter of inbox
          acks,      \* table consumers: [Consumers -> sequence]
          tx,        \* the open write transaction: owner, working tables, rows to move
          reader,    \* [Instances -> [pc, cursor]], memory of the reading processes
          sent,      \* history: number of messages whose enqueue succeeded
          handled,   \* history: [Consumers -> sequences some process of it has handled]
          crashes    \* history: number of crashes

vars == <<outbox, inbox, last, acks, tx, reader, sent, handled, crashes>>

store == <<outbox, inbox, last>>
readers == <<acks, reader, handled>>

Row == [rowid : Nat, id : Nat]
Received == [sequence : Nat, id : Nat]

NoTransaction == [owner |-> NoOne, outbox |-> {}, inbox |-> {}, last |-> 0, rows |-> {}]

Init ==
  /\ outbox = {} /\ inbox = {} /\ last = 0
  /\ acks = [c \in Consumers |-> 0]
  /\ tx = NoTransaction
  /\ reader = [i \in Instances |-> [pc |-> "down", cursor |-> 0]]
  /\ sent = 0 /\ crashes = 0
  /\ handled = [c \in Consumers |-> {}]

(* A statement that writes waits for the only write lock. *)
Unlocked == tx.owner = NoOne

-----------------------------------------------------------------------------
(* A table without AUTOINCREMENT: one more than the largest rowid in use. *)
newRowid(rows) ==
  IF rows = {} THEN {1}
  ELSE {r.rowid + 1 : r \in {s \in rows : \A t \in rows : t.rowid <= s.rowid}}

(* The message id is a fresh UUID: numbered here in the order of insertion. *)
enqueue ==
  /\ Unlocked /\ sent < MaxMessages
  /\ sent' = sent + 1
  /\ \E n \in newRowid(outbox) : outbox' = outbox \union {[rowid |-> n, id |-> sent + 1]}
  /\ UNCHANGED <<inbox, last, tx, readers, crashes>>

(* SELECT ... FROM outbox ORDER BY rowid LIMIT ? *)
firstRows(rows) == {r \in rows : Cardinality({s \in rows : s.rowid <= r.rowid}) <= Limit}

(***************************************************************************)
(* receivePending: BEGIN IMMEDIATE and the selection of the rows, then for *)
(* each row in order INSERT OR IGNORE and DELETE, then the commit.         *)
(***************************************************************************)
Begin(d) ==
  /\ Unlocked
  /\ tx' = [owner |-> d, outbox |-> outbox, inbox |-> inbox, last |-> last,
            rows |-> firstRows(outbox)]
  /\ UNCHANGED <<store, readers, sent, crashes>>

Ignored(rows, r) == \E s \in rows : s.id = r.id

(* Mutation of moved: the row is not deleted from the outbox. *)
moved_NoDelete(t, r) ==
  [owner |-> t.owner, rows |-> t.rows \ {r}, outbox |-> t.outbox,
   inbox |-> IF Ignored(t.inbox, r) THEN t.inbox
             ELSE t.inbox \union {[sequence |-> t.last + 1, id |-> r.id]},
   last |-> IF Ignored(t.inbox, r) THEN t.last ELSE t.last + 1]

moved(t, r) ==
  [owner |-> t.owner,
   rows |-> t.rows \ {r},
   outbox |-> {s \in t.outbox : s.id # r.id},
   inbox |-> IF Ignored(t.inbox, r) THEN t.inbox
             ELSE t.inbox \union {[sequence |-> t.last + 1, id |-> r.id]},
   last |-> IF Ignored(t.inbox, r) THEN t.last ELSE t.last + 1]

(* Mutation of Move: the rows come in no order. *)
Move_NoOrder(d) ==
  /\ tx.owner = d
  /\ \E r \in tx.rows : tx' = moved(tx, r)
  /\ UNCHANGED <<store, readers, sent, crashes>>

Move(d) ==
  /\ tx.owner = d
  /\ \E r \in tx.rows : /\ \A s \in tx.rows : r.rowid <= s.rowid
                        /\ tx' = moved(tx, r)
  /\ UNCHANGED <<store, readers, sent, crashes>>

Commit(d) ==
  /\ tx.owner = d /\ tx.rows = {}
  /\ outbox' = tx.outbox /\ inbox' = tx.inbox /\ last' = tx.last
  /\ tx' = NoTransaction
  /\ UNCHANGED <<readers, sent, crashes>>

(* Mutation of Rollback: the deletions from the outbox stay. *)
Rollback_KeepsDeletes(d) ==
  /\ tx.owner = d
  /\ crashes < MaxCrashes /\ crashes' = crashes + 1
  /\ tx' = NoTransaction /\ outbox' = tx.outbox
  /\ UNCHANGED <<inbox, last, readers, sent>>

(* A statement of the transaction fails, or the daemon dies inside it. *)
Rollback(d) ==
  /\ tx.owner = d
  /\ crashes < MaxCrashes /\ crashes' = crashes + 1
  /\ tx' = NoTransaction
  /\ UNCHANGED <<store, readers, sent>>

-----------------------------------------------------------------------------
(* Mutation of Resume: a new process starts at the end of the inbox. *)
Resume_AtEnd(i) ==
  /\ reader[i].pc = "down"
  /\ reader' = [reader EXCEPT ![i] = [pc |-> "reading", cursor |-> last]]
  /\ UNCHANGED <<store, acks, tx, sent, handled, crashes>>

(* A reading process starts where its consumer left off: acknowledged(). *)
Resume(i) ==
  /\ reader[i].pc = "down"
  /\ reader' = [reader EXCEPT ![i] = [pc |-> "reading", cursor |-> acks[ConsumerOf[i]]]]
  /\ UNCHANGED <<store, acks, tx, sent, handled, crashes>>

(* SELECT ... FROM inbox WHERE sequence>? ORDER BY sequence LIMIT ? *)
page(after) ==
  LET rows == {r \in inbox : r.sequence > after} IN
  {r \in rows : Cardinality({s \in rows : s.sequence <= r.sequence}) <= Limit}

readAfter(i) ==
  LET rows == page(reader[i].cursor) IN
  /\ reader[i].pc = "reading" /\ rows # {}
  /\ handled' = [handled EXCEPT ![ConsumerOf[i]] = @ \union {r.sequence : r \in rows}]
  /\ \E r \in rows : /\ \A s \in rows : s.sequence <= r.sequence
                     /\ reader' = [reader EXCEPT ![i] = [pc |-> "handled", cursor |-> r.sequence]]
  /\ UNCHANGED <<store, acks, tx, sent, crashes>>

(* Mutation of CheckReceived: the largest received sequence is refused. *)
CheckReceived_Strict(i) ==
  /\ reader[i].pc = "handled"
  /\ \E r \in inbox : r.sequence > reader[i].cursor
  /\ reader' = [reader EXCEPT ![i].pc = "checked"]
  /\ UNCHANGED <<store, acks, tx, sent, handled, crashes>>

(* acknowledge: the check against MAX(sequence), then the write. *)
CheckReceived(i) ==
  /\ reader[i].pc = "handled"
  /\ \E r \in inbox : r.sequence >= reader[i].cursor
  /\ reader' = [reader EXCEPT ![i].pc = "checked"]
  /\ UNCHANGED <<store, acks, tx, sent, handled, crashes>>

acknowledge(i) ==
  LET c == ConsumerOf[i] IN
  /\ reader[i].pc = "checked" /\ Unlocked
  /\ acks' = [acks EXCEPT ![c] = IF reader[i].cursor > @ THEN reader[i].cursor ELSE @]
  /\ reader' = [reader EXCEPT ![i].pc = "reading"]
  /\ UNCHANGED <<store, tx, sent, handled, crashes>>

Die(i) ==
  /\ reader[i].pc # "down"
  /\ crashes < MaxCrashes /\ crashes' = crashes + 1
  /\ reader' = [reader EXCEPT ![i] = [pc |-> "down", cursor |-> 0]]
  /\ UNCHANGED <<store, acks, tx, sent, handled>>

Daemon(d) == Begin(d) \/ Move(d) \/ Commit(d)
Reader(i) == Resume(i) \/ readAfter(i) \/ CheckReceived(i) \/ acknowledge(i)

Next ==
  \/ enqueue
  \/ \E d \in Daemons : Daemon(d) \/ Rollback(d)
  \/ \E i \in Instances : Reader(i) \/ Die(i)

Spec == Init /\ [][Next]_vars

(***************************************************************************)
(* Fairness: some daemon's timer calls receivePending again and a call     *)
(* that was started ends; a reading process is started again and keeps     *)
(* polling.  An acknowledgement waits for a lock that daemons keep taking  *)
(* and releasing: BUSY_TIMEOUT polls for it, hence strong fairness.        *)
(***************************************************************************)
Fairness ==
  /\ WF_vars(\E d \in Daemons : Daemon(d))
  /\ \A i \in Instances : SF_vars(acknowledge(i)) /\ WF_vars(Reader(i))

FairSpec == Spec /\ Fairness
-----------------------------------------------------------------------------
(***************************************************************************)
(* Properties.                                                             *)
(***************************************************************************)
TypeOK ==
  /\ outbox \subseteq Row /\ inbox \subseteq Received /\ last \in Nat
  /\ acks \in [Consumers -> Nat]
  /\ tx \in [owner : Daemons \union {NoOne}, outbox : SUBSET Row, inbox : SUBSET Received,
             last : Nat, rows : SUBSET Row]
  /\ reader \in [Instances -> [pc : {"down", "reading", "handled", "checked"}, cursor : Nat]]
  /\ sent \in Nat /\ crashes \in Nat
  /\ handled \in [Consumers -> SUBSET Nat]

(***************************************************************************)
(* A message whose enqueue succeeded is stored exactly once, in the outbox *)
(* or in the inbox, whatever daemons overlap, fail or die in the middle of *)
(* a transaction (receivePending).                                         *)
(***************************************************************************)
Once(o, i) ==
  /\ {r.id : r \in o} \union {r.id : r \in i} = 1..sent
  /\ \A r \in o, s \in i : r.id # s.id
  /\ \A r, s \in o : r.id = s.id => r = s
  /\ \A r, s \in i : r.id = s.id => r = s

ExactlyOnce == Once(outbox, inbox)

(***************************************************************************)
(* The inbox numbers the messages in the order they were enqueued          *)
(* (receivePending orders by a rowid that is used again once the outbox    *)
(* has been emptied), without a gap, and what is still in the outbox is    *)
(* younger than all of it.                                                 *)
(***************************************************************************)
Ordered(o, i, n) ==
  /\ {r.sequence : r \in i} = 1..n
  /\ \A r, s \in i : r.sequence < s.sequence => r.id < s.id
  /\ \A r \in i, s \in o : r.id < s.id

FifoOrder == Ordered(outbox, inbox, last)

(***************************************************************************)
(* The store implements the channel it promises: transactions, crashes and *)
(* reused rowids are invisible, and every step is one of the channel's or  *)
(* none.                                                                   *)
(***************************************************************************)
Promise == INSTANCE Channel WITH received <- last,
                                 delivered <- {<<r.sequence, r.id>> : r \in inbox}

ImplementsChannel == Promise!Spec

(***************************************************************************)
(* A consumer's checkpoint never covers a message none of its processes    *)
(* has handled, or one the daemon has not received (acknowledge), however  *)
(* its processes die, restart and acknowledge out of order.                *)
(***************************************************************************)
CheckpointHandled ==
  \A c \in Consumers : acks[c] <= last /\ 1..acks[c] \subseteq handled[c]

(* The checkpoint of a consumer never goes back (acknowledge). *)
CheckpointMonotone == [][\A c \in Consumers : acks'[c] >= acks[c]]_vars

(***************************************************************************)
(* Every enqueued message is eventually handled by every consumer that     *)
(* has a reading process, and covered by its checkpoint.                   *)
(***************************************************************************)
EventuallyHandled ==
  \A c \in {ConsumerOf[i] : i \in Instances} :
    \A n \in 1..MaxMessages : sent >= n ~> acks[c] >= n
=============================================================================
