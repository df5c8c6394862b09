------------------------------ MODULE ChatQueue ------------------------------
(***************************************************************************)
(* The message queue of a chat thread (core/src/chat.ts, enqueue and       *)
(* dequeue of chatRuntimeState). On SQLite a transaction or a statement is *)
(* alone; on PostgreSQL, under READ COMMITTED, a statement sees what was   *)
(* committed before it and its own transaction's rows, takes seq from a    *)
(* sequence, and waits for the transaction that has deleted its row.       *)
(***************************************************************************)
EXTENDS Naturals, FiniteSets, Sequences

CONSTANTS
  Workers,      \* callers of the adapter
  MaxSize,      \* maxSize of enqueue
  Expiries,     \* expiresAt an entry may have; at time 0 all are alive
  MaxEnqueued   \* bound: entries ever queued

ASSUME QueueAssumption ==
  MaxSize \in Nat \ {0} /\ MaxEnqueued \in Nat /\ Expiries \subseteq Nat \ {0}

VARIABLES
  serial,     \* whether the database is SQLite
  queueTime,  \* CURRENT_TIMESTAMP of the database
  entries,    \* committed rows of chat_state_queues: seq, expiresAt
  lastSeq,    \* the sequence
  txn,        \* what each worker is at: statement, entry, rows it deleted
  delivered,  \* history: seq of the entries dequeued, in order
  accepted,   \* history: entries whose enqueue was answered
  overlapped  \* history: pairs of entries queued, or taken, at the same time

queueVars == <<serial, queueTime, entries, lastSeq, txn, delivered, accepted, overlapped>>

NoTxn == [at |-> "idle", entry |-> [seq |-> 0, expiresAt |-> 0], gone |-> {}]

QueueInit ==
  /\ serial \in BOOLEAN /\ queueTime = 0 /\ entries = {} /\ lastSeq = 0
  /\ txn = [w \in Workers |-> NoTxn]
  /\ delivered = <<>> /\ accepted = {} /\ overlapped = {}

Enqueuing(w) == txn[w].at \in {"trim", "commit"}

Alive(E) == {e \in E : e.expiresAt > queueTime}

(* SQLite: nobody else is between two statements.                          *)
MayStart(w) == txn[w].at = "idle" /\ (serial => \A v \in Workers : txn[v].at = "idle")

(* Nobody else holds a deleted version of these rows.                      *)
Unlocked(w, E) == \A v \in Workers \ {w} : txn[v].gone \cap E = {}

(* A mutant: the newest are dropped.                                       *)
BeyondOldest(E) == {e \in E : Cardinality({f \in E : f.seq <= e.seq}) > MaxSize}

(* seq NOT IN the MaxSize newest.                                          *)
Beyond(E) == {e \in E : Cardinality({f \in E : f.seq >= e.seq}) > MaxSize}
-----------------------------------------------------------------------------
(* enqueue: a transaction that drops what has expired, inserts the entry,  *)
EnqueueInsert(w) ==
  \E x \in Expiries :
    LET e == [seq |-> lastSeq + 1, expiresAt |-> x]  old == entries \ Alive(entries) IN
    /\ MayStart(w) /\ lastSeq < MaxEnqueued /\ x > queueTime /\ Unlocked(w, old)
    /\ lastSeq' = lastSeq + 1
    /\ txn' = [txn EXCEPT ![w] = [at |-> "trim", entry |-> e, gone |-> old]]
    /\ overlapped' = overlapped \cup {{e.seq, txn[v].entry.seq} : v \in {v \in Workers : Enqueuing(v)}}
    /\ UNCHANGED <<serial, queueTime, entries, delivered, accepted>>

(* drops what is beyond the limit of the rows it sees                      *)
EnqueueTrim(w) ==
  LET seen == (entries \ txn[w].gone) \cup {txn[w].entry} IN
  /\ txn[w].at = "trim" /\ Unlocked(w, Beyond(seen))
  /\ txn' = [txn EXCEPT ![w].at = "commit", ![w].gone = @ \cup Beyond(seen)]
  /\ UNCHANGED <<serial, queueTime, entries, lastSeq, delivered, accepted, overlapped>>

(* and commits.                                                            *)
EnqueueCommit(w) ==
  /\ txn[w].at = "commit"
  /\ entries' = (entries \cup {txn[w].entry}) \ txn[w].gone
  /\ accepted' = accepted \cup {txn[w].entry}
  /\ txn' = [txn EXCEPT ![w] = NoTxn]
  /\ UNCHANGED <<serial, queueTime, lastSeq, delivered, overlapped>>

(* The connection is lost: the transaction is rolled back.                 *)
EnqueueAbort(w) ==
  /\ Enqueuing(w)
  /\ txn' = [txn EXCEPT ![w] = NoTxn]
  /\ UNCHANGED <<serial, queueTime, entries, lastSeq, delivered, accepted, overlapped>>

(* dequeue: a statement that drops what has expired,                       *)
DequeueDrop(w) ==
  LET old == entries \ Alive(entries) IN
  /\ MayStart(w) /\ entries # {} /\ Unlocked(w, old)
  /\ entries' = entries \ old
  /\ txn' = [txn EXCEPT ![w].at = "select"]
  /\ UNCHANGED <<serial, queueTime, lastSeq, delivered, accepted, overlapped>>

(* and one whose inner SELECT finds the first entry alive, if any,         *)
DequeueSelect(w) ==
  /\ txn[w].at = "select"
  /\ IF Alive(entries) = {} THEN txn' = [txn EXCEPT ![w] = NoTxn] /\ UNCHANGED overlapped
     ELSE \E e \in Alive(entries) :
            /\ \A f \in Alive(entries) : e.seq <= f.seq
            /\ txn' = [txn EXCEPT ![w] = [at |-> "take", entry |-> e, gone |-> {}]]
            /\ overlapped' = overlapped \cup
                 {{e.seq, txn[v].entry.seq} : v \in {v \in Workers : txn[v].at = "take"}}
  /\ UNCHANGED <<serial, queueTime, entries, lastSeq, delivered, accepted>>

(* A mutant: what was selected is returned, whoever has deleted it.        *)
DequeueTakeAnyway(w) ==
  /\ txn[w].at = "take" /\ Unlocked(w, {txn[w].entry})
  /\ entries' = entries \ {txn[w].entry}
  /\ delivered' = Append(delivered, txn[w].entry.seq)
  /\ txn' = [txn EXCEPT ![w] = NoTxn]
  /\ UNCHANGED <<serial, queueTime, lastSeq, accepted, overlapped>>

(* and whose DELETE returns it - or nothing, if another has deleted it.      *)
DequeueTake(w) ==
  /\ txn[w].at = "take" /\ Unlocked(w, {txn[w].entry})
  /\ entries' = entries \ {txn[w].entry}
  /\ delivered' = IF txn[w].entry \in entries THEN Append(delivered, txn[w].entry.seq)
                  ELSE delivered
  /\ txn' = [txn EXCEPT ![w] = NoTxn]
  /\ UNCHANGED <<serial, queueTime, lastSeq, accepted, overlapped>>

QueueTick ==
  /\ \E x \in Expiries : queueTime < x
  /\ queueTime' = queueTime + 1
  /\ UNCHANGED <<serial, entries, lastSeq, txn, delivered, accepted, overlapped>>

QueueNext ==
  \/ QueueTick
  \/ \E w \in Workers :
       \/ EnqueueInsert(w) \/ EnqueueTrim(w) \/ EnqueueCommit(w) \/ EnqueueAbort(w)
       \/ DequeueDrop(w) \/ DequeueSelect(w) \/ DequeueTake(w)

QueueSpec == QueueInit /\ [][QueueNext]_queueVars
-----------------------------------------------------------------------------
(* Properties.                                                             *)

(* No entry is delivered twice, and a later one never before an earlier    *)
(* one unless the two were queued, or taken, at the same time.             *)
QueueInOrder ==
  \A i, j \in 1..Len(delivered) :
    i < j => \/ delivered[i] < delivered[j]
             \/ delivered[i] > delivered[j] /\ {delivered[i], delivered[j]} \in overlapped

(* An entry whose enqueue was answered is in the queue until it is         *)
(* delivered, expires, or MaxSize later ones have pushed it out.           *)
QueueKeeps ==
  \A e \in Alive(accepted) \ entries :
    \/ \E i \in 1..Len(delivered) : delivered[i] = e.seq
    \/ lastSeq - e.seq >= MaxSize

(* What was accepted is delivered once and in order, or is still there.    *)
QueueIsFaithful == QueueInOrder /\ QueueKeeps
=============================================================================
