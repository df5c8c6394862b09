------------------------------ MODULE ChatList ------------------------------
(***************************************************************************)
(* One list of the chat state (core/src/chat.ts): appendToList, getList    *)
(* and delete of chatRuntimeState (persistence.ts), transactions over the  *)
(* row of the list's key, which has its expiry, and the rows of its        *)
(* values, which a foreign key deletes with it. On SQLite a transaction is *)
(* alone; on PostgreSQL, under READ COMMITTED, a statement sees what was   *)
(* committed before it, waits for the rows others have changed, and        *)
(* CURRENT_TIMESTAMP is the start of its transaction.                      *)
(***************************************************************************)
EXTENDS Naturals, FiniteSets

CONSTANTS
  Callers,        \* callers of the adapter
  MaxLength,      \* maxLength of appendToList
  ListExpiries,   \* expiries an append may ask for; NoTtl is another
  MaxListTime,    \* bound: the clock of the database
  MaxAppends      \* bound: values ever inserted

ASSUME ListAssumption ==
  /\ MaxLength \in Nat \ {0} /\ ListExpiries \subseteq Nat \ {0}
  /\ MaxListTime \in Nat /\ MaxAppends \in Nat

VARIABLES
  oneWriter,  \* whether the database is SQLite
  listTime,   \* the clock of the database
  listKey,    \* chat_state_list_keys: {} or the set of its one expires_at
  values,     \* chat_state_lists: the seq of its rows
  valueSeq,   \* the sequence
  listTxn,    \* the transaction of each caller
  whole,      \* history: the list, had each operation run where it committed
  straddled    \* history: the list expired between the starts of two that overlap

listVars == <<oneWriter, listTime, listKey, values, valueSeq, listTxn, whole, straddled>>

NoTtl   == 0
Forever == MaxListTime + 1000   \* expires_at IS NULL
NoList  == [key |-> {}, rows |-> {}]

(* start: of the transaction. doomed: the rows its first DELETE found.     *)
(* gone: those it has deleted. locks: it has changed the row of the key,   *)
(* which is mine now.                                                      *)
NoListTxn == [op |-> "none", at |-> "idle", start |-> 0, ttl |-> NoTtl, new |-> {},
              doomed |-> {}, gone |-> {}, locks |-> FALSE, mine |-> {}]

ListInit ==
  /\ oneWriter \in BOOLEAN /\ listTime = 0 /\ listKey = {} /\ values = {} /\ valueSeq = 0
  /\ listTxn = [c \in Callers |-> NoListTxn]
  /\ whole = NoList /\ straddled = FALSE

Open(c) == listTxn[c].at # "idle"
Others(c) == Callers \ {c}

Lapsed(key, t) == \E x \in key : x <= t

(* Nobody else has deleted these rows, or changed the row of the key.      *)
RowsFree(c, rows) == \A d \in Others(c) : listTxn[d].gone \cap rows = {}
KeyFree(c) == \A d \in Others(c) : ~listTxn[d].locks

KeySeen(c) == IF listTxn[c].locks THEN listTxn[c].mine ELSE listKey

(* A mutant: an append without a ttl takes the expiry away.                *)
RenewedAnyway(key, ttl) == IF ttl # NoTtl THEN {ttl} ELSE {Forever}

(* ON CONFLICT DO UPDATE SET expires_at = COALESCE(excluded, present).     *)
Renewed(key, ttl) ==
  IF ttl # NoTtl THEN {ttl} ELSE IF key = {} THEN {Forever} ELSE key

(* seq NOT IN the maxLength newest.                                        *)
Excess(rows) == {v \in rows : Cardinality({u \in rows : u >= v}) > MaxLength}

(* What one operation does to a list nobody else is at.                    *)
Alone(list, t) ==
  LET alive == IF t.op = "delete" \/ Lapsed(list.key, t.start) THEN NoList ELSE list
      grown == alive.rows \cup t.new
  IN  IF t.op # "append" THEN alive
      ELSE [key  |-> IF t.ttl # NoTtl THEN {t.ttl} ELSE IF alive.key = {} THEN {Forever} ELSE alive.key,
            rows |-> {v \in grown : Cardinality({u \in grown : u >= v}) <= MaxLength}]
-----------------------------------------------------------------------------
ListBegin(c, op, ttl) ==
  /\ ~Open(c) /\ (oneWriter => \A d \in Callers : ~Open(d))
  /\ listTxn' = [listTxn EXCEPT ![c] =
       [NoListTxn EXCEPT !.op = op, !.at = "look", !.start = listTime, !.ttl = ttl]]
  /\ straddled' = (straddled \/ \E d \in Others(c) :
       Open(d) /\ \E x \in listKey \cup {listTxn[d].ttl} : listTxn[d].start < x /\ x <= listTime)
  /\ UNCHANGED <<oneWriter, listTime, listKey, values, valueSeq, whole>>

BeginAppend(c) ==
  /\ valueSeq < MaxAppends
  /\ \E ttl \in {x \in ListExpiries : x > listTime} \cup {NoTtl} : ListBegin(c, "append", ttl)

BeginGetList(c) == ListBegin(c, "get", NoTtl)
BeginDropList(c) == ListBegin(c, "delete", NoTtl)

(* The first DELETE finds the values of a list whose key it sees expired;  *)
(* that of a delete all it sees.                                           *)
FindValues(c) ==
  /\ listTxn[c].at = "look"
  /\ listTxn' = [listTxn EXCEPT ![c].at = "drop",
       ![c].doomed = IF listTxn[c].op = "delete" \/ Lapsed(listKey, listTxn[c].start)
                     THEN values ELSE {}]
  /\ UNCHANGED <<oneWriter, listTime, listKey, values, valueSeq, whole, straddled>>

(* It waits for who has deleted one of them, and deletes those left.       *)
DropValues(c) ==
  /\ listTxn[c].at = "drop" /\ RowsFree(c, listTxn[c].doomed)
  /\ listTxn' = [listTxn EXCEPT ![c].at = "key", ![c].doomed = {},
                                ![c].gone = listTxn[c].doomed \cap values]
  /\ UNCHANGED <<oneWriter, listTime, listKey, values, valueSeq, whole, straddled>>

(* The second DELETE waits for who has changed the key; the foreign key    *)
(* takes every value along.                                                *)
DropKey(c) ==
  LET drops == IF listTxn[c].op = "delete" THEN listKey # {}
               ELSE Lapsed(listKey, listTxn[c].start)
  IN
  /\ listTxn[c].at = "key"
  /\ drops => KeyFree(c) /\ RowsFree(c, values)
  /\ listTxn' = [listTxn EXCEPT
       ![c].at = IF listTxn[c].op = "append" THEN "insert" ELSE "commit",
       ![c].locks = drops, ![c].gone = IF drops THEN values ELSE @]
  /\ whole' = IF drops \/ listTxn[c].op = "append" THEN whole ELSE Alone(whole, listTxn[c])
  /\ UNCHANGED <<oneWriter, listTime, listKey, values, valueSeq, straddled>>

(* The key is inserted or renewed, and under its lock the value inserted.  *)
InsertValue(c) ==
  /\ listTxn[c].at = "insert" /\ KeyFree(c)
  /\ valueSeq < MaxAppends /\ valueSeq' = valueSeq + 1
  /\ listTxn' = [listTxn EXCEPT ![c].at = "trim", ![c].locks = TRUE, ![c].new = {valueSeq + 1},
                                ![c].mine = Renewed(KeySeen(c), listTxn[c].ttl)]
  /\ UNCHANGED <<oneWriter, listTime, listKey, values, whole, straddled>>

TrimList(c) ==
  LET excess == Excess((values \ listTxn[c].gone) \cup listTxn[c].new) IN
  /\ listTxn[c].at = "trim" /\ RowsFree(c, excess)
  /\ listTxn' = [listTxn EXCEPT ![c].at = "commit", ![c].gone = @ \cup excess]
  /\ UNCHANGED <<oneWriter, listTime, listKey, values, valueSeq, whole, straddled>>

ListCommit(c) ==
  /\ listTxn[c].at = "commit"
  /\ values' = (values \cup listTxn[c].new) \ listTxn[c].gone
  /\ listKey' = KeySeen(c)
  /\ whole' = IF listTxn[c].locks THEN Alone(whole, listTxn[c]) ELSE whole
  /\ listTxn' = [listTxn EXCEPT ![c] = NoListTxn]
  /\ UNCHANGED <<oneWriter, listTime, valueSeq, straddled>>

(* The connection is lost, or the database ends a deadlock: rolled back.   *)
ListAbort(c) ==
  /\ Open(c)
  /\ listTxn' = [listTxn EXCEPT ![c] = NoListTxn]
  /\ UNCHANGED <<oneWriter, listTime, listKey, values, valueSeq, whole, straddled>>

ListTick ==
  /\ listTime < MaxListTime /\ listTime' = listTime + 1
  /\ UNCHANGED <<oneWriter, listKey, values, valueSeq, listTxn, whole, straddled>>

ListNext ==
  \/ ListTick
  \/ \E c \in Callers :
       \/ BeginAppend(c) \/ BeginGetList(c) \/ BeginDropList(c) \/ FindValues(c)
       \/ DropValues(c) \/ DropKey(c) \/ InsertValue(c) \/ TrimList(c) \/ ListCommit(c) \/ ListAbort(c)

ListSpec == ListInit /\ [][ListNext]_listVars
-----------------------------------------------------------------------------
(* Properties.                                                             *)

(* However appends, reads and deletions overlap, the stored list is the    *)
(* one they would have left had each run alone where it last met the row   *)
(* of the key: no value is lost, outlives its list or brings an expired    *)
(* one back - unless the list expired between the starts of two of them,   *)
(* which then disagree whether it has.                                     *)
ListIsWhole ==
  ~straddled => values = whole.rows /\ listKey = whole.key
=============================================================================
