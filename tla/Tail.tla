--------------------------------- MODULE Tail ---------------------------------
(***************************************************************************)
(* `dsar audit tail` and `dsar webhooks tail` (cli/src/commands): a loop   *)
(* that drains, page by page, what was created after a watermark and       *)
(* prints what it has not printed yet, while rows appear. Audit events are *)
(* paged by a cursor from the watermark on; dispatches by offset, strictly *)
(* after the watermark and, with --status, those in the status only.       *)
(***************************************************************************)
EXTENDS Naturals, FiniteSets, Sequences

CONSTANTS
  RowIds,         \* ids, ordered as the database orders them
  Limit,          \* rows of a page
  PageCap,        \* POLL_DRAIN_PAGE_CAP
  MaxStamp,       \* bound: createdAt
  MaxStatusMoves  \* bound: rows that change their status

ASSUME TailAssumption ==
  /\ RowIds \subseteq Nat /\ Limit \in Nat \ {0} /\ PageCap \in Nat \ {0}
  /\ MaxStamp \in Nat /\ MaxStatusMoves \in Nat

VARIABLES
  kind,         \* what is tailed: "audit", "dispatches" or "failed", with --status
  rows,         \* committed rows: id, createdAt, whether in the status asked for
  statusMoves,  \* bounded counter
  watermark,    \* createdAfter; 0 is undefined
  seen,         \* seenAtWatermark
  poll,         \* the drain under way: pages read, position, rows collected
  printed,      \* ids printed, in order
  late,         \* history: ids committed after a row created later, or cut off
                \* by the cap; of dispatches, also those created at one time
  due,          \* history: ids the poll under way should print
  skipped       \* history: ids that a poll should have printed and did not

tailVars == <<kind, rows, statusMoves, watermark, seen, poll, printed, late, due, skipped>>

Before(r, s) == r.createdAt < s.createdAt \/ (r.createdAt = s.createdAt /\ r.id < s.id)

NoRow  == [id |-> 0, createdAt |-> 0]
NoPoll == [pages |-> 0, last |-> NoRow, collected |-> {}]
Ids(R) == {r.id : r \in R}

TailInit ==
  /\ kind \in {"audit", "dispatches", "failed"}
  /\ rows = {} /\ statusMoves = 0 /\ watermark = 0 /\ seen = {} /\ poll = NoPoll
  /\ printed = <<>> /\ late = {} /\ due = {} /\ skipped = {}

(* What created_after leaves out: audit events at the watermark are read   *)
(* again, dispatches are not.                                              *)
Behind(r, mark) == r.createdAt < mark \/ (kind # "audit" /\ r.createdAt = mark)

(* The rows a query of the poll selects.                                   *)
Selected == {r \in rows : r.inStatus /\ (watermark = 0 \/ ~Behind(r, watermark))}

(* ORDER BY created_at DESC, id DESC.                                      *)
Rank(r) == Cardinality({s \in Selected : Before(r, s)})

(* A mutant: the offset advances by one row too many.                      *)
PageTooFar ==
  IF kind = "audit" THEN {r \in Selected : poll.pages = 0 \/ Before(r, poll.last)}
  ELSE {r \in Selected : Rank(r) >= poll.pages * (Limit + 1)}

(* What is left of it for the next page.                                   *)
PageFrom ==
  IF kind = "audit" THEN {r \in Selected : poll.pages = 0 \/ Before(r, poll.last)}
  ELSE {r \in Selected : Rank(r) >= poll.pages * Limit}

Page == {r \in PageFrom : Cardinality({s \in PageFrom : Before(r, s)}) < Limit}

(* The cursor says whether rows are left, a short page that none are.      *)
More == IF kind = "audit" THEN Page # PageFrom ELSE Cardinality(Page) = Limit

(* A mutant: only the id printed last is remembered.                       *)
ShowLast(s, c) ==
  IF c.id \in s.seen THEN s
  ELSE [out |-> Append(s.out, c.id), seen |-> {c.id},
        mark |-> IF c.createdAt > s.mark THEN c.createdAt ELSE s.mark]

(* One event of the loop: skipped when it was seen, else printed, and the  *)
(* watermark follows. s: ids printed, watermark, ids seen at it.           *)
Show(s, c) ==
  IF c.id \in s.seen THEN s
  ELSE IF c.createdAt > s.mark
       THEN [out |-> Append(s.out, c.id), mark |-> c.createdAt, seen |-> {c.id}]
       ELSE [s EXCEPT !.out = Append(@, c.id), !.seen = @ \cup {c.id}]

(* The rows collected by createdAt, then id; one that shifted into a later *)
(* page follows itself.                                                    *)
Earlier(c, d) == Before(c, d) \/ (c.id = d.id /\ c.page < d.page)

Nth(collected, n) ==
  CHOOSE c \in collected : Cardinality({d \in collected : Earlier(d, c)}) = n - 1

Shown(collected) ==
  LET show[n \in 0..Cardinality(collected)] ==
        IF n = 0 THEN [out |-> printed, mark |-> watermark, seen |-> seen]
        ELSE Show(show[n - 1], Nth(collected, n))
  IN  show[Cardinality(collected)]
-----------------------------------------------------------------------------
(* A handler commits a row, somewhat after it read the clock.              *)
Commit ==
  \E id \in RowIds \ Ids(rows), t \in 1..MaxStamp, b \in BOOLEAN :
    /\ b \/ kind = "failed"
    /\ rows' = rows \cup {[id |-> id, createdAt |-> t, inStatus |-> b]}
    /\ late' = late \cup {i \in {id} : \E r \in rows : r.createdAt > t}
                   \cup (IF kind = "audit" \/ {r \in rows : r.createdAt = t} = {} THEN {}
                        ELSE {id} \cup {r.id : r \in {s \in rows : s.createdAt = t}})
    /\ UNCHANGED <<kind, statusMoves, watermark, seen, poll, printed, due, skipped>>

(* An attempt fails, or one that had failed is retried with success.       *)
MoveStatus ==
  \E r \in rows :
    /\ kind = "failed" /\ statusMoves < MaxStatusMoves
    /\ rows' = (rows \ {r}) \cup {[r EXCEPT !.inStatus = ~@]}
    /\ statusMoves' = statusMoves + 1
    /\ UNCHANGED <<kind, watermark, seen, poll, printed, late, due, skipped>>

Collected ==
  poll.collected \cup {[id |-> r.id, createdAt |-> r.createdAt, page |-> poll.pages] : r \in Page}

(* The ids this poll should print.                                         *)
Due == IF poll.pages # 0 THEN due ELSE Ids(IF kind = "failed" THEN Selected ELSE rows)

(* pollOnce reads a page of a drain that goes on.                          *)
ReadPage ==
  /\ More /\ poll.pages + 1 < PageCap
  /\ poll' = [pages |-> poll.pages + 1, collected |-> Collected,
              last |-> CHOOSE r \in Page : \A s \in Page : r = s \/ Before(r, s)]
  /\ due' = Due
  /\ UNCHANGED <<kind, rows, statusMoves, watermark, seen, printed, late, skipped>>

(* The last page ends the drain, and its rows are printed. What a drain    *)
(* cut off by its cap did not reach lies behind the new watermark.         *)
EndPoll ==
  LET end    == Shown(Collected)
      missed == {i \in Ids(rows) : \A n \in 1..Len(end.out) : end.out[n] # i} IN
  /\ ~More \/ poll.pages + 1 >= PageCap
  /\ watermark' = end.mark /\ seen' = end.seen /\ printed' = end.out
  /\ poll' = NoPoll /\ due' = {}
  /\ IF More
     THEN /\ late' = late \cup Ids({r \in rows : r.id \in missed /\ Behind(r, end.mark)})
          /\ UNCHANGED skipped
     ELSE skipped' = skipped \cup (Due \cap missed) /\ UNCHANGED late
  /\ UNCHANGED <<kind, rows, statusMoves>>

TailNext == Commit \/ MoveStatus \/ ReadPage \/ EndPoll

TailSpec == TailInit /\ [][TailNext]_tailVars
-----------------------------------------------------------------------------
(* Properties.                                                             *)

(* No row is printed twice, although pages shift while they are read and   *)
(* the watermark's own rows are read again.                                *)
PrintedOnce == \A i, j \in 1..Len(printed) : printed[i] = printed[j] => i = j

(* Without --status a poll prints every row that was there when it began,  *)
(* however many pages they are, and whatever is committed                  *)
(* between two pages - except rows committed after one created later,      *)
(* dispatches created in the same millisecond as another, and what a cap   *)
(* once cut off, which no later poll asks for. With --status it does not:  *)
(* where a row leaves the status, the offsets shift under it.              *)
NothingSkipped == kind # "failed" => skipped \subseteq late

(* A poll prints every row it has to, once.                                *)
TailIsComplete == PrintedOnce /\ NothingSkipped
=============================================================================
