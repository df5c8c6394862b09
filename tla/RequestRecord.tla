---------------------------- MODULE RequestRecord ----------------------------
(***************************************************************************)
(* The routes of routes/requests.ts that change a requests row outside the *)
(* lifecycle service's own calls: appeals and the requestor. Each route    *)
(* reads the row, decides, and later writes through requests.update, which *)
(* reads the row once more and writes every column back. A decision that   *)
(* overturns a refusal runs a lifecycle transition in between, and staff   *)
(* run transitions beside it; of a transition only its key, its event and  *)
(* its write of the status are kept (RequestLifecycle has the rest).       *)
(***************************************************************************)
EXTENDS StateMachine, Naturals, FiniteSets

CONSTANTS
  Handlers,      \* requests being served at the same time
  Appeals,       \* ids makeRequestId returns for appeals
  StaffActions,  \* lifecycle actions staff call
  Requestors,    \* requestor documents clients put
  InitialStatuses, \* statuses the request may have when the calls begin
  MaxCalls,      \* bound: calls made
  MaxFaults,     \* bound: calls that end early
  NoAppeal       \* no appeal

ASSUME RecordAssumption ==
  /\ StaffActions \subseteq Actions \ {"appeal_overturn", "fulfil"}
  /\ InitialStatuses \subseteq Statuses
  /\ MaxCalls \in Nat /\ MaxFaults \in Nat
  /\ NoAppeal \notin Appeals

VARIABLES
  row,      \* status, appeals_json as a function of the ids, requestor_json
  recorded, \* request_timeline_events of transitions: the action and its key
  pc,       \* the statement each handler executes next
  call,     \* what it was called for and what it has read
  calls, faults,    \* bounded counters
  intended,         \* history: each column as the last update meant it
  raced             \* history: a call went on although another had written the
                    \* row since it read it

record  == <<row, recorded>>
handler == <<pc, call>>
budget  == <<calls, faults>>
history == <<intended, raced>>
recordVars == <<record, handler, budget, history>>

StatusByDecision == [approve |-> "approved", deny |-> "denied",
                     partial |-> "partially_approved"]
Decisions == DOMAIN StatusByDecision

Row(status) == [status |-> status, appeals |-> [a \in Appeals |-> "absent"],
                requestor |-> "captured"]
NoRead == Row("captured")
NoCall == [route |-> "none", action |-> "none", appeal |-> NoAppeal, value |-> "none",
           seen |-> NoRead, fetched |-> NoRead, stale |-> FALSE]

Busy(h) == pc[h] # "idle"
Goto(h, label) == pc' = [pc EXCEPT ![h] = label]
Finish(h) == Goto(h, "idle") /\ call' = [call EXCEPT ![h] = NoCall]

(* A call is admitted and reads the row.                                   *)
Begin(h, c, label) ==
  /\ ~Busy(h) /\ calls < MaxCalls
  /\ calls' = calls + 1
  /\ call' = [call EXCEPT ![h] = [c EXCEPT !.seen = row]]
  /\ Goto(h, label)
  /\ UNCHANGED <<record, faults, history>>

RecordInit ==
  /\ row \in {Row(status) : status \in InitialStatuses} /\ recorded = {}
  /\ pc = [h \in Handlers |-> "idle"]
  /\ call = [h \in Handlers |-> NoCall]
  /\ calls = 0 /\ faults = 0
  /\ intended = row /\ raced = FALSE

-----------------------------------------------------------------------------
(* POST /appeals, for a policy that allows them: the record is built with  *)
(* a new id from the appeals just read.                                    *)
SubmitAppeal(h) ==
  \E a \in Appeals :
    /\ row.appeals[a] = "absent" /\ intended.appeals[a] = "absent"
    /\ \A g \in Handlers : call[g].appeal # a
    /\ Begin(h, [NoCall EXCEPT !.route = "submit", !.appeal = a,
                               !.value = "submitted"], "fetch")

(* A mutant: an approval overturns whatever the status is.                 *)
DecideAnyAppeal(h) ==
  \E a \in Appeals, d \in Decisions :
    /\ row.appeals[a] # "absent" /\ row.status # "closed"
    /\ Begin(h, [NoCall EXCEPT !.route = "decide", !.appeal = a,
                               !.value = StatusByDecision[d],
                               !.action = "appeal_overturn"],
             IF d = "approve" THEN "transition" ELSE "fetch")

(* POST /appeals/:appealId/decide. An approval of a refused request goes   *)
(* through the lifecycle first.                                            *)
DecideAppeal(h) ==
  \E a \in Appeals, d \in Decisions :
    /\ row.appeals[a] # "absent" /\ row.status # "closed"
    /\ Begin(h, [NoCall EXCEPT !.route = "decide", !.appeal = a,
                               !.value = StatusByDecision[d],
                               !.action = "appeal_overturn"],
             IF d = "approve" /\ row.status = "refused" THEN "transition" ELSE "fetch")

(* PUT /requestor.                                                         *)
PutRequestor(h) ==
  \E r \in Requestors :
    Begin(h, [NoCall EXCEPT !.route = "requestor", !.value = r], "fetch")

(* The transition routes of the staff, called without an idempotency key.  *)
StartStaff(h) ==
  \E action \in StaffActions :
    Begin(h, [NoCall EXCEPT !.route = "staff", !.action = action], "transition")

-----------------------------------------------------------------------------
Overturns(h) == call[h].route = "decide"

(* transitionRequestLifecycle reads the row itself; a decision still holds *)
(* what it has read before.                                                *)
ReadForTransition(h) ==
  /\ pc[h] = "transition"
  /\ call' = [call EXCEPT ![h].fetched = row,
                          ![h].stale = @ /\ Overturns(h)]
  /\ Goto(h, "check")
  /\ UNCHANGED <<record, budget, history>>

Entry(h) == [action |-> call[h].action,
             key |-> IF Overturns(h) THEN call[h].appeal ELSE NoAppeal]

KeyKnown(h) == Overturns(h) /\ Entry(h) \in recorded

(* The key of an overturn names request and appeal: one already in the     *)
(* timeline answers at once and the decision goes on as if it had been     *)
(* overturned. What the state machine refuses ends the whole call.         *)
Check(h) ==
  /\ pc[h] = "check"
  /\ \/ /\ KeyKnown(h)
        /\ Goto(h, "fetch") /\ UNCHANGED <<call, raced>>
     \/ /\ ~KeyKnown(h) /\ Permitted(call[h].action, call[h].fetched.status)
        /\ Goto(h, "append") /\ UNCHANGED <<call, raced>>
     \/ /\ ~KeyKnown(h) /\ ~Permitted(call[h].action, call[h].fetched.status)
        /\ Finish(h) /\ raced' = (raced \/ call[h].stale)
  /\ UNCHANGED <<record, budget, intended>>

(* The event of the transition.                                            *)
AppendEvent(h) ==
  /\ pc[h] = "append"
  /\ recorded' = recorded \cup {Entry(h)}
  /\ Goto(h, "status_fetch")
  /\ UNCHANGED <<row, call, budget, history>>

(* requests.update reads the row: for the status, or for the route's own   *)
(* column. Only a new requestor does not depend on an earlier read.        *)
FetchRow(h) ==
  /\ pc[h] \in {"status_fetch", "fetch"}
  /\ call' = [call EXCEPT ![h].fetched = row,
                          ![h].stale = @ /\ call[h].route # "requestor"]
  /\ Goto(h, IF pc[h] = "fetch" THEN "write" ELSE "status_write")
  /\ UNCHANGED <<record, budget, history>>

(* Whoever has read the row before this write has read an older one.       *)
Written(h, next) ==
  /\ row' = next
  /\ call' = [g \in Handlers |->
                IF g # h /\ Busy(g) THEN [call[g] EXCEPT !.stale = TRUE] ELSE call[g]]
  /\ raced' = (raced \/ call[h].stale)

(* ... and writes all of it back with the new status.                      *)
WriteStatus(h) ==
  /\ pc[h] = "status_write"
  /\ LET next == StatusByAction[call[h].action]
     IN  /\ Written(h, [call[h].fetched EXCEPT !.status = next])
         /\ intended' = [intended EXCEPT !.status = next]
  /\ Goto(h, IF Overturns(h) THEN "fetch" ELSE "announce")
  /\ UNCHANGED <<recorded, budget>>

(* A mutant: the other appeals are not carried over.                       *)
AppealsOfThisCall(h) ==
  [a \in Appeals |-> IF a = call[h].appeal THEN call[h].value ELSE "absent"]

(* [...existingAppeals, record], or existingAppeals with one replaced.     *)
AppealsRevised(h) == [call[h].seen.appeals EXCEPT ![call[h].appeal] = call[h].value]

(* ... or with the new appeals, built from the first read, or requestor.   *)
WriteRow(h) ==
  /\ pc[h] = "write"
  /\ IF call[h].route = "requestor"
     THEN /\ Written(h, [call[h].fetched EXCEPT !.requestor = call[h].value])
          /\ intended' = [intended EXCEPT !.requestor = call[h].value]
     ELSE /\ Written(h, [call[h].fetched EXCEPT !.appeals = AppealsRevised(h)])
          /\ intended' = [intended EXCEPT !.appeals[call[h].appeal] = call[h].value]
  /\ Goto(h, "announce")
  /\ UNCHANGED <<recorded, budget>>

(* The timeline event of the route, its audit entry and its notification.  *)
Announce(h) ==
  /\ pc[h] = "announce"
  /\ Finish(h)
  /\ UNCHANGED <<record, budget, history>>

(* A statement fails (an error is answered) or the process dies.           *)
Fail(h) ==
  /\ Busy(h) /\ faults < MaxFaults
  /\ faults' = faults + 1
  /\ Finish(h)
  /\ UNCHANGED <<record, calls, history>>

RecordStart(h) == SubmitAppeal(h) \/ DecideAppeal(h) \/ PutRequestor(h) \/ StartStaff(h)

RecordStep(h) ==
  \/ ReadForTransition(h) \/ Check(h) \/ AppendEvent(h)
  \/ FetchRow(h) \/ WriteStatus(h) \/ WriteRow(h) \/ Announce(h)

RecordNext == \E h \in Handlers : RecordStart(h) \/ RecordStep(h) \/ Fail(h)

RecordSpec == RecordInit /\ [][RecordNext]_recordVars
-----------------------------------------------------------------------------
(* Properties.                                                             *)

(* Every appeal, decision, requestor and status a call has written is in   *)
(* the row as the last call meant it, whichever columns were written when, *)
(* crashes included - unless a call went on with a row another had changed *)
(* under it.                                                               *)
UpdatesSurvive == ~raced => row = intended
=============================================================================
