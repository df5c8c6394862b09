------------------------------- MODULE Lifecycle -------------------------------
(***************************************************************************)
(* What lifecycle/service.ts promises about one request: a lifecycle call  *)
(* checks the state machine against the current status, records its event, *)
(* recomputes the due date from the whole log and sets the status, all at  *)
(* once. A call that fails half way may leave its event in the log without *)
(* an effect on the row. RequestLifecycle is the code's own sequence of    *)
(* statements; a single process of it implements this specification.       *)
(***************************************************************************)
EXTENDS LegalClock, StateMachine

CONSTANTS
  Extensions,       \* additionalDays a caller may ask for
  MaxTime,          \* bound: days that pass
  MaxEvents         \* bound: events of the log

ASSUME LifecycleAssumption == /\ Extensions \subseteq Int
                              /\ MaxTime \in Nat
                              /\ MaxEvents \in Nat

VARIABLES
  status, due,   \* the request row: status and due_at
  log,           \* request_timeline_events in their listed order; "done" tells
                 \* whether the event's call also wrote the row
  now

vars == <<status, due, log, now>>

-----------------------------------------------------------------------------
DaysOf(action) == IF action = "extension" THEN Extensions ELSE {0}

LastAt == IF log = <<>> THEN 0 ELSE log[Len(log)].at

Event(action, at, days, done) ==
  [action |-> action, at |-> at, days |-> days, done |-> done]

Init ==
  /\ status = "captured" /\ due = ResponseDays
  /\ log = <<>> /\ now = 0

(* A lifecycle call. The time it records is the one it read when it had    *)
(* checked the state machine, which is not before the last event's.        *)
Transition(action) ==
  /\ Permitted(action, status) /\ Len(log) < MaxEvents
  /\ \E at \in LastAt..now, days \in DaysOf(action) :
       /\ log' = Append(log, Event(action, at, days, TRUE))
       /\ due' = FinalDueAt(log', at)
  /\ status' = StatusByAction[action]
  /\ UNCHANGED now

(* A lifecycle call that fails between its event and its row.              *)
Abandon(action) ==
  /\ Permitted(action, status) /\ Len(log) < MaxEvents
  /\ \E at \in LastAt..now, days \in DaysOf(action) :
       log' = Append(log, Event(action, at, days, FALSE))
  /\ UNCHANGED <<status, due, now>>

Pass == now < MaxTime /\ now' = now + 1 /\ UNCHANGED <<status, due, log>>

Next ==
  \/ \E action \in Actions : Transition(action) \/ Abandon(action)
  \/ Pass

Spec == Init /\ [][Next]_vars

-----------------------------------------------------------------------------
(* Properties.                                                             *)

AllDone == \A i \in 1..Len(log) : log[i].done

(* The windows parsePauseWindows finds in any history the state machine    *)
(* allows, failed calls included, credit exactly the days of CreditedDays. *)
CreditIsCountedDays == \A t \in LastAt..now : CreditMatches(log, t)

(* While verification is pending its pause is open, so the deadline moves  *)
(* with the time spent waiting: no legal order of the other calls closes   *)
(* it, as long as no call failed half way.                                 *)
VerificationStopsTheClock ==
  AllDone /\ status = "verification_pending" => "verification" \in OpenPauses(log)

(* No history brings the due date below the policy's, or above it by more  *)
(* than the cap on extensions and the time every stop reason was running.  *)
DueWithinPolicy ==
  /\ due >= ResponseDays
  /\ due <= ResponseDays + MaxAdditionalDays + Cardinality(StopReasons) * now

(* The two together: what the deadline of any lawful history obeys.        *)
DeadlineIsLawful == VerificationStopsTheClock /\ DueWithinPolicy

(* A call moves the due date back only by asking again for what is already *)
(* asked (the code forgets the days since the first request) or by a       *)
(* negative extension, which the request schema admits.                    *)
DueMovesBackOnlyWhenAsked ==
  [][due' < due =>
       \E i \in 1..Len(log') :
         \/ log'[i].days < 0
         \/ log'[i].action \in DOMAIN Pauses
              /\ Pauses[log'[i].action] \in OpenPauses(SubSeq(log', 1, i - 1))]_vars
=============================================================================
