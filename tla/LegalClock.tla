------------------------------ MODULE LegalClock ------------------------------
(***************************************************************************)
(* The statutory deadline of a request as a function of its timeline:      *)
(* computeLegalClock of services/legal-clock/engine.ts and the helpers of  *)
(* lifecycle/clock.ts. One unit of time is one day, day 0 is receivedAt.   *)
(*                                                                         *)
(* A timeline is a sequence of records with the fields action, at (the day *)
(* of created_at) and days (the payload's additionalDays).                 *)
(***************************************************************************)
EXTENDS Integers, Sequences, FiniteSets

CONSTANTS
  ResponseDays,       \* policy.responseDeadlineDays
  MaxAdditionalDays,  \* policy.maxAdditionalDays
  StopReasons         \* the pauses whose policy effect is "stop_clock"

Reasons == {"verification", "clarification"}

ASSUME PolicyAssumption == /\ ResponseDays \in Nat
                           /\ MaxAdditionalDays \in Nat
                           /\ StopReasons \subseteq Reasons

(* The actions whose timeline event opens or closes a pause, by reason.    *)
(* Both outcomes of a verification are one event, verification_resolved.   *)
Pauses  == [verification_request  |-> "verification",
            clarification_request |-> "clarification"]
Resumes == [verification_approve  |-> "verification",
            verification_reject   |-> "verification",
            clarification_receive |-> "clarification"]

NotOpen == -1        \* openPauseByReason without an entry

-----------------------------------------------------------------------------
(* A mutant: a pause that is asked for again keeps its first start.        *)
ScanKeepingFirst(scan, e) ==
  IF e.action \in DOMAIN Pauses
  THEN IF scan.open[Pauses[e.action]] # NotOpen THEN scan
       ELSE [scan EXCEPT !.open[Pauses[e.action]] = e.at]
  ELSE IF e.action \in DOMAIN Resumes /\ scan.open[Resumes[e.action]] # NotOpen
  THEN LET r == Resumes[e.action]
       IN  [open    |-> [scan.open EXCEPT ![r] = NotOpen],
            windows |-> scan.windows \cup
                          {[reason |-> r, from |-> scan.open[r], to |-> e.at]}]
  ELSE scan

(* A mutant: an answered pause is dropped from the windows.                *)
ScanForgettingAnswered(scan, e) ==
  IF e.action \in DOMAIN Pauses
  THEN [scan EXCEPT !.open[Pauses[e.action]] = e.at]
  ELSE IF e.action \in DOMAIN Resumes
  THEN [scan EXCEPT !.open[Resumes[e.action]] = NotOpen]
  ELSE scan

(* One event of parsePauseWindows: a request overwrites an open pause of   *)
(* its reason, an answer closes it.                                        *)
Scan(scan, e) ==
  IF e.action \in DOMAIN Pauses
  THEN [scan EXCEPT !.open[Pauses[e.action]] = e.at]
  ELSE IF e.action \in DOMAIN Resumes /\ scan.open[Resumes[e.action]] # NotOpen
  THEN LET r == Resumes[e.action]
       IN  [open    |-> [scan.open EXCEPT ![r] = NotOpen],
            windows |-> scan.windows \cup
                          {[reason |-> r, from |-> scan.open[r], to |-> e.at]}]
  ELSE scan

NothingScanned == [open |-> [r \in Reasons |-> NotOpen], windows |-> {}]

Scanned(timeline) ==
  LET scan[i \in 0..Len(timeline)] ==
        IF i = 0 THEN NothingScanned ELSE Scan(scan[i - 1], timeline[i])
  IN  scan[Len(timeline)]

OpenPauses(timeline) ==
  {r \in Reasons : Scanned(timeline).open[r] # NotOpen}

(* Still open windows end at the time of the computation.                  *)
PauseWindows(timeline, now) ==
  LET scan == Scanned(timeline)
  IN  scan.windows \cup
        {[reason |-> r, from |-> scan.open[r], to |-> now] :
           r \in OpenPauses(timeline)}

Stopped(timeline, now) ==
  {w \in PauseWindows(timeline, now) : w.reason \in StopReasons}

(* The days of every window that stops the clock.                          *)
PauseDays(timeline, now) ==
  UNION {{w} \X (w.from..(w.to - 1)) : w \in Stopped(timeline, now)}

PauseCredit(timeline, now) == Cardinality(PauseDays(timeline, now))

AskedDays(timeline) ==
  LET asked[i \in 0..Len(timeline)] ==
        IF i = 0 THEN 0
        ELSE IF timeline[i].action = "extension"
        THEN asked[i - 1] + timeline[i].days
        ELSE asked[i - 1]
  IN  asked[Len(timeline)]

(* A mutant: the policy's cap on extensions is forgotten.                  *)
ExtensionDaysUncapped(timeline) == AskedDays(timeline)

ExtensionDays(timeline) ==
  LET capped == IF AskedDays(timeline) < MaxAdditionalDays
                THEN AskedDays(timeline) ELSE MaxAdditionalDays
  IN  IF capped > 0 THEN capped ELSE 0

FinalDueAt(timeline, now) ==
  LET computed == ResponseDays + PauseCredit(timeline, now)
                    + ExtensionDays(timeline)
  IN  IF computed > ResponseDays THEN computed ELSE ResponseDays

(* The segments computeLegalClock derives, as the signatures by which      *)
(* dedupeClockSegments compares them with the persisted ones.              *)
Segments(timeline, now) ==
  {[reason |-> "base", from |-> 0, to |-> ResponseDays]}
    \cup Stopped(timeline, now)
    \cup (IF ExtensionDays(timeline) > 0
          THEN {[reason |-> "extension", from |-> ResponseDays,
                 to |-> FinalDueAt(timeline, now)]}
          ELSE {})

-----------------------------------------------------------------------------
(* The definition the computation is compared with: day t is credited to a *)
(* reason when the last request for it at or before t was not superseded,  *)
(* and its answer, if there is one, came after t.                          *)
Concerns(e, r) ==
  \/ e.action \in DOMAIN Pauses  /\ Pauses[e.action] = r
  \/ e.action \in DOMAIN Resumes /\ Resumes[e.action] = r

CreditedDays(timeline, r, now) ==
  {t \in 0..(now - 1) :
     \E i \in 1..Len(timeline) :
       /\ timeline[i].action \in DOMAIN Pauses /\ Concerns(timeline[i], r)
       /\ timeline[i].at <= t
       /\ \/ \A j \in (i + 1)..Len(timeline) : ~Concerns(timeline[j], r)
          \/ \E j \in (i + 1)..Len(timeline) :
               /\ timeline[j].action \in DOMAIN Resumes
               /\ Concerns(timeline[j], r) /\ timeline[j].at > t
               /\ \A k \in (i + 1)..(j - 1) : ~Concerns(timeline[k], r)}

CreditMatches(timeline, now) ==
  PauseCredit(timeline, now) =
    Cardinality(UNION {{r} \X CreditedDays(timeline, r, now) : r \in StopReasons})
=============================================================================
