----------------------------- MODULE PolicyEngine -----------------------------
(***************************************************************************)
(* evaluatePolicy (internals/policy-engine): the clock rules of a pack     *)
(* that match a request are merged by precedence, and a deadline follows   *)
(* from the merged clock and the timeline, which runPolicyEvaluation       *)
(* (services/policy-evaluation) has reduced to pauses and extensions. The  *)
(* lifecycle computes deadlines with another engine, LegalClock; the two   *)
(* are compared on packs and timelines that grow step by step. One unit of *)
(* time is one day, day 0 is receivedAt.                                   *)
(***************************************************************************)
EXTENDS Integers, Sequences, FiniteSets

CONSTANTS
  BaseClocks,     \* sections.clock of packs, without the rules
  ClockRules,     \* rules a pack may have: id, precedence, when, apply
  Contexts,       \* what the conditions of a rule look at, for each request
  ExtensionAsks,  \* additionalDays of an extension, any number by its schema
  MaxEngineDays,  \* bound: days that pass
  MaxEngineEvents \* bound: events of the timeline

RuleFields  == {"responseDeadlineDays", "verificationEffect", "clarificationEffect"}
ClockFields == RuleFields \cup {"enabled", "maxAdditionalDays"}

(* Ids stand for the strings they are by their order; each is used once.   *)
ASSUME EngineAssumption ==
  /\ \A r, q \in ClockRules : r.id = q.id => r = q
  /\ \A r \in ClockRules :
       /\ r.id \in Int /\ r.precedence \in Int /\ DOMAIN r.apply \subseteq RuleFields
       /\ "responseDeadlineDays" \in DOMAIN r.apply => r.apply["responseDeadlineDays"] \in Int
  /\ \A c \in BaseClocks :
       /\ DOMAIN c = ClockFields /\ c["enabled"] \in BOOLEAN
       /\ c["responseDeadlineDays"] \in Int /\ c["maxAdditionalDays"] \in Nat
  /\ ExtensionAsks \subseteq Int /\ MaxEngineDays \in Nat /\ MaxEngineEvents \in Nat

VARIABLES
  base, rules,  \* the pack's sections.clock and its rules
  context,      \* the request
  events,       \* its timeline, as a LegalClock timeline
  engineDay

engineVars == <<base, rules, context, events, engineDay>>

(* doesRuleMatch: every condition the rule has.                            *)
RuleMatches(rule) == \A c \in DOMAIN rule.when : context[c] \in rule.when[c]

(* Precedence descending, then id ascending.                               *)
Above(r, q) == r.precedence > q.precedence \/ (r.precedence = q.precedence /\ r.id < q.id)

Matched == {r \in rules : RuleMatches(r)}

FromBelow(n) == CHOOSE r \in Matched : Cardinality({q \in Matched : Above(r, q)}) = n - 1

(* defu(rule.apply, clock): what the rule does not set stays.              *)
Defu(apply, clock) ==
  [f \in DOMAIN clock |-> IF f \in DOMAIN apply THEN apply[f] ELSE clock[f]]

(* A mutant: merged from the highest precedence to the lowest.             *)
MergedDownwards ==
  LET clock[n \in 0..Cardinality(Matched)] ==
        IF n = 0 THEN base
        ELSE Defu(FromBelow(Cardinality(Matched) + 1 - n).apply, clock[n - 1])
  IN  clock[Cardinality(Matched)]

(* From the lowest precedence to the highest.                              *)
Merged ==
  LET clock[n \in 0..Cardinality(Matched)] ==
        IF n = 0 THEN base ELSE Defu(FromBelow(n).apply, clock[n - 1])
  IN  clock[Cardinality(Matched)]
-----------------------------------------------------------------------------
PauseReasons == {"verification", "clarification"}

PauseOpened == [verification_request  |-> "verification",
                clarification_request |-> "clarification"]
PauseClosed == [verification_approve  |-> "verification",
                verification_reject   |-> "verification",
                clarification_receive |-> "clarification"]

NotPaused == -1

(* One event of parsePauseWindows and parseExtensionDays: since when each  *)
(* reason pauses the clock, the days of its closed windows, and the days   *)
(* asked for, of which only positive ones count.                           *)
EvaluateEvent(scan, e) ==
  IF e.action \in DOMAIN PauseOpened
  THEN [scan EXCEPT !.since[PauseOpened[e.action]] = e.at]
  ELSE IF e.action \in DOMAIN PauseClosed /\ scan.since[PauseClosed[e.action]] # NotPaused
  THEN LET r == PauseClosed[e.action] IN
       [scan EXCEPT !.paused[r] = @ + (e.at - scan.since[r]), !.since[r] = NotPaused]
  ELSE IF e.action = "extension" /\ e.days > 0 THEN [scan EXCEPT !.asked = @ + e.days]
  ELSE scan

Unevaluated == [since  |-> [r \in PauseReasons |-> NotPaused],
                paused |-> [r \in PauseReasons |-> 0], asked |-> 0]

Evaluated(timeline) ==
  LET scan[i \in 0..Len(timeline)] ==
        IF i = 0 THEN Unevaluated ELSE EvaluateEvent(scan[i - 1], timeline[i])
  IN  scan[Len(timeline)]

EffectOf == [verification |-> "verificationEffect", clarification |-> "clarificationEffect"]

(* What is open at the end lasts until now.                                *)
EvaluatedPause(clock, r) ==
  LET scan == Evaluated(events) IN
  IF clock[EffectOf[r]] # "stop_clock" THEN 0
  ELSE scan.paused[r] + (IF scan.since[r] # NotPaused THEN engineDay - scan.since[r] ELSE 0)

EvaluatedCredit(clock) ==
  EvaluatedPause(clock, "verification") + EvaluatedPause(clock, "clarification")

EvaluatedExtension(clock) ==
  LET asked == Evaluated(events).asked IN
  IF ~clock["enabled"] THEN 0
  ELSE IF asked < clock["maxAdditionalDays"] THEN asked ELSE clock["maxAdditionalDays"]

(* clock.finalDueAt of the evaluation.                                     *)
EvaluatedDueAt ==
  Merged["responseDeadlineDays"] + EvaluatedCredit(Merged) + EvaluatedExtension(Merged)
-----------------------------------------------------------------------------
EngineInit ==
  /\ base \in BaseClocks /\ rules = {} /\ context \in Contexts
  /\ events = <<>> /\ engineDay = 0

AddRule ==
  \E r \in ClockRules \ rules :
    /\ events = <<>> /\ rules' = rules \cup {r}
    /\ UNCHANGED <<base, context, events, engineDay>>

Note(action, days) ==
  /\ Len(events) < MaxEngineEvents
  /\ events' = Append(events, [action |-> action, at |-> engineDay, days |-> days])
  /\ UNCHANGED <<base, rules, context, engineDay>>

NotePause == \E a \in DOMAIN PauseOpened \cup DOMAIN PauseClosed : Note(a, 0)
NoteExtension == \E d \in ExtensionAsks : Note("extension", d)

EngineTick ==
  /\ engineDay < MaxEngineDays /\ engineDay' = engineDay + 1
  /\ UNCHANGED <<base, rules, context, events>>

EngineNext == AddRule \/ NotePause \/ NoteExtension \/ EngineTick

EngineSpec == EngineInit /\ [][EngineNext]_engineVars
-----------------------------------------------------------------------------
(* Properties.                                                             *)

(* What policy-pack-spec.mdx:42 says a field of the merged clock is.       *)
Highest(field) ==
  LET setting == {r \in Matched : field \in DOMAIN r.apply} IN
  IF setting = {} THEN base[field]
  ELSE (CHOOSE r \in setting : \A q \in setting : q = r \/ Above(r, q)).apply[field]

Legal ==
  INSTANCE LegalClock
  WITH ResponseDays <- Highest("responseDeadlineDays"),
       MaxAdditionalDays <- IF base["enabled"] THEN base["maxAdditionalDays"] ELSE 0,
       StopReasons <- {r \in PauseReasons : Highest(EffectOf[r]) = "stop_clock"}

(* For every pack, request and timeline without a negative extension the   *)
(* deadline evaluatePolicy explains is the one the lifecycle's legal clock *)
(* computes from a clock whose every field comes from the rule of highest  *)
(* precedence that sets it, a pack without extensions being one that adds  *)
(* none. (Of a negative one the legal clock takes account.)                *)
EnginesAgree ==
  (\A i \in 1..Len(events) : events[i].days >= 0) =>
    EvaluatedDueAt = Legal!FinalDueAt(events, engineDay)
=============================================================================
