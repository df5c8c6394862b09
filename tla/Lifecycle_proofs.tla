---------------------------- MODULE Lifecycle_proofs ----------------------------
(***************************************************************************)
(* CreditIsCountedDays, DeadlineIsLawful and DueMovesBackOnlyWhenAsked for *)
(* every policy, every extension and histories of any length. They rest on *)
(* where a due date comes from (ClockInvariant): a call that failed after  *)
(* its event leaves the date computed from a shorter log.                  *)
(* Then EnginesAgree for every pack, every request and timelines of any    *)
(* length: the clock the rules leave is the one their highest make, and    *)
(* the sums of the one scan are the days in the windows of the other.      *)
(***************************************************************************)
EXTENDS Lifecycle, LegalClock_proofs, PolicyEngine

-----------------------------------------------------------------------------
(* The log of a request, and where its due date comes from: a timeline the *)
(* log continues, computed no later than what follows it.                  *)

LogEntries == [action : Actions, at : Nat, days : Int, done : BOOLEAN]

ComesFrom(d, p, a, t, last) ==
  /\ d = FinalDueAt(p, a) /\ a <= last
  /\ p \in Seq(LogEntries) /\ a \in Nat /\ Prefix(p, t) /\ Sorted(p, a)
  /\ \A m \in (Len(p) + 1)..Len(t) : a <= t[m].at

LogInvariant ==
  /\ log \in Seq(LogEntries) /\ now \in Nat /\ LastAt \in 0..now
  /\ Sorted(log, LastAt)

ClockInvariant ==
  /\ LogInvariant
  /\ \E p, a : ComesFrom(due, p, a, log, LastAt)

LEMMA LogIsTimeline ==
  ASSUME NEW t \in Seq(LogEntries)
  PROVE  IsTimeline(t)
<1>1. Len(t) \in Nat /\ \A i \in 1..Len(t) : t[i] \in LogEntries
  OBVIOUS
<1> QED BY <1>1 DEF IsTimeline, LogEntries

(* Both kinds of call append one event, taken at a time not before the     *)
(* last one's.                                                             *)
Appends(e) ==
  /\ log' = Append(log, e) /\ now' = now
  /\ e \in LogEntries /\ LastAt <= e.at /\ e.at <= now

LEMMA EventIsEntry ==
  ASSUME LogInvariant, NEW action \in Actions, NEW at \in LastAt..now,
         NEW days \in DaysOf(action), NEW done \in BOOLEAN
  PROVE  /\ Event(action, at, days, done) \in LogEntries
         /\ Event(action, at, days, done).at = at
         /\ LastAt <= at /\ at <= now
<1>1. at \in Nat /\ LastAt <= at /\ at <= now
  BY DEF LogInvariant
<1>2. days \in Int
  <2>1. DaysOf(action) \subseteq Int
    BY LifecycleAssumption DEF DaysOf
  <2> QED BY <2>1
<1> QED BY <1>1, <1>2 DEF Event, LogEntries

LEMMA AppendGrows ==
  ASSUME LogInvariant, NEW e, Appends(e)
  PROVE  /\ LogInvariant' /\ LastAt' = e.at /\ e.at \in Nat /\ LastAt <= e.at
         /\ Len(log) \in Nat /\ Len(log') = Len(log) + 1 /\ log'[Len(log) + 1] = e
         /\ \A i \in 1..Len(log) : log'[i] = log[i]
<1>1. e.at \in Nat /\ LastAt \in Nat /\ LastAt <= e.at /\ e.at <= now /\ now \in Nat
  BY DEF LogInvariant, Appends, LogEntries
<1>4. log' = Append(log, e) /\ now' = now /\ log \in Seq(LogEntries) /\ e \in LogEntries
  BY DEF Appends, LogInvariant
<1>5. /\ log' \in Seq(LogEntries) /\ Len(log) \in Nat /\ Len(log') = Len(log) + 1
      /\ log'[Len(log) + 1] = e /\ \A i \in 1..Len(log) : log'[i] = log[i]
  BY <1>4
<1>6. LastAt' = e.at
  <2>1. log' # <<>>
    BY <1>5
  <2> QED BY <1>5, <2>1 DEF LastAt
<1>7. Sorted(log', e.at)
  <2>1. ASSUME NEW i \in 1..Len(log')
        PROVE  log'[i].at <= e.at /\ log'[i].at \in Nat
    <3>1. CASE i \in 1..Len(log)
      <4>1. log[i].at <= LastAt /\ log[i].at \in Nat
        BY <3>1, LogIsTimeline DEF LogInvariant, Sorted, IsTimeline
      <4> QED BY <1>1, <1>5, <3>1, <4>1
    <3>2. CASE i = Len(log) + 1
      BY <1>1, <1>5, <3>2
    <3> QED BY <1>5, <3>1, <3>2
  <2>2. ASSUME NEW i \in 1..Len(log'), NEW j \in i..Len(log')
        PROVE  log'[i].at <= log'[j].at
    <3>1. CASE j = Len(log) + 1
      BY <1>5, <2>1, <3>1
    <3>2. CASE j # Len(log) + 1
      <4>1. i \in 1..Len(log) /\ j \in i..Len(log) /\ j \in 1..Len(log)
        BY <1>5, <3>2
      <4> QED BY <1>5, <4>1 DEF LogInvariant, Sorted
    <3> QED BY <3>1, <3>2
  <2> QED BY <2>1, <2>2 DEF Sorted
<1>8. LogInvariant'
  BY <1>1, <1>4, <1>5, <1>6, <1>7 DEF LogInvariant
<1> QED BY <1>1, <1>5, <1>6, <1>8

LEMMA PassKeeps ==
  ASSUME ClockInvariant, Pass \/ UNCHANGED vars
  PROVE  ClockInvariant' /\ due' = due /\ log' = log /\ status' = status
<1>1. log' = log /\ due' = due /\ status' = status /\ (now' = now \/ now' = now + 1)
  BY DEF Pass, vars
<1>2. LastAt' = LastAt
  BY <1>1 DEF LastAt
<1>3. LogInvariant'
  BY <1>1, <1>2 DEF ClockInvariant, LogInvariant
<1>4. PICK p, a : ComesFrom(due, p, a, log, LastAt)
  BY DEF ClockInvariant
<1>5. ComesFrom(due', p, a, log', LastAt')
  BY <1>1, <1>2, <1>4 DEF ComesFrom
<1> QED BY <1>1, <1>3, <1>5 DEF ClockInvariant

LEMMA TransitionComputes ==
  ASSUME ClockInvariant, NEW action \in Actions, Transition(action)
  PROVE  \E e : /\ Appends(e) /\ e.action = action
                /\ ComesFrom(due', log', e.at, log', LastAt')
<1>0. LogInvariant
  BY DEF ClockInvariant
<1>1. PICK at \in LastAt..now, days \in DaysOf(action) :
         log' = Append(log, Event(action, at, days, TRUE)) /\ due' = FinalDueAt(log', at)
  BY DEF Transition
<1> DEFINE e == Event(action, at, days, TRUE)
<1>2. e \in LogEntries /\ e.at = at /\ LastAt <= at /\ at <= now
  BY <1>0, EventIsEntry
<1>3. e.action = action /\ log' = Append(log, e) /\ now' = now /\ due' = FinalDueAt(log', at)
  BY <1>1 DEF Transition, Event
<1> HIDE DEF e
<1>4. Appends(e)
  BY <1>2, <1>3 DEF Appends
<1>5. LogInvariant' /\ LastAt' = at /\ at \in Nat
  BY <1>0, <1>2, <1>4, AppendGrows
<1>6. log' \in Seq(LogEntries) /\ Sorted(log', at) /\ Len(log') \in Nat
  BY <1>5 DEF LogInvariant
<1>7. ComesFrom(due', log', at, log', LastAt')
  <2>1. Prefix(log', log')
    BY <1>6 DEF Prefix
  <2>2. \A m \in (Len(log') + 1)..Len(log') : FALSE
    BY <1>6
  <2>3. at <= LastAt'
    BY <1>5
  <2> QED BY <1>3, <1>5, <1>6, <2>1, <2>2, <2>3 DEF ComesFrom
<1> QED BY <1>2, <1>3, <1>4, <1>7

LEMMA AbandonAppends ==
  ASSUME ClockInvariant, NEW action \in Actions, Abandon(action)
  PROVE  /\ \E e : Appends(e) /\ ~e.done
         /\ ClockInvariant' /\ due' = due /\ status' = status
<1>0. LogInvariant
  BY DEF ClockInvariant
<1>1. PICK at \in LastAt..now, days \in DaysOf(action) :
         log' = Append(log, Event(action, at, days, FALSE))
  BY DEF Abandon
<1> DEFINE e == Event(action, at, days, FALSE)
<1>2. /\ log' = Append(log, e) /\ now' = now /\ due' = due /\ status' = status
      /\ e \in LogEntries /\ LastAt <= e.at /\ e.at <= now /\ ~e.done
  <2>1. e \in LogEntries /\ e.at = at /\ LastAt <= at /\ at <= now
    BY <1>0, EventIsEntry
  <2> QED BY <1>1, <2>1 DEF Abandon, Event
<1> HIDE DEF e
<1>9. Appends(e)
  BY <1>2 DEF Appends
<1>3. /\ LogInvariant' /\ LastAt' = e.at /\ e.at \in Nat /\ LastAt <= e.at
      /\ Len(log') = Len(log) + 1 /\ log'[Len(log) + 1] = e
      /\ \A i \in 1..Len(log) : log'[i] = log[i]
  BY <1>0, <1>9, AppendGrows
<1>4. PICK p, a : ComesFrom(due, p, a, log, LastAt)
  BY DEF ClockInvariant
<1>5. /\ Len(p) \in Nat /\ Len(log) \in Nat /\ Len(p) <= Len(log) /\ a \in Nat
      /\ LastAt \in Nat /\ a <= LastAt
  BY <1>4 DEF ComesFrom, Prefix, ClockInvariant, LogInvariant
<1>6. Prefix(p, log')
  BY <1>3, <1>4, <1>5 DEF ComesFrom, Prefix
<1>7. ASSUME NEW m \in (Len(p) + 1)..Len(log') PROVE a <= log'[m].at
  <2>1. CASE m = Len(log) + 1
    BY <1>3, <1>5, <2>1
  <2>2. CASE m # Len(log) + 1
    <3>1. m \in (Len(p) + 1)..Len(log) /\ m \in 1..Len(log)
      BY <1>3, <1>5, <2>2
    <3> QED BY <1>3, <1>4, <3>1 DEF ComesFrom
  <2> QED BY <2>1, <2>2
<1>8. ComesFrom(due', p, a, log', LastAt')
  BY <1>2, <1>3, <1>4, <1>5, <1>6, <1>7 DEF ComesFrom
<1> QED BY <1>2, <1>3, <1>8, <1>9 DEF ClockInvariant

LEMMA ClockStart == Init => ClockInvariant /\ due = ResponseDays
<1> SUFFICES ASSUME Init PROVE ClockInvariant /\ due = ResponseDays
  OBVIOUS
<1>1. log = <<>> /\ <<>> \in Seq(LogEntries) /\ Len(<<>>) = 0 /\ now = 0 /\ due = ResponseDays
  BY DEF Init
<1>2. LastAt = 0
  BY <1>1 DEF LastAt
<1>3. Sorted(<<>>, 0) /\ Prefix(<<>>, <<>>)
  BY <1>1 DEF Sorted, Prefix
<1>4. IsTimeline(<<>>)
  BY <1>1 DEF IsTimeline
<1>5. FinalDueAt(<<>>, 0) = ResponseDays
  <2>1. Cardinality(CreditPairs(<<>>, 0)) = 0
    <3>1. \A r : CreditedDays(<<>>, r, 0) = {}
      BY DEF CreditedDays
    <3>2. CreditPairs(<<>>, 0) = {}
      BY <3>1 DEF CreditPairs
    <3> QED BY <3>2, FS_EmptySet
  <2>2. ExtensionDays(<<>>) = 0
    <3>1. AskedDays(<<>>) = 0
      BY <1>1, <1>4, AskedIs DEF IsSumOf
    <3> QED BY <3>1, PolicyAssumption DEF ExtensionDays
  <2> QED BY <1>3, <1>4, <2>1, <2>2, FinalDueIs, PolicyAssumption
<1>6. ComesFrom(due, <<>>, 0, log, LastAt)
  BY <1>1, <1>2, <1>3, <1>5 DEF ComesFrom
<1>7. LogInvariant
  BY <1>1, <1>2, <1>3 DEF LogInvariant
<1> QED BY <1>1, <1>6, <1>7 DEF ClockInvariant

LEMMA ClockStep ==
  ASSUME ClockInvariant, [Next]_vars
  PROVE  ClockInvariant'
<1>1. ASSUME NEW action \in Actions, Transition(action) PROVE ClockInvariant'
  <2>1. PICK e : Appends(e) /\ ComesFrom(due', log', e.at, log', LastAt')
    BY <1>1, TransitionComputes
  <2>2. LogInvariant'
    BY <2>1, AppendGrows DEF ClockInvariant
  <2> QED BY <2>1, <2>2 DEF ClockInvariant
<1>2. ASSUME NEW action \in Actions, Abandon(action) PROVE ClockInvariant'
  BY <1>2, AbandonAppends
<1>3. CASE Pass \/ UNCHANGED vars
  BY <1>3, PassKeeps
<1> QED BY <1>1, <1>2, <1>3 DEF Next

(* Every due date is the clock's for a timeline the log continues.         *)
THEOREM ClockIsKept == Spec => []ClockInvariant
<1>1. Init => ClockInvariant
  BY ClockStart
<1>2. ClockInvariant /\ [Next]_vars => ClockInvariant'
  BY ClockStep
<1> QED BY <1>1, <1>2, PTL DEF Spec

-----------------------------------------------------------------------------
LEMMA CreditCounted == ClockInvariant => CreditIsCountedDays
<1> SUFFICES ASSUME ClockInvariant, NEW t \in LastAt..now PROVE CreditMatches(log, t)
  BY DEF CreditIsCountedDays
<1>1. LogInvariant /\ LastAt \in Nat /\ t \in Nat /\ LastAt <= t
  BY DEF ClockInvariant, LogInvariant
<1>2. IsTimeline(log)
  BY <1>1, LogIsTimeline DEF LogInvariant
<1>3. Sorted(log, t)
  BY <1>1, <1>2 DEF LogInvariant, Sorted, IsTimeline
<1>4. PauseCredit(log, t) = Cardinality(CreditPairs(log, t))
  BY <1>1, <1>2, <1>3, CreditIsPairs
<1> QED BY <1>4 DEF CreditMatches, CreditPairs

(* computeLegalClock credits exactly the days on which a request for       *)
(* verification or clarification was waiting, whatever calls the state     *)
(* machine allows, in whatever order, and whichever of them fail half way. *)
THEOREM CreditIsExact == Spec => []CreditIsCountedDays
<1>1. ClockInvariant => CreditIsCountedDays
  BY CreditCounted
<1> QED BY <1>1, ClockIsKept, PTL

LEMMA DueStaysInPolicy == ClockInvariant => DueWithinPolicy
<1> SUFFICES ASSUME ClockInvariant PROVE DueWithinPolicy
  OBVIOUS
<1>1. PICK p, a : ComesFrom(due, p, a, log, LastAt)
  BY DEF ClockInvariant
<1>2. a \in Nat /\ a <= now /\ now \in Nat /\ Sorted(p, a) /\ IsTimeline(p)
  BY <1>1, LogIsTimeline DEF ComesFrom, ClockInvariant, LogInvariant
<1> DEFINE c == Cardinality(CreditPairs(p, a))
           s == Cardinality(StopReasons)
           x == ExtensionDays(p)
<1>3. due = ResponseDays + c + x
  BY <1>1, <1>2, FinalDueIs DEF ComesFrom
<1>4. c \in Nat /\ s \in Nat /\ c <= s * a
  BY <1>2, CreditPairsFinite
<1>5. x \in 0..MaxAdditionalDays
  BY <1>2, AskedType
<1> HIDE DEF c, s, x
<1>6. s * a <= s * now /\ s * a \in Nat /\ s * now \in Nat
  <2>1. PICK k \in Nat : now = a + k
    <3>1. now - a \in Nat /\ now = a + (now - a)
      BY <1>2
    <3> QED BY <3>1
  <2>2. s * (a + k) = s * a + s * k /\ s * k \in Nat /\ s * a \in Nat
    BY <1>2, <1>4, <2>1
  <2> QED BY <2>1, <2>2
<1>7. due >= ResponseDays /\ due <= ResponseDays + MaxAdditionalDays + s * now
  BY <1>3, <1>4, <1>5, <1>6, PolicyAssumption
<1> QED BY <1>7 DEF DueWithinPolicy, s

LEMMA VerificationKeepsWaiting ==
  ASSUME ClockInvariant, VerificationStopsTheClock, [Next]_vars
  PROVE  VerificationStopsTheClock'
<1>0. LogInvariant
  BY DEF ClockInvariant
<1>1. ASSUME NEW action \in Actions, Transition(action) PROVE VerificationStopsTheClock'
  <2> SUFFICES ASSUME status' = "verification_pending"
               PROVE  "verification" \in OpenPauses(log')
    BY DEF VerificationStopsTheClock
  <2>1. action = "verification_request"
    BY <1>1 DEF Transition, StatusByAction, Actions, Transitions
  <2>2. PICK e : Appends(e) /\ e.action = action
    BY <1>1, TransitionComputes
  <2>3. /\ Len(log') = Len(log) + 1 /\ Len(log) \in Nat /\ log'[Len(log) + 1] = e
        /\ LogInvariant'
    BY <1>0, <2>2, AppendGrows
  <2>4. IsTimeline(log')
    BY <2>3, LogIsTimeline DEF LogInvariant
  <2>5. Opens(e, "verification")
    BY <2>1, <2>2 DEF Opens, Pauses
  <2>6. Len(log') \in 1..Len(log') /\ Unanswered(log', Len(log'), Len(log'), "verification")
    BY <2>3, <2>5 DEF Unanswered
  <2>7. "verification" \in Reasons
    BY DEF Reasons
  <2> QED BY <2>4, <2>6, <2>7, OpenPausesAre
<1>2. ASSUME NEW action \in Actions, Abandon(action) PROVE VerificationStopsTheClock'
  <2>1. PICK e : Appends(e) /\ ~e.done
    BY <1>2, AbandonAppends
  <2>2. Len(log') = Len(log) + 1 /\ Len(log) \in Nat /\ log'[Len(log) + 1] = e
    BY <1>0, <2>1, AppendGrows
  <2>3. ~AllDone'
    BY <2>1, <2>2 DEF AllDone
  <2> QED BY <2>3 DEF VerificationStopsTheClock
<1>3. CASE Pass \/ UNCHANGED vars
  <2>1. status' = status /\ log' = log
    BY <1>3, PassKeeps
  <2> QED BY <2>1 DEF VerificationStopsTheClock, AllDone
<1> QED BY <1>1, <1>2, <1>3 DEF Next

(* No lawful history has a deadline outside the policy, or a request that  *)
(* waits for verification with its clock running, as long as no call failed *)
(* between its event and its row.                                          *)
THEOREM DeadlineHolds == Spec => []DeadlineIsLawful
<1>1. Init => VerificationStopsTheClock
  BY DEF Init, VerificationStopsTheClock
<1>2. ClockInvariant /\ VerificationStopsTheClock /\ [Next]_vars => VerificationStopsTheClock'
  BY VerificationKeepsWaiting
<1>3. ClockInvariant /\ VerificationStopsTheClock => DeadlineIsLawful
  BY DueStaysInPolicy DEF DeadlineIsLawful
<1> QED BY <1>1, <1>2, <1>3, ClockIsKept, PTL DEF Spec

(* One prefix of a history the property names.                             *)
LEMMA PrefixIs ==
  ASSUME NEW t \in Seq(LogEntries), NEW m \in 1..Len(t)
  PROVE  /\ IsTimeline(SubSeq(t, 1, m - 1)) /\ Len(SubSeq(t, 1, m - 1)) = m - 1
         /\ \A i \in 1..(m - 1) : SubSeq(t, 1, m - 1)[i] = t[i]
<1>1. Len(t) \in Nat /\ m - 1 \in 0..Len(t)
  OBVIOUS
<1>2. /\ SubSeq(t, 1, m - 1) \in Seq(LogEntries) /\ Len(SubSeq(t, 1, m - 1)) = m - 1
      /\ \A i \in 1..(m - 1) : SubSeq(t, 1, m - 1)[i] = t[i]
  <2>1. \A i \in 1..(m - 1) : t[i] \in LogEntries
    BY <1>1
  <2> QED BY <1>1, <2>1
<1> QED BY <1>2, LogIsTimeline

(* The due date goes back only when a caller asks again for what is open,  *)
(* or for a negative extension: nothing else a call or a failure can do    *)
(* takes a day from the operator once it is granted.                       *)
THEOREM DueIsTakenBackOnlyWhenAsked == Spec => DueMovesBackOnlyWhenAsked
<1> DEFINE Asked == \E i \in 1..Len(log') :
                      \/ log'[i].days < 0
                      \/ log'[i].action \in DOMAIN Pauses
                           /\ Pauses[log'[i].action] \in OpenPauses(SubSeq(log', 1, i - 1))
<1>1. ASSUME ClockInvariant, [Next]_vars, due' < due PROVE Asked
  <2>0. LogInvariant
    BY <1>1 DEF ClockInvariant
  <2>1. PICK p, a : ComesFrom(due, p, a, log, LastAt)
    BY <1>1 DEF ClockInvariant
  <2>2. due \in Nat
    BY <2>1, LogIsTimeline, FinalDueIs DEF ComesFrom
  <2>3. PICK action \in Actions : Transition(action)
    BY <1>1, <2>2, AbandonAppends, PassKeeps DEF Next
  <2>4. PICK e : Appends(e) /\ ComesFrom(due', log', e.at, log', LastAt')
    BY <1>1, <2>3, TransitionComputes
  <2> DEFINE t == log'
             b == e.at
  <2>5. /\ t \in Seq(LogEntries) /\ b \in Nat /\ Sorted(t, b) /\ due' = FinalDueAt(t, b)
        /\ p \in Seq(LogEntries) /\ a \in Nat /\ Sorted(p, a) /\ due = FinalDueAt(p, a)
    BY <2>1, <2>4 DEF ComesFrom
  <2>6. /\ Len(t) = Len(log) + 1 /\ Len(log) \in Nat /\ LastAt <= b /\ LastAt \in Nat
        /\ t[Len(log) + 1].at = b /\ \A i \in 1..Len(log) : t[i] = log[i]
    BY <2>0, <2>4, AppendGrows DEF LogInvariant
  <2>7. /\ IsTimeline(p) /\ IsTimeline(t) /\ Len(p) \in Nat /\ Len(p) <= Len(log)
        /\ a <= LastAt /\ a <= b
        /\ \A m \in (Len(p) + 1)..Len(log) : a <= log[m].at
        /\ \A i \in 1..Len(p) : p[i] = log[i]
    BY <2>1, <2>5, <2>6, LogIsTimeline DEF ComesFrom, Prefix
  <2> HIDE DEF t, b
  <2>8. Prefix(p, t)
    BY <2>6, <2>7 DEF Prefix
  <2>9. \A m \in (Len(p) + 1)..Len(t) : a <= t[m].at
    <3> SUFFICES ASSUME NEW m \in (Len(p) + 1)..Len(t) PROVE a <= t[m].at
      OBVIOUS
    <3>1. CASE m = Len(log) + 1
      BY <2>6, <2>7, <3>1
    <3>2. CASE m # Len(log) + 1
      <4>1. m \in (Len(p) + 1)..Len(log) /\ m \in 1..Len(log)
        BY <2>6, <2>7, <3>2
      <4> QED BY <2>6, <2>7, <4>1
    <3> QED BY <3>1, <3>2
  <2>10. SUFFICES ASSUME ~Asked PROVE FALSE
    OBVIOUS
  <2>11. ASSUME NEW m \in 1..Len(t)
         PROVE  /\ t[m].days >= 0
                /\ \A r \in Reasons : Opens(t[m], r) => r \notin OpenPauses(SubSeq(t, 1, m - 1))
    <3>1. t[m].days \in Int
      BY <2>7 DEF IsTimeline
    <3> QED BY <2>10, <3>1 DEF t, Opens
  <2> HIDE DEF Asked
  <2>12. ASSUME NEW m \in (Len(p) + 1)..Len(t), NEW r \in Reasons, Opens(t[m], r),
                NEW i \in 1..(m - 1), Unanswered(t, i, m - 1, r)
         PROVE  FALSE
    <3> DEFINE s == SubSeq(t, 1, m - 1)
    <3>1. m \in 1..Len(t) /\ m \in Nat /\ \A j \in (i + 1)..(m - 1) : j \in 1..(m - 1)
      BY <2>6, <2>7
    <3>2. IsTimeline(s) /\ Len(s) = m - 1 /\ \A j \in 1..(m - 1) : s[j] = t[j]
      BY <2>5, <3>1, PrefixIs
    <3>3. r \notin OpenPauses(s)
      BY <2>11, <2>12, <3>1
    <3> HIDE DEF s
    <3>4. Unanswered(s, i, Len(s), r)
      BY <2>12, <3>1, <3>2 DEF Unanswered
    <3> QED BY <3>2, <3>3, <3>4, OpenPausesAre
  <2>13. CreditPairs(p, a) \subseteq CreditPairs(t, b)
    BY <2>5, <2>7, <2>8, <2>9, <2>12, CreditGrows
  <2>14. Cardinality(CreditPairs(p, a)) <= Cardinality(CreditPairs(t, b))
    BY <2>5, <2>13, CreditPairsFinite, FS_Subset
  <2>15. AskedDays(p) \in Int /\ AskedDays(t) \in Int /\ AskedDays(p) <= AskedDays(t)
    BY <2>7, <2>8, <2>11, AskedGrows
  <2>16. ExtensionDays(p) <= ExtensionDays(t)
    BY <2>15, PolicyAssumption DEF ExtensionDays
  <2>17. /\ due = ResponseDays + Cardinality(CreditPairs(p, a)) + ExtensionDays(p)
         /\ due' = ResponseDays + Cardinality(CreditPairs(t, b)) + ExtensionDays(t)
    BY <2>5, <2>7, FinalDueIs
  <2>18. /\ Cardinality(CreditPairs(p, a)) \in Nat /\ Cardinality(CreditPairs(t, b)) \in Nat
         /\ ExtensionDays(p) \in Nat /\ ExtensionDays(t) \in Nat
    BY <2>5, <2>7, CreditPairsFinite, AskedType, PolicyAssumption
  <2> QED BY <1>1, <2>14, <2>16, <2>17, <2>18, PolicyAssumption
<1> HIDE DEF Asked
<1>3. ClockInvariant /\ [Next]_vars => [due' < due => Asked]_vars
  BY <1>1
<1> USE DEF Asked
<1> QED BY <1>3, ClockIsKept, PTL DEF Spec, DueMovesBackOnlyWhenAsked

-----------------------------------------------------------------------------
(* The rules of a pack that match a request, merged from the lowest to the *)
(* highest, leave each field what the highest that sets it makes of it.    *)

EngineType ==
  /\ base \in BaseClocks /\ rules \subseteq ClockRules /\ IsFiniteSet(rules)

Lower == {x \in Matched \X Matched : Above(x[2], x[1])}

Rank(r) == Position(Matched, Lower, r)

LEMMA RulesAreSorted ==
  ASSUME EngineType
  PROVE  /\ IsFiniteSet(Matched) /\ Sorts(Lower, Matched)
         /\ \A r, q \in Matched : <<q, r>> \in Lower <=> Above(r, q)
<1>1. Matched \subseteq rules /\ Matched \subseteq ClockRules
  BY DEF Matched, EngineType
<1>2. \A r, q \in Matched : <<q, r>> \in Lower <=> Above(r, q)
  BY DEF Lower
<1>3. \A r \in Matched : r.id \in Int /\ r.precedence \in Int
  BY <1>1, EngineAssumption
<1>4. \A r, q \in Matched : r.id = q.id => r = q
  BY <1>1, EngineAssumption
<1>5. Sorts(Lower, Matched)
  <2>1. \A r \in Matched : ~Above(r, r)
    BY <1>3 DEF Above
  <2>2. \A r, q \in Matched : r = q \/ Above(r, q) \/ Above(q, r)
    BY <1>3, <1>4 DEF Above
  <2>3. \A r, q, s \in Matched : Above(q, r) /\ Above(s, q) => Above(s, r)
    BY <1>3 DEF Above
  <2> QED BY <1>2, <2>1, <2>2, <2>3 DEF Sorts
<1>6. IsFiniteSet(Matched)
  BY <1>1, FS_Subset DEF EngineType
<1> QED BY <1>2, <1>5, <1>6

(* The n-th rule from below is the one with n - 1 below it.                *)
LEMMA FromBelowIs ==
  ASSUME EngineType, NEW n \in 1..Cardinality(Matched)
  PROVE  FromBelow(n) \in Matched /\ Rank(FromBelow(n)) = n - 1
<1>1. \A r \in Matched : Rank(r) = Cardinality({q \in Matched : Above(r, q)})
  <2> SUFFICES ASSUME NEW r \in Matched
               PROVE  Rank(r) = Cardinality({q \in Matched : Above(r, q)})
    OBVIOUS
  <2>1. {q \in Matched : <<q, r>> \in Lower} = {q \in Matched : Above(r, q)}
    BY RulesAreSorted
  <2> QED BY <2>1 DEF Rank, Position, Preceding
<1>2. Cardinality(Matched) \in Nat
  BY RulesAreSorted, FS_CardinalityType
<1>3. n - 1 \in 0..(Cardinality(Matched) - 1)
  BY <1>2
<1>4. \E r \in Matched : Rank(r) = n - 1
  BY <1>3, RulesAreSorted, Positions DEF Rank
<1> QED BY <1>1, <1>4 DEF FromBelow

(* The field as the rules of a rank below n leave it.                      *)
SetBelow(n, field, value) ==
  \/ /\ value = base[field]
     /\ \A r \in Matched : Rank(r) < n => field \notin DOMAIN r.apply
  \/ \E r \in Matched :
       /\ Rank(r) < n /\ field \in DOMAIN r.apply /\ value = r.apply[field]
       /\ \A q \in Matched : Rank(q) < n /\ field \in DOMAIN q.apply => Rank(q) <= Rank(r)

FieldValues ==
  {base[f] : f \in ClockFields} \cup UNION {{r.apply[f] : f \in DOMAIN r.apply} : r \in Matched}

MergeStates == [ClockFields -> FieldValues] \cup {base}

LEMMA DefuType ==
  ASSUME EngineType, NEW r \in Matched, NEW clock \in MergeStates
  PROVE  /\ Defu(r.apply, clock) \in MergeStates
         /\ DOMAIN clock = ClockFields
         /\ \A f \in ClockFields :
              Defu(r.apply, clock)[f] = IF f \in DOMAIN r.apply THEN r.apply[f] ELSE clock[f]
<1>1. DOMAIN base = ClockFields
  BY EngineAssumption DEF EngineType
<1>2. DOMAIN clock = ClockFields /\ \A f \in ClockFields : clock[f] \in FieldValues
  BY <1>1 DEF MergeStates, FieldValues
<1>3. \A f \in DOMAIN r.apply : r.apply[f] \in FieldValues
  BY DEF FieldValues
<1>4. Defu(r.apply, clock) \in [ClockFields -> FieldValues]
  BY <1>2, <1>3 DEF Defu
<1> QED BY <1>2, <1>4 DEF Defu, MergeStates

LEMMA MergedIs ==
  ASSUME EngineType
  PROVE  \E f : /\ f[0] = base /\ Merged = f[Cardinality(Matched)]
                /\ \A n \in 0..Cardinality(Matched) : f[n] \in MergeStates
                /\ \A n \in 1..Cardinality(Matched) : f[n] = Defu(FromBelow(n).apply, f[n - 1])
<1> DEFINE N == Cardinality(Matched)
           step == [i \in 1..N |-> [c \in MergeStates |-> Defu(FromBelow(i).apply, c)]]
           Def(f) == f = [n \in 0..Cardinality(Matched) |->
                            IF n = 0 THEN base ELSE Defu(FromBelow(n).apply, f[n - 1])]
<1>n. N \in Nat
  BY RulesAreSorted, FS_CardinalityType
<1>1. base \in MergeStates
  BY DEF MergeStates
<1>2. step \in [1..N -> [MergeStates -> MergeStates]]
  <2>1. \A i \in 1..N, c \in MergeStates : Defu(FromBelow(i).apply, c) \in MergeStates
    BY FromBelowIs, DefuType
  <2> QED BY <2>1
<1>3. PICK f : IsRun(f, MergeStates, base, N, step)
  <2> HIDE DEF step, N, Def
  <2> QED BY <1>n, <1>1, <1>2, Recursion
<1>t. \A n \in 0..N : f[n] \in MergeStates
  BY <1>3 DEF IsRun
<1>4. \A n \in 1..N : f[n] = Defu(FromBelow(n).apply, f[n - 1])
  <2>1. \A n \in 1..N : f[n - 1] \in MergeStates
    BY <1>n, <1>t
  <2> QED BY <1>3, <2>1 DEF IsRun
<1>5. Def(f)
  BY <1>n, <1>3, <1>4 DEF IsRun
<1>6. PICK g : Def(g) /\ Merged = g[N]
  <2>1. Merged = (CHOOSE g : Def(g))[N]
    BY DEF Merged
  <2> HIDE DEF Def
  <2> QED BY <1>5, <2>1
<1>7. \A k \in 0..N : g[k] = f[k]
  <2> DEFINE G == {k \in 0..N : g[k] = f[k]}
  <2>0. g[0] = base /\ \A i \in 1..N : g[i] = Defu(FromBelow(i).apply, g[i - 1])
    BY <1>n, <1>6
  <2>1. 0 \in G
    BY <1>n, <1>3, <2>0 DEF IsRun
  <2>2. \A k \in 1..N : k - 1 \in G => k \in G
    BY <1>n, <1>4, <2>0
  <2> HIDE DEF G
  <2>3. \A k \in 0..N : k \in G
    BY <1>n, <2>1, <2>2, Throughout
  <2> QED BY <2>3 DEF G
<1>8. Merged = f[N] /\ f[0] = base
  BY <1>n, <1>3, <1>6, <1>7 DEF IsRun
<1> QED BY <1>t, <1>4, <1>8

(* policy-pack-spec.mdx:42, for any rules.                                 *)
LEMMA MergedIsHighest ==
  ASSUME EngineType, NEW field \in ClockFields
  PROVE  /\ Merged[field] = Highest(field)
         /\ \/ Merged[field] = base[field]
            \/ \E r \in Matched : field \in DOMAIN r.apply /\ Merged[field] = r.apply[field]
<1> DEFINE N == Cardinality(Matched)
<1>n. /\ N \in Nat
      /\ \A r \in Matched : Rank(r) \in 0..(N - 1)
      /\ \A r, q \in Matched : Rank(r) = Rank(q) => r = q
      /\ \A r, q \in Matched : Rank(q) < Rank(r) => Above(r, q)
      /\ \A r, q \in Matched : Above(r, q) => Rank(q) < Rank(r)
  BY RulesAreSorted, Positions DEF Rank
<1>1. PICK f : /\ f[0] = base /\ Merged = f[N]
               /\ \A n \in 0..N : f[n] \in MergeStates
               /\ \A n \in 1..N : f[n] = Defu(FromBelow(n).apply, f[n - 1])
  BY MergedIs
<1> HIDE DEF N
<1> DEFINE G == {n \in 0..N : SetBelow(n, field, f[n][field])}
<1>2. 0 \in G
  BY <1>n, <1>1 DEF SetBelow
<1>3. ASSUME NEW n \in 1..N, n - 1 \in G PROVE n \in G
  <2> DEFINE top == FromBelow(n)
  <2>1. top \in Matched /\ Rank(top) = n - 1
    BY FromBelowIs DEF N
  <2>2. f[n - 1] \in MergeStates /\ n \in 0..N /\ n \in Nat
    BY <1>n, <1>1
  <2>3. f[n][field] = IF field \in DOMAIN top.apply THEN top.apply[field] ELSE f[n - 1][field]
    BY <1>1, <2>1, <2>2, DefuType
  <2> HIDE DEF top
  <2>4. \A r \in Matched : Rank(r) \in Nat /\ (Rank(r) < n <=> Rank(r) < n - 1 \/ r = top)
    BY <1>n, <2>1, <2>2
  <2>5. CASE field \in DOMAIN top.apply
    <3>1. \A q \in Matched : Rank(q) < n => Rank(q) <= Rank(top)
      BY <2>1, <2>2, <2>4
    <3> QED BY <2>1, <2>2, <2>3, <2>4, <2>5, <3>1 DEF SetBelow
  <2>6. CASE field \notin DOMAIN top.apply
    <3>1. SetBelow(n - 1, field, f[n][field])
      BY <1>3, <2>3, <2>6
    <3> QED BY <2>2, <2>4, <2>6, <3>1 DEF SetBelow
  <2> QED BY <2>5, <2>6
<1> HIDE DEF G
<1>4. N \in G
  <2>1. \A n \in 0..N : n \in G
    BY <1>n, <1>2, <1>3, Throughout
  <2> QED BY <1>n, <2>1
<1>5. SetBelow(N, field, Merged[field])
  BY <1>1, <1>4 DEF G
<1> DEFINE setting == {r \in Matched : field \in DOMAIN r.apply}
<1>6. \A r \in Matched : Rank(r) < N /\ Rank(r) \in Nat
  BY <1>n
<1>7. CASE setting = {}
  BY <1>5, <1>7 DEF SetBelow, Highest
<1>8. CASE setting # {}
  <2>1. PICK r \in setting : /\ Merged[field] = r.apply[field]
                             /\ \A q \in setting : Rank(q) <= Rank(r)
    BY <1>5, <1>6, <1>8 DEF SetBelow
  <2>2. \A q \in setting : q = r \/ Above(r, q)
    BY <1>n, <1>6, <2>1
  <2>3. \A s \in setting : (\A q \in setting : q = s \/ Above(s, q)) => s = r
    BY <1>n, <1>6, <2>1
  <2>4. (CHOOSE s \in setting : \A q \in setting : q = s \/ Above(s, q)) = r
    <3> HIDE DEF setting
    <3> QED BY <2>1, <2>2, <2>3
  <2> QED BY <1>8, <2>1, <2>4 DEF Highest
<1>9. \/ Merged[field] = base[field]
      \/ \E r \in Matched : field \in DOMAIN r.apply /\ Merged[field] = r.apply[field]
  BY <1>5 DEF SetBelow
<1> QED BY <1>7, <1>8, <1>9

-----------------------------------------------------------------------------
(* One event more is evaluated after all the others.                       *)

Evaluations ==
  [since : [PauseReasons -> Int], paused : [PauseReasons -> Int], asked : Int]

LEMMA EvaluateType ==
  ASSUME NEW scan \in Evaluations, NEW e, e.at \in Int, e.days \in Int
  PROVE  EvaluateEvent(scan, e) \in Evaluations
<1>1. /\ \A a \in DOMAIN PauseOpened : PauseOpened[a] \in PauseReasons
      /\ \A a \in DOMAIN PauseClosed : PauseClosed[a] \in PauseReasons
  BY DEF PauseOpened, PauseClosed, PauseReasons
<1>2. CASE e.action \in DOMAIN PauseOpened
  BY <1>1, <1>2 DEF EvaluateEvent, Evaluations
<1>3. CASE e.action \notin DOMAIN PauseOpened /\ e.action \in DOMAIN PauseClosed
           /\ scan.since[PauseClosed[e.action]] # NotPaused
  <2> DEFINE r == PauseClosed[e.action]
             since == [scan.since EXCEPT ![r] = NotPaused]
             paused == [scan.paused EXCEPT ![r] = @ + (e.at - scan.since[r])]
  <2>1. EvaluateEvent(scan, e) = [scan EXCEPT !.paused = paused, !.since = since]
    BY <1>3 DEF EvaluateEvent, Evaluations
  <2>2. r \in PauseReasons /\ scan.since[r] \in Int /\ scan.paused[r] \in Int
    BY <1>1, <1>3 DEF Evaluations
  <2>3. since \in [PauseReasons -> Int] /\ paused \in [PauseReasons -> Int]
    <3> HIDE DEF r
    <3> QED BY <2>2 DEF Evaluations, NotPaused
  <2> HIDE DEF since, paused
  <2> QED BY <2>1, <2>3 DEF Evaluations
<1>4. CASE e.action \notin DOMAIN PauseOpened
           /\ ~(e.action \in DOMAIN PauseClosed /\ scan.since[PauseClosed[e.action]] # NotPaused)
  BY <1>4 DEF EvaluateEvent, Evaluations
<1> QED BY <1>2, <1>3, <1>4

IsEvaluationOf(f, t) ==
  /\ f \in [0..Len(t) -> Evaluations] /\ f[0] = Unevaluated
  /\ \A i \in 1..Len(t) : f[i] = EvaluateEvent(f[i - 1], t[i])

LEMMA EvaluatedIs ==
  ASSUME NEW t, IsTimeline(t)
  PROVE  \E f : IsEvaluationOf(f, t) /\ Evaluated(t) = f[Len(t)]
<1> DEFINE n == Len(t)
           step == [i \in 1..n |-> [s \in Evaluations |-> EvaluateEvent(s, t[i])]]
           Def(f) == f = [i \in 0..Len(t) |->
                            IF i = 0 THEN Unevaluated ELSE EvaluateEvent(f[i - 1], t[i])]
<1>n. n \in Nat /\ \A i \in 1..n : t[i].at \in Int /\ t[i].days \in Int
  BY DEF IsTimeline
<1>1. Unevaluated \in Evaluations
  BY DEF Unevaluated, Evaluations, NotPaused
<1>2. step \in [1..n -> [Evaluations -> Evaluations]]
  BY <1>n, EvaluateType
<1>3. PICK f : IsRun(f, Evaluations, Unevaluated, n, step)
  <2> HIDE DEF step, n, Def
  <2>1. n \in Nat
    BY <1>n
  <2> QED BY <2>1, <1>1, <1>2, Recursion
<1>4. \A i \in 1..n : f[i] = EvaluateEvent(f[i - 1], t[i])
  <2>1. \A i \in 1..n : f[i - 1] \in Evaluations
    BY <1>n, <1>3 DEF IsRun
  <2> QED BY <1>3, <2>1 DEF IsRun
<1>5. Def(f)
  BY <1>n, <1>3, <1>4 DEF IsRun
<1>6. PICK g : Def(g) /\ Evaluated(t) = g[n]
  <2>1. Evaluated(t) = (CHOOSE g : Def(g))[n]
    BY DEF Evaluated
  <2> HIDE DEF Def
  <2> QED BY <1>5, <2>1
<1>7. \A k \in 0..n : g[k] = f[k]
  <2> DEFINE G == {k \in 0..n : g[k] = f[k]}
  <2>0. g[0] = Unevaluated /\ \A i \in 1..n : g[i] = EvaluateEvent(g[i - 1], t[i])
    BY <1>n, <1>6
  <2>1. 0 \in G
    BY <1>n, <1>3, <2>0 DEF IsRun
  <2>2. \A k \in 1..n : k - 1 \in G => k \in G
    BY <1>n, <1>4, <2>0
  <2> HIDE DEF G
  <2>3. \A k \in 0..n : k \in G
    BY <1>n, <2>1, <2>2, Throughout
  <2> QED BY <2>3 DEF G
<1>8. IsEvaluationOf(f, t)
  BY <1>3, <1>4 DEF IsEvaluationOf, IsRun
<1>9. Evaluated(t) = f[Len(t)]
  BY <1>n, <1>6, <1>7
<1> QED BY <1>8, <1>9

LEMMA EvaluatedType ==
  ASSUME NEW t, IsTimeline(t)
  PROVE  Evaluated(t) \in Evaluations
<1>1. PICK f : IsEvaluationOf(f, t) /\ Evaluated(t) = f[Len(t)]
  BY EvaluatedIs
<1> QED BY <1>1 DEF IsEvaluationOf, IsTimeline

LEMMA EvaluatedAppend ==
  ASSUME NEW S, NEW t \in Seq(S), NEW e \in S, IsTimeline(Append(t, e))
  PROVE  Evaluated(Append(t, e)) = EvaluateEvent(Evaluated(t), e)
<1> DEFINE u == Append(t, e)
           n == Len(t)
<1>1. /\ IsTimeline(t) /\ IsTimeline(u) /\ n \in Nat /\ Len(u) = n + 1
      /\ u[n + 1] = e /\ \A i \in 1..n : u[i] = t[i]
  BY PartOfLonger
<1> HIDE DEF u
<1>2. PICK f : IsEvaluationOf(f, t) /\ Evaluated(t) = f[n]
  BY <1>1, EvaluatedIs
<1>3. PICK g : IsEvaluationOf(g, u) /\ Evaluated(u) = g[Len(u)]
  BY <1>1, EvaluatedIs
<1> DEFINE G == {k \in 0..n : g[k] = f[k]}
<1> HIDE DEF n
<1>4. 0 \in G
  BY <1>1, <1>2, <1>3 DEF IsEvaluationOf
<1>5. ASSUME NEW k \in 1..n, k - 1 \in G PROVE k \in G
  <2>1. f[k] = EvaluateEvent(f[k - 1], t[k])
    BY <1>2 DEF IsEvaluationOf, n
  <2>2. k \in 1..Len(u) /\ u[k] = t[k] /\ k \in 0..n
    BY <1>1
  <2>3. g[k] = EvaluateEvent(g[k - 1], u[k])
    BY <1>3, <2>2 DEF IsEvaluationOf
  <2> QED BY <1>5, <2>1, <2>2, <2>3
<1> HIDE DEF G
<1>6. n \in G
  <2>1. n \in Nat /\ n \in 0..n
    BY <1>1
  <2>2. \A k \in 0..n : k \in G
    BY <2>1, <1>4, <1>5, Throughout
  <2> QED BY <2>1, <2>2
<1>7. n + 1 \in 1..Len(u) /\ (n + 1) - 1 = n
  BY <1>1
<1>8. g[n + 1] = EvaluateEvent(g[n], u[n + 1])
  BY <1>3, <1>7 DEF IsEvaluationOf
<1> QED BY <1>1, <1>2, <1>3, <1>6, <1>8 DEF G, u

-----------------------------------------------------------------------------
(* The two scans of one timeline: the sums of the one are the days in the  *)
(* windows of the other.                                                   *)

WindowDays(w) == {w} \X (w.from..(w.to - 1))

DaysIn(windows, r) == UNION {WindowDays(w) : w \in {x \in windows : x.reason = r}}

(* The windows of a reason end before it pauses again.                     *)
InTime(scan, r, day) ==
  /\ \A w \in scan.windows : w.reason = r =>
       /\ w.from \in Nat /\ w.to \in Nat /\ w.from <= w.to /\ w.to <= day
       /\ scan.open[r] # NotOpen => w.to <= scan.open[r]
  /\ scan.open[r] # NotOpen => scan.open[r] \in Nat /\ scan.open[r] <= day

SameOf(sums, scan, r, day) ==
  /\ sums.since[r] = scan.open[r] /\ InTime(scan, r, day)
  /\ IsFiniteSet(DaysIn(scan.windows, r))
  /\ sums.paused[r] = Cardinality(DaysIn(scan.windows, r))

NoneNegative(t) == \A i \in 1..Len(t) : t[i].days >= 0

Same(t, day) ==
  /\ \A r \in Reasons : SameOf(Evaluated(t), Scanned(t), r, day)
  /\ Evaluated(t).asked >= 0
  /\ NoneNegative(t) => Evaluated(t).asked = AskedDays(t)

(* A pause that has lasted from its start until a day adds as many days.   *)
LEMMA OneMoreWindow ==
  ASSUME NEW scan, NEW r, NEW day \in Nat, InTime(scan, r, day), scan.open[r] # NotOpen,
         IsFiniteSet(DaysIn(scan.windows, r)),
         NEW w, w = [reason |-> r, from |-> scan.open[r], to |-> day]
  PROVE  /\ IsFiniteSet(DaysIn(scan.windows, r) \cup WindowDays(w))
         /\ Cardinality(DaysIn(scan.windows, r) \cup WindowDays(w)) =
              Cardinality(DaysIn(scan.windows, r)) + (day - scan.open[r])
<1> DEFINE D == DaysIn(scan.windows, r)
           a == scan.open[r]
           I == a..(day - 1)
<1>1. a \in Nat /\ a <= day /\ w.from = a /\ w.to = day /\ w.reason = r
  BY DEF InTime
<1>2. IsFiniteSet(I) /\ Cardinality(I) = day - a
  <2> HIDE DEF a, I
  <2>1. a \in Int /\ day - 1 \in Int
    BY <1>1
  <2>2. IsFiniteSet(a..(day - 1))
        /\ Cardinality(a..(day - 1)) = IF a > day - 1 THEN 0 ELSE day - 1 - a + 1
    BY <2>1, FS_Interval, Zenon
  <2> QED BY <1>1, <2>1, <2>2 DEF I
<1>3. IsFiniteSet({w}) /\ Cardinality({w}) = 1
  BY FS_Singleton
<1>4. WindowDays(w) = {w} \X I
  BY <1>1 DEF WindowDays
<1> HIDE DEF I, D, a
<1>5. IsFiniteSet({w} \X I) /\ Cardinality({w} \X I) = Cardinality({w}) * Cardinality(I)
  BY <1>2, <1>3, FS_Product
<1>6. IsFiniteSet(WindowDays(w)) /\ Cardinality(WindowDays(w)) = day - a
  <2>1. Cardinality({w}) * Cardinality(I) = day - a
    BY <1>1, <1>2, <1>3
  <2> QED BY <1>4, <1>5, <2>1
<1>7. D \cap WindowDays(w) = {}
  <2> SUFFICES ASSUME NEW p \in D, p \in WindowDays(w) PROVE FALSE
    OBVIOUS
  <2>1. PICK x \in scan.windows : x.reason = r /\ p \in WindowDays(x)
    BY DEF D, DaysIn
  <2>2. p[1] = x /\ p[1] = w /\ p[2] \in a..(day - 1)
    BY <1>4, <2>1 DEF WindowDays, I
  <2>3. w \in scan.windows /\ w.to <= a
    BY <1>1, <2>1, <2>2 DEF InTime, a
  <2> QED BY <1>1, <2>2, <2>3
<1>8. Cardinality(D) \in Nat
  BY FS_CardinalityType DEF D
<1>9. IsFiniteSet(D) /\ IsFiniteSet(WindowDays(w))
  BY <1>6 DEF D
<1>10. /\ IsFiniteSet(D \cup WindowDays(w))
       /\ Cardinality(D \cup WindowDays(w)) =
            Cardinality(D) + Cardinality(WindowDays(w)) - Cardinality(D \cap WindowDays(w))
  BY <1>9, FS_Union
<1>11. Cardinality(D \cap WindowDays(w)) = 0
  BY <1>7, FS_EmptySet
<1> QED BY <1>1, <1>6, <1>8, <1>10, <1>11 DEF D, a

EngineEntries == [action : {"extension"} \cup DOMAIN PauseOpened \cup DOMAIN PauseClosed,
                  at : Nat, days : Int]

(* A later day changes nothing that is closed.                             *)
LEMMA SameLater ==
  ASSUME NEW t, NEW day \in Nat, NEW later \in Nat, day <= later, Same(t, day)
  PROVE  Same(t, later)
<1>1. ASSUME NEW r \in Reasons PROVE SameOf(Evaluated(t), Scanned(t), r, later)
  BY DEF Same, SameOf, InTime
<1> QED BY <1>1 DEF Same

(* Both scans take one more event.                                         *)
LEMMA SameAppend ==
  ASSUME NEW t \in Seq(EngineEntries), IsTimeline(t), NEW e \in EngineEntries,
         NEW day \in Nat, e.at = day, Same(t, day)
  PROVE  Same(Append(t, e), day)
<1> DEFINE u == Append(t, e)
           old == Evaluated(t)
           new == Evaluated(u)
           before == Scanned(t)
           after == Scanned(u)
<1>1. /\ Len(t) \in Nat /\ Len(u) = Len(t) + 1 /\ u[Len(t) + 1] = e
      /\ \A i \in 1..Len(t) : u[i] = t[i]
  OBVIOUS
<1>e. e.at \in Nat /\ e.days \in Int
  BY DEF EngineEntries
<1>2. IsTimeline(u)
  BY <1>1, <1>e DEF IsTimeline
<1>3. new = EvaluateEvent(old, e) /\ after = Scan(before, e) /\ old \in Evaluations
  BY <1>2, EvaluatedAppend, ScannedAppend, EvaluatedType
<1>4. before \in Scans
  BY ScannedDescribes
<1>5. AskedDays(u) = IF e.action = "extension" THEN AskedDays(t) + e.days ELSE AskedDays(t)
  BY <1>2, AskedAppend
<1>6. NoneNegative(u) => NoneNegative(t) /\ e.days >= 0
  <2>1. Len(t) + 1 \in 1..Len(u) /\ \A i \in 1..Len(t) : i \in 1..Len(u)
    BY <1>1
  <2> HIDE DEF u
  <2> QED BY <1>1, <2>1 DEF NoneNegative
<1> HIDE DEF u, old, new, before, after
<1>7. ASSUME NoneNegative(u) PROVE new.asked = AskedDays(u)
  <2>1. old.asked = AskedDays(t) /\ e.days >= 0 /\ old.asked \in Int
    BY <1>3, <1>6, <1>7 DEF Same, old, Evaluations
  <2>2. new.asked = IF e.action = "extension" /\ e.days > 0 THEN old.asked + e.days
                    ELSE old.asked
    BY <1>3 DEF EvaluateEvent, Evaluations, PauseOpened, PauseClosed
  <2> QED BY <1>5, <1>e, <2>1, <2>2
<1>a. new.asked >= 0
  <2>1. old.asked \in Int /\ old.asked >= 0
    BY <1>3 DEF Same, old, Evaluations
  <2>2. new.asked = old.asked \/ (e.days > 0 /\ new.asked = old.asked + e.days)
    BY <1>3 DEF EvaluateEvent, Evaluations
  <2> QED BY <1>e, <2>1, <2>2
<1>8. ASSUME NEW r \in Reasons PROVE SameOf(new, after, r, day)
  <2>0. /\ SameOf(old, before, r, day) /\ r \in PauseReasons /\ NotPaused = NotOpen
        /\ old.since[r] \in Int /\ old.paused[r] \in Int
    BY <1>3 DEF Same, old, before, Reasons, PauseReasons, NotPaused, NotOpen, Evaluations
  <2>a. /\ PauseOpened = Pauses /\ PauseClosed = Resumes
    BY DEF PauseOpened, Pauses, PauseClosed, Resumes
  <2>1. /\ Opens(e, r)  => after.open[r] = day
        /\ Closes(e, r) => after.open[r] = NotOpen
        /\ ~Concerns(e, r) => after.open[r] = before.open[r]
    BY <1>3, <1>4, <1>e, ScanOfReason
  <2>2. \A w : w.reason = r =>
          (w \in after.windows <=>
             \/ w \in before.windows
             \/ /\ Closes(e, r) /\ before.open[r] # NotOpen
                /\ w = [reason |-> r, from |-> before.open[r], to |-> day])
    BY <1>3, <1>4, <1>e, ScanWindows
  <2>3. /\ Concerns(e, r) <=> Opens(e, r) \/ Closes(e, r)
        /\ ~(Opens(e, r) /\ Closes(e, r))
    BY OnePurpose DEF Opens, Closes
  <2>4. CASE Opens(e, r)
    <3>1. new.since[r] = day /\ new.paused[r] = old.paused[r]
      BY <1>3, <2>0, <2>4, <2>a DEF EvaluateEvent, Evaluations, Opens
    <3>2. \A w : w.reason = r => (w \in after.windows <=> w \in before.windows)
      BY <2>2, <2>3, <2>4
    <3>3. DaysIn(after.windows, r) = DaysIn(before.windows, r)
      <4>1. {w \in after.windows : w.reason = r} = {w \in before.windows : w.reason = r}
        BY <3>2
      <4> QED BY <4>1 DEF DaysIn
    <3>4. InTime(after, r, day)
      BY <2>0, <2>1, <2>4, <3>2 DEF InTime, SameOf
    <3> QED BY <2>0, <2>1, <2>4, <3>1, <3>3, <3>4 DEF SameOf
  <2>5. CASE Closes(e, r) /\ before.open[r] # NotOpen
    <3> DEFINE w0 == [reason |-> r, from |-> before.open[r], to |-> day]
    <3>1. old.since[r] = before.open[r]
      BY <2>0 DEF SameOf
    <3>2. /\ new.since[r] = NotPaused
          /\ new.paused[r] = old.paused[r] + (day - before.open[r])
      <4>1. /\ e.action \in DOMAIN PauseClosed /\ PauseClosed[e.action] = r
            /\ e.action \notin DOMAIN PauseOpened
        BY <2>5, <2>a, OnePurpose DEF Closes
      <4>2. new = [old EXCEPT !.paused[r] = @ + (e.at - old.since[r]), !.since[r] = NotPaused]
        BY <1>3, <2>0, <2>5, <3>1, <4>1 DEF EvaluateEvent
      <4> QED BY <1>3, <2>0, <3>1, <4>2 DEF Evaluations
    <3>3. {w \in after.windows : w.reason = r} =
            {w \in before.windows : w.reason = r} \cup {w0}
      BY <2>2, <2>5
    <3>4. DaysIn(after.windows, r) = DaysIn(before.windows, r) \cup WindowDays(w0)
      <4> HIDE DEF w0
      <4> QED BY <3>3 DEF DaysIn
    <3>5. /\ IsFiniteSet(DaysIn(after.windows, r))
          /\ Cardinality(DaysIn(after.windows, r)) =
               Cardinality(DaysIn(before.windows, r)) + (day - before.open[r])
      BY <2>0, <2>5, <3>4, OneMoreWindow DEF SameOf
    <3>6. InTime(after, r, day)
      BY <2>0, <2>1, <2>2, <2>5 DEF InTime, SameOf
    <3> QED BY <2>0, <2>1, <2>5, <3>2, <3>5, <3>6 DEF SameOf
  <2>6. CASE ~Concerns(e, r) \/ (Closes(e, r) /\ before.open[r] = NotOpen)
    <3>1. new.since[r] = old.since[r] /\ new.paused[r] = old.paused[r]
      <4>1. old.since[r] = before.open[r]
        BY <2>0 DEF SameOf
      <4>2. CASE e.action \in DOMAIN PauseOpened
        <5>1. PauseOpened[e.action] # r
          BY <2>3, <2>6, <2>a, <4>2 DEF Opens
        <5> QED BY <1>3, <2>0, <4>2, <5>1 DEF EvaluateEvent, Evaluations
      <4>3. CASE /\ e.action \notin DOMAIN PauseOpened /\ e.action \in DOMAIN PauseClosed
                 /\ old.since[PauseClosed[e.action]] # NotPaused
        <5>1. PauseClosed[e.action] # r
          BY <2>0, <2>3, <2>6, <2>a, <4>1, <4>3 DEF Closes
        <5> QED BY <1>3, <2>0, <4>3, <5>1 DEF EvaluateEvent, Evaluations
      <4>4. CASE /\ e.action \notin DOMAIN PauseOpened
                 /\ ~(e.action \in DOMAIN PauseClosed
                       /\ old.since[PauseClosed[e.action]] # NotPaused)
        BY <1>3, <4>4 DEF EvaluateEvent
      <4> QED BY <4>2, <4>3, <4>4
    <3>2. after.open[r] = before.open[r]
      BY <2>1, <2>6
    <3>3. \A w : w.reason = r => (w \in after.windows <=> w \in before.windows)
      BY <2>2, <2>3, <2>6
    <3>4. DaysIn(after.windows, r) = DaysIn(before.windows, r)
      <4>1. {w \in after.windows : w.reason = r} = {w \in before.windows : w.reason = r}
        BY <3>3
      <4> QED BY <4>1 DEF DaysIn
    <3>5. InTime(after, r, day)
      BY <2>0, <3>2, <3>3 DEF InTime, SameOf
    <3> QED BY <2>0, <3>1, <3>2, <3>4, <3>5 DEF SameOf
  <2> QED BY <2>3, <2>4, <2>5, <2>6
<1> QED BY <1>7, <1>8, <1>a DEF Same, new, after, u

LEMMA SameAtFirst == Same(<<>>, 0)
<1>1. IsTimeline(<<>>) /\ Len(<<>>) = 0
  BY DEF IsTimeline
<1>2. Evaluated(<<>>) = Unevaluated
  BY <1>1, EvaluatedIs DEF IsEvaluationOf
<1>3. Scanned(<<>>) = NothingScanned
  BY <1>1, ScannedIs DEF IsScanOf
<1>4. AskedDays(<<>>) = 0
  BY <1>1, AskedIs DEF IsSumOf
<1>5. ASSUME NEW r \in Reasons PROVE SameOf(Unevaluated, NothingScanned, r, 0)
  <2>1. DaysIn({}, r) = {}
    BY DEF DaysIn
  <2> QED BY <2>1, FS_EmptySet
          DEF SameOf, Unevaluated, NothingScanned, InTime, NotPaused, NotOpen, Reasons, PauseReasons
<1> QED BY <1>2, <1>3, <1>4, <1>5 DEF Same, Unevaluated


-----------------------------------------------------------------------------
(* The two engines at one moment.                                          *)

LEMMA SameScanned == ASSUME NEW t PROVE Legal!Scanned(t) = Scanned(t)
BY DEF Legal!Scanned, Scanned, Legal!Scan, Scan, Legal!NothingScanned, NothingScanned,
       Legal!Reasons, Reasons, Legal!Pauses, Pauses, Legal!Resumes, Resumes,
       Legal!NotOpen, NotOpen

LEMMA SameAsked == ASSUME NEW t PROVE Legal!AskedDays(t) = AskedDays(t)
BY DEF Legal!AskedDays, AskedDays

StopsClock(r) == Highest(EffectOf[r]) = "stop_clock"

LEMMA LegalStopped ==
  ASSUME NEW t, NEW day
  PROVE  Legal!Stopped(t, day) =
           {w \in PauseWindows(t, day) : w.reason \in {r \in PauseReasons : StopsClock(r)}}
BY SameScanned DEF Legal!Stopped, Legal!PauseWindows, Legal!OpenPauses, PauseWindows, OpenPauses,
                   Legal!Reasons, Reasons, Legal!NotOpen, NotOpen, StopsClock

(* A sum of the evaluation with what is open is the days of all windows.   *)
LEMMA DaysOfReason ==
  ASSUME NEW t, NEW day \in Nat, NEW r \in Reasons, NEW sums,
         SameOf(sums, Scanned(t), r, day)
  PROVE  /\ IsFiniteSet(DaysIn(PauseWindows(t, day), r))
         /\ Cardinality(DaysIn(PauseWindows(t, day), r)) =
              sums.paused[r] + IF sums.since[r] # NotPaused THEN day - sums.since[r] ELSE 0
<1> DEFINE scan == Scanned(t)
           w0 == [reason |-> r, from |-> scan.open[r], to |-> day]
<1>0. /\ NotPaused = NotOpen /\ sums.since[r] = scan.open[r] /\ InTime(scan, r, day)
      /\ IsFiniteSet(DaysIn(scan.windows, r))
      /\ sums.paused[r] = Cardinality(DaysIn(scan.windows, r))
  BY DEF SameOf, NotPaused, NotOpen
<1>n. Cardinality(DaysIn(scan.windows, r)) \in Nat
  BY <1>0, FS_CardinalityType
<1>1. {x \in PauseWindows(t, day) : x.reason = r} =
        {x \in scan.windows : x.reason = r} \cup
          (IF scan.open[r] # NotOpen THEN {w0} ELSE {})
  BY DEF PauseWindows, OpenPauses
<1> HIDE DEF scan
<1>2. CASE scan.open[r] # NotOpen
  <2>1. DaysIn(PauseWindows(t, day), r) = DaysIn(scan.windows, r) \cup WindowDays(w0)
    <3>1. {x \in PauseWindows(t, day) : x.reason = r} =
            {x \in scan.windows : x.reason = r} \cup {w0}
      BY <1>1, <1>2
    <3> HIDE DEF w0
    <3> QED BY <3>1 DEF DaysIn
  <2>2. /\ IsFiniteSet(DaysIn(scan.windows, r) \cup WindowDays(w0))
        /\ Cardinality(DaysIn(scan.windows, r) \cup WindowDays(w0)) =
             Cardinality(DaysIn(scan.windows, r)) + (day - scan.open[r])
    BY <1>0, <1>2, OneMoreWindow
  <2> QED BY <1>0, <1>2, <2>1, <2>2
<1>3. CASE scan.open[r] = NotOpen
  <2>1. {x \in PauseWindows(t, day) : x.reason = r} = {x \in scan.windows : x.reason = r}
    BY <1>1, <1>3
  <2>2. DaysIn(PauseWindows(t, day), r) = DaysIn(scan.windows, r)
    BY <2>1 DEF DaysIn
  <2> QED BY <1>0, <1>n, <1>3, <2>2
<1> QED BY <1>2, <1>3

(* What the evaluation credits is what the legal clock credits.            *)
LEMMA SameCredit ==
  ASSUME EngineType, engineDay \in Nat, Same(events, engineDay)
  PROVE  EvaluatedCredit(Merged) = Legal!PauseCredit(events, engineDay)
         /\ EvaluatedCredit(Merged) \in Nat
<1> DEFINE Of(r) == DaysIn(PauseWindows(events, engineDay), r)
           Stopping(r) == IF StopsClock(r) THEN Of(r) ELSE {}
<1>0. /\ PauseReasons = Reasons /\ Reasons = {"verification", "clarification"}
      /\ \A r \in Reasons : EffectOf[r] \in ClockFields
  BY DEF PauseReasons, Reasons, EffectOf, ClockFields, RuleFields
<1>1. \A r \in Reasons : IsFiniteSet(Of(r)) /\
        Cardinality(Of(r)) =
          Evaluated(events).paused[r] + IF Evaluated(events).since[r] # NotPaused
                                        THEN engineDay - Evaluated(events).since[r] ELSE 0
  BY DaysOfReason DEF Same
<1>2. ASSUME NEW r \in Reasons
      PROVE  /\ IsFiniteSet(Stopping(r)) /\ Cardinality(Stopping(r)) \in Nat
             /\ EvaluatedPause(Merged, r) = Cardinality(Stopping(r))
  <2>1. Merged[EffectOf[r]] = Highest(EffectOf[r])
    BY <1>0, MergedIsHighest
  <2>2. CASE StopsClock(r)
    BY <1>1, <2>1, <2>2, FS_CardinalityType DEF EvaluatedPause, StopsClock
  <2>3. CASE ~StopsClock(r)
    BY <2>1, <2>3, FS_EmptySet DEF EvaluatedPause, StopsClock
  <2> QED BY <2>2, <2>3
<1>3. Legal!PauseDays(events, engineDay) =
        Stopping("verification") \cup Stopping("clarification")
  <2>1. Legal!PauseDays(events, engineDay) =
          UNION {WindowDays(w) : w \in
                   {x \in PauseWindows(events, engineDay) :
                      x.reason \in {r \in PauseReasons : StopsClock(r)}}}
    BY LegalStopped DEF Legal!PauseDays, WindowDays
  <2> QED BY <1>0, <2>1 DEF DaysIn
<1>4. Stopping("verification") \cap Stopping("clarification") = {}
  <2> SUFFICES ASSUME NEW p \in Of("verification"), p \in Of("clarification") PROVE FALSE
    OBVIOUS
  <2>1. ASSUME NEW r, p \in Of(r) PROVE p[1].reason = r
    BY <2>1 DEF DaysIn, WindowDays
  <2> QED BY <2>1
<1> HIDE DEF Stopping
<1>5. /\ IsFiniteSet(Stopping("verification")) /\ IsFiniteSet(Stopping("clarification"))
      /\ Cardinality(Stopping("verification")) \in Nat
      /\ Cardinality(Stopping("clarification")) \in Nat
      /\ EvaluatedCredit(Merged) =
           Cardinality(Stopping("verification")) + Cardinality(Stopping("clarification"))
  BY <1>0, <1>2 DEF EvaluatedCredit
<1>6. Cardinality(Stopping("verification") \cup Stopping("clarification")) =
        Cardinality(Stopping("verification")) + Cardinality(Stopping("clarification"))
          - Cardinality(Stopping("verification") \cap Stopping("clarification"))
  BY <1>5, FS_Union
<1>7. Cardinality(Stopping("verification") \cap Stopping("clarification")) = 0
  BY <1>4, FS_EmptySet
<1>8. Legal!PauseCredit(events, engineDay) =
        Cardinality(Stopping("verification") \cup Stopping("clarification"))
  BY <1>3 DEF Legal!PauseCredit, Legal!Cardinality, Cardinality
<1> QED BY <1>5, <1>6, <1>7, <1>8

(* No rule sets whether and how far a deadline may be extended.            *)
LEMMA HighestOfBase ==
  ASSUME EngineType
  PROVE  /\ Highest("enabled") = base["enabled"] /\ base["enabled"] \in BOOLEAN
         /\ Highest("maxAdditionalDays") = base["maxAdditionalDays"]
         /\ base["maxAdditionalDays"] \in Nat
         /\ Highest("responseDeadlineDays") \in Int
<1>1. Matched \subseteq ClockRules /\ base \in BaseClocks
  BY DEF Matched, EngineType
<1>2. \A r \in Matched : "enabled" \notin DOMAIN r.apply /\ "maxAdditionalDays" \notin DOMAIN r.apply
  BY <1>1, EngineAssumption DEF RuleFields
<1>3. Highest("enabled") = base["enabled"] /\ Highest("maxAdditionalDays") = base["maxAdditionalDays"]
  BY <1>2 DEF Highest
<1>4. /\ base["enabled"] \in BOOLEAN /\ base["maxAdditionalDays"] \in Nat
      /\ base["responseDeadlineDays"] \in Int
  BY <1>1, EngineAssumption
<1>5. Highest("responseDeadlineDays") \in Int
  <2>1. "responseDeadlineDays" \in ClockFields
    BY DEF ClockFields, RuleFields
  <2>2. \A r \in Matched :
          "responseDeadlineDays" \in DOMAIN r.apply => r.apply["responseDeadlineDays"] \in Int
    BY <1>1, EngineAssumption
  <2> QED BY <1>4, <2>1, <2>2, MergedIsHighest
<1> QED BY <1>3, <1>4, <1>5

(* The deadlines are equal whenever the two scans are.                     *)
LEMMA SameDeadline ==
  ASSUME EngineType, engineDay \in Nat, Same(events, engineDay),
         \A i \in 1..Len(events) : events[i].days >= 0, IsTimeline(events)
  PROVE  EvaluatedDueAt = Legal!FinalDueAt(events, engineDay)
<1> DEFINE response == Highest("responseDeadlineDays")
           asked == Evaluated(events).asked
           credit == EvaluatedCredit(Merged)
<1>1. /\ Merged["responseDeadlineDays"] = response
      /\ Merged["enabled"] = base["enabled"]
      /\ Merged["maxAdditionalDays"] = base["maxAdditionalDays"]
  BY MergedIsHighest, HighestOfBase DEF ClockFields, RuleFields
<1>2. response \in Int /\ base["maxAdditionalDays"] \in Nat /\ base["enabled"] \in BOOLEAN
  BY HighestOfBase
<1>3. /\ asked \in Nat /\ asked = Legal!AskedDays(events)
  BY SameAsked, EvaluatedType DEF Same, NoneNegative, Evaluations
<1>4. credit \in Nat /\ Legal!PauseCredit(events, engineDay) = credit
  BY SameCredit
<1>5. /\ EvaluatedExtension(Merged) = Legal!ExtensionDays(events)
      /\ Legal!ExtensionDays(events) \in Nat
  <2>1. CASE base["enabled"]
    BY <1>1, <1>2, <1>3, <2>1 DEF EvaluatedExtension, Legal!ExtensionDays
  <2>2. CASE ~base["enabled"]
    BY <1>1, <1>2, <1>3, <2>2 DEF EvaluatedExtension, Legal!ExtensionDays
  <2> QED BY <2>1, <2>2
<1>6. EvaluatedDueAt = response + credit + EvaluatedExtension(Merged)
  BY <1>1 DEF EvaluatedDueAt
<1> HIDE DEF response, credit, asked
<1>7. Legal!FinalDueAt(events, engineDay) = response + credit + Legal!ExtensionDays(events)
  BY <1>2, <1>4, <1>5 DEF Legal!FinalDueAt, response
<1> QED BY <1>5, <1>6, <1>7

-----------------------------------------------------------------------------
EngineInvariant ==
  /\ EngineType /\ engineDay \in Nat
  /\ events \in Seq(EngineEntries) /\ Same(events, engineDay)

LEMMA EntriesAreTimeline ==
  ASSUME NEW t \in Seq(EngineEntries)
  PROVE  IsTimeline(t)
<1>1. \A i \in 1..Len(t) : t[i] \in EngineEntries
  OBVIOUS
<1> QED BY <1>1 DEF EngineEntries, IsTimeline

LEMMA EngineStart == EngineInit => EngineInvariant
BY SameAtFirst, FS_EmptySet DEF EngineInit, EngineInvariant, EngineType

(* Each step adds a rule, an event of the present day, or a day.           *)
LEMMA EngineStep == EngineInvariant /\ [EngineNext]_engineVars => EngineInvariant'
<1> SUFFICES ASSUME EngineInvariant, [EngineNext]_engineVars PROVE EngineInvariant'
  OBVIOUS
<1> USE DEF EngineInvariant
<1>1. CASE AddRule
  BY <1>1, FS_AddElement DEF AddRule, EngineType
<1>2. ASSUME NEW a \in {"extension"} \cup DOMAIN PauseOpened \cup DOMAIN PauseClosed,
             NEW d \in Int, Note(a, d)
      PROVE  EngineInvariant'
  <2> DEFINE e == [action |-> a, at |-> engineDay, days |-> d]
  <2>1. e \in EngineEntries /\ e.at = engineDay
    BY DEF EngineEntries
  <2>2. /\ events' = Append(events, e) /\ engineDay' = engineDay
        /\ base' = base /\ rules' = rules
    BY <1>2 DEF Note
  <2> HIDE DEF e
  <2>3. Same(Append(events, e), engineDay)
    BY <2>1, EntriesAreTimeline, SameAppend
  <2>4. EngineType' /\ events' \in Seq(EngineEntries) /\ engineDay' \in Nat
    BY <2>1, <2>2 DEF EngineType
  <2>5. Same(events, engineDay)'
    BY <2>2, <2>3
  <2> QED BY <2>4, <2>5
<1>3. CASE NotePause
  <2>1. PICK a \in DOMAIN PauseOpened \cup DOMAIN PauseClosed : Note(a, 0)
    BY <1>3 DEF NotePause
  <2>2. 0 \in Int /\ a \in {"extension"} \cup DOMAIN PauseOpened \cup DOMAIN PauseClosed
    BY <2>1
  <2> QED BY <1>2, <2>1, <2>2, Zenon
<1>4. CASE NoteExtension
  BY <1>2, <1>4, EngineAssumption DEF NoteExtension
<1>5. CASE EngineTick
  <2>1. engineDay' \in Nat /\ engineDay <= engineDay'
    BY <1>5 DEF EngineTick
  <2>2. Same(events, engineDay')
    BY <2>1, SameLater
  <2> QED BY <1>5, <2>1, <2>2 DEF EngineTick, EngineType
<1>6. CASE UNCHANGED engineVars
  BY <1>6 DEF engineVars, EngineType
<1> QED BY <1>1, <1>3, <1>4, <1>5, <1>6 DEF EngineNext

(* The deadline evaluatePolicy explains, from rules merged by precedence   *)
(* and sums over the timeline, is the one computeLegalClock gives for the  *)
(* fields as the rules of highest precedence set them and the windows of   *)
(* the timeline: for every pack, request and timeline that asks for no     *)
(* negative number of days.                                                *)
THEOREM EnginesAlwaysAgree == EngineSpec => []EnginesAgree
<1>1. EngineInvariant => EnginesAgree
  BY EntriesAreTimeline, SameDeadline DEF EngineInvariant, EnginesAgree
<1> QED BY <1>1, EngineStart, EngineStep, PTL DEF EngineSpec
=============================================================================
