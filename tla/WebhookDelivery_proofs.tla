------------------------ MODULE WebhookDelivery_proofs ------------------------
(***************************************************************************)
(* Theorems about WebhookDelivery for any number of runners, handlers,     *)
(* jobs, any schedule and any bounds.                                      *)
(***************************************************************************)
EXTENDS WebhookDelivery, FiniteSetTheorems, TLAPS

(* What the retry policy computes: a whole number of at least one attempt. *)
LEMMA MaxAttemptsType == MaxAttempts \in Nat /\ MaxAttempts >= 1
BY ScheduleAssumption, NumbersAssumption DEF MaxAttempts

(* A backoff is a number of ticks, or none when the schedule has run out.  *)
LEMMA DelayType ==
  ASSUME NEW n \in Nat PROVE DelayAfterAttempt(n) \in Nat \cup {Never}
BY ScheduleAssumption DEF DelayAfterAttempt

(* The row written after a send is well typed, and "failed" is written     *)
(* only with attempts left and a backoff to wait for.                      *)
LEMMA RecordedRow ==
  ASSUME NEW n \in Nat, NEW result \in Outcomes
  PROVE  /\ WaitAfter(n, result) \in Nat \cup {Never}
         /\ StatusAfter(n, result) \in {"failed", "delivered", "skipped", "dead"}
         /\ StatusAfter(n, result) = "failed" =>
              /\ n < MaxAttempts
              /\ n \in DOMAIN Schedule /\ WaitAfter(n, result) = Schedule[n]
              /\ WaitAfter(n, result) # Never
         /\ StatusAfter(n, result) # "failed" => WaitAfter(n, result) = Never
<1>1. WaitAfter(n, result) \in Nat \cup {Never}
  BY DelayType DEF WaitAfter
<1>2. StatusAfter(n, result) \in {"failed", "delivered", "skipped", "dead"}
  BY DEF StatusAfter
<1>3. ASSUME StatusAfter(n, result) = "failed"
      PROVE  /\ n < MaxAttempts
             /\ n \in DOMAIN Schedule /\ WaitAfter(n, result) = Schedule[n]
             /\ WaitAfter(n, result) # Never
  <2>1. result \notin {"delivered", "skipped"} /\ WaitAfter(n, result) # Never
    BY <1>3 DEF StatusAfter
  <2>2. ~Exhausted(n, result) /\ WaitAfter(n, result) = DelayAfterAttempt(n)
    BY <2>1 DEF WaitAfter
  <2>3. n < MaxAttempts
    BY <2>2, MaxAttemptsType DEF Exhausted
  <2>4. n \in DOMAIN Schedule /\ WaitAfter(n, result) = Schedule[n]
    BY <2>1, <2>2 DEF DelayAfterAttempt
  <2> QED BY <2>1, <2>3, <2>4
<1>4. StatusAfter(n, result) # "failed" => WaitAfter(n, result) = Never
  BY DEF StatusAfter, WaitAfter
<1> QED BY <1>1, <1>2, <1>3, <1>4

(* Time passing keeps a time a time.                                       *)
LEMMA ElapseType ==
  /\ \A t \in Nat \cup {Never} : Elapse(t) \in Nat \cup {Never}
  /\ \A t \in 0..Lease : Elapse(t) \in 0..Lease
BY NeverAssumption, NumbersAssumption DEF Elapse

USE DEF rows, history, budget

-----------------------------------------------------------------------------
(* Every reachable state is well typed.                                    *)
THEOREM TypeCorrect == Spec => []TypeOK
<1>1. Init => TypeOK
  <2> SUFFICES ASSUME Init PROVE TypeOK
    OBVIOUS
  <2> USE DEF Init
  <2>1. row \in [Jobs -> RowType]
    BY NumbersAssumption DEF RowType, AbsentRow, Statuses
  <2>2. call \in [Procs -> CallType]
    BY DEF CallType, NoCall
  <2>3. held \in [Procs -> HoldType]
    BY NumbersAssumption DEF HoldType, NoHold
  <2>4. pc \in [Procs -> Labels] /\ batch \in [Procs -> SUBSET Jobs]
    BY DEF Labels
  <2> QED BY <2>1, <2>2, <2>3, <2>4 DEF TypeOK
<1>2. TypeOK /\ [Next]_vars => TypeOK'
  <2> SUFFICES ASSUME TypeOK, [Next]_vars PROVE TypeOK'
    OBVIOUS
  <2>0. Handlers \subseteq Procs /\ Workers \subseteq Procs
    BY DEF Procs
  <2>1. ASSUME NEW h \in Handlers, NEW k \in Keys, EmitStart(h, k) PROVE TypeOK'
    <3>1. /\ call' \in [Procs -> CallType]
          /\ \A p \in Procs \ {h} : call'[p] = call[p]
      BY <2>0, <2>1 DEF EmitStart, TypeOK, CallType
    <3>2. /\ pc' \in [Procs -> Labels]
          /\ pc'[h] \in {"find_job", "append_event"}
          /\ \A p \in Procs \ {h} : pc'[p] = pc[p]
      BY <2>0, <2>1 DEF EmitStart, TypeOK, Goto, Labels
    <3> QED BY <2>0, <2>1, <3>1, <3>2 DEF EmitStart, TypeOK
  <2>2. ASSUME NEW h \in Handlers, AppendEvent(h) PROVE TypeOK'
    <3>1. PICK e \in Events :
             /\ eventKey' = [eventKey EXCEPT ![e] = call[h].key]
             /\ call' = [call EXCEPT ![h].event = e]
      BY <2>2 DEF AppendEvent
    <3>2. call[h] \in CallType
      BY <2>0 DEF TypeOK
    <3>3. eventKey' \in [Events -> Keys \cup {None}]
      BY <3>1, <3>2 DEF TypeOK, CallType
    <3>4. call' \in [Procs -> CallType]
      <4>1. ASSUME NEW c \in CallType PROVE [c EXCEPT !.event = e] \in CallType
        BY DEF CallType
      <4> QED BY <3>1, <3>2, <4>1 DEF TypeOK
    <3>5. /\ pc' \in [Procs -> Labels]
          /\ pc'[h] = "find_job"
          /\ \A p \in Procs \ {h} : pc'[p] = pc[p]
      BY <2>0, <2>2 DEF AppendEvent, TypeOK, Goto, Labels
    <3> QED BY <2>0, <2>2, <3>3, <3>4, <3>5 DEF AppendEvent, TypeOK
  <2>3. ASSUME NEW h \in Handlers, FindJob(h) PROVE TypeOK'
    <3>1. /\ call' \in [Procs -> CallType]
          /\ \A p \in Procs \ {h} : call'[p] = call[p]
          /\ pc'[h] = "reset_job" => call'[h].job \in Jobs
      BY <2>0, <2>3 DEF FindJob, TypeOK, CallType, JobsOf, Goto
    <3>2. /\ pc' \in [Procs -> Labels]
          /\ pc'[h] \in {"append_job", "reset_job"}
          /\ \A p \in Procs \ {h} : pc'[p] = pc[p]
      BY <2>0, <2>3 DEF FindJob, TypeOK, Goto, Labels
    <3> QED BY <2>0, <2>3, <3>1, <3>2 DEF FindJob, TypeOK
  <2>4. ASSUME NEW h \in Handlers, AppendJob(h) PROVE TypeOK'
    <3>1. PICK j \in Jobs :
             /\ row' = [row EXCEPT ![j] =
                  [status |-> "pending", attempt |-> 1, claim |-> 0,
                   wait |-> IF h \in Unconfigured THEN Never ELSE 0,
                   event |-> call[h].event]]
             /\ batch' = [batch EXCEPT ![h] =
                             IF h \in Unconfigured THEN {} ELSE {j}]
      BY <2>4 DEF AppendJob
    <3>2. call[h].event \in Events \cup {None}
      BY <2>0 DEF TypeOK, CallType
    <3>3. row' \in [Jobs -> RowType]
      <4>1. [status |-> "pending", attempt |-> 1, claim |-> 0,
             wait |-> IF h \in Unconfigured THEN Never ELSE 0,
             event |-> call[h].event] \in RowType
        BY <3>2, NumbersAssumption DEF RowType, Statuses
      <4> QED BY <3>1, <4>1 DEF TypeOK
    <3>4. /\ call' \in [Procs -> CallType]
          /\ batch' \in [Procs -> SUBSET Jobs]
      BY <2>0, <2>4, <3>1 DEF AppendJob, TypeOK, CallType, NoCall
    <3>5. /\ pc' \in [Procs -> Labels]
          /\ pc'[h] = "process"
          /\ \A p \in Procs \ {h} : pc'[p] = pc[p] /\ call'[p] = call[p]
      BY <2>0, <2>4 DEF AppendJob, TypeOK, Goto, Labels
    <3> QED BY <2>0, <2>4, <3>3, <3>4, <3>5 DEF AppendJob, TypeOK
  <2>5. ASSUME NEW h \in Handlers, NEW j \in Jobs, ReplayStart(h, j) PROVE TypeOK'
    <3>1. /\ call' \in [Procs -> CallType]
          /\ \A p \in Procs \ {h} : call'[p] = call[p]
      BY <2>0, <2>5 DEF ReplayStart, TypeOK, CallType, RowType
    <3>2. /\ pc' \in [Procs -> Labels]
          /\ pc'[h] = "find_replayable"
          /\ \A p \in Procs \ {h} : pc'[p] = pc[p]
      BY <2>0, <2>5 DEF ReplayStart, TypeOK, Goto, Labels
    <3> QED BY <2>0, <2>5, <3>1, <3>2 DEF ReplayStart, TypeOK
  <2>6. ASSUME NEW h \in Handlers, FindReplayable(h) PROVE TypeOK'
    <3>1. PICK j \in Jobs : call' = [call EXCEPT ![h].job = j]
      BY <2>6 DEF FindReplayable, JobsOf
    <3>2. /\ call' \in [Procs -> CallType]
          /\ \A p \in Procs \ {h} : call'[p] = call[p]
          /\ call'[h].job \in Jobs
      BY <2>0, <3>1 DEF TypeOK, CallType
    <3>3. /\ pc' \in [Procs -> Labels]
          /\ pc'[h] = "reset_job"
          /\ \A p \in Procs \ {h} : pc'[p] = pc[p]
      BY <2>0, <2>6 DEF FindReplayable, TypeOK, Goto, Labels
    <3> QED BY <2>0, <2>6, <3>2, <3>3 DEF FindReplayable, TypeOK
  <2>7. ASSUME NEW h \in Handlers, ResetJob(h) PROVE TypeOK'
    <3>1. row' \in [Jobs -> RowType]
      <4>1. call[h].job \in Jobs
        BY <2>0, <2>7 DEF ResetJob, TypeOK
      <4>2. ASSUME NEW r \in RowType
            PROVE  [status |-> "pending", attempt |-> r.attempt, wait |-> 0,
                    claim |-> 0, event |-> r.event] \in RowType
        BY NumbersAssumption DEF RowType, Statuses
      <4>3. row[call[h].job] \in RowType
        BY <4>1 DEF TypeOK
      <4> QED BY <2>7, <4>1, <4>2, <4>3 DEF ResetJob, TypeOK
    <3>2. call' \in [Procs -> CallType] /\ batch' \in [Procs -> SUBSET Jobs]
      BY <2>0, <2>7 DEF ResetJob, TypeOK, CallType, NoCall
    <3>3. /\ pc' \in [Procs -> Labels]
          /\ pc'[h] = "process"
          /\ \A p \in Procs \ {h} : pc'[p] = pc[p] /\ call'[p] = call[p]
      BY <2>0, <2>7 DEF ResetJob, TypeOK, Goto, Labels
    <3> QED BY <2>0, <2>7, <3>1, <3>2, <3>3 DEF ResetJob, TypeOK
  <2>8. ASSUME NEW w \in Workers, ListDue(w) PROVE TypeOK'
    BY <2>0, <2>8 DEF ListDue, TypeOK, Goto, Labels, DueJobs
  <2>9. ASSUME NEW p \in Procs, NEW j \in Jobs, Claim(p, j) PROVE TypeOK'
    <3>1. row' \in [Jobs -> RowType]
      <4>1. ASSUME NEW r \in RowType PROVE [r EXCEPT !.claim = Lease] \in RowType
        BY NumbersAssumption DEF RowType
      <4> QED BY <2>9, <4>1 DEF Claim, TypeOK
    <3>2. row[j].attempt \in Nat
      BY DEF TypeOK, RowType
    <3>3. /\ held' \in [Procs -> HoldType]
          /\ held'[p].job = j
          /\ \A q \in Procs \ {p} : held'[q] = held[q]
      BY <2>9, <3>2, NumbersAssumption DEF Claim, TypeOK, HoldType
    <3>4. /\ pc' \in [Procs -> Labels]
          /\ pc'[p] = "send"
          /\ \A q \in Procs \ {p} : pc'[q] = pc[q]
      BY <2>9 DEF Claim, TypeOK, Goto, Labels
    <3>5. batch' \in [Procs -> SUBSET Jobs]
      BY <2>9 DEF Claim, TypeOK
    <3> QED BY <2>9, <3>1, <3>3, <3>4, <3>5 DEF Claim, TypeOK
  <2>10. ASSUME NEW p \in Procs, NEW j \in Jobs, PassOver(p, j) PROVE TypeOK'
    BY <2>10 DEF PassOver, TypeOK
  <2>11. ASSUME NEW p \in Procs, Return(p) PROVE TypeOK'
    BY <2>11 DEF Return, TypeOK, Goto, Labels
  <2>12. ASSUME NEW p \in Procs, Send(p) PROVE TypeOK'
    <3>1. PICK result \in Outcomes :
            held' = [held EXCEPT ![p] = [@ EXCEPT !.outcome = result]]
      BY <2>12 DEF Send
    <3>2. held[p] \in HoldType /\ held[p].job \in Jobs
      BY <2>12 DEF Send, TypeOK
    <3>3. /\ [held[p] EXCEPT !.outcome = result] \in HoldType
          /\ [held[p] EXCEPT !.outcome = result].job = held[p].job
          /\ [held[p] EXCEPT !.outcome = result].outcome = result
      BY <3>2 DEF HoldType
    <3>4. /\ held' \in [Procs -> HoldType]
          /\ held'[p].job \in Jobs /\ held'[p].outcome \in Outcomes
          /\ \A q \in Procs \ {p} : held'[q] = held[q]
      BY <3>1, <3>2, <3>3 DEF TypeOK
    <3>5. sends' \in [Jobs -> Nat]
      BY <2>12, <3>2 DEF Send, TypeOK
    <3>6. /\ pc' \in [Procs -> Labels]
          /\ pc'[p] = "record"
          /\ \A q \in Procs \ {p} : pc'[q] = pc[q]
      BY <2>12 DEF Send, TypeOK, Goto, Labels
    <3> QED BY <2>12, <3>4, <3>5, <3>6 DEF Send, TypeOK
  <2>13. ASSUME NEW p \in Procs, Record(p) PROVE TypeOK'
    <3> DEFINE n == held[p].attemptNo
               result == held[p].outcome
    <3>1. n \in Nat /\ result \in Outcomes /\ held[p].job \in Jobs
      BY <2>13 DEF Record, TypeOK, HoldType
    <3>2. /\ WaitAfter(n, result) \in Nat \cup {Never}
          /\ StatusAfter(n, result) \in Statuses
      BY <3>1, RecordedRow DEF Statuses
    <3>3. row' \in [Jobs -> RowType]
      <4>1. [status |-> StatusAfter(n, result), attempt |-> n,
             wait |-> WaitAfter(n, result), claim |-> 0,
             event |-> row[held[p].job].event] \in RowType
        BY <3>1, <3>2, NumbersAssumption DEF TypeOK, RowType
      <4> QED BY <2>13, <3>1, <4>1 DEF Record, TypeOK
    <3>4. held' \in [Procs -> HoldType]
      BY <2>13, NumbersAssumption DEF Record, TypeOK, HoldType
    <3>5. /\ held'[p].job = held[p].job /\ held'[p].outcome = result
          /\ \A q \in Procs \ {p} : held'[q] = held[q]
      BY <2>13 DEF Record, TypeOK, HoldType
    <3>6. /\ pc' \in [Procs -> Labels]
          /\ pc'[p] = "append_timeline"
          /\ \A q \in Procs \ {p} : pc'[q] = pc[q]
      BY <2>13 DEF Record, TypeOK, Goto, Labels
    <3> QED BY <2>13, <3>1, <3>3, <3>4, <3>5, <3>6 DEF Record, TypeOK
  <2>14. ASSUME NEW p \in Procs, AppendTimeline(p) PROVE TypeOK'
    <3>1. NoHold \in HoldType
      BY NumbersAssumption DEF NoHold, HoldType
    <3>2. held[p].job \in Jobs /\ held[p].outcome \in Outcomes
      BY <2>14 DEF AppendTimeline, TypeOK
    <3>3. CASE Goto(p, "dead_hook") /\ UNCHANGED held
      BY <2>14, <3>2, <3>3 DEF AppendTimeline, TypeOK, Goto, Labels
    <3>4. CASE Goto(p, "process") /\ held' = [held EXCEPT ![p] = NoHold]
      BY <2>14, <3>1, <3>2, <3>4 DEF AppendTimeline, TypeOK, Goto, Labels
    <3> QED BY <2>14, <3>3, <3>4 DEF AppendTimeline
  <2>15. ASSUME NEW p \in Procs, NotifyDead(p) PROVE TypeOK'
    BY <2>15, NumbersAssumption DEF NotifyDead, TypeOK, Goto, Labels, HoldType, NoHold
  <2>16. ASSUME NEW p \in Procs, StatementFails(p) PROVE TypeOK'
    BY <2>16, NumbersAssumption
    DEF StatementFails, TypeOK, Goto, Labels, HoldType, NoHold
  <2>17. ASSUME NEW p \in Procs, Crash(p) PROVE TypeOK'
    BY <2>17, NumbersAssumption
    DEF Crash, TypeOK, Goto, Labels, HoldType, NoHold, CallType, NoCall
  <2>18. ASSUME Tick PROVE TypeOK'
    <3>1. row' \in [Jobs -> RowType]
      BY <2>18, ElapseType DEF Tick, TypeOK, RowType
    <3>2. held' \in [Procs -> HoldType]
      BY <2>18, ElapseType DEF Tick, TypeOK, HoldType
    <3>3. \A p \in Procs : /\ held'[p].job = held[p].job
                           /\ held'[p].outcome = held[p].outcome
      BY <2>18 DEF Tick, TypeOK, HoldType
    <3>4. overruns \in Nat /\ (overruns' = overruns \/ overruns' = overruns + 1)
      BY <2>18 DEF Tick, TypeOK
    <3>5. UNCHANGED <<eventKey, pc, batch, call, calls, resets, faults, sends,
                      timeline, hooks>>
      BY <2>18 DEF Tick
    <3>6. \A p \in Procs :
            /\ pc'[p] \in {"send", "record", "append_timeline", "dead_hook"} =>
                 held'[p].job \in Jobs
            /\ pc'[p] \in {"record", "append_timeline", "dead_hook"} =>
                 held'[p].outcome \in Outcomes
            /\ pc'[p] = "reset_job" => call'[p].job \in Jobs
      BY <3>3, <3>5 DEF TypeOK
    <3>7. overruns' \in Nat
      BY <3>4
    <3> QED BY <3>1, <3>2, <3>5, <3>6, <3>7 DEF TypeOK
  <2>19. CASE UNCHANGED vars
    BY <2>19 DEF vars, TypeOK
  <2> QED
    BY <2>1, <2>2, <2>3, <2>4, <2>5, <2>6, <2>7, <2>8, <2>9, <2>10, <2>11, <2>12,
       <2>13, <2>14, <2>15, <2>16, <2>17, <2>18, <2>19
    DEF Next, EmitStep, FindStep, ArmStep, DeliverStep
<1> QED BY <1>1, <1>2, PTL DEF Spec

-----------------------------------------------------------------------------
(* Most steps of a process only matter to what follows in that it holds no *)
(* claim afterwards: the rows, the other processes and the counters of     *)
(* disturbances stay.                                                      *)
Quiet(p) ==
  /\ UNCHANGED <<row, resets, overruns>>
  /\ pc'[p] \notin {"send", "record"}
  /\ \A q \in Procs \ {p} : pc'[q] = pc[q] /\ held'[q] = held[q]

Idle == UNCHANGED <<row, pc, held, resets, overruns>>

LEMMA StepKinds ==
  ASSUME TypeOK, [Next]_vars
  PROVE  \/ Idle
         \/ \E p \in Procs : Quiet(p)
         \/ \E h \in Handlers : AppendJob(h)
         \/ \E h \in Handlers : ResetJob(h)
         \/ \E p \in Procs, j \in Jobs : Claim(p, j)
         \/ \E p \in Procs : Send(p)
         \/ \E p \in Procs : Record(p)
         \/ Tick
<1>0. Handlers \subseteq Procs /\ Workers \subseteq Procs
  BY DEF Procs
<1>1. ASSUME NEW h \in Handlers, EmitStep(h) \/ FindStep(h) PROVE Quiet(h)
  BY <1>0, <1>1
  DEF EmitStep, FindStep, EmitStart, ReplayStart, AppendEvent, FindJob,
      FindReplayable, Goto, TypeOK, Quiet
<1>2. ASSUME NEW w \in Workers, ListDue(w) PROVE Quiet(w)
  BY <1>0, <1>2 DEF ListDue, Goto, TypeOK, Quiet
<1>3. ASSUME NEW p \in Procs, Return(p) PROVE Quiet(p)
  BY <1>3 DEF Return, Goto, TypeOK, Quiet
<1>4. ASSUME NEW p \in Procs, AppendTimeline(p) PROVE Quiet(p)
  BY <1>4 DEF AppendTimeline, Goto, TypeOK, Quiet
<1>5. ASSUME NEW p \in Procs, NotifyDead(p) PROVE Quiet(p)
  BY <1>5 DEF NotifyDead, Goto, TypeOK, Quiet
<1>6. ASSUME NEW p \in Procs, StatementFails(p) PROVE Quiet(p)
  BY <1>6 DEF StatementFails, Goto, TypeOK, Quiet
<1>7. ASSUME NEW p \in Procs, Crash(p) PROVE Quiet(p)
  BY <1>7 DEF Crash, Goto, TypeOK, Quiet
<1>8. ASSUME NEW p \in Procs, NEW j \in Jobs, PassOver(p, j) PROVE Idle
  BY <1>8 DEF PassOver, Idle
<1>9. CASE UNCHANGED vars
  BY <1>9 DEF vars, Idle
<1>10. CASE \E h \in Handlers : EmitStep(h) \/ FindStep(h) \/ ArmStep(h)
  BY <1>0, <1>1, <1>10 DEF ArmStep
<1>11. CASE \E w \in Workers : ListDue(w)
  BY <1>0, <1>2, <1>11
<1>12. CASE \E p \in Procs : DeliverStep(p)
  BY <1>3, <1>4, <1>5, <1>8, <1>12 DEF DeliverStep
<1>13. CASE \E p \in Procs : StatementFails(p) \/ Crash(p)
  BY <1>6, <1>7, <1>13
<1> QED BY <1>9, <1>10, <1>11, <1>12, <1>13 DEF Next

(* What the steps that write a row make of it.                             *)
LEMMA AppendedRow ==
  ASSUME TypeOK, NEW h \in Handlers, AppendJob(h)
  PROVE  /\ \E i \in Jobs :
              /\ row[i].status = "absent" /\ row'[i].status = "pending"
              /\ row'[i].attempt = 1
              /\ \A j \in Jobs \ {i} : row'[j] = row[j]
         /\ UNCHANGED <<held, resets, overruns>>
         /\ pc'[h] \notin {"send", "record"}
         /\ \A q \in Procs \ {h} : pc'[q] = pc[q]
<1>0. h \in Procs
  BY DEF Procs
<1>1. PICK i \in Jobs :
        /\ row[i].status = "absent"
        /\ row' = [row EXCEPT ![i] =
             [status |-> "pending", attempt |-> 1, claim |-> 0,
              wait |-> IF h \in Unconfigured THEN Never ELSE 0,
              event |-> call[h].event]]
  BY DEF AppendJob
<1> QED BY <1>0, <1>1 DEF AppendJob, Goto, TypeOK

LEMMA ResetRow ==
  ASSUME TypeOK, NEW h \in Handlers, ResetJob(h)
  PROVE  /\ \E i \in Jobs :
              /\ row'[i].status = "pending" /\ row'[i].attempt = row[i].attempt
              /\ \A j \in Jobs \ {i} : row'[j] = row[j]
         /\ UNCHANGED <<held, overruns>> /\ resets' = resets + 1
         /\ pc'[h] \notin {"send", "record"}
         /\ \A q \in Procs \ {h} : pc'[q] = pc[q]
BY DEF ResetJob, Goto, TypeOK, Procs

LEMMA ClaimedRow ==
  ASSUME TypeOK, NEW p \in Procs, NEW j \in Jobs, Claim(p, j)
  PROVE  /\ row[j].status \in {"pending", "failed"}
         /\ row[j].wait = 0 /\ row[j].claim = 0
         /\ row'[j].status = row[j].status /\ row'[j].attempt = row[j].attempt
         /\ row'[j].wait = 0 /\ row'[j].claim = Lease
         /\ \A i \in Jobs \ {j} : row'[i] = row[i]
         /\ held'[p].job = j /\ held'[p].lease = Lease
         /\ held'[p].attemptNo = IF row[j].status = "pending"
                                 THEN row[j].attempt ELSE row[j].attempt + 1
         /\ \A q \in Procs \ {p} : pc'[q] = pc[q] /\ held'[q] = held[q]
         /\ UNCHANGED <<resets, overruns>>
<1>1. /\ row[j] \in RowType /\ Due(row[j])
      /\ row'[j] = [row[j] EXCEPT !.claim = Lease]
      /\ \A i \in Jobs \ {j} : row'[i] = row[i]
  BY DEF Claim, TypeOK
<1>2. /\ row'[j].status = row[j].status /\ row'[j].attempt = row[j].attempt
      /\ row'[j].wait = row[j].wait /\ row'[j].claim = Lease
  BY <1>1 DEF RowType
<1>3. held'[p] = [job |-> j, outcome |-> "none", lease |-> Lease,
                  attemptNo |-> IF row[j].status = "pending" THEN row[j].attempt
                                ELSE row[j].attempt + 1]
  BY DEF Claim, TypeOK
<1>4. \A q \in Procs \ {p} : pc'[q] = pc[q] /\ held'[q] = held[q]
  BY DEF Claim, Goto, TypeOK
<1>5. UNCHANGED <<resets, overruns>>
  BY DEF Claim
<1> QED BY <1>1, <1>2, <1>3, <1>4, <1>5 DEF Due

LEMMA SentHold ==
  ASSUME TypeOK, NEW p \in Procs, Send(p)
  PROVE  /\ Holding(p) /\ UNCHANGED <<row, resets, overruns>>
         /\ held'[p].job = held[p].job /\ held'[p].lease = held[p].lease
         /\ held'[p].attemptNo = held[p].attemptNo
         /\ \A q \in Procs \ {p} : pc'[q] = pc[q] /\ held'[q] = held[q]
<1>1. PICK result \in Outcomes :
        held' = [held EXCEPT ![p] = [@ EXCEPT !.outcome = result]]
  BY DEF Send
<1>2. /\ held'[p].job = held[p].job /\ held'[p].lease = held[p].lease
      /\ held'[p].attemptNo = held[p].attemptNo
      /\ \A q \in Procs \ {p} : held'[q] = held[q]
  BY <1>1 DEF TypeOK, HoldType
<1>3. /\ Holding(p) /\ UNCHANGED <<row, resets, overruns>>
      /\ \A q \in Procs \ {p} : pc'[q] = pc[q]
  BY DEF Send, Goto, TypeOK, Holding
<1> QED BY <1>2, <1>3

LEMMA RecordedJob ==
  ASSUME TypeOK, NEW p \in Procs, Record(p)
  PROVE  LET i == held[p].job
             n == held[p].attemptNo
             result == held[p].outcome
         IN  /\ Holding(p) /\ i \in Jobs /\ n \in Nat /\ result \in Outcomes
             /\ row'[i].status = StatusAfter(n, result) /\ row'[i].attempt = n
             /\ row'[i].wait = WaitAfter(n, result) /\ row'[i].claim = 0
             /\ \A j \in Jobs \ {i} : row'[j] = row[j]
             /\ pc'[p] \notin {"send", "record"}
             /\ \A q \in Procs \ {p} : pc'[q] = pc[q] /\ held'[q] = held[q]
             /\ UNCHANGED <<resets, overruns>>
<1> DEFINE i == held[p].job
           n == held[p].attemptNo
           result == held[p].outcome
<1>1. Holding(p) /\ i \in Jobs /\ n \in Nat /\ result \in Outcomes
  BY DEF Record, TypeOK, HoldType, Holding
<1>2. /\ row'[i].status = StatusAfter(n, result) /\ row'[i].attempt = n
      /\ row'[i].wait = WaitAfter(n, result) /\ row'[i].claim = 0
      /\ \A j \in Jobs \ {i} : row'[j] = row[j]
  BY <1>1 DEF Record, TypeOK
<1>3. /\ pc'[p] \notin {"send", "record"}
      /\ \A q \in Procs \ {p} : pc'[q] = pc[q] /\ held'[q] = held[q]
      /\ UNCHANGED <<resets, overruns>>
  BY DEF Record, Goto, TypeOK
<1> QED BY <1>1, <1>2, <1>3

LEMMA TickedTimes ==
  ASSUME TypeOK, Tick
  PROVE  /\ \A j \in Jobs :
              /\ row[j] \in RowType
              /\ row'[j].status = row[j].status /\ row'[j].attempt = row[j].attempt
              /\ row'[j].event = row[j].event
              /\ row'[j].wait = Elapse(row[j].wait)
              /\ row'[j].claim = Elapse(row[j].claim)
         /\ \A p \in Procs :
              /\ held'[p].job = held[p].job /\ held'[p].attemptNo = held[p].attemptNo
              /\ held'[p].lease = Elapse(held[p].lease)
         /\ pc' = pc /\ resets' = resets
         /\ \/ overruns' = overruns /\ \A p \in Procs : ~RunsOut(p)
            \/ overruns' = overruns + 1
<1>1. ASSUME NEW j \in Jobs
      PROVE  /\ row[j] \in RowType
             /\ row'[j] = [row[j] EXCEPT !.wait = Elapse(@), !.claim = Elapse(@)]
  BY DEF Tick, TypeOK
<1>2. ASSUME NEW j \in Jobs
      PROVE  /\ row'[j].status = row[j].status /\ row'[j].attempt = row[j].attempt
             /\ row'[j].event = row[j].event
             /\ row'[j].wait = Elapse(row[j].wait)
             /\ row'[j].claim = Elapse(row[j].claim)
  BY <1>1 DEF RowType
<1>3. ASSUME NEW p \in Procs
      PROVE  /\ held[p] \in HoldType
             /\ held'[p] = [held[p] EXCEPT !.lease = Elapse(@)]
  BY DEF Tick, TypeOK
<1>4. ASSUME NEW p \in Procs
      PROVE  /\ held'[p].job = held[p].job /\ held'[p].attemptNo = held[p].attemptNo
             /\ held'[p].lease = Elapse(held[p].lease)
  BY <1>3 DEF HoldType
<1>5. /\ pc' = pc /\ resets' = resets
      /\ \/ overruns' = overruns /\ \A p \in Procs : ~RunsOut(p)
         \/ overruns' = overruns + 1
  BY DEF Tick
<1> QED BY <1>1, <1>2, <1>4, <1>5

(* The two halves of RetryPolicyRespected: a row and a holder.             *)
RowInPolicy(r) ==
  /\ r.attempt <= MaxAttempts
  /\ r.status = "failed" => r.attempt < MaxAttempts /\ r.wait # Never
  /\ r.status \in Terminal => r.wait = Never /\ r.claim = 0

HolderInPolicy(p) == Holding(p) => held[p].attemptNo <= MaxAttempts

PolicyKept == /\ \A j \in Jobs : RowInPolicy(row[j])
              /\ \A p \in Procs : HolderInPolicy(p)

LEMMA PolicyHalves == RetryPolicyRespected <=> PolicyKept
BY DEF RetryPolicyRespected, PolicyKept, RowInPolicy, HolderInPolicy

(* However the runners, handlers, faults and clocks interleave, every row  *)
(* and every holder stays within the retry policy.                         *)
THEOREM RetryPolicyHolds == Spec => []RetryPolicyRespected
<1>1. Init => RetryPolicyRespected
  BY MaxAttemptsType
  DEF Init, RetryPolicyRespected, AbsentRow, NoHold, Terminal, Holding
<1>2. TypeOK /\ RetryPolicyRespected /\ [Next]_vars => RetryPolicyRespected'
  <2> SUFFICES ASSUME TypeOK, [Next]_vars,
                      \A j \in Jobs : RowInPolicy(row[j]),
                      \A p \in Procs : HolderInPolicy(p)
               PROVE  PolicyKept'
    <3>1. RetryPolicyRespected => /\ \A j \in Jobs : RowInPolicy(row[j])
                                  /\ \A p \in Procs : HolderInPolicy(p)
      BY PolicyHalves DEF PolicyKept
    <3>2. PolicyKept' => RetryPolicyRespected'
      BY DEF RetryPolicyRespected, PolicyKept, RowInPolicy, HolderInPolicy, Holding
    <3> QED BY <3>1, <3>2
  <2>1. CASE Idle
    BY <2>1 DEF Idle, PolicyKept, HolderInPolicy, Holding
  <2>2. ASSUME NEW p \in Procs, Quiet(p) PROVE PolicyKept'
    BY <2>2 DEF Quiet, PolicyKept, HolderInPolicy, Holding
  <2>3. ASSUME NEW h \in Handlers, AppendJob(h) PROVE PolicyKept'
    BY <2>3, AppendedRow, MaxAttemptsType
    DEF PolicyKept, RowInPolicy, HolderInPolicy, Holding, Terminal, Procs
  <2>4. ASSUME NEW h \in Handlers, ResetJob(h) PROVE PolicyKept'
    BY <2>4, ResetRow
    DEF PolicyKept, RowInPolicy, HolderInPolicy, Holding, Terminal, Procs
  <2>5. ASSUME NEW p \in Procs, NEW j \in Jobs, Claim(p, j) PROVE PolicyKept'
    <3>1. RowInPolicy(row'[j])
      BY <2>5, ClaimedRow, NeverAssumption DEF RowInPolicy, Terminal
    <3>2. held'[p].attemptNo <= MaxAttempts
      <4>1. row[j].attempt \in Nat
        BY DEF TypeOK, RowType
      <4> QED BY <2>5, <4>1, ClaimedRow, MaxAttemptsType DEF RowInPolicy
    <3> QED BY <2>5, <3>1, <3>2, ClaimedRow
            DEF PolicyKept, HolderInPolicy, Holding
  <2>6. ASSUME NEW p \in Procs, Send(p) PROVE PolicyKept'
    BY <2>6, SentHold DEF PolicyKept, HolderInPolicy, Holding
  <2>7. ASSUME NEW p \in Procs, Record(p) PROVE PolicyKept'
    <3> DEFINE i == held[p].job
               n == held[p].attemptNo
               result == held[p].outcome
    <3>1. /\ i \in Jobs /\ n \in Nat /\ result \in Outcomes /\ n <= MaxAttempts
          /\ row'[i].status = StatusAfter(n, result) /\ row'[i].attempt = n
          /\ row'[i].wait = WaitAfter(n, result) /\ row'[i].claim = 0
      BY <2>7, RecordedJob DEF HolderInPolicy
    <3>2. RowInPolicy(row'[i])
      BY <3>1, RecordedRow DEF RowInPolicy, Terminal
    <3> QED BY <2>7, <3>2, RecordedJob DEF PolicyKept, HolderInPolicy, Holding
  <2>8. CASE Tick
    <3>1. ASSUME NEW j \in Jobs PROVE RowInPolicy(row'[j])
      <4>1. row[j].wait # Never => Elapse(row[j].wait) # Never
        <5>1. row[j].wait \in Nat \cup {Never}
          BY <2>8, TickedTimes DEF RowType
        <5> QED BY <5>1, NeverAssumption DEF Elapse
      <4>2. Elapse(0) = 0 /\ Elapse(Never) = Never
        BY DEF Elapse
      <4> QED BY <2>8, <4>1, <4>2, TickedTimes DEF RowInPolicy
    <3> QED BY <2>8, <3>1, TickedTimes DEF PolicyKept, HolderInPolicy, Holding
  <2> QED BY <2>1, <2>2, <2>3, <2>4, <2>5, <2>6, <2>7, <2>8, StepKinds
<1> QED BY <1>1, <1>2, TypeCorrect, PTL DEF Spec

-----------------------------------------------------------------------------
(* A holder's unexpired lease shows in the row: as the claim it took or a  *)
(* successor took after it, or, once a late holder has written the row, as *)
(* a backoff that is at least as long.                                     *)
LeaseCovered(p) ==
  Holding(p) /\ held[p].lease > 0 =>
    LET r == row[held[p].job]
    IN  /\ r.status # "absent"
        /\ \/ r.claim >= held[p].lease
           \/ r.wait = Never
           \/ r.wait \in Nat /\ r.wait >= held[p].lease

Exclusive(p, q) ==
  /\ Holding(p) /\ Holding(q) /\ held[p].job = held[q].job
  /\ held[p].lease > 0 /\ held[q].lease > 0
  => p = q

LeaseInv == DelaysCoverLease /\ resets = 0 =>
              /\ \A p \in Procs : LeaseCovered(p)
              /\ \A p, q \in Procs : Exclusive(p, q)

(* Two runners never both have an unexpired lease on a job, whatever late  *)
(* holders write, unless a handler re-arms it or a backoff is shorter than *)
(* a lease.                                                                *)
THEOREM LeasesExclude == Spec => []LeaseExclusive
<1>1. Init => LeaseInv
  BY DEF Init, LeaseInv, LeaseCovered, Exclusive, Holding
<1>2. TypeOK /\ LeaseInv /\ [Next]_vars => LeaseInv'
  <2> SUFFICES ASSUME TypeOK, LeaseInv, [Next]_vars PROVE LeaseInv'
    OBVIOUS
  <2>0. \A p \in Procs : /\ held[p].lease \in 0..Lease
                         /\ Holding(p) => held[p].job \in Jobs
    BY DEF TypeOK, HoldType, Holding
  <2>1. CASE Idle
    BY <2>1 DEF Idle, LeaseInv, LeaseCovered, Exclusive, Holding
  <2>2. ASSUME NEW p \in Procs, Quiet(p) PROVE LeaseInv'
    BY <2>2 DEF Quiet, LeaseInv, LeaseCovered, Exclusive, Holding
  <2>3. ASSUME NEW h \in Handlers, AppendJob(h) PROVE LeaseInv'
    BY <2>0, <2>3, AppendedRow
    DEF LeaseInv, LeaseCovered, Exclusive, Holding, Procs
  <2>4. ASSUME NEW h \in Handlers, ResetJob(h) PROVE LeaseInv'
    BY <2>4, ResetRow DEF LeaseInv, TypeOK
  <2>5. ASSUME NEW p \in Procs, NEW j \in Jobs, Claim(p, j) PROVE LeaseInv'
    <3> SUFFICES ASSUME DelaysCoverLease, resets = 0,
                        \A q \in Procs : LeaseCovered(q),
                        \A q, r \in Procs : Exclusive(q, r)
                 PROVE  /\ \A q \in Procs : LeaseCovered(q)'
                        /\ \A q, r \in Procs : Exclusive(q, r)'
      BY <2>5, ClaimedRow DEF LeaseInv
    <3>1. \A q \in Procs : Holding(q) /\ held[q].job = j => held[q].lease = 0
      BY <2>0, <2>5, ClaimedRow, NeverAssumption, NumbersAssumption
      DEF LeaseCovered
    <3>2. ASSUME NEW q \in Procs PROVE LeaseCovered(q)'
      BY <2>0, <2>5, <3>1, ClaimedRow, NumbersAssumption
      DEF LeaseCovered, Holding
    <3>3. ASSUME NEW q \in Procs, NEW r \in Procs PROVE Exclusive(q, r)'
      BY <2>0, <2>5, <3>1, ClaimedRow DEF Exclusive, Holding
    <3> QED BY <3>2, <3>3
  <2>6. ASSUME NEW p \in Procs, Send(p) PROVE LeaseInv'
    BY <2>6, SentHold DEF LeaseInv, LeaseCovered, Exclusive, Holding
  <2>7. ASSUME NEW p \in Procs, Record(p) PROVE LeaseInv'
    <3> DEFINE i == held[p].job
               n == held[p].attemptNo
               result == held[p].outcome
    <3> SUFFICES ASSUME DelaysCoverLease, resets = 0,
                        \A q \in Procs : LeaseCovered(q),
                        \A q, r \in Procs : Exclusive(q, r)
                 PROVE  /\ \A q \in Procs : LeaseCovered(q)'
                        /\ \A q, r \in Procs : Exclusive(q, r)'
      BY <2>7, RecordedJob DEF LeaseInv
    <3>1. /\ i \in Jobs /\ row'[i].status # "absent"
          /\ \/ row'[i].wait = Never
             \/ row'[i].wait \in Nat /\ row'[i].wait >= Lease
      BY <2>7, RecordedJob, RecordedRow, ScheduleAssumption DEF DelaysCoverLease
    <3>2. ASSUME NEW q \in Procs PROVE LeaseCovered(q)'
      BY <2>0, <2>7, <3>1, RecordedJob, NumbersAssumption
      DEF LeaseCovered, Holding
    <3>3. ASSUME NEW q \in Procs, NEW r \in Procs PROVE Exclusive(q, r)'
      BY <2>7, RecordedJob DEF Exclusive, Holding
    <3> QED BY <3>2, <3>3
  <2>8. CASE Tick
    <3> SUFFICES ASSUME DelaysCoverLease, resets = 0,
                        \A q \in Procs : LeaseCovered(q),
                        \A q, r \in Procs : Exclusive(q, r)
                 PROVE  /\ \A q \in Procs : LeaseCovered(q)'
                        /\ \A q, r \in Procs : Exclusive(q, r)'
      BY <2>8, TickedTimes DEF LeaseInv
    <3>1. \A t \in Nat : Elapse(t) = IF t = 0 THEN 0 ELSE t - 1
      BY NeverAssumption DEF Elapse
    <3>2. ASSUME NEW q \in Procs, Holding(q)', held'[q].lease > 0
          PROVE  /\ Holding(q) /\ held[q].lease > 0
                 /\ held'[q].lease = held[q].lease - 1
                 /\ held'[q].job = held[q].job
      BY <2>0, <2>8, <3>1, <3>2, TickedTimes, NumbersAssumption DEF Holding
    <3>3. ASSUME NEW q \in Procs, Holding(q)', held'[q].lease > 0
          PROVE  LeaseCovered(q)'
      <4> DEFINE r == row[held[q].job]
                 s == row'[held[q].job]
      <4>1. /\ held[q].job \in Jobs /\ r.claim \in Nat
            /\ s.status = r.status /\ s.claim = Elapse(r.claim)
            /\ s.wait = Elapse(r.wait)
        BY <2>0, <2>8, <3>2, <3>3, TickedTimes, NumbersAssumption DEF RowType
      <4>2. CASE r.claim >= held[q].lease
        BY <2>0, <3>1, <3>2, <3>3, <4>1, <4>2, NumbersAssumption
        DEF LeaseCovered
      <4>3. CASE r.wait = Never
        BY <3>2, <3>3, <4>1, <4>3 DEF LeaseCovered, Elapse
      <4>4. CASE r.wait \in Nat /\ r.wait >= held[q].lease
        BY <2>0, <3>1, <3>2, <3>3, <4>1, <4>4, NumbersAssumption
        DEF LeaseCovered
      <4> QED BY <3>2, <3>3, <4>2, <4>3, <4>4 DEF LeaseCovered
    <3>4. ASSUME NEW q \in Procs PROVE LeaseCovered(q)'
      BY <3>3 DEF LeaseCovered
    <3>5. ASSUME NEW q \in Procs, NEW r \in Procs PROVE Exclusive(q, r)'
      BY <3>2 DEF Exclusive
    <3> QED BY <3>4, <3>5
  <2> QED BY <2>1, <2>2, <2>3, <2>4, <2>5, <2>6, <2>7, <2>8, StepKinds
<1>3. LeaseInv => LeaseExclusive
  BY DEF LeaseInv, LeaseExclusive, Exclusive, Holds
<1> QED BY <1>1, <1>2, <1>3, TypeCorrect, PTL DEF Spec

-----------------------------------------------------------------------------
(* Undisturbed, a holder owns its row: the row carries its claim, is still *)
(* open, and counts no attempt beyond the holder's; and nobody else holds  *)
(* the job.                                                                *)
HolderOwns(p) ==
  Holding(p) =>
    LET r == row[held[p].job]
    IN  /\ held[p].lease > 0 /\ r.claim = held[p].lease
        /\ r.status \in {"pending", "failed"}
        /\ held[p].attemptNo >= r.attempt

Alone(p, q) ==
  Holding(p) /\ Holding(q) /\ held[p].job = held[q].job => p = q

SoleHolder == resets = 0 /\ overruns = 0 =>
                /\ \A p \in Procs : HolderOwns(p)
                /\ \A p, q \in Procs : Alone(p, q)

LEMMA SoleHolderHolds == Spec => []SoleHolder
<1>1. Init => SoleHolder
  BY DEF Init, SoleHolder, HolderOwns, Alone, Holding
<1>2. TypeOK /\ SoleHolder /\ [Next]_vars => SoleHolder'
  <2> SUFFICES ASSUME TypeOK, SoleHolder, [Next]_vars PROVE SoleHolder'
    OBVIOUS
  <2>0. \A p \in Procs : /\ held[p].lease \in 0..Lease
                         /\ Holding(p) => held[p].job \in Jobs
    BY DEF TypeOK, HoldType, Holding
  <2>1. CASE Idle
    BY <2>1 DEF Idle, SoleHolder, HolderOwns, Alone, Holding
  <2>2. ASSUME NEW p \in Procs, Quiet(p) PROVE SoleHolder'
    BY <2>2 DEF Quiet, SoleHolder, HolderOwns, Alone, Holding
  <2>3. ASSUME NEW h \in Handlers, AppendJob(h) PROVE SoleHolder'
    BY <2>0, <2>3, AppendedRow
    DEF SoleHolder, HolderOwns, Alone, Holding, Procs
  <2>4. ASSUME NEW h \in Handlers, ResetJob(h) PROVE SoleHolder'
    BY <2>4, ResetRow DEF SoleHolder, TypeOK
  <2>5. ASSUME NEW p \in Procs, NEW j \in Jobs, Claim(p, j) PROVE SoleHolder'
    <3> SUFFICES ASSUME resets = 0, overruns = 0,
                        \A q \in Procs : HolderOwns(q),
                        \A q, r \in Procs : Alone(q, r)
                 PROVE  /\ \A q \in Procs : HolderOwns(q)'
                        /\ \A q, r \in Procs : Alone(q, r)'
      BY <2>5, ClaimedRow DEF SoleHolder
    <3>1. \A q \in Procs : Holding(q) => held[q].job # j
      BY <2>5, ClaimedRow DEF HolderOwns
    <3>2. row[j].attempt \in Nat
      BY DEF TypeOK, RowType
    <3>3. ASSUME NEW q \in Procs PROVE HolderOwns(q)'
      BY <2>0, <2>5, <3>1, <3>2, ClaimedRow, NumbersAssumption
      DEF HolderOwns, Holding
    <3>4. ASSUME NEW q \in Procs, NEW r \in Procs PROVE Alone(q, r)'
      BY <2>5, <3>1, ClaimedRow DEF Alone, Holding
    <3> QED BY <3>3, <3>4
  <2>6. ASSUME NEW p \in Procs, Send(p) PROVE SoleHolder'
    BY <2>6, SentHold DEF SoleHolder, HolderOwns, Alone, Holding
  <2>7. ASSUME NEW p \in Procs, Record(p) PROVE SoleHolder'
    BY <2>0, <2>7, RecordedJob DEF SoleHolder, HolderOwns, Alone, Holding
  <2>8. CASE Tick
    <3> SUFFICES ASSUME resets = 0, overruns' = 0,
                        overruns \in Nat
                 PROVE  /\ \A q \in Procs : HolderOwns(q)'
                        /\ \A q, r \in Procs : Alone(q, r)'
      BY <2>8, TickedTimes DEF SoleHolder, TypeOK
    <3>1. /\ overruns = 0 /\ \A p \in Procs : ~RunsOut(p)
          /\ \A q \in Procs : HolderOwns(q)
          /\ \A q, r \in Procs : Alone(q, r)
      BY <2>8, TickedTimes DEF SoleHolder
    <3>2. \A t \in Nat : Elapse(t) = IF t = 0 THEN 0 ELSE t - 1
      BY NeverAssumption DEF Elapse
    <3>3. ASSUME NEW q \in Procs, Holding(q)' PROVE HolderOwns(q)'
      <4>1. /\ Holding(q) /\ held[q].lease > 0 /\ held[q].lease # 1
            /\ held[q].job \in Jobs /\ held[q].lease \in Nat
        BY <2>0, <2>8, <3>1, <3>3, TickedTimes, NumbersAssumption
        DEF HolderOwns, Holding, RunsOut
      <4>2. held'[q].lease = held[q].lease - 1 /\ held[q].lease - 1 > 0
        BY <2>8, <3>2, <4>1, TickedTimes
      <4>3. row'[held[q].job].claim = Elapse(held[q].lease)
        BY <2>8, <3>1, <4>1, TickedTimes DEF HolderOwns
      <4>4. row'[held[q].job].claim = held'[q].lease
        BY <2>8, <4>1, <4>3, TickedTimes
      <4> QED BY <2>8, <3>1, <4>1, <4>2, <4>4, TickedTimes DEF HolderOwns
    <3>4. ASSUME NEW q \in Procs, NEW r \in Procs PROVE Alone(q, r)'
      BY <2>8, <3>1, TickedTimes DEF Alone, Holding
    <3> QED BY <3>3, <3>4 DEF HolderOwns
  <2> QED BY <2>1, <2>2, <2>3, <2>4, <2>5, <2>6, <2>7, <2>8, StepKinds
<1> QED BY <1>1, <1>2, TypeCorrect, PTL DEF Spec

(* Undisturbed by re-arming and overrun leases, no step takes an attempt   *)
(* number back or writes a settled row, whatever crashes and failing       *)
(* statements do.                                                          *)
THEOREM ProgressStands == Spec => ProgressNeverUndone
<1> DEFINE Kept == resets' = 0 /\ overruns = 0 =>
                     \A j \in Jobs :
                       /\ row[j].status # "absent" => row'[j].attempt >= row[j].attempt
                       /\ row[j].status \in Terminal => row'[j] = row[j]
<1>1. TypeOK /\ PolicyKept /\ SoleHolder /\ [Next]_vars => Kept
  <2> SUFFICES ASSUME TypeOK, PolicyKept, SoleHolder, [Next]_vars,
                      resets' = 0, overruns = 0
               PROVE  \A j \in Jobs :
                        /\ row[j].status # "absent" => row'[j].attempt >= row[j].attempt
                        /\ row[j].status \in Terminal => row'[j] = row[j]
    OBVIOUS
  <2>0. \A j \in Jobs : row[j].attempt \in Nat /\ row[j] \in RowType
    BY DEF TypeOK, RowType
  <2>1. CASE row' = row
    BY <2>0, <2>1
  <2>2. ASSUME NEW h \in Handlers, AppendJob(h) PROVE Kept
    BY <2>0, <2>2, AppendedRow DEF Terminal
  <2>3. ASSUME NEW h \in Handlers, ResetJob(h) PROVE FALSE
    BY <2>3, ResetRow DEF TypeOK
  <2>4. ASSUME NEW p \in Procs, NEW i \in Jobs, Claim(p, i) PROVE Kept
    BY <2>0, <2>4, ClaimedRow DEF Terminal
  <2>5. ASSUME NEW p \in Procs, Record(p) PROVE Kept
    <3>1. resets = 0
      BY <2>5, RecordedJob
    <3>2. HolderOwns(p)
      BY <3>1 DEF SoleHolder
    <3> QED BY <2>0, <2>5, <3>2, RecordedJob DEF HolderOwns, Terminal
  <2>6. CASE Tick
    <3>1. ASSUME NEW j \in Jobs, row[j].status \in Terminal
          PROVE  row'[j] = row[j]
      <4>1. row[j].wait = Never /\ row[j].claim = 0
        BY <3>1 DEF PolicyKept, RowInPolicy
      <4>2. Elapse(row[j].wait) = row[j].wait /\ Elapse(row[j].claim) = row[j].claim
        BY <4>1 DEF Elapse
      <4>3. row'[j] = [row[j] EXCEPT !.wait = Elapse(@), !.claim = Elapse(@)]
        BY <2>6 DEF Tick
      <4> QED BY <2>0, <4>2, <4>3 DEF RowType
    <3> QED BY <2>0, <2>6, <3>1, TickedTimes
  <2> QED BY <2>1, <2>2, <2>3, <2>4, <2>5, <2>6, StepKinds, SentHold
          DEF Idle, Quiet
<1>3. RetryPolicyRespected => PolicyKept
  BY PolicyHalves
<1> QED
  BY <1>1, <1>3, TypeCorrect, RetryPolicyHolds, SoleHolderHolds, PTL
  DEF Spec, ProgressNeverUndone

-----------------------------------------------------------------------------
(* A job is reported dead at most once for each time it is armed.          *)

(* Who may still report a job: the processes that hold it, and those that  *)
(* have recorded it dead.                                                  *)
Reporting(j) ==
  {p \in Procs : \/ Holds(p, j)
                 \/ pc[p] = "dead_hook" /\ held[p].job = j
                 \/ /\ pc[p] = "append_timeline" /\ held[p].job = j
                    /\ StatusAfter(held[p].attemptNo, held[p].outcome) = "dead"}

(* The claim of the row is that of a process which still holds the job.    *)
Lent(j) ==
  \E p \in Procs : Holds(p, j) /\ held[p].lease = row[j].claim /\ row[j].claim > 0

(* One when another process may yet take the job.                          *)
Armed(j) == IF row[j].status \in Terminal \/ Lent(j) THEN 0 ELSE 1

Within(reporting, reports, armed, arms) ==
  IsFiniteSet(reporting) /\ reports + Cardinality(reporting) + armed <= 1 + arms

(* The strengthening: the reports of a job, those still to come and the    *)
(* hold its row allows fit into the number of times it was armed.          *)
Accounted(j) == Within(Reporting(j), hooks[j], Armed(j), resets)

HooksInvariant ==
  overruns = 0 => /\ \A j \in Jobs : row[j].status = "absent" => row[j].claim = 0
                  /\ \A j \in Jobs : Accounted(j)

LEMMA ArmedType == \A j : Armed(j) \in {0, 1} /\ (Armed(j))' \in {0, 1}
BY DEF Armed

(* What may happen to the set, the reports and the arming of a job: they   *)
(* shrink; one process leaves; it is armed again; a process takes the hold *)
(* the row allowed; a process reports.                                     *)
LEMMA JobMoves ==
  ASSUME TypeOK, NEW j \in Jobs, Accounted(j), NEW p
  PROVE  /\ /\ resets' = resets /\ hooks'[j] = hooks[j]
            /\ Reporting(j)' \subseteq Reporting(j) /\ (Armed(j))' <= Armed(j)
            => Accounted(j)'
         /\ /\ resets' = resets /\ hooks'[j] = hooks[j]
            /\ Reporting(j)' \subseteq Reporting(j) \ {p} /\ p \in Reporting(j)
            => Accounted(j)'
         /\ /\ resets' = resets + 1 /\ hooks'[j] = hooks[j]
            /\ Reporting(j)' \subseteq Reporting(j)
            => Accounted(j)'
         /\ /\ resets' = resets /\ hooks'[j] = hooks[j]
            /\ Reporting(j)' \subseteq Reporting(j) \cup {p}
            /\ Armed(j) = 1 /\ (Armed(j))' = 0
            => Accounted(j)'
         /\ /\ resets' = resets /\ hooks'[j] = hooks[j] + 1
            /\ Reporting(j)' \subseteq Reporting(j) \ {p} /\ p \in Reporting(j)
            /\ (Armed(j))' <= Armed(j)
            => Accounted(j)'
<1> PICK S, T, a, b, n, r : /\ S = Reporting(j) /\ T = Reporting(j)'
                            /\ a = Armed(j) /\ b = (Armed(j))'
                            /\ n = hooks[j] /\ r = resets
  OBVIOUS
<1>1. n \in Nat /\ r \in Nat /\ a \in {0, 1} /\ b \in {0, 1} /\ Within(S, n, a, r)
  BY ArmedType DEF TypeOK, Accounted
<1>2. Accounted(j)' <=> Within(T, hooks'[j], b, resets')
  BY DEF Accounted
<1>3. IsFiniteSet(S) /\ Cardinality(S) \in Nat /\ n + Cardinality(S) + a <= 1 + r
  BY <1>1, FS_CardinalityType DEF Within
<1>a. T \subseteq S => /\ IsFiniteSet(T) /\ Cardinality(T) \in Nat
                       /\ Cardinality(T) <= Cardinality(S)
  BY <1>3, FS_Subset, FS_CardinalityType
<1>b. T \subseteq S \ {p} /\ p \in S => /\ IsFiniteSet(T) /\ Cardinality(T) \in Nat
                                        /\ Cardinality(T) <= Cardinality(S) - 1
  <2>1. IsFiniteSet(S \ {p}) /\ (p \in S => Cardinality(S \ {p}) = Cardinality(S) - 1)
    BY <1>3, FS_RemoveElement
  <2> QED BY <2>1, FS_Subset, FS_CardinalityType
<1>c. T \subseteq S \cup {p} => /\ IsFiniteSet(T) /\ Cardinality(T) \in Nat
                                /\ Cardinality(T) <= Cardinality(S) + 1
  <2> DEFINE U == S \cup {p}
  <2>1. IsFiniteSet(U) /\ (Cardinality(U) = Cardinality(S) \/ Cardinality(U) = Cardinality(S) + 1)
    BY <1>3, FS_AddElement
  <2> HIDE DEF U
  <2>2. T \subseteq U => /\ IsFiniteSet(T) /\ Cardinality(T) \in Nat
                         /\ Cardinality(T) <= Cardinality(U)
    BY <2>1, FS_Subset, FS_CardinalityType
  <2> QED BY <1>3, <2>1, <2>2 DEF U
<1>4. ASSUME resets' = resets, hooks'[j] = n, T \subseteq S, b <= a PROVE Accounted(j)'
  BY <1>1, <1>2, <1>3, <1>a, <1>4 DEF Within
<1>5. ASSUME resets' = resets, hooks'[j] = n, T \subseteq S \ {p}, p \in S PROVE Accounted(j)'
  BY <1>1, <1>2, <1>3, <1>b, <1>5 DEF Within
<1>6. ASSUME resets' = resets + 1, hooks'[j] = n, T \subseteq S PROVE Accounted(j)'
  BY <1>1, <1>2, <1>3, <1>a, <1>6 DEF Within
<1>7. ASSUME resets' = resets, hooks'[j] = n, T \subseteq S \cup {p}, a = 1, b = 0
      PROVE  Accounted(j)'
  BY <1>1, <1>2, <1>3, <1>c, <1>7 DEF Within
<1>8. ASSUME resets' = resets, hooks'[j] = n + 1, T \subseteq S \ {p}, p \in S, b <= a
      PROVE  Accounted(j)'
  BY <1>1, <1>2, <1>3, <1>b, <1>8 DEF Within
<1> QED BY <1>4, <1>5, <1>6, <1>7, <1>8

(* A process that stops working on its job, or was not working on one: it  *)
(* leaves a timeline row unwritten only by a fault.                        *)
Leaves(p) ==
  /\ UNCHANGED <<row, resets, overruns, hooks, timeline>>
  /\ \/ faults' = faults /\ pc[p] # "append_timeline"
     \/ faults' = faults + 1
  /\ pc'[p] \notin {"send", "record", "append_timeline", "dead_hook"}
  /\ \A q \in Procs \ {p} : pc'[q] = pc[q] /\ held'[q] = held[q]

LEMMA HookSteps ==
  ASSUME TypeOK, [Next]_vars
  PROVE  \/ UNCHANGED <<row, pc, held, resets, overruns, hooks, timeline, faults>>
         \/ \E p \in Procs : Leaves(p)
         \/ \E h \in Handlers : AppendJob(h)
         \/ \E h \in Handlers : ResetJob(h)
         \/ \E p \in Procs, j \in Jobs : Claim(p, j)
         \/ \E p \in Procs : Send(p)
         \/ \E p \in Procs : Record(p)
         \/ \E p \in Procs : AppendTimeline(p)
         \/ \E p \in Procs : NotifyDead(p)
         \/ Tick
<1>0. Handlers \subseteq Procs /\ Workers \subseteq Procs
  BY DEF Procs
<1>1. ASSUME NEW h \in Handlers, EmitStep(h) \/ FindStep(h) PROVE Leaves(h)
  BY <1>0, <1>1
  DEF EmitStep, FindStep, EmitStart, ReplayStart, AppendEvent, FindJob,
      FindReplayable, Goto, TypeOK, Leaves
<1>2. ASSUME NEW w \in Workers, ListDue(w) PROVE Leaves(w)
  BY <1>0, <1>2 DEF ListDue, Goto, TypeOK, Leaves
<1>3. ASSUME NEW p \in Procs, Return(p) \/ StatementFails(p) \/ Crash(p) PROVE Leaves(p)
  BY <1>3 DEF Return, StatementFails, Crash, Goto, TypeOK, Leaves
<1>4. ASSUME NEW p \in Procs, NEW j \in Jobs, PassOver(p, j)
      PROVE  UNCHANGED <<row, pc, held, resets, overruns, hooks, timeline, faults>>
  BY <1>4 DEF PassOver
<1>5. CASE UNCHANGED vars
  BY <1>5 DEF vars
<1>6. CASE \E h \in Handlers : EmitStep(h) \/ FindStep(h) \/ ArmStep(h)
  BY <1>0, <1>1, <1>6 DEF ArmStep
<1>7. CASE \E w \in Workers : ListDue(w)
  BY <1>0, <1>2, <1>7
<1>8. CASE \E p \in Procs : DeliverStep(p)
  BY <1>3, <1>4, <1>8 DEF DeliverStep
<1>9. CASE \E p \in Procs : StatementFails(p) \/ Crash(p)
  BY <1>3, <1>9
<1> QED BY <1>5, <1>6, <1>7, <1>8, <1>9 DEF Next

LEMMA HooksInvariantInductive ==
  ASSUME TypeOK, HooksInvariant, [Next]_vars
  PROVE  HooksInvariant'
<1> SUFFICES ASSUME overruns' = 0 PROVE HooksInvariant'
  BY DEF HooksInvariant
<1>t. /\ resets \in Nat /\ \A j \in Jobs : hooks[j] \in Nat /\ row[j] \in RowType
      /\ \A p \in Procs : /\ held[p] \in HoldType
                          /\ Holding(p) => held[p].job \in Jobs
  BY DEF TypeOK, Holding
<1>o. overruns = 0
  <2>1. overruns \in Nat /\ (overruns' = overruns \/ overruns' = overruns + 1)
    <3>1. CASE Tick
      BY <3>1 DEF Tick, TypeOK
    <3>2. CASE \E p \in Procs : AppendTimeline(p) \/ NotifyDead(p)
      BY <3>2 DEF AppendTimeline, NotifyDead, TypeOK
    <3> QED BY <3>1, <3>2, HookSteps, AppendedRow, ResetRow, ClaimedRow, SentHold, RecordedJob
            DEF Leaves, TypeOK
  <2> QED BY <2>1
<1>b. /\ \A j \in Jobs : row[j].status = "absent" => row[j].claim = 0
      /\ \A j \in Jobs : Accounted(j)
  BY <1>o DEF HooksInvariant
<1>s. ASSUME /\ resets' = resets
             /\ \A j \in Jobs : row'[j].status = "absent" => row'[j].claim = 0,
             \A j \in Jobs : /\ hooks'[j] = hooks[j] /\ Reporting(j)' \subseteq Reporting(j)
                             /\ (Armed(j))' <= Armed(j)
      PROVE  HooksInvariant'
  BY <1>s, <1>t, <1>b, ArmedType, JobMoves DEF HooksInvariant
<1>1. CASE UNCHANGED <<row, pc, held, resets, overruns, hooks, timeline, faults>>
  <2>1. \A j \in Jobs : Reporting(j)' = Reporting(j) /\ (Armed(j))' = Armed(j)
    BY <1>1 DEF Reporting, Armed, Lent, Holds, Holding
  <2> QED BY <1>1, <1>b, <1>s, <2>1, ArmedType
<1>2. ASSUME NEW p \in Procs, Leaves(p) PROVE HooksInvariant'
  <2>1. ASSUME NEW j \in Jobs PROVE Accounted(j)'
    <3>1. Reporting(j)' \subseteq Reporting(j) \ {p}
      BY <1>2 DEF Leaves, Reporting, Holds, Holding
    <3>2. CASE p \in Reporting(j)
      BY <1>2, <1>t, <1>b, <3>1, <3>2, ArmedType, JobMoves DEF Leaves
    <3>3. CASE p \notin Reporting(j)
      <4>1. Lent(j) => Lent(j)'
        BY <1>2, <3>3 DEF Leaves, Lent, Reporting, Holds, Holding
      <4>2. (Armed(j))' <= Armed(j)
        BY <1>2, <4>1 DEF Leaves, Armed
      <4> QED BY <1>2, <1>t, <1>b, <3>1, <4>2, ArmedType, JobMoves DEF Leaves
    <3> QED BY <3>2, <3>3
  <2> QED BY <1>2, <1>b, <2>1 DEF Leaves, HooksInvariant
<1>3. ASSUME NEW h \in Handlers, AppendJob(h) PROVE HooksInvariant'
  <2>1. PICK i \in Jobs : /\ row[i].status = "absent" /\ row'[i].status = "pending"
                          /\ \A j \in Jobs \ {i} : row'[j] = row[j]
    BY <1>3, AppendedRow
  <2>2. /\ UNCHANGED <<held, resets, hooks>> /\ h \in Procs
        /\ pc[h] = "append_job" /\ pc'[h] = "process"
        /\ \A q \in Procs \ {h} : pc'[q] = pc[q]
    BY <1>3 DEF AppendJob, Goto, TypeOK, Procs
  <2>3. ASSUME NEW j \in Jobs PROVE Reporting(j)' = Reporting(j)
    BY <2>2 DEF Reporting, Holds, Holding
  <2>4. ASSUME NEW j \in Jobs PROVE (Armed(j))' <= Armed(j)
    <3>1. CASE j = i
      <4>1. Armed(i) = 1
        BY <2>1, <1>b DEF Armed, Lent, Terminal
      <4> QED BY <3>1, <4>1, ArmedType
    <3>2. CASE j # i
      BY <2>1, <2>2, <3>2 DEF Armed, Lent, Holds, Holding
    <3> QED BY <3>1, <3>2
  <2> QED BY <1>b, <1>s, <2>1, <2>2, <2>3, <2>4
<1>4. ASSUME NEW h \in Handlers, ResetJob(h) PROVE HooksInvariant'
  <2>1. PICK i \in Jobs : /\ row'[i].status = "pending"
                          /\ \A j \in Jobs \ {i} : row'[j] = row[j]
    BY <1>4, ResetRow
  <2>2. /\ UNCHANGED <<held, hooks>> /\ h \in Procs /\ resets' = resets + 1
        /\ pc[h] = "reset_job" /\ pc'[h] = "process"
        /\ \A q \in Procs \ {h} : pc'[q] = pc[q]
    BY <1>4 DEF ResetJob, Goto, TypeOK, Procs
  <2>3. ASSUME NEW j \in Jobs PROVE Accounted(j)'
    <3>1. Reporting(j)' = Reporting(j)
      BY <2>2 DEF Reporting, Holds, Holding
    <3> QED BY <1>t, <1>b, <2>2, <3>1, ArmedType, JobMoves
  <2> QED BY <1>b, <2>1, <2>3 DEF HooksInvariant
<1>5. ASSUME NEW p \in Procs, NEW i \in Jobs, Claim(p, i) PROVE HooksInvariant'
  <2>1. /\ pc[p] = "process" /\ pc'[p] = "send" /\ UNCHANGED <<hooks, resets>>
        /\ \A q \in Procs \ {p} : pc'[q] = pc[q] /\ held'[q] = held[q]
        /\ \A j \in Jobs \ {i} : row'[j] = row[j]
        /\ held'[p].job = i
    BY <1>5, ClaimedRow DEF Claim, Goto, TypeOK
  <2>2. /\ held'[p].lease = Lease /\ row'[i].claim = Lease /\ Lease > 0
        /\ row[i].status \in {"pending", "failed"} /\ row[i].claim = 0
        /\ row'[i].status = row[i].status
    BY <1>5, ClaimedRow, NumbersAssumption
  <2>3. Accounted(i)'
    <3>1. Armed(i) = 1
      BY <2>2 DEF Armed, Lent, Terminal
    <3>2. (Armed(i))' = 0
      BY <2>1, <2>2 DEF Armed, Lent, Holds, Holding
    <3>3. Reporting(i)' \subseteq Reporting(i) \cup {p}
      BY <2>1 DEF Reporting, Holds, Holding
    <3> QED BY <1>t, <1>b, <2>1, <3>1, <3>2, <3>3, ArmedType, JobMoves
  <2>4. ASSUME NEW j \in Jobs \ {i}
        PROVE  Accounted(j)'
    <3>1. Reporting(j)' \subseteq Reporting(j)
      BY <2>1 DEF Reporting, Holds, Holding
    <3>2. Lent(j) => Lent(j)'
      BY <2>1 DEF Lent, Holds, Holding
    <3>3. (Armed(j))' <= Armed(j)
      BY <2>1, <3>2 DEF Armed
    <3> QED BY <1>t, <1>b, <2>1, <3>1, <3>3, ArmedType, JobMoves
  <2>5. \A j \in Jobs : row'[j].status = "absent" => row'[j].claim = 0
    BY <1>b, <2>1, <2>2
  <2> QED BY <2>3, <2>4, <2>5 DEF HooksInvariant
<1>6. ASSUME NEW p \in Procs, Send(p) PROVE HooksInvariant'
  <2>1. /\ pc[p] = "send" /\ pc'[p] = "record" /\ UNCHANGED <<hooks, resets, row>>
        /\ held'[p].job = held[p].job /\ held'[p].lease = held[p].lease
        /\ \A q \in Procs \ {p} : pc'[q] = pc[q] /\ held'[q] = held[q]
    BY <1>6, SentHold DEF Send, Goto, TypeOK
  <2>2. ASSUME NEW j \in Jobs PROVE Reporting(j)' \subseteq Reporting(j)
    BY <2>1 DEF Reporting, Holds, Holding
  <2>3. ASSUME NEW j \in Jobs PROVE (Armed(j))' <= Armed(j)
    <3>1. Lent(j) => Lent(j)'
      BY <2>1 DEF Lent, Holds, Holding
    <3> QED BY <2>1, <3>1 DEF Armed
  <2> QED BY <1>b, <1>s, <2>1, <2>2, <2>3
<1>7. ASSUME NEW p \in Procs, Record(p) PROVE HooksInvariant'
  <2> PICK i, outcome : /\ i = held[p].job
                        /\ outcome = StatusAfter(held[p].attemptNo, held[p].outcome)
    OBVIOUS
  <2>1. /\ pc[p] = "record" /\ pc'[p] = "append_timeline" /\ UNCHANGED <<hooks, resets>>
        /\ held'[p].job = i /\ held'[p].attemptNo = held[p].attemptNo
        /\ held'[p].outcome = held[p].outcome
        /\ \A q \in Procs \ {p} : pc'[q] = pc[q] /\ held'[q] = held[q]
    BY <1>7, <1>t DEF Record, Goto, TypeOK, HoldType
  <2>2. /\ i \in Jobs /\ row'[i].status = outcome /\ row'[i].claim = 0
        /\ \A j \in Jobs \ {i} : row'[j] = row[j]
    BY <1>7, RecordedJob
  <2>3. p \in Reporting(i)
    BY <2>1 DEF Reporting, Holds, Holding
  <2>4. Accounted(i)'
    <3>1. CASE outcome = "dead"
      <4>1. Reporting(i)' \subseteq Reporting(i)
        BY <2>1, <2>3 DEF Reporting, Holds, Holding
      <4>2. (Armed(i))' = 0
        BY <2>2, <3>1 DEF Armed, Terminal
      <4> QED BY <1>t, <1>b, <2>1, <2>2, <4>1, <4>2, ArmedType, JobMoves
    <3>2. CASE outcome # "dead"
      <4>1. Reporting(i)' \subseteq Reporting(i) \ {p}
        BY <2>1, <3>2 DEF Reporting, Holds, Holding
      <4> QED BY <1>t, <1>b, <2>1, <2>2, <2>3, <4>1, ArmedType, JobMoves
    <3> QED BY <3>1, <3>2
  <2>5. ASSUME NEW j \in Jobs \ {i}
        PROVE  Accounted(j)'
    <3>1. Reporting(j)' \subseteq Reporting(j)
      BY <2>1 DEF Reporting, Holds, Holding
    <3>2. Lent(j) => Lent(j)'
      BY <2>1, <2>2 DEF Lent, Holds, Holding
    <3>3. (Armed(j))' <= Armed(j)
      BY <2>2, <3>2 DEF Armed
    <3> QED BY <1>t, <1>b, <2>1, <3>1, <3>3, ArmedType, JobMoves
  <2>6. \A j \in Jobs : row'[j].status = "absent" => row'[j].claim = 0
    BY <1>b, <2>2
  <2> QED BY <2>2, <2>4, <2>5, <2>6 DEF HooksInvariant
<1>8. ASSUME NEW p \in Procs, AppendTimeline(p) PROVE HooksInvariant'
  <2>1. /\ pc[p] = "append_timeline" /\ UNCHANGED <<row, hooks, resets>>
        /\ \A q \in Procs \ {p} : pc'[q] = pc[q] /\ held'[q] = held[q]
        /\ \/ pc'[p] = "process"
           \/ /\ pc'[p] = "dead_hook" /\ held' = held
              /\ StatusAfter(held[p].attemptNo, held[p].outcome) = "dead"
    BY <1>8 DEF AppendTimeline, Goto, TypeOK
  <2>2. ASSUME NEW j \in Jobs PROVE Reporting(j)' \subseteq Reporting(j)
    BY <2>1 DEF Reporting, Holds, Holding
  <2>3. ASSUME NEW j \in Jobs PROVE (Armed(j))' <= Armed(j)
    <3>1. Lent(j) => Lent(j)'
      BY <2>1 DEF Lent, Holds, Holding
    <3> QED BY <2>1, <3>1 DEF Armed
  <2> QED BY <1>b, <1>s, <2>1, <2>2, <2>3
<1>9. ASSUME NEW p \in Procs, NotifyDead(p) PROVE HooksInvariant'
  <2> PICK i : i = held[p].job
    OBVIOUS
  <2>1. /\ pc[p] = "dead_hook" /\ pc'[p] = "process" /\ UNCHANGED <<row, resets>>
        /\ \A q \in Procs \ {p} : pc'[q] = pc[q] /\ held'[q] = held[q]
        /\ i \in Jobs /\ hooks'[i] = hooks[i] + 1
        /\ \A j \in Jobs \ {i} : hooks'[j] = hooks[j]
    BY <1>9 DEF NotifyDead, Goto, TypeOK
  <2>2. ASSUME NEW j \in Jobs
        PROVE  Reporting(j)' \subseteq Reporting(j) \ {p} /\ (Armed(j))' <= Armed(j)
    <3>1. Reporting(j)' \subseteq Reporting(j) \ {p}
      BY <2>1 DEF Reporting, Holds, Holding
    <3>2. Lent(j) => Lent(j)'
      BY <2>1 DEF Lent, Holds, Holding
    <3> QED BY <2>1, <3>1, <3>2 DEF Armed
  <2>3. p \in Reporting(i)
    BY <2>1 DEF Reporting
  <2>4. Accounted(i)'
    BY <1>t, <1>b, <2>1, <2>2, <2>3, ArmedType, JobMoves
  <2>5. \A j \in Jobs \ {i} : Accounted(j)'
    BY <1>t, <1>b, <2>1, <2>2, ArmedType, JobMoves
  <2> QED BY <1>b, <2>1, <2>4, <2>5 DEF HooksInvariant
<1>10. CASE Tick
  <2>1. /\ UNCHANGED <<pc, hooks, resets>> /\ \A p \in Procs : ~RunsOut(p)
        /\ \A j \in Jobs : row'[j].status = row[j].status /\ row'[j].claim = Elapse(row[j].claim)
        /\ \A p \in Procs : /\ held'[p].job = held[p].job
                            /\ held'[p].attemptNo = held[p].attemptNo
                            /\ held'[p].outcome = held[p].outcome
                            /\ held'[p].lease = Elapse(held[p].lease)
    <3>1. \A p \in Procs : held'[p] = [held[p] EXCEPT !.lease = Elapse(@)]
      BY <1>10 DEF Tick
    <3>2. ASSUME NEW p \in Procs PROVE held'[p].outcome = held[p].outcome
      BY <1>t, <3>1 DEF HoldType
    <3>3. \A p \in Procs : ~RunsOut(p)
      BY <1>10, <1>o, TickedTimes
    <3>4. hooks' = hooks
      BY <1>10 DEF Tick
    <3> QED BY <1>10, <3>2, <3>3, <3>4, TickedTimes
  <2>2. ASSUME NEW j \in Jobs PROVE Reporting(j)' = Reporting(j)
    BY <2>1 DEF Reporting, Holds, Holding
  <2>3. ASSUME NEW j \in Jobs PROVE (Armed(j))' <= Armed(j)
    <3>1. ASSUME Lent(j) PROVE Lent(j)'
      <4>1. PICK p \in Procs : /\ Holds(p, j) /\ held[p].lease = row[j].claim
                               /\ row[j].claim > 0
        BY <3>1 DEF Lent
      <4>2. row[j].claim \in Nat /\ row[j].claim # 1
        BY <1>t, <2>1, <4>1, NumbersAssumption DEF RowType, RunsOut, Holds
      <4>3. Elapse(row[j].claim) > 0
        BY <4>1, <4>2, NeverAssumption DEF Elapse
      <4>4. Holds(p, j)' /\ held'[p].lease = row'[j].claim /\ row'[j].claim > 0
        BY <2>1, <4>1, <4>3 DEF Holds, Holding
      <4> QED BY <4>4 DEF Lent
    <3> QED BY <2>1, <3>1 DEF Armed
  <2>4. \A j \in Jobs : row'[j].status = "absent" => row'[j].claim = 0
    BY <1>b, <2>1 DEF Elapse
  <2> QED BY <1>s, <2>1, <2>2, <2>3, <2>4
<1> QED BY <1>1, <1>2, <1>3, <1>4, <1>5, <1>6, <1>7, <1>8, <1>9, <1>10, HookSteps

(* However many runners, re-arming handlers, crashes and failing statements *)
(* there are, notifyDeadWebhook runs for a job at most once for each time  *)
(* it was armed, unless a lease ran out under its holder.                  *)
THEOREM DeadIsReportedOnce == Spec => []DeadReportedOnce
<1>1. Init => HooksInvariant
  <2> SUFFICES ASSUME Init PROVE HooksInvariant
    OBVIOUS
  <2>1. ASSUME NEW j \in Jobs
        PROVE  /\ row[j].claim = 0
               /\ Reporting(j) = {} /\ hooks[j] = 0 /\ Armed(j) \in {0, 1}
    BY DEF Init, AbsentRow, Reporting, Holds, Holding, Armed
  <2> QED BY <2>1, FS_EmptySet DEF HooksInvariant, Accounted, Within, Init
<1>2. TypeOK /\ HooksInvariant => DeadReportedOnce
  <2> SUFFICES ASSUME TypeOK, HooksInvariant, overruns = 0, NEW j \in Jobs
               PROVE  hooks[j] <= 1 + resets
    BY DEF DeadReportedOnce
  <2>1. Within(Reporting(j), hooks[j], Armed(j), resets)
    BY DEF HooksInvariant, Accounted
  <2>2. hooks[j] \in Nat /\ resets \in Nat
    BY DEF TypeOK
  <2> QED BY <2>1, <2>2, ArmedType, FS_CardinalityType DEF Within
<1> QED BY <1>1, <1>2, TypeCorrect, HooksInvariantInductive, PTL DEF Spec

-----------------------------------------------------------------------------
(* An undisturbed job has a timeline row for each attempt its row counts.  *)

Appending(j) == {p \in Procs : pc[p] = "append_timeline" /\ held[p].job = j}

(* The attempts a row counts: a pending row's is still to be made.         *)
Counted(r) == IF r.status \in {"absent", "pending"} THEN r.attempt - 1 ELSE r.attempt

(* The strengthening: who holds a job is making its next attempt.          *)
TimelineKept(j) ==
  /\ row[j].status = "absent" => row[j].attempt = 1
  /\ IsFiniteSet(Appending(j))
  /\ timeline[j] + Cardinality(Appending(j)) = Counted(row[j])

NextAttempt(p) ==
  Holding(p) => held[p].attemptNo = Counted(row[held[p].job]) + 1

TimelineInvariant ==
  resets = 0 /\ overruns = 0 /\ faults = 0 =>
    /\ \A j \in Jobs : TimelineKept(j)
    /\ \A p \in Procs : NextAttempt(p)

LEMMA TimelineInvariantInductive ==
  ASSUME TypeOK, SoleHolder, TimelineInvariant, [Next]_vars
  PROVE  TimelineInvariant'
<1> SUFFICES ASSUME resets' = 0, overruns' = 0, faults' = 0 PROVE TimelineInvariant'
  BY DEF TimelineInvariant
<1>t. /\ resets \in Nat /\ overruns \in Nat /\ faults \in Nat
      /\ \A j \in Jobs : timeline[j] \in Nat /\ row[j] \in RowType
      /\ \A p \in Procs : /\ held[p] \in HoldType
                          /\ Holding(p) => held[p].job \in Jobs
  BY DEF TypeOK, Holding
<1>0. resets = 0 /\ overruns = 0 /\ faults = 0
  <2>1. /\ faults' = faults \/ faults' = faults + 1
        /\ resets' = resets \/ resets' = resets + 1
        /\ overruns' = overruns \/ overruns' = overruns + 1
    BY HookSteps DEF Leaves, AppendJob, ResetJob, Claim, Send, Record, AppendTimeline,
                     NotifyDead, Tick
  <2> QED BY <1>t, <2>1
<1>b. /\ \A j \in Jobs : TimelineKept(j)
      /\ \A p \in Procs : NextAttempt(p)
      /\ \A p \in Procs : HolderOwns(p)
      /\ \A p, q \in Procs : Alone(p, q)
  BY <1>0 DEF TimelineInvariant, SoleHolder
<1>s. ASSUME \A j \in Jobs : /\ timeline'[j] = timeline[j] /\ Appending(j)' = Appending(j)
                             /\ Counted(row[j])' = Counted(row[j])
                             /\ row'[j].status = "absent" => row'[j].attempt = 1,
             \A p \in Procs : NextAttempt(p)'
      PROVE  TimelineInvariant'
  BY <1>s, <1>b DEF TimelineInvariant, TimelineKept
<1>1. CASE UNCHANGED <<row, pc, held, resets, overruns, hooks, timeline, faults>>
  <2>1. \A j \in Jobs : Appending(j)' = Appending(j) /\ Counted(row[j])' = Counted(row[j])
    BY <1>1 DEF Appending, Counted
  <2>2. \A p \in Procs : NextAttempt(p)'
    BY <1>1, <1>b DEF NextAttempt, Holding, Counted
  <2> QED BY <1>1, <1>b, <1>s, <2>1, <2>2 DEF TimelineKept
<1>2. ASSUME NEW p \in Procs, Leaves(p) PROVE TimelineInvariant'
  <2>1. pc[p] # "append_timeline"
    BY <1>0, <1>2 DEF Leaves
  <2>2. \A j \in Jobs : Appending(j)' = Appending(j) /\ Counted(row[j])' = Counted(row[j])
    BY <1>2, <2>1 DEF Appending, Counted, Leaves
  <2>3. \A q \in Procs : NextAttempt(q)'
    BY <1>2, <1>b DEF NextAttempt, Holding, Counted, Leaves
  <2> QED BY <1>2, <1>b, <1>s, <2>2, <2>3 DEF TimelineKept, Leaves
<1>3. ASSUME NEW h \in Handlers, AppendJob(h) PROVE TimelineInvariant'
  <2>1. PICK i \in Jobs : /\ row[i].status = "absent" /\ row'[i].status = "pending"
                          /\ row'[i].attempt = 1
                          /\ \A j \in Jobs \ {i} : row'[j] = row[j]
    BY <1>3, AppendedRow
  <2>2. /\ UNCHANGED <<held, timeline>> /\ h \in Procs
        /\ pc[h] = "append_job" /\ pc'[h] = "process"
        /\ \A q \in Procs \ {h} : pc'[q] = pc[q]
    BY <1>3 DEF AppendJob, Goto, TypeOK, Procs
  <2>3. ASSUME NEW j \in Jobs
        PROVE  /\ Appending(j)' = Appending(j) /\ Counted(row[j])' = Counted(row[j])
               /\ row'[j].status = "absent" => row'[j].attempt = 1
    <3>1. Appending(j)' = Appending(j)
      BY <2>2 DEF Appending
    <3>2. row[j].status = "absent" => row[j].attempt = 1
      BY <1>b DEF TimelineKept
    <3> QED BY <2>1, <3>1, <3>2 DEF Counted
  <2>4. ASSUME NEW q \in Procs PROVE NextAttempt(q)'
    <3>1. Holding(q)' => /\ Holding(q) /\ held[q].job \in Jobs
                         /\ held[q].attemptNo = Counted(row[held[q].job]) + 1
      BY <1>b, <1>t, <2>2 DEF NextAttempt, Holding
    <3>2. \A j \in Jobs : Counted(row'[j]) = Counted(row[j])
      BY <2>3 DEF Counted
    <3> QED BY <2>2, <3>1, <3>2 DEF NextAttempt, Counted
  <2> QED BY <1>s, <2>2, <2>3, <2>4
<1>4. ASSUME NEW h \in Handlers, ResetJob(h) PROVE FALSE
  BY <1>0, <1>4, ResetRow
<1>5. ASSUME NEW p \in Procs, NEW i \in Jobs, Claim(p, i) PROVE TimelineInvariant'
  <2>1. /\ pc[p] = "process" /\ pc'[p] = "send" /\ UNCHANGED timeline
        /\ \A q \in Procs \ {p} : pc'[q] = pc[q] /\ held'[q] = held[q]
        /\ \A j \in Jobs \ {i} : row'[j] = row[j]
        /\ held'[p].job = i
    BY <1>5, ClaimedRow DEF Claim, Goto, TypeOK
  <2>2. /\ row[i].status \in {"pending", "failed"} /\ row[i].attempt \in Nat
        /\ row'[i].status = row[i].status /\ row'[i].attempt = row[i].attempt
        /\ held'[p].attemptNo = IF row[i].status = "pending"
                                THEN row[i].attempt ELSE row[i].attempt + 1
    BY <1>5, <1>t, ClaimedRow DEF RowType
  <2>3. ASSUME NEW j \in Jobs
        PROVE  /\ Appending(j)' = Appending(j) /\ Counted(row'[j]) = Counted(row[j])
               /\ row'[j].status = "absent" => row'[j].attempt = 1
    <3>1. Appending(j)' = Appending(j)
      BY <2>1 DEF Appending
    <3>2. row[j].status = "absent" => row[j].attempt = 1
      BY <1>b DEF TimelineKept
    <3> QED BY <2>1, <2>2, <3>1, <3>2 DEF Counted
  <2>4. ASSUME NEW q \in Procs PROVE NextAttempt(q)'
    <3>1. CASE q = p
      BY <2>1, <2>2, <3>1 DEF NextAttempt, Counted
    <3>2. CASE q # p
      <4>1. Holding(q)' => /\ held[q].job \in Jobs /\ held'[q] = held[q]
                           /\ held[q].attemptNo = Counted(row[held[q].job]) + 1
        BY <1>b, <1>t, <2>1, <3>2 DEF NextAttempt, Holding
      <4> QED BY <2>3, <4>1 DEF NextAttempt, Counted
    <3> QED BY <3>1, <3>2
  <2>5. \A j \in Jobs : Counted(row[j])' = Counted(row[j])
    BY <2>3 DEF Counted
  <2> QED BY <1>s, <2>1, <2>3, <2>4, <2>5
<1>6. ASSUME NEW p \in Procs, Send(p) PROVE TimelineInvariant'
  <2>1. /\ pc[p] = "send" /\ pc'[p] = "record" /\ UNCHANGED <<timeline, row>>
        /\ held'[p].job = held[p].job /\ held'[p].attemptNo = held[p].attemptNo
        /\ \A q \in Procs \ {p} : pc'[q] = pc[q] /\ held'[q] = held[q]
    BY <1>6, SentHold DEF Send, Goto, TypeOK
  <2>2. \A j \in Jobs : Appending(j)' = Appending(j) /\ Counted(row[j])' = Counted(row[j])
    BY <2>1 DEF Appending, Counted
  <2>3. \A q \in Procs : NextAttempt(q)'
    BY <1>b, <2>1 DEF NextAttempt, Holding, Counted
  <2> QED BY <1>b, <1>s, <2>1, <2>2, <2>3 DEF TimelineKept
<1>7. ASSUME NEW p \in Procs, Record(p) PROVE TimelineInvariant'
  <2> PICK i, n : i = held[p].job /\ n = held[p].attemptNo
    OBVIOUS
  <2>1. /\ pc[p] = "record" /\ pc'[p] = "append_timeline" /\ UNCHANGED timeline
        /\ held'[p].job = i
        /\ \A q \in Procs \ {p} : pc'[q] = pc[q] /\ held'[q] = held[q]
    BY <1>7, <1>t DEF Record, Goto, TypeOK, HoldType
  <2>2. /\ i \in Jobs /\ n \in Nat /\ Holding(p)
        /\ row'[i].status \in {"failed", "delivered", "skipped", "dead"}
        /\ row'[i].attempt = n
        /\ \A j \in Jobs \ {i} : row'[j] = row[j]
    BY <1>7, RecordedJob, RecordedRow
  <2>3. n = Counted(row[i]) + 1 /\ Counted(row'[i]) = n
    BY <1>b, <2>2 DEF NextAttempt, Counted
  <2>4. TimelineKept(i)'
    <3>1. IsFiniteSet(Appending(i)) /\ timeline[i] + Cardinality(Appending(i)) = n - 1
      BY <1>b, <1>t, <2>2, <2>3 DEF TimelineKept, Counted, RowType
    <3>2. Appending(i)' = Appending(i) \cup {p} /\ p \notin Appending(i)
      BY <2>1 DEF Appending
    <3>3. /\ IsFiniteSet(Appending(i)')
          /\ Cardinality(Appending(i)') = Cardinality(Appending(i)) + 1
      BY <3>1, <3>2, FS_AddElement
    <3>4. Cardinality(Appending(i)) \in Nat /\ timeline[i] \in Nat
      BY <1>t, <2>2, <3>1, FS_CardinalityType
    <3>5. timeline'[i] + Cardinality(Appending(i)') = n
      BY <2>1, <2>2, <3>1, <3>3, <3>4
    <3> QED BY <2>2, <2>3, <3>3, <3>5 DEF TimelineKept, Counted
  <2>5. ASSUME NEW j \in Jobs \ {i} PROVE TimelineKept(j)'
    <3>1. Appending(j)' = Appending(j)
      BY <2>1 DEF Appending
    <3> QED BY <1>b, <2>1, <2>2, <3>1 DEF TimelineKept, Counted
  <2>6. ASSUME NEW q \in Procs PROVE NextAttempt(q)'
    <3>1. Holding(q)' => q # p /\ Holding(q) /\ held'[q] = held[q] /\ held[q].job \in Jobs
      BY <1>t, <2>1 DEF Holding
    <3>2. Holding(q)' => held[q].job # i
      BY <1>b, <2>2, <3>1 DEF Alone
    <3> QED BY <1>b, <2>2, <3>1, <3>2 DEF NextAttempt, Counted
  <2> QED BY <2>4, <2>5, <2>6 DEF TimelineInvariant
<1>8. ASSUME NEW p \in Procs, AppendTimeline(p) PROVE TimelineInvariant'
  <2> PICK i : i = held[p].job
    OBVIOUS
  <2>1. /\ pc[p] = "append_timeline" /\ UNCHANGED row
        /\ pc'[p] \in {"process", "dead_hook"}
        /\ \A q \in Procs \ {p} : pc'[q] = pc[q] /\ held'[q] = held[q]
        /\ i \in Jobs /\ timeline'[i] = timeline[i] + 1
        /\ \A j \in Jobs \ {i} : timeline'[j] = timeline[j]
    BY <1>8 DEF AppendTimeline, Goto, TypeOK
  <2>2. TimelineKept(i)'
    <3>1. /\ IsFiniteSet(Appending(i))
          /\ timeline[i] + Cardinality(Appending(i)) = Counted(row[i])
      BY <1>b, <2>1 DEF TimelineKept
    <3>2. Appending(i)' = Appending(i) \ {p} /\ p \in Appending(i)
      BY <2>1 DEF Appending
    <3>3. /\ IsFiniteSet(Appending(i)')
          /\ Cardinality(Appending(i)') = Cardinality(Appending(i)) - 1
      BY <3>1, <3>2, FS_RemoveElement
    <3>4. Cardinality(Appending(i)) \in Nat /\ timeline[i] \in Nat
      BY <1>t, <2>1, <3>1, FS_CardinalityType
    <3>5. timeline'[i] + Cardinality(Appending(i)') = Counted(row[i])
      BY <2>1, <3>1, <3>3, <3>4
    <3>6. Counted(row[i])' = Counted(row[i])
      BY <2>1 DEF Counted
    <3> QED BY <1>b, <2>1, <3>3, <3>5, <3>6 DEF TimelineKept
  <2>3. ASSUME NEW j \in Jobs \ {i} PROVE TimelineKept(j)'
    <3>1. Appending(j)' = Appending(j)
      BY <2>1 DEF Appending
    <3> QED BY <1>b, <2>1, <3>1 DEF TimelineKept, Counted
  <2>4. \A q \in Procs : NextAttempt(q)'
    BY <1>b, <2>1 DEF NextAttempt, Holding, Counted
  <2> QED BY <2>2, <2>3, <2>4 DEF TimelineInvariant
<1>9. ASSUME NEW p \in Procs, NotifyDead(p) PROVE TimelineInvariant'
  <2>1. /\ pc[p] = "dead_hook" /\ pc'[p] = "process" /\ UNCHANGED <<row, timeline>>
        /\ \A q \in Procs \ {p} : pc'[q] = pc[q] /\ held'[q] = held[q]
    BY <1>9 DEF NotifyDead, Goto, TypeOK
  <2>2. \A j \in Jobs : Appending(j)' = Appending(j) /\ Counted(row[j])' = Counted(row[j])
    BY <2>1 DEF Appending, Counted
  <2>3. \A q \in Procs : NextAttempt(q)'
    BY <1>b, <2>1 DEF NextAttempt, Holding, Counted
  <2> QED BY <1>b, <1>s, <2>1, <2>2, <2>3 DEF TimelineKept
<1>10. CASE Tick
  <2>1. /\ UNCHANGED <<pc, timeline>>
        /\ \A j \in Jobs : row'[j].status = row[j].status /\ row'[j].attempt = row[j].attempt
        /\ \A p \in Procs : /\ held'[p].job = held[p].job
                            /\ held'[p].attemptNo = held[p].attemptNo
    BY <1>10, TickedTimes DEF Tick
  <2>2. \A j \in Jobs : Appending(j)' = Appending(j) /\ Counted(row[j])' = Counted(row[j])
    BY <2>1 DEF Appending, Counted
  <2>3. \A q \in Procs : NextAttempt(q)'
    BY <1>b, <1>t, <2>1 DEF NextAttempt, Holding, Counted
  <2> QED BY <1>b, <1>s, <2>1, <2>2, <2>3 DEF TimelineKept
<1> QED BY <1>1, <1>2, <1>3, <1>4, <1>5, <1>6, <1>7, <1>8, <1>9, <1>10, HookSteps

(* For any number of runners, a job that no fault, overrun lease or        *)
(* re-arming disturbed has one webhook_delivery_attempted row in the       *)
(* timeline for each attempt its delivery-attempt row counts, but for      *)
(* those about to be appended.                                             *)
THEOREM TimelineIsComplete == Spec => []TimelineMatchesAttempts
<1>1. Init => TimelineInvariant
  <2> SUFFICES ASSUME Init PROVE TimelineInvariant
    OBVIOUS
  <2>1. ASSUME NEW j \in Jobs
        PROVE  /\ row[j].status = "absent" /\ row[j].attempt = 1
               /\ Appending(j) = {} /\ timeline[j] = 0
    BY DEF Init, AbsentRow, Appending
  <2>2. \A p \in Procs : NextAttempt(p)
    BY DEF Init, NextAttempt, Holding
  <2> QED BY <2>1, <2>2, FS_EmptySet DEF TimelineInvariant, TimelineKept, Counted
<1>2. TimelineInvariant => TimelineMatchesAttempts
  BY DEF TimelineInvariant, TimelineKept, Appending, Counted, TimelineMatchesAttempts
<1> QED
  BY <1>1, <1>2, TypeCorrect, SoleHolderHolds, TimelineInvariantInductive, PTL DEF Spec

-----------------------------------------------------------------------------
(* The sends a job has cost fit into what was allowed: its row may still   *)
(* spend the attempts it has left, and so may every process that holds it, *)
(* each as a set of tokens. A claim hands the row's attempts to the holder *)
(* and a record hands the holder's back, so that only an overrun lease, a  *)
(* re-arming or a fault can add to them.                                   *)

Remaining(r) == IF r.status \in Terminal THEN 0 ELSE MaxAttempts - Counted(r)

Spendable(p) ==
  IF pc[p] = "send" THEN MaxAttempts - held[p].attemptNo + 1
  ELSE MaxAttempts - held[p].attemptNo

Tokens(j) == {t \in Procs \X (1..MaxAttempts) : Holds(t[1], j) /\ t[2] <= Spendable(t[1])}

(* The row's next attempt is in the hands of a process.                    *)
Covering(p, j) ==
  /\ Holds(p, j) /\ held[p].lease = row[j].claim /\ row[j].claim > 0
  /\ row[j].status \in {"pending", "failed"} /\ held[p].attemptNo = Counted(row[j]) + 1

Spare(j) == IF \E p \in Procs : Covering(p, j) THEN 0 ELSE Remaining(row[j])

Allowed == MaxAttempts * (1 + overruns + resets) + faults

Fits(tokens, sent, spare, allowed) ==
  IsFiniteSet(tokens) /\ sent + spare + Cardinality(tokens) <= allowed

SendsInvariant ==
  /\ \A j \in Jobs : /\ row[j].attempt >= 1
                     /\ row[j].status = "absent" => row[j].attempt = 1
  /\ \A p \in Procs : held[p].attemptNo >= 1
  /\ \A j \in Jobs : Fits(Tokens(j), sends[j], Spare(j), Allowed)

(* A block of tokens that is added or given up.                            *)
Block(p, n) == {p} \X (1..n)

LEMMA BlockSize ==
  ASSUME NEW p, NEW n \in Nat
  PROVE  IsFiniteSet(Block(p, n)) /\ Cardinality(Block(p, n)) = n
<1>1. IsFiniteSet(1..n) /\ Cardinality(1..n) = n
  BY FS_Interval
<1>2. IsFiniteSet({p}) /\ Cardinality({p}) = 1
  BY FS_Singleton
<1>3. /\ IsFiniteSet({p} \X (1..n))
      /\ Cardinality({p} \X (1..n)) = Cardinality({p}) * Cardinality(1..n)
  BY <1>1, <1>2, FS_Product
<1> QED BY <1>1, <1>2, <1>3 DEF Block

LEMMA BlockLeaves ==
  ASSUME NEW S, IsFiniteSet(S), NEW p, NEW n \in Nat, Block(p, n) \subseteq S
  PROVE  /\ IsFiniteSet(S \ Block(p, n))
         /\ Cardinality(S \ Block(p, n)) = Cardinality(S) - n
<1>1. /\ IsFiniteSet(S \ Block(p, n))
      /\ Cardinality(S \ Block(p, n)) = Cardinality(S) - Cardinality(S \cap Block(p, n))
  BY FS_Difference, BlockSize
<1>2. S \cap Block(p, n) = Block(p, n)
  OBVIOUS
<1> QED BY <1>1, <1>2, BlockSize

LEMMA BlockJoins ==
  ASSUME NEW S, IsFiniteSet(S), NEW p, NEW n \in Nat
  PROVE  /\ IsFiniteSet(S \cup Block(p, n))
         /\ Cardinality(S \cup Block(p, n)) <= Cardinality(S) + n
<1>1. /\ IsFiniteSet(S \cup Block(p, n))
      /\ Cardinality(S \cup Block(p, n))
           = Cardinality(S) + Cardinality(Block(p, n)) - Cardinality(S \cap Block(p, n))
  BY FS_Union, BlockSize
<1>2. IsFiniteSet(S \cap Block(p, n))
  BY FS_Intersection, BlockSize
<1> QED BY <1>1, <1>2, BlockSize, FS_CardinalityType

(* What a fault takes from a process that holds a job, and what a step     *)
(* leaves alone that is about no holder.                                   *)
Drops(p) ==
  /\ UNCHANGED <<row, resets, overruns, sends>> /\ faults' = faults + 1
  /\ Holding(p) /\ ~Holding(p)' /\ held'[p].attemptNo = 1
  /\ \A q \in Procs \ {p} : pc'[q] = pc[q] /\ held'[q] = held[q]

Beside ==
  /\ UNCHANGED <<row, resets, overruns, sends>> /\ faults' \in {faults, faults + 1}
  /\ \A p \in Procs : \/ pc'[p] = pc[p] /\ held'[p] = held[p]
                      \/ ~Holding(p) /\ ~Holding(p)' /\ held'[p].attemptNo \in {held[p].attemptNo, 1}

LEMMA SendSteps ==
  ASSUME TypeOK, [Next]_vars
  PROVE  \/ Beside
         \/ \E p \in Procs : Drops(p)
         \/ \E h \in Handlers : AppendJob(h)
         \/ \E h \in Handlers : ResetJob(h)
         \/ \E p \in Procs, j \in Jobs : Claim(p, j)
         \/ \E p \in Procs : Send(p)
         \/ \E p \in Procs : Record(p)
         \/ Tick
<1>0. Handlers \subseteq Procs /\ Workers \subseteq Procs
  BY DEF Procs
<1>h. NoHold.attemptNo = 1
  BY DEF NoHold
<1>1. ASSUME NEW h \in Handlers, EmitStep(h) \/ FindStep(h) PROVE Beside
  BY <1>0, <1>1
  DEF EmitStep, FindStep, EmitStart, ReplayStart, AppendEvent, FindJob,
      FindReplayable, Goto, TypeOK, Beside, Holding
<1>2. ASSUME NEW w \in Workers, ListDue(w) PROVE Beside
  BY <1>0, <1>2 DEF ListDue, Goto, TypeOK, Beside, Holding
<1>3. ASSUME NEW p \in Procs, Return(p) PROVE Beside
  BY <1>3 DEF Return, Goto, TypeOK, Beside, Holding
<1>4. ASSUME NEW p \in Procs, AppendTimeline(p) PROVE Beside
  BY <1>4, <1>h DEF AppendTimeline, Goto, TypeOK, Beside, Holding
<1>5. ASSUME NEW p \in Procs, NotifyDead(p) PROVE Beside
  BY <1>5, <1>h DEF NotifyDead, Goto, TypeOK, Beside, Holding
<1>6. ASSUME NEW p \in Procs, StatementFails(p) \/ Crash(p) PROVE Beside \/ Drops(p)
  <2>1. /\ UNCHANGED <<row, resets, overruns, sends>> /\ faults' = faults + 1
        /\ ~Holding(p)' /\ held'[p].attemptNo = 1
        /\ \A q \in Procs \ {p} : pc'[q] = pc[q] /\ held'[q] = held[q]
    BY <1>6, <1>h DEF StatementFails, Crash, Goto, TypeOK, Holding
  <2> QED BY <2>1 DEF Beside, Drops
<1>7. ASSUME NEW p \in Procs, NEW j \in Jobs, PassOver(p, j) PROVE Beside
  BY <1>7 DEF PassOver, Beside
<1>8. CASE UNCHANGED vars
  BY <1>8 DEF vars, Beside
<1>9. CASE \E h \in Handlers : EmitStep(h) \/ FindStep(h) \/ ArmStep(h)
  BY <1>0, <1>1, <1>9 DEF ArmStep
<1>10. CASE \E w \in Workers : ListDue(w)
  BY <1>0, <1>2, <1>10
<1>11. CASE \E p \in Procs : DeliverStep(p)
  BY <1>3, <1>4, <1>5, <1>7, <1>11 DEF DeliverStep
<1>12. CASE \E p \in Procs : StatementFails(p) \/ Crash(p)
  BY <1>6, <1>12
<1> QED BY <1>8, <1>9, <1>10, <1>11, <1>12 DEF Next

(* What is allowed grows by a whole schedule or by one send.               *)
LEMMA AllowedGrows ==
  ASSUME TypeOK
  PROVE  /\ Allowed \in Nat
         /\ UNCHANGED <<resets, overruns, faults>> => Allowed' = Allowed
         /\ UNCHANGED <<resets, overruns>> /\ faults' = faults + 1 => Allowed' = Allowed + 1
         /\ UNCHANGED <<overruns, faults>> /\ resets' = resets + 1
            => Allowed' = Allowed + MaxAttempts
         /\ UNCHANGED <<resets, faults>> /\ overruns' = overruns + 1
            => Allowed' = Allowed + MaxAttempts
<1> DEFINE whole == MaxAttempts * (1 + overruns + resets)
           next  == MaxAttempts * (1 + overruns' + resets')
<1>1. /\ MaxAttempts \in Nat /\ resets \in Nat /\ overruns \in Nat /\ faults \in Nat
      /\ MaxAttempts' = MaxAttempts
  BY MaxAttemptsType DEF TypeOK, MaxAttempts
<1>2. \A m, x, y \in Nat : m * x \in Nat /\ (y = x + 1 => m * y = m * x + m)
  OBVIOUS
<1>3. whole \in Nat
  BY <1>1, <1>2
<1>4. ASSUME \/ UNCHANGED overruns /\ resets' = resets + 1
             \/ UNCHANGED resets /\ overruns' = overruns + 1
      PROVE  next = whole + MaxAttempts
  <2>1. /\ 1 + overruns + resets \in Nat /\ 1 + overruns' + resets' \in Nat
        /\ 1 + overruns' + resets' = (1 + overruns + resets) + 1
    BY <1>1, <1>4
  <2> PICK x, y \in Nat : x = 1 + overruns + resets /\ y = 1 + overruns' + resets'
    BY <2>1
  <2>2. MaxAttempts * y = MaxAttempts * x + MaxAttempts
    BY <1>1, <1>2, <2>1
  <2> QED BY <2>2
<1>5. Allowed' = next + faults' /\ Allowed = whole + faults
  BY <1>1 DEF Allowed
<1>6. UNCHANGED <<resets, overruns>> => next = whole
  OBVIOUS
<1> HIDE DEF whole, next
<1> QED BY <1>1, <1>3, <1>4, <1>5, <1>6

(* What a row may still spend is a part of the schedule.                   *)
LEMMA SpareType ==
  ASSUME TypeOK, PolicyKept, SendsInvariant, NEW j \in Jobs
  PROVE  /\ Remaining(row[j]) \in 0..MaxAttempts
         /\ Spare(j) \in {0, Remaining(row[j])}
         /\ (\E p \in Procs : Covering(p, j)) <=> (Spare(j) = 0 /\ \E p \in Procs : Covering(p, j))
         /\ (\A p \in Procs : ~Covering(p, j)) => Spare(j) = Remaining(row[j])
<1>1. /\ row[j].attempt \in Nat /\ row[j].attempt >= 1 /\ row[j].attempt <= MaxAttempts
      /\ row[j].status \in Statuses
      /\ row[j].status = "failed" => row[j].attempt < MaxAttempts
  <2>1. row[j].attempt \in Nat /\ row[j].status \in Statuses
    BY DEF TypeOK, RowType
  <2>2. /\ row[j].attempt <= MaxAttempts
        /\ row[j].status = "failed" => row[j].attempt < MaxAttempts
    BY DEF PolicyKept, RowInPolicy
  <2>3. row[j].attempt >= 1
    BY DEF SendsInvariant
  <2> QED BY <2>1, <2>2, <2>3
<1>2. Remaining(row[j]) \in 0..MaxAttempts
  BY <1>1, MaxAttemptsType DEF Remaining, Counted, Terminal, Statuses
<1> QED BY <1>2 DEF Spare

LEMMA SpareKept ==
  ASSUME TypeOK, PolicyKept, SendsInvariant, NEW j \in Jobs,
         row'[j].status = row[j].status, row'[j].attempt = row[j].attempt
  PROVE  /\ Remaining(row'[j]) = Remaining(row[j])
         /\ Spare(j)' \in {0, Remaining(row[j])}
         /\ (\A p \in Procs : Covering(p, j) => Covering(p, j)') => Spare(j)' <= Spare(j)
<1>1. Remaining(row'[j]) = Remaining(row[j])
  BY DEF Remaining, Counted, MaxAttempts
<1>2. Spare(j)' = IF \E p \in Procs : Covering(p, j)' THEN 0 ELSE Remaining(row[j])
  <2>1. Spare(j)' = IF \E p \in Procs : Covering(p, j)' THEN 0 ELSE Remaining(row'[j])
    BY DEF Spare, Remaining, Counted, MaxAttempts
  <2> QED BY <1>1, <2>1
<1>3. Remaining(row[j]) \in Nat /\ Spare(j) = IF \E p \in Procs : Covering(p, j) THEN 0 ELSE Remaining(row[j])
  BY SpareType DEF Spare
<1> QED BY <1>1, <1>2, <1>3

LEMMA SendsInvariantInductive ==
  ASSUME TypeOK, PolicyKept, SendsInvariant, TypeOK', PolicyKept', [Next]_vars
  PROVE  SendsInvariant'
<1>t. /\ MaxAttempts \in Nat /\ MaxAttempts >= 1
      /\ \A j \in Jobs : /\ sends[j] \in Nat /\ row[j] \in RowType
                         /\ row[j].attempt >= 1 /\ row[j].attempt \in Nat /\ row[j].claim \in Nat
                         /\ row[j].status = "absent" => row[j].attempt = 1
                         /\ Remaining(row[j]) \in 0..MaxAttempts
                         /\ Spare(j) \in {0, Remaining(row[j])}
                         /\ IsFiniteSet(Tokens(j)) /\ Cardinality(Tokens(j)) \in Nat
                         /\ sends[j] + Spare(j) + Cardinality(Tokens(j)) <= Allowed
      /\ Allowed \in Nat
  <2>1. \A j \in Jobs : IsFiniteSet(Tokens(j)) /\ Cardinality(Tokens(j)) \in Nat
                        /\ sends[j] + Spare(j) + Cardinality(Tokens(j)) <= Allowed
    BY FS_CardinalityType DEF SendsInvariant, Fits
  <2>2. \A j \in Jobs : /\ sends[j] \in Nat /\ row[j] \in RowType
                        /\ row[j].attempt \in Nat /\ row[j].claim \in Nat
    BY NumbersAssumption DEF TypeOK, RowType
  <2>3. \A j \in Jobs : row[j].attempt >= 1 /\ (row[j].status = "absent" => row[j].attempt = 1)
    BY DEF SendsInvariant
  <2>4. \A j \in Jobs : /\ Remaining(row[j]) \in 0..MaxAttempts
                        /\ Spare(j) \in {0, Remaining(row[j])}
    BY SpareType
  <2> QED BY <2>1, <2>2, <2>3, <2>4, MaxAttemptsType, AllowedGrows
<1>h. \A p \in Procs : /\ held[p].attemptNo \in Nat /\ held[p].attemptNo >= 1
                       /\ Holding(p) => held[p].job \in Jobs /\ held[p].attemptNo <= MaxAttempts
                                        /\ Spendable(p) \in 0..MaxAttempts
  <2>1. \A p \in Procs : held[p].attemptNo \in Nat /\ held[p].attemptNo >= 1
    BY DEF TypeOK, HoldType, SendsInvariant
  <2>2. \A p \in Procs : Holding(p) => held[p].job \in Jobs /\ held[p].attemptNo <= MaxAttempts
    BY DEF TypeOK, Holding, PolicyKept, HolderInPolicy
  <2> QED BY <1>t, <2>1, <2>2 DEF Spendable
<1>s. ASSUME NEW j \in Jobs, sends'[j] = sends[j], Tokens(j)' = Tokens(j),
             Spare(j)' \in Nat, Spare(j)' - Spare(j) <= Allowed' - Allowed, Allowed' \in Nat
      PROVE  Fits(Tokens(j), sends[j], Spare(j), Allowed)'
  BY <1>s, <1>t DEF Fits
<1>u. ASSUME NEW p \in Procs, NEW j \in Jobs, Holds(p, j)
      PROVE  Block(p, Spendable(p)) \subseteq Tokens(j)
  BY <1>u, <1>h, <1>t DEF Block, Tokens, Holds
<1>1. CASE Beside
  <2>1. Allowed' \in Nat /\ Allowed' >= Allowed
    BY <1>1, <1>t, AllowedGrows DEF Beside
  <2>2. \A p \in Procs : held'[p].attemptNo >= 1
    BY <1>1, <1>h DEF Beside
  <2>3. ASSUME NEW j \in Jobs PROVE Fits(Tokens(j), sends[j], Spare(j), Allowed)'
    <3>1. \A p \in Procs : /\ Holds(p, j)' <=> Holds(p, j)
                           /\ Holds(p, j) => pc'[p] = pc[p] /\ held'[p] = held[p]
      BY <1>1 DEF Beside, Holds, Holding
    <3>2. Tokens(j)' = Tokens(j)
      BY <3>1 DEF Tokens, Spendable, MaxAttempts
    <3>3. \A p \in Procs : Covering(p, j) => Covering(p, j)'
      BY <1>1, <3>1 DEF Beside, Covering, Counted
    <3>4. Spare(j)' <= Spare(j) /\ Spare(j)' \in Nat
      BY <1>1, <1>t, <3>3, SpareKept DEF Beside
    <3> QED BY <1>1, <1>s, <1>t, <2>1, <3>2, <3>4 DEF Beside
  <2> QED BY <1>1, <1>t, <2>2, <2>3 DEF Beside, SendsInvariant
<1>2. ASSUME NEW p \in Procs, Drops(p) PROVE SendsInvariant'
  <2>i. PICK i \in Jobs : i = held[p].job /\ Holds(p, i)
    BY <1>2, <1>h DEF Drops, Holds
  <2>1. Allowed' \in Nat /\ Allowed' = Allowed + 1
    BY <1>2, <1>t, AllowedGrows DEF Drops
  <2>2. \A q \in Procs : held'[q].attemptNo >= 1
    BY <1>2, <1>h DEF Drops
  <2>3. ASSUME NEW j \in Jobs \ {i} PROVE Fits(Tokens(j), sends[j], Spare(j), Allowed)'
    <3>1. \A q \in Procs : /\ Holds(q, j)' <=> Holds(q, j)
                           /\ Holds(q, j) => pc'[q] = pc[q] /\ held'[q] = held[q]
      BY <1>2, <2>i DEF Drops, Holds, Holding
    <3>2. Tokens(j)' = Tokens(j)
      BY <3>1 DEF Tokens, Spendable, MaxAttempts
    <3>3. \A q \in Procs : Covering(q, j) => Covering(q, j)'
      BY <1>2, <3>1 DEF Drops, Covering, Counted
    <3>4. Spare(j)' <= Spare(j) /\ Spare(j)' \in Nat
      BY <1>2, <1>t, <3>3, SpareKept DEF Drops
    <3> QED BY <1>2, <1>s, <1>t, <2>1, <3>2, <3>4 DEF Drops
  <2>4. Fits(Tokens(i), sends[i], Spare(i), Allowed)'
    <3>1. \A q \in Procs : /\ Holds(q, i)' <=> (Holds(q, i) /\ q # p)
                           /\ q # p => pc'[q] = pc[q] /\ held'[q] = held[q]
      BY <1>2, <2>i DEF Drops, Holds, Holding
    <3>2. Tokens(i)' = Tokens(i) \ Block(p, Spendable(p))
      BY <3>1, <2>i DEF Tokens, Spendable, MaxAttempts, Block
    <3>3. /\ IsFiniteSet(Tokens(i)')
          /\ Cardinality(Tokens(i)') = Cardinality(Tokens(i)) - Spendable(p)
      BY <1>t, <1>h, <1>u, <2>i, <3>2, BlockLeaves DEF Holds
    <3>4. Spare(i)' \in Nat /\ Spare(i)' <= Spare(i) + Spendable(p) + 1
      <4>0. Spare(i)' \in {0, Remaining(row[i])}
        BY <1>2, SpareKept DEF Drops
      <4>1. CASE Covering(p, i)
        <5>1. Remaining(row[i]) = MaxAttempts - held[p].attemptNo + 1
          BY <1>t, <1>h, <4>1 DEF Covering, Remaining, Terminal, Counted
        <5>2. Remaining(row[i]) <= Spendable(p) + 1
          BY <1>t, <1>h, <5>1 DEF Spendable
        <5> QED BY <1>t, <1>h, <2>i, <4>0, <5>2 DEF Holds
      <4>2. CASE ~Covering(p, i)
        <5>1. \A q \in Procs : Covering(q, i) => Covering(q, i)'
          BY <1>2, <3>1, <4>2 DEF Drops, Covering, Counted
        <5> QED BY <1>2, <1>t, <1>h, <2>i, <4>0, <5>1, SpareKept DEF Drops, Holds
      <4> QED BY <4>1, <4>2
    <3>5. sends'[i] = sends[i] /\ Spendable(p) \in Nat
      BY <1>2, <1>h, <2>i DEF Drops, Holds
    <3> QED BY <1>t, <2>1, <3>3, <3>4, <3>5 DEF Fits
  <2> QED BY <1>2, <1>t, <2>2, <2>3, <2>4 DEF Drops, SendsInvariant
<1>3. ASSUME NEW h \in Handlers, AppendJob(h) PROVE SendsInvariant'
  <2>1. PICK i \in Jobs : /\ row[i].status = "absent" /\ row'[i].status = "pending"
                          /\ row'[i].attempt = 1
                          /\ \A j \in Jobs \ {i} : row'[j] = row[j]
    BY <1>3, AppendedRow
  <2>2. /\ UNCHANGED <<held, resets, overruns, faults, sends>>
        /\ \A p \in Procs : Holding(p)' <=> Holding(p)
        /\ \A p \in Procs : Holding(p) => pc'[p] = pc[p]
    BY <1>3 DEF AppendJob, Goto, TypeOK, Procs, Holding
  <2>3. Allowed' = Allowed
    BY <2>2, AllowedGrows
  <2>4. ASSUME NEW j \in Jobs PROVE Tokens(j)' = Tokens(j)
    BY <2>2 DEF Tokens, Holds, Spendable, MaxAttempts
  <2>5. ASSUME NEW j \in Jobs PROVE Spare(j)' \in Nat /\ Spare(j)' <= Spare(j)
    <3>1. CASE j = i
      <4>1. Spare(i) = MaxAttempts
        BY <1>t, <2>1 DEF Spare, Covering, Remaining, Terminal, Counted
      <4>2. Spare(i)' \in {0, MaxAttempts}
        BY <1>t, <2>1 DEF Spare, Remaining, Terminal, Counted, MaxAttempts
      <4> QED BY <1>t, <3>1, <4>1, <4>2
    <3>2. CASE j # i
      <4>1. \A p \in Procs : Covering(p, j) => Covering(p, j)'
        BY <2>1, <2>2, <3>2 DEF Covering, Holds, Counted
      <4> QED BY <1>t, <2>1, <3>2, <4>1, SpareKept
    <3> QED BY <3>1, <3>2
  <2>6. \A j \in Jobs : Fits(Tokens(j), sends[j], Spare(j), Allowed)'
    BY <1>s, <1>t, <2>2, <2>3, <2>4, <2>5
  <2>7. \A j \in Jobs : row'[j].attempt >= 1 /\ (row'[j].status = "absent" => row'[j].attempt = 1)
    BY <1>t, <2>1
  <2> QED BY <1>h, <2>2, <2>6, <2>7 DEF SendsInvariant
<1>4. ASSUME NEW h \in Handlers, ResetJob(h) PROVE SendsInvariant'
  <2>1. PICK i \in Jobs : /\ row'[i].status = "pending" /\ row'[i].attempt = row[i].attempt
                          /\ \A j \in Jobs \ {i} : row'[j] = row[j]
    BY <1>4, ResetRow
  <2>2. /\ UNCHANGED <<held, overruns, faults, sends>> /\ resets' = resets + 1
        /\ \A p \in Procs : Holding(p)' <=> Holding(p)
        /\ \A p \in Procs : Holding(p) => pc'[p] = pc[p]
    BY <1>4 DEF ResetJob, Goto, TypeOK, Procs, Holding
  <2>3. Allowed' = Allowed + MaxAttempts
    BY <2>2, AllowedGrows
  <2>4. ASSUME NEW j \in Jobs PROVE Tokens(j)' = Tokens(j)
    BY <2>2 DEF Tokens, Holds, Spendable, MaxAttempts
  <2>5. ASSUME NEW j \in Jobs PROVE Spare(j)' \in Nat /\ Spare(j)' <= Spare(j) + MaxAttempts
    <3>1. CASE j = i
      <4>1. row[i].attempt <= MaxAttempts
        BY DEF PolicyKept, RowInPolicy
      <4>2. Spare(i)' \in {0, MaxAttempts - (row[i].attempt - 1)}
        BY <2>1 DEF Spare, Remaining, Terminal, Counted, MaxAttempts
      <4> QED BY <1>t, <3>1, <4>1, <4>2
    <3>2. CASE j # i
      <4>1. \A p \in Procs : Covering(p, j) => Covering(p, j)'
        BY <2>1, <2>2, <3>2 DEF Covering, Holds, Counted
      <4> QED BY <1>t, <2>1, <3>2, <4>1, SpareKept
    <3> QED BY <3>1, <3>2
  <2>6. \A j \in Jobs : Fits(Tokens(j), sends[j], Spare(j), Allowed)'
    BY <1>s, <1>t, <2>2, <2>3, <2>4, <2>5
  <2>7. \A j \in Jobs : row'[j].attempt >= 1 /\ (row'[j].status = "absent" => row'[j].attempt = 1)
    BY <1>t, <2>1
  <2> QED BY <1>h, <2>2, <2>6, <2>7 DEF SendsInvariant
<1>5. ASSUME NEW p \in Procs, NEW i \in Jobs, Claim(p, i) PROVE SendsInvariant'
  <2>1. /\ pc[p] = "process" /\ pc'[p] = "send" /\ UNCHANGED <<sends, faults, resets, overruns>>
        /\ \A q \in Procs \ {p} : pc'[q] = pc[q] /\ held'[q] = held[q]
        /\ \A j \in Jobs \ {i} : row'[j] = row[j]
        /\ held'[p].job = i /\ held'[p].lease = Lease
        /\ row[i].status \in {"pending", "failed"} /\ row[i].claim = 0
        /\ row'[i].status = row[i].status /\ row'[i].attempt = row[i].attempt
        /\ row'[i].claim = Lease
    <3>1. /\ pc[p] = "process" /\ UNCHANGED <<sends, faults, resets, overruns>>
          /\ pc' = [pc EXCEPT ![p] = "send"]
      BY <1>5 DEF Claim, Goto, budget, history
    <3>2. pc'[p] = "send"
      BY <1>t, <3>1 DEF TypeOK
    <3> QED BY <1>5, <1>t, <3>1, <3>2, ClaimedRow
  <2>2. /\ held'[p].attemptNo = Counted(row[i]) + 1 /\ Lease > 0
        /\ Remaining(row[i]) = MaxAttempts - held'[p].attemptNo + 1
    BY <1>5, <1>t, ClaimedRow, NumbersAssumption DEF Counted, Remaining, Terminal
  <2>3. /\ Allowed' = Allowed /\ held'[p].attemptNo \in Nat /\ held'[p].attemptNo >= 1
        /\ Remaining(row[i]) \in Nat
    BY <1>t, <2>1, <2>2, AllowedGrows DEF Counted
  <2>4. ASSUME NEW j \in Jobs \ {i} PROVE Fits(Tokens(j), sends[j], Spare(j), Allowed)'
    <3>1. \A q \in Procs : /\ Holds(q, j)' <=> Holds(q, j)
                           /\ Holds(q, j) => pc'[q] = pc[q] /\ held'[q] = held[q]
      BY <2>1 DEF Holds, Holding
    <3>2. Tokens(j)' = Tokens(j)
      BY <3>1 DEF Tokens, Spendable, MaxAttempts
    <3>3. \A q \in Procs : Covering(q, j) => Covering(q, j)'
      BY <2>1, <3>1 DEF Covering, Counted
    <3> QED BY <1>s, <1>t, <2>1, <2>3, <3>2, <3>3, SpareKept
  <2>5. Fits(Tokens(i), sends[i], Spare(i), Allowed)'
    <3>1. \A q \in Procs : /\ Holds(q, i)' <=> (Holds(q, i) \/ q = p)
                           /\ q # p => pc'[q] = pc[q] /\ held'[q] = held[q]
      BY <2>1 DEF Holds, Holding
    <3>2. Tokens(i)' \subseteq Tokens(i) \cup Block(p, Remaining(row[i]))
      BY <2>1, <2>2, <3>1 DEF Tokens, Spendable, MaxAttempts, Block
    <3>3. /\ IsFiniteSet(Tokens(i)') /\ Cardinality(Tokens(i)') \in Nat
          /\ Cardinality(Tokens(i)') <= Cardinality(Tokens(i)) + Remaining(row[i])
      <4>1. /\ IsFiniteSet(Tokens(i) \cup Block(p, Remaining(row[i])))
            /\ Cardinality(Tokens(i) \cup Block(p, Remaining(row[i])))
                 <= Cardinality(Tokens(i)) + Remaining(row[i])
        BY <1>t, <2>3, BlockJoins
      <4>2. /\ IsFiniteSet(Tokens(i)')
            /\ Cardinality(Tokens(i)') <= Cardinality(Tokens(i) \cup Block(p, Remaining(row[i])))
        BY <3>2, <4>1, FS_Subset
      <4> QED BY <1>t, <2>3, <4>1, <4>2, FS_CardinalityType
    <3>4. Spare(i) = Remaining(row[i])
      BY <2>1 DEF Spare, Covering
    <3>5. Spare(i)' = 0
      <4>1. Covering(p, i)'
        BY <2>1, <2>2, <3>1 DEF Covering, Counted
      <4> QED BY <4>1 DEF Spare
    <3> QED BY <1>t, <2>1, <2>3, <3>3, <3>4, <3>5 DEF Fits
  <2>6. \A j \in Jobs : row'[j].attempt >= 1 /\ (row'[j].status = "absent" => row'[j].attempt = 1)
    BY <1>t, <2>1
  <2>7. \A q \in Procs : held'[q].attemptNo >= 1
    BY <1>h, <2>1, <2>3
  <2> QED BY <2>4, <2>5, <2>6, <2>7 DEF SendsInvariant
<1>6. ASSUME NEW p \in Procs, Send(p) PROVE SendsInvariant'
  <2> PICK i : i = held[p].job
    OBVIOUS
  <2>1. /\ pc[p] = "send" /\ pc'[p] = "record" /\ UNCHANGED <<row, faults, resets, overruns>>
        /\ held'[p].job = held[p].job /\ held'[p].lease = held[p].lease
        /\ held'[p].attemptNo = held[p].attemptNo
        /\ \A q \in Procs \ {p} : pc'[q] = pc[q] /\ held'[q] = held[q]
        /\ Holding(p) /\ i \in Jobs
    BY <1>6, <1>h, SentHold DEF Send, Goto, TypeOK, Holding
  <2>2. /\ \A j \in Jobs \ {i} : sends'[j] = sends[j]
        /\ sends'[i] \in {sends[i], sends[i] + 1}
    BY <1>6, <2>1 DEF Send, TypeOK
  <2>3. Allowed' = Allowed
    BY <2>1, AllowedGrows
  <2>4. ASSUME NEW j \in Jobs
        PROVE  /\ \A q \in Procs : Holds(q, j)' <=> Holds(q, j)
               /\ Spare(j)' \in Nat /\ Spare(j)' <= Spare(j)
    <3>1. \A q \in Procs : Holds(q, j)' <=> Holds(q, j)
      BY <2>1 DEF Holds, Holding
    <3>2. \A q \in Procs : Covering(q, j) => Covering(q, j)'
      BY <2>1, <3>1 DEF Covering, Counted
    <3> QED BY <1>t, <2>1, <3>1, <3>2, SpareKept
  <2>5. ASSUME NEW j \in Jobs \ {i} PROVE Fits(Tokens(j), sends[j], Spare(j), Allowed)'
    <3>1. Tokens(j)' = Tokens(j)
      BY <2>1, <2>4 DEF Tokens, Spendable, MaxAttempts, Holds
    <3> QED BY <1>s, <1>t, <2>2, <2>3, <2>4, <3>1
  <2>6. Fits(Tokens(i), sends[i], Spare(i), Allowed)'
    <3> DEFINE n == MaxAttempts - held[p].attemptNo + 1
    <3>1. n \in 1..MaxAttempts /\ Spendable(p) = n /\ Holds(p, i)
      BY <1>t, <1>h, <2>1 DEF Spendable, Holds
    <3>2. <<p, n>> \in Tokens(i)
      BY <3>1 DEF Tokens
    <3>3. Tokens(i)' \subseteq Tokens(i) \ {<<p, n>>}
      <4>1. ASSUME NEW t \in Tokens(i)' PROVE t \in Tokens(i) \ {<<p, n>>}
        <5>1. /\ t \in Procs \X (1..MaxAttempts) /\ Holds(t[1], i)'
              /\ t[2] <= Spendable(t[1])'
          BY <4>1 DEF Tokens, MaxAttempts
        <5>2. Holds(t[1], i)
          BY <2>1, <2>4, <5>1
        <5>3. CASE t[1] = p
          <6>1. Spendable(p)' = n - 1
            BY <2>1, <1>h, <1>t DEF Spendable, MaxAttempts
          <6>2. t[2] < n /\ t[2] <= Spendable(p)
            BY <3>1, <5>1, <5>3, <6>1
          <6> QED BY <5>1, <5>2, <5>3, <6>2 DEF Tokens
        <5>4. CASE t[1] # p
          <6>1. Spendable(t[1])' = Spendable(t[1])
            BY <2>1, <5>1, <5>4 DEF Spendable, MaxAttempts
          <6> QED BY <5>1, <5>2, <5>4, <6>1 DEF Tokens
        <5> QED BY <5>3, <5>4
      <4> QED BY <4>1
    <3>4. /\ IsFiniteSet(Tokens(i) \ {<<p, n>>})
          /\ Cardinality(Tokens(i) \ {<<p, n>>}) = Cardinality(Tokens(i)) - 1
      BY <1>t, <2>1, <3>2, FS_RemoveElement
    <3>5. IsFiniteSet(Tokens(i)') /\ Cardinality(Tokens(i)') <= Cardinality(Tokens(i)) - 1
          /\ Cardinality(Tokens(i)') \in Nat
      BY <3>3, <3>4, FS_Subset, FS_CardinalityType
    <3> HIDE DEF n
    <3> QED BY <1>t, <2>1, <2>2, <2>3, <2>4, <3>5 DEF Fits
  <2>7. \A q \in Procs : held'[q].attemptNo >= 1
    BY <1>h, <2>1
  <2> QED BY <1>t, <2>1, <2>5, <2>6, <2>7 DEF SendsInvariant
<1>7. ASSUME NEW p \in Procs, Record(p) PROVE SendsInvariant'
  <2> PICK i, n, result : i = held[p].job /\ n = held[p].attemptNo /\ result = held[p].outcome
    OBVIOUS
  <2>1. /\ pc[p] = "record" /\ pc'[p] = "append_timeline"
        /\ UNCHANGED <<sends, faults, resets, overruns>>
        /\ \A q \in Procs \ {p} : pc'[q] = pc[q] /\ held'[q] = held[q]
        /\ held'[p].attemptNo = n
    BY <1>7 DEF Record, Goto, TypeOK, HoldType
  <2>2. /\ Holding(p) /\ i \in Jobs /\ n \in Nat /\ result \in Outcomes
        /\ n >= 1 /\ n <= MaxAttempts /\ Spendable(p) = MaxAttempts - n
        /\ row'[i].status = StatusAfter(n, result) /\ row'[i].attempt = n
        /\ row'[i].claim = 0
        /\ \A j \in Jobs \ {i} : row'[j] = row[j]
    BY <1>7, <1>h, <2>1, RecordedJob DEF Spendable
  <2>3. Allowed' = Allowed /\ Holds(p, i) /\ Spendable(p) \in Nat
    BY <1>t, <2>1, <2>2, AllowedGrows DEF Holds
  <2>4. ASSUME NEW j \in Jobs \ {i} PROVE Fits(Tokens(j), sends[j], Spare(j), Allowed)'
    <3>1. \A q \in Procs : /\ Holds(q, j)' <=> Holds(q, j)
                           /\ Holds(q, j) => pc'[q] = pc[q] /\ held'[q] = held[q]
      BY <2>1, <2>3 DEF Holds, Holding
    <3>2. Tokens(j)' = Tokens(j)
      BY <3>1 DEF Tokens, Spendable, MaxAttempts
    <3>3. \A q \in Procs : Covering(q, j) => Covering(q, j)'
      BY <2>2, <3>1 DEF Covering, Counted
    <3> QED BY <1>s, <1>t, <2>1, <2>2, <2>3, <3>2, <3>3, SpareKept
  <2>5. Fits(Tokens(i), sends[i], Spare(i), Allowed)'
    <3>1. \A q \in Procs : /\ Holds(q, i)' <=> (Holds(q, i) /\ q # p)
                           /\ q # p => pc'[q] = pc[q] /\ held'[q] = held[q]
      BY <2>1, <2>3 DEF Holds, Holding
    <3>2. Tokens(i)' = Tokens(i) \ Block(p, Spendable(p))
      BY <3>1, <2>3 DEF Tokens, Spendable, MaxAttempts, Block
    <3>3. /\ IsFiniteSet(Tokens(i)')
          /\ Cardinality(Tokens(i)') = Cardinality(Tokens(i)) - Spendable(p)
      BY <1>t, <1>u, <2>2, <2>3, <3>2, BlockLeaves
    <3>4. Spare(i)' \in Nat /\ Spare(i)' <= Spendable(p)
      <4>1. StatusAfter(n, result) \in {"failed", "delivered", "skipped", "dead"}
        BY <2>2, RecordedRow
      <4>2. Spare(i)' \in {0, MaxAttempts - n}
        BY <2>2, <4>1 DEF Spare, Remaining, Counted, Terminal, MaxAttempts
      <4> QED BY <1>t, <2>2, <4>2
    <3> QED BY <1>t, <2>1, <2>2, <2>3, <3>3, <3>4 DEF Fits
  <2>6. \A j \in Jobs : row'[j].attempt >= 1 /\ (row'[j].status = "absent" => row'[j].attempt = 1)
    <3>1. StatusAfter(n, result) # "absent"
      BY <2>2, RecordedRow
    <3> QED BY <1>t, <2>2, <3>1
  <2>7. \A q \in Procs : held'[q].attemptNo >= 1
    BY <1>h, <2>1, <2>2
  <2> QED BY <2>4, <2>5, <2>6, <2>7 DEF SendsInvariant
<1>8. CASE Tick
  <2>1. /\ UNCHANGED <<pc, sends, faults, resets>>
        /\ \A j \in Jobs : /\ row'[j].status = row[j].status /\ row'[j].attempt = row[j].attempt
                           /\ row'[j].claim = Elapse(row[j].claim)
        /\ \A p \in Procs : /\ held'[p].job = held[p].job
                            /\ held'[p].attemptNo = held[p].attemptNo
                            /\ held'[p].lease = Elapse(held[p].lease)
        /\ \/ overruns' = overruns /\ \A p \in Procs : ~RunsOut(p)
           \/ overruns' = overruns + 1
    BY <1>8, TickedTimes DEF Tick
  <2>2. \/ Allowed' = Allowed /\ \A p \in Procs : ~RunsOut(p)
        \/ Allowed' = Allowed + MaxAttempts
    BY <2>1, AllowedGrows
  <2>3. ASSUME NEW j \in Jobs PROVE Fits(Tokens(j), sends[j], Spare(j), Allowed)'
    <3>1. \A p \in Procs : Holds(p, j)' <=> Holds(p, j)
      BY <2>1 DEF Holds, Holding
    <3>2. Tokens(j)' = Tokens(j)
      BY <2>1, <3>1 DEF Tokens, Spendable, MaxAttempts
    <3>3. Spare(j)' \in {0, Remaining(row[j])}
      BY <2>1, SpareKept
    <3>4. ASSUME \A p \in Procs : ~RunsOut(p) PROVE Spare(j)' <= Spare(j)
      <4>1. ASSUME NEW p \in Procs, Covering(p, j) PROVE Covering(p, j)'
        <5>1. row[j].claim \in Nat /\ row[j].claim > 1 /\ held[p].lease = row[j].claim
          BY <1>t, <3>4, <4>1 DEF Covering, RunsOut, Holds
        <5>2. Elapse(row[j].claim) > 0
          BY <5>1, NeverAssumption DEF Elapse
        <5> QED BY <2>1, <3>1, <4>1, <5>1, <5>2 DEF Covering, Counted
      <4> QED BY <2>1, <4>1, SpareKept
    <3> QED BY <1>s, <1>t, <2>1, <2>2, <3>2, <3>3, <3>4
  <2> QED BY <1>h, <1>t, <2>1, <2>3 DEF SendsInvariant
<1> QED BY <1>1, <1>2, <1>3, <1>4, <1>5, <1>6, <1>7, <1>8, SendSteps

(* However many runners, late writers, crashes and re-arming handlers      *)
(* there are, a job is sent once per attempt, once more for every fault,   *)
(* and through the whole schedule again for every overrun and re-arming.   *)
THEOREM SendsAreAccounted == Spec => []SendsAccounted
<1>1. Init => SendsInvariant
  <2> SUFFICES ASSUME Init PROVE SendsInvariant
    OBVIOUS
  <2>1. ASSUME NEW j \in Jobs
        PROVE  /\ row[j].attempt = 1 /\ Tokens(j) = {} /\ sends[j] = 0
               /\ Spare(j) = MaxAttempts
    <3>1. \A p \in Procs : ~Holds(p, j)
      BY DEF Init, Holds, Holding
    <3>2. row[j].status = "absent" /\ row[j].attempt = 1 /\ sends[j] = 0
      BY DEF Init, AbsentRow
    <3>3. Tokens(j) = {}
      BY <3>1 DEF Tokens
    <3>4. Spare(j) = MaxAttempts - (row[j].attempt - 1)
      BY <3>1, <3>2 DEF Spare, Covering, Remaining, Terminal, Counted
    <3> QED BY <3>2, <3>3, <3>4, MaxAttemptsType
  <2>2. Allowed = MaxAttempts
    BY MaxAttemptsType DEF Init, Allowed
  <2>3. \A p \in Procs : held[p].attemptNo = 1
    BY DEF Init, NoHold
  <2>4. ASSUME NEW j \in Jobs PROVE Fits(Tokens(j), sends[j], Spare(j), Allowed)
    BY <2>1, <2>2, MaxAttemptsType, FS_EmptySet DEF Fits
  <2> QED BY <2>1, <2>3, <2>4 DEF SendsInvariant
<1>2. TypeOK /\ PolicyKept /\ SendsInvariant => SendsAccounted
  <2> SUFFICES ASSUME TypeOK, PolicyKept, SendsInvariant, NEW j \in Jobs
               PROVE  sends[j] <= MaxAttempts * (1 + overruns + resets) + faults
    BY DEF SendsAccounted
  <2>1. /\ sends[j] \in Nat /\ Allowed \in Nat /\ Spare(j) \in Nat
        /\ Cardinality(Tokens(j)) \in Nat
        /\ sends[j] + Spare(j) + Cardinality(Tokens(j)) <= Allowed
    BY SpareType, AllowedGrows, FS_CardinalityType DEF TypeOK, SendsInvariant, Fits
  <2>2. sends[j] <= Allowed
    BY <2>1
  <2> QED BY <2>2 DEF Allowed
<1>3. TypeOK /\ PolicyKept /\ SendsInvariant /\ [Next]_vars /\ TypeOK' /\ PolicyKept'
        => SendsInvariant'
  BY SendsInvariantInductive
<1>4. RetryPolicyRespected => PolicyKept
  BY PolicyHalves
<1> QED BY <1>1, <1>2, <1>3, <1>4, TypeCorrect, RetryPolicyHolds, PTL DEF Spec

-----------------------------------------------------------------------------
(* Emissions of one key, one at a time, duplicate nothing.                 *)

Emitting(h) == pc[h] \in {"append_event", "find_job", "append_job"}

(* What the handler of an emission relies on between its statements: what  *)
(* it looked up and did not find is still not there.                       *)
Current(h) ==
  /\ Emitting(h) => call[h].key \in Keys
  /\ pc[h] = "append_event" => \A e \in Events : eventKey[e] # call[h].key
  /\ pc[h] \in {"find_job", "append_job"} =>
       call[h].event \in Events /\ eventKey[call[h].event] = call[h].key
  /\ pc[h] = "append_job" /\ EveryHandlerSends => JobsOf(call[h].event) = {}

(* The strengthening: besides, an id that was never used has no event.     *)
EmissionInvariant ==
  /\ OneEventPerKey
  /\ \A j \in Jobs : row[j].status = "absent" => row[j].event = None
  /\ \A h \in Handlers : Current(h)

(* The steps that only look up, settle or drop what is there: no row or    *)
(* event is added, and an emission still under way stays where it is.      *)
AddsNothing ==
  /\ eventKey' = eventKey
  /\ \A j \in Jobs : /\ row'[j].event = row[j].event
                     /\ row'[j].status = "absent" => row[j].status = "absent"
  /\ \A h \in Handlers :
       (Emitting(h))' => pc'[h] = pc[h] /\ call'[h] = call[h]

LEMMA EmissionSteps ==
  ASSUME TypeOK, [Next]_vars,
         \A j \in Jobs : row[j].status = "absent" => row[j].event = None
  PROVE  \/ AddsNothing
         \/ \E h \in Handlers, k \in Keys : EmitStart(h, k)
         \/ \E h \in Handlers : AppendEvent(h)
         \/ \E h \in Handlers : FindJob(h)
         \/ \E h \in Handlers : AppendJob(h)
<1>0. Handlers \subseteq Procs /\ Workers \subseteq Procs
  BY DEF Procs
<1>t. /\ \A p \in Procs : pc[p] \in Labels
      /\ pc \in [Procs -> Labels] /\ call \in [Procs -> CallType]
      /\ row \in [Jobs -> RowType]
  BY DEF TypeOK
<1>1. ASSUME NEW h \in Handlers, NEW j \in Jobs, ReplayStart(h, j) PROVE AddsNothing
  BY <1>0, <1>1, <1>t DEF ReplayStart, Goto, AddsNothing, Emitting
<1>2. ASSUME NEW h \in Handlers, FindReplayable(h) PROVE AddsNothing
  BY <1>0, <1>2, <1>t DEF FindReplayable, Goto, AddsNothing, Emitting
<1>3. ASSUME NEW h \in Handlers, ResetJob(h) PROVE AddsNothing
  <2>1. \A j \in Jobs : /\ row'[j].event = row[j].event
                        /\ row'[j].status = "absent" => row[j].status = "absent"
    BY <1>3, <1>t DEF ResetJob
  <2> QED BY <2>1, <1>0, <1>3, <1>t DEF ResetJob, Goto, AddsNothing, Emitting
<1>4. ASSUME NEW w \in Workers, ListDue(w) PROVE AddsNothing
  BY <1>0, <1>4, <1>t DEF ListDue, Goto, AddsNothing, Emitting
<1>5. ASSUME NEW p \in Procs, NEW j \in Jobs, Claim(p, j) PROVE AddsNothing
  <2>1. \A i \in Jobs : /\ row'[i].event = row[i].event
                        /\ row'[i].status = row[i].status
    BY <1>5, <1>t DEF Claim, RowType
  <2> QED BY <2>1, <1>0, <1>5, <1>t DEF Claim, Goto, AddsNothing, Emitting
<1>6. ASSUME NEW p \in Procs, NEW j \in Jobs, PassOver(p, j) PROVE AddsNothing
  BY <1>6 DEF PassOver, AddsNothing, Emitting
<1>7. ASSUME NEW p \in Procs, Return(p) \/ Send(p) PROVE AddsNothing
  BY <1>0, <1>7, <1>t DEF Return, Send, Goto, AddsNothing, Emitting
<1>8. ASSUME NEW p \in Procs, Record(p) PROVE AddsNothing
  <2>1. held[p].outcome \in Outcomes /\ held[p].attemptNo \in Nat
    BY <1>8 DEF Record, TypeOK, HoldType
  <2>2. StatusAfter(held[p].attemptNo, held[p].outcome) # "absent"
    BY <2>1, RecordedRow
  <2>3. \A j \in Jobs : /\ row'[j].event = row[j].event
                        /\ row'[j].status = "absent" => row[j].status = "absent"
    BY <1>8, <1>t, <2>2 DEF Record
  <2> QED BY <2>3, <1>0, <1>8, <1>t DEF Record, Goto, AddsNothing, Emitting
<1>9. ASSUME NEW p \in Procs, AppendTimeline(p) \/ NotifyDead(p) PROVE AddsNothing
  BY <1>0, <1>9, <1>t DEF AppendTimeline, NotifyDead, Goto, AddsNothing, Emitting
<1>10. ASSUME NEW p \in Procs, StatementFails(p) \/ Crash(p) PROVE AddsNothing
  BY <1>0, <1>10, <1>t DEF StatementFails, Crash, Goto, AddsNothing, Emitting
<1>11. CASE Tick
  BY <1>11, <1>t DEF Tick, AddsNothing, Emitting, RowType
<1>12. CASE UNCHANGED vars
  BY <1>12 DEF vars, AddsNothing, Emitting
<1>13. CASE \E h \in Handlers : EmitStep(h) \/ FindStep(h) \/ ArmStep(h)
  BY <1>1, <1>2, <1>3, <1>13 DEF EmitStep, FindStep, ArmStep
<1>14. CASE \E p \in Procs : DeliverStep(p)
  BY <1>5, <1>6, <1>7, <1>8, <1>9, <1>14 DEF DeliverStep
<1> QED BY <1>4, <1>10, <1>11, <1>12, <1>13, <1>14 DEF Next

(* No step but one that runs together with another emission of its key     *)
(* duplicates an event or a row.                                           *)
LEMMA EmissionInvariantInductive ==
  ASSUME TypeOK, EmissionInvariant, [Next]_vars, ~Together, ~Together'
  PROVE  EmissionInvariant'
<1>0. Handlers \subseteq Procs
  BY DEF Procs
<1>n. None \notin Keys /\ None \notin Events
  BY NoneAssumption
<1>t. /\ pc \in [Procs -> Labels] /\ call \in [Procs -> CallType]
      /\ row \in [Jobs -> RowType] /\ eventKey \in [Events -> Keys \cup {None}]
  BY DEF TypeOK
<1>i. /\ OneEventPerKey
      /\ \A j \in Jobs : row[j].status = "absent" => row[j].event = None
      /\ \A h \in Handlers : Current(h)
  BY DEF EmissionInvariant
<1>a. \A g, h \in Handlers :
        Emitting(g) /\ Emitting(h) /\ call[g].key = call[h].key => g = h
  BY <1>i, <1>n DEF Together, Current, Emitting
<1>1. CASE AddsNothing
  <2>1. \A e \in Events : (JobsOf(e))' = JobsOf(e)
    BY <1>1, <1>i, <1>n DEF AddsNothing, JobsOf
  <2>2. OneEventPerKey'
    BY <1>1, <1>i, <2>1 DEF AddsNothing, OneEventPerKey, EveryHandlerSends
  <2>3. ASSUME NEW h \in Handlers PROVE Current(h)'
    <3>1. CASE ~(Emitting(h))'
      BY <3>1 DEF Current, Emitting
    <3>2. CASE (Emitting(h))'
      <4>1. pc'[h] = pc[h] /\ call'[h] = call[h] /\ eventKey' = eventKey
        BY <1>1, <3>2 DEF AddsNothing
      <4> QED BY <1>i, <2>1, <4>1 DEF Current, Emitting, EveryHandlerSends
    <3> QED BY <3>1, <3>2
  <2> QED BY <1>1, <1>i, <2>2, <2>3 DEF AddsNothing, EmissionInvariant
<1>2. ASSUME NEW h \in Handlers, NEW k \in Keys, EmitStart(h, k)
      PROVE  EmissionInvariant'
  <2>1. /\ row' = row /\ eventKey' = eventKey
        /\ \A g \in Handlers \ {h} : pc'[g] = pc[g] /\ call'[g] = call[g]
    BY <1>0, <1>2, <1>t DEF EmitStart, Goto
  <2>2. OneEventPerKey'
    BY <1>i, <2>1 DEF OneEventPerKey, JobsOf, EveryHandlerSends
  <2>3. Current(h)'
    <3>1. CASE \E e \in Events : /\ eventKey[e] = k
                                 /\ call' = [call EXCEPT ![h] =
                                      [key |-> k, event |-> e, job |-> None]]
                                 /\ Goto(h, "find_job")
      <4>1. PICK e \in Events : /\ eventKey[e] = k
                                /\ call' = [call EXCEPT ![h] =
                                     [key |-> k, event |-> e, job |-> None]]
                                /\ Goto(h, "find_job")
        BY <3>1
      <4>2. pc'[h] = "find_job" /\ call'[h].key = k /\ call'[h].event = e
        BY <1>0, <1>t, <4>1 DEF Goto
      <4> QED BY <2>1, <4>1, <4>2 DEF Current, Emitting
    <3>2. CASE /\ \A e \in Events : eventKey[e] # k
               /\ call' = [call EXCEPT ![h] = [key |-> k, event |-> None, job |-> None]]
               /\ Goto(h, "append_event")
      <4>1. pc'[h] = "append_event" /\ call'[h].key = k
        BY <1>0, <1>t, <3>2 DEF Goto
      <4> QED BY <2>1, <3>2, <4>1 DEF Current, Emitting
    <3> QED BY <1>2, <3>1, <3>2 DEF EmitStart
  <2>4. \A g \in Handlers \ {h} : Current(g)'
    BY <1>i, <2>1 DEF Current, Emitting, JobsOf, EveryHandlerSends
  <2> QED BY <1>i, <2>1, <2>2, <2>3, <2>4 DEF EmissionInvariant
<1>3. ASSUME NEW h \in Handlers, AppendEvent(h) PROVE EmissionInvariant'
  <2>1. PICK e \in Events : /\ eventKey[e] = None
                            /\ eventKey' = [eventKey EXCEPT ![e] = call[h].key]
                            /\ call' = [call EXCEPT ![h].event = e]
    BY <1>3 DEF AppendEvent
  <2>2. /\ row' = row
        /\ \A g \in Handlers \ {h} : pc'[g] = pc[g] /\ call'[g] = call[g]
        /\ pc[h] = "append_event" /\ pc'[h] = "find_job"
        /\ call'[h].key = call[h].key /\ call'[h].event = e
    BY <1>0, <1>3, <1>t, <2>1 DEF AppendEvent, Goto, CallType
  <2>3. /\ call[h].key \in Keys
        /\ \A f \in Events : eventKey[f] # call[h].key
    BY <1>i, <2>2 DEF Current, Emitting
  <2>4. eventKey'[e] = call[h].key /\ \A f \in Events \ {e} : eventKey'[f] = eventKey[f]
    BY <1>t, <2>1
  <2>5. OneEventPerKey'
    BY <1>i, <2>2, <2>3, <2>4 DEF OneEventPerKey, JobsOf, EveryHandlerSends
  <2>6. Current(h)'
    BY <2>2, <2>3, <2>4 DEF Current, Emitting
  <2>7. ASSUME NEW g \in Handlers \ {h} PROVE Current(g)'
    <3>1. Emitting(g) => call[g].key # call[h].key
      BY <1>a, <2>2 DEF Emitting
    <3>2. pc[g] \in {"find_job", "append_job"} =>
            call[g].event \in Events \ {e}
      BY <1>i, <1>n, <2>1 DEF Current, Emitting
    <3>3. Current(g)
      BY <1>i
    <3> QED BY <2>2, <2>4, <3>1, <3>2, <3>3
            DEF Current, Emitting, JobsOf, EveryHandlerSends
  <2> QED BY <1>i, <2>2, <2>5, <2>6, <2>7 DEF EmissionInvariant
<1>4. ASSUME NEW h \in Handlers, FindJob(h) PROVE EmissionInvariant'
  <2>1. /\ row' = row /\ eventKey' = eventKey
        /\ \A g \in Handlers \ {h} : pc'[g] = pc[g] /\ call'[g] = call[g]
        /\ pc[h] = "find_job" /\ pc'[h] \in {"append_job", "reset_job"}
    BY <1>0, <1>4, <1>t DEF FindJob, Goto
  <2>2. ASSUME pc'[h] = "append_job"
        PROVE  /\ call'[h] = call[h]
               /\ EveryHandlerSends => JobsOf(call[h].event) = {}
    BY <1>0, <1>4, <1>t, <2>2 DEF FindJob, Goto, EveryHandlerSends
  <2>3. OneEventPerKey'
    BY <1>i, <2>1 DEF OneEventPerKey, JobsOf, EveryHandlerSends
  <2>4. Current(h)'
    BY <1>i, <2>1, <2>2 DEF Current, Emitting, JobsOf, EveryHandlerSends
  <2>5. \A g \in Handlers \ {h} : Current(g)'
    BY <1>i, <2>1 DEF Current, Emitting, JobsOf, EveryHandlerSends
  <2> QED BY <1>i, <2>1, <2>3, <2>4, <2>5 DEF EmissionInvariant
<1>5. ASSUME NEW h \in Handlers, AppendJob(h) PROVE EmissionInvariant'
  <2>1. PICK j \in Jobs :
          /\ row[j].status = "absent"
          /\ row' = [row EXCEPT ![j] =
               [status |-> "pending", attempt |-> 1, claim |-> 0,
                wait |-> IF h \in Unconfigured THEN Never ELSE 0,
                event |-> call[h].event]]
    BY <1>5 DEF AppendJob
  <2>2. /\ eventKey' = eventKey
        /\ \A g \in Handlers \ {h} : pc'[g] = pc[g] /\ call'[g] = call[g]
        /\ pc[h] = "append_job" /\ pc'[h] = "process"
    BY <1>0, <1>5, <1>t DEF AppendJob, Goto
  <2>3. /\ row'[j].status = "pending" /\ row'[j].event = call[h].event
        /\ \A i \in Jobs \ {j} : row'[i] = row[i]
    BY <1>t, <2>1
  <2>4. /\ call[h].key \in Keys /\ call[h].event \in Events
        /\ eventKey[call[h].event] = call[h].key
        /\ EveryHandlerSends => JobsOf(call[h].event) = {}
    BY <1>i, <2>2 DEF Current, Emitting
  <2>5. \A e \in Events :
          (JobsOf(e))' = IF e = call[h].event THEN JobsOf(e) \cup {j} ELSE JobsOf(e)
    <3>1. \A e \in Events : j \notin JobsOf(e)
      BY <2>1 DEF JobsOf
    <3> QED BY <2>3, <3>1 DEF JobsOf
  <2>6. OneEventPerKey'
    BY <1>i, <2>2, <2>4, <2>5 DEF OneEventPerKey, EveryHandlerSends
  <2>7. Current(h)'
    BY <2>2 DEF Current, Emitting
  <2>8. ASSUME NEW g \in Handlers \ {h} PROVE Current(g)'
    <3>1. Emitting(g) => call[g].key # call[h].key
      BY <1>a, <2>2 DEF Emitting
    <3>2. pc[g] = "append_job" =>
            call[g].event \in Events /\ call[g].event # call[h].event
      BY <1>i, <2>4, <3>1 DEF Current, Emitting
    <3>3. Current(g)
      BY <1>i
    <3> QED BY <2>2, <2>5, <3>2, <3>3 DEF Current, Emitting, EveryHandlerSends
  <2> QED BY <1>i, <2>3, <2>6, <2>7, <2>8 DEF EmissionInvariant
<1> QED BY <1>1, <1>2, <1>3, <1>4, <1>5, <1>i, EmissionSteps

(* A key records one event with one webhook row, whatever crashed, failed  *)
(* and was retried, in every behaviour in which no two emissions with the  *)
(* key ran at one time: emitNotificationEvent looks before it appends.     *)
THEOREM OneEventHolds == Spec => OneEventUnlessTogether
<1>1. Init => EmissionInvariant
  <2> SUFFICES ASSUME Init PROVE EmissionInvariant
    OBVIOUS
  <2>1. \A h \in Handlers : Current(h)
    BY DEF Init, Current, Emitting, Procs
  <2> QED BY <2>1 DEF Init, EmissionInvariant, OneEventPerKey, JobsOf, AbsentRow
<1>2. EmissionInvariant => OneEventPerKey
  BY DEF EmissionInvariant
<1>3. TypeOK /\ EmissionInvariant /\ [Next]_vars /\ ~Together /\ ~Together'
        => EmissionInvariant'
  BY EmissionInvariantInductive
<1> QED
  BY <1>1, <1>2, <1>3, TypeCorrect, PTL DEF Spec, OneEventUnlessTogether
=============================================================================
