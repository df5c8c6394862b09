--------------------------- MODULE WebhookDelivery ---------------------------
(***************************************************************************)
(* The durable outbound-webhook queue of packages/backend: the rows of     *)
(* notification_events and notification_delivery_attempts, the retry       *)
(* runners that claim, send and record them (services/notifications/       *)
(* retry.ts), and the request handlers that emit and replay them           *)
(* (services/notifications/service.ts).                                    *)
(*                                                                         *)
(* No handler runs in a database transaction, so each SQL statement is one *)
(* action and every process keeps what it read in variables of its own.    *)
(*                                                                         *)
(* Times are kept as the ticks still to go: the code only ever compares    *)
(* next_attempt_at and claim_expires_at with "now".                        *)
(***************************************************************************)
EXTENDS Integers, FiniteSets, Sequences

CONSTANTS
  Workers,           \* retry runners: runWebhookRetryWorker, runWebhookRetries()
  Handlers,          \* request handlers that emit or replay a notification
  Unconfigured,      \* processes whose runtime has no webhook endpoint
  Keys,              \* (request, event type, idempotency key) triples
  Events,            \* ids of notification_events rows
  Jobs,              \* ids of webhook rows of notification_delivery_attempts
  Schedule,          \* retryScheduleMs, in ticks
  RetryMaxAttempts,  \* notificationWebhook.retryMaxAttempts
  Lease,             \* leaseMs = max(timeoutMs, 30000) + 5000, in ticks
  BatchLimit,        \* the limit of listDue
  Outcomes,          \* what a send can come to with the adapter that is bound
  MaxCalls,          \* bound: emissions and replays requested
  MaxFaults,         \* bound: crashes and failing statements
  MaxOverruns,       \* bound: leases that run out under a working holder
  Never              \* SQL NULL of next_attempt_at

Procs == Workers \cup Handlers

ASSUME ScheduleAssumption == Schedule \in Seq(Nat) /\ Schedule # <<>>
ASSUME NumbersAssumption  == /\ RetryMaxAttempts \in Int
                             /\ Lease \in Nat \ {0}
                             /\ BatchLimit \in Nat \ {0}
                             /\ MaxCalls \in Nat
                             /\ MaxFaults \in Nat
                             /\ MaxOverruns \in Nat
ASSUME OutcomesAssumption ==
  Outcomes \subseteq {"delivered", "skipped", "retriable", "rejected"}
ASSUME NeverAssumption    == Never \notin Nat
ASSUME FreshIds           == /\ MaxCalls <= Cardinality(Events)
                             /\ MaxCalls <= Cardinality(Jobs)

None == "none"       \* an optional field that is absent

ASSUME NoneAssumption == None \notin Keys \cup Events \cup Jobs

VARIABLES
  eventKey,   \* notification_events: the key of each row, None when absent
  row,        \* notification_delivery_attempts
  pc,         \* the statement each process executes next
  batch,      \* jobs a process has still to process
  call,       \* what a handler works for: the key it emits, its event, its job
  held,       \* the claim a process took: job, attemptNumber, outcome of the send,
              \* ticks left of its lease
  calls, resets, faults, overruns,   \* bounded counters
  sends, timeline, hooks             \* history: sends, timeline rows, dead hooks

rows    == <<eventKey, row>>
history == <<sends, timeline, hooks>>
budget  == <<calls, resets, faults, overruns>>
vars    == <<rows, pc, batch, call, held, budget, history>>

-----------------------------------------------------------------------------
(* The retry policy (services/notifications/schedule.ts).                  *)

MaxAttempts ==
  LET configured == IF RetryMaxAttempts < 1 THEN 1 ELSE RetryMaxAttempts
      sendable   == Len(Schedule) + 1
  IN  IF configured < sendable THEN configured ELSE sendable

DelayAfterAttempt(n) == IF n \in DOMAIN Schedule THEN Schedule[n] ELSE Never

(* A mutant for the checks: one attempt too many.                          *)
ExhaustedLate(n, result) == n > MaxAttempts \/ result = "rejected"

Exhausted(n, result) == n >= MaxAttempts \/ result = "rejected"

(* next_attempt_at and status after a send.                                *)
WaitAfter(n, result) ==
  IF result \in {"delivered", "skipped"} \/ Exhausted(n, result)
  THEN Never ELSE DelayAfterAttempt(n)

StatusAfter(n, result) ==
  IF result \in {"delivered", "skipped"} THEN result
  ELSE IF WaitAfter(n, result) = Never THEN "dead" ELSE "failed"

-----------------------------------------------------------------------------
(* The rows and who works on them.                                         *)

Statuses == {"absent", "pending", "failed", "delivered", "skipped", "dead"}
Terminal == {"delivered", "skipped", "dead"}

AbsentRow == [status |-> "absent", attempt |-> 1, wait |-> Never, claim |-> 0,
              event |-> None]
NoCall == [key |-> None, event |-> None, job |-> None]
NoHold == [job |-> None, attemptNo |-> 1, outcome |-> "none", lease |-> 0]

(* Mutants: claimDue without its claim condition, or for first sends only. *)
DueUnlessDone(r) == r.status \in {"pending", "failed"} /\ r.wait = 0
DueIfPending(r)  == r.status = "pending" /\ r.wait = 0 /\ r.claim = 0

(* The WHERE clause shared by claimDue and listDue: claim = 0 stands for a *)
(* claim_expires_at that is NULL or not after now.                         *)
Due(r) == r.status \in {"pending", "failed"} /\ r.wait = 0 /\ r.claim = 0

DueJobs    == {j \in Jobs : Due(row[j])}
JobsOf(e)  == {j \in Jobs : row[j].status # "absent" /\ row[j].event = e}
Holding(p) == pc[p] \in {"send", "record"}
Holds(p, j) == Holding(p) /\ held[p].job = j

Goto(p, label) == pc' = [pc EXCEPT ![p] = label]

Init ==
  /\ eventKey = [e \in Events |-> None]
  /\ row = [j \in Jobs |-> AbsentRow]
  /\ pc = [p \in Procs |-> "idle"]
  /\ batch = [p \in Procs |-> {}]
  /\ call = [p \in Procs |-> NoCall]
  /\ held = [p \in Procs |-> NoHold]
  /\ calls = 0 /\ resets = 0 /\ faults = 0 /\ overruns = 0
  /\ sends = [j \in Jobs |-> 0]
  /\ timeline = [j \in Jobs |-> 0]
  /\ hooks = [j \in Jobs |-> 0]

-----------------------------------------------------------------------------
(* Emission and replay: request handlers.                                  *)

(* A mutant: the event is appended without looking for the key.            *)
EmitWithoutLookup(h, k) ==
  /\ pc[h] = "idle" /\ calls < MaxCalls
  /\ calls' = calls + 1
  /\ call' = [call EXCEPT ![h] = [key |-> k, event |-> None, job |-> None]]
  /\ Goto(h, "append_event")
  /\ UNCHANGED <<rows, batch, held, resets, faults, overruns, history>>

(* emitNotificationEvent reads the request's events for this key.          *)
EmitStart(h, k) ==
  /\ pc[h] = "idle" /\ calls < MaxCalls
  /\ calls' = calls + 1
  /\ \/ \E e \in Events :
          /\ eventKey[e] = k
          /\ call' = [call EXCEPT ![h] = [key |-> k, event |-> e, job |-> None]]
          /\ Goto(h, "find_job")
     \/ /\ \A e \in Events : eventKey[e] # k
        /\ call' = [call EXCEPT ![h] = [key |-> k, event |-> None, job |-> None]]
        /\ Goto(h, "append_event")
  /\ UNCHANGED <<rows, batch, held, resets, faults, overruns, history>>

(* notificationEvents.append under a fresh id.                             *)
AppendEvent(h) ==
  /\ pc[h] = "append_event"
  /\ \E e \in Events :
       /\ eventKey[e] = None
       /\ eventKey' = [eventKey EXCEPT ![e] = call[h].key]
       /\ call' = [call EXCEPT ![h].event = e]
  /\ Goto(h, "find_job")
  /\ UNCHANGED <<row, batch, held, budget, history>>

(* A mutant: only a job the event already has is looked for.               *)
FindExistingJob(h) ==
  /\ pc[h] = "find_job"
  /\ \E j \in JobsOf(call[h].event) : call' = [call EXCEPT ![h].job = j]
  /\ Goto(h, "reset_job")
  /\ UNCHANGED <<rows, batch, held, budget, history>>

(* Without an endpoint the handler only records a pending row; otherwise   *)
(* it looks for the webhook job the event already has.                     *)
FindJob(h) ==
  /\ pc[h] = "find_job"
  /\ \/ /\ h \in Unconfigured \/ JobsOf(call[h].event) = {}
        /\ Goto(h, "append_job")
        /\ UNCHANGED call
     \/ /\ h \notin Unconfigured
        /\ \E j \in JobsOf(call[h].event) : call' = [call EXCEPT ![h].job = j]
        /\ Goto(h, "reset_job")
  /\ UNCHANGED <<rows, batch, held, budget, history>>

(* appendDeliveryAttempt: due at once, or with no next_attempt_at at all.  *)
AppendJob(h) ==
  /\ pc[h] = "append_job"
  /\ \E j \in Jobs :
       /\ row[j].status = "absent"
       /\ row' = [row EXCEPT ![j] =
            [status |-> "pending", attempt |-> 1, claim |-> 0,
             wait |-> IF h \in Unconfigured THEN Never ELSE 0,
             event |-> call[h].event]]
       /\ batch' = [batch EXCEPT ![h] = IF h \in Unconfigured THEN {} ELSE {j}]
  /\ call' = [call EXCEPT ![h] = NoCall]
  /\ Goto(h, "process")
  /\ UNCHANGED <<eventKey, held, budget, history>>

(* The replay route admits a row it read as failed or dead, and            *)
(* replayWebhookDispatch then looks the job up again by its event.         *)
ReplayStart(h, j) ==
  /\ pc[h] = "idle" /\ calls < MaxCalls /\ h \notin Unconfigured
  /\ row[j].status \in {"failed", "dead"}
  /\ calls' = calls + 1
  /\ call' = [call EXCEPT ![h] =
       [key |-> None, event |-> row[j].event, job |-> None]]
  /\ Goto(h, "find_replayable")
  /\ UNCHANGED <<rows, batch, held, resets, faults, overruns, history>>

FindReplayable(h) ==
  LET jobs == JobsOf(call[h].event)
      open == {j \in jobs : row[j].status \in {"pending", "failed", "dead"}}
  IN  /\ pc[h] = "find_replayable"
      /\ \E j \in IF open # {} THEN open ELSE jobs :
           call' = [call EXCEPT ![h].job = j]
      /\ Goto(h, "reset_job")
      /\ UNCHANGED <<rows, batch, held, budget, history>>

(* Emission and replay re-arm an existing row the same way, whatever its   *)
(* status and whoever holds its claim; the attempt number stays.           *)
ResetJob(h) ==
  /\ pc[h] = "reset_job"
  /\ row' = [row EXCEPT ![call[h].job] =
       [status |-> "pending", attempt |-> @.attempt, wait |-> 0, claim |-> 0,
        event |-> @.event]]
  /\ batch' = [batch EXCEPT ![h] = {call[h].job}]
  /\ call' = [call EXCEPT ![h] = NoCall]
  /\ resets' = resets + 1
  /\ Goto(h, "process")
  /\ UNCHANGED <<eventKey, held, calls, faults, overruns, history>>

-----------------------------------------------------------------------------
(* Delivery: processDueJobsForTenant and processWebhookDeliveryJob.        *)

(* One poll: listDue returns at most BatchLimit due rows.                  *)
ListDue(w) ==
  /\ pc[w] = "idle" /\ DueJobs # {}
  /\ \E due \in SUBSET DueJobs :
       /\ \/ Cardinality(due) = BatchLimit
          \/ due = DueJobs /\ Cardinality(due) < BatchLimit
       /\ batch' = [batch EXCEPT ![w] = due]
  /\ Goto(w, "process")
  /\ UNCHANGED <<rows, call, held, budget, history>>

(* claimDue: the conditional UPDATE ... RETURNING.                         *)
Claim(p, j) ==
  /\ pc[p] = "process" /\ j \in batch[p]
  /\ p \notin Unconfigured /\ Due(row[j])
  /\ row' = [row EXCEPT ![j] = [@ EXCEPT !.claim = Lease]]
  /\ batch' = [batch EXCEPT ![p] = @ \ {j}]
  /\ held' = [held EXCEPT ![p] =
       [job |-> j, outcome |-> "none", lease |-> Lease,
        attemptNo |-> IF row[j].status = "pending" THEN row[j].attempt
                      ELSE row[j].attempt + 1]]
  /\ Goto(p, "send")
  /\ UNCHANGED <<eventKey, call, budget, history>>

(* claimDue returned no row, or there is no endpoint to send to.           *)
PassOver(p, j) ==
  /\ pc[p] = "process" /\ j \in batch[p]
  /\ p \in Unconfigured \/ ~Due(row[j])
  /\ batch' = [batch EXCEPT ![p] = @ \ {j}]
  /\ UNCHANGED <<rows, pc, call, held, budget, history>>

(* The call returns; a runner waits for its next poll.                     *)
Return(p) ==
  /\ pc[p] = "process" /\ batch[p] = {}
  /\ Goto(p, "idle")
  /\ UNCHANGED <<rows, batch, call, held, budget, history>>

(* sendWebhook. An unknown event type or a signing key that cannot be      *)
(* loaded is a failed outcome without a request on the wire.               *)
Send(p) ==
  /\ pc[p] = "send"
  /\ \E result \in Outcomes :
       /\ held' = [held EXCEPT ![p] = [@ EXCEPT !.outcome = result]]
       /\ \/ sends' = [sends EXCEPT ![held[p].job] = @ + 1]
          \/ result \in {"retriable", "rejected"} /\ UNCHANGED sends
  /\ Goto(p, "record")
  /\ UNCHANGED <<rows, batch, call, budget, timeline, hooks>>

(* notificationDeliveryAttempts.update, by id alone.                       *)
Record(p) ==
  LET n == held[p].attemptNo
      result == held[p].outcome
  IN  /\ pc[p] = "record"
      /\ row' = [row EXCEPT ![held[p].job] =
           [status |-> StatusAfter(n, result), attempt |-> n,
            wait |-> WaitAfter(n, result), claim |-> 0, event |-> @.event]]
      /\ held' = [held EXCEPT ![p] = [@ EXCEPT !.lease = 0]]
      /\ Goto(p, "append_timeline")
      /\ UNCHANGED <<eventKey, batch, call, budget, history>>

(* appendWebhookAttemptTimeline.                                           *)
AppendTimeline(p) ==
  /\ pc[p] = "append_timeline"
  /\ timeline' = [timeline EXCEPT ![held[p].job] = @ + 1]
  /\ IF StatusAfter(held[p].attemptNo, held[p].outcome) = "dead"
     THEN Goto(p, "dead_hook") /\ UNCHANGED held
     ELSE Goto(p, "process") /\ held' = [held EXCEPT ![p] = NoHold]
  /\ UNCHANGED <<rows, batch, call, budget, sends, hooks>>

(* A mutant: the hook is skipped.                                          *)
NotifyNobody(p) ==
  /\ pc[p] = "dead_hook"
  /\ held' = [held EXCEPT ![p] = NoHold]
  /\ Goto(p, "process")
  /\ UNCHANGED <<rows, batch, call, budget, history>>

(* notifyDeadWebhook: bounded by a timeout, its failures ignored.          *)
NotifyDead(p) ==
  /\ pc[p] = "dead_hook"
  /\ hooks' = [hooks EXCEPT ![held[p].job] = @ + 1]
  /\ held' = [held EXCEPT ![p] = NoHold]
  /\ Goto(p, "process")
  /\ UNCHANGED <<rows, batch, call, budget, sends, timeline>>

-----------------------------------------------------------------------------
(* Faults and time.                                                        *)

(* A statement of the job fails: the runner swallows the error and goes on *)
(* with its batch, the handler's call ends (its batch is empty by then).   *)
StatementFails(p) ==
  /\ pc[p] \in {"send", "record", "append_timeline"} /\ faults < MaxFaults
  /\ faults' = faults + 1
  /\ held' = [held EXCEPT ![p] = NoHold]
  /\ Goto(p, "process")
  /\ UNCHANGED <<rows, batch, call, calls, resets, overruns, history>>

(* The process dies, or a handler's statement fails before the claim.      *)
Crash(p) ==
  /\ pc[p] # "idle" /\ faults < MaxFaults
  /\ faults' = faults + 1
  /\ batch' = [batch EXCEPT ![p] = {}]
  /\ call' = [call EXCEPT ![p] = NoCall]
  /\ held' = [held EXCEPT ![p] = NoHold]
  /\ Goto(p, "idle")
  /\ UNCHANGED <<rows, calls, resets, overruns, history>>

(* A mutant: an expired time is not recognised as one.                     *)
ElapseAlways(t) == IF t = Never THEN t ELSE t - 1

(* Times at or before now are all alike to the code.                       *)
Elapse(t) == IF t = Never \/ t = 0 THEN t ELSE t - 1

RunsOut(p) == Holding(p) /\ held[p].lease = 1

(* One tick. An outgoing request is aborted at timeoutMs, five seconds     *)
(* before its lease ends; MaxOverruns bounds the stalls beyond that.       *)
Tick ==
  /\ \/ (\A p \in Procs : ~RunsOut(p)) /\ UNCHANGED overruns
     \/ /\ \E p \in Procs : RunsOut(p)
        /\ overruns < MaxOverruns
        /\ overruns' = overruns + 1
  /\ row' = [j \in Jobs |->
       [row[j] EXCEPT !.wait = Elapse(@), !.claim = Elapse(@)]]
  /\ held' = [p \in Procs |-> [held[p] EXCEPT !.lease = Elapse(@)]]
  /\ UNCHANGED <<eventKey, pc, batch, call, calls, resets, faults, history>>

-----------------------------------------------------------------------------
EmitStep(h) ==
  \/ \E k \in Keys : EmitStart(h, k)
  \/ \E j \in Jobs : ReplayStart(h, j)

FindStep(h) == AppendEvent(h) \/ FindJob(h) \/ FindReplayable(h)

ArmStep(h) == AppendJob(h) \/ ResetJob(h)

DeliverStep(p) ==
  \/ \E j \in Jobs : Claim(p, j) \/ PassOver(p, j)
  \/ Return(p) \/ Send(p) \/ Record(p) \/ AppendTimeline(p) \/ NotifyDead(p)

Next ==
  \/ \E h \in Handlers : EmitStep(h) \/ FindStep(h) \/ ArmStep(h)
  \/ \E w \in Workers : ListDue(w)
  \/ \E p \in Procs : DeliverStep(p) \/ StatementFails(p) \/ Crash(p)
  \/ Tick

Spec == Init /\ [][Next]_vars

(* Every started call runs on (EmitStep is a client's choice), a retry     *)
(* runner polls forever, and time passes.                                  *)
Fairness ==
  /\ \A h \in Handlers : WF_vars(FindStep(h) \/ ArmStep(h))
  /\ \A w \in Workers : WF_vars(ListDue(w))
  /\ \A p \in Procs : WF_vars(DeliverStep(p))
  /\ WF_vars(Tick)

FairSpec == Spec /\ Fairness

-----------------------------------------------------------------------------
(* Properties.                                                             *)

RowType == [status : Statuses, attempt : Nat, wait : Nat \cup {Never},
            claim : 0..Lease, event : Events \cup {None}]

CallType == [key : Keys \cup {None}, event : Events \cup {None},
             job : Jobs \cup {None}]

HoldType == [job : Jobs \cup {None}, attemptNo : Nat,
             outcome : Outcomes \cup {"none"}, lease : 0..Lease]

Labels == {"idle", "append_event", "find_job", "append_job", "find_replayable",
           "reset_job", "process", "send", "record", "append_timeline",
           "dead_hook"}

(* Every variable keeps its type; the processes that work on a job have    *)
(* named one.                                                              *)
TypeOK ==
  /\ eventKey \in [Events -> Keys \cup {None}]
  /\ row \in [Jobs -> RowType]
  /\ pc \in [Procs -> Labels]
  /\ batch \in [Procs -> SUBSET Jobs]
  /\ call \in [Procs -> CallType]
  /\ held \in [Procs -> HoldType]
  /\ calls \in Nat /\ resets \in Nat /\ faults \in Nat /\ overruns \in Nat
  /\ sends \in [Jobs -> Nat] /\ timeline \in [Jobs -> Nat]
  /\ hooks \in [Jobs -> Nat]
  /\ \A p \in Procs :
       /\ pc[p] \in {"send", "record", "append_timeline", "dead_hook"} =>
            held[p].job \in Jobs
       /\ pc[p] \in {"record", "append_timeline", "dead_hook"} =>
            held[p].outcome \in Outcomes
       /\ pc[p] = "reset_job" => call[p].job \in Jobs

(* However late, repeated or interleaved the writes of a row are, a row    *)
(* the runners may still pick up has attempts left, a settled row is never *)
(* due again by itself, and no attempt number passes the policy's maximum. *)
RetryPolicyRespected ==
  /\ \A j \in Jobs :
       /\ row[j].attempt <= MaxAttempts
       /\ row[j].status = "failed" =>
            row[j].attempt < MaxAttempts /\ row[j].wait # Never
       /\ row[j].status \in Terminal => row[j].wait = Never /\ row[j].claim = 0
  /\ \A p \in Procs : Holding(p) => held[p].attemptNo <= MaxAttempts

DelaysCoverLease == \A n \in DOMAIN Schedule : Schedule[n] >= Lease

(* While no handler re-arms the row, two processes never hold unexpired    *)
(* leases on one job: not even when a holder whose lease ran out writes    *)
(* the row and clears the claim its successor took, as long as every       *)
(* backoff is at least a lease (the default schedule's shortest is 60s).   *)
LeaseExclusive ==
  DelaysCoverLease /\ resets = 0 =>
    \A p, q \in Procs : \A j \in Jobs :
      Holds(p, j) /\ Holds(q, j) /\ held[p].lease > 0 /\ held[q].lease > 0 => p = q

(* Without re-arming and without an overrun lease, a recorded outcome      *)
(* stands: the attempt number never goes back and a settled row is never   *)
(* written again, whatever crashes and failing statements do.              *)
ProgressNeverUndone ==
  [][resets' = 0 /\ overruns = 0 =>
       \A j \in Jobs :
         /\ row[j].status # "absent" => row'[j].attempt >= row[j].attempt
         /\ row[j].status \in Terminal => row'[j] = row[j]]_vars

(* A job is sent at most once per attempt the policy allows, once more for *)
(* every fault, and through the whole schedule again for every overrun     *)
(* lease and every time a handler re-arms it.                              *)
SendsAccounted ==
  \A j \in Jobs :
    sends[j] <= MaxAttempts * (1 + overruns + resets) + faults

(* A job nobody disturbed has one webhook_delivery_attempted timeline row  *)
(* for each attempt its delivery-attempt row counts.                       *)
TimelineMatchesAttempts ==
  resets = 0 /\ overruns = 0 /\ faults = 0 =>
    \A j \in Jobs :
      timeline[j] + Cardinality({p \in Procs : pc[p] = "append_timeline" /\ held[p].job = j})
        = IF row[j].status \in {"absent", "pending"} THEN row[j].attempt - 1
          ELSE row[j].attempt

(* onDeadWebhook runs at most once for each time a job is armed.           *)
DeadReportedOnce ==
  overruns = 0 => \A j \in Jobs : hooks[j] <= 1 + resets

(* A dead job is reported, unless a fault intervened.                      *)
DeadIsReported ==
  \A j \in Jobs : row[j].status = "dead" ~> (hooks[j] > 0 \/ faults > 0)

(* Runners that keep polling settle every job that has a next attempt, in  *)
(* spite of the crashes, stalls and replays the bounds allow.              *)
EveryDueJobSettles ==
  \A j \in Jobs :
    (row[j].status \in {"pending", "failed"} /\ row[j].wait # Never)
      ~> row[j].status \in Terminal

(* An event that was recorded gets a delivery row, unless a fault hit the  *)
(* handler between its two appends.                                        *)
EveryEventGetsJob ==
  \A e \in Events : eventKey[e] # None ~> (JobsOf(e) # {} \/ faults > 0)

(* What two emissions at one time can spoil: a key has one event and, where *)
(* every handler has an endpoint, an event one webhook row. A handler      *)
(* without one appends a pending row at every call.                        *)
EveryHandlerSends == Handlers \cap Unconfigured = {}

OneEventPerKey ==
  /\ \A e, f \in Events : eventKey[e] # None /\ eventKey[e] = eventKey[f] => e = f
  /\ EveryHandlerSends => \A e \in Events : \A i, j \in JobsOf(e) : i = j

(* Two emissions with one key run at the same time.                        *)
Together ==
  \E g, h \in Handlers :
    /\ g # h /\ pc[g] # "idle" /\ pc[h] # "idle"
    /\ call[g].key # None /\ call[g].key = call[h].key

(* A key records one event with one webhook row, whatever failed and was   *)
(* retried, unless two emissions with the key ran at the same time.        *)
OneEventUnlessTogether == []OneEventPerKey \/ <>Together

=============================================================================
