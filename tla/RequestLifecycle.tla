---------------------------- MODULE RequestLifecycle ----------------------------
(***************************************************************************)
(* transitionRequestLifecycle (lifecycle/service.ts) and the authority     *)
(* routes (routes/requests.ts) as the statements they execute against one  *)
(* request that has been captured. Nothing runs in a transaction: handlers *)
(* interleave between statements, and a call can end after any of them.    *)
(* The repository's update is itself two statements, a read of the row and *)
(* an UPDATE of every column.                                              *)
(***************************************************************************)
EXTENDS LegalClock, StateMachine, SequencesExt

CONSTANTS
  Handlers,         \* requests being served at the same time
  Calls,            \* lifecycle calls clients make: [action, days, key]
  AuthorityCalls,   \* actions of the authority routes clients call
  NoKey,            \* a call without an x-idempotency-key
  MaxCalls,         \* bound: calls made
  MaxFaults,        \* bound: calls that end early
  MaxTime           \* bound: days that pass

VARIABLES
  row,        \* the requests row; "basis" is history: the segments of the
              \* computation its due date comes from
  timeline,   \* request_timeline_events as listByRequestId orders them
  segments,   \* request_clock_segments, as signatures
  now,
  pc,         \* the statement each handler executes next
  call,       \* what it was called for and has found out so far
  fetched,    \* the row update() has read
  calls, faults,                                  \* bounded counters
  applied, audited, notified, accepted, overlapped   \* history

AuthorityByAction == [authority_submit  |-> "pending",
                      authority_approve |-> "verified",
                      authority_reject  |-> "rejected"]

ASSUME CallsAssumption ==
  /\ \A c \in Calls : /\ c.action \in Actions
                      /\ c.days \in Int
                      /\ c.action # "extension" => c.days = 0
  /\ AuthorityCalls \subseteq DOMAIN AuthorityByAction
  /\ MaxCalls \in Nat /\ MaxFaults \in Nat /\ MaxTime \in Nat

db      == <<row, timeline, segments>>
history == <<applied, audited, notified, accepted, overlapped>>
budget  == <<calls, faults>>
vars    == <<db, now, pc, call, fetched, budget, history>>

InitialRow == [status |-> "captured", due |-> ResponseDays,
               authority |-> "not_required", basis |-> Segments(<<>>, 0)]
NoCall == [id |-> 0, action |-> "none", days |-> 0, key |-> NoKey,
           seen |-> "captured", at |-> 0, due |-> ResponseDays, basis |-> {},
           pending |-> {}]

IsAuthority(h) == call[h].action \in DOMAIN AuthorityByAction
Busy(h) == pc[h] # "idle"
Goto(h, label) == pc' = [pc EXCEPT ![h] = label]
Finish(h) == Goto(h, "idle") /\ call' = [call EXCEPT ![h] = NoCall]

Init ==
  /\ row = InitialRow /\ timeline = <<>> /\ segments = Segments(<<>>, 0)
  /\ now = 0
  /\ pc = [h \in Handlers |-> "idle"]
  /\ call = [h \in Handlers |-> NoCall]
  /\ fetched = [h \in Handlers |-> InitialRow]
  /\ calls = 0 /\ faults = 0
  /\ applied = {} /\ audited = {} /\ notified = {} /\ accepted = {}
  /\ overlapped = FALSE

-----------------------------------------------------------------------------
(* The request is read; a lifecycle call keeps its status.                 *)
Begin(h, c, label) ==
  /\ ~Busy(h) /\ calls < MaxCalls
  /\ calls' = calls + 1
  /\ call' = [call EXCEPT ![h] =
       [NoCall EXCEPT !.id = calls + 1, !.action = c.action, !.days = c.days,
                      !.key = c.key, !.seen = row.status, !.at = now]]
  /\ overlapped' = (overlapped \/ \E g \in Handlers : Busy(g))
  /\ Goto(h, label)
  /\ UNCHANGED <<db, now, fetched, faults, applied, audited, notified, accepted>>

StartTransition(h) == \E c \in Calls : Begin(h, c, "check")

StartAuthority(h) ==
  \E a \in AuthorityCalls :
    Begin(h, [action |-> a, days |-> 0, key |-> NoKey], "fetch")

KeyKnown(key) == key # NoKey /\ \E i \in 1..Len(timeline) : timeline[i].key = key

(* A mutant: the key of the call is not looked up.                         *)
CheckWithoutKey(h) ==
  /\ pc[h] = "check"
  /\ \/ /\ Permitted(call[h].action, call[h].seen)
        /\ call' = [call EXCEPT ![h].at = now]
        /\ Goto(h, "append")
     \/ ~Permitted(call[h].action, call[h].seen) /\ Finish(h)
  /\ UNCHANGED <<db, now, fetched, budget, history>>

(* A mutant: the row is updated without the event.                         *)
CheckThenUpdate(h) ==
  /\ pc[h] = "check"
  /\ \/ /\ ~KeyKnown(call[h].key)
        /\ Permitted(call[h].action, call[h].seen)
        /\ call' = [call EXCEPT ![h].at = now]
        /\ Goto(h, "recompute")
     \/ /\ KeyKnown(call[h].key) \/ ~Permitted(call[h].action, call[h].seen)
        /\ Finish(h)
  /\ UNCHANGED <<db, now, fetched, budget, history>>

(* The timeline is listed for the key: a known one is answered as accepted *)
(* with the row as it was read. Otherwise the policy and the state machine *)
(* decide on that row, and the call's time is taken.                       *)
Check(h) ==
  /\ pc[h] = "check"
  /\ \/ /\ KeyKnown(call[h].key)
        /\ accepted' = accepted \cup {call[h].key}
        /\ Finish(h)
     \/ /\ ~KeyKnown(call[h].key)
        /\ Permitted(call[h].action, call[h].seen)
        /\ call' = [call EXCEPT ![h].at = now]
        /\ Goto(h, "append")
        /\ UNCHANGED accepted
     \/ /\ ~KeyKnown(call[h].key)
        /\ ~Permitted(call[h].action, call[h].seen)
        /\ Finish(h)
        /\ UNCHANGED accepted
  /\ UNCHANGED <<db, now, fetched, budget, applied, audited, notified, overlapped>>

(* timeline.append; the listing is ordered by created_at, the time the     *)
(* handler took before, so a slow append can land before later events.     *)
AppendEvent(h) ==
  LET e == [id |-> call[h].id, action |-> call[h].action, at |-> call[h].at,
            days |-> call[h].days, key |-> call[h].key]
      earlier == Cardinality({i \in 1..Len(timeline) : timeline[i].at <= e.at})
  IN  /\ pc[h] = "append"
      /\ timeline' = InsertAt(timeline, earlier + 1, e)
      /\ Goto(h, IF IsAuthority(h) THEN "audit" ELSE "recompute")
      /\ UNCHANGED <<row, segments, now, call, fetched, budget, history>>

(* A mutant: the clock is recomputed from the events of the calls before.  *)
RecomputeWithoutOwnEvent(h) ==
  /\ pc[h] = "recompute"
  /\ LET earlier  == SelectSeq(timeline, LAMBDA e : e.id # call[h].id)
         computed == Segments(earlier, call[h].at)
     IN  call' = [call EXCEPT ![h] =
           [@ EXCEPT !.due = FinalDueAt(earlier, call[h].at),
                     !.basis = computed, !.pending = computed \ segments]]
  /\ Goto(h, "segments")
  /\ UNCHANGED <<db, now, fetched, budget, history>>

(* The timeline and the segments are listed and the clock recomputed.      *)
Recompute(h) ==
  /\ pc[h] = "recompute"
  /\ LET computed == Segments(timeline, call[h].at)
     IN  call' = [call EXCEPT ![h] =
           [@ EXCEPT !.due = FinalDueAt(timeline, call[h].at),
                     !.basis = computed, !.pending = computed \ segments]]
  /\ Goto(h, "segments")
  /\ UNCHANGED <<db, now, fetched, budget, history>>

(* clockSegments.append, one segment at a time.                            *)
AppendSegment(h) ==
  /\ pc[h] = "segments"
  /\ \E s \in call[h].pending :
       /\ segments' = segments \cup {s}
       /\ call' = [call EXCEPT ![h].pending = @ \ {s}]
  /\ UNCHANGED <<row, timeline, now, pc, fetched, budget, history>>

(* A mutant: the row is updated before its segments are appended.          *)
FetchRowEarly(h) ==
  /\ pc[h] \in {"fetch", "segments"}
  /\ fetched' = [fetched EXCEPT ![h] = row]
  /\ Goto(h, "write")
  /\ UNCHANGED <<db, now, call, budget, history>>

(* requests.update reads the row ...                                       *)
FetchRow(h) ==
  /\ \/ pc[h] = "fetch"
     \/ pc[h] = "segments" /\ call[h].pending = {}
  /\ fetched' = [fetched EXCEPT ![h] = row]
  /\ Goto(h, "write")
  /\ UNCHANGED <<db, now, call, budget, history>>

Updated(h) ==
  IF IsAuthority(h)
  THEN [fetched[h] EXCEPT !.authority = AuthorityByAction[call[h].action]]
  ELSE [fetched[h] EXCEPT !.status = StatusByAction[call[h].action],
                          !.due = call[h].due, !.basis = call[h].basis]

(* ... and writes all of it back with the columns of the patch replaced.   *)
WriteRow(h) ==
  /\ pc[h] = "write"
  /\ row' = Updated(h)
  /\ applied' = IF IsAuthority(h) THEN applied ELSE applied \cup {call[h].id}
  /\ Goto(h, IF IsAuthority(h) THEN "append" ELSE "audit")
  /\ UNCHANGED <<timeline, segments, now, call, fetched, budget,
                 audited, notified, accepted, overlapped>>

(* A mutant: the call is over once it is audited.                          *)
AppendAuditOnly(h) ==
  /\ pc[h] = "audit"
  /\ audited' = audited \cup {call[h].id}
  /\ Finish(h)
  /\ UNCHANGED <<db, now, fetched, budget, applied, notified, accepted, overlapped>>

(* appendAuditEvent.                                                       *)
AppendAudit(h) ==
  /\ pc[h] = "audit"
  /\ audited' = audited \cup {call[h].id}
  /\ IF IsAuthority(h) THEN Finish(h) ELSE Goto(h, "notify") /\ UNCHANGED call
  /\ UNCHANGED <<db, now, fetched, budget, applied, notified, accepted, overlapped>>

(* The notifications of the transition are emitted and it is answered.     *)
Notify(h) ==
  /\ pc[h] = "notify"
  /\ notified' = notified \cup {call[h].id}
  /\ accepted' = accepted \cup ({call[h].key} \ {NoKey})
  /\ Finish(h)
  /\ UNCHANGED <<db, now, fetched, budget, applied, audited, overlapped>>

(* A statement fails (an error is answered) or the process dies.           *)
Fail(h) ==
  /\ Busy(h) /\ faults < MaxFaults
  /\ faults' = faults + 1
  /\ Finish(h)
  /\ UNCHANGED <<db, now, fetched, calls, history>>

Pass ==
  /\ now < MaxTime /\ now' = now + 1
  /\ UNCHANGED <<db, pc, call, fetched, budget, history>>

Step(h) ==
  \/ Check(h) \/ AppendEvent(h) \/ Recompute(h) \/ AppendSegment(h)
  \/ FetchRow(h) \/ WriteRow(h) \/ AppendAudit(h) \/ Notify(h)

Next ==
  \/ \E h \in Handlers : StartTransition(h) \/ StartAuthority(h) \/ Step(h) \/ Fail(h)
  \/ Pass

Spec == Init /\ [][Next]_vars

(* A call that was started runs on.                                        *)
FairSpec == Spec /\ \A h \in Handlers : WF_vars(Step(h))

-----------------------------------------------------------------------------
(* Properties.                                                             *)

(* However calls interleave and wherever they end, the status a request    *)
(* shows is the outcome of a call whose event is in its timeline.          *)
StatusHasEvent ==
  \/ row.status = "captured"
  \/ \E i \in 1..Len(timeline) :
       /\ timeline[i].id \in applied
       /\ timeline[i].action \in Actions
       /\ row.status = StatusByAction[timeline[i].action]

(* The due date a request shows was computed from segments that are all    *)
(* persisted: the clock explains it after a crash between any two          *)
(* statements, and when another handler wrote the row last.                *)
DueIsExplained == row.basis \subseteq segments

(* Calls that do not overlap record an event at most once per key, retries *)
(* of calls that failed half way included.                                 *)
OneCallPerKey ==
  \A i, j \in 1..Len(timeline) :
    ~overlapped /\ timeline[i].key = timeline[j].key /\ timeline[i].key # NoKey
      => i = j

(* As long as no call fails, the audit trail and the notifications catch   *)
(* up with the calls that have changed the row.                            *)
AppliedIsAnnounced ==
  []<>(faults = 0 => applied \subseteq notified \cap audited)

(* What a lifecycle call has recorded counts once it has reached the row or *)
(* ended: until then the call has not happened for Lifecycle.              *)
UnderWay ==
  {call[h].id : h \in {g \in Handlers : pc[g] \in {"recompute", "segments", "write"}}}

(* The lifecycle events of a timeline, without those of the calls hidden.  *)
LogOf(events, hidden, done) ==
  LET log[i \in 0..Len(events)] ==
        IF i = 0 THEN <<>>
        ELSE IF events[i].action \in Actions /\ events[i].id \notin hidden
        THEN Append(log[i - 1],
                    [action |-> events[i].action, at |-> events[i].at,
                     days |-> events[i].days, done |-> events[i].id \in done])
        ELSE log[i - 1]
  IN  log[Len(events)]

RecordedLog == LogOf(timeline, UnderWay, applied)

Life == INSTANCE Lifecycle WITH
  Extensions <- {c.days : c \in {k \in Calls : k.action = "extension"}},
  MaxEvents <- MaxCalls,
  status <- row.status, due <- row.due, log <- RecordedLog

(* Calls served one at a time, failures included, are the atomic calls of  *)
(* Lifecycle.                                                              *)
AtomicWhenAlone == Life!Spec

(* dsar-be-1500.mdx calls an internal runtime error retryable: a call      *)
(* answered as accepted has been applied, by it or by an earlier try.      *)
AcceptedRetryIsApplied ==
  \A key \in accepted :
    \E i \in 1..Len(timeline) : timeline[i].key = key /\ timeline[i].id \in applied
=============================================================================
