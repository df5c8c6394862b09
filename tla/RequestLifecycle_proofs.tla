------------------------ MODULE RequestLifecycle_proofs ------------------------
(***************************************************************************)
(* Theorems about RequestLifecycle for any number of handlers and calls,   *)
(* any policy and any number of failures.                                  *)
(***************************************************************************)
EXTENDS RequestLifecycle, LegalClock_proofs, SequenceTheorems

Keys   == {c.key : c \in Calls} \cup {NoKey}
Served == Actions \cup AuthorityCalls
Events == [id : Nat, action : Served, at : Nat, days : Int, key : Keys]

USE DEF db, history, budget

(* Inserting an element keeps every other element of a sequence.           *)
LEMMA InsertKeeps ==
  ASSUME NEW S, NEW s \in Seq(S), NEW e \in S, NEW n \in 1..(Len(s) + 1)
  PROVE  /\ InsertAt(s, n, e) \in Seq(S)
         /\ \E i \in 1..Len(InsertAt(s, n, e)) : InsertAt(s, n, e)[i] = e
         /\ \A k \in 1..Len(s) : \E i \in 1..Len(InsertAt(s, n, e)) :
              InsertAt(s, n, e)[i] = s[k]
         /\ Len(InsertAt(s, n, e)) = Len(s) + 1
         /\ \A i \in 1..(Len(s) + 1) :
              InsertAt(s, n, e)[i] = IF i < n THEN s[i] ELSE IF i = n THEN e ELSE s[i - 1]
<1> DEFINE front == SubSeq(s, 1, n - 1)
           back  == SubSeq(s, n, Len(s))
           new   == front \o <<e>> \o back
<1>1. front \in Seq(S) /\ Len(front) = n - 1 /\ \A i \in 1..(n - 1) : front[i] = s[i]
  BY SubSeqProperties
<1>2. /\ back \in Seq(S) /\ Len(back) = Len(s) - n + 1
      /\ \A i \in 1..(Len(s) - n + 1) : back[i] = s[n + i - 1]
  BY SubSeqProperties
<1>3. /\ front \o <<e>> \in Seq(S) /\ Len(front \o <<e>>) = n
      /\ \A i \in 1..(n - 1) : (front \o <<e>>)[i] = s[i]
      /\ (front \o <<e>>)[n] = e
  <2> HIDE DEF front
  <2> QED BY <1>1
<1>4. /\ new \in Seq(S) /\ Len(new) = Len(s) + 1
      /\ \A i \in 1..(n - 1) : new[i] = s[i]
      /\ new[n] = e
      /\ \A i \in (n + 1)..(Len(s) + 1) : new[i] = back[i - n]
  <2> DEFINE head == front \o <<e>>
  <2>1. head \in Seq(S) /\ Len(head) = n /\ head[n] = e
        /\ \A i \in 1..(n - 1) : head[i] = s[i]
    BY <1>3
  <2> HIDE DEF head, back
  <2>2. head \o back \in Seq(S) /\ Len(head \o back) = Len(s) + 1
    <3>1. head \o back \in Seq(S) /\ Len(head \o back) = Len(head) + Len(back)
      BY <2>1, <1>2, ConcatProperties
    <3> QED BY <3>1, <2>1, <1>2
  <2>3. \A i \in 1..(Len(s) + 1) :
          (head \o back)[i] = IF i <= n THEN head[i] ELSE back[i - n]
    BY <2>1, <1>2
  <2>4. new = head \o back
    BY DEF head
  <2> QED BY <2>1, <2>2, <2>3, <2>4
<1>5. ASSUME NEW k \in 1..Len(s) PROVE \E i \in 1..Len(new) : new[i] = s[k]
  <2> HIDE DEF new, back
  <2>1. CASE k < n
    BY <1>4, <2>1
  <2>2. CASE k >= n
    <3>1. k + 1 \in (n + 1)..(Len(s) + 1) /\ k + 1 - n \in 1..(Len(s) - n + 1)
      BY <2>2
    <3>2. new[k + 1] = back[k + 1 - n] /\ back[k + 1 - n] = s[n + (k + 1 - n) - 1]
      BY <3>1, <1>4, <1>2
    <3>3. n + (k + 1 - n) - 1 = k
      OBVIOUS
    <3> QED BY <3>1, <3>2, <3>3, <1>4
  <2> QED BY <2>1, <2>2
<1>6. InsertAt(s, n, e) = new
  BY DEF InsertAt
<1>7. ASSUME NEW i \in 1..(Len(s) + 1)
      PROVE  new[i] = IF i < n THEN s[i] ELSE IF i = n THEN e ELSE s[i - 1]
  <2> HIDE DEF new, back
  <2>1. CASE i <= n
    BY <1>4, <2>1
  <2>2. CASE i > n
    <3>1. i \in (n + 1)..(Len(s) + 1) /\ i - n \in 1..(Len(s) - n + 1)
      BY <2>2
    <3>2. new[i] = back[i - n] /\ back[i - n] = s[n + (i - n) - 1]
      BY <3>1, <1>4, <1>2
    <3>3. n + (i - n) - 1 = i - 1
      OBVIOUS
    <3> QED BY <2>2, <3>2, <3>3
  <2> QED BY <2>1, <2>2
<1> HIDE DEF new
<1> QED BY <1>4, <1>5, <1>6, <1>7

(* Where the listing puts a new event.                                     *)
LEMMA PositionType ==
  ASSUME NEW log \in Seq(Events), NEW t
  PROVE  Cardinality({i \in 1..Len(log) : log[i].at <= t}) + 1 \in 1..(Len(log) + 1)
<1> DEFINE earlier == {i \in 1..Len(log) : log[i].at <= t}
<1>1. Len(log) \in Nat
  OBVIOUS
<1>2. IsFiniteSet(1..Len(log)) /\ Cardinality(1..Len(log)) = Len(log)
  BY <1>1, FS_Interval
<1>3. earlier \subseteq 1..Len(log)
  OBVIOUS
<1>4. IsFiniteSet(earlier) /\ Cardinality(earlier) <= Len(log)
  BY <1>2, <1>3, FS_Subset
<1>5. Cardinality(earlier) \in Nat
  BY <1>4, FS_CardinalityType
<1> QED BY <1>1, <1>4, <1>5

-----------------------------------------------------------------------------
(* What the labels say about the calls being served.                       *)

IsCall(c) == DOMAIN c = {"id", "action", "days", "key", "seen", "at", "due", "basis",
                         "pending"}
IsRow(r) == DOMAIN r = {"status", "due", "authority", "basis"}

(* A call as it is at a label.                                             *)
Fits(c, label) ==
  /\ IsCall(c)
  /\ label # "idle" => /\ c.id \in Nat /\ c.action \in Served /\ c.days \in Int
                       /\ c.key \in Keys /\ c.at \in Nat
  /\ label = "fetch" => c.action \in AuthorityCalls

Labels == {"idle", "check", "append", "recompute", "segments", "fetch", "write", "audit", "notify"}

CallKinds ==
  /\ pc \in [Handlers -> Labels]
  /\ DOMAIN call = Handlers /\ DOMAIN fetched = Handlers
  /\ IsRow(row) /\ timeline \in Seq(Events)
  /\ now \in Nat /\ calls \in Nat
  /\ \A h \in Handlers : Fits(call[h], pc[h]) /\ IsRow(fetched[h])

LEMMA NoCallFits == IsCall(NoCall) /\ Fits(NoCall, "idle")
BY DEF NoCall, IsCall, Fits

(* The calls handlers are called for.                                      *)
LEMMA BegunFits ==
  ASSUME NEW n \in Nat, NEW c, c.action \in Served, c.days \in Int, c.key \in Keys,
         NEW s, NEW t \in Nat, NEW label, label = "fetch" => c.action \in AuthorityCalls
  PROVE  Fits([NoCall EXCEPT !.id = n, !.action = c.action, !.days = c.days,
                             !.key = c.key, !.seen = s, !.at = t], label)
BY DEF NoCall, IsCall, Fits

(* Assigning what a call has found out leaves it fitting.                  *)
LEMMA FoundFits ==
  ASSUME NEW c, NEW label, label \notin {"idle", "fetch"}, Fits(c, label),
         NEW t \in Nat, NEW d, NEW b, NEW q
  PROVE  /\ Fits([c EXCEPT !.at = t], label)
         /\ Fits([c EXCEPT !.due = d, !.basis = b, !.pending = q], label)
         /\ Fits([c EXCEPT !.pending = q], label)
<1>1. Fits([c EXCEPT !.at = t], label)
  BY DEF Fits, IsCall
<1>2. Fits([c EXCEPT !.due = d, !.basis = b, !.pending = q], label)
  BY DEF Fits, IsCall
<1>3. Fits([c EXCEPT !.pending = q], label)
  BY DEF Fits, IsCall
<1> QED BY <1>1, <1>2, <1>3

LEMMA OtherLabelFits ==
  ASSUME NEW c, NEW label, NEW next, Fits(c, label), label # "idle", next # "fetch"
  PROVE  Fits(c, next)
BY DEF Fits

LEMMA BeginKeepsKinds ==
  ASSUME CallKinds, NEW h \in Handlers, NEW c, NEW label \in {"check", "fetch"},
         c.action \in Served, c.days \in Int, c.key \in Keys,
         label = "fetch" => c.action \in AuthorityCalls, Begin(h, c, label)
  PROVE  CallKinds'
<1> DEFINE begun == [NoCall EXCEPT !.id = calls + 1, !.action = c.action,
                       !.days = c.days, !.key = c.key, !.seen = row.status, !.at = now]
<1>1. calls + 1 \in Nat /\ now \in Nat
  BY DEF CallKinds
<1>2. Fits(begun, label)
  BY <1>1, BegunFits
<1>3. call' = [call EXCEPT ![h] = begun]
  BY DEF Begin
<1> HIDE DEF begun
<1> QED BY <1>1, <1>2, <1>3 DEF Begin, Goto, CallKinds, Labels, IsRow

LEMMA CallKindsInvariant == Spec => []CallKinds
<1>1. Init => CallKinds
  <2> SUFFICES ASSUME Init PROVE CallKinds
    OBVIOUS
  <2>1. IsRow(row)
    BY DEF Init, IsRow, InitialRow
  <2>2. timeline \in Seq(Events)
    BY DEF Init
  <2>3. \A h \in Handlers : Fits(call[h], pc[h]) /\ IsRow(fetched[h])
    BY NoCallFits DEF Init, IsRow, InitialRow
  <2> QED BY <2>1, <2>2, <2>3 DEF Init, CallKinds, Labels
<1>2. CallKinds /\ [Next]_vars => CallKinds'
  <2> SUFFICES ASSUME CallKinds, [Next]_vars PROVE CallKinds'
    OBVIOUS
  <2>a. /\ pc \in [Handlers -> Labels]
        /\ DOMAIN call = Handlers /\ DOMAIN fetched = Handlers
        /\ IsRow(row) /\ timeline \in Seq(Events)
        /\ now \in Nat /\ calls \in Nat
        /\ \A h \in Handlers : Fits(call[h], pc[h]) /\ IsRow(fetched[h])
    BY DEF CallKinds
  <2>1. ASSUME NEW h \in Handlers, StartTransition(h) PROVE CallKinds'
    <3> PICK c \in Calls : Begin(h, c, "check")
      BY <2>1 DEF StartTransition
    <3>1. c.action \in Served /\ c.days \in Int /\ c.key \in Keys
      BY CallsAssumption DEF Served, Keys
    <3> QED BY <3>1, BeginKeepsKinds
  <2>2. ASSUME NEW h \in Handlers, StartAuthority(h) PROVE CallKinds'
    <3> PICK a \in AuthorityCalls :
          Begin(h, [action |-> a, days |-> 0, key |-> NoKey], "fetch")
      BY <2>2 DEF StartAuthority
    <3> DEFINE c == [action |-> a, days |-> 0, key |-> NoKey]
    <3>1. c.action \in Served /\ c.days \in Int /\ c.key \in Keys
          /\ c.action \in AuthorityCalls
      BY DEF Served, Keys
    <3>2. Begin(h, c, "fetch")
      OBVIOUS
    <3> HIDE DEF c
    <3> QED BY <3>1, <3>2, BeginKeepsKinds
  <2>3. ASSUME NEW h \in Handlers, Check(h) PROVE CallKinds'
    <3>1. CASE Finish(h)
      BY <2>a, <2>3, <3>1, NoCallFits DEF Check, Finish, Goto, CallKinds, Labels, IsRow
    <3>2. CASE call' = [call EXCEPT ![h].at = now] /\ Goto(h, "append")
      <4>1. Fits([call[h] EXCEPT !.at = now], "append")
        BY <2>a, <2>3, FoundFits, OtherLabelFits DEF Check
      <4> QED BY <2>a, <2>3, <3>2, <4>1 DEF Check, Goto, CallKinds, Labels, IsRow
    <3> QED BY <2>3, <3>1, <3>2 DEF Check
  <2>4. ASSUME NEW h \in Handlers, AppendEvent(h) PROVE CallKinds'
    <3> DEFINE e == [id |-> call[h].id, action |-> call[h].action, at |-> call[h].at,
                     days |-> call[h].days, key |-> call[h].key]
               n == Cardinality({i \in 1..Len(timeline) : timeline[i].at <= e.at}) + 1
    <3>1. e \in Events
      BY <2>a, <2>4 DEF AppendEvent, Fits, Events
    <3>2. n \in 1..(Len(timeline) + 1)
      BY <2>a, PositionType
    <3>3. timeline' = InsertAt(timeline, n, e)
      BY <2>4 DEF AppendEvent
    <3> HIDE DEF e, n
    <3>4. timeline' \in Seq(Events)
      BY <2>a, <3>1, <3>2, <3>3, InsertKeeps
    <3>5. \A label \in {"audit", "recompute"} : Fits(call[h], label)
      BY <2>a, <2>4, OtherLabelFits DEF AppendEvent
    <3> QED BY <2>a, <2>4, <3>4, <3>5 DEF AppendEvent, Goto, CallKinds, Labels, IsRow
  <2>5. ASSUME NEW h \in Handlers, Recompute(h) PROVE CallKinds'
    <3>1. PICK d, b, q :
            call' = [call EXCEPT ![h] = [@ EXCEPT !.due = d, !.basis = b, !.pending = q]]
      BY <2>5 DEF Recompute
    <3>2. Fits(call'[h], "segments")
      <4>1. Fits(call[h], "segments")
        BY <2>a, <2>5, OtherLabelFits DEF Recompute
      <4>2. now \in Nat /\ call'[h] = [call[h] EXCEPT !.due = d, !.basis = b, !.pending = q]
        BY <2>a, <3>1
      <4>3. Fits([call[h] EXCEPT !.due = d, !.basis = b, !.pending = q], "segments")
        BY <2>a, <4>1, FoundFits
      <4> QED BY <4>2, <4>3
    <3> QED BY <2>a, <2>5, <3>1, <3>2 DEF Recompute, Goto, CallKinds, Labels, IsRow
  <2>6. ASSUME NEW h \in Handlers, AppendSegment(h) PROVE CallKinds'
    <3>1. PICK q : call' = [call EXCEPT ![h] = [@ EXCEPT !.pending = q]]
      BY <2>6 DEF AppendSegment
    <3>2. Fits(call'[h], "segments")
      BY <2>a, <2>6, <3>1, FoundFits DEF AppendSegment
    <3> QED BY <2>a, <2>6, <3>1, <3>2 DEF AppendSegment, CallKinds, Labels, IsRow
  <2>7. ASSUME NEW h \in Handlers, FetchRow(h) PROVE CallKinds'
    <3>1. Fits(call[h], "write")
      BY <2>a, <2>7, OtherLabelFits DEF FetchRow
    <3> QED BY <2>a, <2>7, <3>1 DEF FetchRow, Goto, CallKinds, Labels, IsRow
  <2>8. ASSUME NEW h \in Handlers, WriteRow(h) PROVE CallKinds'
    <3>1. \A label \in {"append", "audit"} : Fits(call[h], label)
      BY <2>a, <2>8, OtherLabelFits DEF WriteRow
    <3>2. IsRow(row')
      BY <2>a, <2>8 DEF WriteRow, Updated, IsRow
    <3> QED BY <2>a, <2>8, <3>1, <3>2 DEF WriteRow, Goto, CallKinds, Labels
  <2>9. ASSUME NEW h \in Handlers, AppendAudit(h) PROVE CallKinds'
    <3>1. Fits(call[h], "notify")
      BY <2>a, <2>9, OtherLabelFits DEF AppendAudit
    <3>2. CASE IsAuthority(h)
      BY <2>a, <2>9, <3>2, NoCallFits
      DEF AppendAudit, Finish, Goto, CallKinds, Labels, IsRow
    <3>3. CASE ~IsAuthority(h)
      BY <2>a, <2>9, <3>1, <3>3 DEF AppendAudit, Goto, CallKinds, Labels, IsRow
    <3> QED BY <3>2, <3>3
  <2>10. ASSUME NEW h \in Handlers, Notify(h) PROVE CallKinds'
    BY <2>a, <2>10, NoCallFits DEF Notify, Finish, Goto, CallKinds, Labels, IsRow
  <2>11. ASSUME NEW h \in Handlers, Fail(h) PROVE CallKinds'
    BY <2>a, <2>11, NoCallFits DEF Fail, Finish, Goto, CallKinds, Labels, IsRow
  <2>12. CASE Pass
    BY <2>a, <2>12 DEF Pass, CallKinds, IsRow
  <2>13. CASE UNCHANGED vars
    BY <2>a, <2>13 DEF vars, CallKinds, IsRow
  <2> QED
    BY <2>1, <2>2, <2>3, <2>4, <2>5, <2>6, <2>7, <2>8, <2>9, <2>10, <2>11, <2>12, <2>13
    DEF Next, Step
<1> QED BY <1>1, <1>2, PTL DEF Spec

-----------------------------------------------------------------------------
(* The status a request shows is the outcome of an event in its timeline.  *)

Explained(log, done, v) ==
  \/ v = "captured"
  \/ \E i \in 1..Len(log) :
       /\ log[i].id \in done
       /\ log[i].action \in Actions
       /\ v = StatusByAction[log[i].action]

HasEvent(log, c) ==
  /\ c.action \in Actions
  /\ \E i \in 1..Len(log) : log[i].id = c.id /\ log[i].action = c.action

(* Every event of log is in longer.                                        *)
Keeps(log, longer) ==
  \A k \in 1..Len(log) : \E i \in 1..Len(longer) : longer[i] = log[k]

(* What an event explains it still explains when the timeline has grown    *)
(* and more calls have been applied.                                       *)
LEMMA EvidenceKept ==
  ASSUME NEW log, NEW longer, NEW done, NEW more, Keeps(log, longer), done \subseteq more
  PROVE  /\ \A v : Explained(log, done, v) => Explained(longer, more, v)
         /\ \A c : HasEvent(log, c) => HasEvent(longer, c)
<1>1. ASSUME NEW v, Explained(log, done, v) PROVE Explained(longer, more, v)
  BY <1>1 DEF Explained, Keeps
<1>2. ASSUME NEW c, HasEvent(log, c) PROVE HasEvent(longer, c)
  BY <1>2 DEF HasEvent, Keeps
<1> QED BY <1>1, <1>2

LEMMA KeepsItself == \A log : Keeps(log, log)
BY DEF Keeps

(* The strengthening: a row that is about to be written back was explained *)
(* when it was read, and the call that writes it has its event.            *)
StatusInvariant ==
  /\ Explained(timeline, applied, row.status)
  /\ \A h \in Handlers :
       /\ pc[h] = "write" => Explained(timeline, applied, fetched[h].status)
       /\ pc[h] \in {"recompute", "segments", "write"} /\ ~IsAuthority(h)
            => HasEvent(timeline, call[h])

LEMMA StatusInvariantInductive ==
  ASSUME CallKinds, StatusInvariant, [Next]_vars
  PROVE  StatusInvariant'
<1>a. /\ pc \in [Handlers -> Labels]
      /\ DOMAIN call = Handlers /\ DOMAIN fetched = Handlers
      /\ IsRow(row) /\ timeline \in Seq(Events)
      /\ \A h \in Handlers : Fits(call[h], pc[h]) /\ IsRow(fetched[h])
  BY DEF CallKinds
<1>b. /\ Explained(timeline, applied, row.status)
      /\ \A h \in Handlers :
           /\ pc[h] = "write" => Explained(timeline, applied, fetched[h].status)
           /\ pc[h] \in {"recompute", "segments", "write"} /\ ~IsAuthority(h)
                => HasEvent(timeline, call[h])
  BY DEF StatusInvariant
<1>1. ASSUME NEW h \in Handlers, StartTransition(h) \/ StartAuthority(h)
      PROVE  StatusInvariant'
  <2> PICK c, label : Begin(h, c, label) /\ label \in {"check", "fetch"}
    <3>1. CASE StartTransition(h)
      BY <3>1 DEF StartTransition
    <3>2. CASE StartAuthority(h)
      <4>1. PICK a \in AuthorityCalls :
              Begin(h, [action |-> a, days |-> 0, key |-> NoKey], "fetch")
        BY <3>2 DEF StartAuthority
      <4> QED BY <4>1
    <3> QED BY <1>1, <3>1, <3>2
  <2>1. /\ UNCHANGED <<row, timeline, applied, fetched>>
        /\ pc'[h] \in {"check", "fetch"}
        /\ \A g \in Handlers \ {h} : pc'[g] = pc[g] /\ call'[g] = call[g]
    BY <1>a DEF Begin, Goto
  <2> QED BY <1>b, <2>1 DEF StatusInvariant, IsAuthority
<1>2. ASSUME NEW h \in Handlers, Check(h) PROVE StatusInvariant'
  BY <1>a, <1>b, <1>2 DEF Check, Finish, Goto, StatusInvariant, IsAuthority
<1>3. ASSUME NEW h \in Handlers, AppendEvent(h) PROVE StatusInvariant'
  <2> DEFINE e == [id |-> call[h].id, action |-> call[h].action, at |-> call[h].at,
                   days |-> call[h].days, key |-> call[h].key]
             n == Cardinality({i \in 1..Len(timeline) : timeline[i].at <= e.at}) + 1
  <2>1. e \in Events
    BY <1>a, <1>3 DEF AppendEvent, Fits, Events
  <2>2. n \in 1..(Len(timeline) + 1)
    BY <1>a, PositionType
  <2>3. timeline' = InsertAt(timeline, n, e)
    BY <1>3 DEF AppendEvent
  <2>4. e.id = call[h].id /\ e.action = call[h].action
    OBVIOUS
  <2> HIDE DEF e, n
  <2>5. /\ Keeps(timeline, timeline')
        /\ \E i \in 1..Len(timeline') : timeline'[i] = e
    <3> DEFINE log == InsertAt(timeline, n, e)
    <3>1. /\ \E i \in 1..Len(log) : log[i] = e
          /\ \A k \in 1..Len(timeline) : \E i \in 1..Len(log) : log[i] = timeline[k]
      <4>1. timeline \in Seq(Events)
        BY <1>a
      <4>2. \E i \in 1..Len(InsertAt(timeline, n, e)) : InsertAt(timeline, n, e)[i] = e
        BY <4>1, <2>1, <2>2, InsertKeeps
      <4>3. \A k \in 1..Len(timeline) : \E i \in 1..Len(InsertAt(timeline, n, e)) :
              InsertAt(timeline, n, e)[i] = timeline[k]
        BY <4>1, <2>1, <2>2, InsertKeeps
      <4> QED BY <4>2, <4>3
    <3>2. timeline' = log
      BY <2>3
    <3> HIDE DEF log
    <3> QED BY <3>1, <3>2 DEF Keeps
  <2>6. ~IsAuthority(h) => HasEvent(timeline', call[h])
    BY <1>a, <1>3, <2>4, <2>5, CallsAssumption
    DEF AppendEvent, HasEvent, IsAuthority, Fits, Served
  <2>7. /\ \A v : Explained(timeline, applied, v) => Explained(timeline', applied, v)
        /\ \A c : HasEvent(timeline, c) => HasEvent(timeline', c)
    BY <2>5, EvidenceKept
  <2> QED BY <1>a, <1>b, <1>3, <2>6, <2>7
      DEF AppendEvent, Goto, StatusInvariant, IsAuthority
<1>4. ASSUME NEW h \in Handlers, Recompute(h) \/ AppendSegment(h) PROVE StatusInvariant'
  <2>1. /\ UNCHANGED <<row, timeline, applied, fetched>>
        /\ pc[h] \in {"recompute", "segments"} /\ pc'[h] = "segments"
        /\ \A g \in Handlers \ {h} : pc'[g] = pc[g] /\ call'[g] = call[g]
    BY <1>a, <1>4 DEF Recompute, AppendSegment, Goto
  <2>2. call'[h].id = call[h].id /\ call'[h].action = call[h].action
    BY <1>a, <1>4 DEF Recompute, AppendSegment, Fits, IsCall
  <2>3. HasEvent(timeline, call[h]) => HasEvent(timeline, call'[h])
    BY <2>2 DEF HasEvent
  <2> QED BY <1>b, <2>1, <2>2, <2>3 DEF StatusInvariant, IsAuthority
<1>5. ASSUME NEW h \in Handlers, FetchRow(h) PROVE StatusInvariant'
  <2>1. pc[h] = "fetch" => IsAuthority(h)
    BY <1>a, CallsAssumption DEF Fits, IsAuthority
  <2> QED BY <1>a, <1>b, <1>5, <2>1 DEF FetchRow, Goto, StatusInvariant, IsAuthority
<1>6. ASSUME NEW h \in Handlers, WriteRow(h) PROVE StatusInvariant'
  <2>1. /\ \A v : Explained(timeline, applied, v) => Explained(timeline, applied', v)
        /\ UNCHANGED <<timeline, call, fetched>>
    BY <1>6, KeepsItself, EvidenceKept DEF WriteRow
  <2>2. CASE IsAuthority(h)
    <3>1. row'.status = fetched[h].status
      BY <1>a, <1>6, <2>2 DEF WriteRow, Updated, IsRow
    <3> QED BY <1>a, <1>b, <1>6, <2>1, <2>2, <3>1
        DEF WriteRow, Goto, StatusInvariant, IsAuthority
  <2>3. CASE ~IsAuthority(h)
    <3>1. row'.status = StatusByAction[call[h].action]
      BY <1>a, <1>6, <2>3 DEF WriteRow, Updated, IsRow
    <3>2. HasEvent(timeline, call[h]) /\ applied' = applied \cup {call[h].id}
      BY <1>b, <1>6, <2>3 DEF WriteRow
    <3>3. Explained(timeline, applied', row'.status)
      BY <3>1, <3>2 DEF Explained, HasEvent
    <3> QED BY <1>a, <1>b, <1>6, <2>1, <2>3, <3>3
        DEF WriteRow, Goto, StatusInvariant, IsAuthority
  <2> QED BY <2>2, <2>3
<1>7. ASSUME NEW h \in Handlers, AppendAudit(h) \/ Notify(h) \/ Fail(h)
      PROVE  StatusInvariant'
  BY <1>a, <1>b, <1>7
  DEF AppendAudit, Notify, Fail, Finish, Goto, StatusInvariant, IsAuthority
<1>8. CASE Pass
  BY <1>b, <1>8 DEF Pass, StatusInvariant, IsAuthority
<1>9. CASE UNCHANGED vars
  BY <1>b, <1>9 DEF vars, StatusInvariant, IsAuthority
<1> QED BY <1>1, <1>2, <1>3, <1>4, <1>5, <1>6, <1>7, <1>8, <1>9 DEF Next, Step

(* However any number of calls interleave and wherever they end, the       *)
(* status of the row (requests.update in transitionRequestLifecycle and    *)
(* the authority routes) is the outcome of a call whose event was appended.*)
THEOREM StatusIsRecorded == Spec => []StatusHasEvent
<1>1. Init => StatusInvariant
  BY DEF Init, StatusInvariant, Explained, InitialRow
<1>2. StatusInvariant => StatusHasEvent
  BY DEF StatusInvariant, StatusHasEvent, Explained
<1> QED BY <1>1, <1>2, CallKindsInvariant, StatusInvariantInductive, PTL DEF Spec

-----------------------------------------------------------------------------
(* The segments behind the due date a request shows are persisted.         *)

(* The strengthening: so are those behind the row a handler is about to    *)
(* write back, and those a call has computed, but for what it still has to *)
(* append.                                                                 *)
BasisInvariant ==
  /\ row.basis \subseteq segments
  /\ \A h \in Handlers :
       /\ pc[h] = "segments" => call[h].basis \subseteq segments \cup call[h].pending
       /\ pc[h] = "write" => fetched[h].basis \subseteq segments
       /\ pc[h] = "write" /\ ~IsAuthority(h) => call[h].basis \subseteq segments

LEMMA BasisInvariantInductive ==
  ASSUME CallKinds, BasisInvariant, [Next]_vars
  PROVE  BasisInvariant'
<1>a. /\ pc \in [Handlers -> Labels]
      /\ DOMAIN call = Handlers /\ DOMAIN fetched = Handlers
      /\ IsRow(row)
      /\ \A h \in Handlers : Fits(call[h], pc[h]) /\ IsRow(fetched[h])
  BY DEF CallKinds
<1>b. /\ row.basis \subseteq segments
      /\ \A h \in Handlers :
           /\ pc[h] = "segments" =>
                call[h].basis \subseteq segments \cup call[h].pending
           /\ pc[h] = "write" => fetched[h].basis \subseteq segments
           /\ pc[h] = "write" /\ ~IsAuthority(h) => call[h].basis \subseteq segments
  BY DEF BasisInvariant
<1>1. ASSUME NEW h \in Handlers,
             \/ StartTransition(h) \/ StartAuthority(h) \/ Check(h) \/ AppendEvent(h)
             \/ AppendAudit(h) \/ Notify(h) \/ Fail(h)
      PROVE  BasisInvariant'
  <2>1. /\ UNCHANGED <<row, segments, fetched>>
        /\ pc'[h] \notin {"segments", "write"}
        /\ \A g \in Handlers \ {h} : pc'[g] = pc[g] /\ call'[g] = call[g]
    BY <1>a, <1>1
    DEF StartTransition, StartAuthority, Begin, Check, AppendEvent, AppendAudit,
        Notify, Fail, Finish, Goto
  <2> QED BY <1>b, <2>1 DEF BasisInvariant, IsAuthority
<1>2. ASSUME NEW h \in Handlers, Recompute(h) PROVE BasisInvariant'
  <2>1. /\ UNCHANGED <<row, segments, fetched>>
        /\ pc'[h] = "segments"
        /\ \A g \in Handlers \ {h} : pc'[g] = pc[g] /\ call'[g] = call[g]
    BY <1>a, <1>2 DEF Recompute, Goto
  <2>2. call'[h].basis \subseteq segments \cup call'[h].pending
    <3>1. PICK d, b : call' = [call EXCEPT ![h] =
                         [@ EXCEPT !.due = d, !.basis = b, !.pending = b \ segments]]
      BY <1>2 DEF Recompute
    <3>2. call'[h].basis = b /\ call'[h].pending = b \ segments
      BY <1>a, <3>1 DEF Fits, IsCall
    <3> QED BY <3>2
  <2> QED BY <1>b, <2>1, <2>2 DEF BasisInvariant, IsAuthority
<1>3. ASSUME NEW h \in Handlers, AppendSegment(h) PROVE BasisInvariant'
  <2>1. PICK s : /\ segments' = segments \cup {s}
                 /\ call' = [call EXCEPT ![h].pending = @ \ {s}]
    BY <1>3 DEF AppendSegment
  <2>2. /\ UNCHANGED <<row, pc, fetched>> /\ pc[h] = "segments"
        /\ \A g \in Handlers \ {h} : call'[g] = call[g]
        /\ call'[h].basis = call[h].basis /\ call'[h].pending = call[h].pending \ {s}
    BY <1>a, <1>3, <2>1 DEF AppendSegment, Fits, IsCall
  <2> QED BY <1>b, <2>1, <2>2 DEF BasisInvariant, IsAuthority
<1>4. ASSUME NEW h \in Handlers, FetchRow(h) PROVE BasisInvariant'
  <2>1. pc[h] = "fetch" => IsAuthority(h)
    BY <1>a, CallsAssumption DEF Fits, IsAuthority
  <2> QED BY <1>a, <1>b, <1>4, <2>1 DEF FetchRow, Goto, BasisInvariant, IsAuthority
<1>5. ASSUME NEW h \in Handlers, WriteRow(h) PROVE BasisInvariant'
  <2>1. row'.basis = IF IsAuthority(h) THEN fetched[h].basis ELSE call[h].basis
    BY <1>a, <1>5 DEF WriteRow, Updated, IsRow
  <2>2. row'.basis \subseteq segments
    BY <1>b, <1>5, <2>1 DEF WriteRow
  <2> QED BY <1>a, <1>b, <1>5, <2>2 DEF WriteRow, Goto, BasisInvariant, IsAuthority
<1>6. CASE Pass
  BY <1>b, <1>6 DEF Pass, BasisInvariant, IsAuthority
<1>7. CASE UNCHANGED vars
  BY <1>b, <1>7 DEF vars, BasisInvariant, IsAuthority
<1> QED BY <1>1, <1>2, <1>3, <1>4, <1>5, <1>6, <1>7 DEF Next, Step

(* However calls interleave and wherever they end, every segment of the    *)
(* computation the row's due_at comes from (recomputeClock) has been       *)
(* appended to request_clock_segments.                                     *)
THEOREM DueDateIsBacked == Spec => []DueIsExplained
<1>1. Init => BasisInvariant
  BY DEF Init, BasisInvariant, InitialRow
<1>2. BasisInvariant => DueIsExplained
  BY DEF BasisInvariant, DueIsExplained
<1> QED BY <1>1, <1>2, CallKindsInvariant, BasisInvariantInductive, PTL DEF Spec

-----------------------------------------------------------------------------
(* Calls that do not overlap record an event at most once per key.         *)

Unique(log) ==
  \A i, j \in 1..Len(log) : log[i].key = log[j].key /\ log[i].key # NoKey => i = j

Taken(log, key) == key # NoKey /\ \E i \in 1..Len(log) : log[i].key = key

(* The strengthening: there is one call at a time, an authority route has  *)
(* no key, and the key of a call past its check is not in the timeline.    *)
KeyInvariant ==
  ~overlapped =>
    /\ \A g, h \in Handlers : Busy(g) /\ Busy(h) => g = h
    /\ \A h \in Handlers :
         /\ pc[h] = "append" => ~Taken(timeline, call[h].key)
         /\ Busy(h) /\ IsAuthority(h) => call[h].key = NoKey
    /\ Unique(timeline)

(* An event with a key of its own, or none, leaves the keys unique.        *)
LEMMA InsertUnique ==
  ASSUME NEW log \in Seq(Events), Unique(log), NEW e \in Events, ~Taken(log, e.key),
         NEW n \in 1..(Len(log) + 1)
  PROVE  Unique(InsertAt(log, n, e))
<1> DEFINE longer == InsertAt(log, n, e)
<1>1. /\ Len(longer) = Len(log) + 1 /\ Len(log) \in Nat
      /\ \A i \in 1..(Len(log) + 1) :
           longer[i] = IF i < n THEN log[i] ELSE IF i = n THEN e ELSE log[i - 1]
  <2>1. Len(log) \in Nat
    OBVIOUS
  <2>2. Len(InsertAt(log, n, e)) = Len(log) + 1
    BY InsertKeeps
  <2>3. \A i \in 1..(Len(log) + 1) : InsertAt(log, n, e)[i] =
          IF i < n THEN log[i] ELSE IF i = n THEN e ELSE log[i - 1]
    BY InsertKeeps
  <2> QED BY <2>1, <2>2, <2>3
<1> HIDE DEF longer
<1> SUFFICES ASSUME NEW i \in 1..Len(longer), NEW j \in 1..Len(longer),
                    longer[i].key = longer[j].key, longer[i].key # NoKey
             PROVE  i = j
  BY DEF Unique, longer
<1> DEFINE Old(k) == IF k < n THEN k ELSE k - 1
<1>2. \A k \in 1..Len(longer) : k # n => /\ Old(k) \in 1..Len(log)
                                         /\ longer[k] = log[Old(k)]
  BY <1>1
<1>3. CASE i = n \/ j = n
  <2>1. longer[n] = e
    BY <1>1
  <2>2. ASSUME NEW k \in 1..Len(longer), k # n PROVE longer[k].key # e.key \/ e.key = NoKey
    <3>1. Old(k) \in 1..Len(log) /\ longer[k] = log[Old(k)]
      BY <1>2, <2>2
    <3> HIDE DEF Old
    <3> QED BY <3>1 DEF Taken
  <2> QED BY <1>3, <2>1, <2>2
<1>4. CASE i # n /\ j # n
  <2>1. Old(i) = Old(j)
    BY <1>2, <1>4 DEF Unique
  <2> QED BY <1>1, <1>4, <2>1
<1> QED BY <1>3, <1>4

LEMMA KeyInvariantInductive ==
  ASSUME CallKinds, KeyInvariant, [Next]_vars
  PROVE  KeyInvariant'
<1> SUFFICES ASSUME ~overlapped' PROVE KeyInvariant'
  BY DEF KeyInvariant
<1>a. /\ pc \in [Handlers -> Labels]
      /\ DOMAIN call = Handlers
      /\ timeline \in Seq(Events)
      /\ \A h \in Handlers : Fits(call[h], pc[h])
  BY DEF CallKinds
<1>o. ~overlapped
  BY DEF Next, Step, StartTransition, StartAuthority, Begin, Check, AppendEvent, Recompute,
         AppendSegment, FetchRow, WriteRow, AppendAudit, Notify, Fail, Pass, vars
<1>b. /\ \A g, h \in Handlers : pc[g] # "idle" /\ pc[h] # "idle" => g = h
      /\ \A h \in Handlers :
           /\ pc[h] = "append" => ~Taken(timeline, call[h].key)
           /\ pc[h] # "idle" /\ IsAuthority(h) => call[h].key = NoKey
      /\ Unique(timeline)
  BY <1>o DEF KeyInvariant, Busy
<1>1. ASSUME NEW h \in Handlers, StartTransition(h) \/ StartAuthority(h)
      PROVE  KeyInvariant'
  <2>1. PICK c, label : /\ Begin(h, c, label) /\ label \in {"check", "fetch"}
                        /\ c.action \in DOMAIN AuthorityByAction => c.key = NoKey
    <3>1. CASE StartTransition(h)
      <4>1. PICK c \in Calls : Begin(h, c, "check")
        BY <3>1 DEF StartTransition
      <4>2. c.action \notin DOMAIN AuthorityByAction
        BY CallsAssumption DEF Actions, Transitions, AuthorityByAction
      <4> QED BY <4>1, <4>2
    <3>2. CASE StartAuthority(h)
      <4>1. PICK a \in AuthorityCalls :
              Begin(h, [action |-> a, days |-> 0, key |-> NoKey], "fetch")
        BY <3>2 DEF StartAuthority
      <4> QED BY <4>1
    <3> QED BY <1>1, <3>1, <3>2
  <2>2. /\ timeline' = timeline /\ pc' = [pc EXCEPT ![h] = label]
        /\ \A g \in Handlers : pc[g] = "idle"
        /\ \A g \in Handlers \ {h} : call'[g] = call[g]
        /\ call'[h].action = c.action /\ call'[h].key = c.key
    BY <1>a, <2>1 DEF Begin, Goto, Busy, NoCall
  <2> QED BY <1>a, <1>b, <2>1, <2>2 DEF KeyInvariant, Busy, IsAuthority
<1>2. ASSUME NEW h \in Handlers, Check(h) PROVE KeyInvariant'
  <2>1. timeline' = timeline
    BY <1>2 DEF Check
  <2>2. CASE Finish(h)
    BY <1>a, <1>b, <1>2, <2>1, <2>2 DEF Finish, Goto, KeyInvariant, Busy, IsAuthority
  <2>3. CASE /\ ~KeyKnown(call[h].key) /\ call' = [call EXCEPT ![h].at = now]
             /\ Goto(h, "append")
    <3>1. /\ ~Taken(timeline, call[h].key)
          /\ pc' = [pc EXCEPT ![h] = "append"]
          /\ \A g \in Handlers \ {h} : call'[g] = call[g]
          /\ call'[h].action = call[h].action /\ call'[h].key = call[h].key
      BY <1>a, <2>3 DEF KeyKnown, Taken, Goto, Fits, IsCall
    <3>2. pc[h] = "check"
      BY <1>2 DEF Check
    <3> QED BY <1>a, <1>b, <2>1, <3>1, <3>2 DEF KeyInvariant, Busy, IsAuthority
  <2> QED BY <1>2, <2>2, <2>3 DEF Check
<1>3. ASSUME NEW h \in Handlers, AppendEvent(h) PROVE KeyInvariant'
  <2> DEFINE e == [id |-> call[h].id, action |-> call[h].action, at |-> call[h].at,
                   days |-> call[h].days, key |-> call[h].key]
             n == Cardinality({i \in 1..Len(timeline) : timeline[i].at <= e.at}) + 1
  <2>1. e \in Events /\ e.key = call[h].key
    BY <1>a, <1>3 DEF AppendEvent, Fits, Events
  <2>2. n \in 1..(Len(timeline) + 1)
    BY <1>a, PositionType
  <2>3. timeline' = InsertAt(timeline, n, e)
    BY <1>3 DEF AppendEvent
  <2> HIDE DEF e, n
  <2>4. Unique(timeline')
    BY <1>a, <1>b, <1>3, <2>1, <2>2, <2>3, InsertUnique DEF AppendEvent
  <2>5. /\ call' = call /\ pc[h] = "append"
        /\ \A g \in Handlers \ {h} : pc'[g] = pc[g]
        /\ pc'[h] # "append"
    BY <1>a, <1>3 DEF AppendEvent, Goto
  <2> QED BY <1>b, <2>4, <2>5 DEF KeyInvariant, Busy, IsAuthority
<1>4. ASSUME NEW h \in Handlers,
             Recompute(h) \/ AppendSegment(h) \/ FetchRow(h)
      PROVE  KeyInvariant'
  <2>1. /\ timeline' = timeline /\ pc[h] # "idle" /\ pc'[h] # "append"
        /\ \A g \in Handlers \ {h} : pc'[g] = pc[g] /\ call'[g] = call[g]
    BY <1>a, <1>4 DEF Recompute, AppendSegment, FetchRow, Goto
  <2>2. call'[h].action = call[h].action /\ call'[h].key = call[h].key
    <3>1. CASE Recompute(h)
      <4>1. PICK d, b, q :
              call' = [call EXCEPT ![h] = [@ EXCEPT !.due = d, !.basis = b, !.pending = q]]
        BY <3>1 DEF Recompute
      <4> QED BY <1>a, <4>1 DEF Fits, IsCall
    <3>2. CASE AppendSegment(h)
      <4>1. PICK q : call' = [call EXCEPT ![h] = [@ EXCEPT !.pending = q]]
        BY <3>2 DEF AppendSegment
      <4> QED BY <1>a, <4>1 DEF Fits, IsCall
    <3>3. CASE FetchRow(h)
      BY <3>3 DEF FetchRow
    <3> QED BY <1>4, <3>1, <3>2, <3>3
  <2> QED BY <1>b, <2>1, <2>2 DEF KeyInvariant, Busy, IsAuthority
<1>5. ASSUME NEW h \in Handlers, WriteRow(h) PROVE KeyInvariant'
  <2>1. /\ timeline' = timeline /\ call' = call /\ pc[h] # "idle"
        /\ pc'[h] = "append" => IsAuthority(h)
        /\ \A g \in Handlers \ {h} : pc'[g] = pc[g]
    BY <1>a, <1>5 DEF WriteRow, Goto
  <2> QED BY <1>b, <2>1 DEF KeyInvariant, Busy, IsAuthority, Taken
<1>6. ASSUME NEW h \in Handlers, AppendAudit(h) \/ Notify(h) \/ Fail(h) PROVE KeyInvariant'
  <2>1. /\ timeline' = timeline /\ pc[h] # "idle"
        /\ \A g \in Handlers \ {h} : pc'[g] = pc[g] /\ call'[g] = call[g]
    BY <1>a, <1>6 DEF AppendAudit, Notify, Fail, Finish, Goto, Busy
  <2>2. pc'[h] = "idle" \/ (pc'[h] = "notify" /\ call'[h] = call[h])
    BY <1>a, <1>6 DEF AppendAudit, Notify, Fail, Finish, Goto
  <2> QED BY <1>b, <2>1, <2>2 DEF KeyInvariant, Busy, IsAuthority
<1>7. CASE Pass
  BY <1>b, <1>7 DEF Pass, KeyInvariant, Busy, IsAuthority
<1>8. CASE UNCHANGED vars
  BY <1>b, <1>8 DEF vars, KeyInvariant, Busy, IsAuthority
<1> QED BY <1>1, <1>2, <1>3, <1>4, <1>5, <1>6, <1>7, <1>8 DEF Next, Step

(* The key of x-idempotency-key is looked up in the timeline and its event *)
(* appended later (transitionRequestLifecycle): as long as calls are made  *)
(* one at a time, in whatever number and wherever each of them ends, no    *)
(* key is in the timeline twice.                                           *)
THEOREM KeysAreUsedOnce == Spec => []OneCallPerKey
<1>1. Init => KeyInvariant
  BY DEF Init, KeyInvariant, Busy, Unique
<1>2. KeyInvariant => OneCallPerKey
  BY DEF KeyInvariant, Unique, OneCallPerKey
<1> QED BY <1>1, <1>2, CallKindsInvariant, KeyInvariantInductive, PTL DEF Spec

-----------------------------------------------------------------------------
(* The log of Lifecycle a timeline stands for, event by event.             *)

Entries == [action : Actions, at : Nat, days : Int, done : BOOLEAN]

EntryOf(e, done) ==
  [action |-> e.action, at |-> e.at, days |-> e.days, done |-> e.id \in done]

Listed(e, hidden) == e.action \in Actions /\ e.id \notin hidden

LogStep(log, e, hidden, done) ==
  IF Listed(e, hidden) THEN Append(log, EntryOf(e, done)) ELSE log

IsLogOf(f, t, hidden, done) ==
  /\ f \in [0..Len(t) -> Seq(Entries)] /\ f[0] = <<>>
  /\ \A i \in 1..Len(t) : f[i] = LogStep(f[i - 1], t[i], hidden, done)

LEMMA LogStepType ==
  ASSUME NEW log \in Seq(Entries), NEW e \in Events, NEW hidden, NEW done
  PROVE  LogStep(log, e, hidden, done) \in Seq(Entries)
<1>1. CASE Listed(e, hidden)
  <2>1. EntryOf(e, done) \in Entries
    BY <1>1 DEF Listed, EntryOf, Entries, Events
  <2> QED BY <1>1, <2>1 DEF LogStep
<1>2. CASE ~Listed(e, hidden)
  BY <1>2 DEF LogStep
<1> QED BY <1>1, <1>2

LEMMA LogIs ==
  ASSUME NEW t \in Seq(Events), NEW hidden, NEW done
  PROVE  \E f : IsLogOf(f, t, hidden, done) /\ LogOf(t, hidden, done) = f[Len(t)]
<1> DEFINE n == Len(t)
           S == Seq(Entries)
           step == [i \in 1..n |-> [s \in S |-> LogStep(s, t[i], hidden, done)]]
           Def(f) == f = [i \in 0..Len(t) |->
             IF i = 0 THEN <<>>
             ELSE IF t[i].action \in Actions /\ t[i].id \notin hidden
             THEN Append(f[i - 1],
                         [action |-> t[i].action, at |-> t[i].at,
                          days |-> t[i].days, done |-> t[i].id \in done])
             ELSE f[i - 1]]
           Run(f) == f = [i \in 0..n |->
             IF i = 0 THEN <<>> ELSE LogStep(f[i - 1], t[i], hidden, done)]
<1>n. n \in Nat /\ \A i \in 1..n : t[i] \in Events
  OBVIOUS
<1>1. <<>> \in S
  OBVIOUS
<1>2. step \in [1..n -> [S -> S]]
  <2>1. \A i \in 1..n, s \in S : LogStep(s, t[i], hidden, done) \in S
    BY <1>n, LogStepType
  <2> HIDE DEF n, S
  <2> QED BY <2>1
<1>3. PICK f : IsRun(f, S, <<>>, n, step)
  <2> HIDE DEF step, n, Def, Run, S
  <2>1. n \in Nat
    BY <1>n
  <2> QED BY <2>1, <1>1, <1>2, Recursion
<1>4. \A i \in 1..n : f[i] = LogStep(f[i - 1], t[i], hidden, done)
  <2> HIDE DEF S, Def, Run
  <2>1. \A i \in 1..n : f[i - 1] \in S
    BY <1>n, <1>3 DEF IsRun
  <2> QED BY <1>3, <2>1 DEF IsRun
<1>d. \A g : Def(g) <=> Run(g)
  BY <1>n DEF LogStep, Listed, EntryOf
<1>5. Def(f)
  <2> HIDE DEF Def, step, S
  <2>1. Run(f)
    BY <1>n, <1>3, <1>4 DEF IsRun
  <2> QED BY <2>1, <1>d
<1>6. PICK g : Def(g) /\ LogOf(t, hidden, done) = g[n]
  <2>1. LogOf(t, hidden, done) = (CHOOSE g : Def(g))[n]
    BY DEF LogOf
  <2> HIDE DEF Def, n, Run
  <2> QED BY <1>5, <2>1
<1>7. \A k \in 0..n : g[k] = f[k]
  <2> DEFINE G == {k \in 0..n : g[k] = f[k]}
  <2>r. Run(g)
    BY <1>6, <1>d
  <2> HIDE DEF Def, step, S
  <2>0. g[0] = <<>> /\ \A i \in 1..n : g[i] = LogStep(g[i - 1], t[i], hidden, done)
    BY <1>n, <2>r
  <2> HIDE DEF Run
  <2>1. 0 \in G
    BY <1>n, <1>3, <2>0 DEF IsRun
  <2>2. \A k \in 1..n : k - 1 \in G => k \in G
    BY <1>n, <1>4, <2>0
  <2> HIDE DEF G
  <2>3. n \in Nat
    BY <1>n
  <2> HIDE DEF n
  <2>4. \A k \in 0..n : k \in G
    BY <2>1, <2>2, <2>3, Throughout
  <2> QED BY <2>4 DEF G
<1>8. IsLogOf(f, t, hidden, done)
  <2> HIDE DEF Def, step, Run
  <2> QED BY <1>3, <1>4 DEF IsLogOf, IsRun
<1>9. LogOf(t, hidden, done) = f[Len(t)]
  <2> HIDE DEF Def, step, Run
  <2> QED BY <1>n, <1>6, <1>7
<1> QED BY <1>8, <1>9

(* One more event is the last of the log, or is not in it.                 *)
LEMMA LogAppend ==
  ASSUME NEW t \in Seq(Events), NEW e \in Events, NEW hidden, NEW done
  PROVE  LogOf(Append(t, e), hidden, done) = LogStep(LogOf(t, hidden, done), e, hidden, done)
<1> DEFINE u == Append(t, e)
           n == Len(t)
<1>1. /\ u \in Seq(Events) /\ n \in Nat /\ Len(u) = n + 1
      /\ u[n + 1] = e /\ \A i \in 1..n : u[i] = t[i]
  OBVIOUS
<1> HIDE DEF u
<1>2. PICK f : IsLogOf(f, t, hidden, done) /\ LogOf(t, hidden, done) = f[n]
  BY LogIs
<1>3. PICK g : IsLogOf(g, u, hidden, done) /\ LogOf(u, hidden, done) = g[Len(u)]
  BY <1>1, LogIs
<1> DEFINE G == {k \in 0..n : g[k] = f[k]}
<1> HIDE DEF n
<1>4. 0 \in G
  BY <1>1, <1>2, <1>3 DEF IsLogOf
<1>5. ASSUME NEW k \in 1..n, k - 1 \in G PROVE k \in G
  <2>1. f[k] = LogStep(f[k - 1], t[k], hidden, done)
    BY <1>2 DEF IsLogOf, n
  <2>2. k \in 1..Len(u) /\ u[k] = t[k] /\ k \in 0..n
    BY <1>1
  <2>3. g[k] = LogStep(g[k - 1], u[k], hidden, done)
    BY <1>3, <2>2 DEF IsLogOf
  <2> QED BY <1>5, <2>1, <2>2, <2>3
<1> HIDE DEF G
<1>6. n \in G
  <2>1. n \in Nat /\ n \in 0..n
    BY <1>1
  <2>2. \A k \in 0..n : k \in G
    BY <2>1, <1>4, <1>5, Throughout
  <2> QED BY <2>1, <2>2
<1>7. n + 1 \in 1..Len(u) /\ (n + 1) - 1 = n
  BY <1>1
<1>8. g[n + 1] = LogStep(g[n], u[n + 1], hidden, done)
  BY <1>3, <1>7 DEF IsLogOf
<1> QED BY <1>1, <1>2, <1>3, <1>6, <1>8 DEF G, u

(* Calls the timeline does not have may be hidden or done all the same.    *)
LEMMA LogSame ==
  ASSUME NEW t \in Seq(Events), NEW hidden, NEW done, NEW hidden2, NEW done2,
         \A i \in 1..Len(t) : /\ t[i].id \in hidden <=> t[i].id \in hidden2
                              /\ t[i].id \in done <=> t[i].id \in done2
  PROVE  LogOf(t, hidden, done) = LogOf(t, hidden2, done2)
<1> DEFINE n == Len(t)
<1>n. n \in Nat
  OBVIOUS
<1>1. PICK f : IsLogOf(f, t, hidden, done) /\ LogOf(t, hidden, done) = f[n]
  BY LogIs
<1>2. PICK g : IsLogOf(g, t, hidden2, done2) /\ LogOf(t, hidden2, done2) = g[n]
  BY LogIs
<1> DEFINE G == {k \in 0..n : g[k] = f[k]}
<1>3. 0 \in G
  BY <1>n, <1>1, <1>2 DEF IsLogOf
<1>4. ASSUME NEW k \in 1..n, k - 1 \in G PROVE k \in G
  <2>1. f[k] = LogStep(f[k - 1], t[k], hidden, done)
    BY <1>1 DEF IsLogOf
  <2>2. g[k] = LogStep(g[k - 1], t[k], hidden2, done2)
    BY <1>2 DEF IsLogOf
  <2>3. /\ Listed(t[k], hidden) <=> Listed(t[k], hidden2)
        /\ EntryOf(t[k], done) = EntryOf(t[k], done2)
    BY DEF Listed, EntryOf
  <2>4. g[k - 1] = f[k - 1] /\ k \in 0..n
    BY <1>4, <1>n
  <2> QED BY <2>1, <2>2, <2>3, <2>4 DEF LogStep
<1> HIDE DEF G, n
<1>5. n \in 0..n /\ \A k \in 0..n : k \in G
  BY <1>n, <1>3, <1>4, Throughout
<1> QED BY <1>1, <1>2, <1>5 DEF G

(* Its entries are not more, and not later, than the events.               *)
LEMMA LogBounds ==
  ASSUME NEW t \in Seq(Events), NEW hidden, NEW done, NEW last,
         \A i \in 1..Len(t) : t[i].at <= last
  PROVE  LET log == LogOf(t, hidden, done)
         IN  /\ log \in Seq(Entries) /\ Len(log) <= Len(t)
             /\ \A i \in 1..Len(log) : log[i].at <= last
<1> DEFINE n == Len(t)
<1>n. n \in Nat /\ \A i \in 1..n : t[i] \in Events
  OBVIOUS
<1>1. PICK f : IsLogOf(f, t, hidden, done) /\ LogOf(t, hidden, done) = f[n]
  BY LogIs
<1> DEFINE Bounded(log, k) == Len(log) <= k /\ \A i \in 1..Len(log) : log[i].at <= last
           G == {k \in 0..n : Bounded(f[k], k)}
<1>3. 0 \in G
  BY <1>n, <1>1 DEF IsLogOf
<1>4. ASSUME NEW k \in 1..n, k - 1 \in G PROVE k \in G
  <2>1. f[k] = LogStep(f[k - 1], t[k], hidden, done)
    BY <1>1 DEF IsLogOf
  <2>2. /\ f[k - 1] \in Seq(Entries) /\ k \in 0..n /\ k - 1 \in 0..n
        /\ Bounded(f[k - 1], k - 1)
    BY <1>1, <1>4, <1>n DEF IsLogOf
  <2>3. CASE Listed(t[k], hidden)
    <3>1. f[k] = Append(f[k - 1], EntryOf(t[k], done)) /\ EntryOf(t[k], done).at <= last
      BY <2>1, <2>3 DEF LogStep, EntryOf
    <3>2. EntryOf(t[k], done) \in Entries
      BY <1>n, <2>3 DEF Listed, EntryOf, Entries, Events
    <3> DEFINE l == f[k - 1]
               x == EntryOf(t[k], done)
    <3>3. l \in Seq(Entries) /\ x \in Entries /\ x.at <= last /\ Bounded(l, k - 1)
      BY <2>2, <3>1, <3>2
    <3> HIDE DEF l, x
    <3>4. Bounded(Append(l, x), k)
      BY <3>3
    <3> QED BY <2>2, <3>1, <3>4 DEF l, x
  <2>4. CASE ~Listed(t[k], hidden)
    <3>1. f[k] = f[k - 1]
      BY <2>1, <2>4 DEF LogStep
    <3>2. Bounded(f[k - 1], k)
      BY <2>2
    <3> QED BY <2>2, <3>1, <3>2
  <2> QED BY <2>3, <2>4
<1> HIDE DEF G
<1>5. \A k \in 0..n : k \in G
  <2> HIDE DEF n
  <2> QED BY <1>n, <1>3, <1>4, Throughout
<1>6. n \in G /\ f[n] \in Seq(Entries)
  BY <1>n, <1>1, <1>5 DEF IsLogOf
<1> QED BY <1>1, <1>6 DEF G

(* Every event of a timeline is one the clock can read.                    *)
LEMMA EventsAreTimeline ==
  ASSUME NEW t \in Seq(Events)
  PROVE  IsTimeline(t)
<1>1. Len(t) \in Nat /\ \A i \in 1..Len(t) : t[i] \in Events
  OBVIOUS
<1> QED BY <1>1 DEF IsTimeline, Events

LEMMA EntriesAreTimeline ==
  ASSUME NEW t \in Seq(Entries)
  PROVE  IsTimeline(t)
<1>1. Len(t) \in Nat /\ \A i \in 1..Len(t) : t[i] \in Entries
  OBVIOUS
<1> QED BY <1>1 DEF IsTimeline, Entries

(* The clock does not see the events of the authority routes, so the log   *)
(* of everything that was recorded gives the due date of the timeline.     *)
LEMMA ClockOfLog ==
  ASSUME NEW t \in Seq(Events), NEW done
  PROVE  LET log == LogOf(t, {}, done)
         IN  Scanned(log) = Scanned(t) /\ AskedDays(log) = AskedDays(t)
<1> DEFINE n == Len(t)
<1>n. n \in Nat /\ \A i \in 1..n : t[i] \in Events
  OBVIOUS
<1>1. PICK f : IsLogOf(f, t, {}, done) /\ LogOf(t, {}, done) = f[n]
  BY LogIs
<1>2. IsTimeline(t)
  BY EventsAreTimeline
<1>3. PICK s : IsScanOf(s, t) /\ Scanned(t) = s[n]
  BY <1>2, ScannedIs
<1>4. PICK a : IsSumOf(a, t) /\ AskedDays(t) = a[n]
  BY <1>2, AskedIs
<1> DEFINE Same(k) == Scanned(f[k]) = s[k] /\ AskedDays(f[k]) = a[k]
           G == {k \in 0..n : Same(k)}
<1>5. 0 \in G
  <2>1. IsTimeline(<<>>) /\ Len(<<>>) = 0
    BY DEF IsTimeline
  <2>2. PICK s0 : IsScanOf(s0, <<>>) /\ Scanned(<<>>) = s0[0]
    BY <2>1, ScannedIs
  <2>3. PICK a0 : IsSumOf(a0, <<>>) /\ AskedDays(<<>>) = a0[0]
    BY <2>1, AskedIs
  <2>4. Scanned(<<>>) = s[0] /\ AskedDays(<<>>) = a[0]
    BY <1>3, <1>4, <2>2, <2>3 DEF IsScanOf, IsSumOf
  <2>5. f[0] = <<>> /\ 0 \in 0..n
    BY <1>n, <1>1 DEF IsLogOf
  <2> QED BY <2>4, <2>5
<1>6. ASSUME NEW k \in 1..n, k - 1 \in G PROVE k \in G
  <2>1. /\ f[k] = LogStep(f[k - 1], t[k], {}, done)
        /\ s[k] = Scan(s[k - 1], t[k])
        /\ a[k] = IF t[k].action = "extension" THEN a[k - 1] + t[k].days ELSE a[k - 1]
    BY <1>1, <1>3, <1>4 DEF IsLogOf, IsScanOf, IsSumOf
  <2>2. /\ f[k - 1] \in Seq(Entries) /\ t[k] \in Events /\ Same(k - 1) /\ k \in 0..n
    BY <1>n, <1>1, <1>6 DEF IsLogOf
  <2>3. CASE Listed(t[k], {})
    <3> DEFINE l == f[k - 1]
               x == EntryOf(t[k], done)
    <3>1. l \in Seq(Entries) /\ x \in Entries
      BY <2>2, <2>3 DEF Listed, EntryOf, Entries, Events
    <3>2. x.action = t[k].action /\ x.at = t[k].at /\ x.days = t[k].days
      BY DEF EntryOf
    <3>3. f[k] = Append(l, x)
      BY <2>1, <2>3 DEF LogStep
    <3> HIDE DEF l, x
    <3>4. Append(l, x) \in Seq(Entries)
      BY <3>1
    <3>5. IsTimeline(Append(l, x))
      BY <3>4, EntriesAreTimeline
    <3>6. /\ Scanned(Append(l, x)) = Scan(Scanned(l), x)
          /\ AskedDays(Append(l, x)) =
               IF x.action = "extension" THEN AskedDays(l) + x.days ELSE AskedDays(l)
      BY <3>1, <3>5, ScannedAppend, AskedAppend
    <3>7. Scan(Scanned(l), x) = Scan(Scanned(l), t[k])
      BY <3>2 DEF Scan
    <3>8. Scanned(l) = s[k - 1] /\ AskedDays(l) = a[k - 1]
      BY <2>2 DEF l
    <3> QED BY <2>1, <2>2, <3>2, <3>3, <3>6, <3>7, <3>8
  <2>4. CASE ~Listed(t[k], {})
    <3>1. t[k].action \notin Actions
      BY <2>4 DEF Listed
    <3>2. /\ t[k].action \notin DOMAIN Pauses /\ t[k].action \notin DOMAIN Resumes
          /\ t[k].action # "extension"
      BY <3>1 DEF Actions, Transitions, Pauses, Resumes
    <3>3. Scan(s[k - 1], t[k]) = s[k - 1]
      BY <3>2 DEF Scan
    <3>4. f[k] = f[k - 1]
      BY <2>1, <2>4 DEF LogStep
    <3> QED BY <2>1, <2>2, <3>2, <3>3, <3>4
  <2> QED BY <2>3, <2>4
<1> HIDE DEF G
<1>7. \A k \in 0..n : k \in G
  <2> HIDE DEF n
  <2> QED BY <1>n, <1>5, <1>6, Throughout
<1>8. n \in G
  BY <1>n, <1>7
<1> QED BY <1>1, <1>3, <1>4, <1>8 DEF G

LEMMA DueOfLog ==
  ASSUME NEW t \in Seq(Events), NEW done, NEW today
  PROVE  FinalDueAt(LogOf(t, {}, done), today) = FinalDueAt(t, today)
<1> DEFINE log == LogOf(t, {}, done)
<1>1. Scanned(log) = Scanned(t) /\ AskedDays(log) = AskedDays(t)
  BY ClockOfLog
<1> HIDE DEF log
<1>2. PauseWindows(log, today) = PauseWindows(t, today)
  BY <1>1 DEF PauseWindows, OpenPauses
<1>3. PauseCredit(log, today) = PauseCredit(t, today)
  BY <1>2 DEF PauseCredit, PauseDays, Stopped
<1>4. ExtensionDays(log) = ExtensionDays(t)
  BY <1>1 DEF ExtensionDays
<1> QED BY <1>3, <1>4 DEF FinalDueAt, log

(* Lifecycle's clock and state machine are the same.                       *)
LEMMA LifeIsSame ==
  /\ Life!Actions = Actions
  /\ \A a, s : Life!Permitted(a, s) <=> Permitted(a, s)
  /\ Life!StatusByAction = StatusByAction
  /\ \A t, today : Life!FinalDueAt(t, today) = FinalDueAt(t, today)
<1>1. Life!Actions = Actions
  BY DEF Life!Actions, Actions, Life!Transitions, Transitions
<1>2. \A a, s : Life!Permitted(a, s) <=> Permitted(a, s)
  BY DEF Life!Permitted, Permitted, Life!Transitions, Transitions
<1>3. Life!StatusByAction = StatusByAction
  BY DEF Life!StatusByAction, StatusByAction
<1>4. ASSUME NEW t, NEW today PROVE Life!FinalDueAt(t, today) = FinalDueAt(t, today)
  <2>1. \A scan, e : Life!Scan(scan, e) = Scan(scan, e)
    BY DEF Life!Scan, Scan, Life!Pauses, Pauses, Life!Resumes, Resumes, Life!NotOpen, NotOpen
  <2>2. Life!NothingScanned = NothingScanned /\ Life!Reasons = Reasons
        /\ Life!NotOpen = NotOpen
    BY DEF Life!NothingScanned, NothingScanned, Life!Reasons, Reasons, Life!NotOpen, NotOpen
  <2>3. Life!Scanned(t) = Scanned(t)
    BY <2>1, <2>2 DEF Life!Scanned, Scanned
  <2>4. Life!AskedDays(t) = AskedDays(t)
    BY DEF Life!AskedDays, AskedDays
  <2>5. Life!PauseWindows(t, today) = PauseWindows(t, today)
    BY <2>2, <2>3 DEF Life!PauseWindows, PauseWindows, Life!OpenPauses, OpenPauses
  <2>6. Life!PauseCredit(t, today) = PauseCredit(t, today)
    <3>1. Life!Stopped(t, today) = Stopped(t, today)
      BY <2>5 DEF Life!Stopped, Stopped
    <3>2. Life!PauseDays(t, today) = PauseDays(t, today)
      BY <3>1 DEF Life!PauseDays, PauseDays
    <3>3. \A S : Life!Cardinality(S) = Cardinality(S)
      BY DEF Life!Cardinality, Cardinality
    <3> QED BY <3>2, <3>3 DEF Life!PauseCredit, PauseCredit
  <2>7. Life!ExtensionDays(t) = ExtensionDays(t)
    BY <2>4 DEF Life!ExtensionDays, ExtensionDays
  <2> QED BY <2>6, <2>7 DEF Life!FinalDueAt, FinalDueAt
<1> QED BY <1>1, <1>2, <1>3, <1>4

-----------------------------------------------------------------------------
(* Calls served one at a time.                                             *)

OneAtATime == \A g, h \in Handlers : g = h

OwnEvent(c) ==
  [id |-> c.id, action |-> c.action, at |-> c.at, days |-> c.days, key |-> c.key]

(* Everything in a timeline was there before the call.                     *)
Ahead(t, c) ==
  /\ Len(t) < c.id
  /\ \A i \in 1..Len(t) : t[i].id < c.id /\ t[i].at <= c.at

EndsWith(t, c) == \E p \in Seq(Events) : t = Append(p, OwnEvent(c)) /\ Ahead(p, c)

Recording == {"recompute", "segments", "write"}

(* The only call being served: what it has read still holds.               *)
CallIs(c, label, t, r, f, done) ==
  /\ c.action \in Actions => \E k \in Calls : k.action = c.action /\ k.days = c.days
  /\ label \in {"check", "recompute", "segments", "notify"} => c.action \in Actions
  /\ label = "fetch" => c.action \notin Actions
  /\ label \in {"check", "append", "fetch"} => Ahead(t, c)
  /\ label = "write" => f = r /\ (c.action \notin Actions => Ahead(t, c))
  /\ c.action \in Actions /\ label \in {"check", "append"} \cup Recording
       => c.seen = r.status /\ c.id \notin done
  /\ c.action \in Actions /\ label \in {"append"} \cup Recording
       => Permitted(c.action, c.seen)
  /\ c.action \in Actions /\ label \in Recording => EndsWith(t, c)
  /\ c.action \in Actions /\ label \in {"segments", "write"}
       => c.due = FinalDueAt(t, c.at)

AloneInvariant ==
  /\ calls <= MaxCalls /\ applied \subseteq 1..calls
  /\ Len(timeline) <= calls
  /\ \A i \in 1..Len(timeline) : timeline[i].id <= calls /\ timeline[i].at <= now
  /\ \A h \in Handlers : pc[h] # "idle" =>
       /\ call[h].id = calls /\ call[h].at <= now
       /\ CallIs(call[h], pc[h], timeline, row, fetched[h], applied)

LEMMA KindsOfCall ==
  /\ Actions \cap DOMAIN AuthorityByAction = {}
  /\ AuthorityCalls \cap Actions = {}
  /\ \A a \in Served : a \in Actions <=> a \notin DOMAIN AuthorityByAction
<1>1. Actions \cap DOMAIN AuthorityByAction = {}
  BY DEF Actions, Transitions, AuthorityByAction
<1> QED BY <1>1, CallsAssumption DEF Served

(* An event later than all others is listed last.                          *)
LEMMA InsertLast ==
  ASSUME NEW t \in Seq(Events), NEW e \in Events,
         \A i \in 1..Len(t) : t[i].at <= e.at
  PROVE  InsertAt(t, Cardinality({i \in 1..Len(t) : t[i].at <= e.at}) + 1, e) = Append(t, e)
<1>1. {i \in 1..Len(t) : t[i].at <= e.at} = 1..Len(t) /\ Len(t) \in Nat
  OBVIOUS
<1>2. Cardinality(1..Len(t)) = Len(t)
  BY <1>1, FS_Interval
<1> DEFINE u == InsertAt(t, Len(t) + 1, e)
<1>3. /\ u \in Seq(Events) /\ Len(u) = Len(t) + 1
      /\ \A i \in 1..(Len(t) + 1) : u[i] = IF i < Len(t) + 1 THEN t[i] ELSE e
  <2>1. Len(t) + 1 \in 1..(Len(t) + 1)
    BY <1>1
  <2>2. /\ u \in Seq(Events) /\ Len(u) = Len(t) + 1
        /\ \A i \in 1..(Len(t) + 1) : u[i] =
             IF i < Len(t) + 1 THEN t[i] ELSE IF i = Len(t) + 1 THEN e ELSE t[i - 1]
    BY <2>1, InsertKeeps
  <2> HIDE DEF u
  <2> QED BY <1>1, <2>2
<1> HIDE DEF u
<1>4. u = Append(t, e)
  <2>1. /\ Append(t, e) \in Seq(Events) /\ Len(Append(t, e)) = Len(u)
        /\ \A i \in 1..Len(u) : Append(t, e)[i] = u[i]
    BY <1>1, <1>3
  <2> QED BY <1>3, <2>1, SeqEqual
<1> QED BY <1>1, <1>2, <1>4 DEF u

(* Lifecycle sees nothing of a step that leaves the timeline, what is       *)
(* applied and the status and due date of the row alone, unless the call   *)
(* whose event is hidden changes.                                          *)
SameLife == UNCHANGED <<row.status, row.due, RecordedLog, now>>

LEMMA QuietLog ==
  ASSUME timeline \in Seq(Events), timeline' = timeline, applied' = applied,
         \A i \in 1..Len(timeline) :
           timeline[i].id \in UnderWay <=> timeline[i].id \in UnderWay'
  PROVE  RecordedLog' = RecordedLog
BY LogSame DEF RecordedLog

(* A request is read.                                                      *)
LEMMA AloneBegin ==
  ASSUME OneAtATime, CallKinds, AloneInvariant, NEW h \in Handlers, NEW c,
         NEW label \in {"check", "fetch"}, Begin(h, c, label),
         c.action \in Actions => \E k \in Calls : k.action = c.action /\ k.days = c.days,
         label = "check" <=> c.action \in Actions
  PROVE  AloneInvariant' /\ SameLife
<1>a. /\ timeline \in Seq(Events) /\ calls \in Nat /\ now \in Nat /\ MaxCalls \in Nat
      /\ DOMAIN call = Handlers /\ DOMAIN pc = Handlers
      /\ calls < MaxCalls /\ pc[h] = "idle"
      /\ \A i \in 1..Len(timeline) : timeline[i] \in Events
      /\ Len(timeline) \in Nat
  BY CallsAssumption DEF CallKinds, Begin, Busy
<1>b. /\ applied \subseteq 1..calls /\ Len(timeline) <= calls
      /\ \A i \in 1..Len(timeline) : timeline[i].id <= calls /\ timeline[i].at <= now
  BY DEF AloneInvariant
<1>c. /\ calls' = calls + 1 /\ timeline' = timeline /\ row' = row /\ applied' = applied
      /\ now' = now /\ fetched' = fetched /\ pc'[h] = label
      /\ call'[h].id = calls + 1 /\ call'[h].action = c.action /\ call'[h].days = c.days
      /\ call'[h].seen = row.status /\ call'[h].at = now
  BY <1>a DEF Begin, Goto, NoCall
<1>1. Ahead(timeline, call'[h])
  BY <1>a, <1>b, <1>c DEF Ahead, Events
<1>2. calls + 1 \notin applied
  BY <1>a, <1>b
<1>3. CallIs(call'[h], pc'[h], timeline', row', fetched'[h], applied')
  BY <1>c, <1>1, <1>2 DEF CallIs, Recording
<1>4. AloneInvariant'
  <2>1. calls' <= MaxCalls /\ applied' \subseteq 1..calls' /\ Len(timeline') <= calls'
    BY <1>a, <1>b, <1>c
  <2>2. \A i \in 1..Len(timeline') : timeline'[i].id <= calls' /\ timeline'[i].at <= now'
    BY <1>a, <1>b, <1>c DEF Events
  <2>3. \A g \in Handlers : g = h
    BY DEF OneAtATime
  <2> QED BY <1>a, <1>c, <1>3, <2>1, <2>2, <2>3 DEF AloneInvariant
<1>5. UnderWay = {} /\ UnderWay' = {}
  <2>1. \A g \in Handlers : pc[g] = "idle" /\ pc'[g] = label
    BY <1>a, <1>c DEF OneAtATime
  <2> QED BY <2>1 DEF UnderWay
<1>6. RecordedLog' = RecordedLog
  BY <1>a, <1>c, <1>5, QuietLog
<1> QED BY <1>c, <1>4, <1>6 DEF SameLife

(* The clock of a call that is under way and the row it is about to write. *)
LEMMA AloneWorks ==
  ASSUME OneAtATime, CallKinds, AloneInvariant, NEW h \in Handlers,
         Recompute(h) \/ AppendSegment(h) \/ FetchRow(h)
  PROVE  AloneInvariant' /\ SameLife
<1>a. /\ timeline \in Seq(Events)
      /\ DOMAIN call = Handlers /\ DOMAIN pc = Handlers /\ DOMAIN fetched = Handlers
      /\ Fits(call[h], pc[h]) /\ pc[h] \in {"recompute", "segments", "fetch"}
      /\ \A g \in Handlers : g = h
  BY DEF CallKinds, OneAtATime, Recompute, AppendSegment, FetchRow
<1>b. /\ calls <= MaxCalls /\ applied \subseteq 1..calls /\ Len(timeline) <= calls
      /\ \A i \in 1..Len(timeline) : timeline[i].id <= calls /\ timeline[i].at <= now
      /\ call[h].id = calls /\ call[h].at <= now
      /\ CallIs(call[h], pc[h], timeline, row, fetched[h], applied)
  BY <1>a DEF AloneInvariant
<1>c. calls' = calls /\ timeline' = timeline /\ row' = row /\ applied' = applied /\ now' = now
  BY DEF Recompute, AppendSegment, FetchRow
<1>d. /\ call'[h].id = call[h].id /\ call'[h].action = call[h].action
      /\ call'[h].at = call[h].at /\ call'[h].days = call[h].days
      /\ call'[h].key = call[h].key /\ call'[h].seen = call[h].seen
      /\ pc[h] # "recompute" => call'[h].due = call[h].due
      /\ pc[h] = "recompute" => call'[h].due = FinalDueAt(timeline, call[h].at)
  <2>1. CASE Recompute(h)
    <3>1. PICK b, q : /\ pc[h] = "recompute"
                      /\ call' = [call EXCEPT ![h] = [@ EXCEPT
                           !.due = FinalDueAt(timeline, call[h].at), !.basis = b, !.pending = q]]
      BY <2>1 DEF Recompute
    <3> QED BY <1>a, <3>1 DEF Fits, IsCall
  <2>2. CASE AppendSegment(h)
    <3>1. PICK q : call' = [call EXCEPT ![h] = [@ EXCEPT !.pending = q]]
      BY <2>2 DEF AppendSegment
    <3> QED BY <1>a, <2>2, <3>1 DEF Fits, IsCall, AppendSegment
  <2>3. CASE FetchRow(h)
    BY <2>3 DEF FetchRow
  <2> QED BY <2>1, <2>2, <2>3
<1>e. /\ pc[h] = "recompute" => pc'[h] = "segments"
      /\ pc[h] = "segments" => pc'[h] \in {"segments", "write"}
      /\ pc[h] = "fetch" => pc'[h] = "write"
      /\ pc'[h] = "write" => fetched'[h] = row
  BY <1>a DEF Recompute, AppendSegment, FetchRow, Goto
<1>1. CallIs(call'[h], pc'[h], timeline', row', fetched'[h], applied')
  <2>1. /\ Ahead(timeline, call[h]) => Ahead(timeline, call'[h])
        /\ EndsWith(timeline, call[h]) => EndsWith(timeline, call'[h])
    BY <1>d DEF Ahead, EndsWith, OwnEvent
  <2>2. CASE pc[h] = "fetch"
    BY <1>b, <1>c, <1>d, <1>e, <2>1, <2>2 DEF CallIs, Recording
  <2>3. CASE pc[h] \in {"recompute", "segments"}
    BY <1>b, <1>c, <1>d, <1>e, <2>1, <2>3 DEF CallIs, Recording
  <2> QED BY <1>a, <2>2, <2>3
<1>2. AloneInvariant'
  BY <1>a, <1>b, <1>c, <1>d, <1>1 DEF AloneInvariant
<1>3. RecordedLog' = RecordedLog
  <2>1. CASE pc[h] = "fetch"
    <3>1. UnderWay = {} /\ UnderWay' = {calls}
      BY <1>a, <1>b, <1>d, <1>e, <2>1 DEF UnderWay
    <3>2. \A i \in 1..Len(timeline) : timeline[i].id \in Nat /\ timeline[i].id < calls
      <4>1. Ahead(timeline, call[h]) /\ call[h].id = calls
        BY <1>b, <2>1 DEF CallIs
      <4>2. \A i \in 1..Len(timeline) : timeline[i] \in Events
        BY <1>a
      <4> QED BY <4>1, <4>2 DEF Ahead, Events
    <3>3. calls \in Nat
      BY DEF CallKinds
    <3>4. \A i \in 1..Len(timeline) :
            timeline[i].id \notin UnderWay /\ timeline[i].id \notin UnderWay'
      BY <3>1, <3>2, <3>3
    <3> QED BY <1>a, <1>c, <3>4, QuietLog
  <2>2. CASE pc[h] \in {"recompute", "segments"}
    <3>1. UnderWay = {calls} /\ UnderWay' = {calls}
      BY <1>a, <1>b, <1>d, <1>e, <2>2 DEF UnderWay
    <3> QED BY <1>a, <1>c, <3>1, QuietLog
  <2> QED BY <1>a, <2>1, <2>2
<1> QED BY <1>c, <1>2, <1>3 DEF SameLife

(* The check on the row that was read, and everything after the row is     *)
(* written.                                                                *)
LEMMA AloneDecides ==
  ASSUME OneAtATime, CallKinds, AloneInvariant, NEW h \in Handlers,
         Check(h) \/ AppendAudit(h) \/ Notify(h)
  PROVE  AloneInvariant' /\ SameLife
<1>a. /\ timeline \in Seq(Events) /\ now \in Nat
      /\ DOMAIN call = Handlers /\ DOMAIN pc = Handlers /\ Fits(call[h], pc[h])
      /\ pc[h] \in {"check", "audit", "notify"} /\ \A g \in Handlers : g = h
      /\ \A i \in 1..Len(timeline) : timeline[i] \in Events
  BY DEF CallKinds, OneAtATime, Check, AppendAudit, Notify
<1>b. /\ calls <= MaxCalls /\ applied \subseteq 1..calls /\ Len(timeline) <= calls
      /\ \A i \in 1..Len(timeline) : timeline[i].id <= calls /\ timeline[i].at <= now
      /\ call[h].id = calls /\ call[h].at <= now
      /\ CallIs(call[h], pc[h], timeline, row, fetched[h], applied)
  BY <1>a DEF AloneInvariant
<1>c. /\ calls' = calls /\ timeline' = timeline /\ row' = row /\ applied' = applied
      /\ now' = now /\ fetched' = fetched
  BY DEF Check, AppendAudit, Notify
<1>d. \/ pc'[h] = "idle"
      \/ /\ pc[h] = "audit" /\ pc'[h] = "notify" /\ call'[h] = call[h]
         /\ call[h].action \notin DOMAIN AuthorityByAction
      \/ /\ pc[h] = "check" /\ pc'[h] = "append" /\ call'[h] = [call[h] EXCEPT !.at = now]
         /\ Permitted(call[h].action, call[h].seen)
  BY <1>a DEF Check, AppendAudit, Notify, Finish, Goto, IsAuthority
<1>1. AloneInvariant'
  <2>1. CASE pc'[h] = "idle"
    BY <1>a, <1>b, <1>c, <2>1 DEF AloneInvariant
  <2>2. CASE /\ pc[h] = "audit" /\ pc'[h] = "notify" /\ call'[h] = call[h]
             /\ call[h].action \notin DOMAIN AuthorityByAction
    <3>1. call[h].action \in Actions
      BY <1>a, <2>2, KindsOfCall DEF Fits
    <3>2. CallIs(call'[h], pc'[h], timeline', row', fetched'[h], applied')
      BY <1>b, <1>c, <2>2, <3>1 DEF CallIs, Recording
    <3> QED BY <1>a, <1>b, <1>c, <2>2, <3>2 DEF AloneInvariant
  <2>3. CASE /\ pc[h] = "check" /\ pc'[h] = "append" /\ call'[h] = [call[h] EXCEPT !.at = now]
             /\ Permitted(call[h].action, call[h].seen)
    <3>1. /\ call'[h].id = call[h].id /\ call'[h].action = call[h].action
          /\ call'[h].days = call[h].days /\ call'[h].seen = call[h].seen
          /\ call'[h].at = now
      BY <1>a, <2>3 DEF Fits, IsCall
    <3>2. Ahead(timeline, call'[h])
      BY <1>b, <2>3, <3>1 DEF CallIs, Ahead
    <3>3. CallIs(call'[h], pc'[h], timeline', row', fetched'[h], applied')
      BY <1>b, <1>c, <2>3, <3>1, <3>2 DEF CallIs, Recording
    <3>4. call'[h].id = calls' /\ call'[h].at <= now'
      BY <1>a, <1>b, <1>c, <3>1
    <3> QED BY <1>a, <1>b, <1>c, <3>3, <3>4 DEF AloneInvariant
  <2> QED BY <1>d, <2>1, <2>2, <2>3
<1>2. UnderWay = {} /\ UnderWay' = {}
  BY <1>a, <1>d DEF UnderWay
<1>3. RecordedLog' = RecordedLog
  BY <1>a, <1>c, <1>2, QuietLog
<1> QED BY <1>c, <1>1, <1>3 DEF SameLife

(* An event is appended: for Lifecycle it is still to come.                *)
LEMMA AloneAppends ==
  ASSUME OneAtATime, CallKinds, AloneInvariant, NEW h \in Handlers, AppendEvent(h)
  PROVE  AloneInvariant' /\ SameLife
<1> DEFINE e == OwnEvent(call[h])
<1>a. /\ timeline \in Seq(Events) /\ now \in Nat /\ calls \in Nat
      /\ DOMAIN call = Handlers /\ DOMAIN pc = Handlers /\ Fits(call[h], pc[h])
      /\ pc[h] = "append" /\ \A g \in Handlers : g = h
      /\ Len(timeline) \in Nat /\ \A i \in 1..Len(timeline) : timeline[i] \in Events
  BY DEF CallKinds, OneAtATime, AppendEvent
<1>b. /\ calls <= MaxCalls /\ applied \subseteq 1..calls /\ Len(timeline) <= calls
      /\ \A i \in 1..Len(timeline) : timeline[i].id <= calls /\ timeline[i].at <= now
      /\ call[h].id = calls /\ call[h].at <= now
      /\ CallIs(call[h], pc[h], timeline, row, fetched[h], applied)
  BY <1>a DEF AloneInvariant
<1>c. /\ calls' = calls /\ row' = row /\ applied' = applied /\ now' = now
      /\ fetched' = fetched /\ call' = call
      /\ pc'[h] = IF IsAuthority(h) THEN "audit" ELSE "recompute"
  BY <1>a DEF AppendEvent, Goto
<1>d. IsAuthority(h) <=> call[h].action \notin Actions
  BY <1>a, KindsOfCall DEF IsAuthority, Fits
<1>e. e \in Events /\ e.id = calls /\ e.at = call[h].at /\ e.action = call[h].action
  BY <1>a, <1>b DEF OwnEvent, Fits, Events
<1>f. Ahead(timeline, call[h])
  BY <1>a, <1>b DEF CallIs
<1>1. timeline' = Append(timeline, e)
  <2>1. timeline' = InsertAt(timeline,
                      Cardinality({i \in 1..Len(timeline) : timeline[i].at <= e.at}) + 1, e)
    BY DEF AppendEvent, OwnEvent
  <2>2. \A i \in 1..Len(timeline) : timeline[i].at <= e.at
    BY <1>e, <1>f DEF Ahead
  <2> HIDE DEF e
  <2> QED BY <1>a, <1>e, <2>1, <2>2, InsertLast
<1>2. /\ Len(timeline') = Len(timeline) + 1 /\ timeline'[Len(timeline) + 1] = e
      /\ \A i \in 1..Len(timeline) : timeline'[i] = timeline[i]
  <2> HIDE DEF e
  <2> QED BY <1>a, <1>e, <1>1
<1>3. CallIs(call'[h], pc'[h], timeline', row', fetched'[h], applied')
  <2>1. EndsWith(timeline', call[h])
    BY <1>a, <1>f, <1>1 DEF EndsWith
  <2> HIDE DEF e
  <2> QED BY <1>a, <1>b, <1>c, <1>d, <2>1 DEF CallIs, Recording
<1>4. AloneInvariant'
  <2> HIDE DEF e
  <2>1. Len(timeline') <= calls'
    BY <1>a, <1>b, <1>c, <1>f, <1>2 DEF Ahead
  <2>2. \A i \in 1..Len(timeline') : timeline'[i].id <= calls' /\ timeline'[i].at <= now'
    <3> SUFFICES ASSUME NEW i \in 1..Len(timeline')
                 PROVE  timeline'[i].id <= calls' /\ timeline'[i].at <= now'
      OBVIOUS
    <3>1. i \in 1..Len(timeline) \/ i = Len(timeline) + 1
      BY <1>a, <1>2
    <3> QED BY <1>a, <1>b, <1>c, <1>e, <1>2, <3>1
  <2> QED BY <1>a, <1>b, <1>c, <1>3, <2>1, <2>2 DEF AloneInvariant
<1>5. RecordedLog' = RecordedLog
  <2> HIDE DEF e
  <2>1. UnderWay = {} /\ UnderWay' = IF IsAuthority(h) THEN {} ELSE {calls}
    BY <1>a, <1>b, <1>c DEF UnderWay
  <2>2. ~Listed(e, UnderWay')
    BY <1>d, <1>e, <2>1 DEF Listed
  <2>3. LogOf(timeline', UnderWay', applied) = LogOf(timeline, UnderWay', applied)
    BY <1>a, <1>e, <1>1, <2>2, LogAppend DEF LogStep
  <2>4. \A i \in 1..Len(timeline) : timeline[i].id \notin UnderWay /\ timeline[i].id \notin UnderWay'
    BY <1>a, <1>b, <1>f, <2>1 DEF Ahead, Events
  <2>5. LogOf(timeline, UnderWay', applied) = LogOf(timeline, UnderWay, applied)
    BY <1>a, <2>4, LogSame
  <2> QED BY <1>c, <2>3, <2>5 DEF RecordedLog
<1> QED BY <1>c, <1>4, <1>5 DEF SameLife

(* The event of a call that reaches the row, or ends before it, is the     *)
(* next of Lifecycle's log.                                                *)
EntersLog(t, c, before, after) ==
  LET log == LogOf(t, {c.id}, before)
  IN  /\ log \in Seq(Entries) /\ Len(log) < c.id
      /\ \A i \in 1..Len(log) : log[i].at <= c.at
      /\ LogOf(t, {}, after) = Append(log, EntryOf(OwnEvent(c), after))

LEMMA LogNext ==
  ASSUME NEW t \in Seq(Events), NEW c, EndsWith(t, c), OwnEvent(c) \in Events,
         c.action \in Actions, NEW before, NEW after,
         c.id \in Nat, before \ {c.id} = after \ {c.id}
  PROVE  EntersLog(t, c, before, after)
<1> DEFINE e == OwnEvent(c)
<1>1. PICK p \in Seq(Events) : t = Append(p, e) /\ Ahead(p, c)
  BY DEF EndsWith
<1>2. e \in Events /\ e.id = c.id /\ e.action = c.action
  BY DEF OwnEvent
<1> HIDE DEF e
<1>3. LogOf(t, {c.id}, before) = LogOf(p, {c.id}, before)
  BY <1>1, <1>2, LogAppend DEF LogStep, Listed
<1>4. LogOf(t, {}, after) = Append(LogOf(p, {}, after), EntryOf(e, after))
  BY <1>1, <1>2, LogAppend DEF LogStep, Listed
<1>5. LogOf(p, {}, after) = LogOf(p, {c.id}, before)
  <2>1. \A i \in 1..Len(p) : p[i].id # c.id
    <3>1. \A i \in 1..Len(p) : p[i] \in Events
      OBVIOUS
    <3>2. \A i \in 1..Len(p) : p[i].id < c.id /\ p[i].id \in Nat
      BY <1>1, <3>1 DEF Ahead, Events
    <3> QED BY <3>2
  <2>2. \A i \in 1..Len(p) : /\ p[i].id \in {} <=> p[i].id \in {c.id}
                             /\ p[i].id \in after <=> p[i].id \in before
    BY <2>1
  <2> QED BY <2>2, LogSame
<1>6. LET log == LogOf(p, {c.id}, before)
      IN  /\ log \in Seq(Entries) /\ Len(log) <= Len(p)
          /\ \A i \in 1..Len(log) : log[i].at <= c.at
  <2>1. \A i \in 1..Len(p) : p[i].at <= c.at
    BY <1>1 DEF Ahead
  <2> QED BY <2>1, LogBounds
<1> DEFINE log == LogOf(t, {c.id}, before)
<1>7. /\ log \in Seq(Entries) /\ Len(log) <= Len(p) /\ Len(p) < c.id
      /\ Len(p) \in Nat /\ \A i \in 1..Len(log) : log[i].at <= c.at
  <2>1. Len(p) < c.id /\ Len(p) \in Nat
    BY <1>1 DEF Ahead
  <2>2. log = LogOf(p, {c.id}, before)
    BY <1>3
  <2> HIDE DEF log
  <2>3. /\ log \in Seq(Entries) /\ Len(log) <= Len(p)
        /\ \A i \in 1..Len(log) : log[i].at <= c.at
    BY <1>6, <2>2
  <2> QED BY <2>1, <2>3
<1>8. LogOf(t, {}, after) = Append(log, EntryOf(e, after))
  BY <1>3, <1>4, <1>5
<1> HIDE DEF log
<1>9. Len(log) \in Nat /\ Len(log) < c.id
  BY <1>7
<1> QED BY <1>7, <1>8, <1>9 DEF e, log, EntersLog

LEMMA CallEnters ==
  ASSUME OneAtATime, CallKinds, AloneInvariant, NEW h \in Handlers,
         pc[h] \in Recording, call[h].action \in Actions,
         timeline' = timeline, UnderWay' = {}, applied \ {calls} = applied' \ {calls}
  PROVE  /\ call[h].id = calls
         /\ Life!Permitted(call[h].action, row.status)
         /\ Len(RecordedLog) < MaxCalls
         /\ call[h].at \in Life!LastAt..now
         /\ call[h].days \in Life!DaysOf(call[h].action)
         /\ RecordedLog' =
              Append(RecordedLog,
                Life!Event(call[h].action, call[h].at, call[h].days, calls \in applied'))
<1> DEFINE c == call[h]
<1>a. /\ timeline \in Seq(Events) /\ now \in Nat /\ calls \in Nat /\ MaxCalls \in Nat
      /\ Fits(c, pc[h]) /\ pc[h] # "idle" /\ \A g \in Handlers : g = h
  BY CallsAssumption DEF CallKinds, OneAtATime, Recording
<1>b. /\ calls <= MaxCalls /\ c.id = calls /\ c.at <= now
      /\ CallIs(c, pc[h], timeline, row, fetched[h], applied)
  BY <1>a DEF AloneInvariant
<1> HIDE DEF c
<1>1. /\ EndsWith(timeline, c) /\ c.seen = row.status
      /\ Permitted(c.action, c.seen)
      /\ \E k \in Calls : k.action = c.action /\ k.days = c.days
  BY <1>b DEF CallIs, c
<1>2. OwnEvent(c) \in Events /\ c.at \in Nat
  BY <1>a DEF OwnEvent, Fits, Events
<1>3. UnderWay = {calls}
  BY <1>a, <1>b DEF UnderWay, Recording, c
<1>4. /\ RecordedLog \in Seq(Entries) /\ Len(RecordedLog) < calls
      /\ \A i \in 1..Len(RecordedLog) : RecordedLog[i].at <= c.at
      /\ RecordedLog' = Append(RecordedLog, EntryOf(OwnEvent(c), applied'))
  <2>1. /\ RecordedLog = LogOf(timeline, {c.id}, applied)
        /\ RecordedLog' = LogOf(timeline, {}, applied')
    BY <1>b, <1>3 DEF RecordedLog
  <2>2. c.id \in Nat /\ applied \ {c.id} = applied' \ {c.id} /\ c.action \in Actions
    BY <1>a, <1>b DEF c
  <2> DEFINE log == LogOf(timeline, {c.id}, applied)
  <2>3. /\ log \in Seq(Entries) /\ Len(log) < c.id
        /\ \A i \in 1..Len(log) : log[i].at <= c.at
        /\ LogOf(timeline, {}, applied') = Append(log, EntryOf(OwnEvent(c), applied'))
    <3>1. timeline \in Seq(Events) /\ EndsWith(timeline, c) /\ OwnEvent(c) \in Events
      BY <1>a, <1>1, <1>2
    <3>2. EntersLog(timeline, c, applied, applied')
      BY <2>2, <3>1, LogNext
    <3> QED BY <3>2 DEF EntersLog
  <2> HIDE DEF log
  <2> QED BY <1>b, <2>1, <2>3 DEF log
<1>5. Len(RecordedLog) \in Nat /\ Len(RecordedLog) < MaxCalls
  BY <1>a, <1>b, <1>4
<1>6. c.at \in Life!LastAt..now
  <2>1. CASE RecordedLog = <<>>
    BY <1>a, <1>b, <1>2, <2>1 DEF Life!LastAt
  <2>2. CASE RecordedLog # <<>>
    <3>1. Len(RecordedLog) \in 1..Len(RecordedLog)
      BY <1>4, <1>5, <2>2
    <3>2. RecordedLog[Len(RecordedLog)] \in Entries
      BY <1>4, <3>1
    <3>3. RecordedLog[Len(RecordedLog)].at \in Nat /\ RecordedLog[Len(RecordedLog)].at <= c.at
      BY <1>4, <3>1, <3>2 DEF Entries
    <3> QED BY <1>a, <1>b, <1>2, <2>2, <3>3 DEF Life!LastAt
  <2> QED BY <2>1, <2>2
<1>7. c.days \in Life!DaysOf(c.action)
  <2>1. PICK k \in Calls : k.action = c.action /\ k.days = c.days
    BY <1>1
  <2>2. c.action # "extension" => c.days = 0
    BY <2>1, CallsAssumption
  <2> QED BY <2>1, <2>2 DEF Life!DaysOf
<1>8. EntryOf(OwnEvent(c), applied') = Life!Event(c.action, c.at, c.days, calls \in applied')
  BY <1>b DEF EntryOf, OwnEvent, Life!Event
<1>9. Life!Permitted(c.action, row.status)
  BY <1>1, LifeIsSame
<1> QED BY <1>b, <1>4, <1>5, <1>6, <1>7, <1>8, <1>9 DEF c

(* The row is written: for Lifecycle this is the call.                     *)
LEMMA AloneWrites ==
  ASSUME OneAtATime, CallKinds, AloneInvariant, NEW h \in Handlers, WriteRow(h)
  PROVE  AloneInvariant' /\ (SameLife \/ Life!Next)
<1>a. /\ timeline \in Seq(Events) /\ calls \in Nat /\ now \in Nat
      /\ DOMAIN call = Handlers /\ DOMAIN pc = Handlers /\ Fits(call[h], pc[h])
      /\ pc[h] = "write" /\ IsRow(fetched[h]) /\ \A g \in Handlers : g = h
      /\ \A i \in 1..Len(timeline) : timeline[i] \in Events
  BY DEF CallKinds, OneAtATime, WriteRow
<1>b. /\ calls <= MaxCalls /\ applied \subseteq 1..calls /\ Len(timeline) <= calls
      /\ \A i \in 1..Len(timeline) : timeline[i].id <= calls /\ timeline[i].at <= now
      /\ call[h].id = calls /\ call[h].at <= now
      /\ CallIs(call[h], pc[h], timeline, row, fetched[h], applied)
  BY <1>a DEF AloneInvariant
<1>c. /\ calls' = calls /\ timeline' = timeline /\ now' = now /\ call' = call
      /\ fetched' = fetched /\ row' = Updated(h)
      /\ pc'[h] = IF IsAuthority(h) THEN "append" ELSE "audit"
      /\ applied' = IF IsAuthority(h) THEN applied ELSE applied \cup {calls}
  BY <1>a, <1>b DEF WriteRow, Goto
<1>d. IsAuthority(h) <=> call[h].action \notin Actions
  BY <1>a, KindsOfCall DEF IsAuthority, Fits
<1>e. fetched[h] = row /\ UnderWay = {calls} /\ UnderWay' = {}
  BY <1>a, <1>b, <1>c DEF CallIs, UnderWay
<1>1. AloneInvariant'
  <2>1. applied' \subseteq 1..calls'
    <3>1. calls # 0 \/ call[h].action \notin Actions
      <4>1. ASSUME call[h].action \in Actions PROVE calls # 0
        <5>1. EndsWith(timeline, call[h])
          BY <1>a, <1>b, <4>1 DEF CallIs, Recording
        <5>2. PICK p \in Seq(Events) : Ahead(p, call[h])
          BY <5>1 DEF EndsWith
        <5>3. Len(p) \in Nat /\ Len(p) < calls
          BY <1>b, <5>2 DEF Ahead
        <5> QED BY <5>3
      <4> QED BY <4>1
    <3> QED BY <1>a, <1>b, <1>c, <1>d, <3>1
  <2>2. CallIs(call'[h], pc'[h], timeline', row', fetched'[h], applied')
    BY <1>a, <1>b, <1>c, <1>d DEF CallIs, Recording
  <2> QED BY <1>a, <1>b, <1>c, <2>1, <2>2 DEF AloneInvariant
<1>2. CASE IsAuthority(h)
  <2>1. row'.status = row.status /\ row'.due = row.due
    BY <1>a, <1>c, <1>e, <1>2 DEF Updated, IsRow
  <2>2. \A i \in 1..Len(timeline) :
          timeline[i].id \notin UnderWay /\ timeline[i].id \notin UnderWay'
    <3>1. Ahead(timeline, call[h])
      BY <1>a, <1>b, <1>d, <1>2 DEF CallIs
    <3> QED BY <1>a, <1>b, <1>e, <3>1 DEF Ahead, Events
  <2>3. RecordedLog' = RecordedLog
    BY <1>a, <1>c, <1>2, <2>2, QuietLog
  <2> QED BY <1>1, <1>c, <2>1, <2>3 DEF SameLife
<1>3. CASE ~IsAuthority(h)
  <2> DEFINE a == call[h].action
  <2>1. a \in Actions /\ applied' = applied \cup {calls}
    BY <1>c, <1>d, <1>3
  <2>2. /\ Life!Permitted(a, row.status) /\ Len(RecordedLog) < MaxCalls
        /\ call[h].at \in Life!LastAt..now /\ call[h].days \in Life!DaysOf(a)
        /\ RecordedLog' =
             Append(RecordedLog, Life!Event(a, call[h].at, call[h].days, calls \in applied'))
    BY <1>a, <1>c, <1>e, <2>1, CallEnters DEF Recording
  <2>3. RecordedLog' =
          Append(RecordedLog, Life!Event(a, call[h].at, call[h].days, TRUE))
    BY <2>1, <2>2 DEF Life!Event
  <2>4. row'.status = StatusByAction[a] /\ row'.due = call[h].due
    BY <1>a, <1>c, <1>3 DEF Updated, IsRow
  <2>5. row'.due = Life!FinalDueAt(RecordedLog', call[h].at)
    <3>1. call[h].due = FinalDueAt(timeline, call[h].at)
      BY <1>a, <1>b, <2>1 DEF CallIs
    <3>2. RecordedLog' = LogOf(timeline, {}, applied')
      BY <1>c, <1>e DEF RecordedLog
    <3>3. FinalDueAt(RecordedLog', call[h].at) = FinalDueAt(timeline, call[h].at)
      BY <1>a, <3>2, DueOfLog
    <3> QED BY <2>4, <3>1, <3>3, LifeIsSame
  <2>6. row'.status = Life!StatusByAction[a] /\ a \in Life!Actions
    BY <2>1, <2>4, LifeIsSame
  <2>7. Life!Transition(a)
    <3> HIDE DEF a
    <3> QED BY <1>c, <2>2, <2>3, <2>5, <2>6 DEF Life!Transition
  <2> QED BY <1>1, <2>6, <2>7 DEF Life!Next
<1> QED BY <1>2, <1>3

(* A call ends after any of its statements: once its event is in the       *)
(* timeline Lifecycle's call is abandoned.                                 *)
LEMMA AloneFails ==
  ASSUME OneAtATime, CallKinds, AloneInvariant, NEW h \in Handlers, Fail(h)
  PROVE  AloneInvariant' /\ (SameLife \/ Life!Next)
<1>a. /\ timeline \in Seq(Events) /\ calls \in Nat
      /\ DOMAIN call = Handlers /\ DOMAIN pc = Handlers /\ Fits(call[h], pc[h])
      /\ pc[h] # "idle" /\ \A g \in Handlers : g = h
      /\ \A i \in 1..Len(timeline) : timeline[i] \in Events
  BY DEF CallKinds, OneAtATime, Fail, Busy
<1>b. /\ call[h].id = calls
      /\ CallIs(call[h], pc[h], timeline, row, fetched[h], applied)
      /\ applied \subseteq 1..calls
  BY <1>a DEF AloneInvariant
<1>c. /\ calls' = calls /\ timeline' = timeline /\ row' = row /\ applied' = applied
      /\ now' = now /\ pc'[h] = "idle"
  BY <1>a DEF Fail, Finish, Goto
<1>1. AloneInvariant'
  BY <1>a, <1>c DEF AloneInvariant
<1>2. UnderWay = (IF pc[h] \in Recording THEN {calls} ELSE {}) /\ UnderWay' = {}
  BY <1>a, <1>b, <1>c DEF UnderWay, Recording
<1>3. CASE ~(pc[h] \in Recording /\ call[h].action \in Actions)
  <2>1. pc[h] \in Recording => Ahead(timeline, call[h])
    BY <1>b, <1>3 DEF CallIs, Recording
  <2>2. \A i \in 1..Len(timeline) :
          timeline[i].id \notin UnderWay /\ timeline[i].id \notin UnderWay'
    BY <1>a, <1>b, <1>2, <2>1 DEF Ahead, Events
  <2>3. RecordedLog' = RecordedLog
    BY <1>a, <1>c, <2>2, QuietLog
  <2> QED BY <1>1, <1>c, <2>3 DEF SameLife
<1>4. CASE pc[h] \in Recording /\ call[h].action \in Actions
  <2> DEFINE a == call[h].action
  <2>1. /\ Life!Permitted(a, row.status) /\ Len(RecordedLog) < MaxCalls
        /\ call[h].at \in Life!LastAt..now /\ call[h].days \in Life!DaysOf(a)
        /\ RecordedLog' =
             Append(RecordedLog, Life!Event(a, call[h].at, call[h].days, calls \in applied'))
    BY <1>c, <1>2, <1>4, CallEnters
  <2>2. (calls \in applied') = FALSE
    BY <1>b, <1>c, <1>4 DEF CallIs, Recording
  <2>3. RecordedLog' =
          Append(RecordedLog, Life!Event(a, call[h].at, call[h].days, FALSE))
    <3> HIDE DEF a
    <3> QED BY <2>1, <2>2, Zenon
  <2>4. a \in Life!Actions
    BY <1>4, LifeIsSame
  <2>5. Life!Abandon(a)
    <3> HIDE DEF a
    <3> QED BY <1>c, <2>1, <2>3, <2>4 DEF Life!Abandon
  <2> QED BY <1>1, <2>4, <2>5 DEF Life!Next
<1> QED BY <1>3, <1>4

LEMMA AloneStep ==
  ASSUME OneAtATime, CallKinds, AloneInvariant, [Next]_vars
  PROVE  AloneInvariant' /\ (SameLife \/ Life!Next)
<1>1. ASSUME NEW h \in Handlers, StartTransition(h) PROVE AloneInvariant' /\ SameLife
  <2>1. PICK c \in Calls : Begin(h, c, "check")
    BY <1>1 DEF StartTransition
  <2>2. c.action \in Actions
    BY CallsAssumption
  <2> QED BY <2>1, <2>2, AloneBegin
<1>2. ASSUME NEW h \in Handlers, StartAuthority(h) PROVE AloneInvariant' /\ SameLife
  <2>1. PICK a \in AuthorityCalls :
          Begin(h, [action |-> a, days |-> 0, key |-> NoKey], "fetch")
    BY <1>2 DEF StartAuthority
  <2> DEFINE c == [action |-> a, days |-> 0, key |-> NoKey]
  <2>2. c.action \notin Actions /\ Begin(h, c, "fetch")
    BY <2>1, KindsOfCall
  <2> HIDE DEF c
  <2> QED BY <2>2, AloneBegin
<1>3. CASE Pass
  <2>1. AloneInvariant'
    <3>1. now' = now + 1 /\ now \in Nat
      BY <1>3 DEF Pass, CallKinds
    <3>2. /\ calls' = calls /\ timeline' = timeline /\ row' = row /\ applied' = applied
          /\ pc' = pc /\ call' = call /\ fetched' = fetched
      BY <1>3 DEF Pass
    <3>3. \A i \in 1..Len(timeline) : timeline[i] \in Events
      BY DEF CallKinds
    <3>4. \A h \in Handlers : pc[h] # "idle" => call[h].at \in Nat
      BY DEF CallKinds, Fits
    <3>5. /\ calls <= MaxCalls /\ applied \subseteq 1..calls /\ Len(timeline) <= calls
          /\ \A i \in 1..Len(timeline) : timeline[i].id <= calls /\ timeline[i].at <= now
          /\ \A h \in Handlers : pc[h] # "idle" =>
               /\ call[h].id = calls /\ call[h].at <= now
               /\ CallIs(call[h], pc[h], timeline, row, fetched[h], applied)
      BY DEF AloneInvariant
    <3>6. \A i \in 1..Len(timeline) : timeline[i].at <= now'
      BY <3>1, <3>3, <3>5 DEF Events
    <3>7. \A h \in Handlers : pc[h] # "idle" => call[h].at <= now'
      BY <3>1, <3>4, <3>5
    <3> QED BY <3>2, <3>5, <3>6, <3>7 DEF AloneInvariant
  <2>2. RecordedLog' = RecordedLog
    BY <1>3 DEF Pass, RecordedLog, UnderWay
  <2>3. Life!Pass
    BY <1>3, <2>2 DEF Pass, Life!Pass
  <2> QED BY <2>1, <2>3 DEF Life!Next
<1>4. CASE UNCHANGED vars
  <2>1. AloneInvariant'
    BY <1>4 DEF vars, AloneInvariant
  <2>2. SameLife
    BY <1>4 DEF vars, SameLife, RecordedLog, UnderWay
  <2> QED BY <2>1, <2>2
<1> QED
  BY <1>1, <1>2, <1>3, <1>4, AloneDecides, AloneAppends, AloneWorks, AloneWrites, AloneFails
  DEF Next, Step

(* transitionRequestLifecycle checks the row it read, appends the event,   *)
(* recomputes the clock and updates the row in statements of their own, and *)
(* may fail after each: when calls are served one at a time this is a      *)
(* behaviour of Lifecycle, in which a call is one step. A request whose    *)
(* status and due date could be explained by no sequence of atomic calls   *)
(* needs two calls at once.                                                *)
THEOREM AloneIsAtomic ==
  ASSUME OneAtATime
  PROVE  Spec => AtomicWhenAlone
<1>1. Init => AloneInvariant /\ Life!Init
  <2> SUFFICES ASSUME Init PROVE AloneInvariant /\ Life!Init
    OBVIOUS
  <2>1. timeline = <<>> /\ applied = {} /\ calls = 0 /\ now = 0 /\ row = InitialRow
        /\ \A h \in Handlers : pc[h] = "idle"
    BY DEF Init
  <2>2. AloneInvariant
    BY <2>1, CallsAssumption DEF AloneInvariant
  <2>3. RecordedLog = <<>>
    <3>1. <<>> \in Seq(Events) /\ Len(<<>>) = 0
      OBVIOUS
    <3>2. PICK f : IsLogOf(f, <<>>, UnderWay, {}) /\ LogOf(<<>>, UnderWay, {}) = f[0]
      BY <3>1, LogIs
    <3> QED BY <2>1, <3>2 DEF RecordedLog, IsLogOf
  <2>4. row.status = "captured" /\ row.due = ResponseDays
    BY <2>1 DEF InitialRow
  <2> QED BY <2>1, <2>2, <2>3, <2>4 DEF Life!Init
<1>2. CallKinds /\ AloneInvariant /\ [Next]_vars => AloneInvariant' /\ [Life!Next]_(Life!vars)
  BY AloneStep DEF SameLife, Life!vars
<1> QED BY <1>1, <1>2, CallKindsInvariant, PTL DEF Spec, AtomicWhenAlone, Life!Spec
=============================================================================
