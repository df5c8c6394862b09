---------------------------- MODULE Requests_proofs ----------------------------
(***************************************************************************)
(* What the routes over the requests row and its manifests keep, for any   *)
(* number of calls, appeals, manifests and artifacts: UpdatesSurvive,      *)
(* OpensOnlyProven, UploadsKept and FulfilledWasApproved.                  *)
(*                                                                         *)
(* What is kept beside the requests rows, for any number of callers,       *)
(* attempts, versions and documents: the evidence of a request             *)
(* (EvidenceStands) and the objects of the two stores (StoresAreWhole);    *)
(* and what a subject sees of the rows, for any number of requests and     *)
(* size of a page (SubjectSeesOwn).                                        *)
(***************************************************************************)
EXTENDS Fulfilment, RequestEvidence, ObjectStores, SubjectPortal, Recursion_proofs

RecordLabels == {"idle", "transition", "check", "append", "status_fetch", "status_write",
                 "fetch", "write", "announce"}
OwnLabels == {"create", "put", "list", "attach", "overwrite", "validate", "gate", "notify",
              "unlock"}
RecordRoutes == {"submit", "decide", "requestor", "staff"}
OwnRoutes == {"callback", "upload", "replace", "review", "challenge", "complete"}

Values == {"none", "submitted"} \cup {StatusByDecision[d] : d \in Decisions} \cup Requestors
Rows   == [status : Statuses, appeals : [Appeals -> Values \cup {"absent"}],
           requestor : Values \cup {"captured"}]
Calls  == [route : {"none", "fulfil"} \cup RecordRoutes \cup OwnRoutes,
           action : Actions \cup {"none"}, appeal : Appeals \cup {NoAppeal}, value : Values,
           seen : Rows, fetched : Rows, stale : BOOLEAN]
Works  == [target : Manifests \cup {NoManifest}, entries : SUBSET Artifacts,
           artifact : Artifacts \cup {NoArtifact}, token : Nat, at : Nat,
           review : {"none", "approved", "rejected"}, stale : BOOLEAN]
Gates  == [token : Nat, status : {"none", "pending", "completed"}]
ManifestRows == [at : Nat, review : {"none", "pending", "approved", "rejected"},
                 entries : SUBSET Artifacts, gate : Gates]

RecordTypes ==
  /\ row \in Rows /\ intended \in Rows /\ raced \in BOOLEAN
  /\ pc \in [Handlers -> RecordLabels \cup OwnLabels]
  /\ call \in [Handlers -> Calls]

ManifestTypes ==
  /\ manifests \in [Manifests -> ManifestRows]
  /\ work \in [Handlers -> Works]
  /\ stored \subseteq Artifacts /\ uploaded \subseteq Artifacts
  /\ clock \in Nat /\ tokens \in Nat /\ overlapped \in BOOLEAN

(* Which route is at which statement.                                      *)
Fits(c, label) ==
  /\ label \in {"fetch", "write"} => c.route \in {"submit", "decide", "requestor"}
  /\ label \in {"transition", "check", "append", "status_fetch", "status_write"} =>
       c.action \in Actions /\ c.route \in {"decide", "staff", "fulfil"}
  /\ c.route \in {"submit", "decide"} => c.appeal \in Appeals
  /\ c.action = "fulfil" => c.route = "fulfil"
  /\ label \in {"put", "list"} => c.route = "upload"
  /\ label = "overwrite" => c.route = "replace"
  /\ label = "attach" => c.route \in {"upload", "replace"}
  /\ label \in OwnLabels => c.route \in OwnRoutes

RoutesInvariant ==
  \A h \in Handlers :
    /\ Fits(call[h], pc[h])
    /\ pc[h] = "idle" => call[h] = NoCall /\ work[h] = NoWork

(* Nobody has gone on with an old row: the row is what the calls meant,    *)
(* and who holds no old row holds this one.                                *)
RowInvariant ==
  ~raced =>
    /\ row = intended
    /\ \A h \in Handlers : Busy(h) /\ ~call[h].stale =>
         /\ pc[h] \in {"status_write", "write"} => call[h].fetched = row
         /\ call[h].route \in {"submit", "decide"} /\ pc[h] # "announce" =>
              call[h].seen.appeals = row.appeals

(* Rows are whole or absent, one of them is the newest; what they list is  *)
(* stored, what was listed stays listed, and an open gate was proven.      *)
ManifestsInvariant ==
  /\ \A m \in Manifests :
       /\ manifests[m].at = 0 => manifests[m] = NoRow
       /\ manifests[m].at <= clock
       /\ manifests[m].entries \subseteq stored
       /\ manifests[m].gate.status = "completed" => manifests[m].gate.token \in proven
  /\ Existing # {} => \E m \in Existing : \A n \in Existing : manifests[n].at <= manifests[m].at
  /\ ~overlapped => \A a \in uploaded : \E m \in Existing : a \in manifests[m].entries

(* What a handler is about to write is stored or proven, goes to a row     *)
(* there is, and is built from the entries of that row unless another has  *)
(* written them since.                                                     *)
Sound(h) ==
  /\ work[h].at <= clock
  /\ pc[h] \in {"overwrite", "validate", "gate", "unlock"} => work[h].target \in Existing
  /\ pc[h] = "attach" =>
       work[h].target \in Existing \/ (work[h].target = NoManifest /\ work[h].at > 0)
  /\ pc[h] \in {"put", "list"} => work[h].at > 0
  /\ pc[h] \in {"put", "list", "attach", "overwrite"} => work[h].artifact \in Artifacts
  /\ pc[h] \in {"list", "attach"} => work[h].artifact \in stored
  /\ pc[h] \in {"attach", "overwrite"} =>
       /\ work[h].entries \subseteq stored
       /\ ~work[h].stale /\ work[h].target # NoManifest =>
            work[h].entries = manifests[work[h].target].entries
  /\ pc[h] = "unlock" => work[h].token \in proven
  /\ pc[h] = "validate" => work[h].review \in {"approved", "rejected"}

WorkInvariant == \A h \in Handlers : Sound(h)

(* A fulfilment whose manifests nobody has changed stands on the newest.   *)
ApprovedInvariant ==
  \A h \in Handlers : call[h].route = "fulfil" /\ ~work[h].stale =>
    /\ work[h].target = Newest
    /\ Newest = NoManifest \/ NewestRow.review = "approved"

FulfilmentInvariant ==
  /\ RecordTypes /\ ManifestTypes /\ RoutesInvariant /\ RowInvariant
  /\ ManifestsInvariant /\ WorkInvariant /\ ApprovedInvariant
-----------------------------------------------------------------------------
(* A call that begins, and one that goes on or ends, is the only one that  *)
(* changes.                                                                *)

RecordInvariant == RecordTypes /\ RoutesInvariant /\ RowInvariant

LEMMA NoCallIsACall == NoRead \in Rows /\ NoCall \in Calls /\ ~NoCall.stale
<1>1. NoRead \in Rows
  BY DEF NoRead, Row, Rows, Statuses
<1> QED BY <1>1 DEF NoCall, Calls, Values

LEMMA NoWorkIsWork == NoWork \in Works
BY DEF NoWork, Works

(* What the row means to whoever holds it.                                 *)
Holds(c, label) ==
  /\ label \in {"status_write", "write"} => c.fetched = row
  /\ c.route \in {"submit", "decide"} /\ label # "announce" => c.seen.appeals = row.appeals

LEMMA Changes ==
  ASSUME RecordTypes, RowInvariant,
         NEW h \in Handlers, NEW c \in Calls, NEW label \in RecordLabels \cup OwnLabels,
         row' = row, intended' = intended, raced' \in BOOLEAN, raced => raced',
         pc' = [pc EXCEPT ![h] = label], call' = [call EXCEPT ![h] = c],
         ~raced /\ label # "idle" /\ ~c.stale => Holds(c, label)
  PROVE  RecordTypes' /\ RowInvariant'
<1>1. RecordTypes'
  BY DEF RecordTypes
<1>2. RowInvariant'
  <2> SUFFICES ASSUME ~raced', NEW g \in Handlers, Busy(g)', ~call'[g].stale
               PROVE  Holds(call'[g], pc'[g])
    <3>1. ~raced' => row' = intended'
      BY DEF RowInvariant
    <3> QED BY <3>1 DEF RowInvariant, Holds
  <2>1. CASE g = h
    BY <2>1 DEF RecordTypes, Busy
  <2>2. CASE g # h
    <3>1. pc'[g] = pc[g] /\ call'[g] = call[g]
      BY <2>2 DEF RecordTypes
    <3> QED BY <3>1 DEF RowInvariant, Busy, Holds
  <2> QED BY <2>1, <2>2
<1> QED BY <1>1, <1>2

LEMMA Begins ==
  ASSUME RecordTypes, RowInvariant, NEW h \in Handlers, NEW c \in Calls, ~c.stale,
         NEW label \in (RecordLabels \cup OwnLabels) \ {"status_write", "write"}, Begin(h, c, label)
  PROVE  /\ RecordTypes' /\ RowInvariant' /\ pc[h] = "idle"
         /\ pc' = [pc EXCEPT ![h] = label]
         /\ call' = [call EXCEPT ![h] = [c EXCEPT !.seen = row]]
         /\ [c EXCEPT !.seen = row] \in Calls
<1> DEFINE d == [c EXCEPT !.seen = row]
<1>1. d \in Calls /\ ~d.stale /\ d.seen = row
  BY DEF RecordTypes, Calls
<1>2. /\ pc' = [pc EXCEPT ![h] = label] /\ call' = [call EXCEPT ![h] = d]
      /\ row' = row /\ intended' = intended /\ raced' = raced /\ pc[h] = "idle"
  BY DEF Begin, Goto, Busy, record, history
<1> HIDE DEF d
<1>3. Holds(d, label) /\ raced' \in BOOLEAN
  BY <1>1, <1>2 DEF Holds, RecordTypes
<1>4. RecordTypes' /\ RowInvariant'
  BY <1>1, <1>2, <1>3, Changes
<1> QED BY <1>1, <1>2, <1>4 DEF d

(* A write is by a call that holds the row, or leaves it raced; whoever    *)
(* else is under way holds an old one now.                                 *)
LEMMA Writes ==
  ASSUME RecordTypes, RowInvariant, NEW h \in Handlers, pc[h] # "idle",
         NEW next \in Rows, NEW meant \in Rows, Written(h, next), intended' = meant,
         NEW label \in RecordLabels \ {"idle", "status_write", "write"},
         pc' = [pc EXCEPT ![h] = label],
         ~raced /\ ~call[h].stale =>
           /\ next = meant
           /\ call[h].route \in {"submit", "decide"} /\ label # "announce" =>
                call[h].seen.appeals = next.appeals
  PROVE  /\ RecordTypes' /\ RowInvariant'
         /\ \A g \in Handlers :
              /\ call'[g].route = call[g].route
              /\ call'[g].action = call[g].action
              /\ call'[g].appeal = call[g].appeal
              /\ pc[g] = "idle" => call'[g] = call[g]
<1> DEFINE stale(g) == [call[g] EXCEPT !.stale = TRUE]
<1>1. /\ row' = next /\ raced' = (raced \/ call[h].stale)
      /\ call' = [g \in Handlers |-> IF g # h /\ pc[g] # "idle" THEN stale(g) ELSE call[g]]
  BY DEF Written, Busy
<1>2. \A g \in Handlers :
        /\ stale(g) \in Calls /\ stale(g).stale
        /\ stale(g).route = call[g].route
        /\ stale(g).action = call[g].action
        /\ stale(g).appeal = call[g].appeal
  BY DEF RecordTypes, Calls
<1>3. \A g \in Handlers : call'[g] = IF g # h /\ pc[g] # "idle" THEN stale(g) ELSE call[g]
  BY <1>1
<1>4. call[h].stale \in BOOLEAN /\ raced' \in BOOLEAN
  BY <1>1 DEF RecordTypes, Calls
<1> HIDE DEF stale
<1>5. call' \in [Handlers -> Calls]
  BY <1>1, <1>2 DEF RecordTypes
<1>6. RecordTypes'
  BY <1>1, <1>4, <1>5 DEF RecordTypes
<1>7. RowInvariant'
  <2> SUFFICES ASSUME ~raced'
               PROVE  /\ row' = intended'
                      /\ \A g \in Handlers : Busy(g)' /\ ~call'[g].stale =>
                           /\ pc'[g] \in {"status_write", "write"} => call'[g].fetched = row'
                           /\ call'[g].route \in {"submit", "decide"} /\ pc'[g] # "announce" =>
                                call'[g].seen.appeals = row'.appeals
    BY DEF RowInvariant
  <2>1. ~raced /\ ~call[h].stale
    BY <1>1, <1>4
  <2>2. row' = intended'
    BY <1>1, <2>1
  <2>3. ASSUME NEW g \in Handlers, Busy(g)', ~call'[g].stale
        PROVE  /\ pc'[g] \in {"status_write", "write"} => call'[g].fetched = row'
               /\ call'[g].route \in {"submit", "decide"} /\ pc'[g] # "announce" =>
                    call'[g].seen.appeals = row'.appeals
    <3>1. CASE g = h
      <4>1. call'[g] = call[h] /\ pc'[g] = label
        BY <1>3, <3>1 DEF RecordTypes
      <4> QED BY <1>1, <2>1, <3>1, <4>1
    <3>2. CASE g # h
      <4>1. pc'[g] = pc[g]
        BY <3>2 DEF RecordTypes
      <4>2. call'[g] = stale(g)
        BY <1>3, <2>3, <3>2, <4>1 DEF Busy
      <4> QED BY <1>2, <2>3, <4>2
    <3> QED BY <3>1, <3>2
  <2> QED BY <2>2, <2>3
<1> QED BY <1>2, <1>3, <1>6, <1>7

-----------------------------------------------------------------------------
(* The routes of RequestRecord, beside which the manifests stay as they    *)
(* are.                                                                    *)

RecordFrame(h) ==
  /\ pc'[h] \in RecordLabels /\ Fits(call'[h], pc'[h])
  /\ call'[h].route = "fulfil" => call[h].route = "fulfil"
  /\ pc'[h] = "idle" => call'[h] = NoCall
  /\ \A g \in Handlers \ {h} :
       /\ pc'[g] = pc[g] /\ (pc[g] = "idle" => call'[g] = call[g])
       /\ call'[g].route = call[g].route /\ call'[g].action = call[g].action
       /\ call'[g].appeal = call[g].appeal

LEMMA FrameOfChange ==
  ASSUME RecordTypes, NEW h \in Handlers, NEW c \in Calls, NEW label \in RecordLabels,
         pc' = [pc EXCEPT ![h] = label], call' = [call EXCEPT ![h] = c],
         Fits(c, label), c.route = "fulfil" => call[h].route = "fulfil",
         label = "idle" => c = NoCall
  PROVE  RecordFrame(h)
<1>1. pc'[h] = label /\ call'[h] = c
  BY DEF RecordTypes
<1>2. \A g \in Handlers \ {h} : pc'[g] = pc[g] /\ call'[g] = call[g]
  BY DEF RecordTypes
<1> QED BY <1>1, <1>2 DEF RecordFrame

LEMMA RecordBegins ==
  ASSUME RecordInvariant, NEW h \in Handlers, NEW c \in Calls, ~c.stale,
         NEW label \in {"fetch", "transition"}, Fits(c, label), c.route \in RecordRoutes,
         Begin(h, c, label)
  PROVE  RecordTypes' /\ RowInvariant' /\ RecordFrame(h)
<1> DEFINE d == [c EXCEPT !.seen = row]
<1>1. label \in RecordLabels
  BY DEF RecordLabels
<1>2. label \in (RecordLabels \cup OwnLabels) \ {"status_write", "write"}
  BY <1>1
<1>3. /\ RecordTypes' /\ RowInvariant' /\ d \in Calls
      /\ pc' = [pc EXCEPT ![h] = label] /\ call' = [call EXCEPT ![h] = d]
  BY <1>2, Begins DEF RecordInvariant
<1>4. d.route = c.route /\ d.appeal = c.appeal /\ d.action = c.action
  BY DEF Calls
<1>5. d.route # "fulfil" /\ label # "idle" /\ Fits(d, label)
  BY <1>4 DEF RecordRoutes, Fits
<1> HIDE DEF d
<1>6. RecordFrame(h)
  BY <1>1, <1>3, <1>5, FrameOfChange DEF RecordInvariant
<1> QED BY <1>3, <1>6

LEMMA StartKeeps ==
  ASSUME RecordInvariant, NEW h \in Handlers, RecordStart(h)
  PROVE  RecordTypes' /\ RowInvariant' /\ RecordFrame(h)
<1>1. CASE SubmitAppeal(h)
  <2>1. PICK a \in Appeals :
          Begin(h, [NoCall EXCEPT !.route = "submit", !.appeal = a, !.value = "submitted"], "fetch")
    BY <1>1 DEF SubmitAppeal
  <2> DEFINE c == [NoCall EXCEPT !.route = "submit", !.appeal = a, !.value = "submitted"]
  <2>2. "submit" \in RecordRoutes /\ "submitted" \in Values
    BY DEF RecordRoutes, Values
  <2>3. c \in Calls
    BY <2>2, NoCallIsACall DEF Calls
  <2>4. ~c.stale /\ c.route = "submit" /\ c.appeal = a /\ c.action = "none"
    BY DEF NoCall
  <2>5. Begin(h, c, "fetch")
    BY <2>1
  <2> HIDE DEF c
  <2>6. Fits(c, "fetch")
    BY <2>4 DEF Fits, OwnLabels
  <2> QED BY <2>2, <2>3, <2>4, <2>5, <2>6, RecordBegins
<1>2. CASE DecideAppeal(h)
  <2>1. PICK a \in Appeals, d \in Decisions, label \in {"fetch", "transition"} :
          Begin(h, [NoCall EXCEPT !.route = "decide", !.appeal = a,
                                  !.value = StatusByDecision[d],
                                  !.action = "appeal_overturn"], label)
    BY <1>2 DEF DecideAppeal
  <2> DEFINE c == [NoCall EXCEPT !.route = "decide", !.appeal = a,
                                  !.value = StatusByDecision[d],
                                  !.action = "appeal_overturn"]
  <2>2. "decide" \in RecordRoutes /\ StatusByDecision[d] \in Values /\ "appeal_overturn" \in Actions
    BY DEF RecordRoutes, Values, Actions, Transitions
  <2>3. c \in Calls
    BY <2>2, NoCallIsACall DEF Calls
  <2>4. ~c.stale /\ c.route = "decide" /\ c.appeal = a /\ c.action = "appeal_overturn"
    BY DEF NoCall
  <2>5. Begin(h, c, label)
    BY <2>1
  <2> HIDE DEF c
  <2>6. Fits(c, label)
    BY <2>2, <2>4 DEF Fits, OwnLabels
  <2> QED BY <2>2, <2>3, <2>4, <2>5, <2>6, RecordBegins
<1>3. CASE PutRequestor(h)
  <2>1. PICK r \in Requestors :
          Begin(h, [NoCall EXCEPT !.route = "requestor", !.value = r], "fetch")
    BY <1>3 DEF PutRequestor
  <2> DEFINE c == [NoCall EXCEPT !.route = "requestor", !.value = r]
  <2>2. "requestor" \in RecordRoutes /\ r \in Values
    BY DEF RecordRoutes, Values
  <2>3. c \in Calls
    BY <2>2, NoCallIsACall DEF Calls
  <2>4. ~c.stale /\ c.route = "requestor" /\ c.action = "none"
    BY DEF NoCall
  <2>5. Begin(h, c, "fetch")
    BY <2>1
  <2> HIDE DEF c
  <2>6. Fits(c, "fetch")
    BY <2>4 DEF Fits, OwnLabels
  <2> QED BY <2>2, <2>3, <2>4, <2>5, <2>6, RecordBegins
<1>4. CASE StartStaff(h)
  <2>1. PICK action \in StaffActions :
          Begin(h, [NoCall EXCEPT !.route = "staff", !.action = action], "transition")
    BY <1>4 DEF StartStaff
  <2> DEFINE c == [NoCall EXCEPT !.route = "staff", !.action = action]
  <2>2. "staff" \in RecordRoutes /\ action \in Actions /\ action # "fulfil"
    BY RecordAssumption DEF RecordRoutes
  <2>3. c \in Calls
    BY <2>2, NoCallIsACall DEF Calls
  <2>4. ~c.stale /\ c.route = "staff" /\ c.action = action
    BY DEF NoCall
  <2>5. Begin(h, c, "transition")
    BY <2>1
  <2> HIDE DEF c
  <2>6. Fits(c, "transition")
    BY <2>2, <2>4 DEF Fits, OwnLabels
  <2> QED BY <2>2, <2>3, <2>4, <2>5, <2>6, RecordBegins
<1> QED BY <1>1, <1>2, <1>3, <1>4 DEF RecordStart

LEMMA CheckKeeps ==
  ASSUME RecordInvariant, NEW h \in Handlers, ReadForTransition(h) \/ Check(h) \/ AppendEvent(h)
  PROVE  RecordTypes' /\ RowInvariant' /\ RecordFrame(h)
<1>0. call[h] \in Calls /\ Fits(call[h], pc[h]) /\ raced \in BOOLEAN /\ row \in Rows
  BY DEF RecordInvariant, RecordTypes, RoutesInvariant
<1>1. CASE ReadForTransition(h)
  <2> DEFINE c == [call[h] EXCEPT !.fetched = row, !.stale = @ /\ Overturns(h)]
  <2>1. /\ c \in Calls /\ c.route = call[h].route /\ c.action = call[h].action
        /\ c.appeal = call[h].appeal /\ c.seen = call[h].seen
        /\ c.stale = (call[h].stale /\ call[h].route = "decide")
    BY <1>0 DEF Calls, Overturns
  <2>2. /\ pc[h] = "transition" /\ pc' = [pc EXCEPT ![h] = "check"]
        /\ call' = [call EXCEPT ![h] = c] /\ row' = row /\ intended' = intended /\ raced' = raced
    BY <1>1 DEF ReadForTransition, Goto, record, history
  <2> HIDE DEF c
  <2>3. "check" \in RecordLabels /\ Fits(c, "check")
    BY <1>0, <2>1, <2>2 DEF RecordLabels, OwnLabels, Fits
  <2>4. ~raced /\ ~c.stale => Holds(c, "check")
    BY <1>0, <2>1, <2>2 DEF Holds, Fits, RecordInvariant, RowInvariant, Busy
  <2>5. RecordTypes' /\ RowInvariant'
    BY <1>0, <2>1, <2>2, <2>3, <2>4, Changes DEF RecordInvariant
  <2>6. RecordFrame(h)
    BY <2>1, <2>2, <2>3, FrameOfChange DEF RecordInvariant
  <2> QED BY <2>5, <2>6
<1>2. ASSUME NEW label \in RecordLabels, pc' = [pc EXCEPT ![h] = label], call' = call,
             row' = row, intended' = intended, raced' = raced, Fits(call[h], label),
             pc[h] \in {"check", "append"}, label \notin {"idle", "status_write", "write"}
      PROVE  RecordTypes' /\ RowInvariant' /\ RecordFrame(h)
  <2>1. call' = [call EXCEPT ![h] = call[h]]
    BY <1>2 DEF RecordInvariant, RecordTypes
  <2>2. ~raced /\ ~call[h].stale => Holds(call[h], label)
    BY <1>2 DEF Holds, RecordInvariant, RowInvariant, Busy
  <2>3. RecordTypes' /\ RowInvariant'
    BY <1>0, <1>2, <2>1, <2>2, Changes DEF RecordInvariant
  <2>4. RecordFrame(h)
    BY <1>0, <1>2, <2>1, FrameOfChange DEF RecordInvariant
  <2> QED BY <2>3, <2>4
<1>3. CASE AppendEvent(h)
  <2>1. /\ pc[h] = "append" /\ pc' = [pc EXCEPT ![h] = "status_fetch"] /\ call' = call
        /\ row' = row /\ intended' = intended /\ raced' = raced
    BY <1>3 DEF AppendEvent, Goto, history
  <2>2. "status_fetch" \in RecordLabels /\ Fits(call[h], "status_fetch")
    BY <1>0, <2>1 DEF RecordLabels, OwnLabels, Fits
  <2> QED BY <1>2, <2>1, <2>2
<1>4. CASE Check(h)
  <2>0. pc[h] = "check" /\ row' = row /\ intended' = intended
    BY <1>4 DEF Check, record
  <2>1. CASE KeyKnown(h) /\ Goto(h, "fetch") /\ UNCHANGED <<call, raced>>
    <3>1. "fetch" \in RecordLabels /\ Fits(call[h], "fetch")
      BY <1>0, <2>0, <2>1 DEF RecordLabels, OwnLabels, Fits, KeyKnown, Overturns
    <3> QED BY <1>2, <2>0, <2>1, <3>1 DEF Goto
  <2>2. CASE Goto(h, "append") /\ UNCHANGED <<call, raced>>
    <3>1. "append" \in RecordLabels /\ Fits(call[h], "append")
      BY <1>0, <2>0 DEF RecordLabels, OwnLabels, Fits
    <3> QED BY <1>2, <2>0, <2>2, <3>1 DEF Goto
  <2>3. CASE Finish(h) /\ raced' = (raced \/ call[h].stale)
    <3>1. /\ pc' = [pc EXCEPT ![h] = "idle"] /\ call' = [call EXCEPT ![h] = NoCall]
          /\ raced' \in BOOLEAN /\ (raced => raced')
      BY <1>0, <2>3 DEF Finish, Goto
    <3>2. "idle" \in RecordLabels /\ Fits(NoCall, "idle") /\ NoCall.route # "fulfil"
      BY DEF RecordLabels, OwnLabels, Fits, NoCall
    <3>3. RecordTypes' /\ RowInvariant'
      BY <2>0, <3>1, <3>2, NoCallIsACall, Changes DEF RecordInvariant
    <3>4. RecordFrame(h)
      BY <3>1, <3>2, NoCallIsACall, FrameOfChange DEF RecordInvariant
    <3> QED BY <3>3, <3>4
  <2> QED BY <1>4, <2>1, <2>2, <2>3 DEF Check
<1> QED BY <1>1, <1>3, <1>4

LEMMA FetchKeeps ==
  ASSUME RecordInvariant, NEW h \in Handlers, FetchRow(h)
  PROVE  RecordTypes' /\ RowInvariant' /\ RecordFrame(h)
<1>0. call[h] \in Calls /\ Fits(call[h], pc[h]) /\ raced \in BOOLEAN /\ row \in Rows
  BY DEF RecordInvariant, RecordTypes, RoutesInvariant
<1> DEFINE c == [call[h] EXCEPT !.fetched = row, !.stale = @ /\ call[h].route # "requestor"]
<1>1. /\ c \in Calls /\ c.route = call[h].route /\ c.action = call[h].action
      /\ c.appeal = call[h].appeal /\ c.seen = call[h].seen /\ c.fetched = row
      /\ c.stale = (call[h].stale /\ call[h].route # "requestor")
  BY <1>0 DEF Calls
<1>2. PICK label \in {"write", "status_write"} :
        /\ label = "write" => pc[h] = "fetch"
        /\ label = "status_write" => pc[h] = "status_fetch"
        /\ pc[h] \in {"fetch", "status_fetch"} /\ pc' = [pc EXCEPT ![h] = label]
        /\ call' = [call EXCEPT ![h] = c] /\ row' = row /\ intended' = intended /\ raced' = raced
  BY DEF FetchRow, Goto, record, history
<1> HIDE DEF c
<1>3. label \in RecordLabels /\ label # "idle" /\ Fits(c, label)
  BY <1>0, <1>1, <1>2 DEF RecordLabels, OwnLabels, Fits
<1>4. ~raced /\ ~c.stale => Holds(c, label)
  BY <1>0, <1>1, <1>2 DEF Holds, Fits, RecordInvariant, RowInvariant, Busy
<1>5. RecordTypes' /\ RowInvariant'
  BY <1>0, <1>1, <1>2, <1>3, <1>4, Changes DEF RecordInvariant
<1>6. RecordFrame(h)
  BY <1>1, <1>2, <1>3, FrameOfChange DEF RecordInvariant
<1> QED BY <1>5, <1>6

LEMMA EndKeeps ==
  ASSUME RecordInvariant, NEW h \in Handlers, Announce(h) \/ Fail(h)
  PROVE  RecordTypes' /\ RowInvariant' /\ RecordFrame(h)
<1>1. /\ pc' = [pc EXCEPT ![h] = "idle"] /\ call' = [call EXCEPT ![h] = NoCall]
      /\ row' = row /\ intended' = intended /\ raced' = raced
  BY DEF Announce, Fail, Finish, Goto, record, history
<1>2. "idle" \in RecordLabels /\ Fits(NoCall, "idle") /\ NoCall.route # "fulfil"
  BY DEF RecordLabels, OwnLabels, Fits, NoCall
<1>3. RecordTypes' /\ RowInvariant'
  BY <1>1, <1>2, NoCallIsACall, Changes DEF RecordInvariant, RecordTypes
<1>4. RecordFrame(h)
  BY <1>1, <1>2, NoCallIsACall, FrameOfChange DEF RecordInvariant
<1> QED BY <1>3, <1>4

LEMMA FrameOfWrite ==
  ASSUME RecordInvariant, NEW h \in Handlers, NEW label \in RecordLabels, label # "idle",
         pc' = [pc EXCEPT ![h] = label], Fits(call[h], label),
         \A g \in Handlers :
           /\ call'[g].route = call[g].route /\ call'[g].action = call[g].action
           /\ call'[g].appeal = call[g].appeal
           /\ pc[g] = "idle" => call'[g] = call[g]
  PROVE  RecordFrame(h)
<1>1. pc'[h] = label /\ \A g \in Handlers \ {h} : pc'[g] = pc[g]
  BY DEF RecordInvariant, RecordTypes
<1>2. /\ call'[h].route = call[h].route /\ call'[h].action = call[h].action
      /\ call'[h].appeal = call[h].appeal
  OBVIOUS
<1>3. Fits(call'[h], label)
  BY <1>2 DEF Fits
<1>4. \A g \in Handlers \ {h} :
        /\ pc'[g] = pc[g] /\ (pc[g] = "idle" => call'[g] = call[g])
        /\ call'[g].route = call[g].route /\ call'[g].action = call[g].action
        /\ call'[g].appeal = call[g].appeal
  BY <1>1
<1> QED BY <1>1, <1>2, <1>3, <1>4 DEF RecordFrame

LEMMA WriteKeeps ==
  ASSUME RecordInvariant, NEW h \in Handlers, WriteStatus(h) \/ WriteRow(h)
  PROVE  RecordTypes' /\ RowInvariant' /\ RecordFrame(h)
<1>0. /\ call[h] \in Calls /\ Fits(call[h], pc[h]) /\ row \in Rows /\ intended \in Rows
      /\ call[h].fetched \in Rows /\ call[h].seen \in Rows /\ call[h].value \in Values
  BY DEF RecordInvariant, RecordTypes, RoutesInvariant, Calls
<1>1. ~raced /\ ~call[h].stale /\ pc[h] \in {"write", "status_write"} =>
        /\ row = intended /\ call[h].fetched = row
        /\ call[h].route \in {"submit", "decide"} => call[h].seen.appeals = row.appeals
  BY DEF RecordInvariant, RowInvariant, Busy
<1>2. CASE WriteStatus(h)
  <2> DEFINE status == StatusByAction[call[h].action]
             next == [call[h].fetched EXCEPT !.status = status]
             meant == [intended EXCEPT !.status = status]
  <2>1. pc[h] = "status_write" /\ Written(h, next) /\ intended' = meant
    BY <1>2 DEF WriteStatus
  <2>2. PICK label \in {"fetch", "announce"} :
          pc' = [pc EXCEPT ![h] = label] /\ (label = "fetch" => call[h].route = "decide")
    BY <1>2 DEF WriteStatus, Goto, Overturns
  <2>3. call[h].action \in Actions
    BY <1>0, <2>1 DEF Fits
  <2>4. status \in Statuses
    BY <2>3 DEF Actions, Transitions, StatusByAction, Statuses
  <2> HIDE DEF status
  <2>5. next \in Rows /\ meant \in Rows
    BY <1>0, <2>4 DEF Rows
  <2>6. label \in RecordLabels \ {"idle", "status_write", "write"} /\ Fits(call[h], label)
    BY <1>0, <2>1, <2>2 DEF RecordLabels, OwnLabels, Fits
  <2>7. ~raced /\ ~call[h].stale =>
          /\ next = meant
          /\ call[h].route \in {"submit", "decide"} /\ label # "announce" =>
               call[h].seen.appeals = next.appeals
    BY <1>0, <1>1, <2>1 DEF Rows
  <2> HIDE DEF next, meant
  <2>8. /\ RecordTypes' /\ RowInvariant'
        /\ \A g \in Handlers :
             /\ call'[g].route = call[g].route
             /\ call'[g].action = call[g].action
             /\ call'[g].appeal = call[g].appeal
             /\ pc[g] = "idle" => call'[g] = call[g]
    BY <2>1, <2>2, <2>5, <2>6, <2>7, Writes DEF RecordInvariant
  <2> QED BY <2>2, <2>6, <2>8, FrameOfWrite
<1>3. ASSUME NEW next \in Rows, NEW meant \in Rows, Written(h, next), intended' = meant,
             WriteRow(h), ~raced /\ ~call[h].stale => next = meant
      PROVE  RecordTypes' /\ RowInvariant' /\ RecordFrame(h)
  <2>1. pc[h] = "write" /\ pc' = [pc EXCEPT ![h] = "announce"]
    BY <1>3 DEF WriteRow, Goto
  <2>2. "announce" \in RecordLabels \ {"idle", "status_write", "write"}
    BY DEF RecordLabels
  <2>3. Fits(call[h], "announce")
    BY <1>0 DEF OwnLabels, Fits
  <2>4. /\ RecordTypes' /\ RowInvariant'
        /\ \A g \in Handlers :
             /\ call'[g].route = call[g].route
             /\ call'[g].action = call[g].action
             /\ call'[g].appeal = call[g].appeal
             /\ pc[g] = "idle" => call'[g] = call[g]
    BY <1>3, <2>1, <2>2, Writes DEF RecordInvariant
  <2> QED BY <2>1, <2>2, <2>3, <2>4, FrameOfWrite
<1>4. CASE WriteRow(h) /\ call[h].route = "requestor"
  <2> DEFINE next == [call[h].fetched EXCEPT !.requestor = call[h].value]
             meant == [intended EXCEPT !.requestor = call[h].value]
  <2>1. Written(h, next) /\ intended' = meant /\ pc[h] = "write"
    BY <1>4 DEF WriteRow
  <2>2. next \in Rows /\ meant \in Rows
    BY <1>0 DEF Rows
  <2>3. ~raced /\ ~call[h].stale => next = meant
    BY <1>1, <2>1
  <2> HIDE DEF next, meant
  <2> QED BY <1>3, <1>4, <2>1, <2>2, <2>3
<1>5. CASE WriteRow(h) /\ call[h].route # "requestor"
  <2> DEFINE a == call[h].appeal
             next == [call[h].fetched EXCEPT !.appeals = AppealsRevised(h)]
             meant == [intended EXCEPT !.appeals[a] = call[h].value]
  <2>1. Written(h, next) /\ intended' = meant /\ pc[h] = "write"
    BY <1>5 DEF WriteRow
  <2>2. call[h].route \in {"submit", "decide"} /\ a \in Appeals
    BY <1>0, <1>5, <2>1 DEF Fits
  <2>3. next \in Rows /\ meant \in Rows
    BY <1>0, <2>2 DEF Rows, AppealsRevised
  <2>4. ~raced /\ ~call[h].stale => next = meant
    BY <1>1, <2>1, <2>2 DEF AppealsRevised
  <2> HIDE DEF next, meant
  <2> QED BY <1>3, <1>5, <2>1, <2>3, <2>4
<1> QED BY <1>2, <1>4, <1>5

LEMMA RecordStepKeeps ==
  ASSUME RecordInvariant, NEW h \in Handlers, RecordStart(h) \/ RecordStep(h) \/ Fail(h)
  PROVE  RecordTypes' /\ RowInvariant' /\ RecordFrame(h)
BY StartKeeps, CheckKeeps, FetchKeeps, WriteKeeps, EndKeeps DEF RecordStep
-----------------------------------------------------------------------------
(* The newest manifest.                                                    *)

LEMMA NewestExists ==
  ASSUME ManifestTypes, ManifestsInvariant
  PROVE  /\ Newest # NoManifest =>
              /\ Newest \in Existing /\ NewestRow = manifests[Newest]
              /\ \A n \in Existing : manifests[n].at <= manifests[Newest].at
         /\ Newest = NoManifest => NewestRow = NoRow /\ Existing = {}
<1> USE FulfilmentAssumption
<1>1. CASE Existing = {}
  BY <1>1 DEF Newest, NewestRow
<1>2. CASE Existing # {}
  <2>1. \E m \in Existing : \A n \in Existing : manifests[n].at <= manifests[m].at
    BY <1>2 DEF ManifestsInvariant
  <2>2. Newest \in Existing /\ \A n \in Existing : manifests[n].at <= manifests[Newest].at
    BY <1>2, <2>1 DEF Newest
  <2>3. Newest # NoManifest
    BY <2>2 DEF Existing
  <2> QED BY <2>2, <2>3 DEF NewestRow
<1> QED BY <1>1, <1>2

(* It stays the newest as long as no row is inserted.                      *)
LEMMA NewestStays ==
  ASSUME \A m \in Manifests : manifests'[m].at = manifests[m].at
  PROVE  Existing' = Existing /\ Newest' = Newest
<1> DEFINE E == Existing
           after  == CHOOSE m \in E : \A n \in E : manifests'[n].at <= manifests'[m].at
           before == CHOOSE m \in E : \A n \in E : manifests[n].at <= manifests[m].at
<1>1. Existing' = E
  BY DEF Existing
<1>2. E \subseteq Manifests
  BY DEF Existing
<1> HIDE DEF E
<1>3. \A m \in E : (\A n \in E : manifests'[n].at <= manifests'[m].at)
                     <=> (\A n \in E : manifests[n].at <= manifests[m].at)
  BY <1>2
<1>4. after = before
  BY <1>3, Zenon
<1>5. Newest = IF E = {} THEN NoManifest ELSE before
  BY DEF E, Newest
<1>6. Newest' = IF E = {} THEN NoManifest ELSE after
  BY <1>1 DEF Newest
<1> HIDE DEF after, before
<1> QED BY <1>1, <1>4, <1>5, <1>6 DEF E
-----------------------------------------------------------------------------
(* What goes on beside a change of the manifests.                          *)

LEMMA SoundStays ==
  ASSUME NEW g \in Handlers, Sound(g), pc'[g] = pc[g],
         work'[g].target = work[g].target, work'[g].entries = work[g].entries,
         work'[g].artifact = work[g].artifact, work'[g].token = work[g].token,
         work'[g].at = work[g].at, work'[g].review = work[g].review,
         ~work'[g].stale => ~work[g].stale,
         stored \subseteq stored', clock \in Nat, clock' \in Nat, clock <= clock',
         work[g].at \in Nat, proven \subseteq proven', Existing \subseteq Existing',
         pc[g] \in {"attach", "overwrite"} /\ ~work'[g].stale /\ work[g].target # NoManifest =>
           manifests'[work[g].target].entries = manifests[work[g].target].entries
  PROVE  Sound(g)'
<1>1. work'[g].at <= clock'
  BY DEF Sound
<1> QED BY <1>1 DEF Sound

LEMMA ApprovedStays ==
  ASSUME ManifestTypes, ManifestsInvariant, ApprovedInvariant,
         \A m \in Manifests : manifests'[m].at = manifests[m].at,
         \A g \in Handlers : call'[g].route = "fulfil" /\ ~work'[g].stale =>
           /\ call[g].route = "fulfil" /\ ~work[g].stale /\ work'[g].target = work[g].target
           /\ \A m \in Manifests : work[g].target = m => manifests'[m].review = manifests[m].review
  PROVE  ApprovedInvariant'
<1>1. Newest' = Newest
  BY NewestStays
<1>2. SUFFICES ASSUME NEW g \in Handlers, call'[g].route = "fulfil", ~work'[g].stale
               PROVE  /\ work'[g].target = Newest'
                      /\ Newest' = NoManifest \/ NewestRow'.review = "approved"
  BY DEF ApprovedInvariant
<1>3. /\ work[g].target = Newest /\ work'[g].target = work[g].target
      /\ Newest = NoManifest \/ NewestRow.review = "approved"
  BY <1>2 DEF ApprovedInvariant
<1>4. CASE Newest = NoManifest
  BY <1>1, <1>3, <1>4
<1>5. CASE Newest # NoManifest
  <2>1. NewestRow = manifests[Newest] /\ Newest \in Manifests
    BY <1>5, NewestExists DEF Existing
  <2>2. NewestRow' = manifests'[Newest]
    BY <1>1, <1>5 DEF NewestRow
  <2>3. manifests'[Newest].review = manifests[Newest].review
    BY <1>2, <1>3, <2>1
  <2> QED BY <1>1, <1>3, <1>5, <2>1, <2>2, <2>3
<1> QED BY <1>4, <1>5
-----------------------------------------------------------------------------
(* A step of RequestRecord.                                                *)

LEMMA RecordPartKeeps ==
  ASSUME FulfilmentInvariant, NEW h \in Handlers, RecordPart(h)
  PROVE  FulfilmentInvariant'
<1>1. /\ RecordInvariant /\ ManifestTypes
      /\ ManifestsInvariant /\ WorkInvariant /\ ApprovedInvariant
  BY DEF FulfilmentInvariant, RecordInvariant
<1>2. RecordTypes' /\ RowInvariant' /\ RecordFrame(h)
  BY <1>1, RecordStepKeeps DEF RecordPart
<1>3. /\ manifests' = manifests /\ stored' = stored /\ clock' = clock /\ tokens' = tokens
      /\ uploaded' = uploaded /\ proven' = proven /\ overlapped' = overlapped
      /\ work' = [work EXCEPT ![h] = IF pc'[h] = "idle" THEN NoWork ELSE work[h]]
  BY DEF RecordPart, delivery, traces
<1>4. /\ work'[h] = IF pc'[h] = "idle" THEN NoWork ELSE work[h]
      /\ \A g \in Handlers \ {h} : work'[g] = work[g]
  BY <1>1, <1>3 DEF ManifestTypes
<1>5. ManifestTypes'
  BY <1>1, <1>3, <1>4, NoWorkIsWork DEF ManifestTypes
<1>6. RoutesInvariant'
  <2> SUFFICES ASSUME NEW g \in Handlers
               PROVE  /\ Fits(call'[g], pc'[g])
                      /\ pc'[g] = "idle" => call'[g] = NoCall /\ work'[g] = NoWork
    BY DEF RoutesInvariant
  <2>1. CASE g = h
    BY <1>2, <1>4, <2>1 DEF RecordFrame
  <2>2. CASE g # h
    <3>1. Fits(call[g], pc[g]) /\ (pc[g] = "idle" => call[g] = NoCall /\ work[g] = NoWork)
      BY <1>1 DEF RecordInvariant, RoutesInvariant
    <3>2. /\ pc'[g] = pc[g] /\ (pc[g] = "idle" => call'[g] = call[g]) /\ work'[g] = work[g]
          /\ call'[g].route = call[g].route /\ call'[g].action = call[g].action
          /\ call'[g].appeal = call[g].appeal
      BY <1>2, <1>4, <2>2 DEF RecordFrame
    <3> QED BY <3>1, <3>2 DEF Fits
  <2> QED BY <2>1, <2>2
<1>7. Existing' = Existing
  BY <1>3 DEF Existing
<1>8. ManifestsInvariant'
  BY <1>1, <1>3, <1>7 DEF ManifestsInvariant
<1>9. WorkInvariant'
  <2> SUFFICES ASSUME NEW g \in Handlers PROVE Sound(g)'
    BY DEF WorkInvariant
  <2>1. CASE g = h
    <3>1. NoWork.at = 0 /\ clock \in Nat
      BY <1>1 DEF NoWork, ManifestTypes
    <3> QED BY <1>1, <1>2, <1>3, <1>4, <2>1, <3>1
            DEF WorkInvariant, Sound, RecordFrame, RecordLabels
  <2>2. CASE g # h
    BY <1>1, <1>2, <1>3, <1>4, <1>7, <2>2 DEF WorkInvariant, Sound, RecordFrame
  <2> QED BY <2>1, <2>2
<1>10. ApprovedInvariant'
  <2>1. Newest' = Newest /\ NewestRow' = NewestRow
    BY <1>3 DEF Newest, NewestRow, Existing
  <2>2. \A g \in Handlers : call'[g].route = "fulfil" =>
          call[g].route = "fulfil" /\ work'[g] = work[g]
    <3>1. NoCall.route # "fulfil"
      BY DEF NoCall
    <3> QED BY <1>2, <1>4, <3>1 DEF RecordFrame
  <2> QED BY <1>1, <2>1, <2>2 DEF ApprovedInvariant
<1> QED BY <1>2, <1>5, <1>6, <1>8, <1>9, <1>10 DEF FulfilmentInvariant
-----------------------------------------------------------------------------
(* The routes of this module: what a step of a handler has to show.        *)

(* The others: their work is as it was, or has become stale.               *)
Aged(g) ==
  /\ work'[g].target = work[g].target /\ work'[g].entries = work[g].entries
  /\ work'[g].artifact = work[g].artifact /\ work'[g].token = work[g].token
  /\ work'[g].at = work[g].at /\ work'[g].review = work[g].review
  /\ ~work'[g].stale => ~work[g].stale
  /\ pc[g] = "idle" => work'[g] = work[g]

LEMMA OwnStep ==
  ASSUME FulfilmentInvariant, NEW h \in Handlers,
         NEW c \in Calls, NEW label \in OwnLabels \cup {"announce", "transition"},
         pc' = [pc EXCEPT ![h] = label], call' = [call EXCEPT ![h] = c], Fits(c, label),
         RecordTypes', RowInvariant', ManifestTypes', ManifestsInvariant', ApprovedInvariant',
         stored \subseteq stored', clock <= clock', proven \subseteq proven',
         Existing \subseteq Existing', Sound(h)',
         \A g \in Handlers \ {h} :
           /\ Aged(g)
           /\ pc[g] \in {"attach", "overwrite"} /\ ~work'[g].stale /\ work[g].target # NoManifest =>
                manifests'[work[g].target].entries = manifests[work[g].target].entries
  PROVE  FulfilmentInvariant'
<1>1. RecordTypes /\ ManifestTypes /\ RoutesInvariant /\ WorkInvariant
  BY DEF FulfilmentInvariant
<1>2. pc'[h] = label /\ call'[h] = c /\ label # "idle"
  BY <1>1 DEF RecordTypes, OwnLabels
<1>3. \A g \in Handlers \ {h} : pc'[g] = pc[g] /\ call'[g] = call[g]
  BY <1>1 DEF RecordTypes
<1>4. RoutesInvariant'
  BY <1>1, <1>2, <1>3 DEF RoutesInvariant, Aged
<1>5. WorkInvariant'
  <2> SUFFICES ASSUME NEW g \in Handlers, g # h PROVE Sound(g)'
    BY DEF WorkInvariant
  <2>1. clock \in Nat /\ clock' \in Nat /\ work[g].at \in Nat /\ Sound(g) /\ pc'[g] = pc[g]
    BY <1>1, <1>3 DEF ManifestTypes, WorkInvariant, Works
  <2> QED BY <2>1, SoundStays DEF Aged
<1> QED BY <1>4, <1>5 DEF FulfilmentInvariant

(* A handler opens a call or goes on in one, the row being left alone.     *)
LEMMA Opens ==
  ASSUME FulfilmentInvariant, NEW h \in Handlers, NEW route \in OwnRoutes,
         NEW label \in OwnLabels, NEW w, Open(h, route, label, w),
         label \in {"put", "list"} => route = "upload",
         label = "overwrite" => route = "replace",
         label = "attach" => route \in {"upload", "replace"}
  PROVE  /\ RecordTypes' /\ RowInvariant'
         /\ pc[h] = "idle" /\ work[h] = NoWork /\ work' = [work EXCEPT ![h] = w]
         /\ pc' = [pc EXCEPT ![h] = label]
         /\ \E c \in Calls :
              call' = [call EXCEPT ![h] = c] /\ c.route = route /\ Fits(c, label)
<1> DEFINE c == [NoCall EXCEPT !.route = route]
           d == [c EXCEPT !.seen = row]
<1>1. c \in Calls /\ ~c.stale /\ c.route = route /\ c.action = "none"
  <2>1. c \in Calls
    BY NoCallIsACall DEF Calls
  <2> QED BY <2>1 DEF NoCall
<1>2. Begin(h, c, label) /\ work' = [work EXCEPT ![h] = w]
  BY DEF Open
<1> HIDE DEF c
<1>3. label \in (RecordLabels \cup OwnLabels) \ {"status_write", "write"}
  BY DEF OwnLabels
<1>4. /\ RecordTypes' /\ RowInvariant' /\ pc[h] = "idle"
      /\ pc' = [pc EXCEPT ![h] = label] /\ call' = [call EXCEPT ![h] = d] /\ d \in Calls
  BY <1>1, <1>2, <1>3, Begins DEF FulfilmentInvariant
<1>5. d.route = route /\ d.action = "none"
  BY <1>1 DEF Calls
<1>6. Fits(d, label)
  BY <1>5 DEF Fits, OwnLabels, OwnRoutes
<1>7. work[h] = NoWork
  BY <1>4 DEF FulfilmentInvariant, RoutesInvariant
<1> QED BY <1>2, <1>4, <1>5, <1>6, <1>7

LEMMA Proceeds ==
  ASSUME FulfilmentInvariant, NEW h \in Handlers, pc[h] \in OwnLabels,
         NEW label \in OwnLabels \cup {"announce"}, Proceed(h, label), Fits(call[h], label)
  PROVE  /\ RecordTypes' /\ RowInvariant' /\ pc' = [pc EXCEPT ![h] = label]
         /\ call' = [call EXCEPT ![h] = call[h]] /\ call[h] \in Calls
         /\ call[h].route \in OwnRoutes
<1>1. RecordTypes /\ RowInvariant /\ Fits(call[h], pc[h])
  BY DEF FulfilmentInvariant, RoutesInvariant
<1>2. call[h] \in Calls /\ call[h].route \in OwnRoutes
  BY <1>1 DEF RecordTypes, Fits
<1>3. /\ pc' = [pc EXCEPT ![h] = label] /\ call' = [call EXCEPT ![h] = call[h]]
      /\ row' = row /\ intended' = intended /\ raced' = raced /\ raced' \in BOOLEAN
  BY <1>1 DEF Proceed, Goto, record, history, RecordTypes
<1>4. label \in RecordLabels \cup OwnLabels /\ label \notin {"status_write", "write"}
  BY DEF RecordLabels, OwnLabels
<1>5. Holds(call[h], label)
  BY <1>2, <1>4 DEF Holds, OwnRoutes
<1>6. RecordTypes' /\ RowInvariant'
  BY <1>1, <1>2, <1>3, <1>4, <1>5, Changes
<1> QED BY <1>2, <1>3, <1>6

(* A step that leaves the manifests alone.                                 *)
LEMMA QuietStep ==
  ASSUME FulfilmentInvariant, NEW h \in Handlers, NEW c \in Calls, c.route \in OwnRoutes,
         NEW label \in OwnLabels \cup {"announce"}, NEW w \in Works,
         pc' = [pc EXCEPT ![h] = label], call' = [call EXCEPT ![h] = c], Fits(c, label),
         work' = [work EXCEPT ![h] = w], RecordTypes', RowInvariant',
         manifests' = manifests, uploaded' = uploaded, overlapped' = overlapped,
         stored \subseteq stored', stored' \subseteq Artifacts, clock' \in Nat, clock <= clock',
         tokens' \in Nat, proven \subseteq proven', Sound(h)'
  PROVE  FulfilmentInvariant'
<1>1. /\ ManifestTypes /\ ManifestsInvariant /\ ApprovedInvariant /\ RecordTypes
  BY DEF FulfilmentInvariant
<1>2. ManifestTypes' /\ Existing' = Existing
  BY <1>1 DEF ManifestTypes, Existing
<1>3. ManifestsInvariant'
  <2>1. \A m \in Manifests : manifests[m].at \in Nat
    BY <1>1 DEF ManifestTypes, ManifestRows
  <2> QED BY <1>1, <1>2, <2>1 DEF ManifestsInvariant, ManifestTypes
<1>4. /\ \A g \in Handlers \ {h} : work'[g] = work[g] /\ call'[g] = call[g]
      /\ call'[h] = c /\ c.route # "fulfil"
  BY <1>1 DEF ManifestTypes, RecordTypes, OwnRoutes
<1>5. ApprovedInvariant'
  BY <1>1, <1>4, ApprovedStays
<1>6. \A g \in Handlers \ {h} : Aged(g)
  BY <1>4 DEF Aged
<1>7. label \in OwnLabels \cup {"announce", "transition"}
  OBVIOUS
<1> QED BY <1>2, <1>3, <1>4, <1>5, <1>6, <1>7, OwnStep
-----------------------------------------------------------------------------
(* The steps that leave the manifests alone. Each opens a call or goes on  *)
(* in one; what the handler holds afterwards is sound.                     *)

LEMMA OpeningKeeps ==
  ASSUME FulfilmentInvariant, NEW h \in Handlers, NEW route \in OwnRoutes,
         NEW label \in OwnLabels, NEW w \in Works, Open(h, route, label, w),
         label \in {"put", "list"} => route = "upload",
         label = "overwrite" => route = "replace", label # "attach",
         manifests' = manifests, uploaded' = uploaded, overlapped' = overlapped,
         stored' = stored, clock' \in Nat, clock <= clock',
         tokens' \in Nat, proven \subseteq proven',
         work'[h] = w /\ pc'[h] = label => Sound(h)'
  PROVE  FulfilmentInvariant'
<1>1. /\ RecordTypes' /\ RowInvariant' /\ work' = [work EXCEPT ![h] = w]
      /\ pc' = [pc EXCEPT ![h] = label]
      /\ \E c \in Calls :
           call' = [call EXCEPT ![h] = c] /\ c.route = route /\ Fits(c, label)
  BY Opens
<1>2. PICK c \in Calls : call' = [call EXCEPT ![h] = c] /\ c.route = route /\ Fits(c, label)
  BY <1>1
<1>3. RecordTypes /\ ManifestTypes
  BY DEF FulfilmentInvariant
<1>4. Sound(h)' /\ stored' \subseteq Artifacts
  BY <1>1, <1>3 DEF RecordTypes, ManifestTypes
<1>5. label \in OwnLabels \cup {"announce"} /\ c.route \in OwnRoutes /\ stored \subseteq stored'
  BY <1>2
<1> QED BY <1>1, <1>2, <1>4, <1>5, QuietStep

LEMMA GoingOnKeeps ==
  ASSUME FulfilmentInvariant, NEW h \in Handlers, pc[h] \in OwnLabels,
         NEW label \in OwnLabels \cup {"announce"}, Proceed(h, label), Fits(call[h], label),
         NEW w \in Works, work' = [work EXCEPT ![h] = w],
         manifests' = manifests, uploaded' = uploaded, overlapped' = overlapped,
         stored \subseteq stored', stored' \subseteq Artifacts,
         clock' = clock, tokens' = tokens, proven' = proven,
         work'[h] = w /\ pc'[h] = label => Sound(h)'
  PROVE  FulfilmentInvariant'
<1>1. /\ RecordTypes' /\ RowInvariant' /\ pc' = [pc EXCEPT ![h] = label]
      /\ call' = [call EXCEPT ![h] = call[h]] /\ call[h] \in Calls
      /\ call[h].route \in OwnRoutes
  BY Proceeds
<1>2. RecordTypes /\ ManifestTypes
  BY DEF FulfilmentInvariant
<1>3. Sound(h)'
  BY <1>1, <1>2 DEF RecordTypes, ManifestTypes
<1>4. clock' \in Nat /\ clock <= clock' /\ tokens' \in Nat /\ proven \subseteq proven'
  BY <1>2 DEF ManifestTypes
<1> QED BY <1>1, <1>3, <1>4, QuietStep

LEMMA QuietStartsKeep ==
  ASSUME FulfilmentInvariant, NEW h \in Handlers,
         \/ StartCallback(h) \/ StartUpload(h) \/ StartReplace(h) \/ StartReview(h)
         \/ StartChallenge(h) \/ StartComplete(h)
  PROVE  FulfilmentInvariant'
<1> USE FulfilmentAssumption
<1>1. /\ ManifestTypes /\ ManifestsInvariant /\ clock \in Nat /\ tokens \in Nat
      /\ stored \subseteq Artifacts
  BY DEF FulfilmentInvariant, ManifestTypes
<1>2. /\ Newest # NoManifest =>
           Newest \in Existing /\ NewestRow = manifests[Newest] /\ Existing \subseteq Manifests
      /\ Newest = NoManifest => NewestRow = NoRow
  BY <1>1, NewestExists DEF Existing
<1>3. /\ NewestRow \in ManifestRows /\ NewestRow.entries \subseteq stored
      /\ Newest \in Manifests \cup {NoManifest}
  <2>1. NoRow \in ManifestRows /\ NoRow.entries = {}
    BY DEF NoRow, NoGate, ManifestRows, Gates
  <2> QED BY <1>1, <1>2, <2>1 DEF ManifestTypes, ManifestsInvariant
<1>4. CASE StartCallback(h)
  <2>1. /\ Open(h, "callback", "create", NoWork) /\ manifests' = manifests
        /\ stored' = stored /\ clock' = clock /\ tokens' = tokens
        /\ uploaded' = uploaded /\ proven' = proven /\ overlapped' = overlapped
    BY <1>4 DEF StartCallback, delivery, traces
  <2>2. "callback" \in OwnRoutes /\ "create" \in OwnLabels
    BY DEF OwnRoutes, OwnLabels
  <2>3. work'[h] = NoWork /\ pc'[h] = "create" => Sound(h)'
    BY <1>1, <2>1 DEF Sound, NoWork
  <2>4. clock' \in Nat /\ clock <= clock' /\ tokens' \in Nat /\ proven \subseteq proven'
    BY <1>1, <2>1
  <2> QED BY <2>1, <2>2, <2>3, <2>4, NoWorkIsWork, OpeningKeeps
<1>5. CASE StartUpload(h)
  <2>1. PICK a \in FreshArtifact :
          Open(h, "upload", "put", [NoWork EXCEPT !.artifact = a, !.at = clock + 1])
    BY <1>5 DEF StartUpload
  <2> DEFINE w == [NoWork EXCEPT !.artifact = a, !.at = clock + 1]
  <2>2. /\ Open(h, "upload", "put", w) /\ manifests' = manifests
        /\ stored' = stored /\ clock' = clock + 1 /\ tokens' = tokens
        /\ uploaded' = uploaded /\ proven' = proven /\ overlapped' = overlapped
    BY <1>5, <2>1 DEF StartUpload, traces
  <2>3. "upload" \in OwnRoutes /\ "put" \in OwnLabels /\ a \in Artifacts
    BY DEF OwnRoutes, OwnLabels, FreshArtifact
  <2>4. w \in Works
    <3>1. clock + 1 \in Nat /\ a \in Artifacts \cup {NoArtifact}
      BY <1>1, <2>3
    <3> QED BY <3>1, NoWorkIsWork DEF Works
  <2>5. w.artifact = a /\ w.at = clock + 1
    BY DEF NoWork
  <2> HIDE DEF w
  <2>6. work'[h] = w /\ pc'[h] = "put" => Sound(h)'
    BY <1>1, <2>2, <2>3, <2>5 DEF Sound
  <2>7. clock' \in Nat /\ clock <= clock' /\ tokens' \in Nat /\ proven \subseteq proven'
    BY <1>1, <2>2
  <2> QED BY <2>2, <2>3, <2>4, <2>6, <2>7, OpeningKeeps
<1>6. CASE StartReplace(h)
  <2>1. PICK a \in NewestRow.entries :
          Open(h, "replace", "overwrite",
               [NoWork EXCEPT !.target = Newest, !.entries = NewestRow.entries, !.artifact = a])
    BY <1>6 DEF StartReplace
  <2> DEFINE w == [NoWork EXCEPT !.target = Newest, !.entries = NewestRow.entries, !.artifact = a]
  <2>2. /\ Open(h, "replace", "overwrite", w) /\ manifests' = manifests
        /\ stored' = stored /\ clock' = clock /\ tokens' = tokens
        /\ uploaded' = uploaded /\ proven' = proven /\ overlapped' = overlapped
    BY <1>6, <2>1 DEF StartReplace, delivery, traces
  <2>3. /\ "replace" \in OwnRoutes /\ "overwrite" \in OwnLabels /\ a \in Artifacts
        /\ Newest # NoManifest
    BY <1>1, <1>2, <1>3, <2>1 DEF OwnRoutes, OwnLabels, NoRow
  <2>4. NewestRow.entries \in SUBSET Artifacts
    BY <1>1, <1>3
  <2>5. w \in Works
    BY <1>3, <2>3, <2>4, NoWorkIsWork DEF Works
  <2>6. /\ w.artifact = a /\ w.at = 0 /\ w.target = Newest /\ w.entries = NewestRow.entries
    BY DEF NoWork
  <2> HIDE DEF w
  <2>7. Existing' = Existing
    BY <2>2 DEF Existing
  <2>8. work'[h] = w /\ pc'[h] = "overwrite" => Sound(h)'
    BY <1>1, <1>2, <1>3, <2>2, <2>3, <2>6, <2>7 DEF Sound
  <2>9. clock' \in Nat /\ clock <= clock' /\ tokens' \in Nat /\ proven \subseteq proven'
    BY <1>1, <2>2
  <2> QED BY <2>2, <2>3, <2>5, <2>8, <2>9, OpeningKeeps
<1>7. CASE StartReview(h)
  <2>1. PICK verdict \in {"approved", "rejected"} :
          Open(h, "review", "validate", [NoWork EXCEPT !.target = Newest, !.review = verdict])
    BY <1>7 DEF StartReview
  <2> DEFINE w == [NoWork EXCEPT !.target = Newest, !.review = verdict]
  <2>2. /\ Open(h, "review", "validate", w) /\ manifests' = manifests /\ Newest # NoManifest
        /\ stored' = stored /\ clock' = clock /\ tokens' = tokens
        /\ uploaded' = uploaded /\ proven' = proven /\ overlapped' = overlapped
    BY <1>7, <2>1 DEF StartReview, delivery, traces
  <2>3. "review" \in OwnRoutes /\ "validate" \in OwnLabels
    BY DEF OwnRoutes, OwnLabels
  <2>4. w \in Works
    BY <1>3, NoWorkIsWork DEF Works
  <2>5. w.at = 0 /\ w.target = Newest /\ w.review = verdict
    BY DEF NoWork
  <2> HIDE DEF w
  <2>6. Existing' = Existing
    BY <2>2 DEF Existing
  <2>7. work'[h] = w /\ pc'[h] = "validate" => Sound(h)'
    BY <1>1, <1>2, <2>2, <2>5, <2>6 DEF Sound
  <2>8. clock' \in Nat /\ clock <= clock' /\ tokens' \in Nat /\ proven \subseteq proven'
    BY <1>1, <2>2
  <2> QED BY <2>2, <2>3, <2>4, <2>7, <2>8, OpeningKeeps
<1>8. CASE StartChallenge(h)
  <2> DEFINE w == [NoWork EXCEPT !.target = Newest, !.token = tokens + 1]
  <2>2. /\ Open(h, "challenge", "gate", w) /\ manifests' = manifests /\ Newest # NoManifest
        /\ stored' = stored /\ clock' = clock /\ tokens' = tokens + 1
        /\ uploaded' = uploaded /\ proven' = proven /\ overlapped' = overlapped
    BY <1>8 DEF StartChallenge, traces
  <2>3. "challenge" \in OwnRoutes /\ "gate" \in OwnLabels
    BY DEF OwnRoutes, OwnLabels
  <2>4. w \in Works
    <3>1. tokens + 1 \in Nat
      BY <1>1
    <3> QED BY <1>3, <3>1, NoWorkIsWork DEF Works
  <2>5. w.at = 0 /\ w.target = Newest
    BY DEF NoWork
  <2> HIDE DEF w
  <2>6. Existing' = Existing
    BY <2>2 DEF Existing
  <2>7. work'[h] = w /\ pc'[h] = "gate" => Sound(h)'
    BY <1>1, <1>2, <2>2, <2>5, <2>6 DEF Sound
  <2>8. clock' \in Nat /\ clock <= clock' /\ tokens' \in Nat /\ proven \subseteq proven'
    BY <1>1, <2>2
  <2> QED BY <2>2, <2>3, <2>4, <2>7, <2>8, OpeningKeeps
<1>9. CASE StartComplete(h)
  <2>1. PICK t \in sent :
          /\ Unlocks(t) /\ proven' = proven \cup ({t} \ expired)
          /\ Open(h, "complete", "unlock", [NoWork EXCEPT !.target = Newest, !.token = t])
    BY <1>9 DEF StartComplete
  <2> DEFINE w == [NoWork EXCEPT !.target = Newest, !.token = t]
  <2>2. /\ Open(h, "complete", "unlock", w) /\ manifests' = manifests
        /\ stored' = stored /\ clock' = clock /\ tokens' = tokens
        /\ uploaded' = uploaded /\ overlapped' = overlapped
    BY <1>9, <2>1 DEF StartComplete, delivery
  <2>3. "complete" \in OwnRoutes /\ "unlock" \in OwnLabels
    BY DEF OwnRoutes, OwnLabels
  <2>4. t \in proven' /\ NewestRow.gate.token = t /\ NewestRow.gate.status = "pending"
    BY <2>1 DEF Unlocks
  <2>5. Newest # NoManifest /\ t \in Nat
    BY <1>2, <1>3, <2>4 DEF NoRow, NoGate, ManifestRows, Gates
  <2>6. w \in Works
    BY <1>3, <2>5, NoWorkIsWork DEF Works
  <2>7. w.at = 0 /\ w.target = Newest /\ w.token = t
    BY DEF NoWork
  <2> HIDE DEF w
  <2>8. Existing' = Existing
    BY <2>2 DEF Existing
  <2>9. work'[h] = w /\ pc'[h] = "unlock" => Sound(h)'
    BY <1>1, <1>2, <2>2, <2>4, <2>5, <2>7, <2>8 DEF Sound
  <2>10. clock' \in Nat /\ clock <= clock' /\ tokens' \in Nat /\ proven \subseteq proven'
    BY <1>1, <2>1, <2>2
  <2> QED BY <2>2, <2>3, <2>6, <2>9, <2>10, OpeningKeeps
<1> QED BY <1>4, <1>5, <1>6, <1>7, <1>8, <1>9

LEMMA QuietStepsKeep ==
  ASSUME FulfilmentInvariant, NEW h \in Handlers,
         PutObject(h) \/ ListForAttach(h) \/ OverwriteObject(h) \/ NotifyChallenge(h)
  PROVE  FulfilmentInvariant'
<1> USE FulfilmentAssumption
<1>1. /\ RecordTypes /\ ManifestTypes /\ ManifestsInvariant
      /\ Fits(call[h], pc[h]) /\ Sound(h) /\ work[h] \in Works
      /\ clock \in Nat /\ stored \subseteq Artifacts
  BY DEF FulfilmentInvariant, ManifestTypes, RoutesInvariant, WorkInvariant
<1>2. /\ Newest # NoManifest =>
           Newest \in Existing /\ NewestRow = manifests[Newest] /\ Existing \subseteq Manifests
      /\ Newest = NoManifest => NewestRow = NoRow
  BY <1>1, NewestExists DEF Existing
<1>3. /\ NewestRow \in ManifestRows /\ NewestRow.entries \subseteq stored
      /\ Newest \in Manifests \cup {NoManifest}
  <2>1. NoRow \in ManifestRows /\ NoRow.entries = {}
    BY DEF NoRow, NoGate, ManifestRows, Gates
  <2> QED BY <1>1, <1>2, <2>1 DEF ManifestTypes, ManifestsInvariant
<1>4. CASE PutObject(h) \/ OverwriteObject(h)
  <2>1. PICK label \in {"list", "attach"} :
          /\ Proceed(h, label)
          /\ \/ pc[h] = "put" /\ label = "list"
             \/ pc[h] = "overwrite" /\ label = "attach"
    BY <1>4 DEF PutObject, OverwriteObject
  <2>2. /\ manifests' = manifests /\ stored' = stored \cup {work[h].artifact} /\ clock' = clock
        /\ tokens' = tokens /\ work' = work /\ uploaded' = uploaded /\ proven' = proven
        /\ overlapped' = overlapped
    BY <1>4 DEF PutObject, OverwriteObject, traces
  <2>3. pc[h] \in OwnLabels /\ label \in OwnLabels \cup {"announce"} /\ Fits(call[h], label)
    BY <1>1, <2>1 DEF OwnLabels, Fits
  <2>4. work' = [work EXCEPT ![h] = work[h]]
    BY <1>1, <2>2 DEF ManifestTypes
  <2>5. stored \subseteq stored' /\ stored' \subseteq Artifacts
    BY <1>1, <2>1, <2>2 DEF Sound
  <2>6. Existing' = Existing
    BY <2>2 DEF Existing
  <2>7. work'[h] = work[h] /\ pc'[h] = label => Sound(h)'
    BY <1>1, <2>1, <2>2, <2>5, <2>6 DEF Sound
  <2> QED BY <1>1, <2>1, <2>2, <2>3, <2>4, <2>5, <2>7, GoingOnKeeps
<1>5. CASE ListForAttach(h)
  <2> DEFINE w == [work[h] EXCEPT !.target = Newest, !.entries = NewestRow.entries]
  <2>1. /\ Proceed(h, "attach") /\ pc[h] = "list" /\ manifests' = manifests /\ stored' = stored
        /\ clock' = clock /\ tokens' = tokens /\ work' = [work EXCEPT ![h] = w]
        /\ uploaded' = uploaded /\ proven' = proven /\ overlapped' = overlapped
    BY <1>1, <1>5 DEF ListForAttach, delivery, traces, ManifestTypes
  <2>2. /\ pc[h] \in OwnLabels /\ "attach" \in OwnLabels \cup {"announce"}
        /\ Fits(call[h], "attach")
    BY <1>1, <2>1 DEF OwnLabels, Fits
  <2>3. NewestRow.entries \in SUBSET Artifacts
    BY <1>1, <1>3
  <2>4. w \in Works
    BY <1>1, <1>3, <2>3 DEF Works
  <2>5. /\ w.target = Newest /\ w.entries = NewestRow.entries /\ w.artifact = work[h].artifact
        /\ w.at = work[h].at
    BY <1>1 DEF Works
  <2> HIDE DEF w
  <2>6. Existing' = Existing
    BY <2>1 DEF Existing
  <2>7. work'[h] = w /\ pc'[h] = "attach" => Sound(h)'
    <3>1. work[h].artifact \in Artifacts /\ work[h].artifact \in stored /\ work[h].at <= clock
      BY <1>1, <2>1 DEF Sound
    <3>2. work[h].at > 0
      BY <1>1, <2>1 DEF Sound
    <3> QED BY <1>1, <1>2, <1>3, <2>1, <2>5, <2>6, <3>1, <3>2 DEF Sound
  <2> QED BY <1>1, <2>1, <2>2, <2>4, <2>7, GoingOnKeeps
<1>6. CASE NotifyChallenge(h)
  <2>1. /\ Proceed(h, "announce") /\ pc[h] = "notify" /\ manifests' = manifests
        /\ stored' = stored /\ clock' = clock /\ tokens' = tokens /\ work' = work
        /\ uploaded' = uploaded /\ proven' = proven /\ overlapped' = overlapped
    BY <1>6 DEF NotifyChallenge, traces
  <2>2. /\ pc[h] \in OwnLabels /\ "announce" \in OwnLabels \cup {"announce"}
        /\ Fits(call[h], "announce")
    BY <1>1, <2>1 DEF OwnLabels, Fits
  <2>3. work' = [work EXCEPT ![h] = work[h]]
    BY <1>1, <2>1 DEF ManifestTypes
  <2>4. work'[h] = work[h] /\ pc'[h] = "announce" => Sound(h)'
    BY <1>1, <2>1 DEF Sound
  <2> QED BY <1>1, <2>1, <2>2, <2>3, <2>4, GoingOnKeeps
<1> QED BY <1>4, <1>5, <1>6
-----------------------------------------------------------------------------
(* The steps that write a row of the manifests.                            *)

LEMMA OutdateAges ==
  ASSUME FulfilmentInvariant, NEW h \in Handlers, NEW routes, NEW ms, "none" \notin routes,
         work' = Outdate(h, routes, ms)
  PROVE  /\ work' \in [Handlers -> Works] /\ work'[h] = work[h]
         /\ \A g \in Handlers \ {h} :
              /\ Aged(g)
              /\ call[g].route \in routes /\ work[g].target \in ms => work'[g].stale
<1> DEFINE stale(g) == [work[g] EXCEPT !.stale = TRUE]
<1>1. work \in [Handlers -> Works] /\ \A g \in Handlers : pc[g] = "idle" => call[g].route = "none"
  BY DEF FulfilmentInvariant, ManifestTypes, RoutesInvariant, NoCall
<1>2. \A g \in Handlers :
        /\ stale(g) \in Works /\ stale(g).stale
        /\ stale(g).target = work[g].target /\ stale(g).entries = work[g].entries
        /\ stale(g).artifact = work[g].artifact /\ stale(g).token = work[g].token
        /\ stale(g).at = work[g].at /\ stale(g).review = work[g].review
  BY <1>1 DEF Works
<1>3. work' = [g \in Handlers |->
                 IF g # h /\ call[g].route \in routes /\ work[g].target \in ms
                 THEN stale(g) ELSE work[g]]
  BY DEF Outdate
<1> HIDE DEF stale
<1>4. \A g \in Handlers :
        work'[g] = IF g # h /\ call[g].route \in routes /\ work[g].target \in ms
                   THEN stale(g) ELSE work[g]
  BY <1>3
<1>5. work' \in [Handlers -> Works]
  BY <1>1, <1>2, <1>3
<1> QED BY <1>1, <1>2, <1>4, <1>5 DEF Aged

(* One row is revised: who was going to write what it was, or relied on    *)
(* its review, is outdated.                                                *)
Revises(h, t, r) ==
  /\ t \in Existing /\ r \in ManifestRows /\ r.at = manifests[t].at
  /\ manifests' = [manifests EXCEPT ![t] = r] /\ r.entries \subseteq stored
  /\ r.gate.status = "completed" => r.gate.token \in proven
  /\ work' \in [Handlers -> Works] /\ work'[h] = work[h]
  /\ \A g \in Handlers \ {h} :
       /\ Aged(g)
       /\ call[g].route = "fulfil" /\ work[g].target = t /\ r.review # manifests[t].review
            => work'[g].stale
       /\ call[g].route \in {"upload", "replace"} /\ work[g].target = t
            /\ r.entries # manifests[t].entries => work'[g].stale
  /\ stored' = stored /\ clock' = clock /\ tokens' = tokens /\ proven' = proven
  /\ uploaded' \subseteq Artifacts /\ overlapped' \in BOOLEAN
  /\ ~overlapped' => /\ ~overlapped /\ manifests[t].entries \subseteq r.entries
                     /\ uploaded' \subseteq uploaded \cup r.entries

LEMMA RevisionKeeps ==
  ASSUME FulfilmentInvariant, NEW h \in Handlers, pc[h] \in OwnLabels,
         NEW label \in {"announce", "notify"}, Proceed(h, label), NEW t, NEW r, Revises(h, t, r)
  PROVE  FulfilmentInvariant'
<1> USE DEF Revises
<1>1. /\ RecordTypes /\ ManifestTypes /\ RoutesInvariant
      /\ ManifestsInvariant /\ WorkInvariant /\ ApprovedInvariant
  BY DEF FulfilmentInvariant
<1>2. Fits(call[h], label) /\ label \in OwnLabels \cup {"announce"}
  BY <1>1 DEF RoutesInvariant, Fits, OwnLabels
<1>3. /\ RecordTypes' /\ RowInvariant' /\ pc' = [pc EXCEPT ![h] = label]
      /\ call' = [call EXCEPT ![h] = call[h]] /\ call[h] \in Calls
      /\ call[h].route \in OwnRoutes
  BY <1>2, Proceeds
<1>4. t \in Manifests /\ \A m \in Manifests : manifests'[m] = IF m = t THEN r ELSE manifests[m]
  BY <1>1 DEF Existing, ManifestTypes
<1>5. \A m \in Manifests : manifests'[m].at = manifests[m].at
  BY <1>4
<1>6. Existing' = Existing /\ t # NoManifest
  BY <1>4, <1>5, NewestStays, FulfilmentAssumption
<1>7. ManifestTypes'
  BY <1>1 DEF ManifestTypes
<1>8. ManifestsInvariant'
  <2>1. ASSUME NEW m \in Manifests
        PROVE  /\ manifests'[m].at = 0 => manifests'[m] = NoRow
               /\ manifests'[m].at <= clock'
               /\ manifests'[m].entries \subseteq stored'
               /\ manifests'[m].gate.status = "completed" => manifests'[m].gate.token \in proven'
    <3>1. CASE m = t
      <4>1. manifests'[m] = r /\ r.at # 0 /\ r.at <= clock
        BY <1>1, <1>4, <3>1 DEF Existing, ManifestsInvariant
      <4> QED BY <4>1
    <3>2. CASE m # t
      BY <1>1, <1>4, <3>2 DEF ManifestsInvariant
    <3> QED BY <3>1, <3>2
  <2>2. Existing' # {} =>
          \E m \in Existing' : \A n \in Existing' : manifests'[n].at <= manifests'[m].at
    <3>1. Existing \subseteq Manifests
      BY DEF Existing
    <3> QED BY <1>1, <1>5, <1>6, <3>1 DEF ManifestsInvariant
  <2>3. ~overlapped' => \A a \in uploaded' : \E m \in Existing' : a \in manifests'[m].entries
    <3> SUFFICES ASSUME ~overlapped', NEW a \in uploaded'
                 PROVE  \E m \in Existing : a \in manifests'[m].entries
      BY <1>6
    <3>1. CASE a \in r.entries
      BY <1>4, <3>1
    <3>2. CASE a \in uploaded
      <4>1. PICK m \in Existing : a \in manifests[m].entries
        BY <1>1, <3>2 DEF ManifestsInvariant
      <4> QED BY <1>4, <4>1 DEF Existing
    <3> QED BY <3>1, <3>2
  <2> QED BY <2>1, <2>2, <2>3 DEF ManifestsInvariant
<1>9. ApprovedInvariant'
  <2> SUFFICES ASSUME NEW g \in Handlers, call'[g].route = "fulfil", ~work'[g].stale
               PROVE  /\ call[g].route = "fulfil" /\ ~work[g].stale
                      /\ work'[g].target = work[g].target
                      /\ \A m \in Manifests : work[g].target = m =>
                           manifests'[m].review = manifests[m].review
    BY <1>1, <1>5, ApprovedStays
  <2>1. g # h /\ call'[g] = call[g]
    BY <1>1, <1>3 DEF RecordTypes, OwnRoutes
  <2> QED BY <1>4, <2>1 DEF Aged
<1>10. \A g \in Handlers \ {h} :
         pc[g] \in {"attach", "overwrite"} /\ ~work'[g].stale /\ work[g].target # NoManifest =>
           manifests'[work[g].target].entries = manifests[work[g].target].entries
  <2> SUFFICES ASSUME NEW g \in Handlers \ {h}, pc[g] \in {"attach", "overwrite"},
                      ~work'[g].stale, work[g].target # NoManifest
               PROVE  manifests'[work[g].target].entries = manifests[work[g].target].entries
    OBVIOUS
  <2>1. call[g].route \in {"upload", "replace"} /\ work[g].target \in Manifests
    BY <1>1 DEF RoutesInvariant, Fits, ManifestTypes, Works
  <2> QED BY <1>4, <2>1
<1>11. Sound(h)'
  <2>1. pc'[h] = label /\ work[h].at <= clock
    BY <1>1, <1>3 DEF RecordTypes, WorkInvariant, Sound
  <2> QED BY <2>1 DEF Sound
<1>12. label \in OwnLabels \cup {"announce", "transition"} /\ clock <= clock'
  BY <1>1, <1>2 DEF ManifestTypes
<1> QED BY <1>2, <1>3, <1>6, <1>7, <1>8, <1>9, <1>10, <1>11, <1>12, OwnStep

(* A row is inserted: every fulfilment under way is outdated.              *)
LEMMA InsertionKeeps ==
  ASSUME FulfilmentInvariant, NEW h \in Handlers, pc[h] \in OwnLabels, Proceed(h, "announce"),
         NEW at \in Nat, at > 0, NEW entries \in SUBSET stored, Create(h, at, entries),
         stored' = stored, clock' \in Nat, clock <= clock', at <= clock', tokens' = tokens,
         uploaded' \subseteq uploaded \cup entries, proven' = proven, overlapped' = overlapped
  PROVE  FulfilmentInvariant'
<1>1. /\ RecordTypes /\ ManifestTypes /\ RoutesInvariant
      /\ ManifestsInvariant /\ WorkInvariant /\ ApprovedInvariant
      /\ clock \in Nat /\ stored \subseteq Artifacts
  BY DEF FulfilmentInvariant, ManifestTypes
<1>2. Fits(call[h], "announce") /\ "announce" \in OwnLabels \cup {"announce"}
  BY <1>1 DEF RoutesInvariant, Fits, OwnLabels
<1>3. /\ RecordTypes' /\ RowInvariant' /\ pc' = [pc EXCEPT ![h] = "announce"]
      /\ call' = [call EXCEPT ![h] = call[h]] /\ call[h] \in Calls
      /\ call[h].route \in OwnRoutes
  BY <1>2, Proceeds
<1> DEFINE r == [NoRow EXCEPT !.at = at, !.review = "pending", !.entries = entries]
<1>4. PICK k \in Manifests \ Existing : manifests' = [manifests EXCEPT ![k] = r]
  BY DEF Create
<1>5. work' = Outdate(h, {"fulfil"}, Manifests \cup {NoManifest})
  BY DEF Create
<1>6. /\ work' \in [Handlers -> Works] /\ work'[h] = work[h]
      /\ \A g \in Handlers \ {h} :
           Aged(g) /\ (call[g].route = "fulfil" => work'[g].stale)
  <2>1. "none" \notin {"fulfil"}
    OBVIOUS
  <2>2. \A g \in Handlers : work[g].target \in Manifests \cup {NoManifest}
    BY <1>1 DEF ManifestTypes, Works
  <2> QED BY <1>5, <2>1, <2>2, OutdateAges
<1>7. r \in ManifestRows /\ r.at = at /\ r.entries = entries /\ r.gate.status = "none"
  <2>1. NoRow \in ManifestRows /\ NoRow.gate.status = "none"
    BY DEF NoRow, NoGate, ManifestRows, Gates
  <2>2. entries \in SUBSET Artifacts
    BY <1>1
  <2>3. r \in ManifestRows
    BY <2>1, <2>2 DEF ManifestRows
  <2> QED BY <2>1, <2>3 DEF NoRow, NoGate
<1> HIDE DEF r
<1>8. \A m \in Manifests : manifests'[m] = IF m = k THEN r ELSE manifests[m]
  BY <1>1, <1>4 DEF ManifestTypes
<1>9. Existing' = Existing \cup {k} /\ Existing \subseteq Manifests /\ k \notin Existing
  BY <1>4, <1>7, <1>8 DEF Existing
<1>10. ManifestTypes'
  BY <1>1, <1>4, <1>6, <1>7 DEF ManifestTypes
<1>11. ManifestsInvariant'
  <2>1. \A m \in Manifests :
          /\ manifests'[m].at = 0 => manifests'[m] = NoRow
          /\ manifests'[m].at <= clock'
          /\ manifests'[m].entries \subseteq stored'
          /\ manifests'[m].gate.status = "completed" => manifests'[m].gate.token \in proven'
    <3> SUFFICES ASSUME NEW m \in Manifests
                 PROVE  /\ manifests'[m].at = 0 => manifests'[m] = NoRow
                        /\ manifests'[m].at <= clock'
                        /\ manifests'[m].entries \subseteq stored'
                        /\ manifests'[m].gate.status = "completed" =>
                             manifests'[m].gate.token \in proven'
      OBVIOUS
    <3>1. CASE m = k
      BY <1>7, <1>8, <3>1
    <3>2. CASE m # k
      <4>1. manifests'[m] = manifests[m] /\ manifests[m].at \in Nat
        BY <1>1, <1>8, <3>2 DEF ManifestTypes, ManifestRows
      <4>2. manifests[m].at <= clock
        BY <1>1 DEF ManifestsInvariant
      <4>3. manifests'[m].at <= clock'
        BY <1>1, <4>1, <4>2
      <4> QED BY <1>1, <4>1, <4>3 DEF ManifestsInvariant
    <3> QED BY <3>1, <3>2
  <2>2. \E m \in Existing' : \A n \in Existing' : manifests'[n].at <= manifests'[m].at
    <3>1. manifests'[k].at = at
      BY <1>7, <1>8
    <3>2. \A n \in Existing : manifests'[n].at = manifests[n].at /\ manifests[n].at \in Nat
      BY <1>1, <1>8, <1>9 DEF ManifestTypes, ManifestRows
    <3>3. CASE Existing = {}
      BY <1>9, <3>1, <3>3
    <3>4. CASE Existing # {}
      <4>1. PICK m \in Existing : \A n \in Existing : manifests[n].at <= manifests[m].at
        BY <1>1, <3>4 DEF ManifestsInvariant
      <4>2. CASE manifests[m].at <= at
        <5>1. \A n \in Existing' : manifests'[n].at <= manifests'[k].at
          BY <1>9, <3>1, <3>2, <4>1, <4>2
        <5> QED BY <1>9, <5>1
      <4>3. CASE ~(manifests[m].at <= at)
        <5>1. \A n \in Existing' : manifests'[n].at <= manifests'[m].at
          BY <1>9, <3>1, <3>2, <4>1, <4>3
        <5> QED BY <1>9, <5>1
      <4> QED BY <4>2, <4>3
    <3> QED BY <3>3, <3>4
  <2>3. ~overlapped' => \A a \in uploaded' : \E m \in Existing' : a \in manifests'[m].entries
    <3> SUFFICES ASSUME ~overlapped', NEW a \in uploaded'
                 PROVE  \E m \in Existing' : a \in manifests'[m].entries
      OBVIOUS
    <3>1. CASE a \in entries
      BY <1>7, <1>8, <1>9, <3>1
    <3>2. CASE a \in uploaded
      <4>1. PICK m \in Existing : a \in manifests[m].entries
        BY <1>1, <3>2 DEF ManifestsInvariant
      <4> QED BY <1>8, <1>9, <4>1
    <3> QED BY <3>1, <3>2
  <2> QED BY <2>1, <2>2, <2>3 DEF ManifestsInvariant
<1>12. ApprovedInvariant'
  <2>1. call'[h].route # "fulfil" /\ \A g \in Handlers \ {h} : call'[g] = call[g]
    BY <1>1, <1>3 DEF RecordTypes, OwnRoutes
  <2> QED BY <1>6, <2>1 DEF ApprovedInvariant
<1>13. \A g \in Handlers \ {h} :
         pc[g] \in {"attach", "overwrite"} /\ ~work'[g].stale /\ work[g].target # NoManifest =>
           manifests'[work[g].target].entries = manifests[work[g].target].entries
  <2> SUFFICES ASSUME NEW g \in Handlers \ {h}, pc[g] \in {"attach", "overwrite"},
                      work[g].target # NoManifest
               PROVE  manifests'[work[g].target] = manifests[work[g].target]
    OBVIOUS
  <2>1. work[g].target \in Existing
    BY <1>1 DEF WorkInvariant, Sound
  <2> QED BY <1>8, <1>9, <2>1
<1>14. Sound(h)'
  <2>1. pc'[h] = "announce" /\ work[h].at <= clock /\ work[h].at \in Nat
    BY <1>1, <1>3 DEF RecordTypes, WorkInvariant, Sound, ManifestTypes, Works
  <2>2. work'[h].at <= clock'
    BY <1>1, <1>6, <2>1
  <2> QED BY <2>1, <2>2 DEF Sound
<1>15. "announce" \in OwnLabels \cup {"announce", "transition"} /\ Existing \subseteq Existing'
  BY <1>9
<1> QED BY <1>2, <1>3, <1>10, <1>11, <1>12, <1>13, <1>6, <1>14, <1>15, OwnStep

LEMMA CreateManifestKeeps ==
  ASSUME FulfilmentInvariant, NEW h \in Handlers, CreateManifest(h)
  PROVE  FulfilmentInvariant'
<1>1. clock \in Nat
  BY DEF FulfilmentInvariant, ManifestTypes
<1>2. /\ pc[h] \in OwnLabels /\ Proceed(h, "announce") /\ Create(h, clock + 1, {})
      /\ stored' = stored /\ clock' = clock + 1 /\ tokens' = tokens
      /\ uploaded' = uploaded /\ proven' = proven /\ overlapped' = overlapped
  BY DEF CreateManifest, OwnLabels, traces
<1>3. /\ clock + 1 \in Nat /\ clock + 1 > 0 /\ {} \in SUBSET stored /\ clock' \in Nat
      /\ clock <= clock' /\ clock + 1 <= clock' /\ uploaded' \subseteq uploaded \cup {}
  BY <1>1, <1>2
<1> QED BY <1>2, <1>3, InsertionKeeps

LEMMA AttachKeeps ==
  ASSUME FulfilmentInvariant, NEW h \in Handlers, Attach(h)
  PROVE  FulfilmentInvariant'
<1>1. /\ ManifestTypes /\ ManifestsInvariant /\ Sound(h) /\ work[h] \in Works
      /\ manifests \in [Manifests -> ManifestRows] /\ clock \in Nat
      /\ stored \subseteq Artifacts /\ uploaded \subseteq Artifacts /\ overlapped \in BOOLEAN
  BY DEF FulfilmentInvariant, ManifestTypes, WorkInvariant
<1>2. /\ pc[h] = "attach" /\ pc[h] \in OwnLabels /\ Proceed(h, "announce")
      /\ stored' = stored /\ clock' = clock /\ tokens' = tokens
      /\ uploaded' = uploaded \cup {work[h].artifact} /\ proven' = proven
  BY DEF Attach, OwnLabels, delivery
<1>3. /\ EntriesAfter(h) \in SUBSET stored /\ work[h].entries \subseteq EntriesAfter(h)
      /\ work[h].artifact \in EntriesAfter(h)
  BY <1>1, <1>2 DEF Sound, EntriesAfter
<1>4. uploaded' \subseteq uploaded \cup EntriesAfter(h) /\ uploaded' \subseteq Artifacts
  BY <1>1, <1>2, <1>3
<1>5. CASE work[h].target = NoManifest
  <2>1. Create(h, work[h].at, EntriesAfter(h)) /\ overlapped' = overlapped
    BY <1>5 DEF Attach
  <2>2. /\ work[h].at \in Nat /\ work[h].at <= clock /\ work[h].target \notin Existing
    BY <1>1, <1>5, FulfilmentAssumption DEF Works, Sound, Existing
  <2>3. work[h].at > 0
    BY <1>1, <1>2, <2>2 DEF Sound
  <2>4. clock' \in Nat /\ clock <= clock' /\ work[h].at <= clock'
    BY <1>1, <1>2, <2>2
  <2> QED BY <1>2, <1>3, <1>4, <2>1, <2>2, <2>3, <2>4, InsertionKeeps
<1>6. CASE work[h].target # NoManifest
  <2> DEFINE t == work[h].target
             r == [manifests[t] EXCEPT !.entries = EntriesAfter(h)]
  <2>1. t \in Existing /\ t \in Manifests
    BY <1>1, <1>2, <1>6 DEF Sound, Existing
  <2>2. /\ manifests' = [manifests EXCEPT ![t].entries = EntriesAfter(h)]
        /\ overlapped' = (overlapped \/ work[h].stale)
        /\ work' = Outdate(h, {"upload", "replace"}, {t})
    BY <1>6 DEF Attach
  <2>3. /\ r \in ManifestRows /\ r.at = manifests[t].at /\ r.entries = EntriesAfter(h)
        /\ r.review = manifests[t].review /\ r.gate = manifests[t].gate
    <3>1. manifests[t] \in ManifestRows /\ EntriesAfter(h) \in SUBSET Artifacts
      BY <1>1, <1>3, <2>1
    <3> QED BY <3>1 DEF ManifestRows
  <2>4. manifests' = [manifests EXCEPT ![t] = r]
    BY <2>2
  <2>5. /\ work' \in [Handlers -> Works] /\ work'[h] = work[h]
        /\ \A g \in Handlers \ {h} :
             /\ Aged(g)
             /\ call[g].route \in {"upload", "replace"} /\ work[g].target = t => work'[g].stale
    <3>1. "none" \notin {"upload", "replace"}
      OBVIOUS
    <3> QED BY <2>2, <3>1, OutdateAges
  <2>6. overlapped' \in BOOLEAN /\ (~overlapped' => ~overlapped /\ ~work[h].stale)
    BY <1>1, <2>2 DEF Works
  <2>7. r.gate.status = "completed" => r.gate.token \in proven
    BY <1>1, <2>1, <2>3 DEF ManifestsInvariant
  <2>8. ~overlapped' => manifests[t].entries \subseteq r.entries
    BY <1>1, <1>2, <1>3, <1>6, <2>3, <2>6 DEF Sound
  <2> HIDE DEF r
  <2>9. /\ r.entries \subseteq stored /\ uploaded' \subseteq uploaded \cup r.entries
        /\ "announce" \in {"announce", "notify"}
    BY <1>3, <1>4, <2>3
  <2>10. \A g \in Handlers \ {h} :
         /\ Aged(g)
         /\ call[g].route = "fulfil" /\ work[g].target = t /\ r.review # manifests[t].review
              => work'[g].stale
         /\ call[g].route \in {"upload", "replace"} /\ work[g].target = t
              /\ r.entries # manifests[t].entries => work'[g].stale
    BY <2>3, <2>5
  <2> HIDE DEF t
  <2>11. Revises(h, t, r)
    BY <1>2, <1>4, <2>1, <2>3, <2>4, <2>5, <2>6, <2>7, <2>8, <2>9, <2>10 DEF Revises
  <2> QED BY <1>2, <2>11, RevisionKeeps
<1> QED BY <1>5, <1>6

LEMMA WriteReviewKeeps ==
  ASSUME FulfilmentInvariant, NEW h \in Handlers, WriteReview(h)
  PROVE  FulfilmentInvariant'
<1>1. /\ ManifestTypes /\ ManifestsInvariant /\ Sound(h) /\ work[h] \in Works
      /\ manifests \in [Manifests -> ManifestRows]
      /\ uploaded \subseteq Artifacts /\ overlapped \in BOOLEAN
  BY DEF FulfilmentInvariant, ManifestTypes, WorkInvariant
<1> DEFINE t == work[h].target
           r == [manifests[t] EXCEPT !.review = work[h].review]
<1>2. /\ pc[h] = "validate" /\ pc[h] \in OwnLabels /\ Proceed(h, "announce")
      /\ stored' = stored /\ clock' = clock /\ tokens' = tokens
      /\ uploaded' = uploaded /\ proven' = proven /\ overlapped' = overlapped
      /\ manifests' = [manifests EXCEPT ![t].review = work[h].review]
      /\ work' = Outdate(h, {"fulfil"}, {t})
  BY DEF WriteReview, OwnLabels, delivery, traces
<1>3. t \in Existing /\ t \in Manifests /\ work[h].review \in {"approved", "rejected"}
  BY <1>1, <1>2 DEF Sound, Existing
<1>4. /\ r \in ManifestRows /\ r.at = manifests[t].at /\ r.entries = manifests[t].entries
      /\ r.gate = manifests[t].gate
  <2>1. manifests[t] \in ManifestRows
    BY <1>1, <1>3
  <2> QED BY <1>3, <2>1 DEF ManifestRows
<1>5. manifests' = [manifests EXCEPT ![t] = r]
  BY <1>2
<1>6. /\ work' \in [Handlers -> Works] /\ work'[h] = work[h]
      /\ \A g \in Handlers \ {h} :
           Aged(g) /\ (call[g].route = "fulfil" /\ work[g].target = t => work'[g].stale)
  <2>1. "none" \notin {"fulfil"}
    OBVIOUS
  <2> QED BY <1>2, <2>1, OutdateAges
<1>7. r.entries \subseteq stored /\ (r.gate.status = "completed" => r.gate.token \in proven)
  BY <1>1, <1>3, <1>4 DEF ManifestsInvariant
<1> HIDE DEF r
<1>8. /\ "announce" \in {"announce", "notify"} /\ uploaded' \subseteq Artifacts
      /\ overlapped' \in BOOLEAN
      /\ ~overlapped' => /\ ~overlapped /\ manifests[t].entries \subseteq r.entries
                         /\ uploaded' \subseteq uploaded \cup r.entries
  BY <1>1, <1>2, <1>4
<1>9. \A g \in Handlers \ {h} :
       /\ Aged(g)
       /\ call[g].route = "fulfil" /\ work[g].target = t /\ r.review # manifests[t].review
            => work'[g].stale
       /\ call[g].route \in {"upload", "replace"} /\ work[g].target = t
            /\ r.entries # manifests[t].entries => work'[g].stale
  BY <1>4, <1>6
<1> HIDE DEF t
<1>10. Revises(h, t, r)
  BY <1>2, <1>3, <1>4, <1>5, <1>6, <1>7, <1>8, <1>9 DEF Revises
<1> QED BY <1>2, <1>10, RevisionKeeps

LEMMA GateWritesKeep ==
  ASSUME FulfilmentInvariant, NEW h \in Handlers, WriteGate(h) \/ WriteComplete(h)
  PROVE  FulfilmentInvariant'
<1>1. /\ ManifestTypes /\ ManifestsInvariant /\ Sound(h) /\ work[h] \in Works
      /\ manifests \in [Manifests -> ManifestRows] /\ work \in [Handlers -> Works]
      /\ uploaded \subseteq Artifacts /\ overlapped \in BOOLEAN
  BY DEF FulfilmentInvariant, ManifestTypes, WorkInvariant
<1>2. PICK status \in {"pending", "completed"}, label \in {"announce", "notify"} :
        /\ Proceed(h, label)
        /\ manifests' = [manifests EXCEPT ![work[h].target].gate =
                           [token |-> work[h].token, status |-> status]]
        /\ pc[h] \in {"gate", "unlock"} /\ (status = "completed" => pc[h] = "unlock")
  BY DEF WriteGate, WriteComplete
<1> DEFINE t == work[h].target
           gate == [token |-> work[h].token, status |-> status]
           r == [manifests[t] EXCEPT !.gate = gate]
<1>3. /\ stored' = stored /\ clock' = clock /\ tokens' = tokens /\ work' = work
      /\ uploaded' = uploaded /\ proven' = proven /\ overlapped' = overlapped
      /\ pc[h] \in OwnLabels
  BY <1>2 DEF WriteGate, WriteComplete, OwnLabels, delivery, traces
<1>4. /\ t \in Existing /\ t \in Manifests
      /\ status = "completed" => work[h].token \in proven
  BY <1>1, <1>2 DEF Sound, Existing
<1>5. gate \in Gates
  BY <1>1 DEF Gates, Works
<1>6. /\ r \in ManifestRows /\ r.at = manifests[t].at /\ r.entries = manifests[t].entries
      /\ r.review = manifests[t].review /\ r.gate = gate
  <2>1. manifests[t] \in ManifestRows
    BY <1>1, <1>4
  <2> HIDE DEF gate
  <2> QED BY <1>5, <2>1 DEF ManifestRows
<1>7. manifests' = [manifests EXCEPT ![t] = r]
  BY <1>2
<1>8. /\ work' \in [Handlers -> Works] /\ work'[h] = work[h]
      /\ \A g \in Handlers \ {h} : Aged(g)
  BY <1>1, <1>3 DEF Aged
<1>9. r.entries \subseteq stored /\ (r.gate.status = "completed" => r.gate.token \in proven)
  BY <1>1, <1>4, <1>6 DEF ManifestsInvariant
<1> HIDE DEF r
<1>10. /\ uploaded' \subseteq Artifacts /\ overlapped' \in BOOLEAN
       /\ ~overlapped' => /\ ~overlapped /\ manifests[t].entries \subseteq r.entries
                          /\ uploaded' \subseteq uploaded \cup r.entries
  BY <1>1, <1>3, <1>6
<1>11. \A g \in Handlers \ {h} :
       /\ Aged(g)
       /\ call[g].route = "fulfil" /\ work[g].target = t /\ r.review # manifests[t].review
            => work'[g].stale
       /\ call[g].route \in {"upload", "replace"} /\ work[g].target = t
            /\ r.entries # manifests[t].entries => work'[g].stale
  BY <1>6, <1>8
<1> HIDE DEF t, gate
<1>12. Revises(h, t, r)
  BY <1>3, <1>4, <1>6, <1>7, <1>8, <1>9, <1>10, <1>11 DEF Revises
<1> QED BY <1>2, <1>3, <1>12, RevisionKeeps

(* A fulfilment begins by what the newest manifest is.                     *)
LEMMA StartFulfilKeeps ==
  ASSUME FulfilmentInvariant, NEW h \in Handlers, StartFulfil(h)
  PROVE  FulfilmentInvariant'
<1> DEFINE c == [NoCall EXCEPT !.route = "fulfil", !.action = "fulfil"]
           d == [c EXCEPT !.seen = row]
           w == [NoWork EXCEPT !.target = Newest]
<1>1. /\ RecordTypes /\ RowInvariant /\ ManifestTypes /\ ManifestsInvariant
      /\ ApprovedInvariant /\ WorkInvariant /\ clock \in Nat
  BY DEF FulfilmentInvariant, ManifestTypes
<1>2. /\ Begin(h, c, "transition") /\ work' = [work EXCEPT ![h] = w]
      /\ Newest = NoManifest \/ NewestRow.review = "approved"
      /\ manifests' = manifests /\ stored' = stored /\ clock' = clock /\ tokens' = tokens
      /\ uploaded' = uploaded /\ proven' = proven /\ overlapped' = overlapped
  BY DEF StartFulfil, delivery, traces
<1>3. Newest \in Manifests \cup {NoManifest}
  BY <1>1, NewestExists DEF Existing
<1>4. w \in Works /\ w.target = Newest /\ w.at = 0
  <2>1. w \in Works
    BY <1>3, NoWorkIsWork DEF Works
  <2> QED BY <2>1 DEF NoWork
<1>5. "fulfil" \in Actions
  BY DEF Actions, Transitions
<1>6. c \in Calls
  BY <1>5, NoCallIsACall DEF Calls
<1>7. ~c.stale /\ c.route = "fulfil" /\ c.action = "fulfil"
  BY DEF NoCall
<1>8. "transition" \in (RecordLabels \cup OwnLabels) \ {"status_write", "write"}
  BY DEF RecordLabels
<1> HIDE DEF c, w
<1>9. /\ RecordTypes' /\ RowInvariant' /\ d \in Calls
      /\ pc' = [pc EXCEPT ![h] = "transition"] /\ call' = [call EXCEPT ![h] = d]
  BY <1>1, <1>2, <1>6, <1>7, <1>8, Begins
<1>10. d.route = "fulfil" /\ d.action = "fulfil"
  BY <1>6, <1>7 DEF Calls
<1> HIDE DEF d
<1>11. Fits(d, "transition")
  BY <1>5, <1>10 DEF Fits, OwnLabels
<1>12. ManifestTypes' /\ ManifestsInvariant' /\ Existing' = Existing
  BY <1>1, <1>2, <1>4 DEF ManifestTypes, ManifestsInvariant, Existing
<1>13. /\ work'[h] = w /\ pc'[h] = "transition"
       /\ \A g \in Handlers \ {h} : work'[g] = work[g] /\ call'[g] = call[g]
  BY <1>1, <1>2, <1>9 DEF ManifestTypes, RecordTypes
<1>14. ApprovedInvariant'
  <2>1. Newest' = Newest /\ NewestRow' = NewestRow
    BY <1>2 DEF Newest, NewestRow, Existing
  <2> QED BY <1>1, <1>2, <1>4, <1>13, <2>1 DEF ApprovedInvariant
<1>15. Sound(h)'
  BY <1>1, <1>2, <1>4, <1>13 DEF Sound
<1>16. \A g \in Handlers \ {h} : Aged(g)
  BY <1>13 DEF Aged
<1>17. /\ "transition" \in OwnLabels \cup {"announce", "transition"} /\ stored \subseteq stored'
       /\ clock <= clock' /\ proven \subseteq proven' /\ Existing \subseteq Existing'
  BY <1>1, <1>2, <1>12
<1> QED BY <1>2, <1>9, <1>11, <1>12, <1>14, <1>15, <1>16, <1>17, OwnStep
-----------------------------------------------------------------------------
LEMMA FulfilmentNextKeeps ==
  ASSUME FulfilmentInvariant, [FulfilmentNext]_fulfilmentVars
  PROVE  FulfilmentInvariant'
<1>1. ASSUME NEW h \in Handlers, FulfilmentStart(h) \/ FulfilmentStep(h) \/ RecordPart(h)
      PROVE  FulfilmentInvariant'
  BY <1>1, RecordPartKeeps, QuietStartsKeep, QuietStepsKeep, CreateManifestKeeps, AttachKeeps,
     WriteReviewKeeps, GateWritesKeep, StartFulfilKeeps
     DEF FulfilmentStart, FulfilmentStep
<1>2. CASE Expire \/ UNCHANGED fulfilmentVars
  <2>1. /\ row' = row /\ intended' = intended /\ raced' = raced /\ pc' = pc /\ call' = call
        /\ manifests' = manifests /\ stored' = stored /\ clock' = clock /\ tokens' = tokens
        /\ work' = work /\ uploaded' = uploaded /\ proven' = proven /\ overlapped' = overlapped
    BY <1>2 DEF Expire, fulfilmentVars, newVars, delivery, traces, recordVars, record, handler,
                history
  <2>2. Existing' = Existing /\ Newest' = Newest /\ NewestRow' = NewestRow
    BY <2>1 DEF Existing, Newest, NewestRow
  <2>3. RecordTypes' /\ ManifestTypes' /\ RoutesInvariant' /\ RowInvariant'
    BY <2>1 DEF FulfilmentInvariant, RecordTypes, ManifestTypes, RoutesInvariant, RowInvariant,
                Fits, Busy
  <2>4. ManifestsInvariant' /\ WorkInvariant' /\ ApprovedInvariant'
    BY <2>1, <2>2 DEF FulfilmentInvariant, ManifestsInvariant, WorkInvariant, ApprovedInvariant,
                      Sound
  <2> QED BY <2>3, <2>4 DEF FulfilmentInvariant
<1> QED BY <1>1, <1>2 DEF FulfilmentNext

LEMMA FulfilmentBegins == FulfilmentInit => FulfilmentInvariant
<1> SUFFICES ASSUME FulfilmentInit PROVE FulfilmentInvariant
  OBVIOUS
<1>1. /\ row \in {Row(status) : status \in InitialStatuses} /\ intended = row /\ raced = FALSE
      /\ pc = [h \in Handlers |-> "idle"] /\ call = [h \in Handlers |-> NoCall]
      /\ manifests = [m \in Manifests |-> NoRow] /\ stored = {} /\ clock = 0 /\ tokens = 0
      /\ work = [h \in Handlers |-> NoWork] /\ uploaded = {} /\ overlapped = FALSE
  BY DEF FulfilmentInit, RecordInit
<1>2. row \in Rows
  BY <1>1, RecordAssumption DEF Row, Rows
<1>3. RecordTypes
  BY <1>1, <1>2, NoCallIsACall DEF RecordTypes, RecordLabels
<1>4. NoRow \in ManifestRows /\ NoRow.at = 0 /\ NoRow.entries = {} /\ NoRow.gate.status = "none"
  BY DEF NoRow, NoGate, ManifestRows, Gates
<1>5. ManifestTypes /\ Existing = {}
  BY <1>1, <1>4, NoWorkIsWork DEF ManifestTypes, Existing
<1>6. NoCall.route = "none" /\ NoCall.action = "none"
  BY DEF NoCall
<1>7. RoutesInvariant
  BY <1>1, <1>6 DEF RoutesInvariant, Fits, OwnLabels
<1>8. RowInvariant /\ ManifestsInvariant /\ ApprovedInvariant
  BY <1>1, <1>4, <1>5, <1>6 DEF RowInvariant, Busy, ManifestsInvariant, ApprovedInvariant
<1>9. WorkInvariant
  BY <1>1 DEF WorkInvariant, Sound, NoWork
<1> QED BY <1>3, <1>5, <1>7, <1>8, <1>9 DEF FulfilmentInvariant

(* What the rows, the manifests and the calls under way are, at any time.  *)
THEOREM FulfilmentInvariantHolds == FulfilmentSpec => []FulfilmentInvariant
BY FulfilmentBegins, FulfilmentNextKeeps, PTL DEF FulfilmentSpec
-----------------------------------------------------------------------------
(* Every status, appeal and requestor written is in the row as the last    *)
(* call meant it, as long as no call goes on with a row that another has   *)
(* changed under it: requests.update of every route, crashes included.     *)
THEOREM UpdatesSurviveHolds == FulfilmentSpec => []UpdatesSurvive
<1>1. FulfilmentInvariant => UpdatesSurvive
  BY DEF FulfilmentInvariant, RowInvariant, UpdatesSurvive
<1> QED BY <1>1, FulfilmentInvariantHolds, PTL

(* What a manifest lists is stored, and what was uploaded stays listed     *)
(* unless two writes to one manifest overlapped.                           *)
THEOREM UploadsKeptHolds == FulfilmentSpec => []UploadsKept
<1>1. FulfilmentInvariant => UploadsKept
  <2> SUFFICES ASSUME FulfilmentInvariant PROVE UploadsKept
    OBVIOUS
  <2>1. ManifestsInvariant /\ overlapped \in BOOLEAN
    BY DEF FulfilmentInvariant, ManifestTypes
  <2>2. UNION {manifests[m].entries : m \in Existing} \subseteq stored
    BY <2>1 DEF ManifestsInvariant, Existing
  <2>3. ~overlapped => uploaded \subseteq UNION {manifests[m].entries : m \in Existing}
    BY <2>1 DEF ManifestsInvariant
  <2> QED BY <2>1, <2>2, <2>3 DEF UploadsKept
<1> QED BY <1>1, FulfilmentInvariantHolds, PTL

(* The gate of the newest manifest is open only by a token submitted       *)
(* before it expired: /delivery/step-up/complete beside everything else.   *)
THEOREM OpensOnlyProvenHolds == FulfilmentSpec => []OpensOnlyProven
<1>1. FulfilmentInvariant => OpensOnlyProven
  <2> SUFFICES ASSUME FulfilmentInvariant, NewestRow.gate.status = "completed"
               PROVE  NewestRow.gate.token \in proven
    BY DEF OpensOnlyProven
  <2>1. ManifestTypes /\ ManifestsInvariant
    BY DEF FulfilmentInvariant
  <2>2. Newest # NoManifest
    BY DEF NewestRow, NoRow, NoGate
  <2>3. NewestRow = manifests[Newest] /\ Newest \in Manifests
    BY <2>1, <2>2, NewestExists DEF Existing
  <2> QED BY <2>1, <2>3 DEF ManifestsInvariant
<1> QED BY <1>1, FulfilmentInvariantHolds, PTL

(* The fulfil route writes its status without a manifest or with the       *)
(* newest one approved, unless the manifests have changed since it looked. *)
THEOREM FulfilledWasApprovedHolds == FulfilmentSpec => FulfilledWasApproved
<1>1. FulfilmentInvariant =>
        [\A h \in Handlers :
           Fulfils(h) => \/ Newest = NoManifest \/ NewestRow.review = "approved"
                        \/ work[h].stale]_fulfilmentVars
  <2> SUFFICES ASSUME FulfilmentInvariant, NEW h \in Handlers, Fulfils(h)
               PROVE  Newest = NoManifest \/ NewestRow.review = "approved" \/ work[h].stale
    OBVIOUS
  <2>1. call[h].route = "fulfil"
    BY DEF FulfilmentInvariant, RoutesInvariant, Fits, Fulfils
  <2> QED BY <2>1 DEF FulfilmentInvariant, ApprovedInvariant
<1> QED BY <1>1, FulfilmentInvariantHolds, PTL DEF FulfilledWasApproved

-----------------------------------------------------------------------------
(* Beside the rows: evidence, objects, and the view of a subject.          *)

Verdicts  == [documents : Documents \cup {NoDocument},
              status : {"none", "pending", "verified", "rejected"}]
ExamTypes == [kind : {"none", "submit", "approve", "reject", "other", "attach", "upload"},
              at : {"idle", "fetch", "write", "put", "create", "timeline", "audit"},
              id : Nat, next : Verdicts]

(* A verdict is over documents somebody has read.                          *)
Stands(v) == v.status \in {"verified", "rejected"} => v.documents \in examined

(* What a call is about to write is examined; the bytes are stored before  *)
(* the row is, and the event is in the timeline before the audit entry.    *)
EvidenceInvariant ==
  /\ authority \in Verdicts /\ exam \in [Examiners -> ExamTypes] /\ examCalls \in Nat
  /\ Stands(authority) /\ UploadsAreBacked
  /\ \A x \in Examiners :
       /\ Stands(exam[x].next)
       /\ exam[x].kind = "upload" /\ exam[x].at = "create" => exam[x].id \in files
       /\ exam[x].at = "audit" => exam[x].id \in noted

LEMMA NoExamIsAnExam ==
  /\ NoExam \in ExamTypes /\ NoExam.next \in Verdicts /\ NoExam.next.status = "none"
  /\ NoExam.at = "idle" /\ NoExam.kind = "none"
<1>1. NoExam.next \in Verdicts /\ NoExam.next.status = "none"
  BY DEF NoExam, Verdicts
<1> QED BY <1>1 DEF NoExam, ExamTypes

(* A call that begins or goes on: what it has to show.                     *)
LEMMA ExamKeeps ==
  ASSUME EvidenceInvariant, NEW x \in Examiners, NEW e \in ExamTypes,
         exam' = [exam EXCEPT ![x] = e], authority' \in Verdicts, examCalls' \in Nat,
         examined \subseteq examined', files \subseteq files', noted \subseteq noted',
         Stands(authority)', UploadsAreBacked',
         e.next.status \in {"verified", "rejected"} => e.next.documents \in examined',
         e.kind = "upload" /\ e.at = "create" => e.id \in files',
         e.at = "audit" => e.id \in noted'
  PROVE  EvidenceInvariant'
<1>1. /\ exam' \in [Examiners -> ExamTypes]
      /\ \A y \in Examiners : exam'[y] = IF y = x THEN e ELSE exam[y]
  BY DEF EvidenceInvariant
<1>2. ASSUME NEW y \in Examiners
      PROVE  /\ Stands(exam[y].next)'
             /\ exam'[y].kind = "upload" /\ exam'[y].at = "create" => exam'[y].id \in files'
             /\ exam'[y].at = "audit" => exam'[y].id \in noted'
  BY <1>1 DEF EvidenceInvariant, Stands
<1> QED BY <1>1, <1>2 DEF EvidenceInvariant

LEMMA BeginExamKeeps ==
  ASSUME EvidenceInvariant, NEW x \in Examiners, NEW kind \in {"submit", "approve", "reject", "other", "attach", "upload"},
         NEW label \in {"fetch", "create", "put"}, NEW next \in Verdicts,
         BeginExam(x, kind, label, next), kind = "upload" => label = "put",
         examined \subseteq examined',
         next.status \in {"verified", "rejected"} => next.documents \in examined'
  PROVE  EvidenceInvariant'
<1> DEFINE e == [kind |-> kind, at |-> label, id |-> examCalls + 1, next |-> next]
<1>1. /\ exam' = [exam EXCEPT ![x] = e] /\ examCalls' = examCalls + 1
      /\ authority' = authority /\ files' = files /\ evidence' = evidence
      /\ noted' = noted /\ audited' = audited
  BY DEF BeginExam
<1>2. e \in ExamTypes /\ examCalls' \in Nat
  BY <1>1 DEF EvidenceInvariant, ExamTypes
<1>3. Stands(authority)' /\ UploadsAreBacked'
  BY <1>1 DEF EvidenceInvariant, Stands, UploadsAreBacked
<1>4. e.next = next /\ e.kind = kind /\ e.at = label /\ authority' \in Verdicts
  BY <1>1 DEF EvidenceInvariant
<1> HIDE DEF e
<1> QED BY <1>1, <1>2, <1>3, <1>4, ExamKeeps

LEMMA EvidenceNextKeeps ==
  ASSUME EvidenceInvariant, NEW x \in Examiners,
         \/ SubmitAuthority(x) \/ ApproveAuthority(x) \/ RejectAuthority(x) \/ UpdateOther(x)
         \/ FetchAuthority(x) \/ WriteAuthority(x)
         \/ AttachEvidence(x) \/ UploadEvidence(x) \/ PutEvidence(x) \/ CreateEvidence(x)
         \/ NoteEvidence(x) \/ AuditEvidence(x) \/ ExamFails(x)
  PROVE  EvidenceInvariant'
<1> USE NoExamIsAnExam
<1>1. /\ authority \in Verdicts /\ Stands(authority) /\ exam[x] \in ExamTypes
      /\ exam \in [Examiners -> ExamTypes] /\ examCalls \in Nat /\ UploadsAreBacked
      /\ Stands(exam[x].next)
      /\ exam[x].kind = "upload" /\ exam[x].at = "create" => exam[x].id \in files
      /\ exam[x].at = "audit" => exam[x].id \in noted
  BY DEF EvidenceInvariant
<1>2. CASE SubmitAuthority(x)
  <2>1. PICK d \in Documents :
          BeginExam(x, "submit", "fetch", [authority EXCEPT !.documents = d, !.status = "pending"])
    BY <1>2 DEF SubmitAuthority
  <2> DEFINE next == [authority EXCEPT !.documents = d, !.status = "pending"]
  <2>2. next \in Verdicts /\ next.status = "pending" /\ examined' = examined
    BY <1>1, <1>2 DEF Verdicts, SubmitAuthority
  <2>3. BeginExam(x, "submit", "fetch", next)
    BY <2>1
  <2> HIDE DEF next
  <2> QED BY <2>2, <2>3, BeginExamKeeps
<1>3. CASE ApproveAuthority(x) \/ RejectAuthority(x)
  <2>1. PICK kind \in {"approve", "reject"}, status \in {"verified", "rejected"} :
          BeginExam(x, kind, "fetch", [authority EXCEPT !.status = status])
    BY <1>3 DEF ApproveAuthority, RejectAuthority
  <2> DEFINE next == [authority EXCEPT !.status = status]
  <2>2. /\ next \in Verdicts /\ next.documents = authority.documents
        /\ examined' = examined \cup {authority.documents}
    BY <1>1, <1>3 DEF Verdicts, ApproveAuthority, RejectAuthority
  <2>3. BeginExam(x, kind, "fetch", next)
    BY <2>1
  <2> HIDE DEF next
  <2> QED BY <2>2, <2>3, BeginExamKeeps
<1>4. CASE UpdateOther(x)
  BY <1>1, <1>4, BeginExamKeeps DEF UpdateOther, Stands
<1>5. CASE AttachEvidence(x) \/ UploadEvidence(x)
  BY <1>1, <1>5, BeginExamKeeps DEF AttachEvidence, UploadEvidence
<1>6. CASE FetchAuthority(x)
  <2> DEFINE e == [exam[x] EXCEPT !.at = "write",
                                  !.next = IF exam[x].kind = "other" THEN authority ELSE @]
  <2>1. /\ exam' = [exam EXCEPT ![x] = e] /\ authority' = authority /\ files' = files
        /\ evidence' = evidence /\ noted' = noted /\ audited' = audited
        /\ examCalls' = examCalls /\ examined' = examined
    BY <1>1, <1>6 DEF FetchAuthority
  <2>2. e \in ExamTypes /\ e.at = "write" /\ e.next \in {authority, exam[x].next}
    BY <1>1 DEF ExamTypes
  <2> HIDE DEF e
  <2>3. Stands(authority)' /\ UploadsAreBacked'
    BY <1>1, <2>1 DEF Stands, UploadsAreBacked
  <2>4. e.next.status \in {"verified", "rejected"} => e.next.documents \in examined'
    BY <1>1, <2>1, <2>2 DEF Stands
  <2> QED BY <1>1, <2>1, <2>2, <2>3, <2>4, ExamKeeps
<1>7. CASE WriteAuthority(x) \/ PutEvidence(x) \/ CreateEvidence(x) \/ NoteEvidence(x)
  <2>1. PICK label \in {"timeline", "create", "audit"} :
          /\ exam' = [exam EXCEPT ![x].at = label]
          /\ label = "create" <=> exam[x].at = "put"
          /\ label = "audit" <=> exam[x].at = "timeline"
    BY <1>7 DEF WriteAuthority, PutEvidence, CreateEvidence, NoteEvidence, ExamAt, ExamGoto
  <2> DEFINE e == [exam[x] EXCEPT !.at = label]
  <2>2. exam' = [exam EXCEPT ![x] = e]
    BY <1>1, <2>1
  <2>3. /\ e \in ExamTypes /\ e.at = label /\ e.next = exam[x].next /\ e.kind = exam[x].kind
        /\ e.id = exam[x].id
    BY <1>1 DEF ExamTypes
  <2> HIDE DEF e
  <2>4. /\ authority' \in {authority, exam[x].next} /\ exam[x].next \in Verdicts
        /\ examCalls' = examCalls /\ examined' = examined /\ files \subseteq files'
        /\ noted \subseteq noted' /\ audited' = audited
    BY <1>1, <1>7 DEF WriteAuthority, PutEvidence, CreateEvidence, NoteEvidence, ExamTypes
  <2>5. Stands(authority)'
    BY <1>1, <2>4 DEF Stands
  <2>6. UploadsAreBacked'
    <3>1. \A f \in evidence' : f \in evidence \/ (f.kind = "upload" => f.id \in files)
      BY <1>1, <1>7 DEF WriteAuthority, PutEvidence, CreateEvidence, NoteEvidence, ExamAt
    <3> QED BY <1>1, <2>4, <3>1 DEF UploadsAreBacked
  <2>7. /\ label = "create" => exam[x].id \in files'
        /\ label = "audit" => exam[x].id \in noted'
    BY <1>7, <2>1 DEF WriteAuthority, PutEvidence, CreateEvidence, NoteEvidence, ExamAt
  <2>8. e.next.status \in {"verified", "rejected"} => e.next.documents \in examined'
    BY <1>1, <2>3, <2>4 DEF Stands
  <2> QED BY <1>1, <2>2, <2>3, <2>4, <2>5, <2>6, <2>7, <2>8, ExamKeeps
<1>8. CASE AuditEvidence(x) \/ ExamFails(x)
  <2>1. /\ exam' = [exam EXCEPT ![x] = NoExam] /\ authority' = authority
        /\ examCalls' = examCalls /\ examined' = examined /\ files \subseteq files'
        /\ noted' = noted /\ evidence' = evidence /\ audited' \subseteq audited \cup noted
    BY <1>1, <1>8 DEF AuditEvidence, ExamFails, ExamAt
  <2>2. Stands(authority)' /\ UploadsAreBacked'
    BY <1>1, <2>1 DEF Stands, UploadsAreBacked
  <2>3. /\ authority' \in Verdicts /\ examCalls' \in Nat /\ examined \subseteq examined'
        /\ noted \subseteq noted'
    BY <1>1, <2>1
  <2> QED BY <2>1, <2>2, <2>3, ExamKeeps
<1> QED BY <1>2, <1>3, <1>4, <1>5, <1>6, <1>7, <1>8

(* What the examiners hold and the rows say of the evidence, at any time.  *)
THEOREM EvidenceInvariantHolds == EvidenceSpec => []EvidenceInvariant
<1>1. EvidenceInit => EvidenceInvariant
  BY NoExamIsAnExam
     DEF EvidenceInit, EvidenceInvariant, Verdicts, Stands, UploadsAreBacked
<1>2. ASSUME EvidenceInvariant, UNCHANGED evidenceVars PROVE EvidenceInvariant'
  BY <1>2 DEF EvidenceInvariant, evidenceVars, Stands, UploadsAreBacked
<1>3. EvidenceInvariant /\ [EvidenceNext]_evidenceVars => EvidenceInvariant'
  BY <1>2, EvidenceNextKeeps DEF EvidenceNext
<1> QED BY <1>1, <1>3, PTL DEF EvidenceSpec

(* A verdict on an agent's authority stands only over documents a verdict  *)
(* has read, an uploaded evidence row has its bytes, and an audited call   *)
(* is in the timeline: the authority and evidence routes, crashes included.*)
THEOREM EvidenceAlwaysStands == EvidenceSpec => []EvidenceStands
<1>1. EvidenceInvariant => EvidenceStands
  BY DEF EvidenceInvariant, EvidenceStands, VerdictsAreExamined, Stands
<1> QED BY <1>1, EvidenceInvariantHolds, PTL
-----------------------------------------------------------------------------
(* ArtifactFiles. A write that meets no other is the only one, and the     *)
(* object is not known to be whole until one has ended.                    *)

FileVersions == 0..MaxPuts
FileOps == [kind : {"none", "put", "delete", "get"},
            at : {"idle", "file", "bytes", "sidecar", "metadata", "reading"},
            version : FileVersions \cup {Unknown}, attempt : Nat,
            bytes : Nat, meta : Nat, calm : BOOLEAN]

FileTypes ==
  /\ file \in Nat /\ sidecar \in Nat /\ putCount \in Nat
  /\ content \in FileVersions \cup {Unknown}
  /\ fileOp \in [Clients -> FileOps]

(* A write that met no other: what it has done so far.                     *)
WriterIsSound(c) ==
  Writing(c) =>
    /\ content = Unknown /\ fileOp[c].version \in FileVersions
    /\ fileOp[c].kind = "delete" => fileOp[c].version = Missing
    /\ fileOp[c].calm =>
         /\ \A d \in Clients : d # c => ~Writing(d)
         /\ fileOp[c].at \in {"sidecar", "metadata"} => file = fileOp[c].version

(* A read that no write has overlapped: what it has got so far.            *)
ReaderIsSound(c) ==
  fileOp[c].kind = "get" /\ fileOp[c].calm =>
    /\ \A d \in Clients : ~Writing(d)
    /\ fileOp[c].version = content
    /\ content # Unknown =>
         fileOp[c].bytes \in {Unknown, content} /\ fileOp[c].meta \in {Unknown, content}

FilesInvariant ==
  /\ FileTypes /\ (content # Unknown => file = content /\ sidecar = content)
  /\ \A c \in Clients : WriterIsSound(c) /\ ReaderIsSound(c)

LEMMA NoFileOpIsAnOp ==
  /\ NoFileOp \in FileOps /\ NoFileOp.kind = "none" /\ NoFileOp.calm
  /\ NoFileOp.bytes = Unknown /\ NoFileOp.meta = Unknown
  /\ Torn \in Nat /\ Unknown \in Nat /\ FileVersions \subseteq Nat /\ Missing \in FileVersions
  /\ Torn \notin FileVersions /\ Unknown \notin FileVersions
<1>1. /\ Torn \in Nat /\ Unknown \in Nat /\ FileVersions \subseteq Nat /\ Missing \in FileVersions
      /\ Torn \notin FileVersions /\ Unknown \notin FileVersions
  BY FilesAssumption DEF Torn, Unknown, FileVersions, Missing
<1> QED BY <1>1 DEF NoFileOp, FileOps

(* One call goes on or ends, and nothing becomes whole by that.            *)
LEMMA FileOpKeeps ==
  ASSUME FilesInvariant, NEW c \in Clients, NEW op \in FileOps,
         fileOp' = [fileOp EXCEPT ![c] = op], content' = content, putCount' = putCount,
         file' \in Nat, sidecar' \in Nat, Writing(c) \/ (file' = file /\ sidecar' = sidecar),
         op.kind \in {"put", "delete"} => Writing(c),
         op.kind \in {"put", "delete"} =>
           /\ op.version = fileOp[c].version /\ op.kind = fileOp[c].kind
           /\ op.calm => /\ fileOp[c].calm
                         /\ op.at \in {"sidecar", "metadata"} => file' = op.version,
         op.kind = "get" /\ op.calm =>
           /\ \A d \in Clients : ~Writing(d)
           /\ op.version = content
           /\ content # Unknown => op.bytes \in {Unknown, content} /\ op.meta \in {Unknown, content}
  PROVE  FilesInvariant'
<1>1. FileTypes /\ fileOp[c] \in FileOps
  BY DEF FilesInvariant, FileTypes
<1>2. \A d \in Clients : fileOp'[d] = IF d = c THEN op ELSE fileOp[d]
  BY <1>1 DEF FileTypes
<1>3. FileTypes'
  BY <1>1 DEF FileTypes
<1>4. \A d \in Clients : Writing(d)' => Writing(d)
  BY <1>2 DEF Writing
<1>5. content' # Unknown => file' = content' /\ sidecar' = content'
  BY DEF FilesInvariant, WriterIsSound
<1>6. ASSUME NEW d \in Clients, d = c PROVE WriterIsSound(d)' /\ ReaderIsSound(d)'
  <2>1. fileOp'[d] = op /\ WriterIsSound(d)
    BY <1>2, <1>6 DEF FilesInvariant
  <2>2. WriterIsSound(d)'
    BY <1>4, <1>6, <2>1 DEF WriterIsSound, Writing
  <2>3. ReaderIsSound(d)'
    BY <1>4, <1>6, <2>1 DEF ReaderIsSound
  <2> QED BY <2>2, <2>3
<1>7. ASSUME NEW d \in Clients, d # c PROVE WriterIsSound(d)' /\ ReaderIsSound(d)'
  <2>1. fileOp'[d] = fileOp[d] /\ WriterIsSound(d) /\ ReaderIsSound(d)
    BY <1>2, <1>7 DEF FilesInvariant
  <2>2. WriterIsSound(d)'
    BY <1>4, <1>7, <2>1 DEF WriterIsSound, Writing
  <2>3. ReaderIsSound(d)'
    BY <1>4, <2>1 DEF ReaderIsSound
  <2> QED BY <2>2, <2>3
<1> QED BY <1>3, <1>5, <1>6, <1>7 DEF FilesInvariant

(* A write begins: every call under way has met it.                        *)
LEMMA BeginWriteKeeps ==
  ASSUME FilesInvariant, NEW c \in Clients, NEW kind \in {"put", "delete"},
         NEW version \in FileVersions, kind = "delete" => version = Missing,
         BeginWrite(c, kind, version), putCount' \in Nat
  PROVE  FilesInvariant'
<1> USE NoFileOpIsAnOp
<1> DEFINE op == [NoFileOp EXCEPT !.kind = kind, !.at = "file", !.version = version,
                                  !.calm = \A e \in Clients : ~Writing(e)]
           met(d) == [fileOp[d] EXCEPT !.calm = FALSE]
<1>1. /\ fileOp' = [d \in Clients |->
                      IF d = c THEN op
                      ELSE IF fileOp[d] = NoFileOp THEN NoFileOp ELSE met(d)]
      /\ content' = Unknown /\ file' = file /\ sidecar' = sidecar /\ fileOp[c] = NoFileOp
  BY DEF BeginWrite
<1>2. /\ FileTypes /\ \A d \in Clients : fileOp[d] \in FileOps
  BY DEF FilesInvariant, FileTypes
<1>3. /\ op \in FileOps /\ op.kind = kind /\ op.at = "file" /\ op.version = version
      /\ op.calm = \A e \in Clients : ~Writing(e)
  <2> DEFINE alone == \A e \in Clients : ~Writing(e)
  <2>1. alone \in BOOLEAN
    OBVIOUS
  <2> HIDE DEF alone
  <2>2. /\ [NoFileOp EXCEPT !.kind = kind, !.at = "file", !.version = version,
                            !.calm = alone] \in FileOps
    BY <2>1 DEF FileOps
  <2>3. op = [NoFileOp EXCEPT !.kind = kind, !.at = "file", !.version = version, !.calm = alone]
    BY DEF alone
  <2>4. op.kind = kind /\ op.at = "file" /\ op.version = version /\ op.calm = alone
    BY <2>3 DEF NoFileOp
  <2> QED BY <2>2, <2>3, <2>4 DEF alone
<1>4. \A d \in Clients : /\ met(d) \in FileOps /\ ~met(d).calm /\ met(d).kind = fileOp[d].kind
                         /\ met(d).version = fileOp[d].version
  BY <1>2 DEF FileOps
<1> HIDE DEF op, met
<1>5. \A d \in Clients :
        fileOp'[d] = IF d = c THEN op
                     ELSE IF fileOp[d] = NoFileOp THEN NoFileOp ELSE met(d)
  BY <1>1
<1>6. fileOp' \in [Clients -> FileOps]
  BY <1>1, <1>3, <1>4
<1>7. FileTypes'
  BY <1>1, <1>2, <1>6 DEF FileTypes
<1>8. ASSUME NEW d \in Clients PROVE WriterIsSound(d)' /\ ReaderIsSound(d)'
  <2>1. CASE d = c
    <3>1. op.calm => \A e \in Clients : e # c => ~Writing(e)'
      BY <1>3, <1>4, <1>5 DEF Writing
    <3> QED BY <1>1, <1>3, <1>5, <2>1, <3>1 DEF WriterIsSound, ReaderIsSound
  <2>2. CASE d # c /\ fileOp[d] = NoFileOp
    BY <1>5, <2>2 DEF WriterIsSound, ReaderIsSound, Writing
  <2>3. CASE d # c /\ fileOp[d] # NoFileOp
    <3>1. fileOp'[d] = met(d) /\ WriterIsSound(d)
      BY <1>5, <2>3 DEF FilesInvariant
    <3> QED BY <1>1, <1>4, <3>1 DEF WriterIsSound, ReaderIsSound, Writing
  <2> QED BY <2>1, <2>2, <2>3
<1> QED BY <1>1, <1>7, <1>8 DEF FilesInvariant

(* A write ends: if it met no other, the object is of its version.         *)
LEMMA EndWriteKeeps ==
  ASSUME FilesInvariant, NEW c \in Clients, EndWrite(c), Writing(c), putCount' = putCount,
         file' = file, sidecar' = fileOp[c].version, fileOp[c].at \in {"sidecar", "metadata"}
  PROVE  FilesInvariant'
<1> USE NoFileOpIsAnOp
<1>1. /\ FileTypes /\ WriterIsSound(c) /\ fileOp[c] \in FileOps
      /\ fileOp' = [fileOp EXCEPT ![c] = NoFileOp]
      /\ content' = IF fileOp[c].calm THEN fileOp[c].version ELSE content
  BY DEF FilesInvariant, FileTypes, EndWrite
<1>2. /\ fileOp[c].version \in FileVersions /\ content = Unknown
      /\ fileOp[c].calm => file = fileOp[c].version /\ \A d \in Clients : d # c => ~Writing(d)
  BY <1>1 DEF WriterIsSound
<1>3. \A d \in Clients : fileOp'[d] = IF d = c THEN NoFileOp ELSE fileOp[d]
  BY <1>1 DEF FileTypes
<1>4. FileTypes' /\ (content' # Unknown => file' = content' /\ sidecar' = content')
  BY <1>1, <1>2 DEF FileTypes
<1>5. ASSUME NEW d \in Clients PROVE WriterIsSound(d)' /\ ReaderIsSound(d)'
  <2>1. CASE d = c
    BY <1>3, <2>1 DEF WriterIsSound, ReaderIsSound, Writing
  <2>2. CASE d # c
    <3>1. fileOp'[d] = fileOp[d] /\ WriterIsSound(d) /\ ReaderIsSound(d)
      BY <1>3, <2>2 DEF FilesInvariant
    <3>2. ReaderIsSound(d)'
      BY <3>1 DEF ReaderIsSound
    <3>3. \A e \in Clients : Writing(e)' => Writing(e)
      BY <1>3 DEF Writing
    <3>4. Writing(d)' => ~fileOp[d].calm /\ ~fileOp[c].calm
      BY <1>2, <2>2, <3>1, <3>3 DEF WriterIsSound
    <3>5. WriterIsSound(d)'
      BY <1>1, <3>1, <3>3, <3>4 DEF WriterIsSound, Writing
    <3> QED BY <3>2, <3>5
  <2> QED BY <2>1, <2>2
<1> QED BY <1>4, <1>5 DEF FilesInvariant

LEMMA FilesNextKeeps ==
  ASSUME FilesInvariant, NEW c \in Clients,
         \/ BeginPut(c) \/ OpenFile(c) \/ WriteBytes(c) \/ OpenSidecar(c) \/ WriteMetadata(c)
         \/ BeginDelete(c) \/ UnlinkFile(c) \/ UnlinkSidecar(c)
         \/ BeginGet(c) \/ ReadBytes(c) \/ ReadSidecar(c) \/ Returned(c) \/ FileFault(c)
  PROVE  FilesInvariant'
<1> USE NoFileOpIsAnOp
<1>1. /\ FileTypes /\ fileOp[c] \in FileOps /\ file \in Nat /\ sidecar \in Nat
      /\ fileOp \in [Clients -> FileOps] /\ putCount \in Nat
      /\ WriterIsSound(c) /\ ReaderIsSound(c)
      /\ content # Unknown => file = content /\ sidecar = content
      /\ content \in FileVersions \cup {Unknown}
  BY DEF FilesInvariant, FileTypes
<1>2. CASE BeginPut(c) \/ BeginDelete(c)
  <2>1. CASE BeginPut(c)
    <3>1. putCount + 1 \in FileVersions /\ putCount' \in Nat
      BY <1>1, <2>1, FilesAssumption DEF BeginPut, FileVersions
    <3> QED BY <2>1, <3>1, BeginWriteKeeps DEF BeginPut
  <2>2. CASE BeginDelete(c)
    BY <1>1, <2>2, BeginWriteKeeps DEF BeginDelete
  <2> QED BY <1>2, <2>1, <2>2
<1>3. CASE WriteMetadata(c) \/ UnlinkSidecar(c)
  <2>1. Writing(c) /\ EndWrite(c) /\ putCount' = putCount /\ file' = file
    BY <1>3 DEF WriteMetadata, UnlinkSidecar, Step, Writing
  <2>2. sidecar' = fileOp[c].version /\ fileOp[c].at \in {"sidecar", "metadata"}
    BY <1>1, <1>3, <2>1 DEF WriteMetadata, UnlinkSidecar, Step, WriterIsSound
  <2> QED BY <2>1, <2>2, EndWriteKeeps
<1>4. CASE OpenFile(c) \/ WriteBytes(c) \/ OpenSidecar(c) \/ UnlinkFile(c)
  <2>1. PICK label \in {"bytes", "sidecar", "metadata"} :
          /\ fileOp' = [fileOp EXCEPT ![c].at = label]
          /\ \/ label = "bytes"
             \/ label \in {"sidecar", "metadata"} /\ fileOp[c].at \in {"sidecar", "metadata"}
                  /\ file' = file
             \/ label \in {"sidecar", "metadata"} /\ file' = fileOp[c].version
    BY <1>1, <1>4
       DEF OpenFile, WriteBytes, OpenSidecar, UnlinkFile, Step, FileGoto, Writing, WriterIsSound
  <2> DEFINE op == [fileOp[c] EXCEPT !.at = label]
  <2>2. fileOp' = [fileOp EXCEPT ![c] = op]
    BY <2>1
  <2>3. /\ op \in FileOps /\ op.at = label /\ op.kind = fileOp[c].kind
        /\ op.version = fileOp[c].version /\ op.calm = fileOp[c].calm
    BY <1>1 DEF FileOps
  <2> HIDE DEF op
  <2>4. /\ Writing(c) /\ content' = content /\ putCount' = putCount
        /\ op.kind # "get"
    BY <1>4, <2>3 DEF OpenFile, WriteBytes, OpenSidecar, UnlinkFile, Step, Writing
  <2>5. fileOp[c].version \in FileVersions
    BY <1>1, <2>4 DEF WriterIsSound
  <2>6. file' \in Nat /\ sidecar' \in Nat
    BY <1>1, <1>4, <2>5 DEF OpenFile, WriteBytes, OpenSidecar, UnlinkFile
  <2>7. op.calm /\ op.at \in {"sidecar", "metadata"} => file' = op.version
    BY <1>1, <2>1, <2>3, <2>4 DEF WriterIsSound
  <2> QED BY <2>2, <2>3, <2>4, <2>6, <2>7, FileOpKeeps
<1>5. CASE BeginGet(c)
  <2> DEFINE alone == \A d \in Clients : ~Writing(d)
             op == [NoFileOp EXCEPT !.kind = "get", !.at = "reading", !.version = content,
                                    !.calm = alone]
  <2>1. /\ fileOp' = [fileOp EXCEPT ![c] = op] /\ file' = file /\ sidecar' = sidecar
        /\ content' = content /\ putCount' = putCount
    BY <1>5 DEF BeginGet
  <2>2. alone \in BOOLEAN
    OBVIOUS
  <2> HIDE DEF alone
  <2>3. op \in FileOps
    BY <1>1, <2>2 DEF FileOps
  <2>4. /\ op.kind = "get" /\ op.version = content /\ op.calm = alone
        /\ op.bytes = Unknown /\ op.meta = Unknown
    BY DEF NoFileOp
  <2> HIDE DEF op
  <2>5. op.calm => \A d \in Clients : ~Writing(d)
    BY <2>4 DEF alone
  <2> QED BY <1>1, <2>1, <2>3, <2>4, <2>5, FileOpKeeps
<1>6. CASE ReadBytes(c) \/ ReadSidecar(c)
  <2>1. /\ fileOp[c].kind = "get" /\ file' = file /\ sidecar' = sidecar
        /\ content' = content /\ putCount' = putCount
    BY <1>6 DEF ReadBytes, ReadSidecar, Step
  <2>2. PICK bytes \in Nat, meta \in Nat :
          /\ fileOp' = [fileOp EXCEPT ![c] = [fileOp[c] EXCEPT !.bytes = bytes, !.meta = meta]]
          /\ bytes \in {fileOp[c].bytes, file}
          /\ meta = fileOp[c].meta \/ meta = IF sidecar = Torn THEN Missing ELSE sidecar
    <3>1. fileOp[c].bytes \in Nat /\ fileOp[c].meta \in Nat /\ Missing \in Nat
      BY <1>1 DEF FileOps, Missing
    <3>2. CASE ReadBytes(c)
      <4>1. [fileOp[c] EXCEPT !.bytes = file] =
              [fileOp[c] EXCEPT !.bytes = file, !.meta = fileOp[c].meta]
        BY <1>1 DEF FileOps
      <4>2. fileOp' = [fileOp EXCEPT ![c] = [fileOp[c] EXCEPT !.bytes = file]]
        BY <3>2 DEF ReadBytes
      <4> QED BY <1>1, <3>1, <4>1, <4>2
    <3>3. CASE ReadSidecar(c)
      <4> DEFINE meta == IF sidecar = Torn THEN Missing ELSE sidecar
      <4>1. fileOp' = [fileOp EXCEPT ![c] = [fileOp[c] EXCEPT !.meta = meta]]
        BY <3>3 DEF ReadSidecar
      <4>2. meta \in Nat /\ meta = IF sidecar = Torn THEN Missing ELSE sidecar
        BY <1>1, <3>1
      <4> HIDE DEF meta
      <4>3. [fileOp[c] EXCEPT !.meta = meta] =
              [fileOp[c] EXCEPT !.bytes = fileOp[c].bytes, !.meta = meta]
        BY <1>1 DEF FileOps
      <4> QED BY <1>1, <3>1, <4>1, <4>2, <4>3
    <3> QED BY <1>6, <3>2, <3>3
  <2> DEFINE op == [fileOp[c] EXCEPT !.bytes = bytes, !.meta = meta]
  <2>3. /\ op \in FileOps /\ op.kind = "get" /\ op.version = fileOp[c].version
        /\ op.calm = fileOp[c].calm /\ op.bytes = bytes /\ op.meta = meta
    BY <1>1, <2>1 DEF FileOps
  <2>4. fileOp' = [fileOp EXCEPT ![c] = op]
    BY <2>2
  <2> HIDE DEF op
  <2>5. op.calm =>
          /\ \A d \in Clients : ~Writing(d)
          /\ op.version = content
          /\ content # Unknown => op.bytes \in {Unknown, content} /\ op.meta \in {Unknown, content}
    <3> SUFFICES ASSUME op.calm
                 PROVE  /\ \A d \in Clients : ~Writing(d)
                        /\ op.version = content
                        /\ content # Unknown => /\ op.bytes \in {Unknown, content}
                                                /\ op.meta \in {Unknown, content}
      OBVIOUS
    <3>1. /\ \A d \in Clients : ~Writing(d)
          /\ fileOp[c].version = content
          /\ content # Unknown => /\ fileOp[c].bytes \in {Unknown, content}
                                  /\ fileOp[c].meta \in {Unknown, content}
      BY <1>1, <2>1, <2>3 DEF ReaderIsSound
    <3>2. content # Unknown => file = content /\ sidecar = content /\ sidecar # Torn
      BY <1>1
    <3> QED BY <2>2, <2>3, <3>1, <3>2
  <2> QED BY <1>1, <2>1, <2>3, <2>4, <2>5, FileOpKeeps
<1>7. CASE Returned(c) \/ FileFault(c)
  <2>1. /\ file' = file /\ sidecar' = sidecar /\ content' = content /\ putCount' = putCount
    BY <1>7 DEF Returned, FileFault
  <2>2. CASE fileOp' = [fileOp EXCEPT ![c] = NoFileOp]
    BY <1>1, <2>1, <2>2, FileOpKeeps
  <2>3. CASE fileOp' # [fileOp EXCEPT ![c] = NoFileOp]
    <3> DEFINE label == IF Writing(c) THEN "file" ELSE "reading"
               op == [fileOp[c] EXCEPT !.attempt = fileOp[c].attempt + 1, !.bytes = Unknown,
                                       !.meta = Unknown, !.at = label]
    <3>1. fileOp' = [fileOp EXCEPT ![c] = op]
      BY <1>7, <2>3 DEF Returned, FileFault
    <3>2. label \in {"file", "reading"} /\ fileOp[c].attempt + 1 \in Nat
      BY <1>1 DEF FileOps
    <3> HIDE DEF label
    <3>3. op \in FileOps
      BY <1>1, <3>2 DEF FileOps
    <3>4. /\ op.kind = fileOp[c].kind /\ op.version = fileOp[c].version /\ op.at = label
          /\ op.calm = fileOp[c].calm /\ op.bytes = Unknown /\ op.meta = Unknown
      BY <1>1 DEF FileOps
    <3> HIDE DEF op
    <3>5. op.at \notin {"sidecar", "metadata"} /\ (op.kind \in {"put", "delete"} => Writing(c))
      BY <3>2, <3>4 DEF Writing
    <3>6. op.kind = "get" /\ op.calm =>
            (\A d \in Clients : ~Writing(d)) /\ op.version = content
      BY <1>1, <3>4 DEF ReaderIsSound
    <3> QED BY <1>1, <2>1, <3>1, <3>3, <3>4, <3>5, <3>6, FileOpKeeps
  <2> QED BY <2>2, <2>3
<1> QED BY <1>2, <1>3, <1>4, <1>5, <1>6, <1>7

(* What a client has done to the file and its sidecar at each attempt.     *)
THEOREM FilesInvariantHolds == FilesSpec => []FilesInvariant
<1>1. FilesInit => FilesInvariant
  <2> SUFFICES ASSUME FilesInit PROVE FilesInvariant
    OBVIOUS
  <2>1. FileTypes
    BY NoFileOpIsAnOp DEF FilesInit, FileTypes
  <2>2. \A c \in Clients : fileOp[c].kind = "none"
    BY NoFileOpIsAnOp DEF FilesInit
  <2> QED BY <2>1, <2>2 DEF FilesInit, FilesInvariant, WriterIsSound, ReaderIsSound, Writing
<1>2. ASSUME FilesInvariant, UNCHANGED fileVars PROVE FilesInvariant'
  BY <1>2 DEF FilesInvariant, FileTypes, fileVars, WriterIsSound, ReaderIsSound, Writing
<1>3. FilesInvariant /\ [FilesNext]_fileVars => FilesInvariant'
  BY <1>2, FilesNextKeeps DEF FilesNext
<1> QED BY <1>1, <1>3, PTL DEF FilesSpec

(* After a write that met no other the file and its sidecar are of its     *)
(* version, and a read no write overlaps returns the two of one version:   *)
(* putObject, deleteObject and getObject with any number of attempts.      *)
THEOREM ObjectsAreAlwaysWhole == FilesSpec => []ObjectsAreWhole
<1>1. FilesInvariant => ObjectsAreWhole
  <2> SUFFICES ASSUME FilesInvariant, NEW c \in Clients, Read(c), fileOp[c].calm,
                      fileOp[c].version # Unknown
               PROVE  fileOp[c].bytes = fileOp[c].version /\ fileOp[c].meta = fileOp[c].version
    BY DEF FilesInvariant, ObjectsAreWhole
  <2> QED BY DEF FilesInvariant, ReaderIsSound, Read, Step
<1> QED BY <1>1, FilesInvariantHolds, PTL
-----------------------------------------------------------------------------
(* BlobStorage. Without overwriting, what the store has once it has for    *)
(* good; with it, what it has is settled while no write is under way and   *)
(* nothing else is adrift.                                                 *)

BlobVersions == 0..MaxBlobPuts
BlobOps == [kind : {"none", "put", "delete", "get"}, at : {"idle", "ask", "head", "fetch"},
            version : BlobVersions, attempt : Nat, calm : BOOLEAN]

Once == ~overwrite /\ ~deleting

StoreInvariant ==
  /\ overwrite \in BOOLEAN /\ deleting \in BOOLEAN /\ blobPuts \in Nat
  /\ blob \in BlobVersions /\ urlServes \subseteq BlobVersions /\ told \subseteq BlobVersions
  /\ adrift \subseteq doubted /\ doubted \subseteq BlobVersions
  /\ settledOn \in BlobVersions \cup {InDoubt}
  /\ blob \in told \cup doubted \cup {NoBlob}
  /\ settledOn # InDoubt => blob = settledOn /\ adrift \subseteq {settledOn}
  /\ Once => /\ urlServes \subseteq {blob} \ {NoBlob} /\ told \subseteq {blob} \ {NoBlob}
             /\ NoBlob \notin adrift /\ read.meta = read.bytes

(* A write that met no other is the only one; who fetches has the version  *)
(* the store has.                                                          *)
CallerIsSound(c) ==
  /\ Overwriting(c) =>
       /\ settledOn = InDoubt
       /\ blobOp[c].calm => \A d \in BlobCallers : d # c => ~Overwriting(d)
       /\ blobOp[c].version = NoBlob => deleting
  /\ Reading(c, "fetch") /\ Once => blobOp[c].version = blob /\ blob # NoBlob

BlobInvariant ==
  /\ StoreInvariant /\ blobOp \in [BlobCallers -> BlobOps]
  /\ \A c \in BlobCallers : CallerIsSound(c)

LEMMA NoBlobOpIsAnOp ==
  /\ NoBlobOp \in BlobOps /\ NoBlobOp.kind = "none" /\ NoBlobOp.calm
  /\ NoBlobOp.version = NoBlob /\ NoBlobOp.attempt = 1
  /\ NoBlob \in BlobVersions /\ InDoubt \notin BlobVersions
<1>1. NoBlob \in BlobVersions /\ InDoubt \notin BlobVersions
  BY BlobAssumption DEF NoBlob, InDoubt, BlobVersions
<1> QED BY <1>1 DEF NoBlobOp, BlobOps

(* What the store takes: without overwriting it had nothing before.        *)
LEMMA StoringKeeps ==
  ASSUME StoreInvariant, NEW version \in BlobVersions, Accepts(version), StoreBlob(version),
         Once => version # NoBlob
  PROVE  /\ blob' = version /\ blob' \in BlobVersions /\ urlServes' \subseteq BlobVersions
         /\ Once => /\ blob = NoBlob /\ told = {}
                    /\ urlServes' \subseteq {blob'} \ {NoBlob}
BY DEF StoreInvariant, StoreBlob, Accepts, Once

(* One call goes on or ends, and what is stored stays in order.            *)
LEMMA BlobOpKeeps ==
  ASSUME BlobInvariant, NEW c \in BlobCallers, NEW op \in BlobOps,
         blobOp' = [blobOp EXCEPT ![c] = op], StoreInvariant',
         overwrite' = overwrite, deleting' = deleting,
         Once /\ blob # NoBlob => blob' = blob,
         op.kind \in {"put", "delete"} =>
           /\ Overwriting(c) /\ op.version = blobOp[c].version /\ op.calm = blobOp[c].calm
           /\ settledOn' = settledOn,
         \/ settledOn' = settledOn
         \/ \A d \in BlobCallers : d # c => ~Overwriting(d),
         op.kind = "get" /\ op.at = "fetch" /\ Once => op.version = blob' /\ blob' # NoBlob
  PROVE  BlobInvariant'
<1>1. /\ blobOp' \in [BlobCallers -> BlobOps] /\ blobOp \in [BlobCallers -> BlobOps]
      /\ \A d \in BlobCallers : blobOp'[d] = IF d = c THEN op ELSE blobOp[d]
  BY DEF BlobInvariant
<1>2. \A d \in BlobCallers : Overwriting(d)' => Overwriting(d)
  BY <1>1 DEF Overwriting
<1>3. Once' = Once
  BY DEF Once
<1>4. ASSUME NEW d \in BlobCallers PROVE CallerIsSound(d)'
  <2>0. CallerIsSound(d) /\ CallerIsSound(c)
    BY DEF BlobInvariant
  <2>1. CASE d = c
    <3>1. Overwriting(d)' => op.kind \in {"put", "delete"}
      BY <1>1, <2>1 DEF Overwriting
    <3>2. Reading(d, "fetch")' => op.kind = "get" /\ op.at = "fetch"
      BY <1>1, <2>1 DEF Reading
    <3> QED BY <1>1, <1>2, <1>3, <2>0, <2>1, <3>1, <3>2 DEF CallerIsSound
  <2>2. CASE d # c
    <3>1. blobOp'[d] = blobOp[d]
      BY <1>1, <2>2
    <3>2. Reading(d, "fetch")' = Reading(d, "fetch") /\ Overwriting(d)' = Overwriting(d)
      BY <3>1 DEF Reading, Overwriting
    <3> QED BY <1>2, <1>3, <2>0, <2>2, <3>1, <3>2 DEF CallerIsSound
  <2> QED BY <2>1, <2>2
<1> QED BY <1>1, <1>4 DEF BlobInvariant

LEMMA BlobAgainOrEnds ==
  ASSUME BlobInvariant, NEW c \in BlobCallers, BlobAgain(c) \/ BlobEnds(c)
  PROVE  \E op \in BlobOps :
           /\ blobOp' = [blobOp EXCEPT ![c] = op]
           /\ op = NoBlobOp \/ /\ op.kind = blobOp[c].kind /\ op.at = blobOp[c].at
                               /\ op.version = blobOp[c].version /\ op.calm = blobOp[c].calm
<1> DEFINE op == [blobOp[c] EXCEPT !.attempt = blobOp[c].attempt + 1]
<1>1. blobOp[c] \in BlobOps /\ blobOp[c].attempt + 1 \in Nat
  BY DEF BlobInvariant, BlobOps
<1>2. op \in BlobOps /\ op.kind = blobOp[c].kind /\ op.at = blobOp[c].at
        /\ op.version = blobOp[c].version /\ op.calm = blobOp[c].calm
  BY <1>1 DEF BlobOps
<1>3. CASE blobOp' = [blobOp EXCEPT ![c].attempt = @ + 1]
  <2>1. blobOp' = [blobOp EXCEPT ![c] = op]
    BY <1>3
  <2> QED BY <1>2, <2>1
<1>4. CASE blobOp' = [blobOp EXCEPT ![c] = NoBlobOp]
  BY <1>4, NoBlobOpIsAnOp
<1> QED BY <1>3, <1>4 DEF BlobAgain, BlobEnds

(* A write begins: every write under way has met it.                       *)
LEMMA BeginBlobWriteKeeps ==
  ASSUME BlobInvariant, NEW c \in BlobCallers, NEW kind \in {"put", "delete"},
         NEW version \in BlobVersions, BeginBlobWrite(c, kind, version), blobPuts' \in Nat,
         deleting' \in BOOLEAN, deleting => deleting', version = NoBlob => deleting'
  PROVE  BlobInvariant'
<1> USE NoBlobOpIsAnOp
<1> DEFINE alone == \A e \in BlobCallers : ~Overwriting(e)
           op == [NoBlobOp EXCEPT !.kind = kind, !.at = "ask", !.version = version,
                                  !.calm = alone]
           met(d) == [blobOp[d] EXCEPT !.calm = FALSE]
<1>1. /\ blobOp' = [d \in BlobCallers |->
                      IF d = c THEN op ELSE IF Overwriting(d) THEN met(d) ELSE blobOp[d]]
      /\ settledOn' = InDoubt /\ overwrite' = overwrite /\ blob' = blob
      /\ urlServes' = urlServes /\ adrift' = adrift /\ told' = told /\ doubted' = doubted
      /\ read' = read
  BY DEF BeginBlobWrite
<1>2. /\ StoreInvariant /\ blobOp \in [BlobCallers -> BlobOps]
      /\ \A d \in BlobCallers : blobOp[d] \in BlobOps
  BY DEF BlobInvariant
<1>3. alone \in BOOLEAN /\ (alone => \A e \in BlobCallers : ~Overwriting(e))
  OBVIOUS
<1> HIDE DEF alone
<1>4. /\ op \in BlobOps /\ op.kind = kind /\ op.at = "ask" /\ op.version = version
      /\ op.calm = alone
  <2>1. op \in BlobOps
    BY <1>3 DEF BlobOps
  <2>2. op.kind = kind /\ op.at = "ask" /\ op.version = version /\ op.calm = alone
    BY DEF NoBlobOp
  <2> QED BY <2>1, <2>2
<1>5. \A d \in BlobCallers :
        /\ met(d) \in BlobOps /\ ~met(d).calm /\ met(d).kind = blobOp[d].kind
        /\ met(d).version = blobOp[d].version
  BY <1>2 DEF BlobOps
<1> HIDE DEF op, met
<1>6. \A d \in BlobCallers :
        blobOp'[d] = IF d = c THEN op ELSE IF Overwriting(d) THEN met(d) ELSE blobOp[d]
  BY <1>1
<1>7. blobOp' \in [BlobCallers -> BlobOps]
  BY <1>1, <1>2, <1>4, <1>5
<1>8. Once' => Once
  BY <1>1, <1>2 DEF Once, StoreInvariant
<1>9. StoreInvariant'
  BY <1>1, <1>2, <1>8 DEF StoreInvariant
<1>10. ASSUME NEW d \in BlobCallers PROVE CallerIsSound(d)'
  <2>0. CallerIsSound(d)
    BY DEF BlobInvariant
  <2>1. CASE d = c
    <3>1. op.calm => \A e \in BlobCallers : e # c => ~Overwriting(e)'
      BY <1>3, <1>4, <1>6 DEF Overwriting
    <3>2. ~Reading(d, "fetch")'
      BY <1>4, <1>6, <2>1 DEF Reading
    <3> QED BY <1>1, <1>4, <1>6, <2>1, <3>1, <3>2 DEF CallerIsSound
  <2>2. CASE d # c /\ Overwriting(d)
    <3>1. blobOp'[d] = met(d) /\ ~Reading(d, "fetch")'
      BY <1>5, <1>6, <2>2 DEF Reading, Overwriting
    <3> QED BY <1>1, <1>5, <2>0, <2>2, <3>1 DEF CallerIsSound
  <2>3. CASE d # c /\ ~Overwriting(d)
    <3>1. blobOp'[d] = blobOp[d]
      BY <1>6, <2>3
    <3> QED BY <1>1, <1>8, <2>0, <2>3, <3>1 DEF CallerIsSound, Overwriting, Reading
  <2> QED BY <2>1, <2>2, <2>3
<1> QED BY <1>7, <1>9, <1>10 DEF BlobInvariant

LEMMA WritesKeep ==
  ASSUME BlobInvariant, NEW c \in BlobCallers,
         WriteApplied(c) \/ WriteRefused(c) \/ WriteAborted(c)
  PROVE  BlobInvariant'
<1> USE NoBlobOpIsAnOp
<1> DEFINE version == blobOp[c].version
<1>1. /\ StoreInvariant /\ CallerIsSound(c) /\ blobOp \in [BlobCallers -> BlobOps]
      /\ version \in BlobVersions /\ Overwriting(c) /\ settledOn = InDoubt
      /\ Once => version # NoBlob
  BY DEF BlobInvariant, BlobOps, WriteApplied, WriteRefused, WriteAborted, Asking, CallerIsSound,
         Once
<1>2. PICK op \in BlobOps :
        /\ blobOp' = [blobOp EXCEPT ![c] = op]
        /\ op = NoBlobOp \/ /\ op.kind = blobOp[c].kind /\ op.at = blobOp[c].at
                            /\ op.version = version /\ op.calm = blobOp[c].calm
  BY BlobAgainOrEnds DEF WriteApplied, WriteRefused, WriteAborted
<1>3. /\ overwrite' = overwrite /\ deleting' = deleting /\ blobPuts' = blobPuts /\ read' = read
      /\ Once' = Once /\ op.kind # "get"
  BY <1>1, <1>2 DEF WriteApplied, WriteRefused, WriteAborted, blobRest, Once, Overwriting
<1> HIDE DEF version
<1>4. CASE WriteApplied(c)
  <2>1. /\ Accepts(version) /\ StoreBlob(version) /\ told' = told \cup ({version} \ {NoBlob})
        /\ adrift' = adrift /\ doubted' = doubted /\ blobOp' = [blobOp EXCEPT ![c] = NoBlobOp]
        /\ settledOn' = IF blobOp[c].calm /\ adrift \subseteq {version} THEN version ELSE settledOn
    BY <1>4 DEF WriteApplied, BlobEnds, version
  <2>2. /\ blob' = version /\ urlServes' \subseteq BlobVersions
        /\ Once => /\ blob = NoBlob /\ told = {} /\ urlServes' \subseteq {blob'} \ {NoBlob}
    BY <1>1, <2>1, StoringKeeps
  <2>3. StoreInvariant'
    BY <1>1, <1>3, <2>1, <2>2 DEF StoreInvariant
  <2>4. settledOn' = settledOn \/ \A d \in BlobCallers : d # c => ~Overwriting(d)
    BY <1>1, <2>1 DEF CallerIsSound
  <2> QED BY <1>3, <2>1, <2>2, <2>3, <2>4, BlobOpKeeps
<1>5. CASE WriteRefused(c) \/ WriteAborted(c)
  <2>1. /\ told' = told /\ settledOn' = settledOn
        /\ doubted' = doubted \/ doubted' = doubted \cup {version}
        /\ adrift' = adrift \/ /\ adrift' = adrift \cup {version}
                               /\ doubted' = doubted \cup {version}
        /\ \/ blob' = blob /\ urlServes' = urlServes
           \/ /\ Accepts(version) /\ StoreBlob(version) /\ version \in doubted'
    BY <1>5 DEF WriteRefused, WriteAborted, version
  <2>2. /\ blob' \in BlobVersions /\ urlServes' \subseteq BlobVersions
        /\ blob' \in told \cup doubted' \cup {NoBlob}
        /\ Once => /\ blob # NoBlob => blob' = blob
                   /\ urlServes' \subseteq {blob'} \ {NoBlob} /\ told \subseteq {blob'} \ {NoBlob}
    <3>1. CASE blob' = blob /\ urlServes' = urlServes
      BY <1>1, <2>1, <3>1 DEF StoreInvariant
    <3>2. CASE Accepts(version) /\ StoreBlob(version) /\ version \in doubted'
      <4>1. /\ blob' = version /\ blob' \in BlobVersions /\ urlServes' \subseteq BlobVersions
            /\ Once => /\ blob = NoBlob /\ told = {} /\ urlServes' \subseteq {blob'} \ {NoBlob}
        BY <1>1, <3>2, StoringKeeps
      <4> QED BY <3>2, <4>1
    <3> QED BY <2>1, <3>1, <3>2
  <2>3. StoreInvariant'
    BY <1>1, <1>3, <2>1, <2>2 DEF StoreInvariant
  <2>4. op.kind \in {"put", "delete"} => op.version = blobOp[c].version /\ op.calm = blobOp[c].calm
    BY <1>2 DEF version
  <2> QED BY <1>1, <1>2, <1>3, <2>1, <2>2, <2>3, <2>4, BlobOpKeeps
<1> QED BY <1>4, <1>5

(* What an abandoned call stores late is what the last write left, if that *)
(* has been taken for settled.                                             *)
LEMMA ArriveKeeps ==
  ASSUME BlobInvariant, NEW version \in adrift, Arrive(version)
  PROVE  BlobInvariant'
<1>1. /\ StoreInvariant /\ version \in BlobVersions /\ version \in doubted
      /\ Once => version # NoBlob
  BY DEF BlobInvariant, StoreInvariant
<1>2. /\ adrift' = adrift \ {version} /\ overwrite' = overwrite /\ blobPuts' = blobPuts
      /\ blobOp' = blobOp /\ told' = told /\ doubted' = doubted /\ deleting' = deleting
      /\ settledOn' = settledOn /\ read' = read
      /\ \/ Accepts(version) /\ StoreBlob(version)
         \/ blob' = blob /\ urlServes' = urlServes
  BY DEF Arrive, blobRest
<1>3. /\ blob' \in BlobVersions /\ urlServes' \subseteq BlobVersions
      /\ blob' \in {blob, version}
      /\ Once => /\ blob # NoBlob => blob' = blob
                 /\ urlServes' \subseteq {blob'} \ {NoBlob} /\ told \subseteq {blob'} \ {NoBlob}
  <2>1. CASE blob' = blob /\ urlServes' = urlServes
    BY <1>1, <2>1 DEF StoreInvariant
  <2>2. CASE Accepts(version) /\ StoreBlob(version)
    <3>1. /\ blob' = version /\ blob' \in BlobVersions /\ urlServes' \subseteq BlobVersions
          /\ Once => /\ blob = NoBlob /\ told = {} /\ urlServes' \subseteq {blob'} \ {NoBlob}
      BY <1>1, <2>2, StoringKeeps
    <3> QED BY <3>1
  <2> QED BY <1>2, <2>1, <2>2
<1>4. Once' = Once
  BY <1>2 DEF Once
<1>5. StoreInvariant'
  BY <1>1, <1>2, <1>3, <1>4 DEF StoreInvariant
<1>6. ASSUME NEW d \in BlobCallers PROVE CallerIsSound(d)'
  <2>1. CallerIsSound(d)
    BY DEF BlobInvariant
  <2> QED BY <1>2, <1>3, <1>4, <2>1 DEF CallerIsSound, Overwriting, Reading
<1> QED BY <1>2, <1>5, <1>6 DEF BlobInvariant

LEMMA ReadsKeep ==
  ASSUME BlobInvariant, NEW c \in BlobCallers,
         BeginBlobGet(c) \/ GetHead(c) \/ FetchBytes(c) \/ FetchNothing(c) \/ GetAborted(c)
  PROVE  BlobInvariant'
<1> USE NoBlobOpIsAnOp
<1>1. /\ StoreInvariant /\ CallerIsSound(c) /\ blobOp \in [BlobCallers -> BlobOps]
      /\ blobOp[c] \in BlobOps
  BY DEF BlobInvariant
<1>2. /\ overwrite' = overwrite /\ deleting' = deleting /\ blobPuts' = blobPuts /\ blob' = blob
      /\ urlServes' = urlServes /\ adrift' = adrift /\ told' = told /\ doubted' = doubted
      /\ settledOn' = settledOn /\ Once' = Once
  BY DEF BeginBlobGet, GetHead, FetchBytes, FetchNothing, GetAborted, NothingWritten, blobRest, Once
<1>3. Once => read'.meta = read'.bytes
  <2>1. CASE FetchBytes(c)
    <3>1. PICK bytes \in urlServes : read' = [meta |-> blobOp[c].version, bytes |-> bytes]
      BY <2>1 DEF FetchBytes
    <3>2. Once => bytes = blob /\ blobOp[c].version = blob
      BY <1>1, <2>1 DEF StoreInvariant, CallerIsSound, FetchBytes
    <3> QED BY <3>1, <3>2
  <2>2. CASE read' = read
    BY <1>1, <2>2 DEF StoreInvariant
  <2> QED BY <2>1, <2>2 DEF BeginBlobGet, GetHead, FetchNothing, GetAborted
<1>4. StoreInvariant'
  BY <1>1, <1>2, <1>3 DEF StoreInvariant
<1>5. PICK op \in BlobOps :
        /\ blobOp' = [blobOp EXCEPT ![c] = op] /\ op.kind \notin {"put", "delete"}
        /\ op.kind = "get" /\ op.at = "fetch" /\ Once => op.version = blob /\ blob # NoBlob
  <2>1. CASE BeginBlobGet(c)
    <3> DEFINE op == [blobOp[c] EXCEPT !.kind = "get", !.at = "head"]
    <3>1. blobOp' = [blobOp EXCEPT ![c] = op]
      BY <2>1 DEF BeginBlobGet
    <3>2. op \in BlobOps /\ op.kind = "get" /\ op.at = "head"
      BY <1>1 DEF BlobOps
    <3> QED BY <3>1, <3>2
  <2>2. CASE GetHead(c) /\ blob # NoBlob
    <3> DEFINE op == [blobOp[c] EXCEPT !.at = "fetch", !.version = blob, !.attempt = 1]
    <3>1. blobOp' = [blobOp EXCEPT ![c] = op]
      BY <2>2 DEF GetHead
    <3>2. /\ op \in BlobOps /\ op.kind = blobOp[c].kind /\ op.version = blob
          /\ blobOp[c].kind = "get"
      BY <1>1, <2>2 DEF BlobOps, StoreInvariant, GetHead, Reading
    <3> QED BY <2>2, <3>1, <3>2
  <2>3. CASE (GetHead(c) /\ blob = NoBlob) \/ FetchBytes(c) \/ FetchNothing(c) \/ GetAborted(c)
    <3>1. /\ blobOp[c].kind = "get" /\ (BlobAgain(c) \/ BlobEnds(c))
      BY <2>3 DEF GetHead, FetchBytes, FetchNothing, GetAborted, Reading
    <3>2. PICK op \in BlobOps :
            /\ blobOp' = [blobOp EXCEPT ![c] = op]
            /\ op = NoBlobOp \/ /\ op.kind = blobOp[c].kind /\ op.at = blobOp[c].at
                                /\ op.version = blobOp[c].version /\ op.calm = blobOp[c].calm
      BY <3>1, BlobAgainOrEnds
    <3>3. op.kind = "get" /\ op.at = "fetch" /\ Once => op.version = blob /\ blob # NoBlob
      BY <1>1, <3>1, <3>2 DEF CallerIsSound, Reading
    <3> QED BY <3>1, <3>2, <3>3
  <2> QED BY <2>1, <2>2, <2>3
<1> QED BY <1>2, <1>4, <1>5, BlobOpKeeps

LEMMA BlobNextKeeps ==
  ASSUME BlobInvariant, [BlobNext]_blobVars
  PROVE  BlobInvariant'
<1>1. ASSUME NEW c \in BlobCallers, BeginBlobPut(c) PROVE BlobInvariant'
  <2>1. /\ blobPuts + 1 \in BlobVersions /\ blobPuts' \in Nat /\ blobPuts + 1 # NoBlob
        /\ deleting' = deleting /\ deleting \in BOOLEAN
    BY <1>1, BlobAssumption
       DEF BeginBlobPut, BlobVersions, NoBlob, BlobInvariant, StoreInvariant
  <2> QED BY <1>1, <2>1, BeginBlobWriteKeeps DEF BeginBlobPut
<1>2. ASSUME NEW c \in BlobCallers, BeginBlobDelete(c) PROVE BlobInvariant'
  <2>1. NoBlob \in BlobVersions /\ blobPuts' \in Nat
    BY <1>2, NoBlobOpIsAnOp DEF BeginBlobDelete, BlobInvariant, StoreInvariant
  <2> QED BY <1>2, <2>1, BeginBlobWriteKeeps DEF BeginBlobDelete
<1>3. CASE UNCHANGED blobVars
  BY <1>3 DEF BlobInvariant, StoreInvariant, CallerIsSound, Overwriting, Reading, Once, blobVars
<1> QED BY <1>1, <1>2, <1>3, WritesKeep, ReadsKeep, ArriveKeeps DEF BlobNext

(* What the store holds and which calls may still arrive there.            *)
THEOREM BlobInvariantHolds == BlobSpec => []BlobInvariant
<1>1. BlobInit => BlobInvariant
  <2> SUFFICES ASSUME BlobInit PROVE BlobInvariant
    OBVIOUS
  <2>1. StoreInvariant /\ blobOp \in [BlobCallers -> BlobOps]
    BY NoBlobOpIsAnOp DEF BlobInit, StoreInvariant, NoAnswer
  <2>2. \A c \in BlobCallers : blobOp[c].kind = "none"
    BY NoBlobOpIsAnOp DEF BlobInit
  <2> QED BY <2>1, <2>2 DEF BlobInvariant, CallerIsSound, Overwriting, Reading
<1> QED BY <1>1, BlobNextKeeps, PTL DEF BlobSpec

(* Without allowOverwrite a put answered with success stays and is read    *)
(* with its own metadata; with it, the object is what the last write that  *)
(* met nothing left: putObject, deleteObject and getObject of              *)
(* storage-vercel-blob, with calls abandoned, repeated and arriving late.  *)
THEOREM BlobsAreAlwaysWhole == BlobSpec => []BlobsAreWhole
<1>1. BlobInvariant => BlobsAreWhole
  <2> SUFFICES ASSUME BlobInvariant PROVE BlobsAreWhole
    OBVIOUS
  <2>1. StoreInvariant
    BY DEF BlobInvariant
  <2>2. ASSUME Once PROVE Cardinality(urlServes) <= 1
    <3>1. CASE urlServes = {}
      BY <3>1, FS_EmptySet
    <3>2. CASE urlServes = {blob}
      BY <3>2, FS_Singleton
    <3> QED BY <2>1, <2>2, <3>1, <3>2 DEF StoreInvariant
  <2>3. WrittenOnce
    BY <2>1, <2>2 DEF StoreInvariant, WrittenOnce, Once
  <2> QED BY <2>1, <2>3 DEF StoreInvariant, BlobsAreWhole, WritesSettle
<1> QED BY <1>1, BlobInvariantHolds, PTL

(* Both stores beside each other.                                          *)
THEOREM StoresAreAlwaysWhole == StoresSpec => []StoresAreWhole
BY ObjectsAreAlwaysWhole, BlobsAreAlwaysWhole, PTL DEF StoresSpec, StoresAreWhole

-----------------------------------------------------------------------------
(* A walk of a client goes down the order of the rows, which are never     *)
(* removed; a submission's refresh, unlike the first one, comes after the  *)
(* row.                                                                    *)

SubjectRow == [id : Filings, created : Stamps]

RowsInvariant ==
  /\ subjectRows \subseteq SubjectRow /\ IsFiniteSet(subjectRows)
  /\ \A r, s \in subjectRows : r.id = s.id => r = s

GivenIn(given, r) == \E i \in 1..Len(given) : given[i] = r
Descends(given) == \A i, j \in 1..Len(given) : i < j => Listed(given[i], given[j])

WalkInvariant ==
  /\ walk \in [at : {"idle", "paging", "done", "refused"}, cursor : SubjectRow \cup {Nothing},
               given : Seq(SubjectRow), respelled : BOOLEAN]
  /\ walkKnown \subseteq subjectRows
  /\ ~walk.respelled =>
       /\ Descends(walk.given)
       /\ walk.at = "paging" =>
            /\ walk.cursor = IF walk.given = <<>> THEN Nothing ELSE walk.given[Len(walk.given)]
            /\ \A r \in walkKnown : GivenIn(walk.given, r) \/ PastCursor(r, walk.cursor)
       /\ walk.at = "done" => \A r \in walkKnown : GivenIn(walk.given, r)

ShownIn(rows, id) == (\E r \in rows : r.id = id) \/ Cardinality(rows) = SubjectPage

BrowserTypes ==
  /\ portal \in [text : BOOLEAN, alert : BOOLEAN, rows : SUBSET SubjectRow]
  /\ filing \in [at : {"idle", "posting", "stored", "refreshing"}, id : Filings \cup {Nothing},
                 text : BOOLEAN]
  /\ loads \in [Loads -> [at : {"none", "asked", "answered"}, rows : SUBSET SubjectRow]]

BrowserInvariant ==
  /\ BrowserTypes
  /\ portal.rows \subseteq subjectRows /\ \A l \in Loads : loads[l].rows \subseteq subjectRows
  /\ filing.at # "idle" /\ filing.text => portal.text
  /\ filing.at \in {"stored", "refreshing"} => \E r \in subjectRows : r.id = filing.id
  /\ loads["again"].at # "none" => filing.at = "refreshing"
  /\ loads["again"].at = "answered" => ShownIn(loads["again"].rows, filing.id)
  /\ (lastFiled # Nothing \/ filing.at = "refreshing") /\ ~outrun => loads["first"].at = "none"
  /\ lastFiled # Nothing /\ filing.at = "idle" /\ ~portal.alert /\ ~outrun =>
       ShownIn(portal.rows, lastFiled)

PortalInvariant == RowsInvariant /\ WalkInvariant /\ BrowserInvariant
-----------------------------------------------------------------------------
(* The order of the rows is total and strict.                              *)
LEMMA ListedOrders ==
  /\ \A r \in SubjectRow : ~Listed(r, r)
  /\ \A r, s, t \in SubjectRow : Listed(r, s) /\ Listed(s, t) => Listed(r, t)
  /\ \A r, s \in SubjectRow : r.id # s.id => Listed(r, s) \/ Listed(s, r)
<1>1. \A r \in SubjectRow : r.id \in Nat /\ r.created \in Nat
  BY PortalAssumption DEF SubjectRow
<1> QED BY <1>1 DEF Listed

Unlike(S) == S \subseteq SubjectRow /\ \A r, s \in S : r.id = s.id => r = s

InOrder(S, s) ==
  s \in SetToSeqs(S) /\ \A i, j \in DOMAIN s : i < j => Listed(s[i], s[j])

(* Rows can be put in order: each at its position.                         *)
LEMMA OrderExists ==
  ASSUME NEW S, IsFiniteSet(S), Unlike(S)
  PROVE  \E s : InOrder(S, s)
<1> DEFINE R == {x \in S \X S : Listed(x[1], x[2])}
           N == Cardinality(S)
           p(r) == Position(S, R, r)
           s == [n \in 1..N |-> CHOOSE r \in S : p(r) = n - 1]
<1>1. \A r, q \in S : <<r, q>> \in R <=> Listed(r, q)
  OBVIOUS
<1>2. Sorts(R, S)
  <2> HIDE DEF R
  <2>1. \A r \in S : r \in SubjectRow
    BY DEF Unlike
  <2>2. \A r, q \in S : r = q \/ r.id # q.id
    BY DEF Unlike
  <2>3. \A r \in S : <<r, r>> \notin R
    BY <1>1, <2>1, ListedOrders
  <2>4. \A r, q \in S : r = q \/ <<r, q>> \in R \/ <<q, r>> \in R
    BY <1>1, <2>1, <2>2, ListedOrders
  <2>5. \A r, q, t \in S : <<r, q>> \in R /\ <<q, t>> \in R => <<r, t>> \in R
    BY <1>1, <2>1, ListedOrders
  <2> QED BY <2>3, <2>4, <2>5 DEF Sorts
<1> HIDE DEF R
<1>3. /\ N \in Nat
      /\ \A r, q \in S : <<r, q>> \in R <=> p(r) < p(q)
      /\ \A n \in 0..(N - 1) : \E r \in S : p(r) = n
  BY <1>2, Positions
<1> HIDE DEF p
<1>4. \A n \in 1..N : s[n] \in S /\ p(s[n]) = n - 1
  <2> SUFFICES ASSUME NEW n \in 1..N PROVE s[n] \in S /\ p(s[n]) = n - 1
    OBVIOUS
  <2>1. n - 1 \in 0..(N - 1)
    BY <1>3
  <2> QED BY <1>3, <2>1
<1>5. DOMAIN s = 1..N /\ s = [n \in 1..N |-> s[n]]
  OBVIOUS
<1> HIDE DEF s
<1>6. s \in [1..N -> S]
  BY <1>4, <1>5
<1>7. \A m, n \in 1..N : m # n => s[m] # s[n]
  BY <1>3, <1>4
<1>8. ASSUME NEW m \in 1..N, NEW n \in 1..N, m < n PROVE Listed(s[m], s[n])
  <2>1. p(s[m]) < p(s[n])
    BY <1>3, <1>4, <1>8
  <2> QED BY <1>1, <1>3, <1>4, <2>1
<1> QED BY <1>5, <1>6, <1>7, <1>8 DEF InOrder, SetToSeqs

(* What the selection gives: the rows past the cursor, each once, in order. *)
LEMMA SubjectListIs ==
  ASSUME RowsInvariant, NEW c
  PROVE  LET list == SubjectList(c) past == {r \in subjectRows : PastCursor(r, c)} IN
         /\ list \in Seq(past) /\ Len(list) = Cardinality(past) /\ IsFiniteSet(past)
         /\ \A i, j \in 1..Len(list) : i < j => Listed(list[i], list[j])
         /\ \A r \in past : \E i \in 1..Len(list) : list[i] = r
<1> DEFINE past == {r \in subjectRows : PastCursor(r, c)}
           list == SubjectList(c)
           n == Cardinality(past)
<1>1. IsFiniteSet(past) /\ Unlike(past) /\ past \subseteq subjectRows
  <2>1. past \subseteq subjectRows
    OBVIOUS
  <2>2. IsFiniteSet(past)
    BY <2>1, FS_Subset DEF RowsInvariant
  <2> HIDE DEF past
  <2> QED BY <2>1, <2>2 DEF RowsInvariant, Unlike
<1>2. InOrder(past, list)
  <2>1. PICK s : InOrder(past, s)
    BY <1>1, OrderExists
  <2>2. s \in SetToSeqs(past) /\ \A i, j \in DOMAIN s : i < j => Listed(s[i], s[j])
    BY <2>1, Zenon DEF InOrder
  <2>3. list = CHOOSE t \in SetToSeqs(past) : \A i, j \in DOMAIN t : i < j => Listed(t[i], t[j])
    BY Zenon DEF SubjectList
  <2> HIDE DEF list, past
  <2> QED BY <2>2, <2>3, Zenon DEF InOrder
<1> HIDE DEF list
<1>3. /\ list \in [1..n -> past]
      /\ \A i, j \in 1..n : i # j => list[i] # list[j]
      /\ \A i, j \in 1..n : i < j => Listed(list[i], list[j])
  BY <1>2 DEF InOrder, SetToSeqs
<1>4. n \in Nat
  BY <1>1, FS_CardinalityType
<1> HIDE DEF past, n
<1>5. list \in Seq(past) /\ Len(list) = n
  BY <1>3, <1>4
<1>6. \A r \in past : \E i \in 1..n : list[i] = r
  <2>1. list \in Injection(1..n, past)
    BY <1>3 DEF Injection, IsInjective
  <2>2. IsFiniteSet(1..n) /\ Cardinality(1..n) = n
    BY <1>4, FS_Interval
  <2>3. list \in Surjection(1..n, past)
    BY <1>1, <2>1, <2>2, FS_Injection DEF n
  <2> QED BY <2>3 DEF Surjection
<1> QED BY <1>1, <1>3, <1>5, <1>6 DEF n, list, past

LEMMA FirstPageIs ==
  ASSUME NEW S, NEW list \in Seq(S)
  PROVE  LET page == FirstPage(list) IN
         /\ page \in Seq(S) /\ Len(page) <= SubjectPage
         /\ Len(page) = Len(list) \/ (Len(page) = SubjectPage /\ SubjectPage < Len(list))
         /\ \A i \in 1..Len(page) : page[i] = list[i] /\ i \in 1..Len(list)
<1>1. SubjectPage \in Nat \ {0}
  BY PortalAssumption
<1> QED BY <1>1 DEF FirstPage

(* A row of the subject is on the first page, or the page is full.         *)
LEMMA RowsShownIs ==
  ASSUME RowsInvariant
  PROVE  /\ RowsShown \subseteq subjectRows
         /\ \A r \in subjectRows : r \in RowsShown \/ Cardinality(RowsShown) = SubjectPage
<1> DEFINE past == {r \in subjectRows : PastCursor(r, Nothing)}
           list == SubjectList(Nothing)
           page == FirstPage(list)
<1>1. past = subjectRows
  BY DEF PastCursor
<1>2. /\ list \in Seq(past)
      /\ \A i, j \in 1..Len(list) : i < j => Listed(list[i], list[j])
      /\ \A r \in past : \E i \in 1..Len(list) : list[i] = r
  BY SubjectListIs
<1> HIDE DEF past, list
<1>3. /\ page \in Seq(past)
      /\ Len(page) = Len(list) \/ (Len(page) = SubjectPage /\ SubjectPage < Len(list))
      /\ \A i \in 1..Len(page) : page[i] = list[i] /\ i \in 1..Len(list)
  BY <1>2, FirstPageIs
<1>4. RowsShown = {page[i] : i \in 1..Len(page)}
  <2>1. RowsShown = {page[i] : i \in DOMAIN page}
    BY DEF RowsShown, ToSet, list
  <2> HIDE DEF page
  <2> QED BY <1>3, <2>1
<1> HIDE DEF page
<1>5. RowsShown \subseteq subjectRows
  BY <1>1, <1>3, <1>4
<1>6. CASE Len(page) = Len(list)
  BY <1>1, <1>2, <1>3, <1>4, <1>5, <1>6
<1>7. CASE Len(page) = SubjectPage
  <2>1. \A i, j \in 1..Len(page) : i < j => page[i] # page[j]
    <3> SUFFICES ASSUME NEW i \in 1..Len(page), NEW j \in 1..Len(page), i < j, page[i] = page[j]
                 PROVE  FALSE
      OBVIOUS
    <3>1. Listed(page[i], page[i])
      BY <1>2, <1>3
    <3>2. page[i] \in SubjectRow
      BY <1>1, <1>3 DEF RowsInvariant
    <3> QED BY <3>1, <3>2, ListedOrders
  <2>2. Len(page) \in Nat
    BY <1>3
  <2>3. \A i, j \in 1..Len(page) : i < j \/ j < i \/ i = j
    BY <2>2
  <2>4. page \in [1..Len(page) -> RowsShown]
    BY <1>3, <1>4
  <2>5. page \in Bijection(1..Len(page), RowsShown)
    BY <1>4, <2>1, <2>3, <2>4 DEF Bijection, Injection, Surjection, IsInjective
  <2>6. IsFiniteSet(1..Len(page)) /\ Cardinality(1..Len(page)) = Len(page)
    BY <2>2, FS_Interval
  <2>7. Cardinality(RowsShown) = Len(page)
    <3>1. ExistsBijection(1..Len(page), RowsShown)
      BY <2>5, Zenon DEF ExistsBijection
    <3> QED BY <2>6, <3>1, FS_Bijection
  <2> QED BY <1>5, <1>7, <2>7
<1> QED BY <1>3, <1>6, <1>7

(* A request that has been filed and its row is answered with a page that  *)
(* shows it.                                                               *)
LEMMA FiledIsShown ==
  ASSUME RowsInvariant, NEW id, \E r \in subjectRows : r.id = id
  PROVE  ShownIn(RowsShown, id)
BY RowsShownIs DEF ShownIn

-----------------------------------------------------------------------------
LEMMA PortalStart == PortalInit => PortalInvariant
<1> SUFFICES ASSUME PortalInit PROVE PortalInvariant
  OBVIOUS
<1>1. RowsInvariant
  BY FS_EmptySet DEF PortalInit, RowsInvariant
<1>2. WalkInvariant
  <2>1. <<>> \in Seq(SubjectRow) /\ Len(<<>>) = 0
    OBVIOUS
  <2>2. walk \in [at : {"idle", "paging", "done", "refused"}, cursor : SubjectRow \cup {Nothing},
                  given : Seq(SubjectRow), respelled : BOOLEAN]
    BY <2>1 DEF PortalInit, NoWalk
  <2>3. walk.at = "idle" /\ walk.given = <<>> /\ walkKnown = {}
    BY DEF PortalInit, NoWalk
  <2>4. Descends(walk.given)
    BY <2>3 DEF Descends
  <2> QED BY <2>2, <2>3, <2>4 DEF WalkInvariant
<1>3. BrowserInvariant
  <2>1. portal.rows = {} /\ portal \in [text : BOOLEAN, alert : BOOLEAN, rows : SUBSET SubjectRow]
    BY DEF PortalInit
  <2>2. /\ filing.at = "idle" /\ ~filing.text
        /\ filing \in [at : {"idle", "posting", "stored", "refreshing"}, id : Filings \cup {Nothing},
                       text : BOOLEAN]
    BY DEF PortalInit, NoFiling
  <2>3. NoLoad.rows = {} /\ NoLoad.at = "none"
        /\ NoLoad \in [at : {"none", "asked", "answered"}, rows : SUBSET SubjectRow]
        /\ [NoLoad EXCEPT !.at = "asked"] \in [at : {"none", "asked", "answered"}, rows : SUBSET SubjectRow]
        /\ [NoLoad EXCEPT !.at = "asked"].rows = {}
    BY DEF NoLoad
  <2>4. /\ loads \in [Loads -> [at : {"none", "asked", "answered"}, rows : SUBSET SubjectRow]]
        /\ \A l \in Loads : loads[l].rows = {}
        /\ loads["again"].at = "none"
    BY <2>3 DEF PortalInit, Loads
  <2> QED BY <2>1, <2>2, <2>4 DEF PortalInit, BrowserInvariant, BrowserTypes
<1> QED BY <1>1, <1>2, <1>3 DEF PortalInvariant

(* Rows are only added, each with an id of its own.                        *)
LEMMA InsertKeepsRows ==
  ASSUME RowsInvariant, NEW id \in NewIds, InsertRow(id)
  PROVE  RowsInvariant' /\ subjectRows \subseteq subjectRows' /\ \E r \in subjectRows' : r.id = id
<1>1. PICK at \in Stamps : subjectRows' = subjectRows \cup {[id |-> id, created |-> at]}
  BY DEF InsertRow
<1>2. id \in Filings /\ \A r \in subjectRows : r.id # id
  BY DEF NewIds
<1>3. IsFiniteSet(subjectRows')
  BY <1>1, FS_AddElement DEF RowsInvariant
<1>4. subjectRows' \subseteq SubjectRow
  BY <1>1, <1>2 DEF RowsInvariant, SubjectRow
<1>5. \A r, s \in subjectRows' : r.id = s.id => r = s
  BY <1>1, <1>2 DEF RowsInvariant
<1>6. [id |-> id, created |-> at] \in subjectRows' /\ [id |-> id, created |-> at].id = id
  BY <1>1
<1> QED BY <1>1, <1>3, <1>4, <1>5, <1>6 DEF RowsInvariant

LEMMA WalkStays ==
  ASSUME WalkInvariant, UNCHANGED subjectWalk, subjectRows \subseteq subjectRows'
  PROVE  WalkInvariant'
<1>1. walk' = walk /\ walkKnown' = walkKnown
  BY DEF subjectWalk
<1>2. walkKnown \subseteq subjectRows
  BY DEF WalkInvariant
<1> QED BY <1>1, <1>2 DEF WalkInvariant, GivenIn, Descends, PastCursor, Listed

LEMMA BrowserStays ==
  ASSUME BrowserInvariant, UNCHANGED browserVars, subjectRows \subseteq subjectRows'
  PROVE  BrowserInvariant'
<1>1. /\ portal' = portal /\ filing' = filing /\ loads' = loads
      /\ lastFiled' = lastFiled /\ outrun' = outrun
  BY DEF browserVars
<1> QED BY <1>1 DEF BrowserInvariant, BrowserTypes, ShownIn

LEMMA BeginKeepsWalk ==
  ASSUME RowsInvariant, BeginWalk
  PROVE  WalkInvariant'
<1>1. /\ walk'.at = "paging" /\ walk'.given = <<>> /\ walk'.cursor = Nothing /\ walkKnown' = subjectRows'
      /\ walk' \in [at : {"idle", "paging", "done", "refused"}, cursor : SubjectRow \cup {Nothing},
                    given : Seq(SubjectRow), respelled : BOOLEAN]
  <2>1. <<>> \in Seq(SubjectRow)
    OBVIOUS
  <2> QED BY <2>1 DEF BeginWalk, NoWalk
<1>2. Descends(walk'.given)
  BY <1>1 DEF Descends
<1>3. \A r : PastCursor(r, walk'.cursor)
  BY <1>1 DEF PastCursor
<1> QED BY <1>1, <1>2, <1>3, Zenon DEF WalkInvariant, GivenIn, PastCursor, Listed, Descends

LEMMA RefuseKeepsWalk ==
  ASSUME WalkInvariant, RefuseCursor
  PROVE  WalkInvariant'
<1>1. /\ walk'.at = "refused" /\ walk'.given = walk.given /\ walk'.respelled = walk.respelled
      /\ walkKnown' = walkKnown /\ subjectRows' = subjectRows
      /\ walk' \in [at : {"idle", "paging", "done", "refused"}, cursor : SubjectRow \cup {Nothing},
                    given : Seq(SubjectRow), respelled : BOOLEAN]
  BY DEF WalkInvariant, RefuseCursor
<1>2. walkKnown \subseteq subjectRows /\ (~walk.respelled => Descends(walk.given))
  BY DEF WalkInvariant
<1> QED BY <1>1, <1>2 DEF WalkInvariant, Descends

(* A page goes on where the walk stands: its rows come after the last one  *)
(* given, and a row it passes over comes after its own last one.           *)
LEMMA PageKeepsWalk ==
  ASSUME RowsInvariant, WalkInvariant, NextSubjectPage
  PROVE  WalkInvariant'
<1> DEFINE cursor == DecodeCursor(walk.cursor)
           past == {r \in subjectRows : PastCursor(r, cursor)}
           list == SubjectList(cursor)
           page == FirstPage(list)
           next == IF page = <<>> THEN Nothing ELSE Last(page)
<1>1. /\ walk.at = "paging"
      /\ walk' = [at |-> IF Len(list) > SubjectPage THEN "paging" ELSE "done", cursor |-> next,
                  given |-> walk.given \o page, respelled |-> walk.respelled \/ cursor # walk.cursor]
      /\ walkKnown' = walkKnown /\ subjectRows' = subjectRows
  BY Zenon DEF NextSubjectPage
<1>2. /\ list \in Seq(past)
      /\ \A i, j \in 1..Len(list) : i < j => Listed(list[i], list[j])
      /\ \A r \in past : \E i \in 1..Len(list) : list[i] = r
  BY SubjectListIs, Zenon
<1>3. past \subseteq SubjectRow /\ \A r \in past : PastCursor(r, cursor)
  BY DEF RowsInvariant
<1> HIDE DEF past, list, cursor
<1>4. /\ page \in Seq(past) /\ Len(page) <= SubjectPage
      /\ Len(page) = Len(list) \/ (Len(page) = SubjectPage /\ SubjectPage < Len(list))
      /\ \A i \in 1..Len(page) : page[i] = list[i] /\ i \in 1..Len(list)
  BY <1>2, FirstPageIs
<1>5. SubjectPage \in Nat \ {0} /\ Len(list) \in Nat /\ Len(page) \in Nat
  BY <1>2, <1>4, PortalAssumption
<1> HIDE DEF page
<1>6. /\ page # <<>> => next = page[Len(page)] /\ Len(page) \in 1..Len(page)
      /\ page = <<>> => next = Nothing /\ Len(page) = 0
  BY <1>4, <1>5 DEF Last
<1>7. next \in SubjectRow \cup {Nothing}
  BY <1>3, <1>4, <1>6
<1> HIDE DEF next
<1>8. walk.given \in Seq(SubjectRow) /\ walk.respelled \in BOOLEAN /\ walkKnown \subseteq subjectRows
  BY DEF WalkInvariant
<1>9. page \in Seq(SubjectRow)
  BY <1>3, <1>4
<1> DEFINE given == walk.given \o page
           n == Len(walk.given)
<1>10. /\ given \in Seq(SubjectRow) /\ Len(given) = n + Len(page) /\ n \in Nat
       /\ \A i \in 1..n : given[i] = walk.given[i] /\ i \in 1..Len(given)
       /\ \A i \in 1..Len(page) : given[n + i] = page[i] /\ n + i \in 1..Len(given)
       /\ \A i \in 1..Len(given) : i \in 1..n \/ (i - n \in 1..Len(page) /\ given[i] = page[i - n])
  BY <1>8, <1>9
<1>11. /\ walk'.given = given /\ walk'.cursor = next /\ walk'.respelled = (walk.respelled \/ cursor # walk.cursor)
       /\ walk'.at = IF Len(list) > SubjectPage THEN "paging" ELSE "done"
       /\ walk' \in [at : {"idle", "paging", "done", "refused"}, cursor : SubjectRow \cup {Nothing},
                     given : Seq(SubjectRow), respelled : BOOLEAN]
  BY <1>1, <1>7, <1>8, <1>10
<1> HIDE DEF given, n
<1>12. ASSUME ~walk.respelled, cursor = walk.cursor
       PROVE  /\ Descends(given)
              /\ walk'.at = "paging" =>
                   /\ next = IF given = <<>> THEN Nothing ELSE given[Len(given)]
                   /\ \A r \in walkKnown : GivenIn(given, r) \/ PastCursor(r, next)
              /\ walk'.at = "done" => \A r \in walkKnown : GivenIn(given, r)
  <2>1. /\ Descends(walk.given)
        /\ walk.cursor = IF walk.given = <<>> THEN Nothing ELSE walk.given[Len(walk.given)]
        /\ \A r \in walkKnown : GivenIn(walk.given, r) \/ PastCursor(r, walk.cursor)
    BY <1>1, <1>12, Zenon DEF WalkInvariant
  <2>2. \A i \in 1..n : \A j \in 1..Len(page) : Listed(walk.given[i], page[j])
    <3> SUFFICES ASSUME NEW i \in 1..n, NEW j \in 1..Len(page)
                 PROVE  Listed(walk.given[i], page[j])
      OBVIOUS
    <3>1. walk.given # <<>> /\ n \in 1..n /\ walk.given[n] \in SubjectRow /\ walk.given[i] \in SubjectRow
      BY <1>8, <1>10 DEF n
    <3>2. cursor = walk.given[n] /\ cursor # Nothing
      <4>1. cursor = walk.given[n]
        BY <1>12, <2>1, <3>1 DEF n
      <4>2. \A r \in SubjectRow : r # Nothing
        BY PortalAssumption DEF SubjectRow
      <4> QED BY <3>1, <4>1, <4>2
    <3>3. page[j] \in past /\ page[j] \in SubjectRow
      BY <1>3, <1>4
    <3>4. Listed(walk.given[n], page[j])
      BY <1>3, <3>2, <3>3 DEF PastCursor
    <3>5. i = n \/ Listed(walk.given[i], walk.given[n])
      <4>1. i = n \/ i < n
        BY <1>10
      <4> QED BY <2>1, <3>1, <4>1 DEF Descends, n
    <3> QED BY <3>1, <3>3, <3>4, <3>5, ListedOrders
  <2>3. Descends(given)
    <3> SUFFICES ASSUME NEW i \in 1..Len(given), NEW j \in 1..Len(given), i < j
                 PROVE  Listed(given[i], given[j])
      BY DEF Descends
    <3>1. CASE i \in 1..n /\ j \in 1..n
      BY <1>10, <2>1, <3>1 DEF Descends, n
    <3>2. CASE i \in 1..n /\ j \notin 1..n
      BY <1>10, <2>2, <3>2
    <3>3. CASE i \notin 1..n
      <4>1. i - n \in 1..Len(page) /\ j - n \in 1..Len(page) /\ i - n < j - n
        BY <1>5, <1>10, <3>3
      <4>2. j \notin 1..n
        BY <1>10, <3>3
      <4>3. given[i] = page[i - n] /\ given[j] = page[j - n]
        BY <1>10, <3>3, <4>2
      <4>4. page[i - n] = list[i - n] /\ page[j - n] = list[j - n]
        BY <1>4, <4>1
      <4>5. i - n \in 1..Len(list) /\ j - n \in 1..Len(list)
        BY <1>4, <4>1
      <4>6. Listed(list[i - n], list[j - n])
        BY <1>2, <4>1, <4>5
      <4> QED BY <4>3, <4>4, <4>6
    <3> QED BY <3>1, <3>2, <3>3
  <2>4. \A r : GivenIn(walk.given, r) => GivenIn(given, r)
    BY <1>10 DEF GivenIn, n
  <2>5. ASSUME NEW r \in walkKnown, ~GivenIn(given, r)
        PROVE  \E i \in 1..Len(list) : list[i] = r /\ ~(i \in 1..Len(page))
    <3>1. r \in past
      BY <1>8, <1>12, <2>1, <2>4, <2>5 DEF past
    <3>2. PICK i \in 1..Len(list) : list[i] = r
      BY <1>2, <3>1
    <3>3. i \notin 1..Len(page)
      <4> SUFFICES ASSUME i \in 1..Len(page) PROVE GivenIn(given, r)
        BY <2>5
      <4>1. given[n + i] = r /\ n + i \in 1..Len(given)
        BY <1>4, <1>10, <3>2
      <4> QED BY <4>1 DEF GivenIn
    <3> QED BY <3>2, <3>3
  <2>6. ASSUME Len(list) > SubjectPage
        PROVE  /\ next = IF given = <<>> THEN Nothing ELSE given[Len(given)]
               /\ \A r \in walkKnown : GivenIn(given, r) \/ PastCursor(r, next)
    <3>1. Len(page) = SubjectPage /\ page # <<>> /\ next = page[Len(page)] /\ Len(page) \in 1..Len(page)
      <4>1. Len(page) = SubjectPage
        BY <1>4, <1>5, <2>6
      <4>2. page # <<>>
        BY <1>5, <1>6, <4>1
      <4> QED BY <1>6, <4>1, <4>2
    <3>2. given # <<>> /\ given[Len(given)] = page[Len(page)]
      BY <1>5, <1>10, <3>1
    <3>3. ASSUME NEW r \in walkKnown, ~GivenIn(given, r)
          PROVE  PastCursor(r, next)
      <4>1. PICK i \in 1..Len(list) : list[i] = r /\ ~(i \in 1..Len(page))
        BY <2>5, <3>3
      <4>2. Len(page) < i
        BY <1>5, <4>1
      <4>3. next = list[Len(page)] /\ Len(page) \in 1..Len(list)
        BY <1>4, <3>1
      <4> QED BY <1>2, <4>1, <4>2, <4>3 DEF PastCursor
    <3> QED BY <3>1, <3>2, <3>3
  <2>7. ASSUME ~(Len(list) > SubjectPage)
        PROVE  \A r \in walkKnown : GivenIn(given, r)
    <3>1. Len(page) = Len(list)
      BY <1>4, <1>5, <2>7
    <3> QED BY <2>5, <3>1
  <2> QED BY <1>11, <2>3, <2>6, <2>7
<1>13. ~walk'.respelled => ~walk.respelled /\ cursor = walk.cursor
  BY <1>8, <1>11
<1>14. walkKnown' \subseteq subjectRows'
  BY <1>1, <1>8
<1>15. ~walk'.respelled =>
         /\ Descends(walk'.given)
         /\ walk'.at = "paging" =>
              /\ walk'.cursor = IF walk'.given = <<>> THEN Nothing ELSE walk'.given[Len(walk'.given)]
              /\ \A r \in walkKnown' : GivenIn(walk'.given, r) \/ PastCursor(r, walk'.cursor)
         /\ walk'.at = "done" => \A r \in walkKnown' : GivenIn(walk'.given, r)
  BY <1>1, <1>11, <1>12, <1>13, Zenon
<1> QED BY <1>11, <1>14, <1>15, Zenon DEF WalkInvariant, GivenIn, Descends, PastCursor, Listed

-----------------------------------------------------------------------------
(* The browser: every conjunct of its invariant, for a step that leaves    *)
(* the rows where they are or adds one.                                    *)
LEMMA TypeKeepsBrowser ==
  ASSUME BrowserInvariant, TypeText
  PROVE  BrowserInvariant'
<1>1. /\ portal' \in [text : BOOLEAN, alert : BOOLEAN, rows : SUBSET SubjectRow]
      /\ portal'.text /\ portal'.rows = portal.rows /\ portal'.alert = portal.alert
  BY DEF TypeText, BrowserInvariant, BrowserTypes
<1>2. /\ subjectRows' = subjectRows /\ filing' = filing /\ loads' = loads
      /\ lastFiled' = lastFiled /\ outrun' = outrun
  BY DEF TypeText
<1> QED BY <1>1, <1>2 DEF BrowserInvariant, BrowserTypes, ShownIn

LEMMA SubmitKeepsBrowser ==
  ASSUME BrowserInvariant, SubmitFiling
  PROVE  BrowserInvariant'
<1>1. /\ portal' \in [text : BOOLEAN, alert : BOOLEAN, rows : SUBSET SubjectRow]
      /\ portal'.text = portal.text /\ portal'.rows = portal.rows
  BY DEF SubmitFiling, BrowserInvariant, BrowserTypes
<1>2. /\ subjectRows' = subjectRows /\ loads' = loads /\ filing.at = "idle"
      /\ lastFiled' = lastFiled /\ outrun' = outrun
  BY DEF SubmitFiling
<1>3. filing'.at = "posting" /\ filing'.text = portal.text /\ filing'.id \in Filings
      /\ filing' \in [at : {"posting"}, id : Filings, text : BOOLEAN]
  BY DEF SubmitFiling, NewIds, BrowserInvariant, BrowserTypes
<1> QED BY <1>1, <1>2, <1>3 DEF BrowserInvariant, BrowserTypes, ShownIn

LEMMA CaptureKeepsBrowser ==
  ASSUME BrowserInvariant, CaptureFiling, subjectRows \subseteq subjectRows',
         \E r \in subjectRows' : r.id = filing.id
  PROVE  BrowserInvariant'
<1>1. /\ filing.at = "posting" /\ filing'.at = "stored" /\ filing'.text = filing.text /\ filing'.id = filing.id
      /\ filing' \in [at : {"idle", "posting", "stored", "refreshing"}, id : Filings \cup {Nothing},
                      text : BOOLEAN]
  BY DEF CaptureFiling, BrowserInvariant, BrowserTypes
<1>2. /\ portal' = portal /\ loads' = loads /\ lastFiled' = lastFiled /\ outrun' = outrun
  BY DEF CaptureFiling
<1> QED BY <1>1, <1>2 DEF BrowserInvariant, BrowserTypes, ShownIn

Load == [at : {"none", "asked", "answered"}, rows : SUBSET SubjectRow]

LEMMA LoadsChange ==
  ASSUME BrowserInvariant, NEW l \in Loads, NEW load \in Load, loads' = [loads EXCEPT ![l] = load]
  PROVE  /\ loads' \in [Loads -> Load]
         /\ \A k \in Loads : loads'[k] = IF k = l THEN load ELSE loads[k]
BY DEF BrowserInvariant, BrowserTypes, Load

LEMMA RefreshKeepsBrowser ==
  ASSUME BrowserInvariant, RefreshAfterFiling
  PROVE  BrowserInvariant'
<1> DEFINE load == [loads["again"] EXCEPT !.at = "asked"]
<1>1. "again" \in Loads /\ "first" \in Loads
  BY DEF Loads
<1>2. load \in Load /\ load.rows = loads["again"].rows /\ load.at = "asked"
  BY <1>1 DEF BrowserInvariant, BrowserTypes, Load
<1>3. loads' = [loads EXCEPT !["again"] = load]
  BY DEF RefreshAfterFiling
<1> HIDE DEF load
<1>4. /\ loads' \in [Loads -> Load]
      /\ \A k \in Loads : loads'[k] = IF k = "again" THEN load ELSE loads[k]
  BY <1>1, <1>2, <1>3, LoadsChange
<1>5. /\ filing.at = "stored" /\ filing'.at = "refreshing" /\ filing'.text = filing.text /\ filing'.id = filing.id
      /\ filing' \in [at : {"idle", "posting", "stored", "refreshing"}, id : Filings \cup {Nothing},
                      text : BOOLEAN]
  BY DEF RefreshAfterFiling, BrowserInvariant, BrowserTypes
<1>6. /\ portal' = portal /\ subjectRows' = subjectRows /\ lastFiled' = lastFiled
      /\ outrun' = (loads["first"].at # "none")
  BY DEF RefreshAfterFiling
<1> QED BY <1>1, <1>2, <1>4, <1>5, <1>6 DEF BrowserInvariant, BrowserTypes, ShownIn, Load

LEMMA AnswerKeepsBrowser ==
  ASSUME RowsInvariant, BrowserInvariant, NEW l \in Loads, AnswerLoad(l)
  PROVE  BrowserInvariant'
<1> DEFINE load == [at |-> "answered", rows |-> RowsShown]
<1>1. RowsShown \subseteq subjectRows /\ RowsShown \subseteq SubjectRow
  BY RowsShownIs DEF RowsInvariant
<1>2. load \in Load /\ load.rows = RowsShown /\ load.at = "answered"
  BY <1>1 DEF Load
<1>3. loads' = [loads EXCEPT ![l] = load] /\ loads[l].at = "asked"
  BY DEF AnswerLoad
<1> HIDE DEF load
<1>4. /\ loads' \in [Loads -> Load]
      /\ \A k \in Loads : loads'[k] = IF k = l THEN load ELSE loads[k]
  BY <1>2, <1>3, LoadsChange
<1>5. /\ portal' = portal /\ subjectRows' = subjectRows /\ lastFiled' = lastFiled
      /\ outrun' = outrun /\ filing' = filing
  BY DEF AnswerLoad
<1>6. l = "again" => filing.at = "refreshing" /\ ShownIn(RowsShown, filing.id)
  BY <1>3, FiledIsShown DEF BrowserInvariant
<1>7. "again" \in Loads /\ "first" \in Loads
  BY DEF Loads
<1>8. l = "first" => loads["first"].at # "none"
  BY <1>3
<1> QED BY <1>1, <1>2, <1>3, <1>4, <1>5, <1>6, <1>7, <1>8 DEF BrowserInvariant, BrowserTypes, ShownIn, Load

LEMMA ShowKeepsBrowser ==
  ASSUME BrowserInvariant, NEW l \in Loads, ShowLoad(l)
  PROVE  BrowserInvariant'
<1>1. NoLoad \in Load /\ NoLoad.rows = {} /\ NoLoad.at = "none"
  BY DEF Load, NoLoad
<1>2. /\ loads' \in [Loads -> Load] /\ loads[l].at = "answered"
      /\ \A k \in Loads : loads'[k] = IF k = l THEN NoLoad ELSE loads[k]
  BY <1>1, LoadsChange DEF ShowLoad
<1>3. "again" \in Loads /\ "first" \in Loads /\ (l = "again" \/ l = "first")
  BY DEF Loads
<1>4. subjectRows' = subjectRows /\ outrun' = outrun
  BY DEF ShowLoad
<1>5. loads[l].rows \subseteq subjectRows /\ loads[l].rows \subseteq SubjectRow
  BY DEF BrowserInvariant, BrowserTypes
<1>6. CASE l = "again"
  <2>1. /\ portal' \in [text : BOOLEAN, alert : BOOLEAN, rows : SUBSET SubjectRow]
        /\ portal'.rows = loads[l].rows /\ portal'.alert = portal.alert
        /\ filing' = NoFiling /\ lastFiled' = filing.id
    BY <1>5, <1>6 DEF ShowLoad, BrowserInvariant, BrowserTypes
  <2>2. /\ NoFiling \in [at : {"idle", "posting", "stored", "refreshing"}, id : Filings \cup {Nothing},
                         text : BOOLEAN]
        /\ NoFiling.at = "idle" /\ ~NoFiling.text
    BY DEF NoFiling
  <2>3. filing.at = "refreshing" /\ ShownIn(loads[l].rows, filing.id) /\ (~outrun => loads["first"].at = "none")
    BY <1>2, <1>6 DEF BrowserInvariant
  <2> QED BY <1>1, <1>2, <1>3, <1>4, <1>5, <1>6, <2>1, <2>2, <2>3
          DEF BrowserInvariant, BrowserTypes, ShownIn, Load
<1>7. CASE l = "first"
  <2>1. /\ portal' \in [text : BOOLEAN, alert : BOOLEAN, rows : SUBSET SubjectRow]
        /\ portal'.rows = loads[l].rows /\ portal'.alert = portal.alert /\ portal'.text = portal.text
        /\ filing' = filing /\ lastFiled' = lastFiled
    BY <1>5, <1>7 DEF ShowLoad, BrowserInvariant, BrowserTypes
  <2>2. outrun \/ ~(lastFiled # Nothing \/ filing.at = "refreshing")
    BY <1>2, <1>7 DEF BrowserInvariant
  <2> QED BY <1>1, <1>2, <1>3, <1>4, <1>5, <1>7, <2>1, <2>2
          DEF BrowserInvariant, BrowserTypes, ShownIn, Load
<1> QED BY <1>3, <1>6, <1>7

LEMMA FailKeepsBrowser ==
  ASSUME BrowserInvariant, FilingFails \/ FirstLoadFails
  PROVE  BrowserInvariant'
<1>1. NoLoad \in Load /\ NoLoad.rows = {} /\ NoLoad.at = "none"
  BY DEF Load, NoLoad
<1>2. "again" \in Loads /\ "first" \in Loads
  BY DEF Loads
<1>3. /\ portal' \in [text : BOOLEAN, alert : BOOLEAN, rows : SUBSET SubjectRow]
      /\ portal'.rows = portal.rows /\ portal'.alert /\ portal'.text = portal.text
  BY DEF FilingFails, FirstLoadFails, BrowserInvariant, BrowserTypes
<1>4. subjectRows' = subjectRows /\ outrun' = outrun /\ lastFiled' = lastFiled
  BY DEF FilingFails, FirstLoadFails
<1>5. CASE FilingFails
  <2>1. /\ NoFiling \in [at : {"idle", "posting", "stored", "refreshing"}, id : Filings \cup {Nothing},
                         text : BOOLEAN]
        /\ NoFiling.at = "idle" /\ ~NoFiling.text /\ filing' = NoFiling
    BY <1>5 DEF NoFiling, FilingFails
  <2>2. /\ loads' \in [Loads -> Load]
        /\ \A k \in Loads : loads'[k] = IF k = "again" THEN NoLoad ELSE loads[k]
    BY <1>1, <1>2, <1>5, LoadsChange DEF FilingFails
  <2> QED BY <1>1, <1>2, <1>3, <1>4, <2>1, <2>2 DEF BrowserInvariant, BrowserTypes, ShownIn, Load
<1>6. CASE FirstLoadFails
  <2>1. /\ loads' \in [Loads -> Load] /\ filing' = filing
        /\ \A k \in Loads : loads'[k] = IF k = "first" THEN NoLoad ELSE loads[k]
    BY <1>1, <1>2, <1>6, LoadsChange DEF FirstLoadFails
  <2> QED BY <1>1, <1>2, <1>3, <1>4, <2>1 DEF BrowserInvariant, BrowserTypes, ShownIn, Load
<1> QED BY <1>5, <1>6

LEMMA PortalStep == PortalInvariant /\ [PortalNext]_portalVars => PortalInvariant'
<1> SUFFICES ASSUME PortalInvariant, [PortalNext]_portalVars PROVE PortalInvariant'
  OBVIOUS
<1>1. RowsInvariant /\ WalkInvariant /\ BrowserInvariant
  BY DEF PortalInvariant
<1>2. subjectRows' = subjectRows => RowsInvariant'
  BY <1>1 DEF RowsInvariant
<1>3. CASE UNCHANGED portalVars
  <2>1. subjectRows' = subjectRows /\ UNCHANGED subjectWalk /\ UNCHANGED browserVars
    BY <1>3 DEF portalVars, subjectWalk, browserVars
  <2> QED BY <1>1, <1>2, <2>1, WalkStays, BrowserStays DEF PortalInvariant
<1>4. CASE FileElsewhere
  <2>1. PICK id \in NewIds : InsertRow(id)
    BY <1>4 DEF FileElsewhere
  <2>2. UNCHANGED subjectWalk /\ UNCHANGED browserVars
    BY <1>4 DEF FileElsewhere
  <2>3. RowsInvariant' /\ subjectRows \subseteq subjectRows'
    BY <1>1, <2>1, InsertKeepsRows
  <2> QED BY <1>1, <2>2, <2>3, WalkStays, BrowserStays DEF PortalInvariant
<1>5. CASE BeginWalk \/ NextSubjectPage \/ RefuseCursor
  <2>1. subjectRows' = subjectRows /\ UNCHANGED browserVars
    BY <1>5 DEF BeginWalk, NextSubjectPage, RefuseCursor
  <2>2. WalkInvariant'
    BY <1>1, <1>5, BeginKeepsWalk, PageKeepsWalk, RefuseKeepsWalk
  <2> QED BY <1>1, <1>2, <2>1, <2>2, BrowserStays DEF PortalInvariant
<1>6. CASE CaptureFiling
  <2>1. filing.id \in NewIds /\ InsertRow(filing.id) /\ UNCHANGED subjectWalk
    BY <1>6 DEF CaptureFiling
  <2>2. RowsInvariant' /\ subjectRows \subseteq subjectRows' /\ \E r \in subjectRows' : r.id = filing.id
    BY <1>1, <2>1, InsertKeepsRows
  <2> QED BY <1>1, <1>6, <2>1, <2>2, WalkStays, CaptureKeepsBrowser DEF PortalInvariant
<1>7. CASE TypeText \/ SubmitFiling \/ RefreshAfterFiling \/ FilingFails \/ FirstLoadFails
  <2>1. subjectRows' = subjectRows /\ UNCHANGED subjectWalk
    BY <1>7 DEF TypeText, SubmitFiling, RefreshAfterFiling, FilingFails, FirstLoadFails
  <2>2. BrowserInvariant'
    BY <1>1, <1>7, TypeKeepsBrowser, SubmitKeepsBrowser, RefreshKeepsBrowser, FailKeepsBrowser
  <2> QED BY <1>1, <1>2, <2>1, <2>2, WalkStays DEF PortalInvariant
<1>8. CASE \E l \in Loads : AnswerLoad(l) \/ ShowLoad(l)
  <2>1. subjectRows' = subjectRows /\ UNCHANGED subjectWalk
    BY <1>8 DEF AnswerLoad, ShowLoad
  <2>2. BrowserInvariant'
    BY <1>1, <1>8, AnswerKeepsBrowser, ShowKeepsBrowser
  <2> QED BY <1>1, <1>2, <2>1, <2>2, WalkStays DEF PortalInvariant
<1> QED BY <1>3, <1>4, <1>5, <1>6, <1>7, <1>8 DEF PortalNext, WalkNext, BrowserNext

(* The walk stands where its last page ended, with what it has been given  *)
(* in the order of the list; the portal's refreshes answer for the rows.   *)
THEOREM PortalInvariantHolds == PortalSpec => []PortalInvariant
<1> QED BY PortalStart, PortalStep, PTL DEF PortalSpec

(* GET /subjects/:subjectId walked page by page, and subject-portal.tsx,   *)
(* for any number of requests, receivedAt texts and size of a page: a walk *)
(* is given every request once, and the portal shows what it filed.        *)
THEOREM SubjectAlwaysSeesOwn == PortalSpec => []SubjectSeesOwn
<1>1. PortalInvariant => SubjectSeesOwn
  <2> SUFFICES ASSUME PortalInvariant PROVE SubjectSeesOwn
    OBVIOUS
  <2>1. PagesAreWhole
    <3> SUFFICES ASSUME ~walk.respelled
                 PROVE  IsInjective(walk.given) /\ (walk.at = "done" => walkKnown \subseteq ToSet(walk.given))
      BY DEF PagesAreWhole
    <3>1. /\ walk.given \in Seq(SubjectRow) /\ Descends(walk.given)
          /\ walk.at = "done" => \A r \in walkKnown : GivenIn(walk.given, r)
      BY DEF PortalInvariant, WalkInvariant
    <3>2. DOMAIN walk.given = 1..Len(walk.given) /\ Len(walk.given) \in Nat
      BY <3>1
    <3>3. \A i \in 1..Len(walk.given) : ~Listed(walk.given[i], walk.given[i])
      BY <3>1, ListedOrders
    <3>4. \A i, j \in 1..Len(walk.given) : i < j \/ j < i \/ i = j
      BY <3>2
    <3>5. IsInjective(walk.given)
      BY <3>1, <3>2, <3>3, <3>4 DEF IsInjective, Descends
    <3> QED BY <3>1, <3>2, <3>5 DEF GivenIn, ToSet
  <2>2. PortalIsHonest
    BY DEF PortalInvariant, BrowserInvariant, ShownIn, PortalIsHonest
  <2> QED BY <2>1, <2>2 DEF SubjectSeesOwn
<1> QED BY <1>1, PortalInvariantHolds, PTL
=============================================================================
