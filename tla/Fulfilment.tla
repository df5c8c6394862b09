------------------------------ MODULE Fulfilment ------------------------------
(***************************************************************************)
(* The manifest, fulfilment and delivery routes of routes/requests.ts      *)
(* beside the transitions of RequestRecord. All of them work on the newest *)
(* row of fulfillment_artifacts, which each route lists for itself and     *)
(* writes by id later, one column at a time: a callback may have added a   *)
(* newer row meanwhile.                                                    *)
(*                                                                         *)
(* Left out: the artifacts a callback lists itself, delivery/prepare and   *)
(* the routes that only read.                                              *)
(***************************************************************************)
EXTENDS RequestRecord

CONSTANTS
  Manifests,     \* ids of fulfillment_artifacts rows
  Artifacts,     \* ids makeRequestId returns for uploaded artifacts
  MaxTokens,     \* bound: step-up challenges issued
  EmailEnabled,  \* an e-mail adapter is configured beside the webhook
  NoManifest, NoArtifact

ASSUME FulfilmentAssumption ==
  /\ MaxTokens \in Nat /\ EmailEnabled \in BOOLEAN
  /\ NoManifest \notin Manifests /\ NoArtifact \notin Artifacts

VARIABLES
  manifests,  \* fulfillment_artifacts: creation time (0: no row), review,
              \* listed artifacts and token gate
  stored,     \* artifacts whose bytes the storage adapter holds
  clock,      \* the time; it is read only where the order of rows depends on it
  tokens,     \* step-up tokens made so far
  notice,     \* the token in the persisted step-up event (0: no such event)
  sent,       \* tokens that have been sent to anyone
  expired,    \* tokens made more than a day ago
  work,       \* what a handler has read of the manifests
  uploaded,   \* history: artifacts some call has listed in a manifest
  proven,     \* history: tokens submitted while pending and not expired
  overlapped  \* history: entries were written over entries not read

delivery == <<stored, clock, tokens, notice, sent, expired>>
traces   == <<uploaded, proven, overlapped>>
newVars  == <<manifests, delivery, work, traces>>
fulfilmentVars == <<recordVars, newVars>>

NoGate == [token |-> 0, status |-> "none"]
NoRow  == [at |-> 0, review |-> "none", entries |-> {}, gate |-> NoGate]
NoWork == [target |-> NoManifest, entries |-> {}, artifact |-> NoArtifact,
           token |-> 0, at |-> 0, review |-> "none", stale |-> FALSE]

Existing == {m \in Manifests : manifests[m].at # 0}

(* listByRequestId, ORDER BY created_at DESC: the first row.               *)
Newest ==
  IF Existing = {} THEN NoManifest
  ELSE CHOOSE m \in Existing : \A n \in Existing : manifests[n].at <= manifests[m].at

NewestRow == IF Newest = NoManifest THEN NoRow ELSE manifests[Newest]

(* makeRequestId: an id no call has had.                                   *)
FreshArtifact ==
  {a \in Artifacts : a \notin stored \cup uploaded /\ \A g \in Handlers : work[g].artifact # a}

(* Other handlers on the given routes hold what is no longer so.           *)
Outdate(h, routes, m) ==
  [g \in Handlers |->
     IF g # h /\ call[g].route \in routes /\ work[g].target \in m
     THEN [work[g] EXCEPT !.stale = TRUE] ELSE work[g]]

Open(h, route, label, w) ==
  Begin(h, [NoCall EXCEPT !.route = route], label) /\ work' = [work EXCEPT ![h] = w]

Proceed(h, label) ==
  Goto(h, label) /\ UNCHANGED <<record, call, budget, history>>

FulfilmentInit ==
  /\ RecordInit
  /\ manifests = [m \in Manifests |-> NoRow]
  /\ stored = {} /\ clock = 0 /\ tokens = 0 /\ notice = 0 /\ sent = {} /\ expired = {}
  /\ work = [h \in Handlers |-> NoWork]
  /\ uploaded = {} /\ proven = {} /\ overlapped = FALSE

-----------------------------------------------------------------------------
(* A row is inserted; its id holds the time and is taken to be new.        *)
Create(h, at, entries) ==
  \E m \in Manifests \ Existing :
    /\ manifests' = [manifests EXCEPT ![m] =
                       [NoRow EXCEPT !.at = at, !.review = "pending", !.entries = entries]]
    /\ work' = Outdate(h, {"fulfil"}, Manifests \cup {NoManifest})

(* POST /fulfilment/callbacks: the audit entry and the notification come   *)
(* first, and every callback inserts a row of its own.                     *)
StartCallback(h) ==
  /\ Open(h, "callback", "create", NoWork)
  /\ UNCHANGED <<manifests, delivery, traces>>

CreateManifest(h) ==
  /\ pc[h] = "create"
  /\ clock' = clock + 1
  /\ Create(h, clock + 1, {})
  /\ Proceed(h, "announce")
  /\ UNCHANGED <<stored, tokens, notice, sent, expired, traces>>

(* POST /manifest/artifact/upload: the time is taken before the bytes are  *)
(* stored and the manifests listed.                                        *)
StartUpload(h) ==
  \E a \in FreshArtifact :
    /\ Open(h, "upload", "put", [NoWork EXCEPT !.artifact = a, !.at = clock + 1])
    /\ clock' = clock + 1
    /\ UNCHANGED <<manifests, stored, tokens, notice, sent, expired, traces>>

PutObject(h) ==
  /\ pc[h] = "put"
  /\ stored' = stored \cup {work[h].artifact}
  /\ Proceed(h, "list")
  /\ UNCHANGED <<manifests, clock, tokens, notice, sent, expired, work, traces>>

ListForAttach(h) ==
  /\ pc[h] = "list"
  /\ work' = [work EXCEPT ![h].target = Newest, ![h].entries = NewestRow.entries]
  /\ Proceed(h, "attach")
  /\ UNCHANGED <<manifests, delivery, traces>>

(* A mutant: the entries read are replaced by the one.                     *)
EntriesOnlyNew(h) == {work[h].artifact}

(* currentArtifacts.push, or newArtifacts with one entry revised.          *)
EntriesAfter(h) == work[h].entries \cup {work[h].artifact}

(* The entries read are written back with the artifact; without a row, one *)
(* is inserted with the time of the start, behind rows inserted since.     *)
Attach(h) ==
  /\ pc[h] = "attach"
  /\ IF work[h].target = NoManifest
     THEN Create(h, work[h].at, EntriesAfter(h)) /\ UNCHANGED overlapped
     ELSE /\ manifests' = [manifests EXCEPT ![work[h].target].entries = EntriesAfter(h)]
          /\ overlapped' = (overlapped \/ work[h].stale)
          /\ work' = Outdate(h, {"upload", "replace"}, {work[h].target})
  /\ uploaded' = uploaded \cup {work[h].artifact}
  /\ Proceed(h, "announce")
  /\ UNCHANGED <<delivery, proven>>

(* PUT /manifest/artifact/:id/replace: the object is overwritten, then the *)
(* entries read are written back.                                          *)
StartReplace(h) ==
  \E a \in NewestRow.entries :
    /\ Open(h, "replace", "overwrite",
            [NoWork EXCEPT !.target = Newest, !.entries = NewestRow.entries, !.artifact = a])
    /\ UNCHANGED <<manifests, delivery, traces>>

OverwriteObject(h) ==
  /\ pc[h] = "overwrite"
  /\ stored' = stored \cup {work[h].artifact}
  /\ Proceed(h, "attach")
  /\ UNCHANGED <<manifests, clock, tokens, notice, sent, expired, work, traces>>

(* POST /manifest/validation: the newest row, approved or rejected.        *)
StartReview(h) ==
  \E verdict \in {"approved", "rejected"} :
    /\ Newest # NoManifest
    /\ Open(h, "review", "validate", [NoWork EXCEPT !.target = Newest, !.review = verdict])
    /\ UNCHANGED <<manifests, delivery, traces>>

WriteReview(h) ==
  /\ pc[h] = "validate"
  /\ manifests' = [manifests EXCEPT ![work[h].target].review = work[h].review]
  /\ work' = Outdate(h, {"fulfil"}, {work[h].target})
  /\ Proceed(h, "announce")
  /\ UNCHANGED <<delivery, traces>>

(* A mutant: a row nobody has reviewed will do.                            *)
StartFulfilUnreviewed(h) ==
  /\ Newest = NoManifest \/ NewestRow.review # "rejected"
  /\ Begin(h, [NoCall EXCEPT !.route = "fulfil", !.action = "fulfil"], "transition")
  /\ work' = [work EXCEPT ![h] = [NoWork EXCEPT !.target = Newest]]
  /\ UNCHANGED <<manifests, delivery, traces>>

(* POST /fulfilment: the newest row, if there is one, has to be approved;  *)
(* the transition follows.                                                 *)
StartFulfil(h) ==
  /\ Newest = NoManifest \/ NewestRow.review = "approved"
  /\ Begin(h, [NoCall EXCEPT !.route = "fulfil", !.action = "fulfil"], "transition")
  /\ work' = [work EXCEPT ![h] = [NoWork EXCEPT !.target = Newest]]
  /\ UNCHANGED <<manifests, delivery, traces>>

-----------------------------------------------------------------------------
(* POST /delivery/step-up/challenge: a new token becomes the gate of the   *)
(* newest row.                                                             *)
StartChallenge(h) ==
  /\ Newest # NoManifest /\ tokens < MaxTokens
  /\ tokens' = tokens + 1
  /\ Open(h, "challenge", "gate", [NoWork EXCEPT !.target = Newest, !.token = tokens + 1])
  /\ UNCHANGED <<manifests, stored, clock, notice, sent, expired, traces>>

WriteGate(h) ==
  /\ pc[h] = "gate"
  /\ manifests' = [manifests EXCEPT ![work[h].target].gate =
                     [token |-> work[h].token, status |-> "pending"]]
  /\ Proceed(h, "notify")
  /\ UNCHANGED <<delivery, work, traces>>

(* The key `step-up-challenge:<request>` is the same for every challenge:  *)
(* the webhook sends the persisted event, which holds the first token. The *)
(* e-mail is rendered from the new draft.                                  *)
NotifyChallenge(h) ==
  /\ pc[h] = "notify"
  /\ notice' = IF notice = 0 THEN work[h].token ELSE notice
  /\ sent' = sent \cup {notice'} \cup (IF EmailEnabled THEN {work[h].token} ELSE {})
  /\ Proceed(h, "announce")
  /\ UNCHANGED <<manifests, stored, clock, tokens, expired, work, traces>>

(* A mutant: the gate is not asked when it expires.                        *)
UnlocksExpired(t) == NewestRow.gate = [token |-> t, status |-> "pending"]

Unlocks(t) == t \notin expired /\ NewestRow.gate = [token |-> t, status |-> "pending"]

(* POST /delivery/step-up/complete with a token that was sent; the gate    *)
(* just read is written back as completed.                                 *)
StartComplete(h) ==
  \E t \in sent :
    /\ Unlocks(t)
    /\ Open(h, "complete", "unlock", [NoWork EXCEPT !.target = Newest, !.token = t])
    /\ proven' = proven \cup ({t} \ expired)
    /\ UNCHANGED <<manifests, delivery, uploaded, overlapped>>

WriteComplete(h) ==
  /\ pc[h] = "unlock"
  /\ manifests' = [manifests EXCEPT ![work[h].target].gate =
                     [token |-> work[h].token, status |-> "completed"]]
  /\ Proceed(h, "announce")
  /\ UNCHANGED <<delivery, work, traces>>

(* A day passes: the oldest token that has not expired does.               *)
Expire ==
  /\ \E t \in (1..tokens) \ expired :
       /\ \A u \in (1..tokens) \ expired : t <= u
       /\ expired' = expired \cup {t}
  /\ UNCHANGED <<recordVars, manifests, stored, clock, tokens, notice, sent, work, traces>>

-----------------------------------------------------------------------------
FulfilmentStart(h) ==
  \/ StartCallback(h) \/ StartUpload(h) \/ StartReplace(h) \/ StartReview(h)
  \/ StartFulfil(h) \/ StartChallenge(h) \/ StartComplete(h)

FulfilmentStep(h) ==
  \/ CreateManifest(h) \/ PutObject(h) \/ ListForAttach(h) \/ Attach(h) \/ OverwriteObject(h)
  \/ WriteReview(h) \/ WriteGate(h) \/ NotifyChallenge(h) \/ WriteComplete(h)

(* A step of RecordNext; what a finished call has read is forgotten.       *)
RecordPart(h) ==
  /\ RecordStart(h) \/ RecordStep(h) \/ Fail(h)
  /\ work' = [work EXCEPT ![h] = IF pc'[h] = "idle" THEN NoWork ELSE @]
  /\ UNCHANGED <<manifests, delivery, traces>>

FulfilmentNext ==
  \/ \E h \in Handlers : FulfilmentStart(h) \/ FulfilmentStep(h) \/ RecordPart(h)
  \/ Expire

FulfilmentSpec == FulfilmentInit /\ [][FulfilmentNext]_fulfilmentVars

-----------------------------------------------------------------------------
(* Properties.                                                             *)

(* An artifact a call has listed stays listed in some manifest, and what   *)
(* is listed is stored - whatever is uploaded, replaced or called back in  *)
(* between - unless two writes to one manifest overlapped.                 *)
UploadsKept ==
  LET listed == UNION {manifests[m].entries : m \in Existing}
  IN  listed \subseteq stored /\ (overlapped \/ uploaded \subseteq listed)

(* The fulfil route writes its status without a manifest or with the       *)
(* newest one approved, unless the manifests changed after it looked.      *)
Fulfils(h) ==
  /\ pc[h] = "status_write" /\ call[h].action = "fulfil"
  /\ pc'[h] # pc[h] /\ row' # row

FulfilledWasApproved ==
  [][\A h \in Handlers :
       Fulfils(h) => \/ Newest = NoManifest \/ NewestRow.review = "approved"
                    \/ work[h].stale]_fulfilmentVars

(* The artifacts of a request can be downloaded with a token only when     *)
(* that token was submitted before it expired, whatever challenges,        *)
(* completions and callbacks overlap.                                      *)
OpensOnlyProven ==
  NewestRow.gate.status = "completed" => NewestRow.gate.token \in proven

(* delivery.mdx has a challenge issue a token to use: the token of a       *)
(* challenge that was served without a fault has been sent to the subject. *)
TokenReachesSubject ==
  \A m \in Existing :
    /\ manifests[m].gate.status = "pending" /\ faults = 0
    /\ \A h \in Handlers : work[h].token = manifests[m].gate.token => pc[h] = "idle"
    => manifests[m].gate.token \in sent
=============================================================================
