# Formal models of the DSAR backend

TLA+ models of the stateful parts of this repository (a data-subject-request
backend: `packages/backend`, the persistence service it runs on and the packages
around it), model-checked with TLC and, for the properties that matter most,
proved with TLAPS.

    tlc -config MCDeliveryRetries.cfg MCWebhookDelivery.tla
    tlc -config MCLifecyclePair.cfg MCRequestLifecycle.tla
    tlc -config MCRequests.cfg MCRequests.tla
    tlc -config MCEdges.cfg MCEdges.tla
    tlapm WebhookDelivery_proofs.tla

## 1. The system

Request handlers (`packages/backend/src/routes`) run concurrently, in any number
of server instances, over one SQL database. The persistence service
(`packages/internals/persistence`) executes most repository calls as one
statement, some (signing keys, the chat's lists and queues) as a transaction.
**No handler opens a transaction of its own**: whatever a handler does is a
sequence of separately visible statements, each of which can be the last one
before the process dies. Most of the properties below exist because of that.

| Component | State | Operations | Hard part | Module |
|---|---|---|---|---|
| Outbound webhook queue (`services/notifications`) | `notification_events`, `notification_delivery_attempts` | emit, replay, claim, send, record, dead hook | leases, late writers, crashes between statements, retries of calls | `WebhookDelivery` |
| E-mail channel (`services/notifications`, `outbound-resend`) | delivery rows, the provider's idempotency keys | send, time out, retry | an answer that comes too late; emissions repeated | `EmailChannel` |
| Request lifecycle (`lifecycle`) | request row (status, due date), timeline, clock segments | capture, transition, explain | read-check-append-update without a lock; a crash after the timeline append | `StateMachine`, `Lifecycle`, `RequestLifecycle`, `RequestCapture` |
| Legal clock (`services/legal-clock`) | none (computed from the timeline) | compute, dedupe segments | open pauses, pauses requested again, caps | `LegalClock` |
| Request routes (`routes/requests.ts`) | request row's requestor and appeals, fulfilment manifests, delivery gate | appeals, decisions, uploads, replacement, review, fulfilment, callbacks, step-up | read-modify-write of JSON columns, guards checked long before they are used | `RequestRecord`, `Fulfilment` |
| Dispatch and key routes (`routes/webhooks`) | replay markers in the audit trail, signing keys and their grace window | list, replay, rotate, roll back | marker written before the work; a rollback racing a rotation | `AuditTrail`, `SigningKeys`, `Tail` |
| Audit trail (`audit`) | hash chain per request | append, export, verify | read-then-append forks | `AuditTrail` |
| Inbound capture (`routes/inbound-capture.ts`, the SDK's fetcher) | request rows by key | deliver, retry | look-up in the newest page, insert later | `RequestCapture` |
| Rate limiting (`rate-limit.ts`, `redis`, `upstash`) | counters per window | consume | window borders, clocks that differ, a full map | `RateLimit` |
| Policy packs and engine (`internals/policy-*`) | registry, pins, proposals | register, pin, upgrade, resolve, evaluate | an await between check and insertion; precedence of rules; two engines for one deadline | `PolicyPacks`, `PolicyEngine` |
| Chat runtime state (`core/src/chat.ts`) | locks, queues, lists, caches, subscriptions | lock, extend, release, enqueue, dequeue, append | the bot's clock against the database's; READ COMMITTED | `ChatLock`, `ChatQueue`, `ChatList` |
| Start of the persistence layer (`migrations.ts`, the drivers) | schema, recorded migrations, advisory lock | migrate | instances of several releases started together | `Migrations` |
| CLI tails (`cli/src/commands/*-tail.ts`) | watermark, what was printed | poll, page | pages that shift while they are read | `Tail` |
| Filesystem store (`storage-filesystem`) | a file and its sidecar | put, get, delete, retry | two files that must be of one version | `ArtifactFiles` |
| Operator's queue (`react/src/operator-queue.tsx`) | cards, look-ups, confirmations, one refusal form | click, refuse, export, refresh | calls that overlap, answers out of order, other operators | `OperatorQueue` |
| Other routes, schemas, SDK wrappers, the portal, other adapters | none of their own worth a model | parsing, I/O, HTTP calls | third-party I/O | - |

How they interact: a route calls the lifecycle service; a transition appends to
the timeline, recomputes the legal clock, updates the request row, appends to
the audit trail and emits notifications; an emission appends an event and its
delivery rows and tries the first send at once; retry runners drain the rest. A
capture resolves a policy pack first. The chat, the rate limits, the migrations,
the tails and the stores share no state with each other or with these.

## 2. How the project is laid out

- One module per component, with its state, one action per statement (or per
  transaction, or per call of the outside world) and its properties at the end.
- `Lifecycle` is the abstract specification of a lifecycle call;
  `RequestLifecycle` is the detailed one and implements it (`AtomicWhenAlone`).
  `Fulfilment` extends `RequestRecord`, so that the routes over manifests and
  those over the request row interleave in one model.
- `MC*` modules and `*.cfg` instantiate them for TLC. `MCEdges` puts thirteen
  components that share nothing into one run: a variable chosen at the start says
  whose behaviour it is, the others stay where they are. Its reachable states are
  the disjoint union of the thirteen, so an invariant that holds there holds in each.
- `*_proofs` modules hold the theorems. `Custody_proofs` is about what comes in and what
  is kept as proof: the public intake, its limits, the audit trail and the signing keys;
  `Requests_proofs` about fulfilment, evidence, objects and the subject's portal;
  `Edges_proofs` about the small modules that share nothing. `LegalClock_proofs` and
  `Recursion_proofs` have no theorem of their own: the one holds the lemmas about the
  deadline computation that `Lifecycle_proofs` rests on, the other those about loops,
  recursion and sorting that all rest on. `ObjectStores` joins the two stores whose
  property, `StoresAreWhole`, is one.
- Operators named after a plausible bug ("A mutant: ...") stand before the
  definition they would replace; each property fails with one of them in place.

Later work, in the order it would pay: the
routes not yet modelled (notes, the listing of artifacts by a callback,
`delivery/prepare`); bulk replay.

## 3. `WebhookDelivery`: the durable webhook queue

Source: `services/notifications/{service,retry,schedule}.ts`,
`routes/webhooks/dispatches.ts` (admission of a replay) and the
`notificationDeliveryAttempts` statements of `persistence.ts`.

**State.** `row[j]` is a webhook row of `notification_delivery_attempts`:
`status`, `attempt`, `event`, and two timestamps kept as *ticks still to go*:
`wait` for `next_attempt_at` (`Never` for NULL) and `claim` for
`claim_expires_at` (0 when NULL or past). The code only ever compares these two
with now, so absolute time is not needed. `eventKey[e]` is a
`notification_events` row. A process (`Workers` poll, `Handlers` emit and
replay) has a `pc` naming its next statement, the jobs it still has to process
(`batch`), what its call works for (`call`) and the claim it took (`held`).

**Actions.** One per statement, in the code's order:
`EmitStart` (look up the key) - `AppendEvent` - `FindJob` - `AppendJob` or
`ResetJob`; `ReplayStart` - `FindReplayable` - `ResetJob`; `ListDue`; then, for
every job of a batch, `Claim` or `PassOver`, `Send`, `Record`,
`AppendTimeline`, `NotifyDead`; `Return` ends the call. `StatementFails` is an
error the runner swallows before it goes on with its batch, `Crash` the end of
the process or of a handler's call at any statement, `Tick` time. A request on
the wire is aborted five seconds before its lease ends, so a lease that runs
out under its holder needs a stall elsewhere (an adapter's own send, a key look-up,
the database, a suspended process): `Tick` lets at most `MaxOverruns` happen.

**Abstractions.** A batch is a set: its order is every order. The payload,
signature, response code and e-mail row are left out. A send is one of
`Outcomes`. The dead hook is assumed configured. The replay route's marker and
audit entries are in `AuditTrail`, the e-mail an emission sends in `EmailChannel`.

### Runs

| Run | Question | Bounds |
|---|---|---|
| `delivery_retries` | types, retry policy, exclusive leases, accounting of sends, timeline and dead hooks while two runners and a handler compete | 1 job, 3 attempts, lease of 2 ticks, 1 fault, 1 overrun |
| `delivery_replay` | can calls that fail and are repeated leave an event or a row twice | 2 handlers, no runner, 1 key, 3 events, 3 rows, 3 calls, 1 fault |
| `delivery_liveness` | due jobs settle, dead ones are reported, events get their rows | 2 runners, 1 handler, 1 job, 1 fault, 1 overrun |

The bounds are enough for the cases the hazards name: a policy of three attempts
has a first, a middle and a last one; two holders of one claim need one overrun;
a late writer over its successor's row needs two processes; a lease of two ticks
can be partly used. `MaxFaults`, `MaxCalls`, `MaxOverruns` are the only caps, and
each property is stated in their counters so that it does not depend on the cap.

`delivery_retries` checks the properties no test of the repository reaches:

- `RetryPolicyRespected` - whatever is written late, twice or out of order, a row
  that can still be picked up has attempts left and no number passes the maximum.
- `LeaseExclusive` - two processes never both hold an unexpired lease, although
  the outcome is written by id alone and clears whatever claim is there. This
  rests on every backoff being at least a lease (the default schedule's shortest
  is 60 s, the default lease 35 s); with a shorter backoff it is false, so the
  property carries `DelaysCoverLease`.
- `SendsAccounted`, `TimelineMatchesAttempts`, `DeadReportedOnce`,
  `ProgressNeverUndone` - how far sends, timeline rows and dead hooks can drift
  from the attempts the row counts, and what it takes.

- `OneEventUnlessTogether` - a key leaves two events, or an
  event two rows, only in a behaviour in which two emissions with that key were
  under way at the same time: the look-up and the append are two statements, but a
  client that retries after a crash duplicates nothing. One row per event supposes
  that every handler has an endpoint: one without appends a pending row at each call.
- `EveryDueJobSettles`, `DeadIsReported`, `EveryEventGetsJob` - what must happen
  eventually, each up to the faults that excuse it.

**Fairness** (`FairSpec`). A handler's started call runs on; a runner polls
forever (`Effect.forever` over sleep and drain), so `ListDue` is weakly fair per
runner; each process's delivery statements are weakly fair; time passes. A new
emission or replay is a client's choice and is not fair.

### Proofs

`WebhookDelivery_proofs` proves for **every** number of runners, handlers, keys,
events and jobs, every schedule, maximum and lease:

| Theorem | Property | Argument |
|---|---|---|
| `TypeCorrect` | `TypeOK` | inductive as it stands; it includes which `pc` values imply a job and an outcome |
| `RetryPolicyHolds` | `RetryPolicyRespected` | `PolicyKept` adds that *every* process between claim and record carries an attempt number within the policy, so a late write cannot break the row |
| `LeasesExclude` | `LeaseExclusive` | `LeaseInv` ties a holder's unexpired lease to the row: either the row's claim covers it, or the row was written by another and its `wait` (a backoff) covers it |
| `ProgressStands` | `ProgressNeverUndone` | `SoleHolder`: without overruns and re-arming a holder's claim is the row's claim and there is one holder |
| `DeadIsReportedOnce` | `DeadReportedOnce` | `HooksInvariant` counts: the reports made, the processes that may still report and, unless the row is settled or its claim is a holder's, one for the next holder fit into 1 + re-armings. A late writer may clear its successor's claim; the hold it lets a third process take is the one it gives up |
| `TimelineIsComplete` | `TimelineMatchesAttempts` | `TimelineInvariant` on top of `SoleHolder`: who holds a job makes the attempt after those its row counts |
| `SendsAreAccounted` | `SendsAccounted` | `SendsInvariant`: the attempts the row still has and those each holder still has are a finite set of tokens which, with the sends made, fits into what is allowed. A claim hands the row's tokens to the holder, a record hands them back, a send spends one; only an overrun, a re-arming or a fault adds any |
| `OneEventHolds` | `OneEventUnlessTogether` | `EmissionInvariant`: what a handler looked up and did not find is still not there when it appends, because whoever could have added it emits the same key. Every step keeps it that does not run together with another emission of its key |

Assumptions: the named ASSUMEs of the module (a non-empty schedule of naturals,
a positive lease and batch limit, `Never` outside the naturals, ids not
exhausted). `RetryMaxAttempts` may be any integer, as the configuration allows.
`LeaseInv` and `SoleHolder` are not visible to a reader of the code; they are
the reason the two properties are true and need induction of their own.

## 4. `LegalClock`, `StateMachine`, `Lifecycle`, `RequestLifecycle`: the life of a request

Source: `lifecycle/{service,state-machine,policy,clock}.ts`,
`services/legal-clock/engine.ts`, the authority routes of `routes/requests.ts`
and the `requests`, `timeline` and `clockSegments` statements of
`persistence.ts`.

**`LegalClock`** holds the deadline computation as operators over a timeline:
`Scan` is the loop body of `parsePauseWindows`, `FinalDueAt` and `Segments` what
`computeLegalClock` returns, in days since receipt. `CreditedDays` defines the
same credit by quantifiers, day by day, for comparison.

**`StateMachine`** has the transition tables and the decision on a call.

**`Lifecycle`** is the abstract specification: a lifecycle call as *one* step (`Transition`) that checks, logs its event,
recomputes the due date from the whole log and sets the status. `Abandon` is a
call that failed after its event: the service has no compensation, so even the
promise has to admit a logged event without an effect on the row.

**`RequestLifecycle`** is the code's own sequence of statements for one request:
read (`StartTransition`), look up the key and decide (`Check`), `AppendEvent`,
`Recompute`, `AppendSegment` for each new segment, `FetchRow` and `WriteRow`
(the two halves of `requests.update`), `AppendAudit`, `Notify`. The authority
routes run `FetchRow`, `WriteRow`, `AppendEvent`, `AppendAudit` on the same row.
`Fail` ends a call after any statement. `row.basis` and the sets after `faults`
are history variables. The listing is ordered by `created_at`, the time taken in
`Check`, so `AppendEvent` inserts by time and not at the end.

**Refinement.** `AtomicWhenAlone` is `Life!Spec` under a mapping in which a
call's event enters the abstract log when the row is written (or the call ends):
with one handler the statements implement the atomic calls, failures included.
With two they do not: a call checks the state machine against a row read
several statements before (`lifecycle/service.ts:294`).

**Abstractions.** Actors, rationales and payloads are left out (the routes refuse
an extension or a refusal without a rationale before anything is read). The
policy is three constants; a policy decision is `RefusalEligible`. One request is
modelled, since no statement of these handlers touches another's rows; time is
days, which only makes more events coincide. Segments are kept as the signatures
`dedupeClockSegments` compares.

### Runs

| Run | Question | Bounds |
|---|---|---|
| `requests`, part "lifecycle" | is the deadline a count of days in every permitted history (`Lifecycle` alone) | 5 calls, 2 days, extensions of 3 and -1 under a cap of 4, both pauses stop the clock |
| `lifecycle_alone` | do the statements implement `Lifecycle`, is a key recorded once, is every change announced | 1 handler, every action and authority call, 4 calls, 1 failure, 1 day |
| `lifecycle_pair` | what survives interleaving | 2 handlers, every action, 3 calls, 1 failure, 1 day |
| `retry_violation` | section "Disagreements" | the smallest instance that shows it |

Five calls reach every status except a second closure, and hit the cap with two
extensions; four calls verify a request, extend it, fail and retry the
extension; three calls of two handlers are enough for a stale read, a write-back
and an out-of-order event. Fairness: a call that was started runs on
(`WF` of each handler's own statements); nobody has to call.

### Proved (`Lifecycle_proofs`, `RequestLifecycle_proofs`)

`Lifecycle_proofs`, for every policy and histories of any length:

- `CreditIsExact`: `Spec => []CreditIsCountedDays`; `DeadlineHolds`:
  `Spec => []DeadlineIsLawful`; `DueIsTakenBackOnlyWhenAsked`:
  `Spec => DueMovesBackOnlyWhenAsked`.
- All three rest on `ClockInvariant` (`ClockIsKept`): the due date is not always the
  one the log gives, since a call that failed after its event leaves the row alone; it is
  the one a *beginning* of the log gave, at a time no later than what follows.
- `EnginesAlwaysAgree`: `EngineSpec => []EnginesAgree`, for every pack, request and
  timeline. The assumptions on packs are distinct ids of rules, whole days and a cap
  on extensions that is not negative. `MergedIsHighest` numbers the matching rules
  from below and shows, rank by rank, that a field is what the highest rule so far made
  of it; `EngineInvariant` says that after every event the sums of `parsePauseWindows`
  and `parseExtensionDays` are the days in `LegalClock`'s windows (`Same`), which holds because windows of
  one reason never overlap (`InTime`). `PolicyEngine` takes `LegalClock` by `INSTANCE`
  with expressions over its own state for the policy, and the lemmas `SameScanned` and
  `LegalStopped` carry what is proved of the one over to the other.
- `LegalClock_proofs` says what the loops compute. `Recursion` (`Recursion_proofs`) shows that a function
  defined along the positions of a timeline has the value its definition says;
  `Throughout` is induction over positions by a least counterexample. With them
  `ScannedDescribes` describes the windows after any number of events without the
  loop, `WindowRunsOn` where a window's days are, and `CreditIsPairs` that adding up the
  windows counts each waiting day once (a bijection, not a recount).

`RequestLifecycle_proofs`:

For any number of handlers and calls, any policy and any failures:

- `StatusIsRecorded`: `Spec => []StatusHasEvent`. `StatusHasEvent` alone is not
  inductive: an authority call writes back a status it read earlier, and a
  transition writes the outcome of an event another statement appended.
  `StatusInvariant` adds that a row which is about to be written back was
  explained when it was read (and, as the timeline and the applied calls only
  grow, still is) and that the call that writes has its event in the timeline.
  `InsertKeeps` is the lemma about the ordered insert; `CallKindsInvariant` the
  typing both theorems rest on.
- `DueDateIsBacked`: `Spec => []DueIsExplained`. `BasisInvariant` follows the pause
  segments a due date was computed from on their way to the row: what a call has
  read, computed or fetched rests on segments already stored, or on those it stores
  before it writes.
- `KeysAreUsedOnce`: `Spec => []OneCallPerKey`, for calls made one at a time.
  `KeyInvariant` adds that a call between its duplicate check and its append holds a
  key the timeline does not have; `InsertUnique` is the lemma about the ordered
  insert.

- `AloneIsAtomic`: with one handler `Spec => AtomicWhenAlone`, the refinement of
  `Lifecycle`. `AloneInvariant` says of the call being served that what it read still
  holds, that its event is the last of the timeline once appended and that its due date
  is the timeline's; `LogAppend` and `LogNext` are what a recorded event does to the
  abstract log, and `ClockOfLog` shows that the clock does not see the events of the
  authority routes, so the abstract log gives the same due date. Every statement is then a
  stutter, except `WriteRow` and `Fail` of a call whose event is recorded, which are
  `Transition` and `Abandon`.


## 5. `RequestRecord`, `Fulfilment`: the request routes

Source: `routes/requests.ts`, `requests.update` and the `fulfillmentArtifacts`
statements of `persistence.ts`. Authority calls are in `RequestLifecycle`.

**State.** `row` is the request row with the columns these routes write, `intended`
the row as the calls meant it; `manifests` are the rows of `fulfillment_artifacts`
with entries, review and delivery gate; `stored` what the object store holds;
`work[h]` what a handler read and holds on to. A history flag says when a call went
on with something another had changed under it (`raced`, `stale`, `overlapped`).

**Actions.** A handler reads, decides and writes in steps of its own: `requests.update`
is a read of all columns and a write of all columns, a callback adds a newer
manifest row at any time, an upload stores bytes first and lists them later, a
challenge replaces the gate and emits. `Fail` ends a call at any statement,
`Expire` lets a gate's token expire.

| Run | Question | Bounds |
|---|---|---|
| `requests` | what survives when two handlers interleave appeals, decisions, requestor and staff calls, callbacks, uploads, replacements, reviews, fulfilment and step-up | 2 handlers, 2 appeals, 2 manifests, 2 artifacts, 2 tokens, 4 calls, 1 failure |
| `token_violation` | section "Disagreements" | 1 handler, 3 calls |

Two manifests are what "newest" needs; four calls are a callback, an upload, a
challenge and its completion, or two appeals with their decisions.

- `UpdatesSurvive` - no appeal, decision, requestor or status is lost without a race
  the flag recognises; a crash between the transition and the row's write loses none.
- `UploadsKept` - what is listed is stored, and what was listed stays listed.
- `FulfilledWasApproved` - the status written by the fulfil route rests on an approved
  newest manifest, or on none, unless the manifests changed after it looked.
- `OpensOnlyProven` - the gate of the newest manifest is completed only with a token
  that was submitted in time.

The run checks these at the bounds of the table; `Requests_proofs` proves them for all (section "Proofs").

`MCRequests` puts `Lifecycle` (section on the lifecycle) and four smaller modules beside
`Fulfilment`, which share nothing with it or with each other: a variable `part` picks
the one whose behaviour it is.

**`ArtifactFiles`** (`storage-filesystem`). `putObject` truncates and writes the bytes,
then the sidecar; a retriable failure starts the operation again, a death leaves
it. `ObjectsAreWhole`: after a write that met no other and succeeded, at whichever
attempt, both files are of its version, and a read no write overlaps returns one
version. Two clients, two versions, two attempts, one fault.

**`BlobStorage`** (`storage-vercel-blob`). A write abandoned after its timeout is lost,
done, or `adrift` to arrive later, and is made again; the bytes come from a URL that
may serve any version it has had. `BlobsAreWhole`, which `StoresAreWhole` joins with
the filesystem's `ObjectsAreWhole`: with `allowOverwrite` off and nothing deleted, an
object is written once and read as written; in any case it is what the last write left
that met no other and no late arrival. Two callers, two versions, two attempts, two
aborted calls.

**`RequestEvidence`** (`routes/requests.ts`). A call reads the row when it begins, lets
`requests.update` read it again (`FetchAuthority`) and write every column
(`WriteAuthority`); a verdict writes the documents back that it read. An upload stores
bytes (`PutEvidence`), then the row, the timeline event and the audit entry.
`EvidenceStands`: a verdict stands over documents some verdict has read, an uploaded
row has its bytes, and what is audited is in the timeline. That a submission may be
lost under a verdict begun before it is allowed. Two calls at once, two documents,
three calls, one failure.

**`SubjectPortal`** (`routes/subjects.ts`, `requests.listBySubject`,
`react/src/subject-portal.tsx`), in two parts: `walk` pages through the requests of a
subject while others are filed, `portal` is the form and its list. `SubjectSeesOwn`: a
walk gives nothing twice and leaves out nothing that was there, unless the time of a
page's last row was not spelled as `toISOString` spells it (`respelled`); what was
filed without an alert is shown, unless newer ones fill the page or the first refresh
answered late; the text stays until its request is stored and shown. Three requests,
pages of one, three spellings, one lost call.

## 6. The components of `MCEdges`

One run, `edges`, checks the following thirteen modules; two million distinct states,
with two interchangeable processes and two interchangeable ids as symmetry sets. The
three violating runs over `MCEdges` use the same instance, `export_violation` with the
request to be confirmed alone and no trouble.

**`AuditTrail`** (`audit/service.ts`, `audit/export.ts`, `routes/webhooks/dispatches.ts`).
An append reads the chain (`ReadChain`) and inserts later (`Insert`); a replay's
marker has a fixed id, which the primary key refuses a second time
(`InsertRefused`). `Tamper` edits or removes a stored event. A hash is the tuple of
what it is computed from. Two writers, two new events and a marker, two faults.
`VerifyIsExact`: if no append overlapped another, verification succeeds exactly as
long as nothing was edited or removed before the last event. `ReplaySentOnce`: one
key sends a dispatch at most once, and not without its marker.

**`SigningKeys`** (`routes/webhooks/rotate-key.ts`). `Rotate` commits, `AuditRotation`
appends, `Undo` takes the rotation back when the append failed, by which time
another may have rotated. Two callers, four keys, grace of 0 or 2 days, two faults.
`GraceHonoured`: one primary key at every moment, and a replaced key verifies as
long as was promised. `PrimaryIsKnown`: when all calls have ended, the primary's
secret is known to somebody, unless a rotation nobody was told of stayed. The run
checks both as `RotationIsSafe`.

**`RequestCapture`** (`lifecycle/service.ts`, `routes/inbound-capture.ts`,
`node-sdk/src/fetcher.ts`). A sender repeats a message whose answer did not come; the
handler looks its key up in the newest page, inserts, and writes the trace in five
more statements. Three messages (one without a key, one older than the others), two
servers, a page of one, one fault. `OneRequestPerDelivery`, `AnsweredIsComplete`, checked together as `CaptureIsExact`.

**`RateLimit`** (`rate-limit.ts`, the adapters of Redis and Upstash). `Dispatch`
counts for the address, `EnforceTenant` for the tenant; a store is a map per process
or Redis. `LimitIsHonest`: at most twice the limit in any stretch of a window's
length, per store, and whoever waits as long as `Retry-After` said is not refused by
the same window. Two processes, windows of three ticks, two ticks per second.

**`ChatLock`** (`core/src/chat.ts`, `chatRuntimeState`). The bot computes the expiry,
the database compares. Three bots, whose clocks are behind, equal and ahead.
`LockExclusive`: two believe in one lock only after a forced release or if the
earlier's clock is behind.

**`ChatQueue`**, **`ChatList`** (same sources, migration `0003`). Transactions statement by
statement: alone on SQLite; on PostgreSQL under READ COMMITTED, where a statement
sees what was committed before it and waits for rows others have changed.
`QueueIsFaithful`: an accepted entry is delivered once and in order, or is still
there, expired or pushed out - order only between entries that did not overlap.
`ListIsWhole`: the stored list is the one the operations would have left had each run
alone where it last met the row of the list's key, unless the list expired between
the starts of two that overlap (then one of them deletes values the other has just
kept). Two callers each, three insertions; expiries of one and two ticks.

**`Tail`** (`cli/src/commands/audit-tail.ts`, `webhooks-tail.ts`). `ReadPage` and
`EndPoll`, the last page of a drain, interleave with `Commit` and `MoveStatus`.
`TailIsComplete`: nothing printed twice, nothing skipped but rows committed out of order,
for dispatches rows of the same millisecond, and the older rows of a poll cut off by
its cap, which no later poll asks for; nothing is promised with `--status`. Three rows,
pages of one, two pages at most, so that drains are cut off.

**`Migrations`** (`migrations.ts`, `persistence-pg`). Three instances of two releases
start, fail and start again, with and without the advisory lock; one migration
cannot be repeated. `MigrationsDoNotConflict`: with the lock no start fails because
of another; without it the schema is still what is recorded, and who is up has it.

**`PolicyPacks`** (`internals/policy-packs`). Two publications with an awaited digest
between check and insertion, activation, proposals, capture under the resolved
pack, restart. `VersionsStand`: the version a request was evaluated under stays the
pack it was evaluated under, and no pin is of an unknown version - for the life of
a process, since all of it is in memory.

**`PolicyEngine`** (`internals/policy-engine`, `services/policy-evaluation`). Packs
and timelines grow step by step; `EnginesAgree` compares the deadline that
`evaluatePolicy` explains with the one `LegalClock` computes from a clock merged by
its documentation, unless an extension is negative. Four rules of equal and different
precedence, three events, a positive and a negative extension.

**`EmailChannel`** (`services/notifications/service.ts`, `outbound-resend`). Attempts run in
the emitting handler, each leaves a row; a send that times out may have been
accepted. `MailsAreTold`: one e-mail at most per event, and rows and e-mails agree
once emissions are over, up to a late answer and a dead handler. Two emitters, two
recipients sharing one key, two attempts, three emissions, one fault. The provider
is assumed to answer a key it knows without sending again, as the adapter relies on.

**`OperatorQueue`** (`react/src/operator-queue.tsx`, over `StateMachine` as the server).
Every button posts and then refreshes: `Post`, `Answered`, `ListRows`, one `ReadDetail`
per card, `ShowDetails`, `ShowPeople`; `ForeignMove` is any other client. The page is
on the demo's origin, where accounts can be looked up and downloaded (`Export`).
`OperatorIsNotMisled` has three parts. `RecordsNeedAnOutcome` is what the card keeps of its
"match gate": the tables show only after this operator's confirmation (`confirmed`) or
once the server has fulfilled, refused or closed the request (`settled`), and the
correction form and the JSON copy are given out only of a request the server has put in
progress (`worked`, `given`), whatever late answers the cards show. It does not say that
the filer was confirmed, since a rejected verification and a later refusal fulfil it too:
that is `FullDataStaysHidden`, violated in `export_violation`. `ReasonIsTheRequests`: a refusal
carries the text typed for it. `OwnActionIsShown`: after a call has ended well its card
shows at least what it did, unless two refreshes overlapped (`raced`), which the page
allows. Two cards (an access or a correction request to be confirmed, an erasure already
in progress), two clicks beside the opening of the page, one lost call, refresh that
fails in any of its three phases, or foreign change.

None of these has a fairness assumption: the properties are safety properties.
Deadlock is not checked because each part really stops at its bounds.

### Proofs

Each theorem holds for every set of processes, keys and ids, every bound and every
other constant allowed by the module's `ASSUME`.

| Theorem | Property | Inductive invariant |
|---|---|---|
| `Custody_proofs!KeysAreHonoured` | `GraceHonoured` | `KeysInvariant` = `KeyTypes`, `RotationsInvariant` (there is one primary; the key a call may still take back to primary is secondary and promised to nobody, and no two calls share a key), `SecretsInvariant` |
| `Custody_proofs!SecretsAreGiven` | `PrimaryIsKnown` | the same; `SecretsInvariant` says whose secret is on its way to whom |
| `Custody_proofs!RotationsAreSafe` | `RotationIsSafe` | both of the above |
| `Custody_proofs!ReplayIsSentOnce` | `ReplaySentOnce` | `ReplayInvariant`: a writer about to send owns the stored marker, and no other writer holds it past its insertion (`MarkersInvariant`, `SendersInvariant`) |
| `Custody_proofs!DeliveriesBecomeOneRequest` | `OneRequestPerDelivery` | `CaptureInvariant`: a server past a miss is the only one for its message, or the message is `crossed` or `buried` (`ServersInvariant`, `DeliveriesInvariant`) |
| `Custody_proofs!AnswersAreComplete` | `AnsweredIsComplete` | the same with `TracesInvariant`: which writes precede each label |
| `Custody_proofs!CapturesAreExact` | `CaptureIsExact` | both of the above |
| `Edges_proofs!LockIsExclusive` | `LockExclusive` | `ChatLockInvariant`: every token is given once (`TokensInvariant`), and the row is that of any bot which believes in its lock, was not forced out and whose clock is not behind (`RowInvariant`) |
| `Edges_proofs!MigrationsNeverConflict` | `MigrationsDoNotConflict` | `StartInvariant`: who migrates holds the lock (`OwnerInvariant`), so what it still has to do is not recorded and what is recorded has no gaps (`OrderInvariant`); schema and record agree (`SchemaInvariant`) |
| `Custody_proofs!VerifyAlwaysExact` | `VerifyIsExact` | `VerifyInvariant`: an untouched trail numbers its events without gaps, each hash follows the one before (`WholeInvariant`); an edited event, or one whose predecessor is gone, stays in the trail. Induction over the numbers is a minimal counterexample (`HasLeast`) |
| `Custody_proofs!LimitIsAlwaysHonest` | `LimitIsHonest` | `RateInvariant`: the last times a store let a tenant through are of its window, as many as it counts, and any two that are twice the limit apart are a window apart (`TimesAre`); a refusal's answer outlives its window (`Outlived`) |
| `Requests_proofs!UpdatesSurviveHolds` | `UpdatesSurvive` | `FulfilmentInvariant`: where a call may be on which route (`RoutesInvariant`); while nobody went on with an old row, the row is what the calls meant and who holds no old row holds this one (`RowInvariant`) |
| `Requests_proofs!UploadsKeptHolds` | `UploadsKept` | the same invariant: what a call is about to list is stored, and who writes a manifest back without having raced holds all of its entries (`ManifestsInvariant`, `WorkInvariant`) |
| `Requests_proofs!OpensOnlyProvenHolds` | `OpensOnlyProven` | the same invariant: a gate that is completed, or a completed gate on its way to a row, has a proven token |
| `Requests_proofs!FulfilledWasApprovedHolds` | `FulfilledWasApproved` (an action property) | `ApprovedInvariant`: a fulfilment whose manifests nobody has changed stands on the newest, which is approved |
| `Requests_proofs!EvidenceAlwaysStands` | `EvidenceStands` | `EvidenceInvariant`: the verdict a call carries is over documents that were examined; stored bytes and timeline events come before the row and the audit entry of their call |
| `Requests_proofs!StoresAreAlwaysWhole` | `StoresAreWhole` | `FilesInvariant` (what a calm writer has written is on the disk, what a calm reader has read is the content) and `BlobInvariant` (the blob is of a version somebody was told of or left in doubt; without overwriting there is one) |
| `Requests_proofs!SubjectAlwaysSeesOwn` | `SubjectSeesOwn` | `PortalInvariant`: no two rows share an id (`RowsInvariant`); what a walk was given descends and lacks no older row the walk knew (`WalkInvariant`); a reload in hand has the request just filed (`BrowserInvariant`) |
| `Edges_proofs!MailsAreAlwaysTold` | `MailsAreTold` | `MailInvariant`: the provider has seen a key exactly if somebody has its mail (`KeysInvariant`); a copy is recorded, excused, or on its way to the row (`ToldInvariant`) |
| `Edges_proofs!OperatorIsNeverMisled` | `OperatorIsNotMisled` | `OperatorInvariant`: a final status or one in progress, read or shown, was once the server's, and a copy is given out only on such a card (`HiddenInvariant`); a refusal's text belongs to the card it is open for (`ReasonInvariant`); what one refresh has read is between what the page has done and the server (`ShownInvariant`) |
| `Edges_proofs!QueueIsAlwaysFaithful` | `QueueIsFaithful` | `QueueInvariant`: a number is an entry's, of the past, or of one transaction (`SeqsInvariant`); of two in the wrong order, the two transactions met (`MetInvariant`); what is gone has a reason (`GoneInvariant`) |
| `Edges_proofs!ListIsAlwaysWhole` | `ListIsWhole` | `ListInvariant`: unless calls straddled an expiry, two open transactions agree about the row of the key (`PairIs`), and what the one under way has left of the list is what it would have left alone (`StageIs`) |
| `Edges_proofs!TailIsAlwaysComplete` | `TailIsComplete` | `TailInvariant`: what is printed belongs to rows the watermark has reached, remembered if they are at it (`Faithful`); a row behind the watermark was printed (`PassedArePrinted`); while a drain is under way a row it selects is in hand, on a page to come, or was committed since and is no older than what is in hand (`DrainIsWhole`) |
| `Edges_proofs!VersionsAlwaysStand` | `VersionsStand` | `PacksInvariant`: what is about to be pinned is registered (`ProposalsStand`) |

None of the properties is inductive by itself: each speaks of a moment at which two
processes have finished, and the invariant of what they hold in between.
Induction over a number or a finite set is done by a least counterexample
(`WFMin` of the library over strict inclusion), since the induction theorems
themselves cannot be instantiated. `Recursion_proofs` has these lemmas once for all
modules: `HasLeast`, `Throughout` (what every step of a loop keeps), `Recursion` (a
function defined along positions has a value) and `Positions`: sorting a finite set
gives each element the number of those before it as its place, and every place is
taken. On `Positions` rest the pages of the tails (`PageIs`, `OffsetIs`), the order in
which they print (`Turns`) and the order of a subject's list (`OrderExists`).

## Disagreements between code and documentation

Each is a run with `expect: violation`; `PROJECT.json` quotes the line.

- `retry_violation`: the retry of a call that failed half way is accepted and
  changes nothing (`lifecycle/service.ts:305`).
- `sequence_violation`: two appends of one request get the same sequence, and the
  chain never verifies again (`audit/service.ts:122`).
- `token_violation`: where only the webhook is configured, the second step-up challenge
  changes the token, and the first challenge's notification is sent again (`routes/requests.ts:1053`).
- `policy_violation`: a pin names a version and no jurisdiction, and turns the
  requests of other jurisdictions away (`policy-packs/src/service.ts:230`).
- `export_violation`: the queue page says "Full product data stays hidden until you say
  it is the same person." (`operator-queue.tsx:900`), and its docstring (`:718`) that
  records stay hidden until then or until the request is closed. "No, different person"
  puts the request in progress as well, and the card then offers the download of the
  account's full copy (`:383`; `FullDataStaysHidden` fails at `Export`). Two more ways, with
  the same cause: once such a request is fulfilled or refused the whole tables show
  (`:184`; with an erasure in place of the access request the run fails there), and a
  correction fills its form with the account's name and plan (`:480`), which the match
  step has shown before (`:227`).

Met while modelling, visible in the modules, without a run of their own:

- A claim does not stop two deliveries of one attempt once a send outlives its
  lease (`retry.ts:370`; `docs/architecture/backend-runtime-core.mdx:92` says otherwise); the
  dead hook then runs once per holder (`DeadReportedOnce` counts them).
- An emission with a known key re-arms a delivered webhook and sends the e-mail again
  (`notifications/service.ts:375`); without an endpoint each call appends another
  pending webhook row, which nothing sends (`notifications/service.ts:451`).
- The key handed to the e-mail provider is the caller's key and the event type,
  without the request (`notifications/service.ts:404` calls idempotency "scoped to
  request + event type + caller idempotency key"): two requests whose callers used one
  key share one e-mail. `MailsAreTold` allows for it.
- The API reference shows `refused` as the outcome of `verification/reject`
  (`StatusByAction` gives `in_progress`, `state-machine.ts:68`). A clarification asked for
  again forgets the days since the first request (`DueMovesBackOnlyWhenAsked`).
- An approved appeal whose decision failed half way and is repeated leaves the request
  refused (`requests.ts:2109`).
- A capture retried by the SDK without a key makes a second request
  (`fetcher.ts:220`).
- `sdk-and-runtime.mdx:101` has receivers call `verifyWebhook({ body, signature, keyId,
  secrets })` during the grace window of a rotated key; the function takes one
  `signingSecret` (`node-sdk/src/webhooks/verify.ts:4`).
- `delivery/address/verify` compares with an e-mail address that `delivery/prepare`
  never stores, so it always answers `verified: false` (`requests.ts:986`;
  `delivery.mdx:111` shows `true`).
- `delivery.mdx:154` has tokens expire after 24 hours; the download does not look.
- `webhooks tail --status` loses rows when offsets shift (`webhooks-tail.ts:121`).
- A poll of a tail that needs more than fifty pages prints the newest rows and moves its
  watermark past the older ones, which it then never prints (`audit-tail.ts:126`,
  `webhooks-tail.ts:145`), while the comments call the drain what prevents a burst from
  dropping its older part (`audit-tail.ts:97`, `webhooks-tail.ts:121`).
- Packs, pins and proposals are lost on restart and differ between instances;
  registering a custom pack makes it the latest of its jurisdiction before it is
  activated; an applied proposal can be approved again.
- The filesystem store leaves new bytes under an old checksum when it dies between the
  two files, and a download that overlaps a replacement can return torn bytes.
- On PostgreSQL a chat list that is renewed while another transaction already finds it
  expired loses values, or keeps an expiry that has passed.
- A subject's requests are paged by the text of `created_at`, which is the intake's
  `receivedAt` as the sender spelled it, while a returned cursor is spelled anew
  (`routes/subjects.ts:206`): after a row written with an offset or without
  milliseconds a walk leaves rows out or gives them again, and a row whose `receivedAt`
  is a date alone yields a cursor the endpoint refuses. With `respelled` dropped from
  `PagesAreWhole` the run `requests` finds the lost row.
- With Vercel Blob's default `allowOverwrite: false` replacing an artifact, which
  keeps its key (`routes/requests.ts:1818`), always fails; with `addRandomSuffix` an
  object is not found under the key that was returned (`adapter.ts:482`).
- The portal answers "Could not file this request" when the request is stored and only
  the refresh after it fails; text typed while a request is being filed is cleared.
- A negative `additionalDays`, which the route accepts (`routes/schemas.ts:22`), lowers
  the extension the lifecycle grants (`legal-clock/engine.ts:156`) but is ignored by the
  evaluation (`policy-evaluation/evaluate.ts:95`), so the trace explains another
  deadline than the one applied; hence the condition of `EnginesAgree`.
- The comment of `ClockRuleSchema` has rules evaluated "in ascending `precedence` order;
  the first match wins" (`policy-pack.ts:96`); the code and `policy-pack-spec.mdx:42`
  have the highest win.
## What stays with TLC

Every invariant and action property of a passing run is a theorem, and so is the
refinement. Liveness under fairness and ENABLED are out of the prover's reach:
`DeadIsReported`, `EveryDueJobSettles`, `EveryEventGetsJob` (`delivery_liveness`) and
`AppliedIsAnnounced` (`lifecycle_alone`) are only model-checked.

## Not modelled, and why

- Routing, authorisation tables, schemas, error envelopes and codes, guards: no state.
- Payload construction and webhook signatures; export formats; templates of e-mails;
  the optional chat delivery of notifications: pure, or one external call.
- S3: one call of an external store per operation, retried by its client. Slack, inbound
  Resend and Unkey adapters: parsing and third-party APIs.
- SDK wrappers and the other CLI commands: one call per user action. The SDK's retries are the sender of `RequestCapture`.
- Runtime assembly and observability: wiring. Disposing of a runtime interrupts its
  workers, which is a `Crash` of `WebhookDelivery`.
- Chat subscriptions and cache entries, subjects, notes, configuration rows: each
  operation is one statement on one row. `delete` of a chat key also deletes the
  cache entry of that name, which `ChatList` leaves out.
- Bulk replay is the single one in a loop; `delivery/prepare` and the artifacts a
  fulfilment callback lists itself are left out of `Fulfilment`.
- The advisory lock is modelled as held by a session that ends with its process;
  that a pool may unlock on another connection is not.

`PROJECT.json` lists every component with its status.

