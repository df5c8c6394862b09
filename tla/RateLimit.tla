------------------------------ MODULE RateLimit ------------------------------
(***************************************************************************)
(* The rate limits of public intake (rate-limit.ts): a request is counted  *)
(* for its address when it is dispatched and for its tenant when the route *)
(* has read it. A counter is a fixed window in a store: a map of each      *)
(* process, or Redis (packages/redis, packages/upstash), whose script runs *)
(* atomically and lets the key expire. The script computes the end of the  *)
(* window from the caller's clock and subtracts it again, so that clocks   *)
(* may differ; Redis is taken to drop a key when its time has come.        *)
(***************************************************************************)
EXTENDS Naturals, FiniteSets, Sequences

CONSTANTS
  Processes,    \* instances of the runtime
  Addresses, Tenants,
  IpLimit, TenantLimit,
  Window,       \* length of a window, in ticks
  PerSecond,    \* ticks in a second: Retry-After is in seconds
  MaxTicks      \* bound: how long the clock runs

ASSUME RateAssumption ==
  /\ IsFiniteSet(Processes) /\ Addresses \cap Tenants = {}
  /\ IpLimit \in Nat \ {0} /\ TenantLimit \in Nat \ {0} /\ Window \in Nat \ {0}
  /\ PerSecond \in Nat \ {0} /\ MaxTicks \in Nat

VARIABLES
  shared,    \* whether the store is Redis, chosen by the configuration
  windows,   \* the counter of every store and key: count, start and reset
  tick,      \* the clock
  intake,    \* the tenant of the request a process has dispatched
  admitted,  \* history: for every store and tenant, when its requests were let through
  refusals   \* history: one refusal at most, any: counter, time, Retry-After

rateVars == <<shared, windows, tick, intake, admitted, refusals>>

Stores == Processes \cup {"redis"}
Keys   == Addresses \cup Tenants
Store(p) == IF shared THEN "redis" ELSE p
LimitOf(k) == IF k \in Tenants THEN TenantLimit ELSE IpLimit
NoTenant == "none"

(* No window: before the first request of a key.                           *)
NoWindow == [count |-> 0, start |-> 0, reset |-> 0]

RateInit ==
  /\ shared \in BOOLEAN
  /\ windows = [s \in Stores |-> [k \in Keys |-> NoWindow]]
  /\ tick = 1
  /\ intake = [p \in Processes |-> NoTenant]
  /\ admitted = [s \in Stores |-> [n \in Tenants |-> <<>>]]
  /\ refusals = {}

Expired(w) == w.reset <= tick

(* A mutant: one request more than the limit.                              *)
FullLate(w, k) == ~Expired(w) /\ w.count > LimitOf(k)

Full(w, k) == ~Expired(w) /\ w.count >= LimitOf(k)

(* The window after a request that is let through.                         *)
Counted(w) ==
  IF Expired(w) THEN [count |-> 1, start |-> tick, reset |-> tick + Window]
  ELSE [w EXCEPT !.count = @ + 1]

(* A mutant: rounded down.                                                 *)
RetryAfterDown(w) == LET s == (w.reset - tick) \div PerSecond IN IF s = 0 THEN 1 ELSE s

(* retryAfterSeconds: rounded up, at least one.                            *)
RetryAfter(w) ==
  LET s == (w.reset - tick + PerSecond - 1) \div PerSecond IN IF s = 0 THEN 1 ELSE s

Refused(s, k) ==
  \/ /\ refusals = {}
     /\ refusals' = {[store |-> s, key |-> k, at |-> tick,
                      until |-> tick + PerSecond * RetryAfter(windows[s][k])]}
  \/ UNCHANGED refusals

Consume(s, k) == windows' = [windows EXCEPT ![s][k] = Counted(@)]
-----------------------------------------------------------------------------
(* enforceIntakeIpRateLimit, before the handler runs.                      *)
Dispatch(p) ==
  \E a \in Addresses, n \in Tenants :
    LET s == Store(p) IN
    /\ intake[p] = NoTenant
    /\ IF Full(windows[s][a], a) THEN Refused(s, a) /\ UNCHANGED <<windows, intake>>
       ELSE Consume(s, a) /\ intake' = [intake EXCEPT ![p] = n] /\ UNCHANGED refusals
    /\ UNCHANGED <<shared, tick, admitted>>

(* enforceIntakeTenantRateLimit, in the handler: the count of the address  *)
(* stands even if the tenant is refused.                                   *)
EnforceTenant(p) ==
  LET s == Store(p)  n == intake[p] IN
  /\ n # NoTenant
  /\ IF Full(windows[s][n], n) THEN Refused(s, n) /\ UNCHANGED <<windows, admitted>>
     ELSE /\ Consume(s, n)
          /\ admitted' = [admitted EXCEPT ![s][n] = Append(@, tick)]
          /\ UNCHANGED refusals
  /\ intake' = [intake EXCEPT ![p] = NoTenant]
  /\ UNCHANGED <<shared, tick>>

RateTick ==
  /\ tick < MaxTicks /\ tick' = tick + 1
  /\ UNCHANGED <<shared, windows, intake, admitted, refusals>>

RateNext == RateTick \/ \E p \in Processes : Dispatch(p) \/ EnforceTenant(p)

RateSpec == RateInit /\ [][RateNext]_rateVars
-----------------------------------------------------------------------------
(* Properties.                                                             *)

InUse == IF shared THEN {"redis"} ELSE Processes

(* Those let through from tick t on, in a stretch as long as a window.     *)
During(times, t) == {i \in 1..Len(times) : t <= times[i] /\ times[i] < t + Window}
LetThrough(n, t) == UNION {{s} \X During(admitted[s][n], t) : s \in Stores}

(* A fixed window lets through twice its limit at worst in any stretch of  *)
(* its length, across the border of two windows, and no more than its      *)
(* limit of that from one window; processes with a map of their own        *)
(* multiply it, Redis does not.                                            *)
AdmissionBounded ==
  \A n \in Tenants, t \in 1..MaxTicks :
    Cardinality(LetThrough(n, t)) <= 2 * TenantLimit * Cardinality(InUse)

(* Who has waited as long as Retry-After said is not refused because of    *)
(* the window that had refused him: it is over, or a later one began.      *)
RetryAfterHonest ==
  \A r \in refusals :
    LET w == windows[r.store][r.key] IN r.until <= tick => Expired(w) \/ w.start > r.at

(* Neither more is let through than the limit says, nor is anyone refused  *)
(* longer than he was told.                                                *)
LimitIsHonest == AdmissionBounded /\ RetryAfterHonest
=============================================================================
