------------------------------- MODULE ChatLock -------------------------------
(***************************************************************************)
(* The thread lock of the chat state adapter (core/src/chat.ts, repository *)
(* chatRuntimeState): bots that answer in one thread exclude one another   *)
(* by a row with a token and an expiry. The bot computes the expiry from   *)
(* its own clock, every statement compares it with the database's. That a  *)
(* bot takes the lock, extends it and releases it is up to the Chat SDK.   *)
(***************************************************************************)
EXTENDS Integers

CONSTANTS
  Bots,
  Skew(_),     \* how far a bot's clock is ahead of the database's
  Ttl,         \* ttlMs of acquireLock and extendLock
  MaxTokens,   \* bound: locks ever taken
  MaxTime      \* bound: how long the database's clock runs

ASSUME LockAssumption ==
  /\ Ttl \in Nat \ {0} /\ MaxTokens \in Nat /\ MaxTime \in Nat
  /\ \A b \in Bots : Skew(b) \in Int

VARIABLES
  dbTime,    \* CURRENT_TIMESTAMP of the database
  lockRow,   \* the row of chat_thread_locks
  held,      \* the Lock each bot has from its adapter
  forced,    \* history: tokens that forceReleaseLock deleted
  lastToken  \* tokens are unique: 1, 2, ...

lockVars == <<dbTime, lockRow, held, forced, lastToken>>

NoLock == [token |-> 0, expiresAt |-> 0]

Clock(b) == dbTime + Skew(b)

LockInit ==
  /\ dbTime = 0 /\ lockRow = NoLock /\ held = [b \in Bots |-> NoLock]
  /\ forced = {} /\ lastToken = 0

(* No row, or one that has expired: the condition of the upsert.           *)
Free == lockRow = NoLock \/ lockRow.expiresAt <= dbTime

(* A bot takes its Lock for held until its own clock reaches the expiry.   *)
Believes(b) == held[b].token # 0 /\ Clock(b) < held[b].expiresAt
-----------------------------------------------------------------------------
AcquireLock(b) ==
  /\ held[b] = NoLock /\ Free /\ lastToken < MaxTokens
  /\ lastToken' = lastToken + 1
  /\ lockRow' = [token |-> lastToken + 1, expiresAt |-> Clock(b) + Ttl]
  /\ held' = [held EXCEPT ![b] = lockRow']
  /\ UNCHANGED <<dbTime, forced>>

(* extendLock: where the row is no longer the bot's, or has expired, the   *)
(* answer is false and the bot gives up.                                   *)
ExtendLock(b) ==
  /\ held[b] # NoLock
  /\ IF held[b].token = lockRow.token /\ lockRow.expiresAt > dbTime
     THEN /\ lockRow' = [lockRow EXCEPT !.expiresAt = Clock(b) + Ttl]
          /\ held' = [held EXCEPT ![b] = lockRow']
     ELSE held' = [held EXCEPT ![b] = NoLock] /\ UNCHANGED lockRow
  /\ UNCHANGED <<dbTime, forced, lastToken>>

(* A mutant: whoever's the row is.                                         *)
ReleaseAnyLock(b) ==
  /\ held[b] # NoLock
  /\ lockRow' = NoLock
  /\ held' = [held EXCEPT ![b] = NoLock]
  /\ UNCHANGED <<dbTime, forced, lastToken>>

(* releaseLock, by token, however late.                                    *)
ReleaseLock(b) ==
  /\ held[b] # NoLock
  /\ lockRow' = IF lockRow.token = held[b].token THEN NoLock ELSE lockRow
  /\ held' = [held EXCEPT ![b] = NoLock]
  /\ UNCHANGED <<dbTime, forced, lastToken>>

ForceReleaseLock ==
  /\ lockRow # NoLock
  /\ forced' = forced \cup {lockRow.token}
  /\ lockRow' = NoLock
  /\ UNCHANGED <<dbTime, held, lastToken>>

(* The process of a bot dies: the row stays until it expires.              *)
BotDies(b) ==
  /\ held[b] # NoLock
  /\ held' = [held EXCEPT ![b] = NoLock]
  /\ UNCHANGED <<dbTime, lockRow, forced, lastToken>>

DbTick == dbTime < MaxTime /\ dbTime' = dbTime + 1 /\ UNCHANGED <<lockRow, held, forced, lastToken>>

LockNext ==
  \/ DbTick \/ ForceReleaseLock
  \/ \E b \in Bots : AcquireLock(b) \/ ExtendLock(b) \/ ReleaseLock(b) \/ BotDies(b)

LockSpec == LockInit /\ [][LockNext]_lockVars
-----------------------------------------------------------------------------
(* Properties.                                                             *)

(* Two bots take the lock of a thread for theirs at the same time only if  *)
(* the lock of the earlier was released by force or its clock is behind    *)
(* the database's: a clock that is ahead, a late release, a failed         *)
(* extension or a dead process break nothing.                              *)
LockExclusive ==
  \A b, c \in Bots :
    Believes(b) /\ Believes(c) /\ held[b].token < held[c].token =>
      held[b].token \in forced \/ Skew(b) < 0
=============================================================================
