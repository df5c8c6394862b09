------------------------------ MODULE Edges_proofs ------------------------------
(***************************************************************************)
(* Theorems about the small modules at the edges of the system, which      *)
(* share nothing: the lock of the chat's threads, migrations at startup,   *)
(* policy packs, e-mail, the operator's queue, the chat's queues and lists,*)
(* the tails of the command line.                                          *)
(***************************************************************************)
EXTENDS ChatLock, ChatQueue, ChatList, Migrations, PolicyPacks, EmailChannel, OperatorQueue,
        Tail, Recursion_proofs

-----------------------------------------------------------------------------
(* LockExclusive for any bots, any skews of their clocks and any lifetime  *)
(* of a lock. What carries it: a lock that has not expired by the clock of *)
(* the database is the row, and the row has the newest token.              *)

Holding(b) == held[b].token # 0 /\ held[b].token \notin forced /\ dbTime < held[b].expiresAt

LockTypes ==
  /\ dbTime \in Nat /\ lastToken \in Nat
  /\ lockRow \in [token : Nat, expiresAt : Int]
  /\ held \in [Bots -> [token : Nat, expiresAt : Int]]

TokensInvariant ==
  /\ lockRow.token \in {0, lastToken} /\ (lockRow.token = 0 => lockRow = NoLock)
  /\ \A b \in Bots : held[b].token <= lastToken /\ (held[b].token = 0 => held[b] = NoLock)
  /\ \A b, c \in Bots : b # c /\ held[b].token # 0 => held[b].token # held[c].token

RowInvariant == \A b \in Bots : Holding(b) => lockRow = held[b]

ChatLockInvariant == LockTypes /\ TokensInvariant /\ RowInvariant

-----------------------------------------------------------------------------
LEMMA NoLockIsALock == NoLock \in [token : Nat, expiresAt : Int] /\ NoLock.token = 0
BY DEF NoLock

LEMMA LockStart == LockInit => ChatLockInvariant
<1> SUFFICES ASSUME LockInit PROVE ChatLockInvariant
  OBVIOUS
<1>1. LockTypes
  BY NoLockIsALock DEF LockInit, LockTypes
<1>2. TokensInvariant /\ RowInvariant
  BY NoLockIsALock DEF LockInit, TokensInvariant, RowInvariant, Holding
<1> QED BY <1>1, <1>2 DEF ChatLockInvariant

(* The bot that takes the lock gets a token nobody has; a bot that holds   *)
(* one would have kept it from that.                                       *)
LEMMA AcquireKeeps ==
  ASSUME ChatLockInvariant, NEW b \in Bots, AcquireLock(b)
  PROVE  ChatLockInvariant'
<1> USE LockAssumption, NoLockIsALock
<1> DEFINE row == [token |-> lastToken + 1, expiresAt |-> Clock(b) + Ttl]
<1>1. row \in [token : Nat, expiresAt : Int] /\ row.token = lastToken + 1
  BY DEF ChatLockInvariant, LockTypes, Clock
<1>2. /\ lastToken' = lastToken + 1 /\ lockRow' = row /\ held' = [held EXCEPT ![b] = row]
      /\ dbTime' = dbTime /\ forced' = forced /\ Free
  BY DEF AcquireLock
<1> HIDE DEF row
<1>3. \A c \in Bots : held'[c] = IF c = b THEN row ELSE held[c]
  BY <1>2 DEF ChatLockInvariant, LockTypes
<1>4. LockTypes'
  BY <1>1, <1>2 DEF ChatLockInvariant, LockTypes
<1>5. TokensInvariant'
  BY <1>1, <1>2, <1>3 DEF ChatLockInvariant, LockTypes, TokensInvariant
<1>6. \A c \in Bots : ~Holding(c)
  BY <1>2 DEF ChatLockInvariant, LockTypes, RowInvariant, Holding, Free
<1>7. RowInvariant'
  BY <1>2, <1>3, <1>6 DEF RowInvariant, Holding
<1> QED BY <1>4, <1>5, <1>7 DEF ChatLockInvariant

LEMMA ExtendKeeps ==
  ASSUME ChatLockInvariant, NEW b \in Bots, ExtendLock(b)
  PROVE  ChatLockInvariant'
<1> USE LockAssumption, NoLockIsALock
<1>1. CASE held[b].token = lockRow.token /\ lockRow.expiresAt > dbTime
  <2> DEFINE row == [lockRow EXCEPT !.expiresAt = Clock(b) + Ttl]
  <2>1. row \in [token : Nat, expiresAt : Int] /\ row.token = lockRow.token
    BY DEF ChatLockInvariant, LockTypes, Clock
  <2>2. /\ lockRow' = row /\ held' = [held EXCEPT ![b] = row] /\ held[b].token # 0
        /\ dbTime' = dbTime /\ forced' = forced /\ lastToken' = lastToken
    BY <1>1 DEF ExtendLock, ChatLockInvariant, TokensInvariant
  <2> HIDE DEF row
  <2>3. \A c \in Bots : held'[c] = IF c = b THEN row ELSE held[c]
    BY <2>2 DEF ChatLockInvariant, LockTypes
  <2>4. LockTypes'
    BY <2>1, <2>2 DEF ChatLockInvariant, LockTypes
  <2>5. TokensInvariant'
    BY <1>1, <2>1, <2>2, <2>3 DEF ChatLockInvariant, LockTypes, TokensInvariant
  <2>6. ASSUME NEW c \in Bots, c # b PROVE ~Holding(c)
    BY <1>1, <2>2, <2>6 DEF ChatLockInvariant, TokensInvariant, RowInvariant, Holding
  <2>7. RowInvariant'
    BY <2>2, <2>3, <2>6 DEF RowInvariant, Holding
  <2> QED BY <2>4, <2>5, <2>7 DEF ChatLockInvariant
<1>2. CASE ~(held[b].token = lockRow.token /\ lockRow.expiresAt > dbTime)
  <2>1. /\ held' = [held EXCEPT ![b] = NoLock] /\ lockRow' = lockRow
        /\ dbTime' = dbTime /\ forced' = forced /\ lastToken' = lastToken
    BY <1>2 DEF ExtendLock
  <2>2. \A c \in Bots : held'[c] = IF c = b THEN NoLock ELSE held[c]
    BY <2>1 DEF ChatLockInvariant, LockTypes
  <2>3. LockTypes'
    BY <2>1 DEF ChatLockInvariant, LockTypes
  <2>4. TokensInvariant' /\ RowInvariant'
    BY <2>1, <2>2 DEF ChatLockInvariant, LockTypes, TokensInvariant, RowInvariant, Holding
  <2> QED BY <2>3, <2>4 DEF ChatLockInvariant
<1> QED BY <1>1, <1>2

(* What is released is the bot's own lock, or nothing: by its token.       *)
LEMMA ReleaseKeeps ==
  ASSUME ChatLockInvariant, NEW b \in Bots, ReleaseLock(b) \/ BotDies(b)
  PROVE  ChatLockInvariant'
<1> USE LockAssumption, NoLockIsALock
<1>1. /\ held' = [held EXCEPT ![b] = NoLock] /\ held[b] # NoLock
      /\ dbTime' = dbTime /\ forced' = forced /\ lastToken' = lastToken
      /\ lockRow' = lockRow \/ (lockRow' = NoLock /\ lockRow.token = held[b].token)
  BY DEF ReleaseLock, BotDies
<1>2. \A c \in Bots : held'[c] = IF c = b THEN NoLock ELSE held[c]
  BY <1>1 DEF ChatLockInvariant, LockTypes
<1>3. LockTypes'
  BY <1>1 DEF ChatLockInvariant, LockTypes
<1>4. TokensInvariant'
  BY <1>1, <1>2 DEF ChatLockInvariant, LockTypes, TokensInvariant
<1>5. ASSUME NEW c \in Bots, c # b, Holding(c) PROVE lockRow' = held[c]
  BY <1>1, <1>5 DEF ChatLockInvariant, TokensInvariant, RowInvariant, Holding
<1>6. RowInvariant'
  BY <1>1, <1>2, <1>5 DEF RowInvariant, Holding
<1> QED BY <1>3, <1>4, <1>6 DEF ChatLockInvariant

LEMMA ForceKeeps ==
  ASSUME ChatLockInvariant, ForceReleaseLock
  PROVE  ChatLockInvariant'
<1> USE NoLockIsALock
<1>1. /\ forced' = forced \cup {lockRow.token} /\ lockRow' = NoLock
      /\ dbTime' = dbTime /\ held' = held /\ lastToken' = lastToken
  BY DEF ForceReleaseLock
<1>2. LockTypes' /\ TokensInvariant'
  BY <1>1 DEF ChatLockInvariant, LockTypes, TokensInvariant
<1>3. RowInvariant'
  BY <1>1 DEF ChatLockInvariant, RowInvariant, Holding
<1> QED BY <1>2, <1>3 DEF ChatLockInvariant

(* Which bot may believe in which lock, after any calls (chat.ts).         *)
THEOREM ChatLockInvariantHolds == LockSpec => []ChatLockInvariant
<1>1. ASSUME ChatLockInvariant, DbTick PROVE ChatLockInvariant'
  BY <1>1 DEF DbTick, ChatLockInvariant, LockTypes, TokensInvariant, RowInvariant, Holding
<1>2. ASSUME ChatLockInvariant, UNCHANGED lockVars PROVE ChatLockInvariant'
  BY <1>2 DEF lockVars, ChatLockInvariant, LockTypes, TokensInvariant, RowInvariant, Holding
<1>3. ChatLockInvariant /\ [LockNext]_lockVars => ChatLockInvariant'
  BY <1>1, <1>2, AcquireKeeps, ExtendKeeps, ReleaseKeeps, ForceKeeps DEF LockNext
<1> QED BY <1>3, LockStart, PTL DEF LockSpec

(* Two bots answer in one thread at the same time only after a release by  *)
(* force or with a clock that is behind: acquireLock, extendLock and       *)
(* releaseLock, with bots that die and clocks that are ahead.              *)
THEOREM LockIsExclusive == LockSpec => []LockExclusive
<1>1. ASSUME ChatLockInvariant, NEW b \in Bots, NEW c \in Bots, Believes(b), Believes(c),
             held[b].token < held[c].token, held[b].token \notin forced, ~(Skew(b) < 0)
      PROVE  FALSE
  <2>1. Holding(b)
    BY <1>1, LockAssumption DEF ChatLockInvariant, LockTypes, Holding, Believes, Clock
  <2>2. held[b].token = lastToken
    BY <1>1, <2>1 DEF ChatLockInvariant, RowInvariant, TokensInvariant, Holding
  <2> QED BY <1>1, <2>2 DEF ChatLockInvariant, LockTypes, TokensInvariant
<1>2. ChatLockInvariant => LockExclusive
  BY <1>1 DEF LockExclusive
<1> QED BY <1>2, ChatLockInvariantHolds, PTL
-----------------------------------------------------------------------------
(* MigrationsDoNotConflict for any releases and any number of instances.   *)
(* The lock alone does not give it: an instance that holds it must also    *)
(* find what the one before has left whole and in order (OrderInvariant).  *)

Migrating == {i \in Instances : startPc[i] \in {"read", "apply", "unlock"}}
Applying  == {i \in Instances : startPc[i] = "apply"}
Finished  == {i \in Instances : startPc[i] \in {"unlock", "up"}}

MigrationTypes ==
  /\ startPc \in [Instances -> {"lock", "read", "apply", "unlock", "up", "failed"}]
  /\ todo \in [Instances -> SUBSET (Nat \ {0})]
  /\ recorded \subseteq Nat \ {0}

(* What an instance misses it has on its list, with the lock or without.   *)
SchemaInvariant ==
  /\ schema = recorded
  /\ \A i \in Applying : Registry(i) \subseteq recorded \cup todo[i] /\ todo[i] \subseteq Registry(i)
  /\ \A i \in Finished : Registry(i) \subseteq recorded

OwnerInvariant == locking => \A i \in Migrating : lockOwner = {i}

(* Under the lock, no migration without those before it, and the list of   *)
(* the instance that applies is exactly what is missing.                   *)
OrderInvariant ==
  locking =>
    /\ \A m \in recorded : 1..m \subseteq recorded
    /\ \A i \in Applying : recorded \subseteq Registry(i) /\ todo[i] \cap recorded = {}
    /\ collided = {}

StartInvariant == MigrationTypes /\ SchemaInvariant /\ OwnerInvariant /\ OrderInvariant

-----------------------------------------------------------------------------
LEMMA MigrationsStart == MigrationsInit => StartInvariant
<1> SUFFICES ASSUME MigrationsInit PROVE StartInvariant
  OBVIOUS
<1> USE MigrationAssumption
<1>1. PICK n \in 0..Latest - 1 : schema = 1..n /\ recorded = 1..n
  BY DEF MigrationsInit
<1>2. Migrating = {} /\ Applying = {} /\ Finished = {}
  BY DEF MigrationsInit, Migrating, Applying, Finished
<1>3. MigrationTypes
  BY <1>1 DEF MigrationsInit, MigrationTypes
<1> QED BY <1>1, <1>2, <1>3
     DEF StartInvariant, SchemaInvariant, OwnerInvariant, OrderInvariant, MigrationsInit

(* Nobody else is between the lock and its release while an instance is.   *)
LEMMA OneMigrates ==
  ASSUME OwnerInvariant, locking, NEW i \in Migrating, NEW j \in Migrating
  PROVE  i = j
BY DEF OwnerInvariant

LEMMA MigrationTypesStep == StartInvariant /\ [MigrationsNext]_migrationVars => MigrationTypes'
<1> SUFFICES ASSUME MigrationTypes, [MigrationsNext]_migrationVars PROVE MigrationTypes'
  BY DEF StartInvariant
<1> USE MigrationAssumption DEF MigrationTypes, StartGoto, Registry
<1>1. ASSUME NEW i \in Instances, BeforeMigrations(i) PROVE MigrationTypes'
  BY <1>1 DEF BeforeMigrations
<1>2. ASSUME NEW i \in Instances, ReadApplied(i) PROVE MigrationTypes'
  <2>1. Registry(i) \ recorded \in SUBSET (Nat \ {0})
    OBVIOUS
  <2>2. (IF Matches(i) THEN "apply" ELSE "failed") \in {"apply", "failed"}
    OBVIOUS
  <2> QED BY <1>2, <2>1, <2>2 DEF ReadApplied
<1>3. ASSUME NEW i \in Instances, ApplyMigration(i) PROVE MigrationTypes'
  <2>1. PICK m \in todo[i] :
          \/ startPc' = [startPc EXCEPT ![i] = "failed"] /\ recorded' = recorded /\ todo' = todo
          \/ /\ recorded' = recorded \cup {m} /\ todo' = [todo EXCEPT ![i] = @ \ {m}]
             /\ startPc' = startPc /\ startPc[i] = "apply"
    BY <1>3 DEF ApplyMigration
  <2> QED BY <2>1, <1>3 DEF ApplyMigration
<1>4. ASSUME NEW i \in Instances, ReadAgain(i) PROVE MigrationTypes'
  BY <1>4 DEF ReadAgain
<1>5. ASSUME NEW i \in Instances, AfterMigrations(i) PROVE MigrationTypes'
  BY <1>5 DEF AfterMigrations
<1>6. ASSUME NEW i \in Instances, StatementFails(i) PROVE MigrationTypes'
  BY <1>6 DEF StatementFails
<1>7. ASSUME NEW i \in Instances, StartAgain(i) PROVE MigrationTypes'
  BY <1>7 DEF StartAgain
<1>8. CASE UNCHANGED migrationVars
  BY <1>8 DEF migrationVars
<1> QED BY <1>1, <1>2, <1>3, <1>4, <1>5, <1>6, <1>7, <1>8 DEF MigrationsNext

LEMMA LockKeeps ==
  ASSUME StartInvariant, NEW i \in Instances, BeforeMigrations(i)
  PROVE  SchemaInvariant' /\ OwnerInvariant' /\ OrderInvariant'
<1>1. startPc' = [startPc EXCEPT ![i] = "read"] /\ startPc[i] = "lock"
  BY DEF BeforeMigrations, StartGoto
<1>2. Applying' = Applying /\ Finished' = Finished
  BY <1>1 DEF Applying, Finished, StartInvariant, MigrationTypes
<1>3. UNCHANGED <<locking, schema, recorded, todo, collided>>
  BY DEF BeforeMigrations
<1>4. ASSUME locking PROVE lockOwner' = {i} /\ Migrating' = {i}
  <2>1. lockOwner = {}
    BY <1>4 DEF BeforeMigrations, LockFree
  <2>2. Migrating = {}
    BY <1>4, <2>1 DEF StartInvariant, OwnerInvariant
  <2> QED BY <1>1, <1>4, <2>1, <2>2 DEF Migrating, BeforeMigrations, StartInvariant, MigrationTypes
<1> QED BY <1>2, <1>3, <1>4
     DEF StartInvariant, SchemaInvariant, OwnerInvariant, OrderInvariant, Registry

LEMMA ReadKeeps ==
  ASSUME StartInvariant, NEW i \in Instances, ReadApplied(i)
  PROVE  SchemaInvariant' /\ OwnerInvariant' /\ OrderInvariant'
<1>1. /\ startPc' = [startPc EXCEPT ![i] = IF Matches(i) THEN "apply" ELSE "failed"]
      /\ startPc[i] = "read" /\ todo' = [todo EXCEPT ![i] = Registry(i) \ recorded]
  BY DEF ReadApplied, StartGoto
<1>2. UNCHANGED <<locking, lockOwner, schema, recorded, collided>>
  BY DEF ReadApplied
<1>3. Migrating' \subseteq Migrating /\ Finished' = Finished
  BY <1>1 DEF Migrating, Finished, StartInvariant, MigrationTypes
<1>4. ASSUME NEW j \in Applying'
      PROVE  \/ j \in Applying /\ todo'[j] = todo[j]
             \/ j = i /\ Matches(i) /\ todo'[j] = Registry(j) \ recorded
  BY <1>1 DEF Applying, StartInvariant, MigrationTypes
<1>5. SchemaInvariant'
  BY <1>2, <1>3, <1>4 DEF StartInvariant, SchemaInvariant, Registry
<1>6. OrderInvariant'
  <2> SUFFICES ASSUME locking PROVE OrderInvariant'
    BY <1>2 DEF OrderInvariant
  <2>1. \A m \in recorded : 1..m \subseteq recorded
    BY DEF StartInvariant, OrderInvariant
  <2>2. ASSUME NEW j \in Applying' PROVE recorded \subseteq Registry(j) /\ todo'[j] \cap recorded = {}
    BY <1>4, <2>2 DEF StartInvariant, OrderInvariant, Matches
  <2> QED BY <1>2, <2>1, <2>2 DEF StartInvariant, OrderInvariant, Registry
<1> QED BY <1>2, <1>3, <1>5, <1>6 DEF StartInvariant, OwnerInvariant

(* The first of the list is applied: what comes before it is recorded.     *)
LEMMA ApplyMigrationsKeeps ==
  ASSUME StartInvariant, NEW i \in Instances, ApplyMigration(i)
  PROVE  SchemaInvariant' /\ OwnerInvariant' /\ OrderInvariant'
<1> USE MigrationAssumption
<1>1. PICK m \in todo[i] :
        /\ startPc[i] = "apply" /\ \A n \in todo[i] : m <= n
        /\ IF m \in NotRepeatable \cap schema
           THEN /\ startPc' = [startPc EXCEPT ![i] = "failed"] /\ collided' = collided \cup {i}
                /\ UNCHANGED <<schema, recorded, todo>>
           ELSE /\ schema' = schema \cup {m} /\ recorded' = recorded \cup {m}
                /\ todo' = [todo EXCEPT ![i] = @ \ {m}]
                /\ UNCHANGED <<startPc, collided>>
  BY DEF ApplyMigration, StartGoto
<1>2. UNCHANGED <<locking, lockOwner>>
  BY DEF ApplyMigration
<1>3. i \in Applying /\ i \in Migrating
  BY <1>1 DEF Applying, Migrating
<1>4. CASE m \in NotRepeatable \cap schema
  <2>1. ~locking
    BY <1>3, <1>4 DEF StartInvariant, SchemaInvariant, OrderInvariant
  <2>2. Applying' \subseteq Applying /\ Finished' = Finished
    BY <1>1, <1>4 DEF Applying, Finished, StartInvariant, MigrationTypes
  <2> QED BY <1>1, <1>2, <1>4, <2>1, <2>2
       DEF StartInvariant, SchemaInvariant, OwnerInvariant, OrderInvariant, Registry
<1>5. CASE m \notin NotRepeatable \cap schema
  <2>1. /\ Applying' = Applying /\ Finished' = Finished /\ Migrating' = Migrating
        /\ recorded' = recorded \cup {m} /\ schema' = schema \cup {m} /\ collided' = collided
        /\ todo' = [todo EXCEPT ![i] = @ \ {m}]
    BY <1>1, <1>5 DEF Applying, Finished, Migrating
  <2>2. ASSUME NEW j \in Applying
        PROVE  Registry(j) \subseteq recorded' \cup todo'[j] /\ todo'[j] \subseteq Registry(j)
    <3>1. todo'[j] = todo[j] \/ (j = i /\ todo'[j] = todo[j] \ {m})
      <4>1. j \in Instances /\ i \in Instances
        BY <2>2 DEF Applying
      <4>2. todo \in [Instances -> SUBSET (Nat \ {0})]
        BY DEF StartInvariant, MigrationTypes
      <4>3. CASE j = i
        BY <2>1, <4>1, <4>2, <4>3
      <4>4. CASE j # i
        BY <2>1, <4>1, <4>2, <4>4
      <4> QED BY <4>3, <4>4
    <3>2. Registry(j) \subseteq recorded \cup todo[j] /\ todo[j] \subseteq Registry(j)
      BY <2>2 DEF StartInvariant, SchemaInvariant
    <3> QED BY <2>1, <3>1, <3>2
  <2>3. SchemaInvariant'
    BY <2>1, <2>2 DEF StartInvariant, SchemaInvariant, Registry
  <2>4. ASSUME locking PROVE OrderInvariant'
    <3>1. Applying = {i}
      BY <1>3, <2>4, OneMigrates DEF Applying, Migrating, StartInvariant
    <3>2. /\ recorded \subseteq Registry(i) /\ todo[i] \cap recorded = {} /\ todo[i] \subseteq Registry(i)
          /\ Registry(i) \subseteq recorded \cup todo[i]
          /\ \A n \in recorded : 1..n \subseteq recorded
      BY <1>3, <2>4 DEF StartInvariant, SchemaInvariant, OrderInvariant
    <3>3. m \in Registry(i) /\ m \in Nat
      BY <3>2 DEF Registry
    <3>4. ASSUME NEW n \in 1..m PROVE n \in recorded'
      <4>1. n \in Registry(i)
        BY <3>3 DEF Registry
      <4>2. n \in recorded \/ n \in todo[i]
        BY <3>2, <4>1
      <4>3. n \in todo[i] => n = m
        BY <1>1, <3>3
      <4> QED BY <2>1, <4>2, <4>3
    <3>5. \A n \in recorded' : 1..n \subseteq recorded'
      BY <2>1, <3>2, <3>4
    <3>6. todo'[i] = todo[i] \ {m}
      BY <2>1 DEF StartInvariant, MigrationTypes
    <3>7. recorded' \subseteq Registry(i) /\ todo'[i] \cap recorded' = {}
      BY <2>1, <3>2, <3>3, <3>6
    <3>8. collided' = {}
      BY <2>1, <2>4 DEF StartInvariant, OrderInvariant
    <3>9. \A j \in Applying' : j = i
      BY <2>1, <3>1
    <3>10. \A j \in Applying' : recorded' \subseteq Registry(j)' /\ todo'[j] \cap recorded' = {}
      BY <3>7, <3>9 DEF Registry
    <3> QED BY <3>5, <3>8, <3>10 DEF OrderInvariant
  <2> QED BY <1>2, <2>1, <2>3, <2>4 DEF StartInvariant, OwnerInvariant, OrderInvariant
<1> QED BY <1>4, <1>5

(* The second reading finds no fault under the lock.                       *)
LEMMA AgainKeeps ==
  ASSUME StartInvariant, NEW i \in Instances, ReadAgain(i)
  PROVE  SchemaInvariant' /\ OwnerInvariant' /\ OrderInvariant'
<1>1. /\ startPc' = [startPc EXCEPT ![i] = IF Matches(i) THEN "unlock" ELSE "failed"]
      /\ startPc[i] = "apply" /\ todo[i] = {}
      /\ UNCHANGED <<locking, lockOwner, schema, recorded, todo>>
  BY DEF ReadAgain, StartGoto
<1>2. i \in Applying
  BY <1>1 DEF Applying
<1>3. Registry(i) \subseteq recorded
  BY <1>1, <1>2 DEF StartInvariant, SchemaInvariant
<1>4. /\ Applying' \subseteq Applying /\ Migrating' \subseteq Migrating
      /\ Finished' \subseteq Finished \cup {i}
  BY <1>1 DEF Applying, Migrating, Finished, StartInvariant, MigrationTypes
<1>5. locking => collided' = collided
  BY <1>2 DEF StartInvariant, OrderInvariant, Matches, ReadAgain
<1> QED BY <1>1, <1>3, <1>4, <1>5
     DEF StartInvariant, SchemaInvariant, OwnerInvariant, OrderInvariant, Registry

(* To go on, to fail and to start again only shrinks who migrates.         *)
LEMMA LeaveKeeps ==
  ASSUME StartInvariant, NEW i \in Instances,
         AfterMigrations(i) \/ StatementFails(i) \/ StartAgain(i)
  PROVE  SchemaInvariant' /\ OwnerInvariant' /\ OrderInvariant'
<1>1. /\ Applying' \subseteq Applying /\ Migrating' \subseteq Migrating \ {i} /\ Finished' \subseteq Finished
      /\ \A j \in Applying' : todo'[j] = todo[j]
  BY DEF AfterMigrations, StatementFails, StartAgain, StartGoto, Applying, Migrating, Finished,
         StartInvariant, MigrationTypes
<1>2. UNCHANGED <<locking, schema, recorded, collided>> /\ lockOwner' \in {lockOwner, lockOwner \ {i}}
  BY DEF AfterMigrations, StatementFails, StartAgain
<1>3. SchemaInvariant'
  BY <1>1, <1>2 DEF StartInvariant, SchemaInvariant, Registry
<1>4. OrderInvariant'
  BY <1>1, <1>2 DEF StartInvariant, OrderInvariant, Registry
<1>5. OwnerInvariant'
  <2> SUFFICES ASSUME locking, NEW j \in Migrating' PROVE lockOwner' = {j}
    BY <1>2 DEF OwnerInvariant
  <2>1. j # i /\ lockOwner = {j}
    BY <1>1 DEF StartInvariant, OwnerInvariant
  <2> QED BY <1>2, <2>1
<1> QED BY <1>3, <1>4, <1>5

(* Who migrates holds the lock and finds what is recorded (migrations.ts). *)
THEOREM StartInvariantHolds == MigrationsSpec => []StartInvariant
<1>1. ASSUME StartInvariant, [MigrationsNext]_migrationVars
      PROVE  SchemaInvariant' /\ OwnerInvariant' /\ OrderInvariant'
  <2>1. CASE UNCHANGED migrationVars
    BY <1>1, <2>1 DEF migrationVars, StartInvariant, SchemaInvariant, OwnerInvariant, OrderInvariant,
       Applying, Migrating, Finished, Registry
  <2> QED BY <1>1, <2>1, LockKeeps, ReadKeeps, ApplyMigrationsKeeps, AgainKeeps, LeaveKeeps DEF MigrationsNext
<1>2. StartInvariant /\ [MigrationsNext]_migrationVars => StartInvariant'
  BY <1>1, MigrationTypesStep DEF StartInvariant
<1> QED BY <1>2, MigrationsStart, PTL DEF MigrationsSpec

(* No instance fails to start because another migrates when they take the  *)
(* lock, and who is up has its whole schema even when they do not.         *)
THEOREM MigrationsNeverConflict == MigrationsSpec => []MigrationsDoNotConflict
<1>1. StartInvariant => MigrationsDoNotConflict
  BY DEF StartInvariant, SchemaInvariant, OrderInvariant, MigrationsDoNotConflict, Finished
<1> QED BY <1>1, StartInvariantHolds, PTL
-----------------------------------------------------------------------------
(* VersionsStand for any catalogue, any number of publishers, workspaces   *)
(* and proposals. A pin is honest because what is applied was looked up in *)
(* a registry that only grows: the invariant carries this for the          *)
(* proposals, which may be applied long after.                             *)

Registered(v) == \E r \in registry : r.version = v

ProposalStatuses == {"none", "pending_approval", "approved", "applied"}

PackTypes ==
  /\ pins \in [PinScopes -> Nat]
  /\ proposals \in [Proposals -> [status : ProposalStatuses, scope : PinScopes, to : Nat]]
  /\ \A r \in registry : r.version \in PackVersions
  /\ \A p \in Publishers : offered[p] # NoRecord => offered[p].version \in PackVersions

ProposalsStand ==
  \A i \in Proposals : proposals[i] # NoProposal => Registered(proposals[i].to)

PacksInvariant == PackTypes /\ VersionsStand /\ ProposalsStand

-----------------------------------------------------------------------------
(* A process that starts has the launch catalogue and nothing pinned.      *)
LEMMA FreshProcess ==
  ASSUME registry = LaunchRecords, pins = [s \in PinScopes |-> NoPin],
         offered = [p \in Publishers |-> NoRecord],
         proposals = [i \in Proposals |-> NoProposal], evaluated = {}
  PROVE  PacksInvariant
<1>1. \A r \in registry : r.version \in PackVersions
  BY PacksAssumption DEF LaunchRecords
<1>2. NoProposal \in [status : ProposalStatuses, scope : PinScopes, to : Nat]
  BY DEF NoProposal, ProposalStatuses, PinScopes
<1>3. PackTypes
  BY <1>1, <1>2 DEF PackTypes, NoPin
<1> QED BY <1>3 DEF PacksInvariant, VersionsStand, ProposalsStand

LEMMA PacksStart == PacksInit => PacksInvariant
BY FreshProcess DEF PacksInit

(* What is inserted leaves every record there, so pins and proposals stand.*)
LEMMA RegistryGrows ==
  ASSUME PacksInvariant, NEW p \in Publishers, InsertPack(p)
  PROVE  PacksInvariant'
<1>1. registry \subseteq registry' /\ registry' \subseteq registry \cup {offered[p]}
  BY DEF InsertPack
<1>2. /\ pins' = pins /\ proposals' = proposals /\ evaluated' = evaluated
      /\ offered[p] # NoRecord /\ offered' = [offered EXCEPT ![p] = NoRecord]
  BY DEF InsertPack
<1>3. \A r \in registry' : r.version \in PackVersions
  BY <1>1, <1>2 DEF PacksInvariant, PackTypes
<1>4. \A q \in Publishers : offered'[q] # NoRecord => offered'[q] = offered[q]
  BY <1>2
<1>5. PackTypes'
  BY <1>2, <1>3, <1>4 DEF PacksInvariant, PackTypes
<1>6. VersionsStand' /\ ProposalsStand'
  BY <1>1, <1>2 DEF PacksInvariant, VersionsStand, ProposalsStand, Registered
<1> QED BY <1>5, <1>6 DEF PacksInvariant

LEMMA OfferKeeps ==
  ASSUME PacksInvariant, NEW p \in Publishers, OfferPack(p)
  PROVE  PacksInvariant'
<1>1. PICK j \in Jurisdictions, n \in PackNames, v \in PackVersions :
        offered' = [offered EXCEPT ![p] =
          [jurisdiction |-> j, name |-> n, version |-> v, content |-> published + 1]]
  BY DEF OfferPack
<1>2. registry' = registry /\ pins' = pins /\ proposals' = proposals /\ evaluated' = evaluated
  BY DEF OfferPack
<1>3. \A q \in Publishers : offered'[q].version = v \/ offered'[q] = offered[q]
  BY <1>1
<1>4. PackTypes'
  BY <1>2, <1>3 DEF PacksInvariant, PackTypes
<1> QED BY <1>2, <1>4 DEF PacksInvariant, VersionsStand, ProposalsStand, Registered

(* activateCustomPolicyPack and deactivate change pins alone.              *)
LEMMA PinsKeep ==
  ASSUME PacksInvariant, Activate \/ Deactivate
  PROVE  PacksInvariant'
<1> USE PacksAssumption
<1>1. PICK s \in PinScopes, v \in Nat :
        pins' = [pins EXCEPT ![s] = v] /\ (v # NoPin => Registered(v))
  <2>1. CASE Activate
    <3>1. PICK s \in PinScopes, r \in registry : pins' = [pins EXCEPT ![s] = r.version]
      BY <2>1 DEF Activate
    <3>2. r.version \in Nat /\ Registered(r.version)
      BY DEF PacksInvariant, PackTypes, Registered
    <3> QED BY <3>1, <3>2
  <2>2. CASE Deactivate
    BY <2>2 DEF Deactivate, NoPin
  <2> QED BY <2>1, <2>2
<1>2. /\ registry' = registry /\ offered' = offered /\ proposals' = proposals
      /\ evaluated' = evaluated
  BY DEF Activate, Deactivate
<1>3. pins' \in [PinScopes -> Nat] /\ \A t \in PinScopes : pins'[t] = IF t = s THEN v ELSE pins[t]
  BY <1>1 DEF PacksInvariant, PackTypes
<1>4. PackTypes'
  BY <1>2, <1>3 DEF PacksInvariant, PackTypes
<1>5. VersionsStand'
  BY <1>1, <1>2, <1>3 DEF PacksInvariant, VersionsStand, Registered
<1> QED BY <1>2, <1>4, <1>5 DEF PacksInvariant, ProposalsStand, Registered

LEMMA ProposalsKeep ==
  ASSUME PacksInvariant, Propose \/ Approve
  PROVE  PacksInvariant'
<1> USE PacksAssumption
<1>1. PICK i \in Proposals :
        /\ proposals' \in [Proposals -> [status : ProposalStatuses, scope : PinScopes, to : Nat]]
        /\ \A q \in Proposals : q # i => proposals'[q] = proposals[q]
        /\ Registered(proposals'[i].to)
  <2>1. CASE Propose
    <3>1. PICK i \in Proposals, s \in PinScopes, to \in ByJurisdiction("global") :
            proposals' = [proposals EXCEPT ![i] =
              [status |-> "pending_approval", scope |-> s, to |-> to.version]]
      BY <2>1 DEF Propose
    <3>2. to.version \in Nat /\ Registered(to.version)
      BY DEF PacksInvariant, PackTypes, Registered, ByJurisdiction
    <3> DEFINE made == [status |-> "pending_approval", scope |-> s, to |-> to.version]
    <3>3. made \in [status : ProposalStatuses, scope : PinScopes, to : Nat]
      BY <3>2 DEF ProposalStatuses
    <3>4. made.to = to.version
      OBVIOUS
    <3> HIDE DEF made
    <3>5. proposals' = [proposals EXCEPT ![i] = made]
      BY <3>1 DEF made
    <3> QED BY <3>2, <3>3, <3>4, <3>5 DEF PacksInvariant, PackTypes
  <2>2. CASE Approve
    <3>1. PICK i \in Proposals :
            proposals[i] # NoProposal /\ proposals' = [proposals EXCEPT ![i].status = "approved"]
      BY <2>2 DEF Approve
    <3>2. Registered(proposals[i].to)
      BY <3>1 DEF PacksInvariant, ProposalsStand
    <3> QED BY <3>1, <3>2 DEF PacksInvariant, PackTypes, ProposalStatuses
  <2> QED BY <2>1, <2>2
<1>2. registry' = registry /\ offered' = offered /\ pins' = pins /\ evaluated' = evaluated
  BY DEF Propose, Approve
<1>3. PackTypes'
  BY <1>1, <1>2 DEF PacksInvariant, PackTypes
<1>4. ProposalsStand'
  BY <1>1, <1>2 DEF PacksInvariant, ProposalsStand, Registered
<1> QED BY <1>2, <1>3, <1>4 DEF PacksInvariant, VersionsStand

(* What was proposed is still registered when it is applied.               *)
LEMMA ApplyProposalKeeps ==
  ASSUME PacksInvariant, Apply
  PROVE  PacksInvariant'
<1>1. PICK i \in Proposals :
        /\ proposals[i].status = "approved"
        /\ pins' = [pins EXCEPT ![proposals[i].scope] = proposals[i].to]
        /\ proposals' = [proposals EXCEPT ![i].status = "applied"]
  BY DEF Apply
<1>2. registry' = registry /\ offered' = offered /\ evaluated' = evaluated
  BY DEF Apply
<1>3. proposals[i] # NoProposal
  BY <1>1 DEF NoProposal
<1>4. Registered(proposals[i].to)
  BY <1>3 DEF PacksInvariant, ProposalsStand
<1>5. /\ pins' \in [PinScopes -> Nat]
      /\ \A t \in PinScopes : pins'[t] = IF t = proposals[i].scope THEN proposals[i].to ELSE pins[t]
  BY <1>1 DEF PacksInvariant, PackTypes
<1>6. /\ proposals' \in [Proposals -> [status : ProposalStatuses, scope : PinScopes, to : Nat]]
      /\ \A q \in Proposals : q # i => proposals'[q] = proposals[q]
      /\ proposals'[i].to = proposals[i].to
  BY <1>1 DEF PacksInvariant, PackTypes, ProposalStatuses
<1>7. PackTypes'
  BY <1>2, <1>5, <1>6 DEF PacksInvariant, PackTypes
<1>8. VersionsStand'
  BY <1>2, <1>4, <1>5 DEF PacksInvariant, VersionsStand, Registered
<1>9. ProposalsStand'
  BY <1>2, <1>3, <1>4, <1>6 DEF PacksInvariant, ProposalsStand, Registered
<1> QED BY <1>7, <1>8, <1>9 DEF PacksInvariant

LEMMA CaptureKeeps ==
  ASSUME PacksInvariant, CaptureUnder
  PROVE  PacksInvariant'
<1>1. PICK s \in PinScopes, j \in Jurisdictions : evaluated' = evaluated \cup Resolved(s, j)
  BY DEF CaptureUnder
<1>2. Resolved(s, j) \subseteq registry
  BY DEF Resolved, ByVersion, ByJurisdiction
<1>3. registry' = registry /\ offered' = offered /\ pins' = pins /\ proposals' = proposals
  BY DEF CaptureUnder
<1> QED BY <1>1, <1>2, <1>3
     DEF PacksInvariant, PackTypes, VersionsStand, ProposalsStand, Registered

LEMMA RestartKeeps ==
  ASSUME PacksInvariant, Restart
  PROVE  PacksInvariant'
<1>1. \A r \in registry' : r.version \in PackVersions
  BY PacksAssumption DEF Restart, LaunchRecords
<1>2. NoProposal \in [status : ProposalStatuses, scope : PinScopes, to : Nat]
  BY DEF NoProposal, ProposalStatuses, PinScopes
<1>3. PackTypes'
  BY <1>1, <1>2 DEF PackTypes, NoPin, Restart
<1> QED BY <1>3 DEF PacksInvariant, VersionsStand, ProposalsStand, Restart

(* What a publisher is about to pin is registered (upgrade/service.ts).    *)
THEOREM PacksInvariantHolds == PacksSpec => []PacksInvariant
<1>1. ASSUME PacksInvariant, UNCHANGED packVars PROVE PacksInvariant'
  BY <1>1 DEF packVars, PacksInvariant, PackTypes, VersionsStand, ProposalsStand, Registered
<1>2. PacksInvariant /\ [PacksNext]_packVars => PacksInvariant'
  BY <1>1, RegistryGrows, OfferKeeps, PinsKeep, ProposalsKeep, ApplyProposalKeeps, CaptureKeeps,
     RestartKeeps DEF PacksNext
<1> QED BY <1>2, PacksStart, PTL DEF PacksSpec

(* The version a request names is the pack it was evaluated under, and     *)
(* every pin is of a registered version: publish, activate, propose,       *)
(* approve and apply in any order, with any number of publishers.          *)
THEOREM VersionsAlwaysStand == PacksSpec => []VersionsStand
<1>1. PacksInvariant => VersionsStand
  BY DEF PacksInvariant
<1> QED BY <1>1, PacksInvariantHolds, PTL
-----------------------------------------------------------------------------
(* MailsAreTold for any emitters, recipients, keys and attempts: what the  *)
(* provider knows by its key it has delivered once, for some request, and  *)
(* who has delivered is about to record it.                                *)

MailOps == [at : {"idle", "resolve", "send", "record"}, mail : Mails \cup {<<>>}, attempt : Nat,
            result : {"none", "delivered", "again", "final"}]

MailTypes ==
  /\ mailOp \in [Emitters -> MailOps]
  /\ \A h \in Emitters : mailOp[h].at # "idle" => mailOp[h].mail \in Mails
  /\ copies \in [Mails -> {0, 1}]

KeysInvariant ==
  /\ \A r \in Recipients, k \in MailKeys : copies[<<r, k>>] = 1 => k \in seenKeys
  /\ \A k \in MailKeys : k \in seenKeys => \E r \in Recipients : copies[<<r, k>>] = 1
  /\ \A h \in Emitters : mailOp[h].result = "delivered" =>
       mailOp[h].at = "record" /\ ProviderKey(h) \in seenKeys

ToldInvariant ==
  /\ \A m \in Mails : Recorded(m) => m[2] \in seenKeys
  /\ \A m \in Mails : copies[m] = 1 =>
       \/ Recorded(m) \/ m \in untold
       \/ \E h \in Emitters : mailOp[h].mail = m /\ mailOp[h].result = "delivered"

MailInvariant == MailTypes /\ KeysInvariant /\ ToldInvariant

LEMMA NoMailIsAnOp ==
  NoMail \in MailOps /\ NoMail.at = "idle" /\ NoMail.result = "none"
BY DEF NoMail, MailOps

LEMMA MailsAreKeyed ==
  ASSUME NEW m \in Mails
  PROVE  m[1] \in Recipients /\ m[2] \in MailKeys /\ m = <<m[1], m[2]>>
BY DEF Mails

(* An emitter goes on; nothing is sent by that.                            *)
LEMMA MailOpKeeps ==
  ASSUME MailInvariant, NEW h \in Emitters, NEW op \in MailOps,
         mailOp' = [mailOp EXCEPT ![h] = op], op.at # "idle" => op.mail \in Mails,
         seenKeys' = seenKeys, copies' = copies, untold \subseteq untold',
         op.result = "delivered" => op.at = "record" /\ op.mail[2] \in seenKeys,
         mailRows \subseteq mailRows',
         \A r \in mailRows' : r.status = "delivered" /\ r.mail \in Mails =>
           r \in mailRows \/ r.mail[2] \in seenKeys,
         mailOp[h].result = "delivered" /\ mailOp[h].mail \in Mails =>
           \/ op.result = "delivered" /\ op.mail = mailOp[h].mail
           \/ mailOp[h].mail \in untold'
           \/ \E r \in mailRows' : r.mail = mailOp[h].mail /\ r.status = "delivered"
  PROVE  MailInvariant'
<1>1. /\ MailTypes /\ KeysInvariant /\ ToldInvariant
      /\ \A g \in Emitters : mailOp'[g] = IF g = h THEN op ELSE mailOp[g]
  BY DEF MailInvariant, MailTypes
<1>2. MailTypes'
  BY <1>1 DEF MailTypes
<1>3. KeysInvariant'
  BY <1>1 DEF KeysInvariant, ProviderKey
<1>4. \A m \in Mails : Recorded(m) => Recorded(m)'
  BY DEF Recorded
<1>5. ToldInvariant'
  <2>1. ASSUME NEW m \in Mails, Recorded(m)' PROVE m[2] \in seenKeys'
    BY <1>1, <2>1 DEF Recorded, ToldInvariant
  <2>2. ASSUME NEW m \in Mails, copies'[m] = 1
        PROVE  \/ Recorded(m)' \/ m \in untold'
               \/ \E g \in Emitters : mailOp'[g].mail = m /\ mailOp'[g].result = "delivered"
    <3>1. CASE Recorded(m) \/ m \in untold
      BY <1>4, <3>1
    <3>2. CASE mailOp[h].mail = m /\ mailOp[h].result = "delivered"
      BY <1>1, <3>2 DEF Recorded
    <3>3. CASE \E g \in Emitters : g # h /\ mailOp[g].mail = m /\ mailOp[g].result = "delivered"
      BY <1>1, <3>3
    <3> QED BY <1>1, <2>2, <3>1, <3>2, <3>3 DEF ToldInvariant
  <2> QED BY <2>1, <2>2 DEF ToldInvariant
<1> QED BY <1>2, <1>3, <1>5 DEF MailInvariant

(* The provider delivers under a key it did not know.                      *)
LEMMA SendKeeps ==
  ASSUME MailInvariant, NEW h \in Emitters, SendAccepted(h)
  PROVE  MailInvariant'
<1> DEFINE m == mailOp[h].mail
<1>1. /\ MailTypes /\ KeysInvariant /\ ToldInvariant /\ m \in Mails /\ m[2] \in MailKeys
      /\ mailOp[h] \in MailOps
  BY MailsAreKeyed DEF MailInvariant, MailTypes, SendAccepted
<1>2. PICK result \in {"delivered", "again", "final"} :
        /\ mailOp' = [mailOp EXCEPT ![h].at = "record", ![h].result = result]
        /\ untold' = IF result = "delivered" THEN untold ELSE untold \cup {m}
  BY DEF SendAccepted
<1>3. /\ m[2] \notin seenKeys /\ seenKeys' = seenKeys \cup {m[2]}
      /\ copies' = [copies EXCEPT ![m] = copies[m] + 1] /\ mailRows' = mailRows
  BY DEF SendAccepted, ProviderKey
<1>4. \A r \in Recipients : <<r, m[2]>> \in Mails /\ copies[<<r, m[2]>>] = 0
  BY <1>1, <1>3 DEF MailTypes, KeysInvariant, Mails
<1>5. copies[m] = 0
  BY <1>1, <1>4, MailsAreKeyed
<1> DEFINE op == [mailOp[h] EXCEPT !.at = "record", !.result = result]
<1>6. /\ op \in MailOps /\ op.at = "record" /\ op.mail = m /\ op.result = result
  BY <1>1 DEF MailOps
<1>7. \A g \in Emitters : mailOp'[g] = IF g = h THEN op ELSE mailOp[g]
  BY <1>1, <1>2 DEF MailTypes
<1>8. mailOp' = [mailOp EXCEPT ![h] = op]
  BY <1>2
<1> HIDE DEF op, m
<1>9. /\ copies' \in [Mails -> {0, 1}] /\ copies'[m] = 1
      /\ \A n \in Mails : n # m => copies'[n] = copies[n]
  BY <1>1, <1>3, <1>5 DEF MailTypes
<1>10. MailTypes'
  BY <1>1, <1>6, <1>7, <1>8, <1>9 DEF MailTypes
<1>11. KeysInvariant'
  <2>1. ASSUME NEW r \in Recipients, NEW k \in MailKeys, copies'[<<r, k>>] = 1
        PROVE  k \in seenKeys'
    <3>1. CASE <<r, k>> = m
      BY <1>3, <3>1
    <3>2. CASE <<r, k>> # m
      BY <1>1, <1>3, <1>9, <2>1, <3>2 DEF KeysInvariant, Mails
    <3> QED BY <3>1, <3>2
  <2>2. ASSUME NEW k \in MailKeys, k \in seenKeys'
        PROVE  \E r \in Recipients : copies'[<<r, k>>] = 1
    <3>1. CASE k = m[2]
      BY <1>1, <1>9, <3>1, MailsAreKeyed
    <3>2. CASE k # m[2]
      <4>1. PICK r \in Recipients : copies[<<r, k>>] = 1
        BY <1>1, <1>3, <2>2, <3>2 DEF KeysInvariant
      <4>2. <<r, k>> \in Mails /\ <<r, k>> # m
        BY <3>2 DEF Mails
      <4> QED BY <1>9, <4>1, <4>2
    <3> QED BY <3>1, <3>2
  <2>3. ASSUME NEW g \in Emitters, mailOp'[g].result = "delivered"
        PROVE  mailOp'[g].at = "record" /\ ProviderKey(g)' \in seenKeys'
    BY <1>1, <1>3, <1>6, <1>7, <2>3 DEF KeysInvariant, ProviderKey
  <2> QED BY <2>1, <2>2, <2>3 DEF KeysInvariant
<1>12. ToldInvariant'
  <2>1. \A n \in Mails : Recorded(n)' = Recorded(n)
    BY <1>3 DEF Recorded
  <2>2. ASSUME NEW n \in Mails, copies'[n] = 1
        PROVE  \/ Recorded(n)' \/ n \in untold'
               \/ \E g \in Emitters : mailOp'[g].mail = n /\ mailOp'[g].result = "delivered"
    <3>1. CASE n = m
      BY <1>2, <1>6, <1>7, <3>1
    <3>2. CASE n # m
      <4>1. copies[n] = 1
        BY <1>9, <2>2, <3>2
      <4>2. CASE Recorded(n) \/ n \in untold
        BY <1>2, <2>1, <4>2
      <4>3. CASE \E g \in Emitters : mailOp[g].mail = n /\ mailOp[g].result = "delivered"
        <5>1. PICK g \in Emitters : mailOp[g].mail = n /\ mailOp[g].result = "delivered"
          BY <4>3
        <5>2. g # h
          BY <3>2, <5>1 DEF m
        <5> QED BY <1>7, <5>1, <5>2
      <4> QED BY <1>1, <4>1, <4>2, <4>3 DEF ToldInvariant
    <3> QED BY <3>1, <3>2
  <2> QED BY <1>1, <1>3, <2>1, <2>2 DEF ToldInvariant
<1> QED BY <1>10, <1>11, <1>12 DEF MailInvariant

LEMMA MailNextKeeps ==
  ASSUME MailInvariant, NEW h \in Emitters,
         StartMail(h) \/ SkipMail(h) \/ SendNothing(h) \/ RecordMail(h) \/ MailFault(h)
  PROVE  MailInvariant'
<1> USE NoMailIsAnOp
<1>1. /\ mailOp[h] \in MailOps /\ (mailOp[h].at # "idle" => mailOp[h].mail \in Mails)
      /\ mailOp[h].result = "delivered" =>
           mailOp[h].at = "record" /\ mailOp[h].mail[2] \in seenKeys
      /\ mailOp \in [Emitters -> MailOps]
  BY DEF MailInvariant, MailTypes, KeysInvariant, ProviderKey
<1>2. CASE StartMail(h)
  <2>1. PICK m \in Mails : mailOp' = [mailOp EXCEPT ![h] = [NoMail EXCEPT !.at = "resolve", !.mail = m]]
    BY <1>2 DEF StartMail
  <2> DEFINE op == [NoMail EXCEPT !.at = "resolve", !.mail = m]
  <2>2. op \in MailOps /\ op.mail = m /\ op.result = "none"
    BY DEF NoMail, MailOps
  <2>3. /\ mailOp[h] = NoMail /\ mailOp' = [mailOp EXCEPT ![h] = op] /\ seenKeys' = seenKeys
        /\ copies' = copies /\ untold' = untold /\ mailRows' = mailRows
    BY <1>2, <2>1 DEF StartMail
  <2> HIDE DEF op
  <2> QED BY <2>2, <2>3, MailOpKeeps
<1>3. CASE SkipMail(h)
  <2>1. /\ mailOp' = [mailOp EXCEPT ![h] = NoMail] /\ seenKeys' = seenKeys /\ copies' = copies
        /\ untold' = untold /\ mailRows' = mailRows \cup {MailRow(h, "skipped")}
        /\ mailOp[h].result # "delivered"
    BY <1>1, <1>3 DEF SkipMail
  <2>2. MailRow(h, "skipped").status = "skipped"
    BY DEF MailRow
  <2> QED BY <2>1, <2>2, MailOpKeeps
<1>4. CASE SendNothing(h)
  <2>1. PICK result \in {"again", "final", "delivered"} :
          /\ mailOp' = [mailOp EXCEPT ![h].at = "record", ![h].result = result]
          /\ result = "delivered" => mailOp[h].mail[2] \in seenKeys
    BY <1>4 DEF SendNothing, ProviderKey
  <2> DEFINE op == [mailOp[h] EXCEPT !.at = "record", !.result = result]
  <2>2. /\ op \in MailOps /\ op.at = "record" /\ op.mail = mailOp[h].mail /\ op.result = result
        /\ mailOp' = [mailOp EXCEPT ![h] = op]
    BY <1>1, <2>1 DEF MailOps
  <2>3. /\ mailOp[h].at \in {"resolve", "send"} /\ seenKeys' = seenKeys
        /\ copies' = copies /\ untold' = untold /\ mailRows' = mailRows
    BY <1>4 DEF SendNothing
  <2> HIDE DEF op
  <2> QED BY <1>1, <2>1, <2>2, <2>3, MailOpKeeps
<1>5. CASE RecordMail(h)
  <2> DEFINE row == MailRow(h, IF mailOp[h].result = "delivered" THEN "delivered" ELSE "failed")
             again == [mailOp[h] EXCEPT !.at = "send", !.attempt = mailOp[h].attempt + 1,
                                        !.result = "none"]
  <2>1. /\ mailRows' = mailRows \cup {row} /\ mailOp[h].at = "record" /\ seenKeys' = seenKeys
        /\ copies' = copies /\ untold' = untold
        /\ \/ mailOp' = [mailOp EXCEPT ![h] = again]
           \/ mailOp' = [mailOp EXCEPT ![h] = NoMail]
    <3>1. CASE mailOp[h].result = "again" /\ ~MailExhausted(mailOp[h].attempt)
      <4>1. mailOp' = [mailOp EXCEPT ![h] = again]
        BY <1>1, <1>5, <3>1 DEF RecordMail, MailOps
      <4> QED BY <1>5, <4>1 DEF RecordMail
    <3>2. CASE ~(mailOp[h].result = "again" /\ ~MailExhausted(mailOp[h].attempt))
      BY <1>5, <3>2 DEF RecordMail
    <3> QED BY <3>1, <3>2
  <2>2. /\ again \in MailOps /\ again.mail = mailOp[h].mail /\ again.result = "none"
    <3>1. mailOp[h].attempt + 1 \in Nat
      BY <1>1 DEF MailOps
    <3> QED BY <1>1, <3>1 DEF MailOps
  <2>3. /\ row.mail = mailOp[h].mail
        /\ row.status = "delivered" <=> mailOp[h].result = "delivered"
    BY DEF MailRow
  <2> HIDE DEF row, again
  <2>4. PICK op \in {again, NoMail} : mailOp' = [mailOp EXCEPT ![h] = op]
    BY <2>1
  <2>5. /\ op \in MailOps /\ op.result = "none" /\ (op.at # "idle" => op.mail \in Mails)
    BY <1>1, <2>1, <2>2
  <2> QED BY <1>1, <2>1, <2>3, <2>4, <2>5, MailOpKeeps
<1>6. CASE MailFault(h)
  <2>1. /\ mailOp' = [mailOp EXCEPT ![h] = NoMail] /\ seenKeys' = seenKeys /\ copies' = copies
        /\ mailRows' = mailRows
        /\ untold' = IF mailOp[h].result = "delivered" THEN untold \cup {mailOp[h].mail} ELSE untold
    BY <1>6 DEF MailFault
  <2> QED BY <2>1, MailOpKeeps
<1> QED BY <1>2, <1>3, <1>4, <1>5, <1>6

(* What the provider has been told and what the emissions know of it       *)
(* (notifications/service.ts).                                             *)
THEOREM MailInvariantHolds == MailSpec => []MailInvariant
<1>1. MailInit => MailInvariant
  <2> SUFFICES ASSUME MailInit PROVE MailInvariant
    OBVIOUS
  <2>1. /\ MailTypes /\ \A h \in Emitters : mailOp[h].result = "none"
    BY NoMailIsAnOp DEF MailInit, MailTypes
  <2>2. \A m \in Mails : copies[m] = 0
    BY DEF MailInit
  <2>3. \A r \in Recipients, k \in MailKeys : copies[<<r, k>>] = 0
    BY <2>2 DEF Mails
  <2> QED BY <2>1, <2>2, <2>3 DEF MailInit, MailInvariant, KeysInvariant, ToldInvariant, Recorded
<1>2. ASSUME MailInvariant, UNCHANGED mailVars PROVE MailInvariant'
  BY <1>2 DEF MailInvariant, MailTypes, KeysInvariant, ToldInvariant, Recorded, ProviderKey,
              mailVars
<1>3. MailInvariant /\ [MailNext]_mailVars => MailInvariant'
  BY <1>2, MailNextKeeps, SendKeeps DEF MailNext
<1> QED BY <1>1, <1>3, PTL DEF MailSpec

(* An e-mail is delivered once at most, a row says so only if the provider *)
(* delivered one under its key, and one does for every e-mail whose answer *)
(* arrived: the retry loop of the e-mail channel, emissions repeated or    *)
(* cut short.                                                              *)
THEOREM MailsAreAlwaysTold == MailSpec => []MailsAreTold
<1>1. MailInvariant => MailsAreTold
  <2> SUFFICES ASSUME MailInvariant, NEW m \in Mails
               PROVE  /\ copies[m] <= 1
                      /\ Recorded(m) => \E r \in Recipients : copies[<<r, m[2]>>] = 1
                      /\ copies[m] = 1 /\ (\A h \in Emitters : mailOp[h].mail # m) =>
                           Recorded(m) \/ m \in untold
    BY DEF MailsAreTold
  <2>1. copies[m] \in {0, 1} /\ m[2] \in MailKeys
    BY MailsAreKeyed DEF MailInvariant, MailTypes
  <2> QED BY <2>1 DEF MailInvariant, KeysInvariant, ToldInvariant
<1> QED BY <1>1, MailInvariantHolds, PTL
-----------------------------------------------------------------------------
(* The operator's queue.                                                   *)

CardStates ==
  {"none", "captured", "verification_pending", "in_progress", "fulfilled", "refused", "closed"} \cup {StartsAt(r) : r \in Requests}

Rows   == [status : CardStates, change : Nat]
Reads  == UNION {[S -> Rows] : S \in SUBSET Requests}
PageCalls == [pc : {"idle", "post", "answer", "list", "details", "people"},
              request : Requests \cup {None},
              action : {"none", "refuse", "erase", "correct", "verification_request",
                        "verification_approve", "verification_reject", "fulfil", "close"},
              reason : Requests \cup {None}, change : Nat, read : Reads]

OperatorTypes ==
  /\ server \in [Requests -> Rows]
  /\ cards \in [Requests -> [status : CardStates, change : Nat, detail : BOOLEAN]]
  /\ page \in [Slots -> PageCalls]
  /\ refusal \in [id : Requests \cup {None}, reason : Requests \cup {None}]
  /\ acted \in [Requests -> Nat] /\ raced \in BOOLEAN
  /\ \A c \in Slots : page[c].pc \in {"post", "answer"} => page[c].request \in Requests

(* What says that a request has ended, is in progress or is confirmed      *)
(* comes from a server that knew it - be it shown, on its way or read      *)
(* among others.                                                           *)
HiddenInvariant ==
  /\ \A r \in Requests :
       /\ server[r].status \in Final \/ cards[r].status \in Final => r \in settled
       /\ server[r].status = "in_progress" \/ cards[r].status = "in_progress" => r \in worked
  /\ \A c \in Slots : \A q \in DOMAIN page[c].read :
       /\ page[c].read[q].status \in Final => q \in settled
       /\ page[c].read[q].status = "in_progress" => q \in worked
  /\ given \subseteq worked
  /\ verifiedIds \subseteq confirmed
  /\ \A c \in Slots : page[c].pc = "answer" /\ page[c].action = "verification_approve"
                        => page[c].request \in confirmed

ReasonInvariant ==
  /\ \A c \in Slots : page[c].action = "refuse" => page[c].reason = page[c].request
  /\ refusal.id # None => refusal.reason \in {None, refusal.id}

(* As long as one refresh was under way at a time, what it has read and    *)
(* what the cards show is between what the page has done and the server.   *)
ShownInvariant ==
  /\ \A c, d \in Refreshing : c = d
  /\ \A q \in Requests : acted[q] <= cards[q].change /\ cards[q].change <= server[q].change
  /\ \A c \in Slots : page[c].pc \in {"answer", "list", "details", "people"}
       /\ page[c].request \in Requests => page[c].change <= server[page[c].request].change
  /\ \A c \in Slots : page[c].pc = "details" => \A q \in DOMAIN page[c].read :
       /\ acted[q] <= page[c].read[q].change /\ page[c].read[q].change <= server[q].change
       /\ q = page[c].request => page[c].change <= page[c].read[q].change
  /\ \A c \in Slots : page[c].pc = "people" /\ page[c].request \in Requests
       => page[c].change <= cards[page[c].request].change

OperatorInvariant ==
  OperatorTypes /\ HiddenInvariant /\ ReasonInvariant /\ (~raced => ShownInvariant)

LEMMA OperatorInvariantImplies == OperatorInvariant => OperatorIsNotMisled
<1> SUFFICES ASSUME OperatorInvariant PROVE OperatorIsNotMisled
  OBVIOUS
<1>1. RecordsNeedAnOutcome
  BY DEF OperatorInvariant, HiddenInvariant, RecordsNeedAnOutcome, RecordsShown,
         IdentityUnlocked, CorrectionShown
<1>2. ReasonIsTheRequests
  BY DEF OperatorInvariant, ReasonInvariant, ReasonIsTheRequests
<1>3. OwnActionIsShown
  BY DEF OperatorInvariant, ShownInvariant, OwnActionIsShown, OperatorTypes
<1> QED BY <1>1, <1>2, <1>3 DEF OperatorIsNotMisled

LEMMA OperatorInitHolds == OperatorInit => OperatorInvariant
<1> SUFFICES ASSUME OperatorInit PROVE OperatorInvariant
  OBVIOUS
<1>1. <<>> \in Reads /\ DOMAIN <<>> = {}
  <2>1. <<>> \in [{} -> Rows]
    OBVIOUS
  <2> QED BY <2>1 DEF Reads
<1>2. Resting \in PageCalls /\ NoCard \in [status : CardStates, change : Nat, detail : BOOLEAN]
  BY <1>1 DEF Resting, PageCalls, NoCard, CardStates
<1>3. \A c \in Slots : page[c] = Resting
  BY DEF OperatorInit
<1>4. OperatorTypes
  BY <1>2, <1>3 DEF OperatorInit, OperatorTypes, NoRefusal, Rows, CardStates, Resting
<1>5. HiddenInvariant
  BY <1>1, <1>3 DEF OperatorInit, HiddenInvariant, Resting, NoCard, Final
<1>6. ReasonInvariant
  BY <1>3 DEF OperatorInit, ReasonInvariant, Resting, NoRefusal
<1>7. ShownInvariant
  BY <1>3 DEF OperatorInit, ShownInvariant, Refreshing, Resting, NoCard
<1> QED BY <1>4, <1>5, <1>6, <1>7 DEF OperatorInvariant

(* What a button sends is never a refusal: that has a form of its own.     *)
LEMMA ButtonsDoNotRefuse ==
  \A r \in Requests : \A a \in Buttons(r) :
    a \in {"verification_request", "verification_approve", "verification_reject", "fulfil",
           "close", "erase", "correct"}
BY DEF Buttons, ButtonsAt

(* An action that starts a call of the page.                               *)
LEMMA StartKeeps ==
  ASSUME OperatorInvariant, NEW c \in Slots, NEW r \in Requests, NEW a, NEW why \in Requests \cup {None},
         a \in {"refuse", "erase", "correct", "verification_request", "verification_approve",
                "verification_reject", "fulfil", "close"},
         a = "refuse" => why = r,
         Start(c, r, a, why),
         UNCHANGED <<server, type, accounts, cards, people, verifiedIds, refusal, historyVars>>
  PROVE  OperatorInvariant'
<1> DEFINE call == [Resting EXCEPT !.pc = "post", !.request = r, !.action = a, !.reason = why]
<1>1. page' = [page EXCEPT ![c] = call] /\ page \in [Slots -> PageCalls] /\ page[c].pc = "idle"
  BY DEF Start, OperatorInvariant, OperatorTypes
<1>2. UNCHANGED <<server, cards, verifiedIds, refusal, confirmed, settled, worked, given, acted, raced>>
  BY DEF historyVars
<1>3. <<>> \in Reads /\ DOMAIN <<>> = {}
  <2>1. <<>> \in [{} -> Rows]
    OBVIOUS
  <2> QED BY <2>1 DEF Reads
<1>4. /\ call \in PageCalls /\ call.pc = "post" /\ call.request = r /\ call.action = a
      /\ call.reason = why /\ call.read = <<>>
  BY <1>3 DEF Resting, PageCalls
<1> HIDE DEF call
<1>5. \A d \in Slots : page'[d] = IF d = c THEN call ELSE page[d]
  BY <1>1
<1>6. OperatorTypes'
  BY <1>1, <1>2, <1>4, <1>5 DEF OperatorInvariant, OperatorTypes
<1>7. HiddenInvariant'
  BY <1>2, <1>3, <1>4, <1>5 DEF OperatorInvariant, HiddenInvariant
<1>8. ReasonInvariant'
  BY <1>2, <1>4, <1>5 DEF OperatorInvariant, ReasonInvariant
<1>9. Refreshing' = Refreshing
  BY <1>1, <1>4, <1>5 DEF Refreshing
<1>10. (~raced => ShownInvariant)'
  BY <1>2, <1>4, <1>5, <1>9 DEF OperatorInvariant, ShownInvariant
<1> QED BY <1>6, <1>7, <1>8, <1>10 DEF OperatorInvariant

(* An action that ends a call of the page without a trace, or with what    *)
(* `acted` then says of it.                                                *)
LEMMA EndKeeps ==
  ASSUME OperatorInvariant, NEW c \in Slots, Ended(c),
         UNCHANGED <<server, cards, verifiedIds, refusal, confirmed, settled, worked, given, raced>>,
         \/ acted' = acted
         \/ /\ page[c].pc = "people"
            /\ acted' = [q \in Requests |-> IF q = page[c].request THEN page[c].change ELSE acted[q]]
  PROVE  OperatorInvariant'
<1>1. page' = [page EXCEPT ![c] = Resting] /\ page \in [Slots -> PageCalls]
  BY DEF Ended, OperatorInvariant, OperatorTypes
<1>2. <<>> \in Reads /\ DOMAIN <<>> = {}
  <2>1. <<>> \in [{} -> Rows]
    OBVIOUS
  <2> QED BY <2>1 DEF Reads
<1>3. /\ Resting \in PageCalls /\ Resting.pc = "idle" /\ Resting.action = "none"
      /\ Resting.read = <<>>
  BY <1>2 DEF Resting, PageCalls
<1>4. \A d \in Slots : page'[d] = IF d = c THEN Resting ELSE page[d]
  BY <1>1
<1>5. acted' \in [Requests -> Nat]
  BY DEF OperatorInvariant, OperatorTypes, PageCalls
<1>6. OperatorTypes'
  BY <1>1, <1>3, <1>4, <1>5 DEF OperatorInvariant, OperatorTypes
<1>7. HiddenInvariant'
  BY <1>2, <1>3, <1>4 DEF OperatorInvariant, HiddenInvariant
<1>8. ReasonInvariant'
  BY <1>3, <1>4 DEF OperatorInvariant, ReasonInvariant
<1>9. Refreshing' \subseteq Refreshing /\ (page[c].pc = "people" => c \in Refreshing)
  BY <1>1, <1>3, <1>4 DEF Refreshing
<1>10. ASSUME ~raced' PROVE ShownInvariant'
  <2>1. ShownInvariant
    BY <1>10 DEF OperatorInvariant
  <2>2. CASE acted' = acted
    BY <1>3, <1>4, <1>9, <2>1, <2>2 DEF ShownInvariant
  <2>3. CASE /\ page[c].pc = "people"
             /\ acted' = [q \in Requests |-> IF q = page[c].request THEN page[c].change
                                                                    ELSE acted[q]]
    <3>1. \A d \in Slots : page'[d].pc \notin {"list", "details", "people"}
      BY <1>3, <1>4, <1>9, <2>1, <2>3 DEF ShownInvariant, Refreshing
    <3>2. \A q \in Requests : acted'[q] <= cards'[q].change /\ cards'[q].change <= server'[q].change
      BY <2>1, <2>3 DEF ShownInvariant
    <3>3. Refreshing' = {}
      BY <3>1 DEF Refreshing
    <3> QED BY <1>3, <1>4, <2>1, <3>1, <3>2, <3>3 DEF ShownInvariant
  <2> QED BY <2>2, <2>3
<1> QED BY <1>6, <1>7, <1>8, <1>10 DEF OperatorInvariant

(* A status that moves only moves on: settled remembers each end, and      *)
(* worked each time in progress.                                           *)
LEMMA MovesKeeps ==
  ASSUME OperatorTypes, NEW r \in Requests, NEW a \in Server!Actions, Moves(r, a)
  PROVE  /\ server' \in [Requests -> Rows] /\ settled \subseteq settled' /\ worked \subseteq worked'
         /\ \A q \in Requests : server[q].change <= server'[q].change
         /\ \A q \in Requests : server'[q].status \in Final =>
              server[q].status \in Final \/ q \in settled'
         /\ \A q \in Requests : server'[q].status = "in_progress" =>
              server[q].status = "in_progress" \/ q \in worked'
<1> DEFINE to == Server!StatusByAction[a]
<1>1. /\ server' = [server EXCEPT ![r] = [status |-> to, change |-> server[r].change + 1]]
      /\ settled' = settled \cup {q \in {r} : to \in Final}
      /\ worked' = worked \cup {q \in {r} : to = "in_progress"}
  BY DEF Moves
<1>2. to \in CardStates
  BY DEF Server!StatusByAction, Server!Actions, Server!Transitions, CardStates
<1> HIDE DEF to
<1>3. server[r].change \in Nat /\ server \in [Requests -> Rows]
  BY DEF OperatorTypes, Rows
<1>4. server' \in [Requests -> Rows]
  BY <1>1, <1>2, <1>3 DEF Rows
<1>5. \A q \in Requests : server[q].change <= server'[q].change
  BY <1>1, <1>3 DEF OperatorTypes, Rows
<1> QED BY <1>1, <1>3, <1>4, <1>5

(* A call that moves on by itself, while what the page shows stays.        *)
LEMMA OpenPageKeeps ==
  ASSUME OperatorInvariant, NEW c \in Slots, OpenPage(c)
  PROVE  OperatorInvariant'
<1>1. page' = [page EXCEPT ![c] = Loading] /\ page \in [Slots -> PageCalls]
  BY DEF OpenPage, OperatorInvariant, OperatorTypes
<1>2. /\ UNCHANGED <<server, cards, verifiedIds, refusal, confirmed, settled, worked, given, acted, raced>>
      /\ \A d \in Slots : page[d].pc = "idle"
  BY DEF OpenPage, cardVars, historyVars
<1>3. <<>> \in Reads /\ DOMAIN <<>> = {}
  <2>1. <<>> \in [{} -> Rows]
    OBVIOUS
  <2> QED BY <2>1 DEF Reads
<1>4. /\ Loading \in PageCalls /\ Loading.pc = "list" /\ Loading.request = None
      /\ Loading.action = "none" /\ Loading.read = <<>>
  BY <1>3 DEF Loading, Resting, PageCalls
<1>5. \A d \in Slots : page'[d] = IF d = c THEN Loading ELSE page[d]
  BY <1>1
<1>6. OperatorTypes'
  BY <1>1, <1>2, <1>4, <1>5 DEF OperatorInvariant, OperatorTypes
<1>7. HiddenInvariant'
  BY <1>2, <1>3, <1>4, <1>5 DEF OperatorInvariant, HiddenInvariant
<1>8. ReasonInvariant'
  BY <1>2, <1>4, <1>5 DEF OperatorInvariant, ReasonInvariant
<1>9. (~raced => ShownInvariant)'
  BY <1>2, <1>4, <1>5, OperatorAssumption DEF OperatorInvariant, ShownInvariant, Refreshing
<1> QED BY <1>6, <1>7, <1>8, <1>9 DEF OperatorInvariant

LEMMA RefusalFormKeeps ==
  ASSUME OperatorInvariant,
         (\E r \in Requests : OpenRefusal(r)) \/ TypeReason \/ CancelRefusal
  PROVE  OperatorInvariant'
<1>1. UNCHANGED <<server, cards, verifiedIds, page, confirmed, settled, worked, given, acted, raced>>
  BY DEF OpenRefusal, TypeReason, CancelRefusal, historyVars
<1>2. /\ refusal' \in [id : Requests \cup {None}, reason : Requests \cup {None}]
      /\ refusal'.id # None => refusal'.reason \in {None, refusal'.id}
  BY DEF OpenRefusal, TypeReason, CancelRefusal, OperatorInvariant, OperatorTypes, ReasonInvariant
<1>3. OperatorTypes' /\ ReasonInvariant' /\ HiddenInvariant'
  BY <1>1, <1>2 DEF OperatorInvariant, OperatorTypes, ReasonInvariant, HiddenInvariant
<1>4. (~raced => ShownInvariant)'
  BY <1>1 DEF OperatorInvariant, ShownInvariant, Refreshing
<1> QED BY <1>3, <1>4 DEF OperatorInvariant

(* A card that offers the copy shows a request once put in progress.       *)
LEMMA ExportKeeps ==
  ASSUME OperatorInvariant, NEW r \in Requests, Export(r)
  PROVE  OperatorInvariant'
<1>1. /\ UNCHANGED <<server, cards, verifiedIds, refusal, page, confirmed, settled, worked,
                     acted, raced>>
      /\ given' = given \cup {r} /\ cards[r].status = "in_progress"
  BY DEF Export, ExportOffered, cardVars
<1>2. OperatorTypes' /\ ReasonInvariant' /\ HiddenInvariant'
  BY <1>1 DEF OperatorInvariant, OperatorTypes, ReasonInvariant, HiddenInvariant
<1>3. (~raced => ShownInvariant)'
  BY <1>1 DEF OperatorInvariant, ShownInvariant, Refreshing
<1> QED BY <1>2, <1>3 DEF OperatorInvariant

LEMMA ForeignMoveKeeps ==
  ASSUME OperatorInvariant, NEW r \in Requests, ForeignMove(r)
  PROVE  OperatorInvariant'
<1>1. PICK a \in Server!Actions : Moves(r, a)
  BY DEF ForeignMove
<1>2. UNCHANGED <<cards, verifiedIds, refusal, page, confirmed, given, acted, raced>>
  BY DEF ForeignMove, cardVars
<1>3. /\ server' \in [Requests -> Rows] /\ settled \subseteq settled' /\ worked \subseteq worked'
      /\ \A q \in Requests : server[q].change <= server'[q].change
      /\ \A q \in Requests : server'[q].status \in Final =>
              server[q].status \in Final \/ q \in settled'
      /\ \A q \in Requests : server'[q].status = "in_progress" =>
              server[q].status = "in_progress" \/ q \in worked'
  BY <1>1, MovesKeeps DEF OperatorInvariant
<1>4. OperatorTypes' /\ ReasonInvariant'
  BY <1>2, <1>3 DEF OperatorInvariant, OperatorTypes, ReasonInvariant
<1>5. HiddenInvariant'
  BY <1>2, <1>3 DEF OperatorInvariant, HiddenInvariant
<1>6. \A c \in Slots : page[c].change \in Nat /\ \A q \in DOMAIN page[c].read :
        q \in Requests /\ page[c].read[q].change \in Nat
  BY DEF OperatorInvariant, OperatorTypes, PageCalls, Reads, Rows
<1>7. \A q \in Requests : /\ server[q].change \in Nat /\ server'[q].change \in Nat
                          /\ cards[q].change \in Nat
  BY <1>3 DEF OperatorInvariant, OperatorTypes, Rows
<1>8. (~raced => ShownInvariant)'
  BY <1>2, <1>3, <1>6, <1>7 DEF OperatorInvariant, ShownInvariant, Refreshing
<1> QED BY <1>4, <1>5, <1>8 DEF OperatorInvariant

(* The server has taken a call, or the shop has: its answer is on the way. *)
LEMMA PostKeeps ==
  ASSUME OperatorInvariant, NEW c \in Slots, Post(c)
  PROVE  OperatorInvariant'
<1> DEFINE r == page[c].request
           a == page[c].action
<1>1. /\ page[c].pc = "post" /\ r \in Requests /\ page \in [Slots -> PageCalls]
      /\ page[c] \in PageCalls
  BY DEF Post, OperatorInvariant, OperatorTypes
<1>2. UNCHANGED <<cards, verifiedIds, refusal, given, acted, raced>>
  BY DEF Post
<1>3. CASE Ended(c) /\ UNCHANGED <<server, settled, worked, confirmed>>
  BY <1>2, <1>3, EndKeeps
<1>4. CASE /\ page' = [page EXCEPT ![c].pc = "answer", ![c].change = server'[r].change]
           /\ \/ /\ a \in Server!Actions /\ Moves(r, a)
                 /\ confirmed' = confirmed \cup {q \in {r} : a = "verification_approve"}
              \/ a \notin Server!Actions /\ UNCHANGED <<server, settled, worked, confirmed>>
  <2>1. /\ server' \in [Requests -> Rows] /\ settled \subseteq settled' /\ confirmed \subseteq confirmed'
        /\ worked \subseteq worked'
        /\ \A q \in Requests : server[q].change <= server'[q].change
        /\ \A q \in Requests : server'[q].status \in Final =>
             server[q].status \in Final \/ q \in settled'
        /\ \A q \in Requests : server'[q].status = "in_progress" =>
             server[q].status = "in_progress" \/ q \in worked'
    <3>1. CASE a \in Server!Actions /\ Moves(r, a)
      BY <1>1, <1>4, <3>1, MovesKeeps DEF OperatorInvariant
    <3>2. CASE UNCHANGED <<server, settled, worked, confirmed>>
      BY <3>2 DEF OperatorInvariant, OperatorTypes, Rows
    <3> QED BY <1>4, <3>1, <3>2
  <2>2. a = "verification_approve" => r \in confirmed'
    BY <1>4 DEF Server!Actions, Server!Transitions
  <2> DEFINE call == [page[c] EXCEPT !.pc = "answer", !.change = server'[r].change]
  <2>3. server'[r].change \in Nat
    BY <1>1, <2>1 DEF Rows
  <2>4. /\ call \in PageCalls /\ call.pc = "answer" /\ call.request = r /\ call.action = a
        /\ call.reason = page[c].reason /\ call.read = page[c].read
        /\ call.change = server'[r].change
    BY <1>1, <2>3 DEF PageCalls
  <2>5. page' = [page EXCEPT ![c] = call]
    BY <1>1, <1>4
  <2> HIDE DEF call, r, a
  <2>6. \A d \in Slots : page'[d] = IF d = c THEN call ELSE page[d]
    BY <1>1, <2>5
  <2>7. OperatorTypes'
    BY <1>1, <1>2, <2>1, <2>4, <2>5, <2>6 DEF OperatorInvariant, OperatorTypes
  <2>8. HiddenInvariant'
    BY <1>2, <2>1, <2>2, <2>4, <2>6 DEF OperatorInvariant, HiddenInvariant
  <2>9. ReasonInvariant'
    BY <1>2, <2>4, <2>6 DEF OperatorInvariant, ReasonInvariant, r, a
  <2>10. ASSUME ~raced' PROVE ShownInvariant'
    <3>1. ShownInvariant
      BY <1>2, <2>10 DEF OperatorInvariant
    <3>2. Refreshing' \subseteq Refreshing
      BY <2>4, <2>6 DEF Refreshing
    <3>3. \A d \in Slots : page[d].change \in Nat /\ \A q \in DOMAIN page[d].read :
            q \in Requests /\ page[d].read[q].change \in Nat
      BY DEF OperatorInvariant, OperatorTypes, PageCalls, Reads, Rows
    <3>4. \A q \in Requests : /\ server[q].change \in Nat /\ server'[q].change \in Nat
                              /\ cards[q].change \in Nat
      BY <2>1 DEF OperatorInvariant, OperatorTypes, Rows
    <3> QED BY <1>1, <1>2, <2>1, <2>3, <2>4, <2>6, <3>1, <3>2, <3>3, <3>4 DEF ShownInvariant
  <2> QED BY <2>7, <2>8, <2>9, <2>10 DEF OperatorInvariant
<1> QED BY <1>3, <1>4 DEF Post

LEMMA AnsweredKeeps ==
  ASSUME OperatorInvariant, NEW c \in Slots, Answered(c)
  PROVE  OperatorInvariant'
<1> DEFINE r == page[c].request
           call == [page[c] EXCEPT !.pc = "list"]
<1>1. /\ page[c].pc = "answer" /\ r \in Requests /\ page \in [Slots -> PageCalls]
      /\ page[c] \in PageCalls
  BY DEF Answered, OperatorInvariant, OperatorTypes
<1>2. UNCHANGED <<server, cards, confirmed, settled, worked, given, acted>>
  BY DEF Answered
<1>3. CASE Ended(c) /\ UNCHANGED <<verifiedIds, refusal, raced>>
  BY <1>2, <1>3, EndKeeps
<1>4. CASE /\ page' = [page EXCEPT ![c].pc = "list"]
           /\ verifiedIds' = verifiedIds \cup {q \in {r} : page[c].action = "verification_approve"}
           /\ refusal' = IF page[c].action \in Server!Actions THEN NoRefusal ELSE refusal
           /\ raced' = (raced \/ Refreshing # {})
  <2>1. /\ call \in PageCalls /\ call.pc = "list" /\ call.request = r
        /\ call.action = page[c].action /\ call.reason = page[c].reason
        /\ call.read = page[c].read /\ call.change = page[c].change
    BY <1>1 DEF PageCalls
  <2>2. page' = [page EXCEPT ![c] = call]
    BY <1>1, <1>4
  <2> HIDE DEF call
  <2>3. \A d \in Slots : page'[d] = IF d = c THEN call ELSE page[d]
    BY <1>1, <2>2
  <2>4. /\ refusal' \in [id : Requests \cup {None}, reason : Requests \cup {None}]
        /\ refusal'.id # None => refusal'.reason \in {None, refusal'.id}
    BY <1>4 DEF NoRefusal, OperatorInvariant, OperatorTypes, ReasonInvariant
  <2>5. OperatorTypes'
    BY <1>1, <1>2, <1>4, <2>1, <2>2, <2>3, <2>4 DEF OperatorInvariant, OperatorTypes
  <2>6. HiddenInvariant'
    BY <1>1, <1>2, <1>4, <2>1, <2>3 DEF OperatorInvariant, HiddenInvariant
  <2>7. ReasonInvariant'
    BY <2>1, <2>3, <2>4 DEF OperatorInvariant, ReasonInvariant
  <2>8. ASSUME ~raced' PROVE ShownInvariant'
    <3>1. ShownInvariant /\ Refreshing = {}
      BY <1>4, <2>8 DEF OperatorInvariant
    <3>2. Refreshing' \subseteq {c}
      BY <2>3, <3>1 DEF Refreshing
    <3> QED BY <1>1, <1>2, <2>1, <2>3, <3>1, <3>2 DEF ShownInvariant
  <2> QED BY <2>5, <2>6, <2>7, <2>8 DEF OperatorInvariant
<1> QED BY <1>3, <1>4 DEF Answered

LEMMA ListRowsKeeps ==
  ASSUME OperatorInvariant, NEW c \in Slots, ListRows(c)
  PROVE  OperatorInvariant'
<1> DEFINE call == [page[c] EXCEPT !.pc = "details", !.read = <<>>]
<1>1. /\ page[c].pc = "list" /\ page \in [Slots -> PageCalls] /\ page[c] \in PageCalls
      /\ page' = [page EXCEPT ![c] = call] /\ c \in Refreshing
  BY DEF ListRows, OperatorInvariant, OperatorTypes, Refreshing
<1>2. UNCHANGED <<server, verifiedIds, refusal, confirmed, settled, worked, given, acted, raced>>
  BY DEF ListRows, historyVars
<1>3. <<>> \in Reads /\ DOMAIN <<>> = {}
  <2>1. <<>> \in [{} -> Rows]
    OBVIOUS
  <2> QED BY <2>1 DEF Reads
<1>4. /\ call \in PageCalls /\ call.pc = "details" /\ call.request = page[c].request
      /\ call.action = page[c].action /\ call.reason = page[c].reason
      /\ call.read = <<>> /\ call.change = page[c].change
  BY <1>1, <1>3 DEF PageCalls
<1> HIDE DEF call
<1>5. \A d \in Slots : page'[d] = IF d = c THEN call ELSE page[d]
  BY <1>1
<1>6. /\ cards' \in [Requests -> [status : CardStates, change : Nat, detail : BOOLEAN]]
      /\ \A q \in Requests : \/ cards'[q] = cards[q]
                             \/ /\ cards'[q].status = server[q].status
                                /\ cards'[q].change = server[q].change
  BY DEF ListRows, OperatorInvariant, OperatorTypes, Rows
<1>7. OperatorTypes'
  BY <1>1, <1>2, <1>4, <1>5, <1>6 DEF OperatorInvariant, OperatorTypes
<1>8. HiddenInvariant'
  BY <1>2, <1>3, <1>4, <1>5, <1>6 DEF OperatorInvariant, HiddenInvariant
<1>9. ReasonInvariant'
  BY <1>2, <1>4, <1>5 DEF OperatorInvariant, ReasonInvariant
<1>10. ASSUME ~raced' PROVE ShownInvariant'
  <2>1. ShownInvariant
    BY <1>2, <1>10 DEF OperatorInvariant
  <2>2. Refreshing' = Refreshing
    BY <1>1, <1>4, <1>5 DEF Refreshing
  <2>3. \A d \in Slots : page'[d].pc # "people"
    BY <1>1, <1>4, <1>5, <2>1 DEF ShownInvariant, Refreshing
  <2>4. \A q \in Requests : /\ acted[q] \in Nat /\ server[q].change \in Nat /\ cards[q].change \in Nat
    BY DEF OperatorInvariant, OperatorTypes, Rows
  <2>5. \A q \in Requests : acted'[q] <= cards'[q].change /\ cards'[q].change <= server'[q].change
    BY <1>2, <1>6, <2>1, <2>4 DEF ShownInvariant
  <2> QED BY <1>1, <1>2, <1>3, <1>4, <1>5, <2>1, <2>2, <2>3, <2>5 DEF ShownInvariant
<1> QED BY <1>7, <1>8, <1>9, <1>10 DEF OperatorInvariant

LEMMA ReadDetailKeeps ==
  ASSUME OperatorInvariant, NEW c \in Slots, NEW r \in Requests, ReadDetail(c, r)
  PROVE  OperatorInvariant'
<1> DEFINE old == page[c].read
           new == [q \in DOMAIN old \cup {r} |-> IF q = r THEN server[r] ELSE old[q]]
           call == [page[c] EXCEPT !.read = new]
<1>1. /\ page[c].pc = "details" /\ page \in [Slots -> PageCalls] /\ page[c] \in PageCalls
      /\ old \in Reads /\ c \in Refreshing
  BY DEF ReadDetail, OperatorInvariant, OperatorTypes, Refreshing, PageCalls
<1>2. page' = [page EXCEPT ![c] = call]
  BY <1>1 DEF ReadDetail
<1>3. UNCHANGED <<server, cards, verifiedIds, refusal, confirmed, settled, worked, given, acted, raced>>
  BY DEF ReadDetail, cardVars, historyVars
<1>4. /\ new \in Reads /\ DOMAIN new = DOMAIN old \cup {r} /\ DOMAIN new \subseteq Requests
      /\ \A q \in DOMAIN new : new[q] = IF q = r THEN server[r] ELSE old[q]
  <2>1. PICK S \in SUBSET Requests : old \in [S -> Rows]
    BY <1>1 DEF Reads
  <2>2. new \in [S \cup {r} -> Rows]
    BY <2>1 DEF OperatorInvariant, OperatorTypes
  <2> QED BY <2>1, <2>2 DEF Reads
<1> HIDE DEF new
<1>5. /\ call \in PageCalls /\ call.pc = "details" /\ call.request = page[c].request
      /\ call.action = page[c].action /\ call.reason = page[c].reason
      /\ call.read = new /\ call.change = page[c].change
  BY <1>1, <1>4 DEF PageCalls
<1> HIDE DEF call
<1>6. \A d \in Slots : page'[d] = IF d = c THEN call ELSE page[d]
  BY <1>1, <1>2
<1>7. OperatorTypes'
  BY <1>1, <1>2, <1>3, <1>5, <1>6 DEF OperatorInvariant, OperatorTypes
<1>8. HiddenInvariant'
  BY <1>3, <1>4, <1>5, <1>6 DEF OperatorInvariant, HiddenInvariant
<1>9. ReasonInvariant'
  BY <1>3, <1>5, <1>6 DEF OperatorInvariant, ReasonInvariant
<1>10. ASSUME ~raced' PROVE ShownInvariant'
  <2>1. ShownInvariant
    BY <1>3, <1>10 DEF OperatorInvariant
  <2>2. Refreshing' = Refreshing
    BY <1>1, <1>5, <1>6 DEF Refreshing
  <2>3. \A q \in DOMAIN new :
          /\ acted[q] <= new[q].change /\ new[q].change <= server[q].change
          /\ q = page[c].request => page[c].change <= new[q].change
    <3>1. \A q \in Requests : acted[q] \in Nat /\ server[q].change \in Nat /\ cards[q].change \in Nat
      BY DEF OperatorInvariant, OperatorTypes, Rows
    <3>2. acted[r] <= server[r].change /\ server[r].change <= server[r].change
      BY <2>1, <3>1 DEF ShownInvariant
    <3>3. \A q \in DOMAIN old :
            /\ acted[q] <= old[q].change /\ old[q].change <= server[q].change
            /\ q = page[c].request => page[c].change <= old[q].change
      BY <1>1, <2>1 DEF ShownInvariant
    <3>4. page[c].request = r => page[c].change <= server[r].change
      BY <1>1, <2>1 DEF ShownInvariant
    <3> QED BY <1>4, <3>2, <3>3, <3>4
  <2> QED BY <1>1, <1>3, <1>5, <1>6, <2>1, <2>2, <2>3 DEF ShownInvariant
<1> QED BY <1>7, <1>8, <1>9, <1>10 DEF OperatorInvariant

LEMMA ShowDetailsKeeps ==
  ASSUME OperatorInvariant, NEW c \in Slots, ShowDetails(c)
  PROVE  OperatorInvariant'
<1> DEFINE read == page[c].read
           call == [page[c] EXCEPT !.pc = "people", !.read = <<>>]
<1>1. /\ page[c].pc = "details" /\ page \in [Slots -> PageCalls] /\ page[c] \in PageCalls
      /\ page' = [page EXCEPT ![c] = call] /\ c \in Refreshing /\ DOMAIN read = Requests
  BY DEF ShowDetails, OperatorInvariant, OperatorTypes, Refreshing
<1>2. UNCHANGED <<server, verifiedIds, refusal, confirmed, settled, worked, given, acted, raced>>
  BY DEF ShowDetails, historyVars
<1>3. <<>> \in Reads /\ DOMAIN <<>> = {}
  <2>1. <<>> \in [{} -> Rows]
    OBVIOUS
  <2> QED BY <2>1 DEF Reads
<1>4. /\ call \in PageCalls /\ call.pc = "people" /\ call.request = page[c].request
      /\ call.action = page[c].action /\ call.reason = page[c].reason
      /\ call.read = <<>> /\ call.change = page[c].change
  BY <1>1, <1>3 DEF PageCalls
<1> HIDE DEF call
<1>5. \A d \in Slots : page'[d] = IF d = c THEN call ELSE page[d]
  BY <1>1
<1>6. /\ cards' \in [Requests -> [status : CardStates, change : Nat, detail : BOOLEAN]]
      /\ \A q \in Requests : cards'[q].status = read[q].status /\ cards'[q].change = read[q].change
  <2>1. read \in [Requests -> Rows]
    BY <1>1 DEF PageCalls, Reads
  <2> QED BY <2>1 DEF ShowDetails, Rows
<1>7. OperatorTypes'
  BY <1>1, <1>2, <1>4, <1>5, <1>6 DEF OperatorInvariant, OperatorTypes
<1>8. HiddenInvariant'
  BY <1>1, <1>2, <1>3, <1>4, <1>5, <1>6 DEF OperatorInvariant, HiddenInvariant
<1>9. ReasonInvariant'
  BY <1>2, <1>4, <1>5 DEF OperatorInvariant, ReasonInvariant
<1>10. ASSUME ~raced' PROVE ShownInvariant'
  <2>1. ShownInvariant
    BY <1>2, <1>10 DEF OperatorInvariant
  <2>2. Refreshing' = Refreshing
    BY <1>1, <1>4, <1>5 DEF Refreshing
  <2>3. \A d \in Slots : d # c => page'[d].pc \notin {"list", "details", "people"}
    BY <1>1, <1>5, <2>1 DEF ShownInvariant, Refreshing
  <2>4. \A q \in Requests : acted'[q] <= cards'[q].change /\ cards'[q].change <= server'[q].change
    BY <1>1, <1>2, <1>6, <2>1 DEF ShownInvariant
  <2>5. page[c].request \in Requests => page[c].change <= cards'[page[c].request].change
    BY <1>1, <1>6, <2>1 DEF ShownInvariant
  <2> QED BY <1>1, <1>2, <1>4, <1>5, <2>1, <2>2, <2>3, <2>4, <2>5 DEF ShownInvariant
<1> QED BY <1>7, <1>8, <1>9, <1>10 DEF OperatorInvariant

(* What the cards, the calls under way and the server know of each other   *)
(* (operator-queue.tsx).                                                   *)
THEOREM OperatorInvariantHolds == OperatorSpec => []OperatorInvariant
<1>1. OperatorInvariant /\ [OperatorNext]_operatorVars => OperatorInvariant'
  <2> SUFFICES ASSUME OperatorInvariant, [OperatorNext]_operatorVars PROVE OperatorInvariant'
    OBVIOUS
  <2>1. CASE UNCHANGED operatorVars
    <3>1. UNCHANGED <<server, cards, verifiedIds, refusal, page, confirmed, settled, worked, given, acted, raced>>
      BY <2>1 DEF operatorVars, cardVars, historyVars
    <3> QED BY <3>1 DEF OperatorInvariant, OperatorTypes, HiddenInvariant, ReasonInvariant,
                        ShownInvariant, Refreshing
  <2>2. CASE \E r \in Requests : OpenRefusal(r) \/ Export(r) \/ ForeignMove(r)
    BY <2>2, RefusalFormKeeps, ExportKeeps, ForeignMoveKeeps
  <2>3. CASE TypeReason \/ CancelRefusal
    BY <2>3, RefusalFormKeeps
  <2>4. ASSUME NEW c \in Slots, NEW r \in Requests, Click(c, r)
        PROVE  OperatorInvariant'
    <3>1. PICK a \in Buttons(r) :
            /\ Start(c, r, a, None)
            /\ UNCHANGED <<server, type, accounts, cards, people, verifiedIds, refusal, historyVars>>
      BY <2>4 DEF Click
    <3> QED BY <3>1, StartKeeps, ButtonsDoNotRefuse
  <2>5. ASSUME NEW c \in Slots, NEW r \in Requests, SubmitRefusal(c, r)
        PROVE  OperatorInvariant'
    <3>1. /\ Start(c, r, "refuse", refusal.reason) /\ refusal.reason = r
          /\ UNCHANGED <<server, type, accounts, cards, people, verifiedIds, refusal, historyVars>>
      BY <2>5, OperatorAssumption DEF SubmitRefusal, OperatorInvariant, ReasonInvariant
    <3> QED BY <3>1, StartKeeps
  <2>6. ASSUME NEW c \in Slots, ShowPeople(c)
        PROVE  OperatorInvariant'
    BY <2>6, EndKeeps DEF ShowPeople
  <2>7. ASSUME NEW c \in Slots, RefreshFails(c)
        PROVE  OperatorInvariant'
    BY <2>7, EndKeeps DEF RefreshFails, historyVars
  <2>8. ASSUME NEW c \in Slots, NEW r \in Requests, ReadDetail(c, r)
        PROVE  OperatorInvariant'
    BY <2>8, ReadDetailKeeps
  <2>9. ASSUME NEW c \in Slots,
               OpenPage(c) \/ Post(c) \/ Answered(c) \/ ListRows(c) \/ ShowDetails(c)
        PROVE  OperatorInvariant'
    BY <2>9, OpenPageKeeps, PostKeeps, AnsweredKeeps, ListRowsKeeps, ShowDetailsKeeps
  <2> QED BY <2>1, <2>2, <2>3, <2>4, <2>5, <2>6, <2>7, <2>8, <2>9 DEF OperatorNext
<1> QED BY <1>1, OperatorInitHolds, PTL DEF OperatorSpec

(* Whoever else works on the queue, whichever calls fail and however many  *)
(* overlap: the tables of records show only after this operator's          *)
(* confirmation or the end of the request, whatever was answered about the *)
(* filer; the JSON copy and the correction form are given out only of a    *)
(* request the server has put in progress; a refusal carries its own       *)
(* reason and a card shows what a call that ended well has done            *)
(* (operator-queue.tsx). That the filer was confirmed is not among it: see *)
(* FullDataStaysHidden, which the code does not keep.                      *)
THEOREM OperatorIsNeverMisled == OperatorSpec => []OperatorIsNotMisled
BY OperatorInvariantHolds, OperatorInvariantImplies, PTL
-----------------------------------------------------------------------------
(* QueueIsFaithful for any workers, limit and number of entries. What      *)
(* carries it: whoever has an entry in hand while an earlier one is still  *)
(* wanted has overlapped with it.                                          *)

Entries == [seq : Nat, expiresAt : Nat]

QueueTypes ==
  /\ queueTime \in Nat /\ lastSeq \in Nat /\ IsFiniteSet(entries) /\ entries \subseteq Entries
  /\ txn \in [Workers -> [at : {"idle", "trim", "commit", "select", "take"}, entry : Entries,
                          gone : SUBSET Entries]]
  /\ delivered \in Seq(Nat) /\ accepted \subseteq Entries

Past == {delivered[i] : i \in 1..Len(delivered)}
Met(s, t) == {s, t} \in overlapped
Taking(w) == txn[w].at = "take"
Wanted(e) == e.expiresAt > queueTime \/ \E v \in Workers : Taking(v) /\ txn[v].entry = e

(* Every entry has a sequence of its own, and what was delivered is gone.  *)
SeqsInvariant ==
  /\ \A e \in entries : e.seq <= lastSeq /\ e.seq \notin Past
  /\ \A e, f \in entries : e.seq = f.seq => e = f
  /\ \A s \in Past : s <= lastSeq
  /\ \A w \in Workers : Enqueuing(w) =>
       /\ txn[w].entry.seq <= lastSeq /\ txn[w].entry.seq \notin Past
       /\ \A e \in entries : e.seq # txn[w].entry.seq
       /\ \A v \in Workers : v # w /\ (Enqueuing(v) \/ Taking(v)) =>
            txn[v].entry.seq # txn[w].entry.seq
  /\ \A w \in Workers : Taking(w) => txn[w].entry.seq <= lastSeq

MetInvariant ==
  /\ \A e \in entries : Wanted(e) => \A s \in Past : s > e.seq => Met(s, e.seq)
  /\ \A w \in Workers : Enqueuing(w) =>
       /\ \A s \in Past : s > txn[w].entry.seq => Met(s, txn[w].entry.seq)
       /\ \A f \in entries : f.seq > txn[w].entry.seq => Met(f.seq, txn[w].entry.seq)
       /\ \A v \in Workers : Enqueuing(v) /\ txn[v].entry.seq > txn[w].entry.seq =>
            Met(txn[v].entry.seq, txn[w].entry.seq)
  /\ \A w \in Workers : Taking(w) /\ txn[w].entry \in entries =>
       \A f \in entries : Wanted(f) /\ f.seq < txn[w].entry.seq =>
         Met(txn[w].entry.seq, f.seq)

Spent(e) == e.expiresAt <= queueTime \/ lastSeq - e.seq >= MaxSize

(* What a transaction deletes has expired or is beyond the limit.          *)
GoneInvariant ==
  /\ \A w \in Workers : txn[w].gone # {} => Enqueuing(w)
  /\ \A w \in Workers : \A e \in txn[w].gone : Spent(e)
  /\ \A e \in accepted : e \in entries \/ e.seq \in Past \/ Spent(e)

QueueInvariant == QueueTypes /\ SeqsInvariant /\ MetInvariant /\ GoneInvariant /\ QueueInOrder
-----------------------------------------------------------------------------
LEMMA NoTxnIsTyped ==
  /\ NoTxn \in [at : {"idle", "trim", "commit", "select", "take"}, entry : Entries, gone : SUBSET Entries]
  /\ NoTxn.at = "idle" /\ NoTxn.gone = {}
BY DEF NoTxn, Entries

LEMMA QueueStart == QueueInit => QueueInvariant
<1> SUFFICES ASSUME QueueInit PROVE QueueInvariant
  OBVIOUS
<1>1. Past = {} /\ \A w \in Workers : ~Enqueuing(w) /\ ~Taking(w) /\ txn[w].gone = {}
  BY NoTxnIsTyped DEF QueueInit, Past, Enqueuing, Taking
<1>2. QueueTypes
  BY NoTxnIsTyped, FS_EmptySet DEF QueueInit, QueueTypes
<1>3. SeqsInvariant /\ MetInvariant
  BY <1>1 DEF QueueInit, SeqsInvariant, MetInvariant
<1>4. GoneInvariant /\ QueueInOrder
  BY <1>1 DEF QueueInit, GoneInvariant, QueueInOrder
<1> QED BY <1>2, <1>3, <1>4 DEF QueueInvariant

(* Nobody takes another entry in hand, and none becomes wanted.            *)
LEMMA FewerStay ==
  ASSUME SeqsInvariant, MetInvariant, lastSeq' = lastSeq, Past' = Past, entries' \subseteq entries,
         overlapped \subseteq overlapped', \A e \in entries : Wanted(e)' => Wanted(e),
         \A v \in Workers : /\ Enqueuing(v)' => Enqueuing(v) /\ txn'[v].entry = txn[v].entry
                            /\ Taking(v)' => Taking(v) /\ txn'[v].entry = txn[v].entry
  PROVE  SeqsInvariant' /\ MetInvariant'
<1> DEFINE Hand(v) == txn[v].entry
<1>1. SeqsInvariant'
  BY DEF SeqsInvariant
<1>2. \A s, t : Met(s, t) => Met(s, t)'
  BY DEF Met
<1>3. ASSUME NEW e \in entries', Wanted(e)', NEW s \in Past', s > e.seq
      PROVE  Met(s, e.seq)'
  BY <1>2, <1>3, Zenon DEF MetInvariant
<1>4. ASSUME NEW w \in Workers, Enqueuing(w)'
      PROVE  /\ \A s \in Past' : s > txn'[w].entry.seq => Met(s, txn[w].entry.seq)'
             /\ \A f \in entries' : f.seq > txn'[w].entry.seq => Met(f.seq, txn[w].entry.seq)'
             /\ \A v \in Workers : Enqueuing(v)' /\ txn'[v].entry.seq > txn'[w].entry.seq =>
                  Met(txn[v].entry.seq, txn[w].entry.seq)'
  <2>1. Enqueuing(w) /\ txn'[w].entry = txn[w].entry
    BY <1>4
  <2>2. /\ \A s \in Past : s > txn[w].entry.seq => Met(s, txn[w].entry.seq)
        /\ \A f \in entries : f.seq > txn[w].entry.seq => Met(f.seq, txn[w].entry.seq)
        /\ \A v \in Workers : Enqueuing(v) /\ txn[v].entry.seq > txn[w].entry.seq =>
             Met(txn[v].entry.seq, txn[w].entry.seq)
    BY <2>1, Zenon DEF MetInvariant
  <2> QED BY <2>1, <2>2 DEF Met
<1>5. ASSUME NEW w \in Workers, Taking(w)', txn'[w].entry \in entries', NEW f \in entries',
             Wanted(f)', f.seq < txn'[w].entry.seq
      PROVE  Met(txn[w].entry.seq, f.seq)'
  <2>1. Taking(w) /\ txn'[w].entry = txn[w].entry
    BY <1>5
  <2>2. Met(txn[w].entry.seq, f.seq)
    BY <1>5, <2>1, Zenon DEF MetInvariant
  <2> QED BY <2>1, <2>2 DEF Met
<1> QED BY <1>1, <1>3, <1>4, <1>5, Zenon DEF MetInvariant

(* What a transaction or the queue's limit has spent stays spent.          *)
LEMMA SpentStays ==
  ASSUME QueueTypes, queueTime' \in Nat, lastSeq' \in Nat, queueTime <= queueTime', lastSeq <= lastSeq'
  PROVE  \A e \in Entries : Spent(e) => Spent(e)'
BY QueueAssumption DEF QueueTypes, Spent, Entries

LEMMA WantedFewer ==
  ASSUME QueueTypes, queueTime' \in Nat, queueTime <= queueTime',
         \A v \in Workers : Taking(v)' => Taking(v) /\ txn'[v].entry = txn[v].entry
  PROVE  \A e \in entries : Wanted(e)' => Wanted(e)
<1> SUFFICES ASSUME NEW e \in entries, Wanted(e)' PROVE Wanted(e)
  OBVIOUS
<1>1. CASE e.expiresAt > queueTime'
  BY <1>1 DEF QueueTypes, Wanted, Entries
<1>2. CASE \E v \in Workers : Taking(v)' /\ txn'[v].entry = e
  BY <1>2 DEF Wanted
<1> QED BY <1>1, <1>2 DEF Wanted

LEMMA OrderStays ==
  ASSUME QueueInOrder, delivered' = delivered, overlapped \subseteq overlapped'
  PROVE  QueueInOrder' /\ Past' = Past
BY DEF QueueInOrder, Past

(* At most the time passes.                                                *)
LEMMA QueueTimeKeeps ==
  ASSUME QueueInvariant, UNCHANGED <<entries, lastSeq, txn, delivered, accepted, overlapped>>,
         queueTime' \in {queueTime, queueTime + 1}
  PROVE  QueueInvariant'
<1>1. /\ UNCHANGED <<entries, lastSeq, txn, delivered, accepted, overlapped>>
      /\ queueTime' \in Nat /\ queueTime <= queueTime' /\ lastSeq \in Nat
  BY DEF QueueInvariant, QueueTypes
<1>2. QueueTypes'
  BY <1>1 DEF QueueInvariant, QueueTypes
<1>3. \A v \in Workers : (Enqueuing(v)' <=> Enqueuing(v)) /\ (Taking(v)' <=> Taking(v))
  BY <1>1 DEF Enqueuing, Taking
<1>4. QueueInOrder' /\ Past' = Past
  BY <1>1, OrderStays DEF QueueInvariant
<1>5. \A e \in entries : Wanted(e)' => Wanted(e)
  BY <1>1, <1>3, WantedFewer DEF QueueInvariant
<1>6. SeqsInvariant' /\ MetInvariant'
  BY <1>1, <1>3, <1>4, <1>5, FewerStay DEF QueueInvariant
<1>7. \A e \in Entries : Spent(e) => Spent(e)'
  BY <1>1, SpentStays DEF QueueInvariant
<1>8. GoneInvariant'
  <2>1. \A w \in Workers : txn[w].gone \subseteq Entries
    BY DEF QueueInvariant, QueueTypes
  <2> QED BY <1>1, <1>3, <1>4, <1>7, <2>1 DEF QueueInvariant, QueueTypes, GoneInvariant
<1> QED BY <1>2, <1>4, <1>6, <1>8 DEF QueueInvariant

(* One worker moves on, with the same entry or with none in hand; the      *)
(* entries that leave the queue are delivered or spent.                    *)
LEMMA WorkerKeeps ==
  ASSUME QueueInvariant, NEW w \in Workers,
         NEW t \in [at : {"idle", "trim", "commit", "select", "take"}, entry : Entries, gone : SUBSET Entries],
         txn' = [txn EXCEPT ![w] = t],
         UNCHANGED <<queueTime, lastSeq, delivered, accepted, overlapped>>,
         t.at \in {"trim", "commit"} => Enqueuing(w) /\ t.entry = txn[w].entry,
         t.at # "take", t.gone # {} => t.at \in {"trim", "commit"}, \A e \in t.gone : Spent(e),
         entries' \subseteq entries, \A e \in entries \ entries' : Spent(e)
  PROVE  QueueInvariant'
<1>1. \A v \in Workers : txn'[v] = IF v = w THEN t ELSE txn[v]
  BY DEF QueueInvariant, QueueTypes
<1>2. QueueTypes'
  BY FS_Subset DEF QueueInvariant, QueueTypes
<1>3. \A v \in Workers : /\ Enqueuing(v)' => Enqueuing(v) /\ txn'[v].entry = txn[v].entry
                         /\ Taking(v)' => Taking(v) /\ txn'[v].entry = txn[v].entry
  BY <1>1 DEF Enqueuing, Taking
<1>4. QueueInOrder' /\ Past' = Past
  BY OrderStays DEF QueueInvariant
<1>5. \A e \in entries : Wanted(e)' => Wanted(e)
  BY <1>3, WantedFewer DEF QueueInvariant, QueueTypes
<1>6. SeqsInvariant' /\ MetInvariant'
  BY <1>3, <1>4, <1>5, FewerStay DEF QueueInvariant
<1>7. \A e : Spent(e)' <=> Spent(e)
  BY DEF Spent
<1>8. GoneInvariant'
  <2>1. \A v \in Workers : txn'[v].gone # {} => Enqueuing(v)'
    <3>1. \A v \in Workers : v # w => (Enqueuing(v)' <=> Enqueuing(v))
      BY <1>1 DEF Enqueuing
    <3>2. t.at \in {"trim", "commit"} => Enqueuing(w)'
      BY <1>1 DEF Enqueuing
    <3> QED BY <1>1, <3>1, <3>2 DEF QueueInvariant, GoneInvariant
  <2>2. \A v \in Workers : \A e \in txn'[v].gone : Spent(e)'
    BY <1>1, <1>7 DEF QueueInvariant, GoneInvariant
  <2>3. \A e \in accepted' : e \in entries' \/ e.seq \in Past' \/ Spent(e)'
    BY <1>4, <1>7 DEF QueueInvariant, GoneInvariant
  <2> QED BY <2>1, <2>2, <2>3 DEF GoneInvariant
<1> QED BY <1>2, <1>4, <1>6, <1>8 DEF QueueInvariant

(* Distinct sequences up to lastSeq: so many entries are newer than one.   *)
LEMMA BeyondIsSpent ==
  ASSUME NEW S \in SUBSET Entries, \A e, f \in S : e.seq = f.seq => e = f, lastSeq \in Nat,
         \A e \in S : e.seq <= lastSeq, NEW e \in Beyond(S)
  PROVE  lastSeq - e.seq >= MaxSize
<1> DEFINE newer == {f \in S : f.seq >= e.seq}
           h == [f \in newer |-> f.seq]
<1>1. e \in S /\ Cardinality(newer) > MaxSize /\ e.seq \in Nat
  BY DEF Beyond, Entries
<1>2. h \in Injection(newer, e.seq..lastSeq)
  BY <1>1 DEF Injection, IsInjective, Entries
<1>3. /\ IsFiniteSet(e.seq..lastSeq)
      /\ Cardinality(e.seq..lastSeq) = IF e.seq > lastSeq THEN 0 ELSE lastSeq - e.seq + 1
  <2>1. e.seq \in Int /\ lastSeq \in Int
    BY <1>1
  <2> QED BY <2>1, FS_Interval
<1> HIDE DEF newer, h
<1>4. IsFiniteSet(newer) /\ Cardinality(newer) <= Cardinality(e.seq..lastSeq)
  BY <1>2, <1>3, FS_Injection
<1>5. Cardinality(newer) \in Nat
  BY <1>4, FS_CardinalityType
<1> QED BY <1>1, <1>3, <1>4, <1>5, QueueAssumption

LEMMA TrimKeeps ==
  ASSUME QueueInvariant, NEW w \in Workers, EnqueueTrim(w)
  PROVE  QueueInvariant'
<1> DEFINE others == (entries \ txn[w].gone) \cup {txn[w].entry}
           t == [txn[w] EXCEPT !.at = "commit", !.gone = @ \cup Beyond(others)]
           Ops == [at : {"idle", "trim", "commit", "select", "take"}, entry : Entries,
                   gone : SUBSET Entries]
<1>1. Enqueuing(w) /\ UNCHANGED <<entries, queueTime, lastSeq, delivered, accepted, overlapped>>
  BY DEF EnqueueTrim, Enqueuing
<1>2. txn[w] \in Ops /\ txn[w].entry \in Entries /\ txn[w].gone \subseteq Entries /\ entries \subseteq Entries
  BY DEF QueueInvariant, QueueTypes
<1>3. others \in SUBSET Entries /\ Beyond(others) \subseteq Entries
  BY <1>2 DEF Beyond
<1>4. t \in Ops /\ t.at = "commit" /\ t.entry = txn[w].entry /\ t.gone = txn[w].gone \cup Beyond(others)
  BY <1>2, <1>3
<1>5. txn' = [txn EXCEPT ![w] = t]
  <2>1. txn' = [txn EXCEPT ![w].at = "commit", ![w].gone = @ \cup Beyond(others)]
    BY DEF EnqueueTrim
  <2> QED BY <2>1, <1>2 DEF QueueInvariant, QueueTypes
<1>6. \A e, f \in others : e.seq = f.seq => e = f
  BY <1>1 DEF QueueInvariant, SeqsInvariant
<1>7. lastSeq \in Nat /\ \A e \in others : e.seq <= lastSeq
  BY <1>1 DEF QueueInvariant, QueueTypes, SeqsInvariant
<1>8. \A e \in Beyond(others) : Spent(e)
  <2> HIDE DEF others
  <2> QED BY <1>3, <1>6, <1>7, BeyondIsSpent DEF Spent
<1>9. \A e \in t.gone : Spent(e)
  BY <1>4, <1>8 DEF QueueInvariant, GoneInvariant
<1> HIDE DEF t
<1> QED BY <1>1, <1>4, <1>5, <1>9, WorkerKeeps

LEMMA QueueLeaveKeeps ==
  ASSUME QueueInvariant, NEW w \in Workers, EnqueueAbort(w) \/ DequeueDrop(w)
  PROVE  QueueInvariant'
<1>1. CASE EnqueueAbort(w)
  BY <1>1, NoTxnIsTyped, WorkerKeeps DEF EnqueueAbort
<1>2. CASE DequeueDrop(w)
  <2> DEFINE t == [txn[w] EXCEPT !.at = "select"]
             Ops == [at : {"idle", "trim", "commit", "select", "take"}, entry : Entries,
                     gone : SUBSET Entries]
  <2>1. txn[w] \in Ops /\ txn[w].at = "idle"
    BY <1>2 DEF DequeueDrop, MayStart, QueueInvariant, QueueTypes
  <2>2. t \in Ops /\ t.at = "select" /\ t.gone = txn[w].gone
    BY <2>1
  <2>3. t.gone = {}
    BY <2>1, <2>2 DEF QueueInvariant, GoneInvariant, Enqueuing
  <2>4. txn' = [txn EXCEPT ![w] = t]
    BY <1>2, <2>1 DEF DequeueDrop, QueueInvariant, QueueTypes
  <2>5. entries' \subseteq entries /\ \A e \in entries \ entries' : Spent(e)
    BY <1>2 DEF DequeueDrop, Alive, Spent, QueueInvariant, QueueTypes, Entries
  <2>6. UNCHANGED <<queueTime, lastSeq, delivered, accepted, overlapped>>
    BY <1>2 DEF DequeueDrop
  <2> HIDE DEF t
  <2> QED BY <2>2, <2>3, <2>4, <2>5, <2>6, WorkerKeeps
<1> QED BY <1>1, <1>2

LEMMA QueueNumbers ==
  ASSUME QueueInvariant
  PROVE  /\ Past \subseteq Nat /\ lastSeq \in Nat /\ queueTime \in Nat
         /\ \A e \in Entries : e.seq \in Nat /\ e.expiresAt \in Nat
         /\ \A v \in Workers : txn[v].entry \in Entries /\ txn[v].gone \subseteq Entries
         /\ entries \subseteq Entries /\ accepted \subseteq Entries
BY DEF QueueInvariant, QueueTypes, Past, Entries

LEMMA QueueInsertKeeps ==
  ASSUME QueueInvariant, NEW w \in Workers, EnqueueInsert(w)
  PROVE  QueueInvariant'
<1> DEFINE old == entries \ Alive(entries)
           Ops == [at : {"idle", "trim", "commit", "select", "take"}, entry : Entries,
                   gone : SUBSET Entries]
<1>1. PICK x \in Expiries :
        LET e == [seq |-> lastSeq + 1, expiresAt |-> x] IN
        /\ txn' = [txn EXCEPT ![w] = [at |-> "trim", entry |-> e, gone |-> old]]
        /\ overlapped' = overlapped \cup {{e.seq, txn[v].entry.seq} : v \in {v \in Workers : Enqueuing(v)}}
  BY DEF EnqueueInsert
<1> DEFINE e == [seq |-> lastSeq + 1, expiresAt |-> x]
           t == [at |-> "trim", entry |-> e, gone |-> old]
<1>2. /\ txn[w].at = "idle" /\ lastSeq' = lastSeq + 1
      /\ UNCHANGED <<queueTime, entries, delivered, accepted>>
  BY DEF EnqueueInsert, MayStart
<1>3. e \in Entries /\ e.seq = lastSeq + 1
  BY QueueNumbers, QueueAssumption DEF Entries
<1>4. t \in Ops /\ t.at = "trim" /\ t.entry = e /\ t.gone = old /\ old \subseteq Entries
  BY <1>3, QueueNumbers
<1>5. overlapped \subseteq overlapped' /\ \A v \in Workers : Enqueuing(v) => {e.seq, txn[v].entry.seq} \in overlapped'
  BY <1>1
<1>6. \A v \in Workers : txn'[v] = IF v = w THEN t ELSE txn[v]
  BY <1>1 DEF QueueInvariant, QueueTypes
<1>7. QueueTypes'
  <2> HIDE DEF t, e
  <2> QED BY <1>1, <1>2, <1>4 DEF QueueInvariant, QueueTypes, t, e
<1> HIDE DEF t, e, old
<1>8. QueueInOrder' /\ Past' = Past
  BY <1>2, <1>5, OrderStays DEF QueueInvariant
<1>9. /\ \A v \in Workers : Enqueuing(v)' <=> v = w \/ Enqueuing(v)
      /\ \A v \in Workers : Taking(v)' <=> Taking(v)
      /\ ~Enqueuing(w) /\ ~Taking(w)
  BY <1>2, <1>4, <1>6 DEF Enqueuing, Taking
<1>10. \A f : Wanted(f)' => Wanted(f)
  BY <1>2, <1>6, <1>9 DEF Wanted
<1>11. SeqsInvariant'
  <2>1. \A v \in Workers : Enqueuing(v) \/ Taking(v) => txn[v].entry.seq <= lastSeq
    BY DEF QueueInvariant, SeqsInvariant
  <2>2. (\A f \in entries : f.seq <= lastSeq) /\ \A s \in Past : s <= lastSeq
    BY DEF QueueInvariant, SeqsInvariant
  <2>3. \A n \in Nat : n <= lastSeq => n <= lastSeq + 1 /\ n # lastSeq + 1
    BY QueueNumbers
  <2>4. /\ \A f \in entries' : f.seq <= lastSeq' /\ f.seq \notin Past'
        /\ \A f, g \in entries' : f.seq = g.seq => f = g
        /\ \A s \in Past' : s <= lastSeq'
    BY <1>2, <1>8, <2>2, <2>3, QueueNumbers DEF QueueInvariant, SeqsInvariant
  <2>5. \A v \in Workers : Taking(v)' => txn'[v].entry.seq <= lastSeq'
    BY <1>2, <1>6, <1>9, <2>1, <2>3, QueueNumbers
  <2>6. ASSUME NEW u \in Workers, Enqueuing(u)'
        PROVE  /\ txn'[u].entry.seq <= lastSeq' /\ txn'[u].entry.seq \notin Past'
               /\ \A f \in entries' : f.seq # txn'[u].entry.seq
               /\ \A v \in Workers : v # u /\ (Enqueuing(v)' \/ Taking(v)') =>
                    txn'[v].entry.seq # txn'[u].entry.seq
    <3>1. CASE u = w
      BY <1>2, <1>3, <1>4, <1>6, <1>8, <1>9, <2>1, <2>2, <2>3, <3>1, QueueNumbers
    <3>2. CASE u # w
      <4>1. Enqueuing(u) /\ txn'[u] = txn[u]
        BY <1>6, <1>9, <2>6, <3>2
      <4>2. /\ txn[u].entry.seq <= lastSeq /\ txn[u].entry.seq \notin Past
            /\ \A f \in entries : f.seq # txn[u].entry.seq
            /\ \A v \in Workers : v # u /\ (Enqueuing(v) \/ Taking(v)) =>
                 txn[v].entry.seq # txn[u].entry.seq
        BY <4>1, Zenon DEF QueueInvariant, SeqsInvariant
      <4> QED BY <1>2, <1>3, <1>4, <1>6, <1>8, <1>9, <2>3, <4>1, <4>2, QueueNumbers
    <3> QED BY <3>1, <3>2
  <2> QED BY <2>4, <2>5, <2>6, Zenon DEF SeqsInvariant
<1>12. MetInvariant'
  <2>1. \A f \in entries' : Wanted(f)' => \A s \in Past' : s > f.seq => {s, f.seq} \in overlapped'
    BY <1>2, <1>5, <1>8, <1>10, Zenon DEF QueueInvariant, MetInvariant, Met
  <2>2. ASSUME NEW u \in Workers, Enqueuing(u)'
        PROVE  /\ \A s \in Past' : s > txn'[u].entry.seq => {s, txn'[u].entry.seq} \in overlapped'
               /\ \A f \in entries' : f.seq > txn'[u].entry.seq => {f.seq, txn'[u].entry.seq} \in overlapped'
               /\ \A v \in Workers : Enqueuing(v)' /\ txn'[v].entry.seq > txn'[u].entry.seq =>
                    {txn'[v].entry.seq, txn'[u].entry.seq} \in overlapped'
    <3>0. /\ \A f \in entries : f.seq \in Nat /\ f.seq <= lastSeq
          /\ \A s \in Past : s \in Nat /\ s <= lastSeq
          /\ \A v \in Workers : Enqueuing(v) => txn[v].entry.seq \in Nat /\ txn[v].entry.seq <= lastSeq
      BY QueueNumbers DEF QueueInvariant, SeqsInvariant
    <3>1. CASE u = w
      <4>1. txn'[u].entry.seq = lastSeq + 1
        BY <1>3, <1>4, <1>6, <3>1
      <4>2. \A n \in Nat : n <= lastSeq => ~(n > lastSeq + 1)
        BY QueueNumbers
      <4>3. ~(lastSeq + 1 > lastSeq + 1)
        BY QueueNumbers
      <4> QED BY <1>2, <1>6, <1>8, <1>9, <3>0, <3>1, <4>1, <4>2, <4>3
    <3>2. CASE u # w
      <4>1. Enqueuing(u) /\ txn'[u] = txn[u]
        BY <1>6, <1>9, <2>2, <3>2
      <4>2. /\ \A s \in Past : s > txn[u].entry.seq => {s, txn[u].entry.seq} \in overlapped
            /\ \A f \in entries : f.seq > txn[u].entry.seq => {f.seq, txn[u].entry.seq} \in overlapped
            /\ \A v \in Workers : Enqueuing(v) /\ txn[v].entry.seq > txn[u].entry.seq =>
                 {txn[v].entry.seq, txn[u].entry.seq} \in overlapped
        BY <4>1, Zenon DEF QueueInvariant, MetInvariant, Met
      <4>3. {txn'[w].entry.seq, txn[u].entry.seq} \in overlapped'
        BY <1>4, <1>5, <1>6, <4>1
      <4> QED BY <1>2, <1>5, <1>6, <1>8, <1>9, <4>1, <4>2, <4>3
    <3> QED BY <3>1, <3>2
  <2>3. ASSUME NEW v \in Workers, Taking(v)', txn'[v].entry \in entries', NEW f \in entries',
               Wanted(f)', f.seq < txn'[v].entry.seq
        PROVE  {txn'[v].entry.seq, f.seq} \in overlapped'
    <3>1. Taking(v) /\ txn'[v] = txn[v]
      BY <1>6, <1>9, <2>3
    <3>2. {txn[v].entry.seq, f.seq} \in overlapped
      BY <1>2, <1>10, <2>3, <3>1, Zenon DEF QueueInvariant, MetInvariant, Met
    <3> QED BY <1>5, <3>1, <3>2
  <2> QED BY <2>1, <2>2, <2>3, Zenon DEF MetInvariant, Met
<1>13. GoneInvariant'
  <2>1. \A f \in Entries : Spent(f) => Spent(f)'
    BY <1>2, QueueNumbers, SpentStays DEF QueueInvariant
  <2>2. \A f \in old : Spent(f)
    BY QueueNumbers DEF old, Alive, Spent
  <2>3. \A v \in Workers : \A f \in txn'[v].gone : Spent(f)'
    BY <1>4, <1>6, <2>1, <2>2, QueueNumbers DEF QueueInvariant, GoneInvariant
  <2>4. \A v \in Workers : txn'[v].gone # {} => Enqueuing(v)'
    BY <1>6, <1>9 DEF QueueInvariant, GoneInvariant
  <2>5. \A f \in accepted' : f \in entries' \/ f.seq \in Past' \/ Spent(f)'
    BY <1>2, <1>8, <2>1, QueueNumbers DEF QueueInvariant, GoneInvariant
  <2> QED BY <2>3, <2>4, <2>5 DEF GoneInvariant
<1> QED BY <1>7, <1>8, <1>11, <1>12, <1>13 DEF QueueInvariant

LEMMA CommitKeeps ==
  ASSUME QueueInvariant, NEW w \in Workers, EnqueueCommit(w)
  PROVE  QueueInvariant'
<1> DEFINE e == txn[w].entry
<1>1. /\ Enqueuing(w) /\ entries' = (entries \cup {e}) \ txn[w].gone
      /\ accepted' = accepted \cup {e} /\ txn' = [txn EXCEPT ![w] = NoTxn]
      /\ UNCHANGED <<queueTime, lastSeq, delivered, overlapped>>
  BY DEF EnqueueCommit, Enqueuing
<1>2. \A v \in Workers : txn'[v] = IF v = w THEN NoTxn ELSE txn[v]
  BY <1>1 DEF QueueInvariant, QueueTypes
<1>3. QueueTypes'
  <2>1. IsFiniteSet(entries \cup {e})
    BY FS_AddElement DEF QueueInvariant, QueueTypes
  <2>2. IsFiniteSet(entries')
    BY <1>1, <2>1, FS_Subset
  <2>3. entries' \subseteq Entries /\ accepted' \subseteq Entries
    BY <1>1, QueueNumbers
  <2> QED BY <1>1, <2>2, <2>3, NoTxnIsTyped DEF QueueInvariant, QueueTypes
<1>4. QueueInOrder' /\ Past' = Past
  BY <1>1, OrderStays DEF QueueInvariant
<1>5. /\ \A v \in Workers : Enqueuing(v)' <=> v # w /\ Enqueuing(v)
      /\ \A v \in Workers : Taking(v)' <=> Taking(v)
      /\ ~Taking(w)
  BY <1>1, <1>2, NoTxnIsTyped DEF Enqueuing, Taking
<1>6. \A f : Wanted(f)' => Wanted(f)
  BY <1>1, <1>2, <1>5 DEF Wanted
<1>7. entries' \subseteq entries \cup {e}
  BY <1>1
<1>8. /\ e.seq <= lastSeq /\ e.seq \notin Past /\ \A f \in entries : f.seq # e.seq
      /\ \A v \in Workers : v # w /\ (Enqueuing(v) \/ Taking(v)) => txn[v].entry.seq # e.seq
  BY <1>1, Zenon DEF QueueInvariant, SeqsInvariant
<1> HIDE DEF e
<1>9. SeqsInvariant'
  <2>1. /\ \A f \in entries : f.seq <= lastSeq /\ f.seq \notin Past
        /\ \A f, g \in entries : f.seq = g.seq => f = g
        /\ \A s \in Past : s <= lastSeq
        /\ \A v \in Workers : Taking(v) => txn[v].entry.seq <= lastSeq
    BY DEF QueueInvariant, SeqsInvariant
  <2>2. /\ \A f \in entries' : f.seq <= lastSeq' /\ f.seq \notin Past'
        /\ \A f, g \in entries' : f.seq = g.seq => f = g
        /\ \A s \in Past' : s <= lastSeq'
        /\ \A v \in Workers : Taking(v)' => txn'[v].entry.seq <= lastSeq'
    BY <1>1, <1>2, <1>4, <1>5, <1>7, <1>8, <2>1
  <2>3. ASSUME NEW u \in Workers, Enqueuing(u)'
        PROVE  /\ txn'[u].entry.seq <= lastSeq' /\ txn'[u].entry.seq \notin Past'
               /\ \A f \in entries' : f.seq # txn'[u].entry.seq
               /\ \A v \in Workers : v # u /\ (Enqueuing(v)' \/ Taking(v)') =>
                    txn'[v].entry.seq # txn'[u].entry.seq
    <3>1. Enqueuing(u) /\ u # w /\ txn'[u] = txn[u]
      BY <1>2, <1>5, <2>3
    <3>2. /\ txn[u].entry.seq <= lastSeq /\ txn[u].entry.seq \notin Past
          /\ \A f \in entries : f.seq # txn[u].entry.seq
          /\ \A v \in Workers : v # u /\ (Enqueuing(v) \/ Taking(v)) =>
               txn[v].entry.seq # txn[u].entry.seq
      BY <3>1, Zenon DEF QueueInvariant, SeqsInvariant
    <3> QED BY <1>1, <1>2, <1>4, <1>5, <1>7, <1>8, <3>1, <3>2
  <2> QED BY <2>2, <2>3, Zenon DEF SeqsInvariant
<1>10. MetInvariant'
  <2>1. /\ \A s \in Past : s > e.seq => {s, e.seq} \in overlapped
        /\ \A f \in entries : f.seq > e.seq => {f.seq, e.seq} \in overlapped
    BY <1>1, Zenon DEF QueueInvariant, MetInvariant, Met, e
  <2>2. \A f \in entries' : Wanted(f)' => \A s \in Past' : s > f.seq => {s, f.seq} \in overlapped'
    <3>1. \A f \in entries : Wanted(f) => \A s \in Past : s > f.seq => {s, f.seq} \in overlapped
      BY Zenon DEF QueueInvariant, MetInvariant, Met
    <3> QED BY <1>1, <1>4, <1>6, <1>7, <2>1, <3>1
  <2>3. ASSUME NEW u \in Workers, Enqueuing(u)'
        PROVE  /\ \A s \in Past' : s > txn'[u].entry.seq => {s, txn'[u].entry.seq} \in overlapped'
               /\ \A f \in entries' : f.seq > txn'[u].entry.seq => {f.seq, txn'[u].entry.seq} \in overlapped'
               /\ \A v \in Workers : Enqueuing(v)' /\ txn'[v].entry.seq > txn'[u].entry.seq =>
                    {txn'[v].entry.seq, txn'[u].entry.seq} \in overlapped'
    <3>1. Enqueuing(u) /\ u # w /\ txn'[u] = txn[u]
      BY <1>2, <1>5, <2>3
    <3>2. /\ \A s \in Past : s > txn[u].entry.seq => {s, txn[u].entry.seq} \in overlapped
          /\ \A f \in entries : f.seq > txn[u].entry.seq => {f.seq, txn[u].entry.seq} \in overlapped
          /\ \A v \in Workers : Enqueuing(v) /\ txn[v].entry.seq > txn[u].entry.seq =>
               {txn[v].entry.seq, txn[u].entry.seq} \in overlapped
      BY <3>1, Zenon DEF QueueInvariant, MetInvariant, Met
    <3>3. e.seq > txn[u].entry.seq => {e.seq, txn[u].entry.seq} \in overlapped
      BY <1>1, <3>2 DEF e
    <3>4. ASSUME NEW f \in entries', f.seq > txn'[u].entry.seq
          PROVE  {f.seq, txn'[u].entry.seq} \in overlapped'
      <4>1. overlapped' = overlapped /\ f.seq > txn[u].entry.seq
        BY <1>1, <3>1, <3>4
      <4>2. CASE f \in entries
        BY <3>1, <3>2, <4>1, <4>2
      <4>3. CASE f = e
        BY <3>1, <3>3, <4>1, <4>3
      <4> QED BY <1>7, <4>2, <4>3
    <3>5. \A v \in Workers : Enqueuing(v)' /\ txn'[v].entry.seq > txn'[u].entry.seq =>
            {txn'[v].entry.seq, txn'[u].entry.seq} \in overlapped'
      BY <1>1, <1>2, <1>5, <3>1, <3>2
    <3> QED BY <1>1, <1>4, <3>1, <3>2, <3>4, <3>5
  <2>4. ASSUME NEW v \in Workers, Taking(v)', txn'[v].entry \in entries', NEW f \in entries',
               Wanted(f)', f.seq < txn'[v].entry.seq
        PROVE  {txn'[v].entry.seq, f.seq} \in overlapped'
    <3>1. Taking(v) /\ v # w /\ txn'[v] = txn[v]
      BY <1>2, <1>5, <2>4
    <3>2. txn[v].entry \in entries
      BY <1>7, <1>8, <2>4, <3>1
    <3>3. CASE f \in entries
      <4>1. \A g \in entries : Wanted(g) /\ g.seq < txn[v].entry.seq =>
              {txn[v].entry.seq, g.seq} \in overlapped
        BY <3>1, <3>2, Zenon DEF QueueInvariant, MetInvariant, Met
      <4>2. Wanted(f) /\ f.seq < txn[v].entry.seq
        BY <1>6, <2>4, <3>1
      <4> QED BY <1>1, <3>1, <3>3, <4>1, <4>2
    <3>4. CASE f = e
      <4>1. txn[v].entry.seq > e.seq
        BY <2>4, <3>1, <3>4, QueueNumbers DEF e
      <4> QED BY <1>1, <2>1, <3>1, <3>2, <3>4, <4>1
    <3> QED BY <1>7, <3>3, <3>4
  <2> QED BY <2>2, <2>3, <2>4, Zenon DEF MetInvariant, Met
<1>11. GoneInvariant'
  <2>1. \A f : Spent(f)' <=> Spent(f)
    BY <1>1 DEF Spent
  <2>2. \A v \in Workers : txn'[v].gone # {} => Enqueuing(v)'
    BY <1>2, <1>5, NoTxnIsTyped DEF QueueInvariant, GoneInvariant
  <2>3. \A v \in Workers : \A f \in txn'[v].gone : Spent(f)'
    BY <1>2, <2>1, NoTxnIsTyped DEF QueueInvariant, GoneInvariant
  <2>4. \A f \in txn[w].gone : Spent(f)
    BY DEF QueueInvariant, GoneInvariant
  <2>5. \A f \in accepted' : f \in entries' \/ f.seq \in Past' \/ Spent(f)'
    BY <1>1, <1>4, <2>1, <2>4 DEF QueueInvariant, GoneInvariant
  <2> QED BY <2>2, <2>3, <2>5 DEF GoneInvariant
<1> QED BY <1>3, <1>4, <1>9, <1>10, <1>11 DEF QueueInvariant

(* The worker has the first of those alive; what is wanted before it is in *)
(* the hands of a worker it meets.                                         *)
LEMMA SelectKeeps ==
  ASSUME QueueInvariant, NEW w \in Workers, DequeueSelect(w)
  PROVE  QueueInvariant'
<1>1. CASE Alive(entries) = {}
  <2>1. UNCHANGED <<queueTime, lastSeq, delivered, accepted, overlapped, entries>> /\ txn' = [txn EXCEPT ![w] = NoTxn]
    BY <1>1 DEF DequeueSelect
  <2> QED BY <2>1, NoTxnIsTyped, WorkerKeeps
<1>2. CASE Alive(entries) # {}
  <2>1. PICK e \in Alive(entries) :
          /\ \A f \in Alive(entries) : e.seq <= f.seq
          /\ txn' = [txn EXCEPT ![w] = [at |-> "take", entry |-> e, gone |-> {}]]
          /\ overlapped' = overlapped \cup
               {{e.seq, txn[v].entry.seq} : v \in {v \in Workers : txn[v].at = "take"}}
    BY <1>2 DEF DequeueSelect
  <2> DEFINE t == [at |-> "take", entry |-> e, gone |-> {}]
             Ops == [at : {"idle", "trim", "commit", "select", "take"}, entry : Entries,
                     gone : SUBSET Entries]
  <2>2. /\ txn[w].at = "select" /\ UNCHANGED <<queueTime, lastSeq, delivered, accepted, entries>>
        /\ e \in entries /\ e.expiresAt > queueTime
    BY DEF DequeueSelect, Alive
  <2>3. t \in Ops /\ t.at = "take" /\ t.entry = e /\ t.gone = {}
    BY <2>2, QueueNumbers
  <2>4. \A v \in Workers : txn'[v] = IF v = w THEN t ELSE txn[v]
    BY <2>1 DEF QueueInvariant, QueueTypes
  <2>5. QueueTypes'
    <3> HIDE DEF t
    <3> QED BY <2>1, <2>2, <2>3 DEF QueueInvariant, QueueTypes, t
  <2>6. overlapped \subseteq overlapped' /\ \A v \in Workers : Taking(v) => {e.seq, txn[v].entry.seq} \in overlapped'
    BY <2>1 DEF Taking
  <2> HIDE DEF t
  <2>7. QueueInOrder' /\ Past' = Past
    BY <2>2, <2>6, OrderStays DEF QueueInvariant
  <2>8. /\ \A v \in Workers : Enqueuing(v)' <=> Enqueuing(v)
        /\ \A v \in Workers : Taking(v)' <=> v = w \/ Taking(v)
        /\ ~Enqueuing(w) /\ ~Taking(w)
    BY <2>2, <2>3, <2>4 DEF Enqueuing, Taking
  <2>9. \A f : Wanted(f)' => Wanted(f)
    BY <2>2, <2>3, <2>4, <2>8 DEF Wanted
  <2>10. SeqsInvariant'
    <3>1. /\ \A f \in entries' : f.seq <= lastSeq' /\ f.seq \notin Past'
          /\ \A f, g \in entries' : f.seq = g.seq => f = g
          /\ \A s \in Past' : s <= lastSeq'
      BY <2>2, <2>7 DEF QueueInvariant, SeqsInvariant
    <3>2. \A v \in Workers : Taking(v)' => txn'[v].entry.seq <= lastSeq'
      BY <2>2, <2>3, <2>4, <2>8 DEF QueueInvariant, SeqsInvariant
    <3>3. ASSUME NEW u \in Workers, Enqueuing(u)'
          PROVE  /\ txn'[u].entry.seq <= lastSeq' /\ txn'[u].entry.seq \notin Past'
                 /\ \A f \in entries' : f.seq # txn'[u].entry.seq
                 /\ \A v \in Workers : v # u /\ (Enqueuing(v)' \/ Taking(v)') =>
                      txn'[v].entry.seq # txn'[u].entry.seq
      <4>1. Enqueuing(u) /\ u # w /\ txn'[u] = txn[u]
        BY <2>4, <2>8, <3>3
      <4>2. /\ txn[u].entry.seq <= lastSeq /\ txn[u].entry.seq \notin Past
            /\ \A f \in entries : f.seq # txn[u].entry.seq
            /\ \A v \in Workers : v # u /\ (Enqueuing(v) \/ Taking(v)) =>
                 txn[v].entry.seq # txn[u].entry.seq
        BY <4>1, Zenon DEF QueueInvariant, SeqsInvariant
      <4> QED BY <2>2, <2>3, <2>4, <2>7, <2>8, <4>1, <4>2
    <3> QED BY <3>1, <3>2, <3>3, Zenon DEF SeqsInvariant
  <2>11. MetInvariant'
    <3>1. \A f \in entries' : Wanted(f)' => \A s \in Past' : s > f.seq => {s, f.seq} \in overlapped'
      <4>1. \A f \in entries : Wanted(f) => \A s \in Past : s > f.seq => {s, f.seq} \in overlapped
        BY Zenon DEF QueueInvariant, MetInvariant, Met
      <4> QED BY <2>2, <2>6, <2>7, <2>9, <4>1
    <3>2. ASSUME NEW u \in Workers, Enqueuing(u)'
          PROVE  /\ \A s \in Past' : s > txn'[u].entry.seq => {s, txn'[u].entry.seq} \in overlapped'
                 /\ \A f \in entries' : f.seq > txn'[u].entry.seq => {f.seq, txn'[u].entry.seq} \in overlapped'
                 /\ \A v \in Workers : Enqueuing(v)' /\ txn'[v].entry.seq > txn'[u].entry.seq =>
                      {txn'[v].entry.seq, txn'[u].entry.seq} \in overlapped'
      <4>1. Enqueuing(u) /\ u # w /\ txn'[u] = txn[u]
        BY <2>4, <2>8, <3>2
      <4>2. /\ \A s \in Past : s > txn[u].entry.seq => {s, txn[u].entry.seq} \in overlapped
            /\ \A f \in entries : f.seq > txn[u].entry.seq => {f.seq, txn[u].entry.seq} \in overlapped
            /\ \A v \in Workers : Enqueuing(v) /\ txn[v].entry.seq > txn[u].entry.seq =>
                 {txn[v].entry.seq, txn[u].entry.seq} \in overlapped
        BY <4>1, Zenon DEF QueueInvariant, MetInvariant, Met
      <4> QED BY <2>2, <2>4, <2>6, <2>7, <2>8, <4>1, <4>2
    <3>3. ASSUME NEW v \in Workers, Taking(v)', txn'[v].entry \in entries', NEW f \in entries',
                 Wanted(f)', f.seq < txn'[v].entry.seq
          PROVE  {txn'[v].entry.seq, f.seq} \in overlapped'
      <4>1. Wanted(f) /\ f \in entries
        BY <2>2, <2>9, <3>3
      <4>2. CASE v = w
        <5>1. txn'[v].entry = e /\ f.seq < e.seq
          BY <2>3, <2>4, <3>3, <4>2
        <5>2. ~(f.expiresAt > queueTime)
          BY <2>1, <2>2, <4>1, <5>1, QueueNumbers DEF Alive
        <5>3. PICK u \in Workers : Taking(u) /\ txn[u].entry = f
          BY <4>1, <5>2 DEF Wanted
        <5> QED BY <2>6, <5>1, <5>3
      <4>3. CASE v # w
        <5>1. Taking(v) /\ txn'[v] = txn[v] /\ txn[v].entry \in entries
          BY <2>2, <2>4, <2>8, <3>3, <4>3
        <5>2. \A g \in entries : Wanted(g) /\ g.seq < txn[v].entry.seq =>
                {txn[v].entry.seq, g.seq} \in overlapped
          BY <5>1, Zenon DEF QueueInvariant, MetInvariant, Met
        <5> QED BY <2>6, <3>3, <4>1, <5>1, <5>2
      <4> QED BY <4>2, <4>3
    <3> QED BY <3>1, <3>2, <3>3, Zenon DEF MetInvariant, Met
  <2>12. GoneInvariant'
    <3>1. \A f : Spent(f)' <=> Spent(f)
      BY <2>2 DEF Spent
    <3>2. \A v \in Workers : txn'[v].gone # {} => Enqueuing(v)'
      BY <2>3, <2>4, <2>8 DEF QueueInvariant, GoneInvariant
    <3>3. \A v \in Workers : \A f \in txn'[v].gone : Spent(f)'
      BY <2>3, <2>4, <3>1 DEF QueueInvariant, GoneInvariant
    <3>4. \A f \in accepted' : f \in entries' \/ f.seq \in Past' \/ Spent(f)'
      BY <2>2, <2>7, <3>1 DEF QueueInvariant, GoneInvariant
    <3> QED BY <3>2, <3>3, <3>4 DEF GoneInvariant
  <2> QED BY <2>5, <2>7, <2>10, <2>11, <2>12 DEF QueueInvariant
<1> QED BY <1>1, <1>2

LEMMA TakeKeeps ==
  ASSUME QueueInvariant, NEW w \in Workers, DequeueTake(w)
  PROVE  QueueInvariant'
<1> DEFINE e == txn[w].entry
<1>1. CASE e \notin entries
  <2>1. /\ UNCHANGED <<queueTime, lastSeq, delivered, accepted, overlapped, entries>>
        /\ txn' = [txn EXCEPT ![w] = NoTxn]
    BY <1>1 DEF DequeueTake
  <2> QED BY <2>1, NoTxnIsTyped, WorkerKeeps
<1>2. CASE e \in entries
  <2>1. /\ Taking(w) /\ entries' = entries \ {e} /\ delivered' = Append(delivered, e.seq)
        /\ txn' = [txn EXCEPT ![w] = NoTxn]
        /\ UNCHANGED <<queueTime, lastSeq, accepted, overlapped>>
    BY <1>2 DEF DequeueTake, Taking
  <2>2. \A v \in Workers : txn'[v] = IF v = w THEN NoTxn ELSE txn[v]
    BY <2>1 DEF QueueInvariant, QueueTypes
  <2>3. e.seq \in Nat /\ delivered \in Seq(Nat)
    BY QueueNumbers DEF QueueInvariant, QueueTypes
  <2> HIDE DEF e
  <2>4. /\ Len(delivered') = Len(delivered) + 1 /\ delivered' \in Seq(Nat) /\ Len(delivered) \in Nat
        /\ \A i \in 1..Len(delivered) : delivered'[i] = delivered[i]
        /\ delivered'[Len(delivered) + 1] = e.seq
    BY <2>1, <2>3
  <2>5. Past' = Past \cup {e.seq}
    <3>1. \A i \in 1..Len(delivered') : i \in 1..Len(delivered) \/ i = Len(delivered) + 1
      BY <2>4
    <3>2. \A i \in 1..Len(delivered) : i \in 1..Len(delivered')
      BY <2>4
    <3>3. Len(delivered) + 1 \in 1..Len(delivered')
      BY <2>4
    <3> QED BY <2>4, <3>1, <3>2, <3>3 DEF Past
  <2>6. QueueTypes'
    <3>1. IsFiniteSet(entries')
      BY <2>1, FS_RemoveElement DEF QueueInvariant, QueueTypes
    <3> QED BY <2>1, <2>4, <3>1, NoTxnIsTyped DEF QueueInvariant, QueueTypes
  <2>7. /\ \A v \in Workers : Enqueuing(v)' <=> Enqueuing(v)
        /\ \A v \in Workers : Taking(v)' <=> v # w /\ Taking(v)
        /\ ~Enqueuing(w)
    BY <2>1, <2>2, NoTxnIsTyped DEF Enqueuing, Taking
  <2>8. \A f : Wanted(f)' => Wanted(f)
    BY <2>1, <2>2, <2>7 DEF Wanted
  <2>9. QueueInOrder'
    <3>1. ASSUME NEW i \in 1..Len(delivered)
          PROVE  delivered[i] < e.seq \/ (delivered[i] > e.seq /\ {delivered[i], e.seq} \in overlapped)
      <4>1. delivered[i] \in Past /\ delivered[i] \in Nat /\ delivered[i] # e.seq
        BY <1>2, <2>3 DEF Past, QueueInvariant, SeqsInvariant
      <4>2. CASE delivered[i] > e.seq
        <5>1. Wanted(e)
          BY <2>1 DEF Wanted, e
        <5> QED BY <1>2, <4>1, <4>2, <5>1 DEF QueueInvariant, MetInvariant, Met
      <4>3. \A m, n \in Nat : m # n => m < n \/ m > n
        OBVIOUS
      <4>4. delivered[i] < e.seq \/ delivered[i] > e.seq
        BY <2>3, <4>1, <4>3, Zenon
      <4> QED BY <4>2, <4>4, Zenon
    <3>2. ASSUME NEW i \in 1..Len(delivered'), NEW j \in 1..Len(delivered'), i < j
          PROVE  \/ delivered'[i] < delivered'[j]
                 \/ delivered'[i] > delivered'[j] /\ {delivered'[i], delivered'[j]} \in overlapped'
      <4>1. i \in 1..Len(delivered) /\ (j \in 1..Len(delivered) \/ j = Len(delivered) + 1)
        BY <2>4, <3>2
      <4>2. CASE j \in 1..Len(delivered)
        <5>1. \/ delivered[i] < delivered[j]
              \/ delivered[i] > delivered[j] /\ {delivered[i], delivered[j]} \in overlapped
          BY <3>2, <4>1, <4>2 DEF QueueInvariant, QueueInOrder
        <5> QED BY <2>1, <2>4, <4>1, <4>2, <5>1
      <4>3. CASE j = Len(delivered) + 1
        BY <2>1, <2>4, <3>1, <4>1, <4>3
      <4> QED BY <4>1, <4>2, <4>3
    <3> QED BY <3>2 DEF QueueInOrder
  <2>10. SeqsInvariant'
    <3>1. /\ \A f \in entries' : f.seq <= lastSeq' /\ f.seq \notin Past'
          /\ \A f, g \in entries' : f.seq = g.seq => f = g
          /\ \A s \in Past' : s <= lastSeq'
      BY <1>2, <2>1, <2>5 DEF QueueInvariant, SeqsInvariant
    <3>2. \A v \in Workers : Taking(v)' => txn'[v].entry.seq <= lastSeq'
      BY <2>1, <2>2, <2>7 DEF QueueInvariant, SeqsInvariant
    <3>3. ASSUME NEW u \in Workers, Enqueuing(u)'
          PROVE  /\ txn'[u].entry.seq <= lastSeq' /\ txn'[u].entry.seq \notin Past'
                 /\ \A f \in entries' : f.seq # txn'[u].entry.seq
                 /\ \A v \in Workers : v # u /\ (Enqueuing(v)' \/ Taking(v)') =>
                      txn'[v].entry.seq # txn'[u].entry.seq
      <4>1. Enqueuing(u) /\ u # w /\ txn'[u] = txn[u]
        BY <2>2, <2>7, <3>3
      <4>2. /\ txn[u].entry.seq <= lastSeq /\ txn[u].entry.seq \notin Past
            /\ \A f \in entries : f.seq # txn[u].entry.seq
            /\ \A v \in Workers : v # u /\ (Enqueuing(v) \/ Taking(v)) =>
                 txn[v].entry.seq # txn[u].entry.seq
        BY <4>1, Zenon DEF QueueInvariant, SeqsInvariant
      <4> QED BY <1>2, <2>1, <2>2, <2>5, <2>7, <4>1, <4>2
    <3> QED BY <3>1, <3>2, <3>3, Zenon DEF SeqsInvariant
  <2>11. MetInvariant'
    <3>1. ASSUME NEW f \in entries', Wanted(f)', NEW s \in Past', s > f.seq
          PROVE  {s, f.seq} \in overlapped'
      <4>1. f \in entries /\ Wanted(f)
        BY <2>1, <2>8, <3>1
      <4>2. CASE s \in Past
        <5>1. {s, f.seq} \in overlapped
          BY <3>1, <4>1, <4>2, Zenon DEF QueueInvariant, MetInvariant, Met
        <5> QED BY <2>1, <5>1
      <4>3. CASE s = e.seq
        <5>1. f.seq < e.seq
          BY <2>3, <3>1, <4>1, <4>3, QueueNumbers
        <5>2. {e.seq, f.seq} \in overlapped
          BY <1>2, <2>1, <4>1, <5>1, Zenon DEF QueueInvariant, MetInvariant, Met, e
        <5> QED BY <2>1, <4>3, <5>2
      <4> QED BY <2>5, <4>2, <4>3
    <3>2. ASSUME NEW u \in Workers, Enqueuing(u)'
          PROVE  /\ \A s \in Past' : s > txn'[u].entry.seq => {s, txn'[u].entry.seq} \in overlapped'
                 /\ \A f \in entries' : f.seq > txn'[u].entry.seq => {f.seq, txn'[u].entry.seq} \in overlapped'
                 /\ \A v \in Workers : Enqueuing(v)' /\ txn'[v].entry.seq > txn'[u].entry.seq =>
                      {txn'[v].entry.seq, txn'[u].entry.seq} \in overlapped'
      <4>1. Enqueuing(u) /\ u # w /\ txn'[u] = txn[u]
        BY <2>2, <2>7, <3>2
      <4>2. /\ \A s \in Past : s > txn[u].entry.seq => {s, txn[u].entry.seq} \in overlapped
            /\ \A f \in entries : f.seq > txn[u].entry.seq => {f.seq, txn[u].entry.seq} \in overlapped
            /\ \A v \in Workers : Enqueuing(v) /\ txn[v].entry.seq > txn[u].entry.seq =>
                 {txn[v].entry.seq, txn[u].entry.seq} \in overlapped
        BY <4>1, Zenon DEF QueueInvariant, MetInvariant, Met
      <4>3. overlapped' = overlapped /\ entries' \subseteq entries
        BY <2>1
      <4>4. \A s \in Past' : s > txn'[u].entry.seq => {s, txn'[u].entry.seq} \in overlapped'
        BY <1>2, <2>5, <4>1, <4>2, <4>3
      <4> QED BY <2>2, <2>7, <4>1, <4>2, <4>3, <4>4
    <3>3. ASSUME NEW v \in Workers, Taking(v)', txn'[v].entry \in entries', NEW f \in entries',
                 Wanted(f)', f.seq < txn'[v].entry.seq
          PROVE  {txn'[v].entry.seq, f.seq} \in overlapped'
      <4>1. Taking(v) /\ txn'[v] = txn[v] /\ txn[v].entry \in entries /\ f \in entries /\ Wanted(f)
        BY <2>1, <2>2, <2>7, <2>8, <3>3
      <4>2. \A g \in entries : Wanted(g) /\ g.seq < txn[v].entry.seq =>
              {txn[v].entry.seq, g.seq} \in overlapped
        BY <4>1, Zenon DEF QueueInvariant, MetInvariant, Met
      <4> QED BY <2>1, <3>3, <4>1, <4>2
    <3> QED BY <3>1, <3>2, <3>3, Zenon DEF MetInvariant, Met
  <2>12. GoneInvariant'
    <3>1. \A f : Spent(f)' <=> Spent(f)
      BY <2>1 DEF Spent
    <3>2. \A v \in Workers : txn'[v].gone # {} => Enqueuing(v)'
      BY <2>2, <2>7, NoTxnIsTyped DEF QueueInvariant, GoneInvariant
    <3>3. \A v \in Workers : \A f \in txn'[v].gone : Spent(f)'
      BY <2>2, <3>1, NoTxnIsTyped DEF QueueInvariant, GoneInvariant
    <3>4. \A f \in accepted' : f \in entries' \/ f.seq \in Past' \/ Spent(f)'
      BY <2>1, <2>5, <3>1 DEF QueueInvariant, GoneInvariant
    <3> QED BY <3>2, <3>3, <3>4 DEF GoneInvariant
  <2> QED BY <2>6, <2>9, <2>10, <2>11, <2>12 DEF QueueInvariant
<1> QED BY <1>1, <1>2

(* An entry a worker has in hand has met every earlier one that is wanted, *)
(* and what leaves the queue undelivered is spent.                         *)
THEOREM QueueInvariantHolds == QueueSpec => []QueueInvariant
<1>1. QueueInvariant /\ [QueueNext]_queueVars => QueueInvariant'
  <2> SUFFICES ASSUME QueueInvariant, [QueueNext]_queueVars
               PROVE  QueueInvariant'
    OBVIOUS
  <2>1. CASE UNCHANGED queueVars
    BY <2>1, QueueTimeKeeps DEF queueVars
  <2>2. CASE QueueTick
    BY <2>2, QueueTimeKeeps DEF QueueTick
  <2> QED BY <2>1, <2>2, QueueInsertKeeps, TrimKeeps, CommitKeeps, QueueLeaveKeeps, SelectKeeps,
             TakeKeeps DEF QueueNext
<1> QED BY <1>1, QueueStart, PTL DEF QueueSpec

(* QueueIsFaithful: the queue of a thread delivers what was accepted once  *)
(* and in order, whoever queues and takes at the same time.                *)
THEOREM QueueIsAlwaysFaithful == QueueSpec => []QueueIsFaithful
<1>1. QueueInvariant => QueueIsFaithful
  <2> SUFFICES ASSUME QueueInvariant PROVE QueueKeeps
    BY DEF QueueInvariant, QueueIsFaithful
  <2> SUFFICES ASSUME NEW e \in Alive(accepted) \ entries
               PROVE  (\E i \in 1..Len(delivered) : delivered[i] = e.seq) \/ lastSeq - e.seq >= MaxSize
    BY DEF QueueKeeps
  <2>1. e \in accepted /\ e \notin entries /\ ~(e.expiresAt <= queueTime)
    BY QueueNumbers DEF Alive
  <2>2. e.seq \in Past \/ Spent(e)
    BY <2>1 DEF QueueInvariant, GoneInvariant
  <2> QED BY <2>1, <2>2 DEF Past, Spent
<1> QED BY <1>1, QueueInvariantHolds, PTL

-----------------------------------------------------------------------------
(* ListIsWhole for any callers, expiries and length of the list: one at a  *)
(* time has the lock of the key, and whoever finds the list lapsed deletes *)
(* all of it before the others go on.                                      *)

ListTxnTypes ==
  [op : {"none", "append", "get", "delete"},
   at : {"idle", "look", "drop", "key", "insert", "trim", "commit"},
   start : Nat, ttl : Nat, new : SUBSET Nat, doomed : SUBSET Nat, gone : SUBSET Nat,
   locks : BOOLEAN, mine : SUBSET Nat]

TheList == [key |-> listKey, rows |-> values]

(* How far a transaction has come, and what it has in hand then.           *)
StageIs(t, key, stored, seq) ==
  /\ t.gone \subseteq stored /\ t.doomed \subseteq 1..seq
  /\ t.at = "idle" => t = NoListTxn
  /\ t.at \in {"look", "drop"} => t.gone = {}
  /\ t.at \in {"look", "drop", "key"} => ~t.locks /\ t.new = {} /\ t.mine = {}
  /\ t.at # "drop" => t.doomed = {}
  /\ t.at = "drop" /\ t.op # "delete" /\ t.doomed \cap stored # {} => Lapsed(key, t.start)
  /\ t.at = "key" /\ t.op # "delete" /\ t.gone # {} => Lapsed(key, t.start)
  /\ t.at = "insert" =>
       /\ t.op = "append" /\ t.new = {} /\ t.mine = {}
       /\ IF t.locks THEN Lapsed(key, t.start) /\ t.gone = stored
          ELSE ~Lapsed(key, t.start) /\ t.gone = {}
  /\ t.at = "trim" => t.op = "append"
  /\ t.at \in {"trim", "commit"} /\ t.op = "append" =>
       /\ t.locks /\ \E v \in 1..seq : t.new = {v} /\ \A u \in stored : u < v
       /\ IF Lapsed(key, t.start) THEN t.gone = stored /\ t.mine = Renewed({}, t.ttl)
          ELSE /\ t.gone = IF t.at = "trim" THEN {} ELSE Excess(stored \cup t.new)
               /\ t.mine = Renewed(key, t.ttl)
  /\ t.at = "commit" /\ t.op # "append" =>
       /\ t.new = {} /\ t.mine = {}
       /\ IF t.locks THEN t.gone = stored /\ (t.op = "delete" \/ Lapsed(key, t.start))
          ELSE t.gone = {}

(* No two hold the lock or have deleted the same row, none has found one   *)
(* that another has yet to commit; and they agree on what has lapsed.      *)
PairIs(t, u, key) ==
  /\ ~(t.locks /\ u.locks)
  /\ t.gone \cap u.gone = {} /\ t.doomed \cap u.new = {}
  /\ t.at # "idle" /\ u.at # "idle" =>
       /\ Lapsed(key, t.start) => Lapsed(key, u.start)
       /\ t.ttl = NoTtl \/ t.ttl > u.start

ListSound ==
  /\ whole = TheList
  /\ listKey = {} => values = {}
  /\ \A c \in Callers : StageIs(listTxn[c], listKey, values, valueSeq)
  /\ \A c \in Callers : \A d \in Others(c) : PairIs(listTxn[c], listTxn[d], listKey)

ListTypes ==
  /\ listTime \in Nat /\ listTime <= MaxListTime /\ valueSeq \in Nat /\ straddled \in BOOLEAN
  /\ listKey \in SUBSET Nat /\ values \subseteq 1..valueSeq
  /\ listTxn \in [Callers -> ListTxnTypes]
  /\ \A c \in Callers :
       /\ listTxn[c].start <= listTime /\ listTxn[c].new \subseteq 1..valueSeq
       /\ listTxn[c].ttl = NoTtl \/ listTxn[c].ttl > listTxn[c].start

ListInvariant == ListTypes /\ (~straddled => ListSound)
-----------------------------------------------------------------------------
LEMMA ListStart == ListInit => ListInvariant
<1> SUFFICES ASSUME ListInit PROVE ListInvariant
  OBVIOUS
<1>1. NoListTxn \in ListTxnTypes /\ NoListTxn.start = 0 /\ NoListTxn.ttl = NoTtl /\ NoListTxn.at = "idle"
  BY DEF NoListTxn, ListTxnTypes, NoTtl
<1>2. \A c \in Callers : listTxn[c] = NoListTxn
  BY DEF ListInit
<1>3. ListTypes
  <2>1. listTxn \in [Callers -> ListTxnTypes]
    BY <1>1 DEF ListInit
  <2>2. /\ listTime = 0 /\ valueSeq = 0 /\ listKey = {} /\ values = {} /\ straddled \in BOOLEAN
        /\ MaxListTime \in Nat
    BY ListAssumption DEF ListInit
  <2>3. \A c \in Callers : listTxn[c].start = 0 /\ listTxn[c].ttl = NoTtl /\ listTxn[c].new = {}
    BY <1>1, <1>2 DEF NoListTxn
  <2>4. listTime \in Nat /\ listTime <= MaxListTime /\ valueSeq \in Nat /\ values \subseteq 1..valueSeq
    BY <2>2
  <2>5. \A c \in Callers : listTxn[c].start <= listTime /\ listTxn[c].new \subseteq 1..valueSeq /\ (listTxn[c].ttl = NoTtl \/ listTxn[c].ttl > listTxn[c].start)
    BY <2>2, <2>3
  <2>6. listKey \in SUBSET Nat
    BY <2>2
  <2> QED BY <2>1, <2>2, <2>4, <2>5, <2>6, Zenon DEF ListTypes
<1>4. StageIs(NoListTxn, {}, {}, 0) /\ PairIs(NoListTxn, NoListTxn, {})
  BY DEF StageIs, PairIs, NoListTxn
<1>5. ListSound
  BY <1>2, <1>4 DEF ListInit, ListSound, Others, TheList, NoList
<1> QED BY <1>3, <1>5 DEF ListInvariant

LEMMA StageMonotone ==
  ASSUME NEW t, NEW key, NEW stored, NEW m, NEW n, \A i \in 1..m : i \in 1..n, StageIs(t, key, stored, m)
  PROVE  StageIs(t, key, stored, n)
<1> DEFINE Stage == StageIs(t, key, stored, m)
<1>1. t.doomed \subseteq 1..n
  BY DEF StageIs
<1>2. t.at \in {"trim", "commit"} /\ t.op = "append" =>
        \E v \in 1..n : t.new = {v} /\ \A u \in stored : u < v
  BY DEF StageIs
<1> QED BY <1>1, <1>2, Zenon DEF StageIs

(* A step of one transaction that leaves the list alone.                   *)
LEMMA ListStepKeeps ==
  ASSUME ListInvariant, NEW c \in Callers, NEW t \in ListTxnTypes,
         listTxn' = [listTxn EXCEPT ![c] = t],
         listTime' = listTime, listKey' = listKey, values' = values,
         valueSeq' \in Nat, valueSeq <= valueSeq',
         straddled' \in BOOLEAN, ~straddled' => ~straddled /\ whole' = TheList,
         t.start <= listTime, t.ttl = NoTtl \/ t.ttl > t.start, t.new \subseteq 1..valueSeq',
         ~straddled' => StageIs(t, listKey, values, valueSeq'),
         ~straddled' => \A d \in Others(c) : PairIs(t, listTxn[d], listKey) /\ PairIs(listTxn[d], t, listKey)
  PROVE  ListInvariant'
<1>1. /\ listTxn' \in [Callers -> ListTxnTypes]
      /\ \A d \in Callers : listTxn'[d] = IF d = c THEN t ELSE listTxn[d]
  BY DEF ListInvariant, ListTypes
<1>2. \A n \in 1..valueSeq : n \in 1..valueSeq'
  BY DEF ListInvariant, ListTypes
<1>3. ListTypes'
  <2>1. \A d \in Callers : /\ listTxn'[d].start <= listTime /\ listTxn'[d].new \subseteq 1..valueSeq'
                           /\ listTxn'[d].ttl = NoTtl \/ listTxn'[d].ttl > listTxn'[d].start
    BY <1>1, <1>2 DEF ListInvariant, ListTypes
  <2>2. values' \subseteq 1..valueSeq'
    BY <1>2 DEF ListInvariant, ListTypes
  <2> QED BY <1>1, <2>1, <2>2 DEF ListInvariant, ListTypes
<1>4. ASSUME ~straddled'
      PROVE  ListSound'
  <2>1. ListSound
    BY <1>4 DEF ListInvariant
  <2>2. ASSUME NEW d \in Callers
        PROVE  StageIs(listTxn'[d], listKey', values', valueSeq')
    <3>1. CASE d = c
      BY <1>1, <1>4, <3>1
    <3>2. CASE d # c
      <4>1. StageIs(listTxn[d], listKey, values, valueSeq) /\ listTxn'[d] = listTxn[d]
        BY <1>1, <2>1, <3>2 DEF ListSound
      <4>2. StageIs(listTxn[d], listKey, values, valueSeq')
        BY <1>2, <4>1, StageMonotone
      <4> QED BY <4>1, <4>2
    <3> QED BY <3>1, <3>2
  <2>3. ASSUME NEW d \in Callers, NEW e \in Others(d)
        PROVE  PairIs(listTxn'[d], listTxn'[e], listKey')
    <3>1. e \in Callers /\ e # d
      BY DEF Others
    <3>2. CASE d = c
      BY <1>1, <1>4, <3>1, <3>2
    <3>3. CASE e = c
      <4>1. d \in Others(c)
        BY <3>1, <3>3 DEF Others
      <4> QED BY <1>1, <1>4, <3>1, <3>3, <4>1
    <3>4. CASE d # c /\ e # c
      BY <1>1, <2>1, <3>1, <3>4 DEF ListSound
    <3> QED BY <3>2, <3>3, <3>4
  <2>4. whole' = TheList' /\ (listKey' = {} => values' = {})
    BY <1>4, <2>1 DEF ListSound, TheList
  <2> QED BY <2>2, <2>3, <2>4 DEF ListSound, Others
<1> QED BY <1>3, <1>4 DEF ListInvariant

LEMMA ListBeginKeeps ==
  ASSUME ListInvariant, NEW c \in Callers, NEW op \in {"append", "get", "delete"}, NEW ttl \in Nat,
         ttl = NoTtl \/ ttl > listTime, ListBegin(c, op, ttl)
  PROVE  ListInvariant'
<1> DEFINE t == [NoListTxn EXCEPT !.op = op, !.at = "look", !.start = listTime, !.ttl = ttl]
<1>1. listTime \in Nat /\ NoListTxn \in ListTxnTypes
  BY DEF ListInvariant, ListTypes, NoListTxn, ListTxnTypes, NoTtl
<1>2. t \in ListTxnTypes
  BY <1>1 DEF ListTxnTypes
<1>3. /\ t.op = op /\ t.at = "look" /\ t.start = listTime /\ t.ttl = ttl /\ t.new = {} /\ t.doomed = {}
      /\ t.gone = {} /\ ~t.locks /\ t.mine = {}
  BY DEF NoListTxn
<1>4. /\ listTxn' = [listTxn EXCEPT ![c] = t]
      /\ straddled' = (straddled \/ \E d \in Others(c) :
           Open(d) /\ \E x \in listKey \cup {listTxn[d].ttl} : listTxn[d].start < x /\ x <= listTime)
      /\ UNCHANGED <<listTime, listKey, values, valueSeq, whole>>
  BY DEF ListBegin
<1> HIDE DEF t
<1>5. straddled' \in BOOLEAN /\ (~straddled' => ~straddled)
  BY <1>4 DEF ListInvariant, ListTypes
<1>6. ASSUME ~straddled'
      PROVE  StageIs(t, listKey, values, valueSeq')
  BY <1>3, <1>4 DEF StageIs
<1>7. ASSUME ~straddled', NEW d \in Others(c)
      PROVE  PairIs(t, listTxn[d], listKey) /\ PairIs(listTxn[d], t, listKey)
  <2>1. /\ listTxn[d] \in ListTxnTypes /\ listTxn[d].start <= listTime /\ listKey \in SUBSET Nat
        /\ listTxn[d].ttl = NoTtl \/ listTxn[d].ttl > listTxn[d].start
    BY DEF ListInvariant, ListTypes, Others
  <2>2. listTxn[d].at # "idle" => \A x \in listKey \cup {listTxn[d].ttl} : ~(listTxn[d].start < x /\ x <= listTime)
    BY <1>4, <1>7 DEF Open
  <2>3. listTxn[d].start \in Nat /\ listTxn[d].ttl \in Nat
    BY <2>1 DEF ListTxnTypes
  <2>4. listTxn[d].at # "idle" => (Lapsed(listKey, t.start) <=> Lapsed(listKey, listTxn[d].start))
    BY <1>1, <1>3, <2>1, <2>2, <2>3 DEF Lapsed
  <2>5. t.ttl = NoTtl \/ t.ttl > listTxn[d].start
    BY <1>1, <1>3, <2>1, <2>3
  <2>6. listTxn[d].at # "idle" => listTxn[d].ttl = NoTtl \/ listTxn[d].ttl > t.start
    BY <1>1, <1>3, <2>1, <2>2, <2>3
  <2> QED BY <1>3, <2>4, <2>5, <2>6 DEF PairIs
<1>8. ~straddled' => whole' = TheList
  BY <1>4, <1>5 DEF ListInvariant, ListSound
<1>9. valueSeq' \in Nat /\ valueSeq <= valueSeq' /\ t.start <= listTime /\ (t.ttl = NoTtl \/ t.ttl > t.start)
      /\ t.new \subseteq 1..valueSeq'
  BY <1>1, <1>3, <1>4 DEF ListInvariant, ListTypes
<1> QED BY <1>2, <1>4, <1>5, <1>6, <1>7, <1>8, <1>9, ListStepKeeps

(* What is known of a caller's transaction before a step of it, and what   *)
(* has to be shown after one that leaves the list alone.                   *)
InHand(c, t) ==
  /\ t \in ListTxnTypes /\ t.start <= listTime /\ (t.ttl = NoTtl \/ t.ttl > t.start)
  /\ t.new \subseteq 1..valueSeq
  /\ listTime \in Nat /\ valueSeq \in Nat /\ values \subseteq 1..valueSeq /\ listKey \in SUBSET Nat
  /\ straddled \in BOOLEAN
  /\ ~straddled =>
       /\ whole = TheList /\ (listKey = {} => values = {})
       /\ StageIs(t, listKey, values, valueSeq)
       /\ \A d \in Others(c) :
            /\ listTxn[d] \in ListTxnTypes /\ StageIs(listTxn[d], listKey, values, valueSeq)
            /\ PairIs(t, listTxn[d], listKey) /\ PairIs(listTxn[d], t, listKey)

LEMMA InHandNow ==
  ASSUME ListInvariant, NEW c \in Callers
  PROVE  InHand(c, listTxn[c])
<1>1. \A d \in Others(c) : d \in Callers /\ c \in Others(d)
  BY DEF Others
<1> QED BY <1>1 DEF ListInvariant, ListTypes, ListSound, InHand

(* A step on which the others' view of the transaction depends only by     *)
(* what it has deleted, found, inserted and locked.                        *)
LEMMA PairStays ==
  ASSUME NEW t, NEW u, NEW v, NEW key, PairIs(t, v, key), PairIs(v, t, key),
         u.start = t.start, u.ttl = t.ttl, t.at # "idle",
         u.locks => ~v.locks, u.gone \cap v.gone = {}, u.doomed \cap v.new = {}, v.doomed \cap u.new = {}
  PROVE  PairIs(u, v, key) /\ PairIs(v, u, key)
BY DEF PairIs

LEMMA OwnStepKeeps ==
  ASSUME ListInvariant, NEW c \in Callers, NEW u \in ListTxnTypes, NEW t, t = listTxn[c],
         listTxn' = [listTxn EXCEPT ![c] = u], u.start = t.start, u.ttl = t.ttl, u.new = t.new,
         UNCHANGED <<listTime, listKey, values, valueSeq, whole, straddled>>,
         ~straddled => StageIs(u, listKey, values, valueSeq),
         ~straddled => \A d \in Others(c) : PairIs(u, listTxn[d], listKey) /\ PairIs(listTxn[d], u, listKey)
  PROVE  ListInvariant'
<1>1. InHand(c, t)
  BY InHandNow
<1>2. /\ listTime' = listTime /\ listKey' = listKey /\ values' = values /\ valueSeq' = valueSeq
      /\ straddled' = straddled /\ whole' = whole
  OBVIOUS
<1>3. /\ valueSeq' \in Nat /\ valueSeq <= valueSeq' /\ straddled' \in BOOLEAN
      /\ u.start <= listTime /\ (u.ttl = NoTtl \/ u.ttl > u.start) /\ u.new \subseteq 1..valueSeq'
  BY <1>1, <1>2 DEF InHand
<1>4. ~straddled' => ~straddled /\ whole' = TheList
  BY <1>1, <1>2 DEF InHand
<1>5. ~straddled' => StageIs(u, listKey, values, valueSeq')
  BY <1>2
<1>6. ~straddled' => \A d \in Others(c) : PairIs(u, listTxn[d], listKey) /\ PairIs(listTxn[d], u, listKey)
  BY <1>2
<1> QED BY <1>2, <1>3, <1>4, <1>5, <1>6, ListStepKeeps

(* A value that has not been committed is not among those that have.       *)
LEMMA NewIsNotThere ==
  ASSUME NEW t \in ListTxnTypes, NEW key, NEW stored, NEW seq \in Nat, StageIs(t, key, stored, seq),
         stored \subseteq 1..seq
  PROVE  t.new \cap stored = {}
<1>1. t.at \in {"idle", "look", "drop", "key", "insert", "trim", "commit"}
  BY DEF ListTxnTypes
<1>2. CASE t.at \in {"trim", "commit"} /\ t.op = "append"
  <2>1. PICK v \in 1..seq : t.new = {v} /\ \A u \in stored : u < v
    BY <1>2 DEF StageIs
  <2>2. v \notin stored
    BY <2>1
  <2> QED BY <2>1, <2>2
<1>3. CASE ~(t.at \in {"trim", "commit"} /\ t.op = "append")
  BY <1>1, <1>3 DEF StageIs, NoListTxn
<1> QED BY <1>2, <1>3

LEMMA FindKeeps ==
  ASSUME ListInvariant, NEW c \in Callers, FindValues(c)
  PROVE  ListInvariant'
<1> DEFINE t == listTxn[c]
           doomed == IF t.op = "delete" \/ Lapsed(listKey, t.start) THEN values ELSE {}
           u == [t EXCEPT !.at = "drop", !.doomed = doomed]
<1>1. InHand(c, t)
  BY InHandNow
<1>2. /\ listTxn' = [listTxn EXCEPT ![c] = u] /\ t.at = "look"
      /\ UNCHANGED <<listTime, listKey, values, valueSeq, whole, straddled>>
  BY DEF FindValues
<1> HIDE DEF t, doomed
<1>3. doomed \subseteq values /\ (doomed # {} => t.op = "delete" \/ Lapsed(listKey, t.start))
  BY DEF doomed
<1>4. /\ u \in ListTxnTypes /\ u.at = "drop" /\ u.doomed = doomed /\ u.op = t.op /\ u.start = t.start
      /\ u.ttl = t.ttl /\ u.new = t.new /\ u.gone = t.gone /\ u.locks = t.locks /\ u.mine = t.mine
  <2>1. doomed \in SUBSET Nat
    <3>1. values \in SUBSET Nat
      BY <1>1 DEF InHand
    <3> QED BY <1>3, <3>1
  <2> QED BY <1>1, <2>1 DEF InHand, ListTxnTypes
<1> HIDE DEF u
<1>5. ASSUME ~straddled
      PROVE  StageIs(u, listKey, values, valueSeq)
  <2>1. StageIs(t, listKey, values, valueSeq) /\ values \subseteq 1..valueSeq
    BY <1>1, <1>5 DEF InHand
  <2> QED BY <1>2, <1>3, <1>4, <2>1 DEF StageIs
<1>6. ASSUME ~straddled, NEW d \in Others(c)
      PROVE  PairIs(u, listTxn[d], listKey) /\ PairIs(listTxn[d], u, listKey)
  <2>1. /\ PairIs(t, listTxn[d], listKey) /\ PairIs(listTxn[d], t, listKey)
        /\ StageIs(t, listKey, values, valueSeq) /\ StageIs(listTxn[d], listKey, values, valueSeq)
    BY <1>1, <1>6 DEF InHand
  <2>2. listTxn[d].new \cap values = {}
    BY <1>1, <1>6, <2>1, NewIsNotThere DEF InHand
  <2>3. t.new = {} /\ ~t.locks
    BY <1>2, <2>1 DEF StageIs
  <2>4. u.gone \cap listTxn[d].gone = {}
    BY <1>4, <2>1 DEF PairIs
  <2> QED BY <1>2, <1>3, <1>4, <2>1, <2>2, <2>3, <2>4, PairStays
<1> QED BY <1>2, <1>4, <1>5, <1>6, OwnStepKeeps DEF t

LEMMA DropValuesKeeps ==
  ASSUME ListInvariant, NEW c \in Callers, DropValues(c)
  PROVE  ListInvariant'
<1> DEFINE t == listTxn[c]
           gone == t.doomed \cap values
           u == [t EXCEPT !.at = "key", !.doomed = {}, !.gone = gone]
<1>1. InHand(c, t)
  BY InHandNow
<1>2. /\ listTxn' = [listTxn EXCEPT ![c] = u] /\ t.at = "drop" /\ RowsFree(c, t.doomed)
      /\ UNCHANGED <<listTime, listKey, values, valueSeq, whole, straddled>>
  BY DEF DropValues
<1> HIDE DEF t
<1>3. /\ u \in ListTxnTypes /\ u.at = "key" /\ u.doomed = {} /\ u.op = t.op /\ u.start = t.start
      /\ u.ttl = t.ttl /\ u.new = t.new /\ u.gone = gone /\ u.locks = t.locks /\ u.mine = t.mine
  <2>1. gone \in SUBSET Nat
    BY <1>1 DEF InHand, ListTxnTypes
  <2> QED BY <1>1, <2>1 DEF InHand, ListTxnTypes
<1> HIDE DEF u
<1>4. ASSUME ~straddled
      PROVE  StageIs(u, listKey, values, valueSeq)
  <2>1. StageIs(t, listKey, values, valueSeq)
    BY <1>1, <1>4 DEF InHand
  <2> QED BY <1>2, <1>3, <2>1 DEF StageIs
<1>5. ASSUME ~straddled, NEW d \in Others(c)
      PROVE  PairIs(u, listTxn[d], listKey) /\ PairIs(listTxn[d], u, listKey)
  <2>1. /\ PairIs(t, listTxn[d], listKey) /\ PairIs(listTxn[d], t, listKey)
        /\ StageIs(t, listKey, values, valueSeq)
    BY <1>1, <1>5 DEF InHand
  <2>2. t.new = {} /\ ~t.locks
    BY <1>2, <2>1 DEF StageIs
  <2>3. u.gone \cap listTxn[d].gone = {}
    BY <1>2, <1>3 DEF RowsFree
  <2> QED BY <1>2, <1>3, <2>1, <2>2, <2>3, PairStays
<1> QED BY <1>2, <1>3, <1>4, <1>5, OwnStepKeeps DEF t

(* The list is dropped when it has lapsed, and then by one transaction     *)
(* alone; where it has not, the transaction has deleted nothing of it.     *)
LEMMA DropKeyKeeps ==
  ASSUME ListInvariant, NEW c \in Callers, DropKey(c)
  PROVE  ListInvariant'
<1> DEFINE t == listTxn[c]
           drops == IF t.op = "delete" THEN listKey # {} ELSE Lapsed(listKey, t.start)
           at == IF t.op = "append" THEN "insert" ELSE "commit"
           gone == IF drops THEN values ELSE t.gone
           u == [t EXCEPT !.at = at, !.locks = drops, !.gone = gone]
<1>1. InHand(c, t)
  BY InHandNow
<1>2. /\ listTxn' = [listTxn EXCEPT ![c] = u] /\ t.at = "key"
      /\ drops => KeyFree(c) /\ RowsFree(c, values)
      /\ whole' = IF drops \/ t.op = "append" THEN whole ELSE Alone(whole, t)
      /\ UNCHANGED <<listTime, listKey, values, valueSeq, straddled>>
  BY DEF DropKey
<1>3. drops \in BOOLEAN
  BY DEF Lapsed
<1>4. drops <=> IF t.op = "delete" THEN listKey # {} ELSE Lapsed(listKey, t.start)
  OBVIOUS
<1>5. gone = IF drops THEN values ELSE t.gone
  OBVIOUS
<1> HIDE DEF t, drops, gone
<1>6. /\ u \in ListTxnTypes /\ u.at = at /\ u.doomed = t.doomed /\ u.op = t.op /\ u.start = t.start
      /\ u.ttl = t.ttl /\ u.new = t.new /\ u.gone = gone /\ (u.locks <=> drops) /\ u.mine = t.mine
  <2>1. gone \in SUBSET Nat
    BY <1>1, <1>5 DEF InHand, ListTxnTypes
  <2> QED BY <1>1, <1>3, <2>1 DEF InHand, ListTxnTypes
<1> HIDE DEF u
<1>7. ASSUME ~straddled
      PROVE  /\ StageIs(t, listKey, values, valueSeq)
             /\ t.new = {} /\ t.mine = {} /\ t.doomed = {} /\ ~t.locks /\ t.gone \subseteq values
             /\ ~drops => t.gone = {}
  <2>1. StageIs(t, listKey, values, valueSeq) /\ (listKey = {} => values = {})
    BY <1>1, <1>7 DEF InHand
  <2> QED BY <1>2, <1>4, <2>1 DEF StageIs
<1>9. ASSUME ~straddled
      PROVE  StageIs(u, listKey, values, valueSeq)
  BY <1>1, <1>4, <1>5, <1>6, <1>7, <1>9 DEF StageIs, InHand
<1>10. ASSUME ~straddled, NEW d \in Others(c)
       PROVE  PairIs(u, listTxn[d], listKey) /\ PairIs(listTxn[d], u, listKey)
  <2>1. /\ PairIs(t, listTxn[d], listKey) /\ PairIs(listTxn[d], t, listKey)
        /\ StageIs(listTxn[d], listKey, values, valueSeq)
    BY <1>1, <1>10 DEF InHand
  <2>2. u.locks => ~listTxn[d].locks
    BY <1>2, <1>6 DEF KeyFree
  <2>3. u.gone \cap listTxn[d].gone = {}
    BY <1>2, <1>5, <1>6, <1>7, <1>10 DEF RowsFree
  <2>4. u.doomed \cap listTxn[d].new = {} /\ listTxn[d].doomed \cap u.new = {}
    BY <1>6, <1>7, <1>10
  <2> QED BY <1>2, <1>6, <2>1, <2>2, <2>3, <2>4, PairStays
<1>11. ~straddled => whole' = TheList
  <2> SUFFICES ASSUME ~straddled PROVE whole' = TheList
    OBVIOUS
  <2>1. whole = TheList /\ (listKey = {} => values = {})
    BY <1>1 DEF InHand
  <2>2. CASE drops \/ t.op = "append"
    BY <1>2, <2>1, <2>2
  <2>3. CASE ~drops /\ t.op # "append"
    <3>1. whole' = Alone(TheList, t)
      BY <1>2, <2>1, <2>3
    <3>2. CASE t.op = "delete"
      <4>1. TheList = NoList
        BY <1>4, <2>1, <2>3, <3>2 DEF TheList, NoList
      <4> QED BY <3>1, <3>2, <4>1 DEF Alone
    <3>3. CASE t.op # "delete"
      <4>1. ~Lapsed(listKey, t.start) /\ TheList.key = listKey
        BY <1>4, <2>3, <3>3 DEF TheList
      <4> QED BY <2>3, <3>1, <3>3, <4>1 DEF Alone
    <3> QED BY <3>2, <3>3
  <2> QED BY <2>2, <2>3
<1>12. /\ valueSeq' \in Nat /\ valueSeq <= valueSeq' /\ straddled' \in BOOLEAN
       /\ u.start <= listTime /\ (u.ttl = NoTtl \/ u.ttl > u.start) /\ u.new \subseteq 1..valueSeq'
  BY <1>1, <1>2, <1>6 DEF InHand
<1>13. ~straddled' => StageIs(u, listKey, values, valueSeq')
  BY <1>2, <1>9
<1>14. ~straddled' => ~straddled /\ whole' = TheList
  BY <1>2, <1>11
<1>15. ~straddled' => \A d \in Others(c) : PairIs(u, listTxn[d], listKey) /\ PairIs(listTxn[d], u, listKey)
  BY <1>2, <1>10
<1> QED BY <1>2, <1>6, <1>12, <1>13, <1>14, <1>15, ListStepKeeps

(* The newest is not in excess: at least one value is kept.                *)
LEMMA NewestStays ==
  ASSUME NEW S \in SUBSET Nat, NEW v \in Nat, \A s \in S : s < v
  PROVE  v \notin Excess(S \cup {v})
<1>1. {u \in S \cup {v} : u >= v} = {v}
  <2>1. \A u \in S : u \in Nat /\ ~(u >= v)
    OBVIOUS
  <2>2. v >= v
    OBVIOUS
  <2> QED BY <2>1, <2>2
<1>2. Cardinality({v}) = 1
  BY FS_Singleton
<1>3. MaxLength \in Nat /\ MaxLength >= 1
  BY ListAssumption
<1> QED BY <1>1, <1>2, <1>3 DEF Excess

LEMMA InsertValueKeeps ==
  ASSUME ListInvariant, NEW c \in Callers, InsertValue(c)
  PROVE  ListInvariant'
<1> DEFINE t == listTxn[c]
           v == valueSeq + 1
           mine == Renewed(KeySeen(c), t.ttl)
           u == [t EXCEPT !.at = "trim", !.locks = TRUE, !.new = {v}, !.mine = mine]
<1>1. InHand(c, t)
  BY InHandNow
<1>2. /\ listTxn' = [listTxn EXCEPT ![c] = u] /\ t.at = "insert" /\ KeyFree(c) /\ valueSeq' = valueSeq + 1
      /\ UNCHANGED <<listTime, listKey, values, whole, straddled>>
  BY DEF InsertValue
<1>3. KeySeen(c) = IF t.locks THEN t.mine ELSE listKey
  BY DEF KeySeen
<1>4. mine \in SUBSET Nat
  <2>1. t.ttl \in Nat /\ t.mine \in SUBSET Nat /\ listKey \in SUBSET Nat /\ Forever \in Nat
    BY <1>1, ListAssumption DEF InHand, ListTxnTypes, Forever
  <2> QED BY <1>3, <2>1 DEF Renewed
<1> HIDE DEF t
<1>5. valueSeq \in Nat /\ v \in 1..valueSeq' /\ values \in SUBSET Nat /\ \A w \in values : w < v
  BY <1>1, <1>2 DEF InHand
<1>6. mine = Renewed(KeySeen(c), t.ttl)
  OBVIOUS
<1> HIDE DEF v, mine
<1>7. /\ u \in ListTxnTypes /\ u.at = "trim" /\ u.doomed = t.doomed /\ u.op = t.op /\ u.start = t.start
      /\ u.ttl = t.ttl /\ u.new = {v} /\ u.gone = t.gone /\ u.locks /\ u.mine = mine
  <2>1. {v} \in SUBSET Nat
    BY <1>1, <1>2, <1>5 DEF InHand
  <2> QED BY <1>1, <1>4, <2>1 DEF InHand, ListTxnTypes
<1> HIDE DEF u
<1>8. ASSUME ~straddled
      PROVE  StageIs(u, listKey, values, valueSeq')
  <2>1. StageIs(t, listKey, values, valueSeq)
    BY <1>1, <1>8 DEF InHand
  <2>2. /\ t.op = "append" /\ t.doomed = {} /\ t.gone \subseteq values
        /\ IF t.locks THEN Lapsed(listKey, t.start) /\ t.gone = values /\ t.mine = {}
           ELSE ~Lapsed(listKey, t.start) /\ t.gone = {}
    BY <1>2, <2>1 DEF StageIs
  <2>3. IF Lapsed(listKey, t.start) THEN t.gone = values /\ mine = Renewed({}, t.ttl)
        ELSE t.gone = {} /\ mine = Renewed(listKey, t.ttl)
    BY <1>3, <1>6, <2>2
  <2> QED BY <1>2, <1>5, <1>7, <2>2, <2>3 DEF StageIs
<1>9. ASSUME ~straddled, NEW d \in Others(c)
      PROVE  PairIs(u, listTxn[d], listKey) /\ PairIs(listTxn[d], u, listKey)
  <2>1. /\ PairIs(t, listTxn[d], listKey) /\ PairIs(listTxn[d], t, listKey)
        /\ StageIs(t, listKey, values, valueSeq) /\ StageIs(listTxn[d], listKey, values, valueSeq)
    BY <1>1, <1>9 DEF InHand
  <2>2. ~listTxn[d].locks /\ u.doomed = {}
    BY <1>2, <1>7, <2>1 DEF KeyFree, StageIs
  <2>3. v \notin listTxn[d].doomed
    <3>1. listTxn[d].doomed \subseteq 1..valueSeq
      BY <2>1 DEF StageIs
    <3>2. v \notin 1..valueSeq
      BY <1>5 DEF v
    <3> QED BY <3>1, <3>2
  <2>4. u.gone \cap listTxn[d].gone = {}
    BY <1>7, <2>1 DEF PairIs
  <2>5. u.doomed \cap listTxn[d].new = {} /\ listTxn[d].doomed \cap u.new = {}
    BY <1>7, <2>2, <2>3
  <2> QED BY <1>2, <1>7, <2>1, <2>2, <2>4, <2>5, PairStays
<1>10. /\ valueSeq' \in Nat /\ valueSeq <= valueSeq' /\ straddled' \in BOOLEAN
       /\ u.start <= listTime /\ (u.ttl = NoTtl \/ u.ttl > u.start) /\ u.new \subseteq 1..valueSeq'
  BY <1>1, <1>2, <1>5, <1>7 DEF InHand
<1>11. ~straddled' => ~straddled /\ whole' = TheList
  BY <1>1, <1>2 DEF InHand
<1>12. listTime' = listTime /\ listKey' = listKey /\ values' = values /\ straddled' = straddled
  BY <1>2
<1> QED BY <1>2, <1>7, <1>8, <1>9, <1>10, <1>11, <1>12, ListStepKeeps

LEMMA ListTrimKeeps ==
  ASSUME ListInvariant, NEW c \in Callers, TrimList(c)
  PROVE  ListInvariant'
<1> DEFINE t == listTxn[c]
           excess == Excess((values \ t.gone) \cup t.new)
           u == [t EXCEPT !.at = "commit", !.gone = t.gone \cup excess]
<1>1. InHand(c, t)
  BY InHandNow
<1>2. /\ listTxn' = [listTxn EXCEPT ![c] = u] /\ t.at = "trim" /\ RowsFree(c, excess)
      /\ UNCHANGED <<listTime, listKey, values, valueSeq, whole, straddled>>
  BY DEF TrimList
<1>3. excess = Excess((values \ t.gone) \cup t.new) /\ excess \subseteq (values \ t.gone) \cup t.new
  BY DEF Excess
<1> HIDE DEF t, excess
<1>4. /\ u \in ListTxnTypes /\ u.at = "commit" /\ u.doomed = t.doomed /\ u.op = t.op /\ u.start = t.start
      /\ u.ttl = t.ttl /\ u.new = t.new /\ u.gone = t.gone \cup excess /\ u.locks = t.locks /\ u.mine = t.mine
  <2>1. values \in SUBSET Nat
    BY <1>1 DEF InHand
  <2>2. t.gone \in SUBSET Nat /\ t.new \in SUBSET Nat
    BY <1>1 DEF InHand, ListTxnTypes
  <2>3. t.gone \cup excess \in SUBSET Nat
    BY <1>3, <2>1, <2>2
  <2> QED BY <1>1, <2>3 DEF InHand, ListTxnTypes
<1> HIDE DEF u
<1>5. ASSUME ~straddled
      PROVE  /\ StageIs(t, listKey, values, valueSeq) /\ t.op = "append" /\ t.doomed = {} /\ t.locks
             /\ t.gone \subseteq values /\ t.new \subseteq Nat
             /\ IF Lapsed(listKey, t.start) THEN t.gone = values /\ excess = {}
                ELSE t.gone = {} /\ excess = Excess(values \cup t.new)
             /\ excess \subseteq values
  <2>1. StageIs(t, listKey, values, valueSeq)
    BY <1>1, <1>5 DEF InHand
  <2>2. /\ t.op = "append" /\ t.doomed = {} /\ t.locks /\ t.gone \subseteq values
        /\ IF Lapsed(listKey, t.start) THEN t.gone = values ELSE t.gone = {}
    BY <1>2, <2>1 DEF StageIs
  <2>3. PICK v \in 1..valueSeq : t.new = {v} /\ \A w \in values : w < v
    BY <1>2, <2>1, <2>2 DEF StageIs
  <2>4. values \ t.gone \in SUBSET Nat /\ v \in Nat /\ \A w \in values \ t.gone : w < v
    <3>1. values \in SUBSET Nat
      BY <1>1 DEF InHand
    <3>2. v \in Nat
      BY <1>1, <2>3 DEF InHand
    <3> QED BY <2>3, <3>1, <3>2
  <2>5. v \notin excess
    BY <1>3, <2>3, <2>4, NewestStays
  <2>6. excess \subseteq values \ t.gone
    BY <1>3, <2>3, <2>5
  <2>7. t.gone = {} => (values \ t.gone) = values
    OBVIOUS
  <2> QED BY <1>3, <2>1, <2>2, <2>3, <2>4, <2>6, <2>7
<1>6. ASSUME ~straddled
      PROVE  StageIs(u, listKey, values, valueSeq)
  BY <1>2, <1>4, <1>5, <1>6 DEF StageIs
<1>7. ASSUME ~straddled, NEW d \in Others(c)
      PROVE  PairIs(u, listTxn[d], listKey) /\ PairIs(listTxn[d], u, listKey)
  <2>1. PairIs(t, listTxn[d], listKey) /\ PairIs(listTxn[d], t, listKey)
    BY <1>1, <1>7 DEF InHand
  <2>2. u.gone \cap listTxn[d].gone = {}
    BY <1>2, <1>4, <2>1 DEF RowsFree, PairIs
  <2>3. u.locks => ~listTxn[d].locks
    BY <1>4, <2>1 DEF PairIs
  <2>4. u.doomed \cap listTxn[d].new = {} /\ listTxn[d].doomed \cap u.new = {}
    BY <1>4, <2>1 DEF PairIs
  <2> QED BY <1>2, <1>4, <2>1, <2>2, <2>3, <2>4, PairStays
<1> QED BY <1>2, <1>4, <1>6, <1>7, OwnStepKeeps DEF t

(* A transaction that ends without having changed the list.                *)
LEMMA ListEndKeeps ==
  ASSUME ListInvariant, NEW c \in Callers, listTxn' = [listTxn EXCEPT ![c] = NoListTxn],
         UNCHANGED <<listTime, listKey, values, valueSeq, whole, straddled>>
  PROVE  ListInvariant'
<1>1. /\ NoListTxn \in ListTxnTypes /\ NoListTxn.start = 0 /\ NoListTxn.ttl = NoTtl /\ NoListTxn.at = "idle"
      /\ NoListTxn.new = {} /\ ~NoListTxn.locks /\ NoListTxn.gone = {} /\ NoListTxn.doomed = {}
      /\ NoListTxn.mine = {} /\ NoListTxn.op = "none"
  BY DEF NoListTxn, ListTxnTypes, NoTtl
<1>2. InHand(c, listTxn[c])
  BY InHandNow
<1>3. ~straddled' => StageIs(NoListTxn, listKey, values, valueSeq')
  BY <1>1 DEF StageIs
<1>4. \A d \in Others(c) : PairIs(NoListTxn, listTxn[d], listKey) /\ PairIs(listTxn[d], NoListTxn, listKey)
  BY <1>1 DEF PairIs
<1>5. ~straddled' => ~straddled /\ whole' = TheList
  BY <1>2 DEF InHand
<1>6. /\ valueSeq' \in Nat /\ valueSeq <= valueSeq' /\ straddled' \in BOOLEAN
      /\ NoListTxn.start <= listTime /\ NoListTxn.new \subseteq 1..valueSeq'
      /\ listTime' = listTime /\ listKey' = listKey /\ values' = values
  BY <1>1, <1>2 DEF InHand
<1> QED BY <1>1, <1>3, <1>4, <1>5, <1>6, ListStepKeeps

(* What a transaction with the lock commits: the list it would have left   *)
(* alone, one that has not lapsed for anybody, and nothing that another    *)
(* has found or deleted.                                                   *)
LEMMA CommitIs ==
  ASSUME ListInvariant, ~straddled, NEW c \in Callers, ListCommit(c), listTxn[c].locks
  PROVE  /\ whole' = TheList' /\ (listKey' = {} => values' = {})
         /\ \A d \in Others(c) : Open(d) =>
              /\ ~Lapsed(listKey', listTxn[d].start)
              /\ listTxn[d].at = "drop" /\ listTxn[d].op # "delete" => listTxn[d].doomed \cap values' = {}
              /\ listTxn[d].at = "key" /\ listTxn[d].op # "delete" => listTxn[d].gone = {}
<1> DEFINE t == listTxn[c]
           alive == IF t.op = "delete" \/ Lapsed(TheList.key, t.start) THEN NoList ELSE TheList
           grown == alive.rows \cup t.new
<1>1. InHand(c, t)
  BY InHandNow
<1>2. /\ t.at = "commit" /\ values' = (values \cup t.new) \ t.gone /\ listKey' = t.mine
      /\ whole' = Alone(whole, t)
  BY DEF ListCommit, KeySeen
<1>3. t.locks /\ TheList.key = listKey /\ TheList.rows = values
      /\ NoList.key = {} /\ NoList.rows = {}
  BY DEF TheList, NoList
<1> HIDE DEF t
<1>4. /\ StageIs(t, listKey, values, valueSeq) /\ whole = TheList
      /\ \A d \in Others(c) :
            /\ listTxn[d] \in ListTxnTypes /\ StageIs(listTxn[d], listKey, values, valueSeq)
            /\ PairIs(t, listTxn[d], listKey) /\ PairIs(listTxn[d], t, listKey)
  BY <1>1 DEF InHand
<1>5. values \in SUBSET Nat /\ IsFiniteSet(values) /\ t.ttl \in Nat /\ listKey \in SUBSET Nat /\ t.mine \in SUBSET Nat
  <2>1. valueSeq \in Nat /\ values \subseteq 1..valueSeq
    BY <1>1 DEF InHand
  <2>2. 1 \in Int /\ valueSeq \in Int
    BY <2>1
  <2>3. IsFiniteSet(1..valueSeq)
    BY <2>2, FS_Interval
  <2>4. IsFiniteSet(values)
    BY <2>1, <2>3, FS_Subset
  <2> QED BY <1>1, <2>1, <2>4 DEF InHand, ListTxnTypes
<1>6. CASE t.op = "append"
  <2>1. PICK v \in 1..valueSeq : t.new = {v} /\ \A w \in values : w < v
    BY <1>2, <1>4, <1>6 DEF StageIs
  <2>2. IF Lapsed(listKey, t.start) THEN t.gone = values /\ t.mine = Renewed({}, t.ttl)
        ELSE t.gone = Excess(values \cup t.new) /\ t.mine = Renewed(listKey, t.ttl)
    BY <1>2, <1>4, <1>6 DEF StageIs
  <2>3. v \in Nat /\ v \notin values
    <3>1. v \in Nat
      BY <1>1, <2>1 DEF InHand
    <3> QED BY <2>1, <3>1
  <2>4. /\ grown = IF Lapsed(listKey, t.start) THEN {v} ELSE values \cup {v}
        /\ alive.key = IF Lapsed(listKey, t.start) THEN {} ELSE listKey
    BY <1>3, <1>6, <2>1
  <2>5. /\ whole'.key = IF t.ttl # NoTtl THEN {t.ttl} ELSE IF alive.key = {} THEN {Forever} ELSE alive.key
        /\ whole'.rows = {n \in grown : Cardinality({u \in grown : u >= n}) <= MaxLength}
        /\ whole' = [key |-> whole'.key, rows |-> whole'.rows]
    <3>1. whole' = Alone(TheList, t)
      BY <1>2, <1>4
    <3>2. whole' = IF t.op # "append" THEN alive
                   ELSE [key |-> IF t.ttl # NoTtl THEN {t.ttl} ELSE IF alive.key = {} THEN {Forever} ELSE alive.key,
                         rows |-> {n \in grown : Cardinality({u \in grown : u >= n}) <= MaxLength}]
      BY <3>1, Zenon DEF Alone
    <3> HIDE DEF grown, alive
    <3>3. whole' = [key |-> IF t.ttl # NoTtl THEN {t.ttl} ELSE IF alive.key = {} THEN {Forever} ELSE alive.key,
                    rows |-> {n \in grown : Cardinality({u \in grown : u >= n}) <= MaxLength}]
      BY <1>6, <3>2, Zenon
    <3> QED BY <3>3
  <2>6. whole'.key = t.mine
    BY <2>2, <2>4, <2>5 DEF Renewed
  <2>7. IsFiniteSet(grown) /\ grown \in SUBSET Nat
    <3>1. IsFiniteSet({v}) /\ IsFiniteSet(values \cup {v})
      BY <1>5, FS_AddElement, FS_Singleton
    <3> HIDE DEF grown
    <3> QED BY <1>5, <2>3, <2>4, <3>1
  <2> HIDE DEF grown, alive
  <2>8. {n \in grown : Cardinality({u \in grown : u >= n}) <= MaxLength} = grown \ Excess(grown)
    <3>1. ASSUME NEW n \in grown
          PROVE  Cardinality({u \in grown : u >= n}) \in Nat
      <4>1. {u \in grown : u >= n} \in SUBSET grown
        OBVIOUS
      <4>2. IsFiniteSet({u \in grown : u >= n})
        BY <2>7, <4>1, FS_Subset
      <4> QED BY <4>2, FS_CardinalityType
    <3>2. MaxLength \in Nat
      BY ListAssumption
    <3>3. \A n \in grown : Cardinality({u \in grown : u >= n}) <= MaxLength <=> ~(Cardinality({u \in grown : u >= n}) > MaxLength)
      BY <3>1, <3>2
    <3> QED BY <3>3, Zenon DEF Excess
  <2>9. grown \ Excess(grown) = values'
    <3>1. CASE Lapsed(listKey, t.start)
      <4>1. grown = {} \cup {v}
        BY <2>4, <3>1
      <4>2. v \notin Excess({} \cup {v})
        BY <2>3, NewestStays
      <4>3. Excess(grown) \subseteq grown
        BY DEF Excess
      <4> QED BY <1>2, <2>1, <2>2, <2>3, <3>1, <4>1, <4>2, <4>3
    <3>2. CASE ~Lapsed(listKey, t.start)
      BY <1>2, <2>1, <2>2, <2>4, <3>2
    <3> QED BY <3>1, <3>2
  <2>10. whole' = TheList'
    BY <1>2, <2>5, <2>6, <2>8, <2>9 DEF TheList
  <2>11. listKey' # {}
    BY <1>2, <2>2 DEF Renewed
  <2>12. ASSUME NEW d \in Others(c), Open(d)
         PROVE  /\ ~Lapsed(listKey', listTxn[d].start)
                /\ listTxn[d].at = "drop" /\ listTxn[d].op # "delete" => listTxn[d].doomed \cap values' = {}
                /\ listTxn[d].at = "key" /\ listTxn[d].op # "delete" => listTxn[d].gone = {}
    <3>1. /\ listTxn[d] \in ListTxnTypes /\ StageIs(listTxn[d], listKey, values, valueSeq)
          /\ PairIs(t, listTxn[d], listKey) /\ PairIs(listTxn[d], t, listKey)
      BY <1>4, <2>12
    <3>2. (Lapsed(listKey, t.start) <=> Lapsed(listKey, listTxn[d].start)) /\ (t.ttl = NoTtl \/ t.ttl > listTxn[d].start)
      BY <1>2, <2>12, <3>1 DEF PairIs, Open
    <3>3. listTxn[d].start \in Nat /\ listTxn[d].start < Forever /\ Forever \in Nat
      <4>1. listTxn[d].start <= listTime /\ listTime <= MaxListTime /\ listTime \in Nat
        BY DEF ListInvariant, ListTypes, Others
      <4> QED BY <3>1, <4>1, ListAssumption DEF ListTxnTypes, Forever
    <3>4. (t.mine = {t.ttl} /\ t.ttl # NoTtl) \/ t.mine = {Forever} \/ (t.mine = listKey /\ ~Lapsed(listKey, t.start))
      BY <2>2 DEF Renewed
    <3>5. ~Lapsed(listKey', listTxn[d].start)
      <4>1. CASE t.mine = {t.ttl} /\ t.ttl # NoTtl
        BY <1>2, <1>5, <3>2, <3>3, <4>1 DEF Lapsed
      <4>2. CASE t.mine = {Forever}
        BY <1>2, <3>3, <4>2 DEF Lapsed
      <4>3. CASE t.mine = listKey /\ ~Lapsed(listKey, t.start)
        BY <1>2, <3>2, <4>3
      <4> QED BY <3>4, <4>1, <4>2, <4>3
    <3>6. listTxn[d].doomed \cap t.new = {} /\ listTxn[d].gone \cap t.gone = {} /\ listTxn[d].gone \subseteq values
      BY <3>1 DEF PairIs, StageIs
    <3>7. Lapsed(listKey, listTxn[d].start) => t.gone = values
      BY <2>2, <3>2
    <3>8. listTxn[d].at = "drop" /\ listTxn[d].op # "delete" => listTxn[d].doomed \cap values' = {}
      BY <1>2, <3>1, <3>6, <3>7 DEF StageIs
    <3>9. listTxn[d].at = "key" /\ listTxn[d].op # "delete" => listTxn[d].gone = {}
      BY <3>1, <3>6, <3>7 DEF StageIs
    <3> QED BY <3>5, <3>8, <3>9
  <2> QED BY <2>10, <2>11, <2>12
<1>7. CASE t.op # "append"
  <2>1. t.new = {} /\ t.mine = {} /\ t.gone = values /\ (t.op = "delete" \/ Lapsed(listKey, t.start))
    BY <1>2, <1>3, <1>4, <1>7 DEF StageIs
  <2>2. values' = {} /\ listKey' = {}
    BY <1>2, <2>1
  <2>3. whole' = NoList
    BY <1>2, <1>3, <1>4, <1>7, <2>1 DEF Alone
  <2>4. \A d \in Others(c) : listTxn[d].gone \cap t.gone = {} /\ listTxn[d].gone \subseteq values
    BY <1>4 DEF PairIs, StageIs
  <2> QED BY <2>1, <2>2, <2>3, <2>4 DEF TheList, NoList, Lapsed
<1> QED BY <1>6, <1>7

LEMMA ListCommitKeeps ==
  ASSUME ListInvariant, NEW c \in Callers, ListCommit(c)
  PROVE  ListInvariant'
<1>1. /\ values' = (values \cup listTxn[c].new) \ listTxn[c].gone /\ listKey' = KeySeen(c)
      /\ listTxn' = [listTxn EXCEPT ![c] = NoListTxn] /\ listTxn[c].at = "commit"
      /\ listTime' = listTime /\ valueSeq' = valueSeq /\ straddled' = straddled
  BY DEF ListCommit
<1>2. InHand(c, listTxn[c])
  BY InHandNow
<1>3. /\ NoListTxn \in ListTxnTypes /\ NoListTxn.start = 0 /\ NoListTxn.ttl = NoTtl /\ NoListTxn.at = "idle"
      /\ NoListTxn.new = {} /\ ~NoListTxn.locks /\ NoListTxn.gone = {} /\ NoListTxn.doomed = {}
      /\ NoListTxn.mine = {} /\ NoListTxn.op = "none"
  BY DEF NoListTxn, ListTxnTypes, NoTtl
<1>4. /\ listTxn' \in [Callers -> ListTxnTypes]
      /\ \A d \in Callers : listTxn'[d] = IF d = c THEN NoListTxn ELSE listTxn[d]
  BY <1>1, <1>3 DEF ListInvariant, ListTypes
<1>5. ListTypes'
  <2>1. listKey' \in SUBSET Nat
    BY <1>1, <1>2 DEF KeySeen, InHand, ListTxnTypes
  <2>2. values' \subseteq 1..valueSeq'
    BY <1>1, <1>2 DEF InHand
  <2>3. \A d \in Callers : /\ listTxn'[d].start <= listTime' /\ listTxn'[d].new \subseteq 1..valueSeq'
                           /\ listTxn'[d].ttl = NoTtl \/ listTxn'[d].ttl > listTxn'[d].start
    BY <1>1, <1>3, <1>4 DEF ListInvariant, ListTypes
  <2>4. /\ listTime' \in Nat /\ listTime' <= MaxListTime /\ valueSeq' \in Nat /\ straddled' \in BOOLEAN
    BY <1>1 DEF ListInvariant, ListTypes
  <2> QED BY <1>4, <2>1, <2>2, <2>3, <2>4, Zenon DEF ListTypes
<1>6. ASSUME ~straddled, listTxn[c].locks
      PROVE  ListSound'
  <2>1. whole' = TheList' /\ (listKey' = {} => values' = {})
    BY <1>6, CommitIs
  <2>2. ASSUME NEW d \in Callers
        PROVE  StageIs(listTxn'[d], listKey', values', valueSeq')
    <3>1. CASE d = c \/ ~Open(d)
      <4>1. listTxn'[d] = NoListTxn
        <5>1. CASE d = c
          BY <1>4, <5>1
        <5>2. CASE d # c /\ ~Open(d)
          <6>1. StageIs(listTxn[d], listKey, values, valueSeq)
            BY <1>6 DEF ListInvariant, ListSound
          <6> QED BY <1>4, <5>2, <6>1 DEF StageIs, Open
        <5> QED BY <3>1, <5>1, <5>2
      <4>2. StageIs(NoListTxn, listKey', values', valueSeq')
        BY <1>3 DEF StageIs
      <4> QED BY <4>1, <4>2
    <3>2. CASE d # c /\ Open(d)
      <4> DEFINE u == listTxn[d]
      <4>1. d \in Others(c) /\ listTxn'[d] = u /\ u.at # "idle"
        BY <1>4, <3>2 DEF Others, Open
      <4>2. /\ StageIs(u, listKey, values, valueSeq) /\ PairIs(u, listTxn[c], listKey)
            /\ values \subseteq 1..valueSeq
        BY <1>2, <1>6, <4>1 DEF InHand
      <4>3. /\ ~Lapsed(listKey', u.start)
            /\ u.at = "drop" /\ u.op # "delete" => u.doomed \cap values' = {}
            /\ u.at = "key" /\ u.op # "delete" => u.gone = {}
        BY <1>6, <3>2, <4>1, CommitIs
      <4> HIDE DEF u
      <4>4. ~u.locks /\ u.gone \cap listTxn[c].gone = {}
        BY <1>6, <4>2 DEF PairIs
      <4>5. u.gone \subseteq values'
        BY <1>1, <4>2, <4>4 DEF StageIs
      <4>6. StageIs(u, listKey', values', valueSeq')
        BY <1>1, <4>1, <4>2, <4>3, <4>4, <4>5 DEF StageIs
      <4> QED BY <4>1, <4>6
    <3> QED BY <3>1, <3>2
  <2>3. ASSUME NEW d \in Callers, NEW e \in Others(d)
        PROVE  PairIs(listTxn'[d], listTxn'[e], listKey')
    <3>1. e \in Callers /\ e # d
      BY DEF Others
    <3>2. CASE d = c \/ e = c
      <4>1. listTxn'[d] = NoListTxn \/ listTxn'[e] = NoListTxn
        BY <1>4, <3>1, <3>2
      <4> QED BY <1>3, <4>1 DEF PairIs
    <3>3. CASE d # c /\ e # c
      <4>1. listTxn'[d] = listTxn[d] /\ listTxn'[e] = listTxn[e] /\ d \in Others(c)
        BY <1>4, <3>1, <3>3 DEF Others
      <4>2. PairIs(listTxn[d], listTxn[e], listKey)
        BY <1>6 DEF ListInvariant, ListSound
      <4>3. Open(d) => ~Lapsed(listKey', listTxn[d].start)
        BY <1>6, <4>1, CommitIs
      <4> QED BY <4>1, <4>2, <4>3 DEF PairIs, Open
    <3> QED BY <3>2, <3>3
  <2> QED BY <2>1, <2>2, <2>3 DEF ListSound, Others
<1>7. ASSUME ~straddled, ~listTxn[c].locks
      PROVE  ListInvariant'
  <2>1. listTxn[c].new = {} /\ listTxn[c].gone = {}
    BY <1>1, <1>2, <1>7 DEF InHand, StageIs
  <2>2. values' = values /\ listKey' = listKey /\ whole' = whole
    BY <1>1, <1>7, <2>1 DEF ListCommit, KeySeen
  <2> QED BY <1>1, <2>2, ListEndKeeps
<1> QED BY <1>1, <1>5, <1>6, <1>7 DEF ListInvariant

LEMMA ListStep == ListInvariant /\ [ListNext]_listVars => ListInvariant'
<1> SUFFICES ASSUME ListInvariant, [ListNext]_listVars PROVE ListInvariant'
  OBVIOUS
<1>1. CASE UNCHANGED listVars
  BY <1>1 DEF listVars, ListInvariant, ListTypes, ListSound, TheList, Others
<1>2. CASE ListTick
  <2>1. /\ listTime' = listTime + 1 /\ listTime' <= MaxListTime
        /\ UNCHANGED <<listKey, values, valueSeq, listTxn, whole, straddled>>
    BY <1>2, ListAssumption DEF ListTick, ListInvariant, ListTypes
  <2>2. ListTypes'
    <3>1. \A c \in Callers : listTxn[c].start <= listTime + 1
      BY DEF ListInvariant, ListTypes, ListTxnTypes
    <3>2. listTime' \in Nat
      BY <2>1 DEF ListInvariant, ListTypes
    <3> QED BY <2>1, <3>1, <3>2 DEF ListInvariant, ListTypes
  <2>3. ListSound => ListSound'
    BY <2>1 DEF ListSound, TheList, Others
  <2> QED BY <2>1, <2>2, <2>3 DEF ListInvariant
<1>3. ASSUME NEW c \in Callers, BeginAppend(c) \/ BeginGetList(c) \/ BeginDropList(c)
      PROVE  ListInvariant'
  <2>1. PICK op \in {"append", "get", "delete"}, ttl \in Nat :
          (ttl = NoTtl \/ ttl > listTime) /\ ListBegin(c, op, ttl)
    <3>1. NoTtl \in Nat
      BY DEF NoTtl
    <3>2. CASE BeginAppend(c)
      <4>1. PICK ttl \in {x \in ListExpiries : x > listTime} \cup {NoTtl} : ListBegin(c, "append", ttl)
        BY <3>2 DEF BeginAppend
      <4>2. ttl \in Nat /\ (ttl = NoTtl \/ ttl > listTime)
        BY <3>1, <4>1, ListAssumption
      <4> QED BY <4>1, <4>2
    <3>3. CASE BeginGetList(c) \/ BeginDropList(c)
      BY <3>1, <3>3 DEF BeginGetList, BeginDropList
    <3> QED BY <1>3, <3>2, <3>3
  <2> QED BY <2>1, ListBeginKeeps
<1>4. ASSUME NEW c \in Callers, ListAbort(c)
      PROVE  ListInvariant'
  BY <1>4, ListEndKeeps DEF ListAbort
<1> QED BY <1>1, <1>2, <1>3, <1>4, FindKeeps, DropValuesKeeps, DropKeyKeeps, InsertValueKeeps, ListTrimKeeps,
           ListCommitKeeps DEF ListNext

(* The lock of the key, the rows deleted and not committed, and what the   *)
(* transactions agree has lapsed, at every stage of each.                  *)
THEOREM ListInvariantHolds == ListSpec => []ListInvariant
<1> QED BY ListStart, ListStep, PTL DEF ListSpec

(* appendToList, getList and delete of the chat state, for any number of   *)
(* callers, expiries and length of a list, on SQLite and on PostgreSQL:    *)
(* the stored list is the one they would have left one after the other.    *)
THEOREM ListIsAlwaysWhole == ListSpec => []ListIsWhole
<1>1. ListInvariant => ListIsWhole
  BY DEF ListInvariant, ListSound, ListIsWhole, TheList
<1> QED BY <1>1, ListInvariantHolds, PTL

-----------------------------------------------------------------------------
(* TailIsComplete for any rows, page size and cap. A row the watermark has *)
(* passed was printed; while a drain is under way, a row it selects is in  *)
(* hand, on a page to come, or newer than what is in hand.                 *)

(* What the loop has printed, its watermark and the ids it remembers: no   *)
(* id twice, each of a row, and those at the watermark are remembered.     *)

Shows == [out : Seq(RowIds), mark : Nat, seen : SUBSET RowIds]

Has(out, i) == \E n \in 1..Len(out) : out[n] = i

HasRow(i, t) == \E r \in rows : r.id = i /\ r.createdAt = t

Faithful(s) ==
  /\ s \in Shows
  /\ \A i, j \in 1..Len(s.out) : s.out[i] = s.out[j] => i = j
  /\ \A i \in 1..Len(s.out) : \E r \in rows :
       r.id = s.out[i] /\ (r.createdAt < s.mark \/ (r.createdAt = s.mark /\ r.id \in s.seen))
  /\ \A i \in s.seen : Has(s.out, i) /\ HasRow(i, s.mark)
  /\ s.mark = 0 \/ \E r \in rows : r.createdAt = s.mark

Loop == [out |-> printed, mark |-> watermark, seen |-> seen]

RowTypes ==
  /\ IsFiniteSet(rows)
  /\ \A r \in rows : r.id \in RowIds /\ r.createdAt \in Nat \ {0} /\ r.inStatus \in BOOLEAN
  /\ \A r, s \in rows : r.id = s.id => r = s

IsCollected(C) ==
  /\ IsFiniteSet(C)
  /\ C \subseteq [id : RowIds, createdAt : Nat, page : Nat]
  /\ \A c \in C : HasRow(c.id, c.createdAt) /\ c.createdAt >= watermark

(* toSorted orders what was collected.                                     *)
Sorting(C) == {x \in C \X C : Earlier(x[1], x[2])}

LEMMA SortingSorts ==
  ASSUME NEW C, RowTypes, IsCollected(C)
  PROVE  /\ Sorts(Sorting(C), C)
         /\ \A c \in C : Position(C, Sorting(C), c) = Cardinality({d \in C : Earlier(d, c)})
         /\ \A c, d \in C : <<c, d>> \in Sorting(C) => c.createdAt <= d.createdAt
<1>1. \A c \in C : c.id \in Nat /\ c.createdAt \in Nat /\ c.page \in Nat
  BY TailAssumption DEF IsCollected
<1>2. \A c, d \in C : c.id = d.id => c.createdAt = d.createdAt
  BY DEF IsCollected, HasRow, RowTypes
<1>3. \A c, d \in C : c = d \/ c.id # d.id \/ c.createdAt # d.createdAt \/ c.page # d.page
  BY DEF IsCollected
<1>4. \A c, d \in C : <<c, d>> \in Sorting(C) <=> Earlier(c, d)
  BY DEF Sorting
<1>5. \A c \in C : ~Earlier(c, c)
  BY <1>1 DEF Earlier, Before
<1>6. \A c, d \in C : c = d \/ Earlier(c, d) \/ Earlier(d, c)
  BY <1>1, <1>2, <1>3 DEF Earlier, Before
<1>7. \A a, b, c \in C : Earlier(a, b) /\ Earlier(b, c) => Earlier(a, c)
  BY <1>1, <1>2 DEF Earlier, Before
<1>8. \A c, d \in C : Earlier(c, d) => c.createdAt <= d.createdAt
  BY <1>1, <1>2 DEF Earlier, Before
<1>9. \A c \in C : Preceding(C, Sorting(C), c) = {d \in C : Earlier(d, c)}
  BY <1>4 DEF Preceding
<1> QED BY <1>4, <1>5, <1>6, <1>7, <1>8, <1>9 DEF Sorts, Position

(* Every collected row has its turn, and no row comes before an older one. *)
LEMMA Turns ==
  ASSUME NEW C, RowTypes, IsCollected(C)
  PROVE  /\ Cardinality(C) \in Nat
         /\ \A n \in 1..Cardinality(C) : Nth(C, n) \in C
         /\ \A m, n \in 1..Cardinality(C) :
              m < n => Nth(C, m).createdAt <= Nth(C, n).createdAt
         /\ \A c \in C : \E n \in 1..Cardinality(C) : Nth(C, n) = c
<1> DEFINE R == Sorting(C)
           N == Cardinality(C)
           p(c) == Position(C, R, c)
<1>1. /\ Sorts(R, C) /\ IsFiniteSet(C)
      /\ \A c \in C : p(c) = Cardinality({d \in C : Earlier(d, c)})
      /\ \A c, d \in C : <<c, d>> \in R => c.createdAt <= d.createdAt
  BY SortingSorts DEF IsCollected
<1> HIDE DEF R
<1>2. /\ N \in Nat
      /\ \A c \in C : p(c) \in 0..(N - 1)
      /\ \A c, d \in C : <<c, d>> \in R <=> p(c) < p(d)
      /\ \A c, d \in C : p(c) = p(d) => c = d
      /\ \A n \in 0..(N - 1) : \E c \in C : p(c) = n
  BY <1>1, Positions
<1>3. ASSUME NEW n \in 1..N PROVE Nth(C, n) \in C /\ p(Nth(C, n)) = n - 1
  <2>1. n - 1 \in 0..(N - 1)
    BY <1>2
  <2>2. \E c \in C : Cardinality({d \in C : Earlier(d, c)}) = n - 1
    BY <1>1, <1>2, <2>1
  <2>3. Nth(C, n) \in C /\ Cardinality({d \in C : Earlier(d, Nth(C, n))}) = n - 1
    BY <2>2 DEF Nth
  <2> QED BY <1>1, <2>3
<1>4. ASSUME NEW m \in 1..N, NEW n \in 1..N, m < n
      PROVE  Nth(C, m).createdAt <= Nth(C, n).createdAt
  <2>1. p(Nth(C, m)) < p(Nth(C, n))
    BY <1>2, <1>3, <1>4
  <2>2. <<Nth(C, m), Nth(C, n)>> \in R
    BY <1>2, <1>3, <2>1
  <2> QED BY <1>1, <1>3, <2>2
<1>5. ASSUME NEW c \in C PROVE \E n \in 1..N : Nth(C, n) = c
  <2>1. p(c) + 1 \in 1..N /\ (p(c) + 1) - 1 = p(c)
    BY <1>2
  <2>2. Nth(C, p(c) + 1) \in C /\ p(Nth(C, p(c) + 1)) = p(c)
    BY <1>3, <2>1
  <2> QED BY <1>2, <2>1, <2>2
<1> QED BY <1>2, <1>3, <1>4, <1>5

LEMMA AppendHas ==
  ASSUME NEW out \in Seq(RowIds), NEW x \in RowIds
  PROVE  /\ Append(out, x) \in Seq(RowIds)
         /\ Len(Append(out, x)) = Len(out) + 1
         /\ \A i \in 1..Len(out) : Append(out, x)[i] = out[i]
         /\ Append(out, x)[Len(out) + 1] = x
         /\ \A i : Has(Append(out, x), i) <=> Has(out, i) \/ i = x
<1>1. Append(out, x) \in Seq(RowIds) /\ Len(Append(out, x)) = Len(out) + 1
      /\ (\A i \in 1..Len(out) : Append(out, x)[i] = out[i])
      /\ Append(out, x)[Len(out) + 1] = x /\ Len(out) \in Nat
  OBVIOUS
<1>2. 1..(Len(out) + 1) = 1..Len(out) \cup {Len(out) + 1}
  BY <1>1
<1> QED BY <1>1, <1>2 DEF Has

(* One turn of the loop, whose row is not older than the watermark.        *)
Turned(s, c, t) ==
  /\ Faithful(t) /\ t.mark = c.createdAt
  /\ \A i : Has(t.out, i) <=> Has(s.out, i) \/ i = c.id

LEMMA ShowTurns ==
  ASSUME RowTypes, NEW s, Faithful(s), NEW c, c.id \in RowIds, c.createdAt \in Nat,
         HasRow(c.id, c.createdAt), s.mark <= c.createdAt
  PROVE  Turned(s, c, Show(s, c))
<1> DEFINE t == Show(s, c)
<1>1. s \in Shows /\ s.out \in Seq(RowIds) /\ s.mark \in Nat /\ s.seen \in SUBSET RowIds
  BY DEF Faithful, Shows
<1>2. CASE c.id \in s.seen
  <2>1. t = s
    BY <1>2 DEF Show
  <2>2. Has(s.out, c.id) /\ HasRow(c.id, s.mark)
    BY <1>2 DEF Faithful
  <2>3. s.mark = c.createdAt
    BY <2>2 DEF HasRow, RowTypes
  <2> QED BY <2>1, <2>2, <2>3 DEF Turned
<1>3. CASE c.id \notin s.seen
  <2>1. /\ t.out = Append(s.out, c.id) /\ t.mark = c.createdAt
        /\ t.seen = IF c.createdAt > s.mark THEN {c.id} ELSE s.seen \cup {c.id}
        /\ t \in Shows
    <3>1. Append(s.out, c.id) \in Seq(RowIds)
      BY <1>1
    <3>2. CASE c.createdAt > s.mark
      <4>1. t = [out |-> Append(s.out, c.id), mark |-> c.createdAt, seen |-> {c.id}]
        BY <1>3, <3>2 DEF Show
      <4> HIDE DEF t
      <4> QED BY <3>1, <3>2, <4>1 DEF Shows
    <3>3. CASE ~(c.createdAt > s.mark)
      <4>1. t = [s EXCEPT !.out = Append(@, c.id), !.seen = @ \cup {c.id}]
        BY <1>3, <3>3 DEF Show
      <4>2. s.mark = c.createdAt
        BY <1>1, <3>3
      <4> HIDE DEF t
      <4> QED BY <1>1, <3>1, <3>3, <4>1, <4>2 DEF Shows
    <3> QED BY <3>2, <3>3
  <2> HIDE DEF t
  <2>2. /\ Len(t.out) = Len(s.out) + 1
        /\ \A i \in 1..Len(s.out) : t.out[i] = s.out[i]
        /\ t.out[Len(s.out) + 1] = c.id
        /\ \A i : Has(t.out, i) <=> Has(s.out, i) \/ i = c.id
        /\ Len(s.out) \in Nat
    BY <1>1, <2>1, AppendHas
  <2>3. \A i \in 1..Len(s.out) : s.out[i] # c.id
    <3> SUFFICES ASSUME NEW i \in 1..Len(s.out), s.out[i] = c.id PROVE FALSE
      OBVIOUS
    <3>1. PICK r \in rows : /\ r.id = c.id
                            /\ r.createdAt < s.mark \/ (r.createdAt = s.mark /\ r.id \in s.seen)
      BY DEF Faithful
    <3>2. r.createdAt = c.createdAt
      BY <3>1 DEF HasRow, RowTypes
    <3> QED BY <1>1, <1>3, <3>1, <3>2
  <2>4. 1..Len(t.out) = 1..Len(s.out) \cup {Len(s.out) + 1}
    BY <2>2
  <2>5. \A i, j \in 1..Len(t.out) : t.out[i] = t.out[j] => i = j
    BY <2>2, <2>3, <2>4 DEF Faithful
  <2>6. ASSUME NEW i \in 1..Len(t.out)
        PROVE  \E r \in rows : /\ r.id = t.out[i]
                               /\ r.createdAt < t.mark \/ (r.createdAt = t.mark /\ r.id \in t.seen)
    <3>1. CASE i \in 1..Len(s.out)
      <4>1. PICK r \in rows : /\ r.id = s.out[i]
                              /\ r.createdAt < s.mark \/ (r.createdAt = s.mark /\ r.id \in s.seen)
        BY <3>1 DEF Faithful
      <4>2. r.createdAt \in Nat
        BY DEF RowTypes
      <4>3. r.createdAt < t.mark \/ (r.createdAt = t.mark /\ r.id \in t.seen)
        BY <1>1, <2>1, <4>1, <4>2
      <4> QED BY <2>2, <3>1, <4>1, <4>3
    <3>2. CASE i = Len(s.out) + 1
      BY <2>1, <2>2, <3>2 DEF HasRow
    <3> QED BY <2>4, <3>1, <3>2
  <2>7. \A i \in t.seen : Has(t.out, i) /\ HasRow(i, t.mark)
    BY <1>1, <2>1, <2>2 DEF Faithful
  <2>8. \E r \in rows : r.createdAt = t.mark
    BY <2>1 DEF HasRow
  <2> QED BY <2>1, <2>2, <2>5, <2>6, <2>7, <2>8 DEF Turned, Faithful, t
<1> QED BY <1>2, <1>3
LEMMA ShowType ==
  ASSUME NEW s \in Shows, NEW c, c.id \in RowIds, c.createdAt \in Nat
  PROVE  Show(s, c) \in Shows
<1>1. s.out \in Seq(RowIds) /\ s.mark \in Nat /\ s.seen \in SUBSET RowIds
  BY DEF Shows
<1>2. Append(s.out, c.id) \in Seq(RowIds)
  BY <1>1
<1>3. [out |-> Append(s.out, c.id), mark |-> c.createdAt, seen |-> {c.id}] \in Shows
  BY <1>2 DEF Shows
<1>4. [s EXCEPT !.out = Append(@, c.id), !.seen = @ \cup {c.id}] \in Shows
  BY <1>1, <1>2 DEF Shows
<1> QED BY <1>3, <1>4 DEF Show

IsShowing(f, C) ==
  /\ f[0] = Loop
  /\ \A i \in 1..Cardinality(C) : f[i] = Show(f[i - 1], Nth(C, i))

(* The recursion has a value after every row, the last of them Shown.      *)
LEMMA ShownIs ==
  ASSUME NEW C, RowTypes, IsCollected(C), Loop \in Shows
  PROVE  \E f : IsShowing(f, C) /\ Shown(C) = f[Cardinality(C)]
<1> DEFINE n == Cardinality(C)
           base == [out |-> printed, mark |-> watermark, seen |-> seen]
           step == [i \in 1..n |-> [s \in Shows |-> Show(s, Nth(C, i))]]
           Def(f) == f = [i \in 0..Cardinality(C) |->
                            IF i = 0 THEN [out |-> printed, mark |-> watermark, seen |-> seen]
                            ELSE Show(f[i - 1], Nth(C, i))]
<1>1. n \in Nat /\ \A i \in 1..n : Nth(C, i).id \in RowIds /\ Nth(C, i).createdAt \in Nat
  <2>1. n \in Nat /\ \A i \in 1..n : Nth(C, i) \in C
    BY Turns
  <2>2. C \subseteq [id : RowIds, createdAt : Nat, page : Nat]
    BY DEF IsCollected
  <2> QED BY <2>1, <2>2
<1>2. base \in Shows
  BY DEF Loop
<1>3. step \in [1..n -> [Shows -> Shows]]
  BY <1>1, ShowType
<1>4. PICK f : IsRun(f, Shows, base, n, step)
  <2> HIDE DEF step, n, Def, base
  <2>1. n \in Nat
    BY <1>1
  <2> QED BY <2>1, <1>2, <1>3, Recursion
<1>5. \A i \in 1..n : f[i] = Show(f[i - 1], Nth(C, i))
  <2>1. \A i \in 1..n : f[i - 1] \in Shows
    BY <1>1, <1>4 DEF IsRun
  <2> QED BY <1>4, <2>1 DEF IsRun
<1>6. Def(f)
  BY <1>1, <1>4, <1>5 DEF IsRun
<1>7. PICK g : Def(g) /\ Shown(C) = g[n]
  <2>1. Shown(C) = (CHOOSE g : Def(g))[n]
    BY DEF Shown
  <2> HIDE DEF Def
  <2> QED BY <1>6, <2>1
<1>8. g[0] = base /\ \A i \in 1..n : g[i] = Show(g[i - 1], Nth(C, i))
  BY <1>1, <1>7
<1> QED BY <1>7, <1>8 DEF IsShowing, Loop

(* What the loop over the rows of a poll ends with: it has printed what it *)
(* had and what was collected, and stays faithful.                         *)
ShownAll(end, C) ==
  /\ Faithful(end)
  /\ \A i : Has(end.out, i) <=> Has(printed, i) \/ \E c \in C : c.id = i
  /\ end.mark = watermark \/ \E c \in C : c.createdAt = end.mark

LEMMA ShownEnds ==
  ASSUME NEW C, RowTypes, IsCollected(C), Faithful(Loop)
  PROVE  ShownAll(Shown(C), C)
<1> DEFINE n == Cardinality(C)
<1>1. PICK f : IsShowing(f, C) /\ Shown(C) = f[n]
  BY ShownIs DEF Faithful
<1> DEFINE Good(k) ==
      /\ Faithful(f[k])
      /\ f[k].mark = IF k = 0 THEN watermark ELSE Nth(C, k).createdAt
      /\ \A i : Has(f[k].out, i) <=> Has(printed, i) \/ \E m \in 1..k : Nth(C, m).id = i
           G == {k \in 0..n : Good(k)}
<1>2. /\ n \in Nat
      /\ \A i \in 1..n : Nth(C, i) \in C
      /\ \A i, j \in 1..n : i < j => Nth(C, i).createdAt <= Nth(C, j).createdAt
      /\ \A c \in C : \E i \in 1..n : Nth(C, i) = c
  BY Turns
<1>3. 0 \in G
  <2>1. f[0] = Loop /\ f[0].mark = watermark /\ f[0].out = printed
    BY <1>1 DEF IsShowing, Loop
  <2>2. 1..0 = {} /\ 0 \in 0..n
    BY <1>2
  <2> QED BY <2>1, <2>2
<1>4. ASSUME NEW k \in 1..n, k - 1 \in G PROVE k \in G
  <2> DEFINE c == Nth(C, k)
  <2>1. c \in C /\ c.id \in RowIds /\ c.createdAt \in Nat
        /\ HasRow(c.id, c.createdAt) /\ watermark <= c.createdAt
    <3>1. c \in C
      BY <1>2
    <3>2. c \in [id : RowIds, createdAt : Nat, page : Nat]
      BY <3>1 DEF IsCollected
    <3>3. watermark \in Nat
      BY DEF Faithful, Shows, Loop
    <3> QED BY <3>1, <3>2, <3>3 DEF IsCollected
  <2>2. Good(k - 1) /\ k - 1 \in 0..n
    BY <1>4
  <2>3. f[k - 1].mark <= c.createdAt
    <3>1. CASE k - 1 = 0
      BY <2>1, <2>2, <3>1
    <3>2. CASE k - 1 # 0
      <4>1. k - 1 \in 1..n /\ k - 1 < k
        BY <1>2, <3>2
      <4> QED BY <1>2, <2>2, <3>2, <4>1
    <3> QED BY <3>1, <3>2
  <2>4. f[k] = Show(f[k - 1], c)
    BY <1>1 DEF IsShowing
  <2>5. Turned(f[k - 1], c, f[k])
    <3> HIDE DEF c
    <3> QED BY <2>1, <2>2, <2>3, <2>4, ShowTurns
  <2>6. \A m : m \in 1..k <=> m \in 1..(k - 1) \/ m = k
    BY <1>2
  <2>7. Good(k)
    <3>1. \A i : Has(f[k].out, i) <=> Has(printed, i) \/ \E m \in 1..k : Nth(C, m).id = i
      BY <2>2, <2>5, <2>6 DEF Turned
    <3>2. k # 0
      BY <1>2
    <3> QED BY <2>5, <3>1, <3>2 DEF Turned
  <2> QED BY <1>2, <2>7
<1> HIDE DEF G
<1>5. \A k \in 0..n : k \in G
  BY <1>2, <1>3, <1>4, Throughout
<1>6. Good(n)
  <2>1. n \in 0..n
    BY <1>2
  <2> QED BY <1>5, <2>1 DEF G
<1>7. Shown(C).mark = watermark \/ \E c \in C : c.createdAt = Shown(C).mark
  <2>1. n = 0 \/ n \in 1..n
    BY <1>2
  <2> QED BY <1>1, <1>2, <1>6, <2>1
<1>8. \A i : (\E m \in 1..n : Nth(C, m).id = i) <=> \E c \in C : c.id = i
  BY <1>2
<1> QED BY <1>1, <1>6, <1>7, <1>8 DEF ShownAll

-----------------------------------------------------------------------------
(* Pages.                                                                  *)

(* ORDER BY created_at DESC, id DESC of the rows S.                        *)
Descending(S) == {x \in S \X S : Before(x[2], x[1])}

LEMMA DescendingSorts ==
  ASSUME NEW S, S \subseteq rows, RowTypes
  PROVE  /\ IsFiniteSet(S) /\ Sorts(Descending(S), S)
         /\ \A r \in S : Position(S, Descending(S), r) = Cardinality({s \in S : Before(r, s)})
         /\ \A r, s \in S : <<r, s>> \in Descending(S) <=> Before(s, r)
<1>1. \A r \in S : r.id \in Nat /\ r.createdAt \in Nat
  BY TailAssumption DEF RowTypes
<1>2. \A r, s \in S : r.id = s.id => r = s
  BY DEF RowTypes
<1>3. \A r, s \in S : <<r, s>> \in Descending(S) <=> Before(s, r)
  BY DEF Descending
<1>4. \A r \in S : ~Before(r, r)
  BY <1>1 DEF Before
<1>5. \A r, s \in S : r = s \/ Before(r, s) \/ Before(s, r)
  BY <1>1, <1>2 DEF Before
<1>6. \A a, b, c \in S : Before(b, a) /\ Before(c, b) => Before(c, a)
  BY <1>1 DEF Before
<1>7. \A r \in S : Preceding(S, Descending(S), r) = {s \in S : Before(r, s)}
  BY <1>3 DEF Preceding
<1>8. IsFiniteSet(S)
  BY FS_Subset DEF RowTypes
<1>9. Sorts(Descending(S), S)
  BY <1>3, <1>4, <1>5, <1>6 DEF Sorts
<1> QED BY <1>3, <1>7, <1>8, <1>9 DEF Position

(* The position of a row in S, newest first.                               *)
Newer(S, r) == Cardinality({s \in S : Before(r, s)})

LEMMA NewerIs ==
  ASSUME NEW S, S \subseteq rows, RowTypes
  PROVE  /\ Cardinality(S) \in Nat
         /\ \A r \in S : Newer(S, r) \in 0..(Cardinality(S) - 1)
         /\ \A r, s \in S : Before(s, r) <=> Newer(S, r) < Newer(S, s)
         /\ \A r, s \in S : Newer(S, r) = Newer(S, s) => r = s
         /\ \A n \in 0..(Cardinality(S) - 1) : \E r \in S : Newer(S, r) = n
         /\ \A k \in 0..Cardinality(S) : /\ IsFiniteSet({r \in S : Newer(S, r) < k})
                                         /\ Cardinality({r \in S : Newer(S, r) < k}) = k
<1> DEFINE R == Descending(S)
<1>1. /\ IsFiniteSet(S) /\ Sorts(R, S)
      /\ \A r \in S : Position(S, R, r) = Newer(S, r)
      /\ \A r, s \in S : <<r, s>> \in R <=> Before(s, r)
  BY DescendingSorts DEF Newer
<1> HIDE DEF R
<1>2. /\ Cardinality(S) \in Nat
      /\ \A a \in S : Position(S, R, a) \in 0..(Cardinality(S) - 1)
      /\ \A a, b \in S : <<a, b>> \in R <=> Position(S, R, a) < Position(S, R, b)
      /\ \A a, b \in S : Position(S, R, a) = Position(S, R, b) => a = b
      /\ \A n \in 0..(Cardinality(S) - 1) : \E a \in S : Position(S, R, a) = n
  BY <1>1, Positions
<1>3. ASSUME NEW k \in 0..Cardinality(S)
      PROVE  /\ IsFiniteSet({r \in S : Newer(S, r) < k})
             /\ Cardinality({r \in S : Newer(S, r) < k}) = k
  <2>1. /\ IsFiniteSet({r \in S : Position(S, R, r) < k})
        /\ Cardinality({r \in S : Position(S, R, r) < k}) = k
    BY <1>1, FirstOnes
  <2>2. {r \in S : Position(S, R, r) < k} = {r \in S : Newer(S, r) < k}
    BY <1>1
  <2> QED BY <2>1, <2>2
<1>4. \A r \in S : Newer(S, r) \in 0..(Cardinality(S) - 1)
  BY <1>1, <1>2
<1>5. \A r, s \in S : Before(s, r) <=> Newer(S, r) < Newer(S, s)
  BY <1>1, <1>2
<1>6. \A r, s \in S : Newer(S, r) = Newer(S, s) => r = s
  BY <1>1, <1>2
<1>7. \A n \in 0..(Cardinality(S) - 1) : \E r \in S : Newer(S, r) = n
  BY <1>1, <1>2
<1> QED BY <1>2, <1>3, <1>4, <1>5, <1>6, <1>7

(* A page is not empty unless nothing is left; what is left of the query   *)
(* after it is older than every row of it, and then the page is full.      *)
LEMMA PageIs ==
  ASSUME RowTypes
  PROVE  /\ Page \subseteq PageFrom /\ PageFrom \subseteq Selected /\ Selected \subseteq rows
         /\ IsFiniteSet(Page)
         /\ PageFrom # {} => Page # {}
         /\ \A r \in PageFrom \ Page, s \in Page : Before(r, s)
         /\ PageFrom # Page => Cardinality(Page) = Limit
<1> DEFINE S == PageFrom
<1>1. Page \subseteq S /\ S \subseteq Selected /\ Selected \subseteq rows /\ S \subseteq rows
  BY DEF Page, PageFrom, Selected
<1>2. Page = {r \in S : Newer(S, r) < Limit}
  BY DEF Page, Newer
<1>3. IsFiniteSet(S)
  BY <1>1, FS_Subset DEF RowTypes
<1>4. IsFiniteSet(Page)
  BY <1>1, <1>3, FS_Subset
<1> HIDE DEF S
<1>5. /\ Cardinality(S) \in Nat
      /\ \A r \in S : Newer(S, r) \in 0..(Cardinality(S) - 1)
      /\ \A r, s \in S : Before(s, r) <=> Newer(S, r) < Newer(S, s)
      /\ \A n \in 0..(Cardinality(S) - 1) : \E r \in S : Newer(S, r) = n
      /\ \A k \in 0..Cardinality(S) : Cardinality({r \in S : Newer(S, r) < k}) = k
  BY <1>1, NewerIs
<1>6. Limit \in Nat /\ Limit > 0
  BY TailAssumption
<1>7. S # {} => Page # {}
  <2> SUFFICES ASSUME S # {} PROVE Page # {}
    OBVIOUS
  <2>1. 0 \in 0..(Cardinality(S) - 1)
    BY <1>5
  <2>2. PICK r \in S : Newer(S, r) = 0
    BY <1>5, <2>1
  <2> QED BY <1>2, <1>6, <2>2
<1>8. \A r \in S \ Page, s \in Page : Before(r, s)
  BY <1>2, <1>5, <1>6
<1>9. S # Page => Cardinality(Page) = Limit
  <2> SUFFICES ASSUME S # Page PROVE Cardinality(Page) = Limit
    OBVIOUS
  <2>1. PICK r \in S : ~(Newer(S, r) < Limit)
    BY <1>1, <1>2
  <2>2. Limit \in 0..Cardinality(S)
    BY <1>5, <1>6, <2>1
  <2> QED BY <1>2, <1>5, <2>2
<1> QED BY <1>1, <1>4, <1>7, <1>8, <1>9 DEF S

(* The oldest row of a page, from which the cursor goes on.                *)
LEMMA OldestIs ==
  ASSUME RowTypes, Page # {}
  PROVE  LET last == CHOOSE r \in Page : \A s \in Page : r = s \/ Before(r, s)
         IN  last \in Page /\ \A s \in Page : last = s \/ Before(last, s)
<1> DEFINE N == Cardinality(Page)
<1>1. Page \subseteq rows /\ IsFiniteSet(Page)
  BY PageIs
<1>2. /\ N \in Nat
      /\ \A r \in Page : Newer(Page, r) \in 0..(N - 1)
      /\ \A r, s \in Page : Before(s, r) <=> Newer(Page, r) < Newer(Page, s)
      /\ \A r, s \in Page : Newer(Page, r) = Newer(Page, s) => r = s
      /\ \A n \in 0..(N - 1) : \E r \in Page : Newer(Page, r) = n
  BY <1>1, NewerIs
<1>3. N - 1 \in 0..(N - 1)
  BY <1>2
<1>4. PICK r \in Page : Newer(Page, r) = N - 1
  BY <1>2, <1>3
<1>5. \A s \in Page : r = s \/ Before(r, s)
  BY <1>2, <1>4
<1>6. \E l \in Page : \A s \in Page : l = s \/ Before(l, s)
  BY <1>5
<1> QED BY <1>6

(* By offset, a row left of the query after a page is beyond the next      *)
(* offset, too.                                                            *)
LEMMA OffsetIs ==
  ASSUME RowTypes, kind # "audit", poll.pages \in Nat
  PROVE  /\ \A r \in Selected : Rank(r) \in Nat
         /\ \A r, s \in Selected : Rank(r) < Rank(s) => Before(s, r)
         /\ \A r \in PageFrom \ Page : Rank(r) >= (poll.pages + 1) * Limit
<1> DEFINE S == Selected
           k == poll.pages * Limit
<1>1. Page \subseteq PageFrom /\ PageFrom \subseteq S /\ S \subseteq rows
  BY PageIs
<1>2. \A r \in S : Rank(r) = Newer(S, r)
  BY DEF Rank, Newer
<1>3. PageFrom = {r \in S : Rank(r) >= k}
  BY DEF PageFrom
<1>4. Limit \in Nat /\ k \in Nat /\ (poll.pages + 1) * Limit = k + Limit
  <2>1. Limit \in Nat
    BY TailAssumption
  <2> QED BY <2>1
<1>5. IsFiniteSet(S)
  BY <1>1, FS_Subset DEF RowTypes
<1> HIDE DEF S, k
<1>6. /\ Cardinality(S) \in Nat
      /\ \A r \in S : Newer(S, r) \in 0..(Cardinality(S) - 1)
      /\ \A r, s \in S : Before(s, r) <=> Newer(S, r) < Newer(S, s)
      /\ \A n \in 0..Cardinality(S) : /\ IsFiniteSet({r \in S : Newer(S, r) < n})
                                      /\ Cardinality({r \in S : Newer(S, r) < n}) = n
  BY <1>1, NewerIs
<1>7. \A r, s \in S : Rank(r) < Rank(s) => Before(s, r)
  BY <1>2, <1>6
<1>8. ASSUME NEW r \in PageFrom \ Page PROVE Rank(r) >= k + Limit
  <2> DEFINE A == {s \in S : Newer(S, s) < k}
             B == {s \in PageFrom : Before(r, s)}
             C == {s \in S : Before(r, s)}
  <2>1. Rank(r) = Cardinality(C) /\ r \in S /\ Rank(r) >= k
    BY <1>1, <1>3 DEF Rank, S
  <2>2. k \in 0..Cardinality(S)
    BY <1>2, <1>4, <1>6, <2>1
  <2>3. IsFiniteSet(A) /\ Cardinality(A) = k
    BY <1>6, <2>2
  <2>4. ~(Cardinality(B) < Limit)
    BY DEF Page
  <2>5. IsFiniteSet(C) /\ IsFiniteSet(B)
    <3>1. C \subseteq S /\ B \subseteq S
      BY <1>1
    <3> HIDE DEF B, C
    <3> QED BY <1>5, <3>1, FS_Subset
  <2>6. A \cap B = {} /\ A \cup B \subseteq C
    <3>1. \A s \in A : s \in S /\ Newer(S, s) < k
      OBVIOUS
    <3>2. \A s \in A : Newer(S, s) < Newer(S, r)
      BY <1>2, <1>4, <1>6, <2>1, <3>1
    <3>3. \A s \in A : s \in C
      BY <1>6, <2>1, <3>2
    <3>4. \A s \in PageFrom : s \in S /\ ~(Newer(S, s) < k)
      BY <1>1, <1>2, <1>3, <1>4, <1>6
    <3> QED BY <3>1, <3>3, <3>4
  <2> HIDE DEF A, B, C
  <2>7. Cardinality(A \cup B) = Cardinality(A) + Cardinality(B) /\ IsFiniteSet(A \cup B)
    <3>1. Cardinality(A \cup B) = Cardinality(A) + Cardinality(B) - Cardinality(A \cap B)
          /\ IsFiniteSet(A \cup B)
      BY <2>3, <2>5, FS_Union
    <3>2. Cardinality(A \cap B) = 0 /\ Cardinality(A) \in Nat /\ Cardinality(B) \in Nat
      BY <2>3, <2>5, <2>6, FS_EmptySet, FS_CardinalityType
    <3> QED BY <3>1, <3>2
  <2>8. Cardinality(A \cup B) <= Cardinality(C)
    BY <2>5, <2>6, FS_Subset
  <2>9. Cardinality(B) \in Nat /\ Cardinality(C) \in Nat
    BY <2>5, FS_CardinalityType
  <2> QED BY <1>4, <2>1, <2>3, <2>4, <2>7, <2>8, <2>9
<1>9. \A r \in S : Rank(r) \in Nat
  BY <1>2, <1>6
<1> QED BY <1>4, <1>7, <1>8, <1>9 DEF S

-----------------------------------------------------------------------------
(* The invariant. A row behind the watermark has been printed; while a     *)
(* drain is under way, a row it selects is in hand, on a page to come, or  *)
(* was committed since it began, no earlier than what is in hand. Late     *)
(* rows are left out.                                                      *)

Kinds == {"audit", "dispatches", "failed"}

PollTypes ==
  /\ kind \in Kinds
  /\ poll.pages \in Nat /\ poll.last.id \in Nat /\ poll.last.createdAt \in Nat
  /\ IsCollected(poll.collected)
  /\ poll.pages = 0 => poll.collected = {}
  /\ poll.pages # 0 => \E c \in poll.collected : c.createdAt = poll.last.createdAt

Collects(C, r)   == \E c \in C : c.id = r.id
NotOlder(C, r)   == \A c \in C : c.createdAt <= r.createdAt

LateKnown ==
  /\ due \subseteq Ids(rows) /\ skipped \subseteq late
  /\ \A r \in rows : r.inStatus
  /\ kind = "dispatches" =>
       \A r, s \in rows : r.createdAt = s.createdAt /\ r # s => r.id \in late

PassedArePrinted == \A r \in rows : r.id \notin late /\ Behind(r, watermark) => Has(printed, r.id)

DrainIsWhole ==
  \A r \in Selected : r.id \notin late =>
    \/ Collects(poll.collected, r) \/ r \in PageFrom
    \/ r.id \notin due /\ NotOlder(poll.collected, r)

NoneLost == kind # "failed" => LateKnown /\ PassedArePrinted /\ DrainIsWhole

TailInvariant == RowTypes /\ Faithful(Loop) /\ PollTypes /\ NoneLost

LEMMA TailStart == TailInit => TailInvariant
<1> SUFFICES ASSUME TailInit PROVE TailInvariant
  OBVIOUS
<1> USE DEF TailInit
<1>1. RowTypes
  BY FS_EmptySet DEF RowTypes
<1>2. Faithful(Loop)
  <2>1. Loop = [out |-> <<>>, mark |-> 0, seen |-> {}]
    BY DEF Loop
  <2>2. Loop \in Shows
    BY <2>1 DEF Shows
  <2>3. Len(Loop.out) = 0 /\ Loop.seen = {} /\ Loop.mark = 0
    BY <2>1
  <2> QED BY <2>2, <2>3 DEF Faithful
<1>3. PollTypes
  <2>1. IsCollected({})
    BY FS_EmptySet DEF IsCollected
  <2>2. poll.pages = 0 /\ poll.collected = {} /\ poll.last.id = 0 /\ poll.last.createdAt = 0
    BY DEF NoPoll, NoRow
  <2> QED BY <2>1, <2>2 DEF PollTypes, Kinds
<1>4. NoneLost
  BY DEF NoneLost, LateKnown, PassedArePrinted, DrainIsWhole, Selected
<1> QED BY <1>1, <1>2, <1>3, <1>4 DEF TailInvariant

(* A row that is committed or moves to another status leaves what was      *)
(* printed and collected as it was.                                        *)
LEMMA RowsStay ==
  ASSUME RowTypes, Faithful(Loop), PollTypes,
         UNCHANGED <<kind, watermark, seen, poll, printed>>,
         \A r \in rows : \E s \in rows' : s.id = r.id /\ s.createdAt = r.createdAt
  PROVE  Faithful(Loop)' /\ PollTypes'
<1>1. \A i, t : HasRow(i, t) => HasRow(i, t)'
  BY DEF HasRow
<1>2. Loop' = Loop
  BY DEF Loop
<1>3. Faithful(Loop)'
  <2> DEFINE s == Loop
  <2>0. s' = s /\ Faithful(s)
    BY <1>2
  <2> HIDE DEF s
  <2>1. s \in Shows
    BY <2>0 DEF Faithful
  <2>2. \A i, j \in 1..Len(s.out) : s.out[i] = s.out[j] => i = j
    BY <2>0 DEF Faithful
  <2>3. ASSUME NEW i \in 1..Len(s.out)
        PROVE  \E r \in rows' : /\ r.id = s.out[i]
                                /\ r.createdAt < s.mark \/ (r.createdAt = s.mark /\ r.id \in s.seen)
    <3>1. PICK r \in rows : /\ r.id = s.out[i]
                            /\ r.createdAt < s.mark \/ (r.createdAt = s.mark /\ r.id \in s.seen)
      BY <2>0 DEF Faithful
    <3>2. PICK q \in rows' : q.id = r.id /\ q.createdAt = r.createdAt
      OBVIOUS
    <3> QED BY <3>1, <3>2
  <2>4. \A i \in s.seen : Has(s.out, i) /\ HasRow(i, s.mark)'
    <3>1. \A i \in s.seen : Has(s.out, i) /\ HasRow(i, s.mark)
      BY <2>0 DEF Faithful
    <3> QED BY <2>0, <3>1 DEF HasRow
  <2>5. s.mark = 0 \/ \E r \in rows' : r.createdAt = s.mark
    BY <2>0 DEF Faithful
  <2>6. Faithful(s)'
    BY <2>0, <2>1, <2>2, <2>3, <2>4, <2>5 DEF Faithful, HasRow
  <2> QED BY <2>6 DEF s
<1>4. IsCollected(poll.collected)'
  BY <1>1 DEF PollTypes, IsCollected, HasRow
<1> QED BY <1>3, <1>4 DEF PollTypes

LEMMA TailCommitKeeps == TailInvariant /\ Commit => TailInvariant'
<1> SUFFICES ASSUME TailInvariant,
                    NEW id \in RowIds \ Ids(rows), NEW t \in 1..MaxStamp, NEW b \in BOOLEAN,
                    b \/ kind = "failed",
                    rows' = rows \cup {[id |-> id, createdAt |-> t, inStatus |-> b]},
                    late' = late \cup {i \in {id} : \E r \in rows : r.createdAt > t}
                      \cup (IF kind = "audit" \/ {r \in rows : r.createdAt = t} = {} THEN {}
                           ELSE {id} \cup {r.id : r \in {s \in rows : s.createdAt = t}}),
                    UNCHANGED <<kind, statusMoves, watermark, seen, poll, printed, due, skipped>>
             PROVE  TailInvariant'
  BY DEF Commit
<1> DEFINE new == [id |-> id, createdAt |-> t, inStatus |-> b]
<1>1. new.id = id /\ new.createdAt = t /\ new.inStatus = b /\ t \in Nat \ {0}
      /\ rows' = rows \cup {new} /\ \A r \in rows : r.id # id
  BY TailAssumption DEF Ids
<1> HIDE DEF new
<1>2. RowTypes /\ Faithful(Loop) /\ PollTypes /\ NoneLost
  BY DEF TailInvariant
<1>3. RowTypes'
  BY <1>1, <1>2, FS_AddElement DEF RowTypes
<1>4. Faithful(Loop)' /\ PollTypes'
  BY <1>1, <1>2, RowsStay
<1>5. NoneLost'
  <2> SUFFICES ASSUME kind # "failed"
               PROVE  LateKnown' /\ PassedArePrinted' /\ DrainIsWhole'
    BY DEF NoneLost
  <2>1. LateKnown /\ PassedArePrinted /\ DrainIsWhole
    BY <1>2 DEF NoneLost
  <2>2. late \subseteq late' /\ ((\E r \in rows : r.createdAt > t) => id \in late')
    OBVIOUS
  <2>3. kind # "audit" => \A r \in rows : r.createdAt = t => r.id \in late' /\ id \in late'
    OBVIOUS
  <2>4. LateKnown'
    <3>1. due' \subseteq Ids(rows)' /\ skipped' \subseteq late'
      BY <1>1, <2>1, <2>2 DEF LateKnown, Ids
    <3>2. \A r \in rows' : r.inStatus
      BY <1>1, <2>1 DEF LateKnown
    <3>3. kind = "dispatches" =>
            \A r, s \in rows' : r.createdAt = s.createdAt /\ r # s => r.id \in late'
      BY <1>1, <2>1, <2>2, <2>3 DEF LateKnown
    <3> QED BY <3>1, <3>2, <3>3 DEF LateKnown
  <2>5. PassedArePrinted'
    <3>1. \A r \in rows : r.id \notin late' /\ Behind(r, watermark)' => Has(printed', r.id)
      BY <2>1, <2>2 DEF PassedArePrinted, Behind
    <3>2. Behind(new, watermark)' => id \in late'
      <4> SUFFICES ASSUME t < watermark \/ (kind # "audit" /\ t = watermark)
                   PROVE  id \in late'
        BY <1>1 DEF Behind
      <4>1. watermark = 0 \/ \E r \in rows : r.createdAt = watermark
        BY <1>2 DEF Faithful, Loop
      <4>2. watermark \in Nat
        BY <1>2 DEF Faithful, Loop, Shows
      <4>3. PICK r \in rows : r.createdAt = watermark
        BY <1>1, <4>1, <4>2
      <4> QED BY <1>1, <2>2, <2>3, <4>2, <4>3
    <3> QED BY <1>1, <3>1, <3>2 DEF PassedArePrinted
  <2>6. DrainIsWhole'
    <3> SUFFICES ASSUME NEW r \in Selected', r.id \notin late'
                 PROVE  \/ Collects(poll.collected, r) \/ r \in PageFrom'
                        \/ r.id \notin due /\ NotOlder(poll.collected, r)
      BY DEF DrainIsWhole, Collects, NotOlder
    <3>0. Selected \subseteq Selected'
      BY <1>1 DEF Selected, Behind
    <3>1. CASE r \in Selected
      <4>1. r.id \notin late
        BY <2>2
      <4>2. r \in PageFrom => r \in PageFrom'
        <5>1. kind = "audit" => (r \in PageFrom => r \in PageFrom')
          BY <3>0 DEF PageFrom
        <5>2. CASE kind # "audit"
          <6> SUFFICES ASSUME Rank(r) >= poll.pages * Limit
                       PROVE  Rank(r)' >= poll.pages * Limit
            BY <5>2, <3>0, <3>1 DEF PageFrom
          <6> DEFINE A == {s \in Selected : Before(r, s)}
                     B == {s \in Selected' : Before(r, s)}
          <6>1. A \subseteq B /\ Rank(r) = Cardinality(A) /\ Rank(r)' = Cardinality(B)
            BY <3>0 DEF Rank, Before
          <6>2. IsFiniteSet(B)
            <7>1. B \subseteq rows' /\ IsFiniteSet(rows')
              BY <1>3 DEF Selected, RowTypes
            <7> HIDE DEF B
            <7> QED BY <7>1, FS_Subset
          <6> HIDE DEF A, B
          <6>3. Cardinality(A) <= Cardinality(B) /\ IsFiniteSet(A)
            BY <6>1, <6>2, FS_Subset
          <6>4. Cardinality(A) \in Nat /\ Cardinality(B) \in Nat /\ poll.pages * Limit \in Nat
            <7>1. poll.pages \in Nat /\ Limit \in Nat
              BY <1>2, TailAssumption DEF PollTypes
            <7> QED BY <6>2, <6>3, <7>1, FS_CardinalityType
          <6> QED BY <6>1, <6>3, <6>4
        <5> QED BY <5>1, <5>2
      <4> QED BY <2>1, <3>1, <4>1, <4>2 DEF DrainIsWhole
    <3>2. CASE r \notin Selected
      <4>1. r = new
        BY <1>1, <3>2 DEF Selected, Behind
      <4>2. r.id \notin due
        BY <1>1, <2>1, <4>1 DEF LateKnown, Ids
      <4>3. NotOlder(poll.collected, r)
        <5> SUFFICES ASSUME NEW c \in poll.collected PROVE c.createdAt <= t
          BY <1>1, <4>1 DEF NotOlder
        <5>1. PICK q \in rows : q.createdAt = c.createdAt
          BY <1>2 DEF PollTypes, IsCollected, HasRow
        <5>2. q.createdAt \in Nat /\ ~(q.createdAt > t)
          BY <1>1, <1>2, <2>2, <4>1 DEF RowTypes
        <5> QED BY <1>1, <5>1, <5>2
      <4> QED BY <4>2, <4>3
    <3> QED BY <3>1, <3>2
  <2> QED BY <2>4, <2>5, <2>6
<1> QED BY <1>3, <1>4, <1>5 DEF TailInvariant

LEMMA MoveStatusKeeps == TailInvariant /\ MoveStatus => TailInvariant'
<1> SUFFICES ASSUME TailInvariant, NEW r \in rows, kind = "failed",
                    rows' = (rows \ {r}) \cup {[r EXCEPT !.inStatus = ~@]},
                    UNCHANGED <<kind, watermark, seen, poll, printed>>
             PROVE  TailInvariant'
  BY DEF MoveStatus
<1> DEFINE q == [r EXCEPT !.inStatus = ~@]
<1>1. RowTypes /\ Faithful(Loop) /\ PollTypes
  BY DEF TailInvariant
<1>2. rows' = (rows \ {r}) \cup {q}
  OBVIOUS
<1>3. q.id = r.id /\ q.createdAt = r.createdAt /\ q.inStatus \in BOOLEAN
  BY <1>1 DEF RowTypes
<1> HIDE DEF q
<1>4. RowTypes'
  <2>1. IsFiniteSet(rows')
    <3>1. IsFiniteSet(rows \ {r})
      BY <1>1, FS_RemoveElement DEF RowTypes
    <3> QED BY <1>2, <3>1, FS_AddElement
  <2>2. \A p \in rows' : p.id \in RowIds /\ p.createdAt \in Nat \ {0} /\ p.inStatus \in BOOLEAN
    BY <1>1, <1>2, <1>3 DEF RowTypes
  <2>3. \A p, s \in rows' : p.id = s.id => p = s
    BY <1>1, <1>2, <1>3 DEF RowTypes
  <2> QED BY <2>1, <2>2, <2>3 DEF RowTypes
<1>5. \A p \in rows : \E s \in rows' : s.id = p.id /\ s.createdAt = p.createdAt
  BY <1>2, <1>3
<1>6. Faithful(Loop)' /\ PollTypes'
  BY <1>1, <1>5, RowsStay
<1>7. NoneLost'
  BY DEF NoneLost
<1> QED BY <1>4, <1>6, <1>7 DEF TailInvariant

(* The rows in hand after a page.                                          *)
LEMMA CollectedIs ==
  ASSUME RowTypes, PollTypes, watermark \in Nat
  PROVE  /\ IsCollected(Collected)
         /\ \A r \in Page : \E c \in Collected : c.id = r.id /\ c.createdAt = r.createdAt
         /\ poll.collected \subseteq Collected
         /\ \A c \in Collected : \/ c \in poll.collected
                                 \/ \E r \in Page : c.id = r.id /\ c.createdAt = r.createdAt
<1> DEFINE f == [r \in Page |-> [id |-> r.id, createdAt |-> r.createdAt, page |-> poll.pages]]
           T == {[id |-> r.id, createdAt |-> r.createdAt, page |-> poll.pages] : r \in Page}
<1>1. Page \subseteq Selected /\ Page \subseteq rows /\ IsFiniteSet(Page)
  BY PageIs
<1>2. f \in Surjection(Page, T)
  BY DEF Surjection
<1>3. IsFiniteSet(T)
  <2> HIDE DEF f, T
  <2> QED BY <1>1, <1>2, FS_Surjection
<1>4. Collected = poll.collected \cup T
  BY DEF Collected
<1>5. \A c \in T : \E r \in Page : c = [id |-> r.id, createdAt |-> r.createdAt, page |-> poll.pages]
  OBVIOUS
<1>6. ASSUME NEW r \in Page PROVE \E c \in T : c.id = r.id /\ c.createdAt = r.createdAt
  <2> WITNESS [id |-> r.id, createdAt |-> r.createdAt, page |-> poll.pages] \in T
  <2> QED OBVIOUS
<1> HIDE DEF T, f
<1>7. IsFiniteSet(Collected)
  BY <1>3, <1>4, FS_Union DEF PollTypes, IsCollected
<1>8. \A r \in Page : r.id \in RowIds /\ r.createdAt \in Nat /\ r.createdAt >= watermark
  <2>1. \A r \in rows : r.id \in RowIds /\ r.createdAt \in Nat
    BY DEF RowTypes
  <2>2. \A r \in Selected : r.createdAt > watermark \/ r.createdAt = watermark \/ watermark = 0
    BY <1>1, <2>1 DEF Selected, Behind
  <2> QED BY <1>1, <2>1, <2>2
<1>9. Collected \subseteq [id : RowIds, createdAt : Nat, page : Nat]
  <2>1. T \subseteq [id : RowIds, createdAt : Nat, page : Nat]
    BY <1>5, <1>8 DEF PollTypes
  <2> QED BY <1>4, <2>1 DEF PollTypes, IsCollected
<1>10. \A c \in T : HasRow(c.id, c.createdAt) /\ c.createdAt >= watermark
  BY <1>1, <1>5, <1>8 DEF HasRow
<1>11. \A c \in Collected : HasRow(c.id, c.createdAt) /\ c.createdAt >= watermark
  BY <1>4, <1>10 DEF PollTypes, IsCollected
<1>12. \A c \in T : \E r \in Page : c.id = r.id /\ c.createdAt = r.createdAt
  BY <1>5
<1> QED BY <1>4, <1>6, <1>7, <1>9, <1>11, <1>12 DEF IsCollected

(* A page collects a row, leaves it to the pages to come, or the row is    *)
(* one the drain need not have.                                            *)
LEMMA PageReaches ==
  ASSUME TailInvariant, kind # "failed", NEW r \in Selected, r.id \notin late
  PROVE  \/ Collects(Collected, r) \/ r \in PageFrom \ Page
         \/ r.id \notin Due /\ NotOlder(Collected, r)
<1>1. RowTypes /\ Faithful(Loop) /\ PollTypes /\ DrainIsWhole
  BY DEF TailInvariant, NoneLost
<1>2. watermark \in Nat
  BY <1>1 DEF Faithful, Loop, Shows
<1>3. /\ \A q \in Page : \E c \in Collected : c.id = q.id /\ c.createdAt = q.createdAt
      /\ poll.collected \subseteq Collected
      /\ \A c \in Collected : \/ c \in poll.collected
                              \/ \E q \in Page : c.id = q.id /\ c.createdAt = q.createdAt
  BY <1>1, <1>2, CollectedIs
<1>4. Page \subseteq PageFrom /\ PageFrom \subseteq Selected /\ Selected \subseteq rows
  BY <1>1, PageIs
<1>5. \A q \in rows : q.id \in Nat /\ q.createdAt \in Nat
  BY <1>1, TailAssumption DEF RowTypes
<1>6. CASE r \in PageFrom
  BY <1>3, <1>6 DEF Collects
<1>7. CASE Collects(poll.collected, r)
  BY <1>3, <1>7 DEF Collects
<1>8. CASE r \notin PageFrom /\ r.id \notin due /\ NotOlder(poll.collected, r)
  <2>1. poll.pages # 0
    <3> SUFFICES ASSUME poll.pages = 0 PROVE FALSE
      OBVIOUS
    <3>1. kind # "audit" /\ ~(Rank(r) >= 0 * Limit)
      BY <1>8 DEF PageFrom
    <3>2. Rank(r) \in Nat /\ Limit \in Nat
      BY <1>1, <3>1, OffsetIs, TailAssumption DEF PollTypes
    <3> QED BY <3>1, <3>2
  <2>2. Due = due
    BY <2>1 DEF Due
  <2>3. ASSUME NEW q \in Page PROVE q.createdAt <= r.createdAt
    <3>1. CASE kind = "audit"
      <4>1. Before(q, poll.last)
        BY <1>4, <2>1, <3>1 DEF PageFrom
      <4>2. PICK c \in poll.collected : c.createdAt = poll.last.createdAt
        BY <1>1, <2>1 DEF PollTypes
      <4>3. poll.last.createdAt <= r.createdAt
        BY <1>8, <4>2 DEF NotOlder
      <4>4. poll.last.createdAt \in Nat /\ q.createdAt \in Nat /\ r.createdAt \in Nat
        BY <1>1, <1>4, <1>5 DEF PollTypes
      <4> QED BY <4>1, <4>3, <4>4 DEF Before
    <3>2. CASE kind # "audit"
      <4>1. Rank(q) >= poll.pages * Limit /\ ~(Rank(r) >= poll.pages * Limit)
        BY <1>4, <1>8, <3>2 DEF PageFrom
      <4>2. Rank(q) \in Nat /\ Rank(r) \in Nat /\ (Rank(r) < Rank(q) => Before(q, r))
        BY <1>1, <1>4, <3>2, OffsetIs DEF PollTypes
      <4>3. poll.pages * Limit \in Nat
        <5>1. poll.pages \in Nat /\ Limit \in Nat
          BY <1>1, TailAssumption DEF PollTypes
        <5> QED BY <5>1
      <4>4. Before(q, r)
        BY <4>1, <4>2, <4>3
      <4>5. q.createdAt \in Nat /\ r.createdAt \in Nat
        BY <1>4, <1>5
      <4> QED BY <4>4, <4>5 DEF Before
    <3> QED BY <3>1, <3>2
  <2>4. NotOlder(Collected, r)
    BY <1>3, <1>8, <2>3 DEF NotOlder
  <2> QED BY <1>8, <2>2, <2>4
<1> QED BY <1>1, <1>6, <1>7, <1>8 DEF DrainIsWhole

LEMMA DueAreRows ==
  ASSUME LateKnown, kind # "failed"
  PROVE  Due \subseteq Ids(rows)
BY DEF Due, LateKnown, Ids

LEMMA ReadPageKeeps == TailInvariant /\ ReadPage => TailInvariant'
<1> SUFFICES ASSUME TailInvariant, ReadPage PROVE TailInvariant'
  OBVIOUS
<1> DEFINE last == CHOOSE r \in Page : \A s \in Page : r = s \/ Before(r, s)
<1>1. /\ More /\ due' = Due
      /\ poll'.pages = poll.pages + 1 /\ poll'.collected = Collected /\ poll'.last = last
      /\ UNCHANGED <<kind, rows, watermark, seen, printed, late, skipped>>
  BY DEF ReadPage
<1>2. RowTypes /\ Faithful(Loop) /\ PollTypes /\ NoneLost
  BY DEF TailInvariant
<1>3. watermark \in Nat
  BY <1>2 DEF Faithful, Loop, Shows
<1>4. Page # {}
  <2>1. CASE kind = "audit"
    BY <1>1, <1>2, <2>1, PageIs DEF More
  <2>2. CASE kind # "audit"
    <3>1. Cardinality(Page) = Limit
      BY <1>1, <2>2 DEF More
    <3> QED BY <3>1, FS_EmptySet, TailAssumption
  <2> QED BY <2>1, <2>2
<1>5. last \in Page /\ \A s \in Page : last = s \/ Before(last, s)
  BY <1>2, <1>4, OldestIs
<1> HIDE DEF last
<1>6. Page \subseteq PageFrom /\ PageFrom \subseteq Selected /\ Selected \subseteq rows
      /\ \A r \in PageFrom \ Page, s \in Page : Before(r, s)
  BY <1>2, PageIs
<1>7. RowTypes' /\ Faithful(Loop)'
  BY <1>1, <1>2 DEF RowTypes, Faithful, Loop, HasRow
<1>8. PollTypes'
  <2>1. /\ IsCollected(Collected)
        /\ \A q \in Page : \E c \in Collected : c.id = q.id /\ c.createdAt = q.createdAt
    BY <1>2, <1>3, CollectedIs
  <2>2. IsCollected(poll.collected)'
    BY <1>1, <2>1 DEF IsCollected, HasRow
  <2>3. last.id \in Nat /\ last.createdAt \in Nat
    BY <1>2, <1>5, <1>6, TailAssumption DEF RowTypes
  <2>4. \E c \in Collected : c.createdAt = last.createdAt
    BY <1>5, <2>1
  <2>5. poll.pages + 1 \in Nat /\ poll.pages + 1 # 0
    BY <1>2 DEF PollTypes
  <2> QED BY <1>1, <1>2, <2>2, <2>3, <2>4, <2>5 DEF PollTypes
<1>9. NoneLost'
  <2> SUFFICES ASSUME kind # "failed" PROVE LateKnown' /\ PassedArePrinted' /\ DrainIsWhole'
    BY <1>1 DEF NoneLost
  <2>1. LateKnown /\ PassedArePrinted /\ DrainIsWhole
    BY <1>2 DEF NoneLost
  <2>2. LateKnown'
    <3>1. due' \subseteq Ids(rows)
      BY <1>1, <2>1, DueAreRows
    <3> QED BY <1>1, <2>1, <3>1 DEF LateKnown, Ids
  <2>3. PassedArePrinted'
    BY <1>1, <2>1 DEF PassedArePrinted, Behind
  <2>4. DrainIsWhole'
    <3>0. Selected' = Selected
      BY <1>1 DEF Selected, Behind
    <3> SUFFICES ASSUME NEW r \in Selected, r.id \notin late
                 PROVE  \/ Collects(Collected, r) \/ r \in PageFrom'
                        \/ r.id \notin Due /\ NotOlder(Collected, r)
      BY <1>1, <3>0 DEF DrainIsWhole, Collects, NotOlder
    <3>1. \/ Collects(Collected, r) \/ r \in PageFrom \ Page
          \/ r.id \notin Due /\ NotOlder(Collected, r)
      BY PageReaches
    <3>2. CASE r \in PageFrom \ Page
      <4>1. CASE kind = "audit"
        <5>1. Before(r, last)
          BY <1>5, <1>6, <3>2
        <5> QED BY <1>1, <3>0, <4>1, <5>1 DEF PageFrom, Before
      <4>2. CASE kind # "audit"
        <5>1. Rank(r) >= (poll.pages + 1) * Limit
          BY <1>2, <3>2, <4>2, OffsetIs DEF PollTypes
        <5>2. Rank(r)' = Rank(r)
          BY <3>0 DEF Rank, Before
        <5> QED BY <1>1, <3>0, <4>2, <5>1, <5>2 DEF PageFrom
      <4> QED BY <4>1, <4>2
    <3> QED BY <3>1, <3>2
  <2> QED BY <2>2, <2>3, <2>4
<1> QED BY <1>7, <1>8, <1>9 DEF TailInvariant

LEMMA EndPollKeeps == TailInvariant /\ EndPoll => TailInvariant'
<1> SUFFICES ASSUME TailInvariant, EndPoll PROVE TailInvariant'
  OBVIOUS
<1>1. PICK e : e = Shown(Collected)
  OBVIOUS
<1> DEFINE missed == {i \in Ids(rows) : ~Has(e.out, i)}
<1>2. missed = {i \in Ids(rows) : \A n \in 1..Len(e.out) : e.out[n] # i}
  BY DEF Has
<1>3. /\ watermark' = e.mark /\ seen' = e.seen /\ printed' = e.out
      /\ poll' = NoPoll /\ due' = {} /\ UNCHANGED <<kind, rows>>
      /\ IF More
         THEN /\ late' = late \cup Ids({r \in rows : r.id \in missed /\ Behind(r, e.mark)})
              /\ skipped' = skipped
         ELSE skipped' = skipped \cup (Due \cap missed) /\ late' = late
  BY <1>1, <1>2 DEF EndPoll
<1>4. RowTypes /\ Faithful(Loop) /\ PollTypes /\ NoneLost
  BY DEF TailInvariant
<1>5. watermark \in Nat
  BY <1>4 DEF Faithful, Loop, Shows
<1>6. IsCollected(Collected)
  BY <1>4, <1>5, CollectedIs
<1>7. ShownAll(e, Collected)
  BY <1>1, <1>4, <1>6, ShownEnds
<1>8. e \in Shows /\ e = [out |-> e.out, mark |-> e.mark, seen |-> e.seen] /\ e.mark \in Nat
  BY <1>7 DEF ShownAll, Faithful, Shows
<1>9. RowTypes'
  BY <1>3, <1>4 DEF RowTypes
<1>10. Faithful(Loop)'
  <2>1. Loop' = e
    BY <1>3, <1>8 DEF Loop
  <2>2. Faithful(e)'
    BY <1>3, <1>7 DEF ShownAll, Faithful, HasRow
  <2> QED BY <2>1, <2>2 DEF Faithful, HasRow
<1>11. PollTypes'
  <2>1. poll'.pages = 0 /\ poll'.collected = {} /\ poll'.last.id = 0 /\ poll'.last.createdAt = 0
    BY <1>3 DEF NoPoll, NoRow
  <2>2. IsCollected({})'
    BY FS_EmptySet DEF IsCollected
  <2> QED BY <1>3, <1>4, <2>1, <2>2 DEF PollTypes, IsCollected
<1>12. NoneLost'
  <2> SUFFICES ASSUME kind # "failed" PROVE LateKnown' /\ PassedArePrinted' /\ DrainIsWhole'
    BY <1>3 DEF NoneLost
  <2>1. LateKnown /\ PassedArePrinted /\ DrainIsWhole
    BY <1>4 DEF NoneLost
  <2>2. late \subseteq late'
    BY <1>3
  <2>3. \A r \in rows : r.createdAt \in Nat \ {0} /\ r.id \in Ids(rows) /\ r.inStatus
    BY <1>4, <2>1 DEF RowTypes, LateKnown, Ids
  <2>4. \A i : Has(e.out, i) <=> Has(printed, i) \/ \E c \in Collected : c.id = i
    BY <1>7 DEF ShownAll
  <2>5. ~More => PageFrom \ Page = {}
    <3>1. PageFrom # Page => Cardinality(Page) = Limit
      BY <1>4, PageIs
    <3> QED BY <3>1 DEF More
  <2>6. \A r \in rows : r \in Selected <=> watermark = 0 \/ ~Behind(r, watermark)
    BY <2>3 DEF Selected, Behind
  \* What a poll that reads its last page leaves out.
  <2>7. ASSUME ~More, NEW r \in rows, r.id \notin late, ~Has(e.out, r.id)
        PROVE  r \in Selected /\ r.id \notin Due /\ NotOlder(Collected, r)
    <3>1. r \in Selected
      BY <2>1, <2>4, <2>6, <2>7 DEF PassedArePrinted
    <3>2. ~Collects(Collected, r)
      BY <2>4, <2>7 DEF Collects
    <3> QED BY <2>5, <2>7, <3>1, <3>2, PageReaches
  <2>8. LateKnown'
    <3>1. skipped' \subseteq late'
      <4>1. CASE More
        BY <1>3, <2>1, <4>1 DEF LateKnown
      <4>2. CASE ~More
        <5> SUFFICES ASSUME NEW i \in Due, i \in missed, i \notin late PROVE FALSE
          BY <1>3, <2>1, <4>2 DEF LateKnown
        <5>1. PICK r \in rows : r.id = i
          BY DEF Ids
        <5>2. i \notin Due
          BY <2>7, <4>2, <5>1
        <5> QED BY <5>2
      <4> QED BY <4>1, <4>2
    <3> QED BY <1>3, <2>1, <2>2, <3>1 DEF LateKnown
  <2>9. PassedArePrinted'
    <3> SUFFICES ASSUME NEW r \in rows, r.id \notin late', ~Has(e.out, r.id),
                        Behind(r, e.mark)
                 PROVE  FALSE
      BY <1>3 DEF PassedArePrinted, Behind
    <3>0. Behind(r, e.mark)
      OBVIOUS
    <3>1. kind # "audit" => kind = "dispatches"
      BY <1>4 DEF PollTypes, Kinds
    <3>2. ~More
      <4> SUFFICES ASSUME More PROVE FALSE
        OBVIOUS
      <4>1. r \in {q \in rows : q.id \in missed /\ Behind(q, e.mark)}
        BY <2>3, <3>0
      <4> HIDE DEF missed
      <4>2. r.id \in Ids({q \in rows : q.id \in missed /\ Behind(q, e.mark)})
        BY <4>1 DEF Ids
      <4> QED BY <1>3, <4>2
    <3>3. r.id \notin late /\ r \in Selected /\ NotOlder(Collected, r)
      BY <2>2, <2>7, <3>2
    <3>4. r.createdAt > watermark \/ (kind = "audit" /\ r.createdAt = watermark)
      BY <1>5, <2>3, <3>3 DEF Selected, Behind
    <3>5. e.mark # watermark
      BY <1>5, <2>3, <3>0, <3>4 DEF Behind
    <3>6. PICK c \in Collected : c.createdAt = e.mark
      BY <1>7, <3>5 DEF ShownAll
    <3>7. e.mark <= r.createdAt
      BY <3>3, <3>6 DEF NotOlder
    <3>8. kind = "dispatches" /\ r.createdAt = e.mark
      BY <1>8, <2>3, <3>0, <3>1, <3>7 DEF Behind
    <3>9. PICK q \in rows : q.id = c.id /\ q.createdAt = c.createdAt
      BY <1>6 DEF IsCollected, HasRow
    <3>10. q # r
      BY <2>4, <3>9
    <3> QED BY <2>1, <3>3, <3>6, <3>8, <3>9, <3>10 DEF LateKnown
  <2>10. DrainIsWhole'
    <3> SUFFICES ASSUME NEW r \in Selected' PROVE r \in PageFrom'
      BY DEF DrainIsWhole
    <3>1. poll'.pages = 0
      BY <1>3 DEF NoPoll
    <3>2. CASE kind' = "audit"
      BY <3>1, <3>2 DEF PageFrom
    <3>3. CASE kind' # "audit"
      <4>1. Rank(r)' \in Nat
        <5> DEFINE A == {s \in Selected' : Before(r, s)}
        <5>1. A \subseteq rows' /\ IsFiniteSet(rows')
          BY <1>9 DEF Selected, RowTypes
        <5>2. Rank(r)' = Cardinality(A)
          BY DEF Rank, Before
        <5> HIDE DEF A
        <5> QED BY <5>1, <5>2, FS_Subset, FS_CardinalityType
      <4>2. poll'.pages * Limit = 0
        BY <3>1, TailAssumption
      <4> QED BY <3>3, <4>1, <4>2 DEF PageFrom
    <3> QED BY <3>2, <3>3
  <2> QED BY <2>8, <2>9, <2>10
<1> QED BY <1>9, <1>10, <1>11, <1>12 DEF TailInvariant

LEMMA TailStep == TailInvariant /\ [TailNext]_tailVars => TailInvariant'
<1> SUFFICES ASSUME TailInvariant, [TailNext]_tailVars PROVE TailInvariant'
  OBVIOUS
<1>1. CASE Commit
  BY <1>1, TailCommitKeeps
<1>2. CASE MoveStatus
  BY <1>2, MoveStatusKeeps
<1>3. CASE ReadPage
  BY <1>3, ReadPageKeeps
<1>4. CASE EndPoll
  BY <1>4, EndPollKeeps
<1>5. CASE UNCHANGED tailVars
  <2>1. UNCHANGED <<kind, rows, watermark, seen, poll, printed, late, due, skipped>>
    BY <1>5 DEF tailVars
  <2>2. RowTypes' /\ Faithful(Loop)' /\ PollTypes'
    BY <2>1 DEF TailInvariant, RowTypes, Faithful, Loop, HasRow, PollTypes, IsCollected
  <2>3. Selected' = Selected
    BY <2>1 DEF Selected, Behind
  <2>4. PageFrom' = PageFrom
    BY <2>1, <2>3 DEF PageFrom, Rank, Before
  <2>5. NoneLost'
    BY <2>1, <2>3, <2>4 DEF TailInvariant, NoneLost, LateKnown, PassedArePrinted, DrainIsWhole,
                            Behind, Collects, NotOlder, Ids
  <2> QED BY <2>2, <2>5 DEF TailInvariant
<1> QED BY <1>1, <1>2, <1>3, <1>4, <1>5 DEF TailNext

THEOREM TailInvariantHolds == TailSpec => []TailInvariant
<1> QED BY TailStart, TailStep, PTL DEF TailSpec

(* For any rows, page size and cap, whatever is committed between two      *)
(* pages of runAuditTailLoop or runWebhookTailLoop, a poll prints every    *)
(* row it has to, and none is printed twice.                               *)
THEOREM TailIsAlwaysComplete == TailSpec => []TailIsComplete
<1>1. TailInvariant => TailIsComplete
  BY DEF TailInvariant, Faithful, Loop, NoneLost, LateKnown, TailIsComplete, PrintedOnce,
         NothingSkipped
<1> QED BY <1>1, TailInvariantHolds, PTL
=============================================================================
