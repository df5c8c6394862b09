------------------------------ MODULE Migrations ------------------------------
(***************************************************************************)
(* The start of the persistence layer (persistence.ts, migrations.ts):     *)
(* instances of several releases, started together, read which migrations  *)
(* are recorded, apply those they miss, one transaction each, and read     *)
(* again. The PostgreSQL driver takes an advisory lock around it, unless   *)
(* told not to; SQLite has none. An instance is one session of the         *)
(* database: its lock goes when its process ends.                          *)
(***************************************************************************)
EXTENDS Naturals, FiniteSets

CONSTANTS
  Instances,
  Release(_),      \* how many migrations the registry of an instance has
  Latest,          \* of the newest release
  NotRepeatable,   \* migrations that fail where they were applied: 0004
  MaxStartFaults   \* bound: statements that fail, processes that die

ASSUME MigrationAssumption ==
  /\ Latest \in Nat /\ \A i \in Instances : Release(i) \in 1..Latest
  /\ NotRepeatable \subseteq 1..Latest /\ MaxStartFaults \in Nat

VARIABLES
  locking,     \* useMigrationLock, and the database is PostgreSQL
  lockOwner,   \* instances whose session holds the advisory lock
  schema,      \* migrations whose tables and columns are there
  recorded,    \* rows of dsar_schema_migrations
  startPc,     \* the statement each instance executes next
  todo,        \* migrations it found missing
  startFaults, \* bounded counter
  collided     \* history: instances that failed because of another

migrationVars == <<locking, lockOwner, schema, recorded, startPc, todo, startFaults, collided>>

(* A database an earlier release has left, or an empty one.                *)
MigrationsInit ==
  /\ locking \in BOOLEAN /\ lockOwner = {}
  /\ \E n \in 0..Latest - 1 : schema = 1..n /\ recorded = 1..n
  /\ startPc = [i \in Instances |-> "lock"]
  /\ todo = [i \in Instances |-> {}]
  /\ startFaults = 0 /\ collided = {}

StartGoto(i, label) == startPc' = [startPc EXCEPT ![i] = label]
Registry(i) == 1..Release(i)

(* assertAppliedMigrationsMatchRegistry: none unknown, none left out.      *)
Matches(i) ==
  /\ recorded \subseteq Registry(i)
  /\ \A m \in recorded : 1..m \subseteq recorded

(* A mutant: the lock is not waited for.                                   *)
LockFreeAnyway(i) == TRUE

LockFree(i) == lockOwner = {}
-----------------------------------------------------------------------------
BeforeMigrations(i) ==
  /\ startPc[i] = "lock" /\ (locking => LockFree(i))
  /\ lockOwner' = IF locking THEN lockOwner \cup {i} ELSE lockOwner
  /\ StartGoto(i, "read")
  /\ UNCHANGED <<locking, schema, recorded, todo, startFaults, collided>>

ReadApplied(i) ==
  /\ startPc[i] = "read"
  /\ todo' = [todo EXCEPT ![i] = Registry(i) \ recorded]
  /\ StartGoto(i, IF Matches(i) THEN "apply" ELSE "failed")
  /\ UNCHANGED <<locking, lockOwner, schema, recorded, startFaults, collided>>

(* One migration and its record, in a transaction; the record does nothing *)
(* where there is one.                                                     *)
ApplyMigration(i) ==
  \E m \in todo[i] :
    /\ startPc[i] = "apply" /\ \A n \in todo[i] : m <= n
    /\ IF m \in NotRepeatable \cap schema
       THEN /\ StartGoto(i, "failed") /\ collided' = collided \cup {i}
            /\ UNCHANGED <<schema, recorded, todo>>
       ELSE /\ schema' = schema \cup {m} /\ recorded' = recorded \cup {m}
            /\ todo' = [todo EXCEPT ![i] = @ \ {m}]
            /\ UNCHANGED <<startPc, collided>>
    /\ UNCHANGED <<locking, lockOwner, startFaults>>

(* The second reading; an instance of an older release fails on what a     *)
(* newer one has added meanwhile.                                          *)
ReadAgain(i) ==
  /\ startPc[i] = "apply" /\ todo[i] = {}
  /\ StartGoto(i, IF Matches(i) THEN "unlock" ELSE "failed")
  /\ collided' = IF Matches(i) THEN collided ELSE collided \cup {i}
  /\ UNCHANGED <<locking, lockOwner, schema, recorded, todo, startFaults>>

AfterMigrations(i) ==
  /\ startPc[i] = "unlock"
  /\ lockOwner' = lockOwner \ {i}
  /\ StartGoto(i, "up")
  /\ UNCHANGED <<locking, schema, recorded, todo, startFaults, collided>>

(* A statement fails, which rolls its transaction back.                    *)
StatementFails(i) ==
  /\ startPc[i] \in {"read", "apply", "unlock"} /\ startFaults < MaxStartFaults
  /\ startFaults' = startFaults + 1
  /\ StartGoto(i, "failed")
  /\ UNCHANGED <<locking, lockOwner, schema, recorded, todo, collided>>

(* The process of an instance that could not start, or that is up, ends    *)
(* and is started again.                                                   *)
StartAgain(i) ==
  /\ \/ startPc[i] = "failed"
     \/ startPc[i] = "up" /\ startFaults < MaxStartFaults
  /\ startFaults' = IF startPc[i] = "up" THEN startFaults + 1 ELSE startFaults
  /\ lockOwner' = lockOwner \ {i}
  /\ todo' = [todo EXCEPT ![i] = {}]
  /\ StartGoto(i, "lock")
  /\ UNCHANGED <<locking, schema, recorded, collided>>

MigrationsNext ==
  \E i \in Instances :
    \/ BeforeMigrations(i) \/ ReadApplied(i) \/ ApplyMigration(i) \/ ReadAgain(i)
    \/ AfterMigrations(i) \/ StatementFails(i) \/ StartAgain(i)

MigrationsSpec == MigrationsInit /\ [][MigrationsNext]_migrationVars
-----------------------------------------------------------------------------
(* Properties.                                                             *)

(* With the advisory lock no instance fails to start because another       *)
(* migrates at the same time (pg.mdx:63), whatever failed before; without  *)
(* it the schema is whole all the same, and who is up has all of it.       *)
MigrationsDoNotConflict ==
  /\ locking => collided = {}
  /\ schema = recorded
  /\ \A i \in Instances : startPc[i] = "up" => Registry(i) \subseteq schema
=============================================================================
