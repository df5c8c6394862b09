----------------------------- MODULE SigningKeys -----------------------------
(***************************************************************************)
(* The signing keys of one webhook endpoint: the rotate-key route          *)
(* (routes/webhooks/rotate-key.ts) over the transactions of                *)
(* webhookEndpoints (persistence.ts). The rotation is committed before its *)
(* audit event is appended; when that fails it is taken back, by which     *)
(* time another call may have rotated again.                               *)
(***************************************************************************)
EXTENDS Naturals, FiniteSets

CONSTANTS
  Rotators,      \* rotate-key calls being served at the same time
  KeyIds,        \* ids of webhook_signing_keys rows
  Configured,    \* the key ensureConfigured inserts from the configuration
  Graces,        \* grace periods callers ask for, in days
  MaxDays,       \* bound: days that pass
  MaxKeyFaults,  \* bound: statements that fail, processes that die
  NoKey

ASSUME KeysAssumption ==
  /\ Configured \in KeyIds /\ NoKey \notin KeyIds
  /\ Graces \subseteq Nat /\ MaxDays \in Nat /\ MaxKeyFaults \in Nat

VARIABLES
  keys,        \* webhook_signing_keys: role and expires_at (NoExpiry: null)
  keyPc,       \* the statement each rotator executes next
  rotation,    \* its new key, the primary it replaced and that one's expiry
  day,
  keyFaults,   \* bounded counter
  known,       \* history: keys whose secret a caller was answered
  promised,    \* history: previous keys with the expiry a caller was answered
  overtaken,   \* history: a failed rotation found its key rotated away
  orphaned     \* history: a committed rotation was neither answered nor undone

keyVars == <<keys, keyPc, rotation, day, keyFaults, known, promised, overtaken, orphaned>>

NoExpiry   == MaxDays + 1000
Absent     == [role |-> "absent", expires |-> NoExpiry]
Secondary(expires) == [role |-> "secondary", expires |-> expires]
TheKey     == [role |-> "primary", expires |-> NoExpiry]
NoRotation == [key |-> NoKey, prev |-> NoKey, until |-> 0]

Primaries == {k \in KeyIds : keys[k].role = "primary"}

(* listActiveKeys.                                                         *)
Active(k) ==
  \/ keys[k].role = "primary"
  \/ keys[k].role = "secondary" /\ keys[k].expires > day

(* ensureConfigured has inserted the configured key; afterwards it finds   *)
(* its row and does nothing.                                               *)
KeysInit ==
  /\ keys = [k \in KeyIds |-> IF k = Configured THEN TheKey ELSE Absent]
  /\ keyPc = [r \in Rotators |-> "idle"]
  /\ rotation = [r \in Rotators |-> NoRotation]
  /\ day = 0 /\ keyFaults = 0
  /\ known = {Configured} /\ promised = {} /\ overtaken = FALSE /\ orphaned = FALSE

KeyGoto(r, label) == keyPc' = [keyPc EXCEPT ![r] = label]
KeyEnd(r) == KeyGoto(r, "idle") /\ rotation' = [rotation EXCEPT ![r] = NoRotation]
KeyFault == keyFaults < MaxKeyFaults /\ keyFaults' = keyFaults + 1

(* Ids are made by makeRequestId: no two rotations have the same.          *)
Unused(k) == keys[k] = Absent /\ k \notin known /\ \A r \in Rotators : rotation[r].key # k

(* rotateSigningKey, one transaction that holds the endpoint's row.        *)
Rotate(r) ==
  \E k \in KeyIds, grace \in Graces, prev \in Primaries :
    /\ keyPc[r] = "idle" /\ Unused(k)
    /\ keys' = [keys EXCEPT ![prev] = Secondary(day + grace), ![k] = TheKey]
    /\ rotation' = [rotation EXCEPT ![r] = [key |-> k, prev |-> prev, until |-> day + grace]]
    /\ KeyGoto(r, "audit")
    /\ UNCHANGED <<day, keyFaults, known, promised, overtaken, orphaned>>

(* A mutant: a failing audit event is answered with an error only.         *)
AuditRotationOnly(r) ==
  /\ keyPc[r] = "audit"
  /\ \/ KeyGoto(r, "answer") /\ UNCHANGED <<rotation, keyFaults>>
     \/ KeyFault /\ KeyEnd(r)
  /\ UNCHANGED <<keys, day, known, promised, overtaken, orphaned>>

(* The audit event is appended, or the rotation has to be taken back.      *)
AuditRotation(r) ==
  /\ keyPc[r] = "audit"
  /\ \/ KeyGoto(r, "answer") /\ UNCHANGED keyFaults
     \/ KeyFault /\ KeyGoto(r, "undo")
  /\ UNCHANGED <<keys, rotation, day, known, promised, overtaken, orphaned>>

(* The answer holds the new secret and when the previous key expires.      *)
Answer(r) ==
  /\ keyPc[r] = "answer"
  /\ known' = known \cup {rotation[r].key}
  /\ promised' = promised \cup {[key |-> rotation[r].prev, until |-> rotation[r].until]}
  /\ KeyEnd(r)
  /\ UNCHANGED <<keys, day, keyFaults, overtaken, orphaned>>

(* A mutant: the new key is deleted whatever its role is by now.           *)
UndoneAnyway(r) ==
  [keys EXCEPT ![rotation[r].key] = Absent, ![rotation[r].prev] = TheKey]

(* rollbackSigningKeyRotation: only while the new key is still primary is  *)
(* it deleted and the previous one restored.                               *)
Undone(r) ==
  IF keys[rotation[r].key].role = "primary"
  THEN [keys EXCEPT ![rotation[r].key] = Absent, ![rotation[r].prev] = TheKey] ELSE keys

Undo(r) ==
  /\ keyPc[r] = "undo"
  /\ keys' = Undone(r)
  /\ overtaken' = (overtaken \/ keys[rotation[r].key].role # "primary")
  /\ KeyEnd(r)
  /\ UNCHANGED <<day, keyFaults, known, promised, orphaned>>

(* A failing rollback is ignored, and the process may die: the rotation    *)
(* stays and nobody has its secret.                                        *)
Orphan(r) ==
  /\ keyPc[r] # "idle" /\ KeyFault
  /\ orphaned' = TRUE
  /\ KeyEnd(r)
  /\ UNCHANGED <<keys, day, known, promised, overtaken>>

NextDay ==
  /\ day < MaxDays /\ day' = day + 1
  /\ UNCHANGED <<keys, keyPc, rotation, keyFaults, known, promised, overtaken, orphaned>>

KeysNext ==
  \/ \E r \in Rotators : Rotate(r) \/ AuditRotation(r) \/ Answer(r) \/ Undo(r) \/ Orphan(r)
  \/ NextDay

KeysSpec == KeysInit /\ [][KeysNext]_keyVars
-----------------------------------------------------------------------------
(* Properties.                                                             *)

(* Webhooks always have exactly one key to be signed with, and a key that  *)
(* was replaced verifies as long as the caller was told, whichever         *)
(* rotations fail and are taken back around it.                            *)
GraceHonoured ==
  /\ Cardinality(Primaries) = 1
  /\ \A p \in promised : day < p.until => Active(p.key)

(* When every call has ended, webhooks are signed with a key whose secret  *)
(* somebody was given - unless an unanswered rotation stayed or a failed   *)
(* one was overtaken by the next, which may be undone back to it.          *)
PrimaryIsKnown ==
  (\A r \in Rotators : keyPc[r] = "idle") /\ ~orphaned /\ ~overtaken => Primaries \subseteq known

(* Both.                                                                   *)
RotationIsSafe == GraceHonoured /\ PrimaryIsKnown
=============================================================================
