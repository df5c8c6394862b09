------------------------------- MODULE MCEdges -------------------------------
(* Instances of thirteen small modules  for TLC, which share nothing: a    *)
(* behaviour is one of the part it starts in, the others stand still.      *)
EXTENDS AuditTrail, SigningKeys, RequestCapture, RateLimit, ChatLock, ChatQueue, ChatList, Tail,
        Migrations, PolicyPacks, PolicyEngine, EmailChannel, OperatorQueue, TLC

CONSTANTS w1, w2, e1, e2, k1, k2, s0, s1, s2, s3, x1, x2, x3, b1, b2, b3

VARIABLE part

Two       == {w1, w2}
TwoEvents == {e1, e2}
TwoKeys   == {k1, k2}
FourKeys  == {s0, s1, s2, s3}
ThreeIds  == {s1, s2, s3}

(* The first delivery is older than the others, the third has no key.       *)
ThreeMessages   == {x1, x2, x3}
TwoKeyed        == {x1, x2}
NoneKeyed       == {}
FirstIsOlder(m) == IF m = x1 THEN 1 ELSE 2

(* One clock behind the database's, one with it, one ahead.                 *)
Three     == {b1, b2, b3}
Skews(b)  == IF b = b1 THEN 0 - 1 ELSE IF b = b2 THEN 0 ELSE 1

(* Two instances of the newest release and one of an older.                 *)
Releases(i) == IF i = b1 THEN 1 ELSE 3

(* The launch catalogue has the first version of one jurisdiction.          *)
LaunchPacks == {[jurisdiction |-> "uk", name |-> "launch", version |-> 1]}

(* Rules of equal and of different precedence; the last matches nobody.     *)
SomeRules ==
  {[id |-> 1, precedence |-> 2, when |-> [requestType |-> {"access", "delete"}],
    apply |-> [responseDeadlineDays |-> 5]],
   [id |-> 2, precedence |-> 2, when |-> <<>>,
    apply |-> [responseDeadlineDays |-> 7, verificationEffect |-> "no_stop_clock"]],
   [id |-> 3, precedence |-> 3, when |-> [isComplex |-> {TRUE}],
    apply |-> [verificationEffect |-> "stop_clock", clarificationEffect |-> "no_stop_clock"]],
   [id |-> 4, precedence |-> 9, when |-> [requestType |-> {"access"}, isComplex |-> {FALSE}],
    apply |-> [clarificationEffect |-> "no_stop_clock"]]}
SomeAsks == {2, 0 - 1}
OneContext == {[requestType |-> "access", isComplex |-> TRUE]}
TwoClocks ==
  {[responseDeadlineDays |-> 3, verificationEffect |-> "stop_clock",
    clarificationEffect |-> "stop_clock", enabled |-> b, maxAdditionalDays |-> 3] : b \in BOOLEAN}

(* One request to be confirmed, of either type that gives something of an  *)
(* account out, and one that was confirmed elsewhere.                      *)
TwoRequests      == {b1, b2}
SomeTypes(r)     == IF r = b1 THEN {"access", "correct"} ELSE {"delete"}
AsOpened(r)      == IF r = b1 THEN "verification_pending" ELSE "in_progress"

Symmetric == Permutations(Two) \cup Permutations({s2, s3})

Parts == {"audit", "keys", "capture", "rate", "lock", "queue", "list", "tail", "migrations",
         "packs", "engine", "mail", "operator"}

EdgesInit ==
  /\ AuditInit /\ KeysInit /\ CaptureInit /\ RateInit /\ LockInit /\ QueueInit /\ ListInit
  /\ TailInit /\ MigrationsInit /\ PacksInit /\ EngineInit /\ MailInit
  /\ OperatorInit
  /\ part \in Parts
  /\ part # "rate" => shared
  /\ part # "queue" => serial
  /\ part # "list" => oneWriter
  /\ part # "tail" => kind = "audit"
  /\ part # "migrations" => locking /\ schema = {}
  /\ part # "engine" => base.enabled
  /\ part # "operator" => type[b1] = "access"

EdgesNext ==
  \/ /\ part = "audit" /\ AuditNext
     /\ UNCHANGED <<part, keyVars, captureVars, rateVars, lockVars, queueVars, listVars,
                    tailVars, migrationVars, packVars, engineVars, mailVars, operatorVars>>
  \/ /\ part = "keys" /\ KeysNext
     /\ UNCHANGED <<part, auditVars, captureVars, rateVars, lockVars, queueVars, listVars,
                    tailVars, migrationVars, packVars, engineVars, mailVars, operatorVars>>
  \/ /\ part = "capture" /\ CaptureNext
     /\ UNCHANGED <<part, auditVars, keyVars, rateVars, lockVars, queueVars, listVars,
                    tailVars, migrationVars, packVars, engineVars, mailVars, operatorVars>>
  \/ /\ part = "rate" /\ RateNext
     /\ UNCHANGED <<part, auditVars, keyVars, captureVars, lockVars, queueVars, listVars,
                    tailVars, migrationVars, packVars, engineVars, mailVars, operatorVars>>
  \/ /\ part = "lock" /\ LockNext
     /\ UNCHANGED <<part, auditVars, keyVars, captureVars, rateVars, queueVars, listVars,
                    tailVars, migrationVars, packVars, engineVars, mailVars, operatorVars>>
  \/ /\ part = "queue" /\ QueueNext
     /\ UNCHANGED <<part, auditVars, keyVars, captureVars, rateVars, lockVars, listVars,
                    tailVars, migrationVars, packVars, engineVars, mailVars, operatorVars>>
  \/ /\ part = "list" /\ ListNext
     /\ UNCHANGED <<part, auditVars, keyVars, captureVars, rateVars, lockVars, queueVars,
                    tailVars, migrationVars, packVars, engineVars, mailVars, operatorVars>>
  \/ /\ part = "tail" /\ TailNext
     /\ UNCHANGED <<part, auditVars, keyVars, captureVars, rateVars, lockVars, queueVars,
                    listVars, migrationVars, packVars, engineVars, mailVars, operatorVars>>
  \/ /\ part = "migrations" /\ MigrationsNext
     /\ UNCHANGED <<part, auditVars, keyVars, captureVars, rateVars, lockVars, queueVars,
                    listVars, tailVars, packVars, engineVars, mailVars, operatorVars>>
  \/ /\ part = "packs" /\ PacksNext
     /\ UNCHANGED <<part, auditVars, keyVars, captureVars, rateVars, lockVars, queueVars,
                    listVars, tailVars, migrationVars, engineVars, mailVars, operatorVars>>
  \/ /\ part = "engine" /\ EngineNext
     /\ UNCHANGED <<part, auditVars, keyVars, captureVars, rateVars, lockVars, queueVars,
                    listVars, tailVars, migrationVars, packVars, mailVars, operatorVars>>
  \/ /\ part = "mail" /\ MailNext
     /\ UNCHANGED <<part, auditVars, keyVars, captureVars, rateVars, lockVars, queueVars,
                    listVars, tailVars, migrationVars, packVars, engineVars, operatorVars>>
  \/ /\ part = "operator" /\ OperatorNext
     /\ UNCHANGED <<part, auditVars, keyVars, captureVars, rateVars, lockVars, queueVars,
                    listVars, tailVars, migrationVars, packVars, engineVars, mailVars>>

EdgesSpec ==
  EdgesInit /\ [][EdgesNext]_<<part, auditVars, keyVars, captureVars, rateVars, lockVars,
                               queueVars, listVars, tailVars, migrationVars, packVars,
                               engineVars, mailVars, operatorVars>>
=============================================================================
