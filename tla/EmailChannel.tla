---------------------------- MODULE EmailChannel ----------------------------
(***************************************************************************)
(* The e-mail half of emitNotificationEvent (services/notifications/       *)
(* service.ts): attempts in the process of the handler, each recorded as a *)
(* row, through the Resend adapter (outbound-resend), which hands the      *)
(* emission's idempotency key to the provider. Unlike the webhook's there  *)
(* is no job: who emits again sends again, from attempt 1.                 *)
(***************************************************************************)
EXTENDS Naturals, FiniteSets

CONSTANTS
  Emitters,      \* handlers that emit at the same time
  Recipients,    \* requests; each has a recipient of its own
  MailKeys,      \* idempotencyKey of emissions
  MailAttempts,  \* retryMaxAttempts, 3 when no webhook is configured
  MaxEmissions,  \* bound: emissions, repeated ones included
  MaxMailFaults  \* bound: rows that are not appended, processes that die

ASSUME MailAssumption ==
  MailAttempts \in Nat /\ MaxEmissions \in Nat /\ MaxMailFaults \in Nat

VARIABLES
  mailOp,     \* what each emitter is at
  mailRows,   \* notification_delivery_attempts with channel "email"
  seenKeys,   \* keys the provider remembers
  copies,     \* e-mails it has delivered for a request and a key
  emissions, mailFaults,   \* bounded counters
  untold      \* history: request and key whose accepted e-mail no row may tell

mailVars == <<mailOp, mailRows, seenKeys, copies, emissions, mailFaults, untold>>

NoMail == [at |-> "idle", mail |-> <<>>, attempt |-> 1, result |-> "none"]
Mails  == Recipients \X MailKeys

MailInit ==
  /\ mailOp = [h \in Emitters |-> NoMail]
  /\ mailRows = {} /\ seenKeys = {} /\ copies = [m \in Mails |-> 0]
  /\ emissions = 0 /\ mailFaults = 0 /\ untold = {}

(* A mutant: every attempt has a key of its own.                           *)
ProviderKeyPerAttempt(h) == <<mailOp[h].mail[2], mailOp[h].attempt>>

ProviderKey(h) == mailOp[h].mail[2]

(* No more attempts: maxAttempt, of which the first is always made.        *)
MailExhausted(n) == n >= MailAttempts

MailRow(h, status) == [mail |-> mailOp[h].mail, attempt |-> mailOp[h].attempt, status |-> status]
-----------------------------------------------------------------------------
StartMail(h) ==
  \E m \in Mails :
    /\ mailOp[h] = NoMail /\ emissions < MaxEmissions
    /\ emissions' = emissions + 1
    /\ mailOp' = [mailOp EXCEPT ![h] = [NoMail EXCEPT !.at = "resolve", !.mail = m]]
    /\ UNCHANGED <<mailRows, seenKeys, copies, mailFaults, untold>>

(* Disabled, without a recipient or without an adapter: one row, skipped.  *)
SkipMail(h) ==
  /\ mailOp[h].at = "resolve"
  /\ mailRows' = mailRows \cup {MailRow(h, "skipped")}
  /\ mailOp' = [mailOp EXCEPT ![h] = NoMail]
  /\ UNCHANGED <<seenKeys, copies, emissions, mailFaults, untold>>

(* The provider takes an e-mail under a key it does not know; its answer   *)
(* may come too late, which is an error, retriable or not.                 *)
SendAccepted(h) ==
  LET m == mailOp[h].mail IN
  /\ mailOp[h].at \in {"resolve", "send"} /\ ProviderKey(h) \notin seenKeys
  /\ seenKeys' = seenKeys \cup {ProviderKey(h)}
  /\ copies' = [copies EXCEPT ![m] = @ + 1]
  /\ \E result \in {"delivered", "again", "final"} :
       /\ mailOp' = [mailOp EXCEPT ![h].at = "record", ![h].result = result]
       /\ untold' = IF result = "delivered" THEN untold ELSE untold \cup {m}
  /\ UNCHANGED <<mailRows, emissions, mailFaults>>

(* One it knows is answered as before, or refused if the e-mail differs.   *)
(* Either way, and when the provider is not reached, nothing is sent.      *)
SendNothing(h) ==
  /\ mailOp[h].at \in {"resolve", "send"}
  /\ \E result \in {"again", "final"} \cup
                   (IF ProviderKey(h) \in seenKeys THEN {"delivered"} ELSE {}) :
       mailOp' = [mailOp EXCEPT ![h].at = "record", ![h].result = result]
  /\ UNCHANGED <<mailRows, seenKeys, copies, emissions, mailFaults, untold>>

(* The attempt is recorded; after a pause there may be another.            *)
RecordMail(h) ==
  LET result == mailOp[h].result attempt == mailOp[h].attempt IN
  /\ mailOp[h].at = "record"
  /\ mailRows' = mailRows \cup {MailRow(h, IF result = "delivered" THEN "delivered" ELSE "failed")}
  /\ mailOp' = [mailOp EXCEPT ![h] =
       IF result = "again" /\ ~MailExhausted(attempt)
       THEN [mailOp[h] EXCEPT !.at = "send", !.attempt = attempt + 1, !.result = "none"]
       ELSE NoMail]
  /\ UNCHANGED <<seenKeys, copies, emissions, mailFaults, untold>>

(* The row is not appended, or the process dies.                           *)
MailFault(h) ==
  /\ mailOp[h] # NoMail /\ mailFaults < MaxMailFaults
  /\ mailFaults' = mailFaults + 1
  /\ untold' = IF mailOp[h].result = "delivered" THEN untold \cup {mailOp[h].mail} ELSE untold
  /\ mailOp' = [mailOp EXCEPT ![h] = NoMail]
  /\ UNCHANGED <<mailRows, seenKeys, copies, emissions>>

MailNext ==
  \E h \in Emitters :
    \/ StartMail(h) \/ SkipMail(h) \/ SendAccepted(h) \/ SendNothing(h) \/ RecordMail(h)
    \/ MailFault(h)

MailSpec == MailInit /\ [][MailNext]_mailVars
-----------------------------------------------------------------------------
(* Properties.                                                             *)

Recorded(m) == \E r \in mailRows : r.mail = m /\ r.status = "delivered"

(* However often an event is emitted, retried or cut short, its recipient  *)
(* gets one e-mail at most. A row says "delivered" only if the recipient   *)
(* got it - or another request's was sent under the same key, which the    *)
(* provider knows without the request - and one does, once the emission is *)
(* over, for every e-mail whose answer arrived and whose handler lived.    *)
MailsAreTold ==
  \A m \in Mails :
    /\ copies[m] <= 1
    /\ Recorded(m) => \E r \in Recipients : copies[<<r, m[2]>>] = 1
    /\ copies[m] = 1 /\ (\A h \in Emitters : mailOp[h].mail # m) => Recorded(m) \/ m \in untold
=============================================================================
