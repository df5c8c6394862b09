------------------------------ MODULE AuditTrail ------------------------------
(***************************************************************************)
(* The audit events of one request: appendAuditEvent (audit/service.ts),   *)
(* which reads the chain, hashes the new event onto its last one and       *)
(* inserts it in a statement of its own, and verifyAuditChain              *)
(* (audit/export.ts). Two callers use it: the routes, which append one     *)
(* event, and the replay of a webhook dispatch (routes/webhooks/           *)
(* dispatches.ts), whose event with a fixed id is the mark that a caller's *)
(* key has been used.                                                      *)
(*                                                                         *)
(* A hash is the tuple of what it is computed from: SHA-256 is taken to    *)
(* have no collisions. computeAuditHash covers the payload and not the id  *)
(* of an event; here the id stands for the payload.                        *)
(***************************************************************************)
EXTENDS Naturals, FiniteSets, SequencesExt

CONSTANTS
  Writers,         \* calls being served at the same time
  Events,          \* ids makeRequestId returns
  ReplayKeys,      \* idempotency keys of replays of one dispatch; the id of
                   \* a marker is the key itself
  MaxEvents,       \* bound: events in the chain
  MaxAuditFaults,  \* bound: statements that fail, processes that die
  NoEvent

ASSUME AuditAssumption ==
  /\ MaxEvents \in Nat /\ MaxAuditFaults \in Nat
  /\ Events \cap ReplayKeys = {} /\ NoEvent \notin Events \cup ReplayKeys

VARIABLES
  chain,        \* audit_events: id, content, sequence, prevHash and hash
  auditPc,      \* the statement each writer executes next
  entry,        \* the event it appends: id, sequence, prevHash; its replay key
  dispatch,     \* status of the delivery attempt that is replayed
  sends,        \* for every key, how often a replay has sent the webhook
  auditFaults,  \* bounded counter
  forked,       \* history: an event was appended to a chain that had grown
  tampered,     \* history: a stored event was edited or removed
  truncated     \* history: the last event was removed

auditVars == <<chain, auditPc, entry, dispatch, sends, auditFaults, forked, tampered,
               truncated>>

NoHash  == <<>>
NoEntry == [id |-> NoEvent, seq |-> 0, prev |-> NoHash, key |-> NoEvent, was |-> "unread"]

(* A mutant: the hash of the event before is left out.                     *)
DigestAlone(id, content, seq, prev) == <<id, content, seq, NoHash>>

(* computeAuditHash.                                                       *)
Digest(id, content, seq, prev) == <<id, content, seq, prev>>

(* listByRequestId, ORDER BY sequence ASC: equal sequences in any order.   *)
Listings ==
  {s \in SetToSeqs(chain) : \A i, j \in DOMAIN s : i < j => s[i].seq <= s[j].seq}

(* verifyAuditChain: every hash is recomputed over the hash stored before. *)
Verifies(s) ==
  \A i \in DOMAIN s :
    s[i].hash = Digest(s[i].id, s[i].content, s[i].seq,
                       IF i = 1 THEN NoHash ELSE s[i-1].hash)

Verified == \E s \in Listings : Verifies(s)

Stored(id) == \E e \in chain : e.id = id
LastSeq == Max({0} \cup {e.seq : e \in chain})

AuditInit ==
  /\ chain = {} /\ dispatch = "dead"
  /\ auditPc = [w \in Writers |-> "idle"]
  /\ entry = [w \in Writers |-> NoEntry]
  /\ sends = [k \in ReplayKeys |-> 0]
  /\ auditFaults = 0 /\ forked = FALSE /\ tampered = FALSE /\ truncated = FALSE

AuditGoto(w, label) == auditPc' = [auditPc EXCEPT ![w] = label]
AuditEnd(w) == AuditGoto(w, "idle") /\ entry' = [entry EXCEPT ![w] = NoEntry]
AuditQuiet == UNCHANGED <<chain, dispatch, sends, auditFaults, forked, tampered, truncated>>

Fresh == {e \in Events : ~Stored(e) /\ \A v \in Writers : entry[v].id # e}
-----------------------------------------------------------------------------
(* Any route appends its event.                                            *)
StartEvent(w) ==
  \E e \in Fresh :
    /\ auditPc[w] = "idle"
    /\ AuditGoto(w, "read") /\ entry' = [entry EXCEPT ![w].id = e]
    /\ AuditQuiet

(* A replay has read the dispatch and finds no marker of its key.          *)
StartReplay(w) ==
  \E k \in ReplayKeys :
    /\ auditPc[w] = "idle" /\ ~Stored(k)
    /\ AuditGoto(w, "read") /\ entry' = [entry EXCEPT ![w].id = k, ![w].key = k, ![w].was = dispatch]
    /\ AuditQuiet

(* prior.at(-1): an event with the highest sequence.                       *)
ReadChain(w) ==
  /\ auditPc[w] = "read"
  /\ LET last == {e \in chain : e.seq = LastSeq}
     IN  \E prev \in IF last = {} THEN {NoHash} ELSE {e.hash : e \in last} :
           entry' = [entry EXCEPT ![w].seq = LastSeq + 1, ![w].prev = prev]
  /\ AuditGoto(w, "insert")
  /\ AuditQuiet

(* A mutant: the marker gets an id of its own.                             *)
InsertMarkerAgain(w) ==
  /\ auditPc[w] = "insert" /\ Cardinality(chain) < MaxEvents
  /\ chain' = chain \cup
       {[id |-> entry[w].id, content |-> "stored", seq |-> entry[w].seq, prev |-> entry[w].prev,
         hash |-> Digest(entry[w].id, "stored", entry[w].seq, entry[w].prev)]}
  /\ forked' = (forked \/ entry[w].seq # LastSeq + 1)
  /\ IF entry[w].id \in ReplayKeys THEN AuditGoto(w, "send") /\ UNCHANGED entry ELSE AuditEnd(w)
  /\ UNCHANGED <<dispatch, sends, auditFaults, tampered, truncated>>

(* The event is inserted, unless one with its id is there already.         *)
Insert(w) ==
  /\ auditPc[w] = "insert" /\ ~Stored(entry[w].id) /\ Cardinality(chain) < MaxEvents
  /\ chain' = chain \cup
       {[id |-> entry[w].id, content |-> "stored", seq |-> entry[w].seq, prev |-> entry[w].prev,
         hash |-> Digest(entry[w].id, "stored", entry[w].seq, entry[w].prev)]}
  /\ forked' = (forked \/ entry[w].seq # LastSeq + 1)
  /\ IF entry[w].id \in ReplayKeys THEN AuditGoto(w, "send") /\ UNCHANGED entry ELSE AuditEnd(w)
  /\ UNCHANGED <<dispatch, sends, auditFaults, tampered, truncated>>

(* The primary key refuses a second marker: already_replayed.              *)
InsertRefused(w) ==
  /\ auditPc[w] = "insert" /\ Stored(entry[w].id)
  /\ AuditEnd(w)
  /\ AuditQuiet

(* A dispatch that was failed or dead when it was read is sent again; a    *)
(* delivered one has a second event to append.                             *)
Send(w) ==
  /\ auditPc[w] = "send" /\ entry[w].was = "dead"
  /\ sends' = [sends EXCEPT ![entry[w].key] = @ + 1]
  /\ \/ /\ dispatch' = "delivered"
        /\ \E e \in Fresh : entry' = [entry EXCEPT ![w].id = e]
        /\ AuditGoto(w, "read")
     \/ /\ UNCHANGED dispatch /\ AuditEnd(w)
  /\ UNCHANGED <<chain, auditFaults, forked, tampered, truncated>>

(* A marker for a dispatch that is not failed or dead, then an error.      *)
Unreplayable(w) ==
  /\ auditPc[w] = "send" /\ entry[w].was # "dead"
  /\ AuditEnd(w)
  /\ AuditQuiet

AuditFail(w) ==
  /\ auditPc[w] # "idle" /\ auditFaults < MaxAuditFaults
  /\ auditFaults' = auditFaults + 1
  /\ AuditEnd(w)
  /\ UNCHANGED <<chain, dispatch, sends, forked, tampered, truncated>>

(* Somebody with access to the table edits or removes an event. The last   *)
(* one leaves no trace; only the loss of another is a break.               *)
Edit(e) ==
  /\ chain' = (chain \ {e}) \cup {[e EXCEPT !.content = "edited"]}
  /\ tampered' = TRUE
  /\ UNCHANGED truncated

Erase(e) ==
  /\ ~forked
  /\ chain' = chain \ {e}
  /\ IF e.seq = LastSeq THEN truncated' = TRUE /\ UNCHANGED tampered
     ELSE tampered' = TRUE /\ UNCHANGED truncated

Tamper ==
  /\ ~tampered /\ ~truncated
  /\ \E e \in chain : Edit(e) \/ Erase(e)
  /\ UNCHANGED <<auditPc, entry, dispatch, sends, auditFaults, forked>>

AuditStep(w) ==
  \/ ReadChain(w) \/ Insert(w) \/ InsertRefused(w) \/ Send(w) \/ Unreplayable(w)

AuditNext ==
  \/ \E w \in Writers : StartEvent(w) \/ StartReplay(w) \/ AuditStep(w) \/ AuditFail(w)
  \/ Tamper

AuditSpec == AuditInit /\ [][AuditNext]_auditVars
-----------------------------------------------------------------------------
(* Properties.                                                             *)

(* As long as no append overlapped another, the chain verifies when none   *)
(* of its events was touched, and never again once one was edited or one   *)
(* before the last removed, whatever is appended afterwards.               *)
VerifyIsExact ==
  ~forked => /\ ~tampered /\ ~truncated => Verified
             /\ tampered => ~Verified

(* For one dispatch and one idempotency key the webhook is sent at most    *)
(* once, through concurrent calls, failures and retries, and what was sent *)
(* has its marker in the trail, as long as nobody touches the trail.       *)
ReplaySentOnce ==
  ~tampered /\ ~truncated => \A k \in ReplayKeys :
                               sends[k] = 0 \/ (sends[k] = 1 /\ Stored(k))

(* domain.ts:523 calls the sequence monotonic: no two events of a request  *)
(* have the same.                                                          *)
SequenceIsMonotonic == \A d, e \in chain : d.seq = e.seq => d = e
=============================================================================
