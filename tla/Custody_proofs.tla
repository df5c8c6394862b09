----------------------------- MODULE Custody_proofs -----------------------------
(***************************************************************************)
(* What comes in and what is kept as proof of it: the public intake, its   *)
(* limits, the audit trail and the signing keys.                           *)
(*                                                                         *)
(* OneRequestPerDelivery and AnsweredIsComplete hold for any messages,     *)
(* servers, page size and failures. The lookup reads a page and the        *)
(* insertion comes later: what holds in between is DeliveriesInvariant;    *)
(* that a request is complete, given up or still being written by one      *)
(* server is TracesInvariant. LimitIsHonest holds for any processes,       *)
(* tenants and limit.                                                      *)
(*                                                                         *)
(* ReplaySentOnce for any number of replays, keys, events and failures:    *)
(* the marker is in the trail before the webhook is sent, and the marker   *)
(* of a key is inserted by one writer only. VerifyIsExact for a trail of   *)
(* any length: the hashes of an untouched chain follow one another, and an *)
(* edited or orphaned event stays what it is.                              *)
(*                                                                         *)
(* GraceHonoured and PrimaryIsKnown for any number of rotations, keys,     *)
(* days and failures. GraceHonoured is not inductive: that a key a caller  *)
(* was told about is never restored, nor one deleted that a rotation under *)
(* way may fall back to, follows from how the rotations under way relate   *)
(* to the rows (RotationsInvariant).                                       *)
(***************************************************************************)
EXTENDS RequestCapture, RateLimit, AuditTrail, SigningKeys, Recursion_proofs

WriteLabels == {"timeline", "audit", "notification", "clock", "due"}
Busy    == {s \in Servers : capturePc[s] # "idle"}
Writing == {s \in Servers : capturePc[s] \in WriteLabels}

Traced(id, i) == [id |-> id, what |-> Writes[i]] \in traces
Complete(id) == \A i \in 1..5 : Traced(id, i)

Captures == [msg : Messages \cup {NoMessage}, id : RequestIds \cup {NoRequest}]
Requests == [id : RequestIds, msg : Messages, key : Messages \cup {NoMessage}]

CaptureTypes ==
  /\ capturePc \in [Servers -> {"idle", "lookup", "create"} \cup WriteLabels]
  /\ capturing \in [Servers -> Captures]
  /\ captured \subseteq Requests
  /\ responses \in [Messages -> SUBSET RequestIds]

ServersInvariant ==
  /\ \A s \in Servers \ Busy : capturing[s] = NoCapture
  /\ \A s \in Busy : capturing[s].msg \in Messages
  /\ \A s \in Busy \ Writing : capturing[s].id = NoRequest
  /\ \A s \in Writing : \E r \in captured : r.id = capturing[s].id /\ r.msg = capturing[s].msg

(* A server about to insert a delivery knows that it is not there yet.     *)
DeliveriesInvariant ==
  /\ \A s, t \in Busy : s # t /\ capturing[s].msg = capturing[t].msg => capturing[s].msg \in crossed
  /\ \A r \in captured : r.key = IF r.msg \in Keyed THEN r.msg ELSE NoMessage
  /\ \A s \in Busy :
       capturePc[s] = "create" /\ capturing[s].msg \in Keyed \ (crossed \cup buried) =>
         Of(capturing[s].msg) = {}
  /\ \A m \in Keyed \ (crossed \cup buried) : \A q, r \in Of(m) : q = r

Settled(id) == id \in severed \/ Complete(id)

TracesInvariant ==
  /\ \A q, r \in captured : q.id = r.id => q = r
  /\ \A s, t \in Writing : s # t => capturing[s].id # capturing[t].id
  /\ \A s \in Writing, i \in 1..5 :
       capturePc[s] = Writes[i] => \A j \in 1..5 : j < i => Traced(capturing[s].id, j)
  /\ \A r \in captured : Settled(r.id) \/ \E s \in Writing : capturing[s].id = r.id
  /\ \A m \in Messages : \A id \in responses[m] : Settled(id) \/ m \in crossed

CaptureInvariant ==
  CaptureTypes /\ ServersInvariant /\ DeliveriesInvariant /\ TracesInvariant

-----------------------------------------------------------------------------
LEMMA WritesAre ==
  /\ Writes[1] = "timeline" /\ Writes[2] = "audit" /\ Writes[3] = "notification"
  /\ Writes[4] = "clock" /\ Writes[5] = "due"
BY DEF Writes

LEMMA WritesDiffer ==
  /\ \A i \in 1..5 : Writes[i] \in WriteLabels
  /\ \A i, j \in 1..5 : Writes[i] = Writes[j] => i = j
<1>1. \A i \in 1..5 : i = 1 \/ i = 2 \/ i = 3 \/ i = 4 \/ i = 5
  OBVIOUS
<1> QED BY <1>1, WritesAre DEF WriteLabels

LEMMA NoCaptureIsACapture == NoCapture \in Captures /\ NoCapture.id = NoRequest /\ NoCapture.msg = NoMessage
BY DEF NoCapture, Captures

LEMMA CaptureStart == CaptureInit => CaptureInvariant
<1> SUFFICES ASSUME CaptureInit PROVE CaptureInvariant
  OBVIOUS
<1>1. Busy = {} /\ Writing = {}
  BY DEF CaptureInit, Busy, Writing, WriteLabels
<1>2. CaptureTypes
  BY NoCaptureIsACapture DEF CaptureInit, CaptureTypes
<1>3. ServersInvariant
  BY <1>1 DEF CaptureInit, ServersInvariant
<1>4. DeliveriesInvariant
  BY <1>1 DEF CaptureInit, DeliveriesInvariant, Of
<1>5. TracesInvariant
  BY <1>1 DEF CaptureInit, TracesInvariant
<1> QED BY <1>2, <1>3, <1>4, <1>5 DEF CaptureInvariant

(* One server goes on; what the others do stays.                           *)
LEMMA OneMoves ==
  ASSUME CaptureTypes, NEW s \in Servers, NEW label, NEW c,
         label \in {"idle", "lookup", "create"} \cup WriteLabels, c \in Captures,
         capturePc' = [capturePc EXCEPT ![s] = label], capturing' = [capturing EXCEPT ![s] = c]
  PROVE  /\ capturePc' \in [Servers -> {"idle", "lookup", "create"} \cup WriteLabels]
         /\ capturing' \in [Servers -> Captures]
         /\ \A t \in Servers : capturePc'[t] = IF t = s THEN label ELSE capturePc[t]
         /\ \A t \in Servers : capturing'[t] = IF t = s THEN c ELSE capturing[t]
         /\ \A t \in Servers : t # s => /\ t \in Busy' <=> t \in Busy
                                        /\ t \in Writing' <=> t \in Writing
         /\ s \in Busy' <=> label # "idle"
         /\ s \in Writing' <=> label \in WriteLabels
         /\ Busy' \subseteq Servers /\ Writing' \subseteq Servers
<1>1. \A t \in Servers : /\ capturePc'[t] = IF t = s THEN label ELSE capturePc[t]
                         /\ capturing'[t] = IF t = s THEN c ELSE capturing[t]
  BY DEF CaptureTypes
<1> QED BY <1>1 DEF CaptureTypes, Busy, Writing

(* What is settled stays so.                                               *)
LEMMA SettledStays ==
  ASSUME traces \subseteq traces', severed \subseteq severed'
  PROVE  \A id : Settled(id) => Settled(id)'
BY DEF Settled, Complete, Traced

(* A server that ends leaves its request settled.                          *)
LEMMA IntakeEndKeeps ==
  ASSUME CaptureInvariant, NEW s \in Busy, NEW own, own = capturing[s].id,
         capturePc' = [capturePc EXCEPT ![s] = "idle"],
         capturing' = [capturing EXCEPT ![s] = NoCapture],
         captured' = captured, crossed' = crossed, buried' = buried,
         traces \subseteq traces', severed \subseteq severed',
         s \in Writing => Settled(own)',
         responses' \in [Messages -> SUBSET RequestIds],
         \A m \in Messages : \A id \in responses'[m] :
           id \in responses[m] \/ Settled(id)' \/ m \in crossed
  PROVE  CaptureInvariant'
<1>1. s \in Servers
  BY DEF Busy
<1>2. /\ capturePc' \in [Servers -> {"idle", "lookup", "create"} \cup WriteLabels]
      /\ capturing' \in [Servers -> Captures]
      /\ \A t \in Servers : t # s => /\ capturePc'[t] = capturePc[t] /\ capturing'[t] = capturing[t]
                                     /\ t \in Busy' <=> t \in Busy
                                     /\ t \in Writing' <=> t \in Writing
      /\ s \notin Busy' /\ s \notin Writing' /\ capturing'[s] = NoCapture
      /\ Busy' \subseteq Servers /\ Writing' \subseteq Servers
  BY <1>1, OneMoves, NoCaptureIsACapture DEF CaptureInvariant, WriteLabels
<1>3. \A id : Settled(id) => Settled(id)'
  BY SettledStays
<1>4. CaptureTypes'
  BY <1>2 DEF CaptureInvariant, CaptureTypes
<1>5. ServersInvariant'
  BY <1>2 DEF CaptureInvariant, ServersInvariant
<1>6. DeliveriesInvariant'
  BY <1>2 DEF CaptureInvariant, DeliveriesInvariant, Of
<1>7. TracesInvariant'
  <2>1. ASSUME NEW t \in Writing', NEW i \in 1..5, capturePc'[t] = Writes[i], NEW j \in 1..5, j < i
        PROVE  Traced(capturing[t].id, j)' /\ capturing'[t] = capturing[t]
    <3>1. t \in Writing /\ capturePc[t] = Writes[i] /\ capturing'[t] = capturing[t]
      BY <1>2, <2>1
    <3>2. Traced(capturing[t].id, j)
      BY <2>1, <3>1 DEF CaptureInvariant, TracesInvariant
    <3> QED BY <3>1, <3>2 DEF Traced
  <2>2. ASSUME NEW r \in captured
        PROVE  Settled(r.id)' \/ \E t \in Writing' : capturing'[t].id = r.id
    <3>1. CASE Settled(r.id)
      BY <1>3, <3>1
    <3>2. CASE \E t \in Writing : capturing[t].id = r.id
      <4>1. PICK t \in Writing : capturing[t].id = r.id
        BY <3>2
      <4>2. CASE t = s
        BY <4>1, <4>2, <1>2
      <4>3. CASE t # s
        BY <4>1, <4>3, <1>2 DEF Writing
      <4> QED BY <4>2, <4>3
    <3> QED BY <3>1, <3>2 DEF CaptureInvariant, TracesInvariant
  <2>3. \A m \in Messages : \A id \in responses'[m] : Settled(id)' \/ m \in crossed
    BY <1>3 DEF CaptureInvariant, TracesInvariant
  <2>4. \A t, u \in Writing' : t # u => capturing'[t].id # capturing'[u].id
    BY <1>2 DEF CaptureInvariant, TracesInvariant
  <2>5. \A q, r \in captured : q.id = r.id => q = r
    BY DEF CaptureInvariant, TracesInvariant
  <2>6. \A t \in Writing', i \in 1..5 :
          capturePc'[t] = Writes[i] => \A j \in 1..5 : j < i => Traced(capturing[t].id, j)'
    BY <2>1 DEF Traced
  <2> QED BY <2>2, <2>3, <2>4, <2>5, <2>6 DEF TracesInvariant
<1> QED BY <1>4, <1>5, <1>6, <1>7 DEF CaptureInvariant

LEMMA IntakeSendKeeps ==
  ASSUME CaptureInvariant, NEW s \in Servers, SendMessage(s)
  PROVE  CaptureInvariant'
<1> USE CaptureAssumption
<1>1. PICK m \in Messages :
        /\ capturePc[s] = "idle" /\ capturePc' = [capturePc EXCEPT ![s] = "lookup"]
        /\ capturing' = [capturing EXCEPT ![s] = [msg |-> m, id |-> NoRequest]]
        /\ crossed' = crossed \cup {n \in {m} : \E t \in Servers : capturing[t].msg = n}
  BY DEF SendMessage, CaptureGoto
<1> DEFINE c == [msg |-> m, id |-> NoRequest]
<1>2. c \in Captures /\ c.msg = m /\ c.id = NoRequest /\ capturing' = [capturing EXCEPT ![s] = c]
  BY <1>1 DEF Captures
<1> HIDE DEF c
<1>0. /\ capturePc' \in [Servers -> {"idle", "lookup", "create"} \cup WriteLabels]
      /\ capturing' \in [Servers -> Captures]
      /\ \A t \in Servers : capturePc'[t] = IF t = s THEN "lookup" ELSE capturePc[t]
      /\ \A t \in Servers : capturing'[t] = IF t = s THEN c ELSE capturing[t]
  BY <1>1, <1>2 DEF CaptureInvariant, CaptureTypes
<1>3. /\ \A t \in Servers : t # s => /\ capturePc'[t] = capturePc[t] /\ capturing'[t] = capturing[t]
                                     /\ t \in Busy' <=> t \in Busy
                                     /\ t \in Writing' <=> t \in Writing
      /\ s \in Busy' /\ s \notin Writing' /\ capturing'[s] = c /\ capturePc'[s] = "lookup"
      /\ Busy' \subseteq Servers /\ Writing' \subseteq Servers
  BY <1>0 DEF Busy, Writing, WriteLabels
<1>4. /\ captured' = captured /\ traces' = traces /\ severed' = severed /\ buried' = buried
      /\ responses' = responses
  BY DEF SendMessage
<1>5. CaptureTypes'
  BY <1>0, <1>4 DEF CaptureInvariant, CaptureTypes
<1>6. ServersInvariant'
  BY <1>2, <1>3, <1>4 DEF CaptureInvariant, ServersInvariant
<1>7. DeliveriesInvariant'
  <2>1. ASSUME NEW t \in Busy', NEW u \in Busy', t # u, capturing'[t].msg = capturing'[u].msg
        PROVE  capturing'[t].msg \in crossed'
    <3>1. CASE t # s /\ u # s
      BY <1>1, <1>3, <2>1, <3>1 DEF CaptureInvariant, DeliveriesInvariant
    <3>2. CASE t = s \/ u = s
      BY <1>1, <1>2, <1>3, <2>1, <3>2
    <3> QED BY <3>1, <3>2
  <2>2. \A r \in captured : r.key = IF r.msg \in Keyed THEN r.msg ELSE NoMessage
    BY DEF CaptureInvariant, DeliveriesInvariant
  <2>3. ASSUME NEW t \in Busy', capturePc'[t] = "create",
               capturing'[t].msg \in Keyed \ (crossed' \cup buried)
        PROVE  Of(capturing'[t].msg) = {}
    BY <1>1, <1>3, <2>3 DEF CaptureInvariant, DeliveriesInvariant
  <2>4. \A n \in Keyed \ (crossed' \cup buried) : \A q, r \in Of(n) : q = r
    BY <1>1 DEF CaptureInvariant, DeliveriesInvariant
  <2> QED BY <1>4, <2>1, <2>2, <2>3, <2>4 DEF DeliveriesInvariant, Of
<1>8. TracesInvariant'
  <2>1. Writing' = Writing /\ \A t \in Writing : /\ capturing'[t] = capturing[t]
                                               /\ capturePc'[t] = capturePc[t]
    BY <1>1, <1>3 DEF Writing, WriteLabels
  <2>2. crossed \subseteq crossed'
    BY <1>1
  <2>3. \A id : (Settled(id) => Settled(id)') /\ \A j \in 1..5 : Traced(id, j) => Traced(id, j)'
    BY <1>4, SettledStays DEF Traced
  <2>4. \A t \in Writing', i \in 1..5 :
          capturePc'[t] = Writes[i] => \A j \in 1..5 : j < i => Traced(capturing[t].id, j)'
    BY <1>4, <2>1 DEF CaptureInvariant, TracesInvariant, Traced
  <2>5. \A r \in captured' : Settled(r.id)' \/ \E t \in Writing' : capturing'[t].id = r.id
    BY <1>4, <2>1, <2>3 DEF CaptureInvariant, TracesInvariant
  <2>6. \A n \in Messages : \A id \in responses'[n] : Settled(id)' \/ n \in crossed'
    BY <1>4, <2>2, <2>3 DEF CaptureInvariant, TracesInvariant
  <2> QED BY <1>4, <2>1, <2>4, <2>5, <2>6 DEF CaptureInvariant, TracesInvariant
<1> QED BY <1>5, <1>6, <1>7, <1>8 DEF CaptureInvariant

(* What a repeated delivery finds is settled: whoever still writes it      *)
(* serves the same delivery.                                               *)
LEMMA HitKeeps ==
  ASSUME CaptureInvariant, NEW s \in Servers, LookupHit(s)
  PROVE  CaptureInvariant'
<1> USE CaptureAssumption
<1> DEFINE m == capturing[s].msg
<1>0. PICK page \in Pages :
        capturePc[s] = "lookup" /\ \E r \in Known(m, page) : Respond(s, {r.id})
  BY DEF LookupHit
<1>1. PICK r \in Known(m, page) : capturePc[s] = "lookup" /\ Respond(s, {r.id})
  BY <1>0
<1>2. s \in Busy /\ s \notin Writing
  BY <1>1 DEF Busy, Writing, WriteLabels
<1>3. m \in Messages
  BY <1>2 DEF CaptureInvariant, ServersInvariant
<1>4. r \in captured /\ r.key = m /\ m \in Keyed
  BY <1>1 DEF Known, Pages
<1>5. r.msg = m
  BY <1>3, <1>4 DEF CaptureInvariant, DeliveriesInvariant
<1>6. Settled(r.id) \/ m \in crossed
  <2>1. CASE \E t \in Writing : capturing[t].id = r.id
    <3>1. PICK t \in Writing : capturing[t].id = r.id
      BY <2>1
    <3>2. PICK q \in captured : q.id = r.id /\ q.msg = capturing[t].msg
      BY <3>1 DEF CaptureInvariant, ServersInvariant
    <3>3. q = r
      BY <1>4, <3>2 DEF CaptureInvariant, TracesInvariant
    <3>4. t \in Busy /\ t # s
      BY <1>2, <3>1 DEF Busy, Writing, WriteLabels
    <3> QED BY <1>2, <1>5, <3>2, <3>3, <3>4 DEF CaptureInvariant, DeliveriesInvariant
  <2> QED BY <1>4, <2>1 DEF CaptureInvariant, TracesInvariant
<1>7. r.id \in RequestIds
  BY <1>4 DEF CaptureInvariant, CaptureTypes, Requests
<1>8. /\ responses' \in [Messages -> SUBSET RequestIds]
      /\ \A n \in Messages : \A id \in responses'[n] : id \in responses[n] \/ (n = m /\ id = r.id)
  BY <1>1, <1>3, <1>7 DEF Respond, CaptureInvariant, CaptureTypes
<1>9. /\ capturePc' = [capturePc EXCEPT ![s] = "idle"]
      /\ capturing' = [capturing EXCEPT ![s] = NoCapture]
  BY <1>1 DEF Respond, CaptureGoto
<1>10. /\ captured' = captured /\ traces' = traces /\ severed' = severed /\ buried' = buried
       /\ crossed' = crossed
  BY DEF LookupHit
<1>11. \A id : Settled(id) => Settled(id)'
  BY <1>10, SettledStays
<1>12. PICK own : own = capturing[s].id
  OBVIOUS
<1>13. \A n \in Messages : \A id \in responses'[n] :
         id \in responses[n] \/ Settled(id)' \/ n \in crossed
  BY <1>6, <1>8, <1>11
<1> QED BY <1>2, <1>8, <1>9, <1>10, <1>12, <1>13, IntakeEndKeeps

(* Nothing found and the request not off the page: there is none.          *)
LEMMA MissKeeps ==
  ASSUME CaptureInvariant, NEW s \in Servers, LookupMiss(s)
  PROVE  CaptureInvariant'
<1> USE CaptureAssumption
<1> DEFINE m == capturing[s].msg
<1>1. PICK page \in Pages :
        /\ capturePc[s] = "lookup" /\ Known(m, page) = {}
        /\ buried' = buried \cup {n \in {m} : Of(n) # {} /\ Of(n) \cap page = {}}
        /\ capturePc' = [capturePc EXCEPT ![s] = "create"]
  BY DEF LookupMiss, CaptureGoto
<1>2. /\ captured' = captured /\ traces' = traces /\ severed' = severed /\ crossed' = crossed
      /\ capturing' = capturing /\ responses' = responses
  BY DEF LookupMiss
<1>3. s \in Busy /\ s \notin Writing /\ Busy' = Busy /\ Writing' = Writing
  BY <1>1 DEF Busy, Writing, WriteLabels, CaptureInvariant, CaptureTypes
<1>4. /\ capturePc' \in [Servers -> {"idle", "lookup", "create"} \cup WriteLabels]
      /\ \A t \in Servers : t # s => capturePc'[t] = capturePc[t]
  BY <1>1 DEF CaptureInvariant, CaptureTypes
<1>5. CaptureTypes' /\ ServersInvariant'
  BY <1>2, <1>3, <1>4 DEF CaptureInvariant, CaptureTypes, ServersInvariant
<1>6. ASSUME m \in Keyed \ buried' PROVE Of(m) = {}
  <2> SUFFICES ASSUME Of(m) # {} PROVE FALSE
    OBVIOUS
  <2>1. PICK r \in page : r \in Of(m)
    BY <1>1, <1>6
  <2>2. r.key = m
    BY <1>6, <2>1 DEF Of, CaptureInvariant, DeliveriesInvariant
  <2> QED BY <1>1, <1>6, <2>1, <2>2 DEF Known
<1>7. DeliveriesInvariant'
  <2>1. ASSUME NEW t \in Busy, capturePc'[t] = "create",
               capturing[t].msg \in Keyed \ (crossed \cup buried')
        PROVE  Of(capturing[t].msg) = {}
    BY <1>1, <1>4, <1>6, <2>1 DEF CaptureInvariant, DeliveriesInvariant, Busy
  <2> QED BY <1>1, <1>2, <1>3, <2>1 DEF CaptureInvariant, DeliveriesInvariant, Of
<1>8. TracesInvariant'
  <2>1. \A t \in Writing : capturePc'[t] = capturePc[t]
    BY <1>3, <1>4 DEF Writing
  <2> QED BY <1>2, <1>3, <2>1 DEF CaptureInvariant, TracesInvariant, Settled, Complete, Traced
<1> QED BY <1>5, <1>7, <1>8 DEF CaptureInvariant

(* The request a server inserts is the first of its delivery, unless it    *)
(* was served twice or buried, and its own to write.                       *)
LEMMA CreateKeeps ==
  ASSUME CaptureInvariant, NEW s \in Servers, CreateRequest(s)
  PROVE  CaptureInvariant'
<1> USE CaptureAssumption
<1> DEFINE m == capturing[s].msg
<1>1. PICK id \in RequestIds :
        /\ capturePc[s] = "create" /\ \A r \in captured : r.id # id
        /\ captured' = captured \cup {[id |-> id, msg |-> m, key |-> IF m \in Keyed THEN m ELSE NoMessage]}
        /\ capturing' = [capturing EXCEPT ![s].id = id]
        /\ capturePc' = [capturePc EXCEPT ![s] = "timeline"]
  BY WritesAre DEF CreateRequest, CaptureGoto
<1> DEFINE new == [id |-> id, msg |-> m, key |-> IF m \in Keyed THEN m ELSE NoMessage]
<1>2. /\ traces' = traces /\ severed' = severed /\ crossed' = crossed
      /\ buried' = buried /\ responses' = responses
  BY DEF CreateRequest
<1>3. s \in Busy /\ s \notin Writing
  BY <1>1 DEF Busy, Writing, WriteLabels
<1>4. m \in Messages
  BY <1>3 DEF CaptureInvariant, ServersInvariant
<1>5. /\ new \in Requests /\ new.id = id /\ new.msg = m
      /\ new.key = IF m \in Keyed THEN m ELSE NoMessage
      /\ captured' = captured \cup {new}
  BY <1>1, <1>4 DEF Requests
<1> HIDE DEF new
<1>6. /\ capturePc' \in [Servers -> {"idle", "lookup", "create"} \cup WriteLabels]
      /\ capturing' \in [Servers -> Captures]
      /\ \A t \in Servers : capturePc'[t] = IF t = s THEN "timeline" ELSE capturePc[t]
      /\ \A t \in Servers : t # s => capturing'[t] = capturing[t]
      /\ capturing'[s].id = id /\ capturing'[s].msg = m
  BY <1>1 DEF CaptureInvariant, CaptureTypes, Captures, WriteLabels
<1>7. Busy' = Busy /\ Writing' = Writing \cup {s} /\ Writing \subseteq Servers
  BY <1>3, <1>6 DEF Busy, Writing, WriteLabels
<1>8. CaptureTypes'
  BY <1>2, <1>5, <1>6 DEF CaptureInvariant, CaptureTypes
<1>9. \A t \in Busy : capturing'[t].msg = capturing[t].msg
  BY <1>6 DEF Busy
<1>10. ServersInvariant'
  <2>1. \A t \in Servers \ Busy : capturing'[t] = NoCapture
    BY <1>3, <1>6 DEF CaptureInvariant, ServersInvariant
  <2>2. \A t \in Busy : capturing'[t].msg \in Messages
    BY <1>9 DEF CaptureInvariant, ServersInvariant
  <2>3. \A t \in Busy \ Writing' : capturing'[t].id = NoRequest
    BY <1>6, <1>7 DEF CaptureInvariant, ServersInvariant, Busy
  <2>4. ASSUME NEW t \in Writing'
        PROVE  \E r \in captured' : r.id = capturing'[t].id /\ r.msg = capturing'[t].msg
    <3>1. CASE t = s
      BY <3>1, <1>5, <1>6
    <3>2. CASE t # s
      BY <3>2, <1>5, <1>6, <1>7 DEF CaptureInvariant, ServersInvariant
    <3> QED BY <3>1, <3>2
  <2> QED BY <1>7, <2>1, <2>2, <2>3, <2>4 DEF ServersInvariant
<1>11. DeliveriesInvariant'
  <2>1. \A t, u \in Busy : t # u /\ capturing'[t].msg = capturing'[u].msg => capturing'[t].msg \in crossed
    BY <1>9 DEF CaptureInvariant, DeliveriesInvariant
  <2>2. \A r \in captured' : r.key = IF r.msg \in Keyed THEN r.msg ELSE NoMessage
    BY <1>5 DEF CaptureInvariant, DeliveriesInvariant
  <2>3. ASSUME NEW t \in Busy, capturePc'[t] = "create",
               capturing'[t].msg \in Keyed \ (crossed \cup buried),
               NEW r \in captured', r.msg = capturing'[t].msg
        PROVE  FALSE
    <3>1. t # s /\ capturePc[t] = "create" /\ capturing[t].msg = r.msg
      BY <1>6, <2>3 DEF Busy
    <3>2. Of(capturing[t].msg) = {}
      BY <1>9, <2>3, <3>1 DEF CaptureInvariant, DeliveriesInvariant
    <3>3. r = new
      BY <1>5, <2>3, <3>1, <3>2 DEF Of
    <3> QED BY <1>3, <1>5, <1>9, <2>3, <3>1, <3>3 DEF CaptureInvariant, DeliveriesInvariant
  <2>4. ASSUME NEW n \in Keyed \ (crossed \cup buried), NEW q \in captured', NEW r \in captured',
               q.msg = n, r.msg = n
        PROVE  q = r
    <3>1. CASE n = m
      <4>1. Of(m) = {}
        BY <1>1, <1>3, <2>4, <3>1 DEF CaptureInvariant, DeliveriesInvariant
      <4> QED BY <1>5, <2>4, <3>1, <4>1 DEF Of
    <3>2. CASE n # m
      BY <1>5, <2>4, <3>2 DEF CaptureInvariant, DeliveriesInvariant, Of
    <3> QED BY <3>1, <3>2
  <2> QED BY <1>2, <1>7, <2>1, <2>2, <2>3, <2>4 DEF DeliveriesInvariant, Of
<1>12. TracesInvariant'
  <2>1. \A q, r \in captured' : q.id = r.id => q = r
    BY <1>1, <1>5 DEF CaptureInvariant, TracesInvariant
  <2>2. \A t \in Writing : t # s /\ capturing'[t] = capturing[t] /\ capturing[t].id # id
    BY <1>1, <1>3, <1>6, <1>7 DEF CaptureInvariant, ServersInvariant
  <2>3. \A t, u \in Writing' : t # u => capturing'[t].id # capturing'[u].id
    BY <1>6, <1>7, <2>2 DEF CaptureInvariant, TracesInvariant
  <2>4. \A x : (Settled(x) => Settled(x)') /\ \A j \in 1..5 : Traced(x, j) => Traced(x, j)'
    BY <1>2, SettledStays DEF Traced
  <2>5. ASSUME NEW t \in Writing', NEW i \in 1..5, capturePc'[t] = Writes[i], NEW j \in 1..5, j < i
        PROVE  Traced(capturing[t].id, j)'
    <3>1. t # s
      <4>1. i # 1
        BY <2>5
      <4> QED BY <1>6, <1>7, <2>5, <4>1, WritesAre, WritesDiffer
    <3>2. t \in Writing /\ capturePc[t] = Writes[i] /\ capturing'[t] = capturing[t]
      BY <1>6, <1>7, <2>2, <2>5, <3>1
    <3>3. Traced(capturing[t].id, j)
      BY <2>5, <3>2 DEF CaptureInvariant, TracesInvariant
    <3> QED BY <1>2, <3>2, <3>3 DEF Traced
  <2>6. \A r \in captured' : Settled(r.id)' \/ \E t \in Writing' : capturing'[t].id = r.id
    BY <1>5, <1>6, <1>7, <2>2, <2>4 DEF CaptureInvariant, TracesInvariant
  <2>7. \A n \in Messages : \A x \in responses[n] : Settled(x)' \/ n \in crossed
    BY <2>4 DEF CaptureInvariant, TracesInvariant
  <2> QED BY <1>2, <2>1, <2>3, <2>5, <2>6, <2>7 DEF TracesInvariant
<1> QED BY <1>8, <1>10, <1>11, <1>12 DEF CaptureInvariant

(* The last write settles the request, and any but the last leaves it to   *)
(* its server.                                                             *)
LEMMA WriteKeeps ==
  ASSUME CaptureInvariant, NEW s \in Servers, WriteTrace(s)
  PROVE  CaptureInvariant'
<1> USE CaptureAssumption
<1>0. PICK own : own = capturing[s].id
  OBVIOUS
<1>1. PICK i \in 1..5 :
        /\ capturePc[s] = Writes[i]
        /\ traces' = traces \cup {[id |-> own, what |-> Writes[i]]}
        /\ IF i = 5 THEN Respond(s, {own})
           ELSE /\ capturePc' = [capturePc EXCEPT ![s] = Writes[i+1]]
                /\ UNCHANGED <<capturing, responses>>
  BY <1>0 DEF WriteTrace, CaptureGoto
<1>2. /\ captured' = captured /\ severed' = severed /\ buried' = buried /\ crossed' = crossed
  BY DEF WriteTrace
<1>3. s \in Busy /\ s \in Writing
  BY <1>1, WritesDiffer DEF Busy, Writing, WriteLabels
<1>4. traces \subseteq traces' /\ Traced(own, i)' /\ \A x, j : Traced(x, j) => Traced(x, j)'
  BY <1>1 DEF Traced
<1>5. \A j \in 1..5 : j < i => Traced(own, j)
  BY <1>0, <1>1, <1>3 DEF CaptureInvariant, TracesInvariant
<1>6. \A id : Settled(id) => Settled(id)'
  BY <1>2, <1>4, SettledStays
<1>7. CASE i = 5
  <2>1. \A j \in 1..5 : j = 5 \/ j < 5
    OBVIOUS
  <2>2. \A j \in 1..5 : Traced(own, j)'
    BY <1>4, <1>5, <1>7, <2>1
  <2>3. Settled(own)'
    BY <2>2 DEF Settled, Complete
  <2>4. own \in RequestIds /\ capturing[s].msg \in Messages
    BY <1>0, <1>3 DEF CaptureInvariant, ServersInvariant, CaptureTypes, Requests
  <2>5. /\ responses' \in [Messages -> SUBSET RequestIds]
        /\ \A n \in Messages : \A id \in responses'[n] : id \in responses[n] \/ id = own
    BY <1>1, <1>7, <2>4 DEF Respond, CaptureInvariant, CaptureTypes
  <2>6. /\ capturePc' = [capturePc EXCEPT ![s] = "idle"]
        /\ capturing' = [capturing EXCEPT ![s] = NoCapture]
    BY <1>1, <1>7 DEF Respond, CaptureGoto
  <2>7. \A n \in Messages : \A id \in responses'[n] :
          id \in responses[n] \/ Settled(id)' \/ n \in crossed
    BY <2>3, <2>5
  <2> QED BY <1>0, <1>2, <1>3, <1>4, <2>3, <2>5, <2>6, <2>7, IntakeEndKeeps
<1>8. CASE i # 5
  <2>1. /\ capturePc' = [capturePc EXCEPT ![s] = Writes[i+1]]
        /\ capturing' = capturing /\ responses' = responses
    BY <1>1, <1>8
  <2>2. i + 1 \in 1..5 /\ Writes[i+1] \in WriteLabels
    BY <1>8, WritesDiffer
  <2>3. /\ capturePc' \in [Servers -> {"idle", "lookup", "create"} \cup WriteLabels]
        /\ \A t \in Servers : capturePc'[t] = IF t = s THEN Writes[i+1] ELSE capturePc[t]
    BY <2>1, <2>2 DEF CaptureInvariant, CaptureTypes
  <2>4. Busy' = Busy /\ Writing' = Writing
    BY <1>3, <2>2, <2>3 DEF Busy, Writing, WriteLabels
  <2>5. CaptureTypes' /\ ServersInvariant'
    BY <1>2, <2>1, <2>3, <2>4 DEF CaptureInvariant, CaptureTypes, ServersInvariant
  <2>6. \A t \in Busy : capturePc'[t] = "create" => capturePc[t] = "create"
    BY <2>2, <2>3 DEF Busy, WriteLabels
  <2>7. DeliveriesInvariant'
    BY <1>2, <2>1, <2>4, <2>6 DEF CaptureInvariant, DeliveriesInvariant, Of
  <2>8. ASSUME NEW t \in Writing, NEW k \in 1..5, capturePc'[t] = Writes[k], NEW j \in 1..5, j < k
        PROVE  Traced(capturing[t].id, j)'
    <3>1. CASE t = s
      <4>1. k = i + 1
        BY <2>2, <2>3, <2>8, <3>1, WritesDiffer
      <4>2. j < i \/ j = i
        BY <4>1, <2>8
      <4>3. Traced(own, j)'
        BY <1>4, <1>5, <4>2
      <4> QED BY <1>0, <2>1, <3>1, <4>3 DEF Traced
    <3>2. CASE t # s
      <4>1. Traced(capturing[t].id, j)
        BY <2>3, <2>8, <3>2 DEF CaptureInvariant, TracesInvariant, Writing
      <4> QED BY <1>4, <2>1, <4>1 DEF Traced
    <3> QED BY <3>1, <3>2
  <2>9. \A r \in captured : Settled(r.id)' \/ \E t \in Writing : capturing[t].id = r.id
    BY <1>6 DEF CaptureInvariant, TracesInvariant
  <2>10. \A n \in Messages : \A id \in responses[n] : Settled(id)' \/ n \in crossed
    BY <1>6 DEF CaptureInvariant, TracesInvariant
  <2>11. TracesInvariant'
    BY <1>2, <2>1, <2>4, <2>8, <2>9, <2>10 DEF CaptureInvariant, TracesInvariant
  <2> QED BY <2>5, <2>7, <2>11 DEF CaptureInvariant
<1> QED BY <1>7, <1>8

LEMMA FailKeeps ==
  ASSUME CaptureInvariant, NEW s \in Servers, CaptureFail(s)
  PROVE  CaptureInvariant'
<1> USE CaptureAssumption
<1>0. PICK own : own = capturing[s].id
  OBVIOUS
<1>1. /\ severed' = severed \cup ({own} \ {NoRequest})
      /\ capturePc' = [capturePc EXCEPT ![s] = "idle"]
      /\ capturing' = [capturing EXCEPT ![s] = NoCapture]
      /\ UNCHANGED <<captured, traces, responses, crossed, buried>>
  BY <1>0 DEF CaptureFail, CaptureGoto
<1>2. s \in Busy
  BY DEF CaptureFail, Busy
<1>3. ASSUME s \in Writing PROVE Settled(own)'
  <2>1. own \in RequestIds
    BY <1>0, <1>3 DEF CaptureInvariant, ServersInvariant, CaptureTypes, Requests
  <2> QED BY <1>1, <2>1 DEF Settled
<1>4. responses' \in [Messages -> SUBSET RequestIds]
  BY <1>1 DEF CaptureInvariant, CaptureTypes
<1> QED BY <1>0, <1>1, <1>2, <1>3, <1>4, IntakeEndKeeps

THEOREM CaptureInvariantHolds == CaptureSpec => []CaptureInvariant
<1>1. ASSUME CaptureInvariant, UNCHANGED captureVars PROVE CaptureInvariant'
  <2>1. CaptureTypes' /\ ServersInvariant' /\ DeliveriesInvariant'
    BY <1>1 DEF captureVars, CaptureInvariant, CaptureTypes, ServersInvariant, DeliveriesInvariant,
       Of, Busy, Writing
  <2>2. TracesInvariant'
    BY <1>1 DEF captureVars, CaptureInvariant, TracesInvariant, Settled, Complete, Traced, Writing
  <2> QED BY <2>1, <2>2 DEF CaptureInvariant
<1>2. CaptureInvariant /\ [CaptureNext]_captureVars => CaptureInvariant'
  BY <1>1, IntakeSendKeeps, HitKeeps, MissKeeps, CreateKeeps, WriteKeeps, FailKeeps DEF CaptureNext
<1> QED BY <1>2, CaptureStart, PTL DEF CaptureSpec

(* A delivery that an adapter passes on becomes one request, however often *)
(* it is repeated, unless two copies were served together or the first is  *)
(* off the page that captureRequestLifecycle searches.                     *)
THEOREM DeliveriesBecomeOneRequest == CaptureSpec => []OneRequestPerDelivery
<1>1. CaptureInvariant => OneRequestPerDelivery
  <2> SUFFICES ASSUME CaptureInvariant, NEW m \in Keyed \ (crossed \cup buried)
               PROVE  Cardinality(Of(m)) <= 1
    BY DEF OneRequestPerDelivery
  <2>1. \A q, r \in Of(m) : q = r
    BY DEF CaptureInvariant, DeliveriesInvariant
  <2>2. CASE Of(m) = {}
    BY <2>2, FS_EmptySet
  <2>3. CASE Of(m) # {}
    <3>1. PICK r : Of(m) = {r}
      BY <2>1, <2>3
    <3>2. Cardinality({r}) = 1
      BY FS_Singleton
    <3> QED BY <3>1, <3>2
  <2> QED BY <2>2, <2>3
<1> QED BY <1>1, CaptureInvariantHolds, PTL

(* What a sender was answered has all that captureRequestLifecycle writes  *)
(* with a request, unless the handler that made it failed.                 *)
THEOREM AnswersAreComplete == CaptureSpec => []AnsweredIsComplete
<1>1. CaptureInvariant => AnsweredIsComplete
  BY DEF CaptureInvariant, TracesInvariant, AnsweredIsComplete, Settled, Complete, Traced
<1> QED BY <1>1, CaptureInvariantHolds, PTL

(* Whatever deliveries are repeated, lost or cut short by a failure: one   *)
(* request for each, and nothing answered before it is whole.              *)
THEOREM CapturesAreExact == CaptureSpec => []CaptureIsExact
<1>1. OneRequestPerDelivery /\ AnsweredIsComplete => CaptureIsExact
  BY DEF CaptureIsExact
<1> QED BY <1>1, DeliveriesBecomeOneRequest, AnswersAreComplete, PTL

-----------------------------------------------------------------------------
(* The limits of public intake.                                            *)

WindowIs(w, k) ==
  /\ w \in [count : Nat, start : Nat, reset : Nat]
  /\ w.count <= LimitOf(k) /\ w.start <= tick
  /\ w = NoWindow \/ (w.count > 0 /\ w.start > 0 /\ w.reset = w.start + Window)

(* When a store has let the requests of a tenant through: the last times   *)
(* are of the present window, as many as it counts; those before came      *)
(* before it, and those before the last window's a window earlier.         *)
TimesAre(w, times) ==
  /\ times \in Seq(Nat) /\ w.count <= Len(times)
  /\ \A i \in 1..Len(times) :
       /\ times[i] <= tick
       /\ i <= Len(times) - w.count => times[i] < w.start
       /\ i <= Len(times) - w.count - TenantLimit => times[i] + Window < w.start
       /\ i > Len(times) - w.count => w.start <= times[i] /\ times[i] < w.reset
  /\ \A i, j \in 1..Len(times) :
       /\ i <= j => times[i] <= times[j]
       /\ i + 2 * TenantLimit <= j => times[i] + Window <= times[j]

(* A refusal is answered with a time that its window does not outlive.     *)
Outlived(r, w) ==
  /\ r.at < w.start \/ w.reset <= r.until
  /\ r.at < w.reset

RateInvariant ==
  /\ shared \in BOOLEAN /\ tick \in Nat \ {0}
  /\ intake \in [Processes -> Tenants \cup {NoTenant}]
  /\ windows \in [Stores -> [Keys -> [count : Nat, start : Nat, reset : Nat]]]
  /\ \A s \in Stores, k \in Keys : WindowIs(windows[s][k], k)
  /\ admitted \in [Stores -> [Tenants -> Seq(Nat)]]
  /\ \A s \in Stores, n \in Tenants : TimesAre(windows[s][n], admitted[s][n])
  /\ \A s \in Stores \ InUse, n \in Tenants : admitted[s][n] = <<>>
  /\ \A r \in refusals :
       r.store \in Stores /\ r.key \in Keys /\ r.at \in Nat /\ r.until \in Nat
       /\ Outlived(r, windows[r.store][r.key])
-----------------------------------------------------------------------------
LEMMA Limits ==
  /\ TenantLimit \in Nat \ {0} /\ Window \in Nat \ {0} /\ PerSecond \in Nat \ {0}
  /\ \A k \in Keys : LimitOf(k) \in Nat \ {0}
  /\ \A k \in Tenants : LimitOf(k) = TenantLimit /\ k \in Keys
BY RateAssumption DEF LimitOf, Keys

(* Rounding up: what Retry-After says, in ticks, is not less than what is  *)
(* left of the window.                                                     *)
LEMMA RoundedUp ==
  ASSUME NEW a \in Nat \ {0}, NEW b \in Nat \ {0}
  PROVE  /\ (a + b - 1) \div b \in Nat
         /\ b * ((a + b - 1) \div b) >= a
<1> DEFINE q == (a + b - 1) \div b
<1>1. q \in Int /\ b * q <= a + b - 1 /\ a + b - 1 < b * (q + 1)
  OBVIOUS
<1> HIDE DEF q
<1>2. b * (q + 1) = b * q + b
  BY <1>1
<1>3. b * q >= a /\ b * q \in Int
  BY <1>1, <1>2
<1>4. q >= 0
  BY <1>1, <1>3
<1> QED BY <1>1, <1>3, <1>4 DEF q

LEMMA RetryAfterCovers ==
  ASSUME NEW w, w.reset \in Nat, tick \in Nat, tick < w.reset
  PROVE  /\ RetryAfter(w) \in Nat
         /\ w.reset <= tick + PerSecond * RetryAfter(w)
         /\ tick + PerSecond * RetryAfter(w) \in Nat
<1> DEFINE a == w.reset - tick
           s == (a + PerSecond - 1) \div PerSecond
<1>1. a \in Nat \ {0} /\ PerSecond \in Nat \ {0}
  BY Limits
<1>2. s \in Nat /\ PerSecond * s >= a
  BY <1>1, RoundedUp
<1>3. RetryAfter(w) = IF s = 0 THEN 1 ELSE s
  BY DEF RetryAfter
<1> HIDE DEF s
<1>4. s # 0
  BY <1>1, <1>2
<1>5. RetryAfter(w) = s /\ PerSecond * s \in Nat
  BY <1>1, <1>2, <1>3, <1>4
<1> QED BY <1>1, <1>2, <1>5

-----------------------------------------------------------------------------
LEMMA RateStart == RateInit => RateInvariant
<1> SUFFICES ASSUME RateInit PROVE RateInvariant
  OBVIOUS
<1>1. NoWindow \in [count : Nat, start : Nat, reset : Nat] /\ NoWindow.count = 0 /\ NoWindow.start = 0
  BY DEF NoWindow
<1>2. \A s \in Stores, k \in Keys : windows[s][k] = NoWindow
  BY DEF RateInit
<1>3. \A s \in Stores, n \in Tenants : admitted[s][n] = <<>> /\ windows[s][n] = NoWindow
  BY <1>2, Limits DEF RateInit
<1>4. tick = 1 /\ \A k \in Keys : WindowIs(NoWindow, k)
  BY <1>1, Limits DEF RateInit, WindowIs
<1>5. TimesAre(NoWindow, <<>>)
  BY <1>1 DEF TimesAre
<1>6. windows \in [Stores -> [Keys -> [count : Nat, start : Nat, reset : Nat]]]
  BY <1>1 DEF RateInit
<1>7. admitted \in [Stores -> [Tenants -> Seq(Nat)]]
  BY DEF RateInit
<1>8. shared \in BOOLEAN /\ refusals = {} /\ intake \in [Processes -> Tenants \cup {NoTenant}]
  BY DEF RateInit
<1> QED BY <1>2, <1>3, <1>4, <1>5, <1>6, <1>7, <1>8 DEF RateInvariant

(* A request that is counted: it opens a window when the last one has      *)
(* ended, and a window has room for as many as its limit.                  *)
LEMMA CountedIs ==
  ASSUME NEW k \in Keys, NEW w, WindowIs(w, k), tick \in Nat \ {0}, ~Full(w, k)
  PROVE  /\ WindowIs(Counted(w), k)
         /\ \/ w.reset <= tick /\ Counted(w) = [count |-> 1, start |-> tick, reset |-> tick + Window]
            \/ /\ tick < w.reset /\ w.count < LimitOf(k) /\ w # NoWindow
               /\ Counted(w) = [count |-> w.count + 1, start |-> w.start, reset |-> w.reset]
<1>1. w \in [count : Nat, start : Nat, reset : Nat] /\ w.start <= tick
  BY DEF WindowIs
<1>2. LimitOf(k) \in Nat \ {0} /\ Window \in Nat \ {0}
  BY Limits
<1>3. CASE w.reset <= tick
  BY <1>2, <1>3 DEF Counted, Expired, WindowIs
<1>4. CASE ~(w.reset <= tick)
  <2>1. tick < w.reset /\ w.count < LimitOf(k)
    BY <1>1, <1>2, <1>4 DEF Full, Expired
  <2>2. w # NoWindow
    BY <2>1 DEF NoWindow
  <2>3. Counted(w) = [count |-> w.count + 1, start |-> w.start, reset |-> w.reset]
    BY <1>1, <1>4 DEF Counted, Expired
  <2> QED BY <1>1, <1>2, <2>1, <2>2, <2>3 DEF WindowIs
<1> QED BY <1>3, <1>4

(* And the time at which a tenant's is let through.                        *)
LEMMA TimesGrow ==
  ASSUME NEW n \in Tenants, NEW w, WindowIs(w, n), tick \in Nat \ {0}, ~Full(w, n),
         NEW times, TimesAre(w, times)
  PROVE  TimesAre(Counted(w), Append(times, tick))
<1> DEFINE m == Len(times)
           c == w.count
           v == Counted(w)
           longer == Append(times, tick)
<1>1. times \in Seq(Nat) /\ m \in Nat /\ c \in Nat /\ c <= m /\ w.start \in Nat /\ w.reset \in Nat /\ c <= TenantLimit
  BY Limits DEF TimesAre, WindowIs
<1>2. /\ longer \in Seq(Nat) /\ Len(longer) = m + 1 /\ longer[m + 1] = tick
      /\ \A i \in 1..(m + 1) : i # m + 1 => i \in 1..m /\ longer[i] = times[i]
  BY <1>1
<1>3. TenantLimit \in Nat \ {0} /\ Window \in Nat \ {0} /\ n \in Keys /\ LimitOf(n) = TenantLimit
  BY Limits
<1>4. \/ w.reset <= tick /\ v = [count |-> 1, start |-> tick, reset |-> tick + Window]
      \/ /\ tick < w.reset /\ c < TenantLimit /\ w # NoWindow
         /\ v = [count |-> c + 1, start |-> w.start, reset |-> w.reset]
  BY <1>3, CountedIs
<1>5. \A i \in 1..m :
        /\ times[i] \in Nat /\ times[i] <= tick
        /\ i <= m - c => times[i] < w.start
        /\ i <= m - c - TenantLimit => times[i] + Window < w.start
        /\ i > m - c => w.start <= times[i] /\ times[i] < w.reset
  BY <1>1 DEF TimesAre
<1>6. \A i, j \in 1..m :
        /\ i <= j => times[i] <= times[j]
        /\ i + 2 * TenantLimit <= j => times[i] + Window <= times[j]
  BY DEF TimesAre
<1>7. (w = NoWindow \/ (c > 0 /\ w.start > 0 /\ w.reset = w.start + Window)) /\ w.start <= tick
  BY DEF WindowIs
<1>8. w = NoWindow => c = 0 /\ w.start = 0 /\ w.reset = 0
  BY DEF NoWindow
<1>9. w = NoWindow => m = 0
  <2> SUFFICES ASSUME w = NoWindow, m # 0 PROVE FALSE
    OBVIOUS
  <2>1. 1 \in 1..m /\ 1 <= m - c
    BY <1>1, <1>8
  <2>2. times[1] < 0 /\ times[1] \in Nat
    BY <1>5, <1>8, <2>1
  <2> QED BY <2>2
<1> HIDE DEF m, c, v, longer
(* When a new window opens, those of the last one are before it, and those *)
(* before the last one a window earlier.                                   *)
<1>10. ASSUME w.reset <= tick
       PROVE  \A i \in 1..m : times[i] < tick /\ (i <= m - TenantLimit => times[i] + Window < tick)
  <2> SUFFICES ASSUME NEW i \in 1..m
               PROVE  times[i] < tick /\ (i <= m - TenantLimit => times[i] + Window < tick)
    OBVIOUS
  <2>1. w # NoWindow /\ w.reset = w.start + Window
    BY <1>1, <1>7, <1>9
  <2>2. CASE i <= m - c
    BY <1>1, <1>3, <1>5, <1>10, <2>1, <2>2
  <2>3. CASE i > m - c
    BY <1>1, <1>3, <1>5, <1>10, <2>1, <2>3
  <2> QED BY <1>1, <2>2, <2>3
<1>11. v.count \in Nat /\ v.count <= m + 1 /\ v.start \in Nat /\ v.reset \in Nat /\ v.start <= tick /\ tick < v.reset
  BY <1>1, <1>3, <1>4, <1>7, <1>8
<1>12. ASSUME NEW i \in 1..(m + 1)
       PROVE  /\ longer[i] <= tick
              /\ i <= m + 1 - v.count => longer[i] < v.start
              /\ i <= m + 1 - v.count - TenantLimit => longer[i] + Window < v.start
              /\ i > m + 1 - v.count => v.start <= longer[i] /\ longer[i] < v.reset
  <2>1. CASE i = m + 1
    <3>1. v.count > 0
      BY <1>1, <1>4
    <3> QED BY <1>1, <1>2, <1>3, <1>11, <2>1, <3>1
  <2>2. CASE i # m + 1
    <3>1. i \in 1..m /\ longer[i] = times[i]
      BY <1>2, <2>2
    <3>2. CASE w.reset <= tick
      <4>1. v.count = 1 /\ v.start = tick
        BY <1>1, <1>4, <3>2
      <4> QED BY <1>1, <1>3, <1>5, <1>10, <3>1, <3>2, <4>1
    <3>3. CASE tick < w.reset
      <4>1. v.count = c + 1 /\ v.start = w.start /\ v.reset = w.reset
        BY <1>1, <1>4, <3>3
      <4> QED BY <1>1, <1>3, <1>5, <3>1, <4>1
    <3> QED BY <1>1, <1>4, <3>2, <3>3
  <2> QED BY <2>1, <2>2
<1>13. ASSUME NEW i \in 1..(m + 1), NEW j \in 1..(m + 1)
       PROVE  /\ i <= j => longer[i] <= longer[j]
              /\ i + 2 * TenantLimit <= j => longer[i] + Window <= longer[j]
  <2>1. CASE j # m + 1
    <3>1. j \in 1..m /\ longer[j] = times[j] /\ (i # m + 1 => i \in 1..m /\ longer[i] = times[i])
      BY <1>2, <2>1
    <3>2. i = m + 1 => ~(i <= j) /\ ~(i + 2 * TenantLimit <= j)
      BY <1>1, <1>3, <3>1
    <3> QED BY <1>6, <3>1, <3>2
  <2>2. CASE j = m + 1 /\ i = m + 1
    BY <1>1, <1>2, <1>3, <2>2
  <2>3. CASE j = m + 1 /\ i # m + 1
    <3>1. i \in 1..m /\ longer[i] = times[i] /\ longer[j] = tick
      BY <1>2, <2>3
    <3>2. times[i] \in Nat /\ times[i] <= tick
      BY <1>5, <3>1
    <3>3. ASSUME i + 2 * TenantLimit <= m + 1
          PROVE  times[i] + Window <= tick
      <4>1. CASE w.reset <= tick
        <5>1. i <= m - TenantLimit
          BY <1>1, <1>3, <3>3
        <5> QED BY <1>10, <1>3, <3>1, <3>2, <4>1, <5>1
      <4>2. CASE tick < w.reset
        <5>1. i <= m - c - TenantLimit
          BY <1>1, <1>3, <1>4, <3>3, <4>2
        <5>2. times[i] + Window < w.start
          BY <1>5, <3>1, <5>1
        <5> QED BY <1>1, <1>3, <1>7, <1>8, <3>2, <5>2
      <4> QED BY <1>4, <4>1, <4>2
    <3> QED BY <2>3, <3>1, <3>2, <3>3
  <2> QED BY <2>1, <2>2, <2>3
<1>14. TimesAre(v, longer)
  <2>1. \A i \in 1..Len(longer) :
          /\ longer[i] <= tick
          /\ i <= Len(longer) - v.count => longer[i] < v.start
          /\ i <= Len(longer) - v.count - TenantLimit => longer[i] + Window < v.start
          /\ i > Len(longer) - v.count => v.start <= longer[i] /\ longer[i] < v.reset
    <3>1. Len(longer) = m + 1
      BY <1>2
    <3>2. ASSUME NEW i \in 1..Len(longer)
          PROVE  /\ longer[i] <= tick
                 /\ i <= Len(longer) - v.count => longer[i] < v.start
                 /\ i <= Len(longer) - v.count - TenantLimit => longer[i] + Window < v.start
                 /\ i > Len(longer) - v.count => v.start <= longer[i] /\ longer[i] < v.reset
      <4>1. i \in 1..(m + 1)
        BY <3>1
      <4> QED BY <1>1, <1>3, <1>11, <1>12, <3>1, <4>1
    <3> QED BY <3>2
  <2>2. \A i, j \in 1..Len(longer) :
          /\ i <= j => longer[i] <= longer[j]
          /\ i + 2 * TenantLimit <= j => longer[i] + Window <= longer[j]
    BY <1>2, <1>13, Zenon
  <2> QED BY <1>2, <1>11, <2>1, <2>2, Zenon DEF TimesAre
<1> QED BY <1>14 DEF v, longer

(* The clock goes on.                                                      *)
LEMMA TickKeeps ==
  ASSUME RateInvariant, RateTick
  PROVE  RateInvariant'
<1>1. /\ tick' = tick + 1 /\ tick \in Nat /\ shared' = shared /\ windows' = windows /\ intake' = intake
      /\ admitted' = admitted /\ refusals' = refusals
  BY DEF RateInvariant, RateTick
<1>2. ASSUME NEW s \in Stores, NEW k \in Keys
      PROVE  WindowIs(windows[s][k], k)'
  <2>1. WindowIs(windows[s][k], k)
    BY DEF RateInvariant
  <2> QED BY <1>1, <2>1 DEF WindowIs, LimitOf, NoWindow
<1>3. ASSUME NEW s \in Stores, NEW n \in Tenants
      PROVE  TimesAre(windows[s][n], admitted[s][n])'
  <2> DEFINE w == windows[s][n]
             times == admitted[s][n]
  <2>1. TimesAre(w, times) /\ w' = w /\ times' = times
    BY <1>1 DEF RateInvariant
  <2>2. times \in Seq(Nat)
    BY <2>1, Zenon DEF TimesAre
  <2> HIDE DEF w, times
  <2>3. \A i \in 1..Len(times) : times[i] <= tick + 1
    <3>1. \A i \in 1..Len(times) : times[i] \in Nat /\ times[i] <= tick
      BY <2>1, <2>2 DEF TimesAre
    <3> QED BY <1>1, <3>1
  <2>4. TimesAre(w, times)'
    BY <1>1, <2>1, <2>3, Zenon DEF TimesAre
  <2> QED BY <2>4 DEF w, times
<1>4. tick' \in Nat \ {0}
  BY <1>1
<1> QED BY <1>1, <1>2, <1>3, <1>4 DEF RateInvariant, Outlived, InUse

(* A window that counts one more, for whoever has been refused before.     *)
LEMMA ConsumeKeeps ==
  ASSUME RateInvariant, NEW s \in Stores, s \in InUse, NEW k \in Keys, ~Full(windows[s][k], k), Consume(s, k),
         tick' = tick, shared' = shared, refusals' = refusals,
         intake' \in [Processes -> Tenants \cup {NoTenant}],
         \/ k \notin Tenants /\ admitted' = admitted
         \/ k \in Tenants /\ admitted' = [admitted EXCEPT ![s][k] = Append(@, tick)]
  PROVE  RateInvariant'
<1> DEFINE W == [count : Nat, start : Nat, reset : Nat]
           v == Counted(windows[s][k])
<1>1. windows \in [Stores -> [Keys -> W]] /\ tick \in Nat \ {0} /\ WindowIs(windows[s][k], k)
  BY DEF RateInvariant
<1>2. /\ WindowIs(v, k) /\ v \in W
      /\ \/ windows[s][k].reset <= tick /\ v = [count |-> 1, start |-> tick, reset |-> tick + Window]
         \/ tick < windows[s][k].reset /\ v.start = windows[s][k].start /\ v.reset = windows[s][k].reset
  BY <1>1, CountedIs DEF WindowIs
<1>3. windows' = [windows EXCEPT ![s][k] = v]
  BY DEF Consume
<1> HIDE DEF v
<1>4. /\ windows' \in [Stores -> [Keys -> W]]
      /\ \A q \in Stores, l \in Keys :
           windows'[q][l] = IF q = s /\ l = k THEN v ELSE windows[q][l]
  BY <1>1, <1>2, <1>3
<1>5. ASSUME NEW q \in Stores, NEW l \in Keys
      PROVE  WindowIs(windows[q][l], l)'
  <2>1. WindowIs(windows'[q][l], l)
    BY <1>2, <1>4 DEF RateInvariant
  <2> QED BY <2>1 DEF WindowIs, LimitOf, NoWindow
<1>6. /\ admitted' \in [Stores -> [Tenants -> Seq(Nat)]]
      /\ \A q \in Stores, n \in Tenants :
           admitted'[q][n] = IF q = s /\ n = k THEN Append(admitted[s][k], tick) ELSE admitted[q][n]
  <2>1. admitted \in [Stores -> [Tenants -> Seq(Nat)]]
    BY DEF RateInvariant
  <2>2. CASE k \notin Tenants /\ admitted' = admitted
    BY <2>1, <2>2
  <2>3. CASE k \in Tenants /\ admitted' = [admitted EXCEPT ![s][k] = Append(@, tick)]
    <3> DEFINE longer == Append(admitted[s][k], tick)
    <3>1. longer \in Seq(Nat)
      BY <1>1, <2>1, <2>3
    <3>2. admitted' = [admitted EXCEPT ![s][k] = longer]
      BY <2>3
    <3> HIDE DEF longer
    <3>3. admitted' \in [Stores -> [Tenants -> Seq(Nat)]]
      BY <2>1, <2>3, <3>1, <3>2
    <3>4. \A q \in Stores, n \in Tenants :
            admitted'[q][n] = IF q = s /\ n = k THEN longer ELSE admitted[q][n]
      <4>1. ASSUME NEW q \in Stores, NEW n \in Tenants
            PROVE  admitted'[q][n] = IF q = s /\ n = k THEN longer ELSE admitted[q][n]
        <5>1. admitted'[q] = IF q = s THEN [admitted[s] EXCEPT ![k] = longer] ELSE admitted[q]
          BY <2>1, <3>2
        <5> QED BY <2>1, <2>3, <5>1
      <4> QED BY <4>1
    <3> QED BY <3>3, <3>4 DEF longer
  <2> QED BY <2>2, <2>3
<1>7. ASSUME NEW q \in Stores, NEW n \in Tenants
      PROVE  TimesAre(windows[q][n], admitted[q][n])'
  <2>1. TimesAre(windows'[q][n], admitted'[q][n])
    <3>1. n \in Keys
      BY Limits
    <3>2. TimesAre(windows[q][n], admitted[q][n])
      BY DEF RateInvariant
    <3>3. CASE q = s /\ n = k
      <4>1. TimesAre(v, Append(admitted[s][k], tick))
        BY <1>1, <3>2, <3>3, TimesGrow DEF v
      <4> QED BY <1>4, <1>6, <3>1, <3>3, <4>1
    <3>4. CASE ~(q = s /\ n = k)
      BY <1>4, <1>6, <3>1, <3>2, <3>4
    <3> QED BY <3>3, <3>4
  <2> QED BY <2>1 DEF TimesAre
<1>8. ASSUME NEW r \in refusals
      PROVE  Outlived(r, windows'[r.store][r.key])
  <2>1. r.store \in Stores /\ r.key \in Keys /\ r.at \in Nat /\ Outlived(r, windows[r.store][r.key])
    BY DEF RateInvariant
  <2>2. CASE r.store = s /\ r.key = k
    <3>1. Outlived(r, windows[s][k]) /\ windows'[r.store][r.key] = v
      BY <1>4, <2>1, <2>2
    <3>2. Window \in Nat \ {0} /\ windows[s][k].reset \in Nat
      BY <1>1, Limits
    <3>3. CASE windows[s][k].reset <= tick /\ v = [count |-> 1, start |-> tick, reset |-> tick + Window]
      BY <1>1, <2>1, <3>1, <3>2, <3>3 DEF Outlived
    <3>4. CASE v.start = windows[s][k].start /\ v.reset = windows[s][k].reset
      BY <3>1, <3>4 DEF Outlived
    <3> QED BY <1>2, <3>3, <3>4
  <2>3. CASE ~(r.store = s /\ r.key = k)
    BY <1>4, <2>1, <2>3
  <2> QED BY <2>2, <2>3
<1>9. \A q \in Stores \ InUse', n \in Tenants : admitted'[q][n] = <<>>
  BY <1>6 DEF RateInvariant, InUse
<1> QED BY <1>1, <1>4, <1>5, <1>6, <1>7, <1>8, <1>9 DEF RateInvariant

(* Who is refused, is told a time that the window does not outlive.        *)
LEMMA RefusalKeeps ==
  ASSUME RateInvariant, NEW s \in Stores, NEW k \in Keys, Full(windows[s][k], k), Refused(s, k),
         tick' = tick, shared' = shared, windows' = windows, admitted' = admitted,
         intake' \in [Processes -> Tenants \cup {NoTenant}]
  PROVE  RateInvariant'
<1> DEFINE until == tick + PerSecond * RetryAfter(windows[s][k])
           r == [store |-> s, key |-> k, at |-> tick, until |-> until]
<1>1. tick \in Nat /\ windows[s][k].reset \in Nat /\ windows[s][k].start \in Nat /\ tick < windows[s][k].reset
  BY DEF RateInvariant, Full, Expired
<1>2. until \in Nat /\ windows[s][k].reset <= until
  BY <1>1, RetryAfterCovers
<1> HIDE DEF until
<1>3. refusals' = {r} \/ refusals' = refusals
  BY Zenon DEF Refused, until
<1>4. Outlived(r, windows[s][k])
  BY <1>1, <1>2 DEF Outlived
<1>5. \A q \in refusals' :
        /\ q.store \in Stores /\ q.key \in Keys /\ q.at \in Nat /\ q.until \in Nat
        /\ Outlived(q, windows[q.store][q.key])
  BY <1>1, <1>2, <1>3, <1>4 DEF RateInvariant
<1>6. ASSUME NEW q \in Stores, NEW l \in Keys
      PROVE  WindowIs(windows[q][l], l)'
  BY DEF RateInvariant, WindowIs, LimitOf, NoWindow
<1>7. ASSUME NEW q \in Stores, NEW n \in Tenants
      PROVE  TimesAre(windows[q][n], admitted[q][n])'
  BY DEF RateInvariant, TimesAre
<1> QED BY <1>5, <1>6, <1>7 DEF RateInvariant, InUse

LEMMA RateStep == RateInvariant /\ [RateNext]_rateVars => RateInvariant'
<1> SUFFICES ASSUME RateInvariant, [RateNext]_rateVars PROVE RateInvariant'
  OBVIOUS
<1>1. CASE UNCHANGED rateVars
  BY <1>1 DEF rateVars, RateInvariant, WindowIs, TimesAre, Outlived, LimitOf, NoWindow, InUse
<1>2. ASSUME NEW p \in Processes, NEW a \in Addresses, NEW n \in Tenants,
             UNCHANGED <<shared, tick, admitted>>,
             IF Full(windows[Store(p)][a], a) THEN Refused(Store(p), a) /\ UNCHANGED <<windows, intake>>
             ELSE Consume(Store(p), a) /\ intake' = [intake EXCEPT ![p] = n] /\ UNCHANGED refusals
      PROVE  RateInvariant'
  <2>1. Store(p) \in Stores /\ Store(p) \in InUse /\ a \in Keys /\ a \notin Tenants
    BY RateAssumption DEF Store, Stores, InUse, Keys
  <2>2. intake' \in [Processes -> Tenants \cup {NoTenant}]
    BY <1>2 DEF RateInvariant
  <2>3. CASE Full(windows[Store(p)][a], a)
    BY <1>2, <2>1, <2>2, <2>3, RefusalKeeps
  <2>4. CASE ~Full(windows[Store(p)][a], a)
    BY <1>2, <2>1, <2>2, <2>4, ConsumeKeeps
  <2> QED BY <2>3, <2>4
<1>3. ASSUME NEW p \in Processes, EnforceTenant(p)
      PROVE  RateInvariant'
  <2> DEFINE s == Store(p)
             n == intake[p]
  <2>1. s \in Stores /\ s \in InUse /\ n \in Tenants /\ n \in Keys
    BY <1>3, Limits DEF Store, Stores, InUse, RateInvariant, EnforceTenant
  <2>2. intake' \in [Processes -> Tenants \cup {NoTenant}]
    BY <1>3 DEF RateInvariant, EnforceTenant
  <2>3. CASE Full(windows[s][n], n)
    <3>1. Refused(s, n) /\ UNCHANGED <<windows, admitted, shared, tick>>
      BY <1>3, <2>3 DEF EnforceTenant
    <3> QED BY <2>1, <2>2, <2>3, <3>1, RefusalKeeps
  <2>4. CASE ~Full(windows[s][n], n)
    <3>1. /\ Consume(s, n) /\ admitted' = [admitted EXCEPT ![s][n] = Append(@, tick)]
          /\ UNCHANGED <<refusals, shared, tick>>
      BY <1>3, <2>4 DEF EnforceTenant
    <3> QED BY <2>1, <2>2, <2>4, <3>1, ConsumeKeeps
  <2> QED BY <2>3, <2>4
<1>4. CASE RateTick
  BY <1>4, TickKeeps
<1> QED BY <1>1, <1>2, <1>3, <1>4, Zenon DEF RateNext, Dispatch

(* Every counter counts the requests its store has let through in its      *)
(* window, and a refusal names a time at which that window is over.        *)
THEOREM RateInvariantHolds == RateSpec => []RateInvariant
<1> QED BY RateStart, RateStep, PTL DEF RateSpec

(* No more than two windows' worth in a stretch as long as one: the entry  *)
(* that many places on is a window later.                                  *)
LEMMA StretchBounded ==
  ASSUME NEW w, NEW times, TimesAre(w, times), NEW t \in Nat
  PROVE  \E f : f \in Injection(During(times, t), 1..(2 * TenantLimit))
<1> DEFINE D == During(times, t)
           L == 2 * TenantLimit
<1>1. times \in Seq(Nat) /\ L \in Nat /\ Window \in Nat
  BY Limits DEF TimesAre
<1>2. \A i \in D : i \in 1..Len(times) /\ i \in Nat /\ times[i] \in Nat /\ t <= times[i] /\ times[i] < t + Window
  BY <1>1 DEF During
<1>3. \A i, j \in D : ~(i + L <= j)
  <2> SUFFICES ASSUME NEW i \in D, NEW j \in D, i + L <= j PROVE FALSE
    OBVIOUS
  <2>1. times[i] + Window <= times[j]
    BY <1>2 DEF TimesAre
  <2>2. times[i] \in Nat /\ times[j] \in Nat /\ t <= times[i] /\ times[j] < t + Window
    BY <1>2
  <2> HIDE DEF D
  <2> QED BY <1>1, <2>1, <2>2
<1> HIDE DEF D, L
<1>4. CASE D = {}
  <2>1. [i \in {} |-> 1] \in [{} -> 1..L]
    OBVIOUS
  <2>2. [i \in {} |-> 1] \in Injection(D, 1..L)
    BY <1>4, <2>1 DEF Injection, IsInjective
  <2> QED BY <2>2 DEF D, L
<1>5. CASE D # {}
  <2>1. PICK a \in D : \A i \in D : a <= i
    <3>1. D \subseteq 1..Len(times) /\ Len(times) \in Nat
      BY <1>1, <1>2
    <3>2. IsFiniteSet(D) /\ D \subseteq Nat
      <4>1. 1 \in Int /\ Len(times) \in Int
        BY <3>1
      <4>2. IsFiniteSet(1..Len(times))
        BY <4>1, FS_Interval
      <4>3. D \in SUBSET (1..Len(times))
        BY <3>1
      <4>4. IsFiniteSet(D)
        BY <4>2, <4>3, FS_Subset, Zenon
      <4> QED BY <3>1, <4>4
    <3> QED BY <1>5, <3>2, HasLeast
  <2> DEFINE f == [i \in D |-> i - a + 1]
  <2>2. \A i \in D : i - a + 1 \in 1..L
    <3> SUFFICES ASSUME NEW i \in D PROVE i - a + 1 \in 1..L
      OBVIOUS
    <3>1. a <= i /\ ~(a + L <= i) /\ i \in Nat /\ a \in Nat
      BY <1>2, <1>3, <2>1
    <3> QED BY <1>1, <3>1
  <2>3. \A i, j \in D : i - a + 1 = j - a + 1 => i = j
    BY <1>2
  <2>4. f \in Injection(D, 1..L)
    BY <2>2, <2>3 DEF Injection, IsInjective
  <2> QED BY <2>4 DEF D, L
<1> QED BY <1>4, <1>5

LEMMA AdmissionsBounded ==
  ASSUME RateInvariant, NEW n \in Tenants, NEW t \in Nat
  PROVE  Cardinality(LetThrough(n, t)) <= 2 * TenantLimit * Cardinality(InUse)
<1> DEFINE L == 2 * TenantLimit
           F(s) == CHOOSE f : f \in Injection(During(admitted[s][n], t), 1..L)
           g == [x \in LetThrough(n, t) |-> <<x[1], F(x[1])[x[2]]>>]
<1>1. IsFiniteSet(InUse)
  BY RateAssumption, FS_Singleton DEF InUse
<1>2. L \in Nat
  BY Limits
<1>3. \A s \in Stores : F(s) \in Injection(During(admitted[s][n], t), 1..L)
  <2> SUFFICES ASSUME NEW s \in Stores
               PROVE  F(s) \in Injection(During(admitted[s][n], t), 1..L)
    OBVIOUS
  <2>1. \E f : f \in Injection(During(admitted[s][n], t), 1..L)
    BY StretchBounded DEF RateInvariant
  <2> QED BY <2>1, Zenon
<1>4. \A x \in LetThrough(n, t) : /\ x = <<x[1], x[2]>> /\ x[1] \in Stores /\ x[1] \in InUse
                                 /\ x[2] \in During(admitted[x[1]][n], t)
  <2> SUFFICES ASSUME NEW x \in LetThrough(n, t)
               PROVE  /\ x = <<x[1], x[2]>> /\ x[1] \in Stores /\ x[1] \in InUse
                      /\ x[2] \in During(admitted[x[1]][n], t)
    OBVIOUS
  <2>1. PICK s \in Stores : x \in {s} \X During(admitted[s][n], t)
    BY DEF LetThrough
  <2>2. x = <<x[1], x[2]>> /\ x[1] = s /\ x[2] \in During(admitted[s][n], t)
    BY <2>1
  <2>3. s \in InUse
    <3> SUFFICES ASSUME s \notin InUse PROVE FALSE
      OBVIOUS
    <3>1. admitted[s][n] = <<>>
      BY DEF RateInvariant
    <3> QED BY <2>2, <3>1 DEF During
  <2> QED BY <2>2, <2>3
<1> HIDE DEF F, L
<1>5. \A s \in Stores : /\ F(s) \in [During(admitted[s][n], t) -> 1..L]
                        /\ \A i, j \in During(admitted[s][n], t) : F(s)[i] = F(s)[j] => i = j
  BY <1>3 DEF Injection, IsInjective
<1>6. g \in [LetThrough(n, t) -> InUse \X (1..L)]
  BY <1>4, <1>5
<1>7. ASSUME NEW x \in LetThrough(n, t), NEW y \in LetThrough(n, t), g[x] = g[y]
      PROVE  x = y
  <2>1. x[1] = y[1] /\ F(x[1])[x[2]] = F(y[1])[y[2]]
    BY <1>7
  <2>2. x[2] = y[2]
    BY <1>4, <1>5, <2>1
  <2> QED BY <1>4, <2>1, <2>2
<1>8. g \in Injection(LetThrough(n, t), InUse \X (1..L))
  BY <1>6, <1>7 DEF Injection, IsInjective
<1>9. IsFiniteSet(1..L) /\ Cardinality(1..L) = L
  <2>1. 1 \in Int /\ L \in Int
    BY <1>2
  <2>2. IsFiniteSet(1..L) /\ Cardinality(1..L) = IF 1 > L THEN 0 ELSE L - 1 + 1
    BY <2>1, FS_Interval
  <2> QED BY <1>2, <2>2
<1>10. IsFiniteSet(InUse \X (1..L)) /\ Cardinality(InUse \X (1..L)) = Cardinality(InUse) * L
  BY <1>1, <1>9, FS_Product
<1>11. Cardinality(LetThrough(n, t)) <= Cardinality(InUse) * L
  <2> HIDE DEF g
  <2> QED BY <1>8, <1>10, FS_Injection
<1>12. Cardinality(InUse) \in Nat
  BY <1>1, FS_CardinalityType
<1> QED BY <1>2, <1>11, <1>12 DEF L

(* The rate limits of public intake, for any number of processes, tenants, *)
(* addresses, limits and length of a window: what is let through in any    *)
(* stretch as long as a window, and what a Retry-After promises.           *)
THEOREM LimitIsAlwaysHonest == RateSpec => []LimitIsHonest
<1>1. RateInvariant => LimitIsHonest
  <2> SUFFICES ASSUME RateInvariant PROVE LimitIsHonest
    OBVIOUS
  <2>1. AdmissionBounded
    <3>1. MaxTicks \in Nat /\ 1..MaxTicks \subseteq Nat
      BY RateAssumption
    <3> QED BY <3>1, AdmissionsBounded DEF AdmissionBounded
  <2>2. RetryAfterHonest
    <3> SUFFICES ASSUME NEW r \in refusals, r.until <= tick
                 PROVE  Expired(windows[r.store][r.key]) \/ windows[r.store][r.key].start > r.at
      BY DEF RetryAfterHonest
    <3>1. /\ r.store \in Stores /\ r.key \in Keys /\ r.at \in Nat /\ r.until \in Nat /\ tick \in Nat
          /\ windows[r.store][r.key] \in [count : Nat, start : Nat, reset : Nat]
          /\ Outlived(r, windows[r.store][r.key])
      BY DEF RateInvariant
    <3> QED BY <3>1 DEF Outlived, Expired
  <2> QED BY <2>1, <2>2 DEF LimitIsHonest
<1> QED BY <1>1, RateInvariantHolds, PTL

-----------------------------------------------------------------------------
(* The audit trail.                                                        *)

Untouched == ~tampered /\ ~truncated
Sending   == {w \in Writers : auditPc[w] = "send"}

(* A record with the fields of an entry, whatever their values.            *)
IsEntry(e) == \E V : e \in [id : V, seq : V, prev : V, key : V, was : V]

AuditTypes ==
  /\ auditPc \in [Writers -> {"idle", "read", "insert", "send"}]
  /\ entry = [w \in Writers |-> entry[w]] /\ \A w \in Writers : IsEntry(entry[w])
  /\ sends \in [ReplayKeys -> Nat]

(* Who appends a marker does so under the key of the replay.               *)
MarkersInvariant ==
  /\ \A w \in Writers : entry[w].id \in ReplayKeys => entry[w].key = entry[w].id
  /\ \A w \in Sending : entry[w].id \in ReplayKeys

SendersInvariant ==
  Untouched =>
    /\ \A w \in Sending : Stored(entry[w].key) /\ sends[entry[w].key] = 0
    /\ \A v, w \in Sending : v # w => entry[v].key # entry[w].key

ReplayInvariant == AuditTypes /\ MarkersInvariant /\ SendersInvariant /\ ReplaySentOnce

-----------------------------------------------------------------------------
LEMMA NoEntryIsAnEntry == IsEntry(NoEntry) /\ NoEntry.id = NoEvent
<1> DEFINE V == {NoEvent, 0, NoHash, "unread"}
<1>1. NoEntry \in [id : V, seq : V, prev : V, key : V, was : V]
  BY DEF NoEntry
<1> QED BY <1>1 DEF IsEntry, NoEntry

(* Entries are updated field by field.                                     *)
LEMMA EntryGetsId ==
  ASSUME NEW e, IsEntry(e), NEW a
  PROVE  /\ IsEntry([e EXCEPT !.id = a])
         /\ [e EXCEPT !.id = a].id = a
<1>1. PICK V : e \in [id : V, seq : V, prev : V, key : V, was : V]
  BY DEF IsEntry
<1> DEFINE W == V \cup {a}
<1>2. e \in [id : W, seq : W, prev : W, key : W, was : W] /\ a \in W
  BY <1>1
<1> HIDE DEF W
<1> QED BY <1>2 DEF IsEntry

LEMMA EntryGetsKey ==
  ASSUME NEW e, IsEntry(e), NEW k, NEW d
  PROVE  /\ IsEntry([e EXCEPT !.id = k, !.key = k, !.was = d])
         /\ [e EXCEPT !.id = k, !.key = k, !.was = d].id = k
         /\ [e EXCEPT !.id = k, !.key = k, !.was = d].key = k
<1>1. PICK V : e \in [id : V, seq : V, prev : V, key : V, was : V]
  BY DEF IsEntry
<1> DEFINE W == V \cup {k, d}
<1>2. e \in [id : W, seq : W, prev : W, key : W, was : W] /\ k \in W /\ d \in W
  BY <1>1
<1> HIDE DEF W
<1> QED BY <1>2 DEF IsEntry

LEMMA AuditStart == AuditInit => ReplayInvariant
<1> SUFFICES ASSUME AuditInit PROVE ReplayInvariant
  OBVIOUS
<1> USE AuditAssumption
<1>1. AuditTypes
  BY NoEntryIsAnEntry DEF AuditInit, AuditTypes
<1>2. Sending = {}
  BY DEF AuditInit, Sending
<1>3. MarkersInvariant
  BY <1>2 DEF AuditInit, MarkersInvariant, NoEntry
<1> QED BY <1>1, <1>2, <1>3
     DEF ReplayInvariant, SendersInvariant, ReplaySentOnce, AuditInit

(* A writer that ends is not sending and has no event.                     *)
LEMMA Ends ==
  ASSUME AuditTypes, NEW w \in Writers, AuditEnd(w)
  PROVE  /\ auditPc' \in [Writers -> {"idle", "read", "insert", "send"}]
         /\ entry' = [v \in Writers |-> entry'[v]] /\ \A v \in Writers : IsEntry(entry'[v])
         /\ Sending' = Sending \ {w} /\ entry'[w] = NoEntry
         /\ \A v \in Writers : v # w => entry'[v] = entry[v]
<1>1. auditPc' = [auditPc EXCEPT ![w] = "idle"] /\ entry' = [entry EXCEPT ![w] = NoEntry]
  BY DEF AuditEnd, AuditGoto
<1>2. \A v \in Writers : entry'[v] = IF v = w THEN NoEntry ELSE entry[v]
  BY <1>1 DEF AuditTypes
<1>3. IsEntry(NoEntry)
  BY NoEntryIsAnEntry
<1>4. entry' = [v \in Writers |-> entry'[v]]
  BY <1>1 DEF AuditTypes
<1>5. Sending' = Sending \ {w}
  BY <1>1 DEF AuditTypes, Sending
<1> QED BY <1>1, <1>2, <1>3, <1>4, <1>5 DEF AuditTypes

(* What does not send, and takes nothing from the trail, keeps it all.     *)
LEMMA QuietKeeps ==
  ASSUME ReplayInvariant, AuditTypes', MarkersInvariant', Sending' \subseteq Sending,
         \A w \in Sending' : entry'[w].key = entry[w].key,
         chain \subseteq chain', sends' = sends, tampered' = tampered, truncated' = truncated
  PROVE  ReplayInvariant'
<1>1. \A k : Stored(k) => Stored(k)'
  BY DEF Stored
<1>2. ReplaySentOnce'
  BY <1>1 DEF ReplayInvariant, ReplaySentOnce
<1>3. SendersInvariant'
  BY <1>1 DEF ReplayInvariant, SendersInvariant, Untouched
<1> QED BY <1>2, <1>3 DEF ReplayInvariant

LEMMA EndKeeps ==
  ASSUME ReplayInvariant, NEW w \in Writers, AuditEnd(w),
         chain \subseteq chain', sends' = sends, tampered' = tampered, truncated' = truncated
  PROVE  ReplayInvariant'
<1> USE AuditAssumption
<1>1. AuditTypes'
  BY Ends DEF ReplayInvariant, AuditTypes
<1>2. /\ Sending' = Sending \ {w} /\ entry'[w] = NoEntry
      /\ \A v \in Writers : v # w => entry'[v] = entry[v]
  BY Ends DEF ReplayInvariant
<1>3. MarkersInvariant'
  BY <1>2 DEF ReplayInvariant, MarkersInvariant, NoEntry, Sending
<1>4. Sending' \subseteq Sending /\ \A v \in Sending' : entry'[v].key = entry[v].key
  BY <1>2 DEF Sending
<1> QED BY <1>1, <1>3, <1>4, QuietKeeps

(* A writer begins, or has read the chain.                                 *)
LEMMA BeginKeeps ==
  ASSUME ReplayInvariant, NEW w \in Writers, StartEvent(w) \/ StartReplay(w) \/ ReadChain(w)
  PROVE  ReplayInvariant'
<1> USE AuditAssumption
<1>0. IsEntry(entry[w])
  BY DEF ReplayInvariant, AuditTypes
<1>1. PICK x :
        /\ entry' = [entry EXCEPT ![w] = x] /\ IsEntry(x)
        /\ x.id \in ReplayKeys => x.key = x.id
  <2>1. CASE StartEvent(w)
    <3>1. PICK e \in Fresh : entry' = [entry EXCEPT ![w].id = e]
      BY <2>1 DEF StartEvent
    <3>2. [entry[w] EXCEPT !.id = e].id = e /\ IsEntry([entry[w] EXCEPT !.id = e])
      BY <1>0, EntryGetsId, Zenon
    <3>3. e \notin ReplayKeys
      BY DEF Fresh
    <3> QED BY <3>1, <3>2, <3>3
  <2>2. CASE StartReplay(w)
    <3>1. PICK k \in ReplayKeys :
            entry' = [entry EXCEPT ![w].id = k, ![w].key = k, ![w].was = dispatch]
      BY <2>2 DEF StartReplay
    <3> DEFINE x == [entry[w] EXCEPT !.id = k, !.key = k, !.was = dispatch]
    <3>2. /\ IsEntry([entry[w] EXCEPT !.id = k, !.key = k, !.was = dispatch])
          /\ [entry[w] EXCEPT !.id = k, !.key = k, !.was = dispatch].id = k
          /\ [entry[w] EXCEPT !.id = k, !.key = k, !.was = dispatch].key = k
      BY <1>0, EntryGetsKey, Zenon
    <3>3. entry' = [entry EXCEPT ![w] = x]
      BY <3>1 DEF ReplayInvariant, AuditTypes
    <3> QED BY <3>2, <3>3
  <2>3. CASE ReadChain(w)
    <3>1. PICK n, prev : entry' = [entry EXCEPT ![w].seq = n, ![w].prev = prev]
      BY <2>3 DEF ReadChain
    <3> DEFINE x == [entry[w] EXCEPT !.seq = n, !.prev = prev]
    <3>2. PICK V : entry[w] \in [id : V, seq : V, prev : V, key : V, was : V]
      BY <1>0 DEF IsEntry
    <3> DEFINE W == V \cup {n, prev}
    <3>3. entry[w] \in [id : W, seq : W, prev : W, key : W, was : W] /\ n \in W /\ prev \in W
      BY <3>2
    <3>4. /\ x \in [id : W, seq : W, prev : W, key : W, was : W]
          /\ x.id = entry[w].id /\ x.key = entry[w].key
      BY <3>3
    <3>5. IsEntry(x)
      BY <3>4 DEF IsEntry
    <3>6. entry' = [entry EXCEPT ![w] = x]
      BY <3>1 DEF ReplayInvariant, AuditTypes
    <3> QED BY <3>4, <3>5, <3>6 DEF ReplayInvariant, MarkersInvariant
  <2> QED BY <2>1, <2>2, <2>3
<1>2. /\ auditPc' \in [Writers -> {"idle", "read", "insert", "send"}]
      /\ Sending' = Sending /\ w \notin Sending
  <2>1. PICK label \in {"read", "insert"} : auditPc' = [auditPc EXCEPT ![w] = label]
    BY DEF StartEvent, StartReplay, ReadChain, AuditGoto
  <2>2. auditPc[w] # "send"
    BY DEF StartEvent, StartReplay, ReadChain
  <2> QED BY <2>1, <2>2 DEF ReplayInvariant, AuditTypes, Sending
<1>3. chain' = chain /\ sends' = sends /\ tampered' = tampered /\ truncated' = truncated
  BY DEF StartEvent, StartReplay, ReadChain, AuditQuiet
<1>4. \A v \in Writers : entry'[v] = IF v = w THEN x ELSE entry[v]
  BY <1>1 DEF ReplayInvariant, AuditTypes
<1>5. entry' = [v \in Writers |-> entry'[v]]
  BY <1>1 DEF ReplayInvariant, AuditTypes
<1>6. AuditTypes'
  BY <1>1, <1>2, <1>3, <1>4, <1>5 DEF ReplayInvariant, AuditTypes
<1>7. MarkersInvariant'
  BY <1>1, <1>2, <1>4 DEF ReplayInvariant, MarkersInvariant, Sending
<1>8. \A v \in Sending' : entry'[v].key = entry[v].key
  BY <1>2, <1>4 DEF Sending
<1> QED BY <1>2, <1>3, <1>6, <1>7, <1>8, QuietKeeps

(* A marker goes in where there was none: nobody has sent under its key.   *)
LEMMA InsertKeeps ==
  ASSUME ReplayInvariant, NEW w \in Writers, Insert(w)
  PROVE  ReplayInvariant'
<1>1. CASE entry[w].id \notin ReplayKeys
  <2>1. AuditEnd(w)
    BY <1>1 DEF Insert
  <2>2. chain \subseteq chain' /\ sends' = sends /\ tampered' = tampered /\ truncated' = truncated
    BY DEF Insert
  <2> QED BY <2>1, <2>2, EndKeeps
<1>2. CASE entry[w].id \in ReplayKeys
  <2> DEFINE k == entry[w].id
  <2>1. /\ auditPc' = [auditPc EXCEPT ![w] = "send"] /\ entry' = entry /\ ~Stored(k)
        /\ sends' = sends /\ tampered' = tampered /\ truncated' = truncated
    BY <1>2 DEF Insert, AuditGoto
  <2>2. entry[w].key = k
    BY <1>2 DEF ReplayInvariant, MarkersInvariant
  <2>3. Sending' = Sending \cup {w} /\ AuditTypes'
    BY <2>1 DEF ReplayInvariant, AuditTypes, Sending
  <2>4. MarkersInvariant'
    BY <1>2, <2>1, <2>3 DEF ReplayInvariant, MarkersInvariant
  <2>5. Stored(k)' /\ \A j : Stored(j) => Stored(j)'
    <3> DEFINE new == [id |-> entry[w].id, content |-> "stored", seq |-> entry[w].seq,
                       prev |-> entry[w].prev,
                       hash |-> Digest(entry[w].id, "stored", entry[w].seq, entry[w].prev)]
    <3>1. chain' = chain \cup {new} /\ new.id = k
      BY DEF Insert
    <3> HIDE DEF new
    <3> QED BY <2>1, <3>1 DEF Stored
  <2>6. ReplaySentOnce'
    BY <2>1, <2>5 DEF ReplayInvariant, ReplaySentOnce
  <2>7. ASSUME Untouched' PROVE SendersInvariant'
    <3>1. Untouched
      BY <2>1, <2>7 DEF Untouched
    <3>2. sends[k] = 0 /\ \A v \in Sending : entry[v].key # k
      BY <1>2, <2>1, <3>1 DEF ReplayInvariant, ReplaySentOnce, SendersInvariant, Untouched
    <3>3. \A v \in Sending' : Stored(entry[v].key)' /\ sends'[entry'[v].key] = 0
      BY <2>1, <2>2, <2>3, <2>5, <3>1, <3>2 DEF ReplayInvariant, SendersInvariant
    <3>4. \A u, v \in Sending' : u # v => entry'[u].key # entry'[v].key
      BY <2>1, <2>2, <2>3, <3>1, <3>2 DEF ReplayInvariant, SendersInvariant
    <3> QED BY <3>3, <3>4 DEF SendersInvariant
  <2> QED BY <2>3, <2>4, <2>6, <2>7 DEF ReplayInvariant, SendersInvariant
<1> QED BY <1>1, <1>2

(* The one that sends under a key has not before, and is the only one.     *)
LEMMA SendKeeps ==
  ASSUME ReplayInvariant, NEW w \in Writers, Send(w)
  PROVE  ReplayInvariant'
<1> USE AuditAssumption
<1>0. IsEntry(entry[w])
  BY DEF ReplayInvariant, AuditTypes
<1> DEFINE k == entry[w].key
<1>1. /\ w \in Sending /\ k \in ReplayKeys
  BY DEF Send, Sending, ReplayInvariant, MarkersInvariant
<1>2. sends' = [sends EXCEPT ![k] = @ + 1] /\ chain' = chain /\ Untouched' = Untouched
  BY DEF Send, Untouched
<1>3. sends' \in [ReplayKeys -> Nat] /\ \A j \in ReplayKeys : sends'[j] = IF j = k THEN sends[k] + 1 ELSE sends[j]
  BY <1>1, <1>2 DEF ReplayInvariant, AuditTypes
<1>4. \A j : Stored(j)' = Stored(j)
  BY <1>2 DEF Stored
<1>5. PICK x : /\ IsEntry(x) /\ x.id \notin ReplayKeys /\ entry' = [entry EXCEPT ![w] = x]
               /\ auditPc' \in [Writers -> {"idle", "read", "insert", "send"}]
               /\ Sending' = Sending \ {w}
  <2>1. CASE \E e \in Fresh : entry' = [entry EXCEPT ![w].id = e] /\ AuditGoto(w, "read")
    <3>1. PICK e \in Fresh : entry' = [entry EXCEPT ![w].id = e]
      BY <2>1
    <3>2. [entry[w] EXCEPT !.id = e].id = e /\ IsEntry([entry[w] EXCEPT !.id = e])
      BY <1>0, EntryGetsId, Zenon
    <3>3. e \notin ReplayKeys
      BY DEF Fresh
    <3>4. auditPc' = [auditPc EXCEPT ![w] = "read"]
      BY <2>1 DEF AuditGoto
    <3>5. /\ auditPc' \in [Writers -> {"idle", "read", "insert", "send"}]
          /\ Sending' = Sending \ {w}
      BY <3>4 DEF ReplayInvariant, AuditTypes, Sending
    <3> QED BY <3>1, <3>2, <3>3, <3>5
  <2>2. CASE AuditEnd(w)
    <3>1. IsEntry(NoEntry) /\ NoEntry.id \notin ReplayKeys
      BY NoEntryIsAnEntry
    <3> QED BY <2>2, <3>1, Ends DEF AuditEnd, ReplayInvariant
  <2> QED BY <2>1, <2>2 DEF Send
<1>6. \A v \in Writers : entry'[v] = IF v = w THEN x ELSE entry[v]
  BY <1>5 DEF ReplayInvariant, AuditTypes
<1>7. entry' = [v \in Writers |-> entry'[v]]
  BY <1>5 DEF ReplayInvariant, AuditTypes
<1>8. AuditTypes'
  BY <1>3, <1>5, <1>6, <1>7 DEF ReplayInvariant, AuditTypes
<1>9. MarkersInvariant'
  BY <1>5, <1>6 DEF ReplayInvariant, MarkersInvariant, Sending
<1>10. ASSUME Untouched' PROVE SendersInvariant' /\ ReplaySentOnce'
  <2>1. Untouched
    BY <1>2, <1>10
  <2>2. Stored(k) /\ sends[k] = 0
    BY <1>1, <2>1 DEF ReplayInvariant, SendersInvariant
  <2>3. \A v \in Sending' : v \in Sending /\ entry'[v] = entry[v] /\ entry[v].key # k
    BY <1>1, <1>5, <1>6, <2>1 DEF ReplayInvariant, SendersInvariant, Sending
  <2>4. \A v \in Sending' : entry[v].key \in ReplayKeys
    BY <2>3 DEF ReplayInvariant, MarkersInvariant, Sending
  <2>5. SendersInvariant'
    BY <1>3, <1>4, <2>1, <2>3, <2>4 DEF ReplayInvariant, SendersInvariant
  <2>6. ReplaySentOnce'
    BY <1>3, <1>4, <2>1, <2>2 DEF ReplayInvariant, ReplaySentOnce, Untouched
  <2> QED BY <2>5, <2>6
<1> QED BY <1>8, <1>9, <1>10 DEF ReplayInvariant, SendersInvariant, ReplaySentOnce, Untouched

LEMMA TamperKeeps ==
  ASSUME ReplayInvariant, Tamper
  PROVE  ReplayInvariant'
<1>1. ~Untouched'
  BY DEF Tamper, Edit, Erase, Untouched
<1>2. auditPc' = auditPc /\ entry' = entry /\ sends' = sends
  BY DEF Tamper
<1>3. AuditTypes' /\ MarkersInvariant'
  BY <1>2 DEF ReplayInvariant, AuditTypes, MarkersInvariant, Sending
<1> QED BY <1>1, <1>3 DEF ReplayInvariant, SendersInvariant, ReplaySentOnce, Untouched

THEOREM ReplayInvariantHolds == AuditSpec => []ReplayInvariant
<1>1. ASSUME ReplayInvariant, NEW w \in Writers,
             InsertRefused(w) \/ Unreplayable(w) \/ AuditFail(w)
      PROVE  ReplayInvariant'
  <2>1. /\ AuditEnd(w) /\ chain' = chain /\ sends' = sends
        /\ tampered' = tampered /\ truncated' = truncated
    BY <1>1 DEF InsertRefused, Unreplayable, AuditFail, AuditQuiet
  <2> QED BY <1>1, <2>1, EndKeeps
<1>2. ASSUME ReplayInvariant, UNCHANGED auditVars PROVE ReplayInvariant'
  <2>1. /\ AuditTypes' /\ MarkersInvariant' /\ Sending' = Sending /\ entry' = entry
        /\ chain' = chain /\ sends' = sends /\ tampered' = tampered /\ truncated' = truncated
    BY <1>2 DEF auditVars, ReplayInvariant, AuditTypes, MarkersInvariant, Sending
  <2> QED BY <1>2, <2>1, QuietKeeps
<1>3. ReplayInvariant /\ [AuditNext]_auditVars => ReplayInvariant'
  BY <1>1, <1>2, BeginKeeps, InsertKeeps, SendKeeps, TamperKeeps DEF AuditNext, AuditStep
<1> QED BY <1>3, AuditStart, PTL DEF AuditSpec

(* A dispatch is replayed at most once for an idempotency key, however     *)
(* many calls use it, fail or die: replayOneWebhookDispatch.               *)
THEOREM ReplayIsSentOnce == AuditSpec => []ReplaySentOnce
<1>1. ReplayInvariant => ReplaySentOnce
  BY DEF ReplayInvariant
<1> QED BY <1>1, ReplayInvariantHolds, PTL
-----------------------------------------------------------------------------
(* VerifyIsExact. An untouched chain that has never forked is one event    *)
(* for each sequence number, each hashed onto the one before; one that was *)
(* tampered with has an event whose hash no stored predecessor explains.   *)

IsEvent(e) == \E V : e \in [id : V, content : V, seq : Nat \ {0}, prev : V, hash : V]

ChainTypes ==
  /\ IsFiniteSet(chain) /\ \A e \in chain : IsEvent(e)
  /\ \A w \in Writers : auditPc[w] = "insert" => entry[w].seq \in Nat \ {0}

(* prev is the hash an event with this sequence is computed over.          *)
Follows(prev, seq) ==
  \/ seq = 1 /\ prev = NoHash
  \/ \E d \in chain : d.seq = seq - 1 /\ prev = d.hash

FollowsLast(prev) ==
  \/ LastSeq = 0 /\ prev = NoHash
  \/ \E d \in chain : d.seq = LastSeq /\ prev = d.hash

WholeInvariant ==
  /\ \A d, e \in chain : d.seq = e.seq => d = e
  /\ \A n \in 1..LastSeq : \E e \in chain : e.seq = n
  /\ \A e \in chain : /\ e.content = "stored" /\ Follows(e.prev, e.seq)
                      /\ e.hash = Digest(e.id, "stored", e.seq, e.prev)
  /\ \A w \in Writers : auditPc[w] = "insert" =>
       /\ entry[w].seq <= LastSeq + 1
       /\ entry[w].seq = LastSeq + 1 => FollowsLast(entry[w].prev)

Edited(f) == f.content = "edited" /\ \E id, seq, p : f.hash = Digest(id, "stored", seq, p)

(* Hashed over an event that is gone and cannot come back: a new one has a *)
(* higher sequence.                                                        *)
Unlinked(f) ==
  \E id, seq, a, p : \E n \in 1..LastSeq :
    /\ f.hash = Digest(id, "stored", seq, Digest(a, "stored", n, p))
    /\ \A d \in chain : d.hash # Digest(a, "stored", n, p)

VerifyInvariant ==
  /\ ChainTypes
  /\ ~forked /\ ~tampered /\ ~truncated => WholeInvariant
  /\ ~forked /\ tampered => \E f \in chain : Edited(f) \/ Unlinked(f)

(* A finite set of numbers has a greatest.                                 *)
LEMMA MaxOfFinite ==
  ASSUME NEW S \in SUBSET Nat, IsFiniteSet(S), S # {}
  PROVE  Max(S) \in S /\ \A n \in S : n <= Max(S)
<1>1. \E m \in S : \A n \in S : m >= n
  BY HasGreatest
<1> QED BY <1>1 DEF Max

TopSeq(C) == Max({0} \cup {e.seq : e \in C})

LEMMA TopSeqIsGreatest ==
  ASSUME NEW C, IsFiniteSet(C), \A e \in C : IsEvent(e)
  PROVE  /\ TopSeq(C) \in Nat /\ \A e \in C : e.seq \in 1..TopSeq(C)
         /\ TopSeq(C) = 0 \/ \E e \in C : e.seq = TopSeq(C)
<1> DEFINE seqs == {e.seq : e \in C}
           f == [e \in C |-> e.seq]
<1>1. \A e \in C : e.seq \in Nat \ {0}
  BY DEF IsEvent
<1>2. IsFiniteSet(seqs)
  <2>1. f \in Surjection(C, seqs)
    BY DEF Surjection
  <2> HIDE DEF f, seqs
  <2> QED BY <2>1, FS_Surjection
<1>3. IsFiniteSet(seqs \cup {0})
  <2> HIDE DEF seqs
  <2> QED BY <1>2, FS_AddElement
<1>4. {0} \cup seqs = seqs \cup {0} /\ {0} \cup seqs \in SUBSET Nat /\ {0} \cup seqs # {}
  BY <1>1
<1>5. Max({0} \cup seqs) \in {0} \cup seqs /\ \A n \in {0} \cup seqs : n <= Max({0} \cup seqs)
  <2> HIDE DEF seqs
  <2> QED BY <1>3, <1>4, MaxOfFinite
<1>6. TopSeq(C) = Max({0} \cup seqs)
  BY DEF TopSeq
<1>7. TopSeq(C) \in {0} \cup seqs /\ \A e \in C : e.seq <= TopSeq(C)
  BY <1>5, <1>6
<1>8. TopSeq(C) = 0 \/ \E e \in C : e.seq = TopSeq(C)
  BY <1>7
<1> QED BY <1>1, <1>7, <1>8

LEMMA LastSeqIsTop == LastSeq = TopSeq(chain)
BY DEF LastSeq, TopSeq

(* A number no element exceeds and one has, or zero when there is none.    *)
LEMMA TopSeqIs ==
  ASSUME NEW C, IsFiniteSet(C), \A e \in C : IsEvent(e), NEW n \in Nat,
         \A e \in C : e.seq <= n, n = 0 \/ \E e \in C : e.seq = n
  PROVE  TopSeq(C) = n
<1>1. \A e \in C : e.seq \in Nat
  BY DEF IsEvent
<1> QED BY <1>1, TopSeqIsGreatest

LEMMA WholeIsVerified ==
  ASSUME ChainTypes, WholeInvariant
  PROVE  Verified
<1> DEFINE n == LastSeq
           s == [i \in 1..n |-> CHOOSE e \in chain : e.seq = i]
<1>1. n \in Nat /\ \A e \in chain : e.seq \in 1..n
  BY TopSeqIsGreatest, LastSeqIsTop DEF ChainTypes
<1>2. \A i \in 1..n : s[i] \in chain /\ s[i].seq = i
  BY DEF WholeInvariant
<1>3. \A e \in chain : s[e.seq] = e
  BY <1>1, <1>2 DEF WholeInvariant
<1>4. DOMAIN s = 1..n /\ s \in [1..n -> chain]
  BY <1>2
<1> HIDE DEF s, n
<1>5. s \in Bijection(1..n, chain)
  <2>1. s \in Injection(1..n, chain)
    BY <1>2, <1>4 DEF Injection, IsInjective
  <2>2. s \in Surjection(1..n, chain)
    BY <1>1, <1>3, <1>4 DEF Surjection
  <2> QED BY <2>1, <2>2 DEF Bijection
<1>6. Cardinality(chain) = n
  BY <1>1, <1>5, FS_CountingElements DEF ExistsBijection
<1>7. s \in SetToSeqs(chain)
  BY <1>2, <1>4, <1>6 DEF SetToSeqs
<1>8. s \in Listings
  <2>1. \A i, j \in DOMAIN s : i < j => s[i].seq <= s[j].seq
    BY <1>1, <1>2, <1>4
  <2> QED BY <1>7, <2>1 DEF Listings
<1>9. Verifies(s)
  <2> SUFFICES ASSUME NEW i \in 1..n
               PROVE  s[i].hash = Digest(s[i].id, s[i].content, s[i].seq,
                                         IF i = 1 THEN NoHash ELSE s[i-1].hash)
    BY <1>4 DEF Verifies
  <2>1. /\ s[i] \in chain /\ s[i].seq = i /\ s[i].content = "stored" /\ Follows(s[i].prev, i)
        /\ s[i].hash = Digest(s[i].id, "stored", i, s[i].prev)
    BY <1>2 DEF WholeInvariant
  <2>2. s[i].prev = IF i = 1 THEN NoHash ELSE s[i-1].hash
    <3>1. CASE i = 1
      <4>1. \A d \in chain : d.seq # i - 1
        BY <1>1, <3>1
      <4> QED BY <2>1, <3>1, <4>1 DEF Follows
    <3>2. CASE i # 1
      <4>1. PICK d \in chain : d.seq = i - 1 /\ s[i].prev = d.hash
        BY <2>1, <3>2 DEF Follows
      <4>2. s[i - 1] = d
        BY <1>3, <4>1
      <4> QED BY <3>2, <4>1, <4>2
    <3> QED BY <3>1, <3>2
  <2> QED BY <2>1, <2>2
<1> QED BY <1>8, <1>9 DEF Verified

LEMMA BrokenIsNotVerified ==
  ASSUME NEW f \in chain, Edited(f) \/ Unlinked(f), IsFiniteSet(chain)
  PROVE  ~Verified
<1> SUFFICES ASSUME NEW s \in Listings, Verifies(s) PROVE FALSE
  BY DEF Verified
<1>1. s \in SetToSeqs(chain)
  BY DEF Listings
<1>2. Cardinality(chain) \in Nat
  BY FS_CardinalityType
<1>3. /\ s \in [1..Cardinality(chain) -> chain]
      /\ \A i, j \in 1..Cardinality(chain) : i # j => s[i] # s[j]
  BY <1>1 DEF SetToSeqs
<1>4. PICK i \in DOMAIN s : s[i] = f
  <2>1. s \in Injection(1..Cardinality(chain), chain)
    BY <1>3 DEF Injection, IsInjective
  <2>2. IsFiniteSet(1..Cardinality(chain)) /\ Cardinality(1..Cardinality(chain)) = Cardinality(chain)
    BY <1>2, FS_Interval
  <2>3. s \in Surjection(1..Cardinality(chain), chain)
    BY <2>1, <2>2, FS_Injection
  <2> QED BY <2>3 DEF Surjection
<1>5. PICK p : f.hash = Digest(f.id, f.content, f.seq, p) /\ (p = NoHash \/ \E d \in chain : p = d.hash)
  <2>1. f.hash = Digest(f.id, f.content, f.seq, IF i = 1 THEN NoHash ELSE s[i-1].hash)
    BY <1>4 DEF Verifies
  <2>2. i = 1 \/ s[i - 1] \in chain
    BY <1>2, <1>3
  <2> QED BY <2>1, <2>2
<1>6. CASE Edited(f)
  BY <1>5, <1>6 DEF Edited, Digest
<1>7. CASE Unlinked(f)
  <2>1. PICK id, seq, a, q, n :
          /\ f.hash = Digest(id, "stored", seq, Digest(a, "stored", n, q))
          /\ \A d \in chain : d.hash # Digest(a, "stored", n, q)
    BY <1>7 DEF Unlinked
  <2>2. p = Digest(a, "stored", n, q)
    BY <1>5, <2>1 DEF Digest
  <2>3. p # NoHash
    BY <2>2 DEF Digest, NoHash
  <2> QED BY <1>5, <2>1, <2>2, <2>3
<1> QED BY <1>6, <1>7

LEMMA VerifyStart == AuditInit => VerifyInvariant
<1> SUFFICES ASSUME AuditInit PROVE VerifyInvariant
  OBVIOUS
<1>1. chain = {} /\ ~tampered /\ \A w \in Writers : auditPc[w] # "insert"
  BY DEF AuditInit
<1>2. LastSeq = 0
  BY <1>1, FS_EmptySet, TopSeqIs, LastSeqIsTop
<1>3. ChainTypes
  BY <1>1, FS_EmptySet DEF ChainTypes
<1>4. WholeInvariant
  BY <1>1, <1>2 DEF WholeInvariant
<1> QED BY <1>1, <1>3, <1>4 DEF VerifyInvariant

(* Nobody has read or touched the chain.                                   *)
LEMMA ChainStays ==
  ASSUME VerifyInvariant, UNCHANGED <<chain, forked, tampered, truncated>>,
         \A w \in Writers : auditPc'[w] = "insert" => auditPc[w] = "insert" /\ entry'[w] = entry[w]
  PROVE  VerifyInvariant'
<1>1. LastSeq' = LastSeq
  BY DEF LastSeq
<1>2. ChainTypes'
  BY DEF VerifyInvariant, ChainTypes, IsEvent
<1>3. WholeInvariant => WholeInvariant'
  BY <1>1 DEF WholeInvariant, Follows, FollowsLast
<1>4. \A f : (Unlinked(f) => Unlinked(f)')
  BY <1>1 DEF Unlinked
<1>5. \A f : (Edited(f) => Edited(f)')
  BY DEF Edited
<1> QED BY <1>2, <1>3, <1>4, <1>5 DEF VerifyInvariant

LEMMA ReadVerifies ==
  ASSUME VerifyInvariant, AuditTypes, NEW w \in Writers, ReadChain(w)
  PROVE  VerifyInvariant'
<1>1. UNCHANGED <<chain, forked, tampered, truncated>> /\ LastSeq' = LastSeq
  BY DEF ReadChain, AuditQuiet, LastSeq
<1>2. PICK prev :
        /\ entry' = [entry EXCEPT ![w].seq = LastSeq + 1, ![w].prev = prev]
        /\ prev \in IF {e \in chain : e.seq = LastSeq} = {} THEN {NoHash}
                    ELSE {e.hash : e \in {e \in chain : e.seq = LastSeq}}
  BY DEF ReadChain
<1>3. PICK V : entry[w] \in [id : V, seq : V, prev : V, key : V, was : V]
  BY DEF AuditTypes, IsEntry
<1>4. entry'[w].seq = LastSeq + 1 /\ entry'[w].prev = prev
  BY <1>2, <1>3 DEF AuditTypes
<1>5. \A v \in Writers : v # w => entry'[v] = entry[v] /\ auditPc'[v] = auditPc[v]
  BY <1>2 DEF ReadChain, AuditGoto, AuditTypes
<1>6. LastSeq \in Nat /\ (LastSeq = 0 \/ \E e \in chain : e.seq = LastSeq)
  BY TopSeqIsGreatest, LastSeqIsTop DEF VerifyInvariant, ChainTypes
<1>7. ChainTypes'
  BY <1>1, <1>4, <1>5, <1>6 DEF VerifyInvariant, ChainTypes, IsEvent
<1>8. WholeInvariant => WholeInvariant'
  <2> SUFFICES ASSUME WholeInvariant PROVE WholeInvariant'
    OBVIOUS
  <2>1. FollowsLast(prev)
    <3>1. CASE {e \in chain : e.seq = LastSeq} = {}
      BY <1>2, <1>6, <3>1 DEF FollowsLast
    <3>2. CASE {e \in chain : e.seq = LastSeq} # {}
      BY <1>2, <3>2 DEF FollowsLast
    <3> QED BY <3>1, <3>2
  <2>3. ASSUME NEW v \in Writers, auditPc'[v] = "insert"
        PROVE  /\ entry'[v].seq <= LastSeq' + 1
               /\ entry'[v].seq = LastSeq' + 1 => FollowsLast(entry[v].prev)'
    <3>1. CASE v = w
      <4>1. entry'[v].seq <= LastSeq' + 1
        BY <1>1, <1>4, <1>6, <3>1
      <4>2. FollowsLast(entry[v].prev)'
        <5>1. entry'[v].prev = prev
          BY <1>4, <3>1
        <5> QED BY <1>1, <2>1, <5>1, ZenonT(20) DEF FollowsLast
      <4> QED BY <4>1, <4>2
    <3>2. CASE v # w
      <4>1. entry'[v] = entry[v] /\ auditPc[v] = "insert"
        BY <1>5, <2>3, <3>2
      <4>2. /\ entry[v].seq <= LastSeq + 1
            /\ entry[v].seq = LastSeq + 1 => FollowsLast(entry[v].prev)
        BY <4>1, Zenon DEF WholeInvariant
      <4>3. FollowsLast(entry[v].prev) => FollowsLast(entry[v].prev)'
        BY <1>1, <4>1, ZenonT(20) DEF FollowsLast
      <4> QED BY <1>1, <4>1, <4>2, <4>3
    <3> QED BY <3>1, <3>2
  <2>4. \A e \in chain' : Follows(e.prev, e.seq)'
    BY <1>1 DEF WholeInvariant, Follows
  <2>5. /\ \A d, e \in chain' : d.seq = e.seq => d = e
        /\ \A n \in 1..LastSeq' : \E e \in chain' : e.seq = n
        /\ \A e \in chain' : /\ e.content = "stored"
                             /\ e.hash = Digest(e.id, "stored", e.seq, e.prev)
    BY <1>1 DEF WholeInvariant
  <2> QED BY <2>3, <2>4, <2>5, Zenon DEF WholeInvariant
<1>9. \A f : (Unlinked(f) => Unlinked(f)') /\ (Edited(f) => Edited(f)')
  BY <1>1 DEF Unlinked, Edited
<1> QED BY <1>1, <1>7, <1>8, <1>9 DEF VerifyInvariant
LEMMA InsertVerifies ==
  ASSUME VerifyInvariant, AuditTypes, NEW w \in Writers, Insert(w)
  PROVE  VerifyInvariant'
<1> DEFINE n == LastSeq
           seq == entry[w].seq
           prev == entry[w].prev
           new == [id |-> entry[w].id, content |-> "stored", seq |-> seq, prev |-> prev,
                   hash |-> Digest(entry[w].id, "stored", seq, prev)]
<1>1. /\ chain' = chain \cup {new} /\ forked' = (forked \/ seq # n + 1)
      /\ UNCHANGED <<tampered, truncated>> /\ auditPc[w] = "insert"
  BY DEF Insert
<1>2. \A v \in Writers : auditPc'[v] = "insert" =>
        v # w /\ auditPc[v] = "insert" /\ entry'[v] = entry[v]
  BY DEF Insert, AuditGoto, AuditEnd, AuditTypes
<1>3. IsFiniteSet(chain) /\ (\A e \in chain : IsEvent(e)) /\ seq \in Nat \ {0}
  BY <1>1 DEF VerifyInvariant, ChainTypes
<1>4. /\ new.content = "stored" /\ new.seq = seq /\ new.prev = prev
      /\ new.hash = Digest(new.id, "stored", seq, prev)
  OBVIOUS
<1>5. IsEvent(new)
  <2> DEFINE h == Digest(entry[w].id, "stored", seq, prev)
             U == {entry[w].id, "stored", prev, h}
  <2> HIDE DEF h, seq, prev
  <2>1. new \in [id : U, content : U, seq : Nat \ {0}, prev : U, hash : U]
    BY <1>3 DEF h
  <2> QED BY <2>1 DEF IsEvent
<1>6. n \in Nat /\ (\A e \in chain : e.seq \in 1..n) /\ (n = 0 \/ \E e \in chain : e.seq = n)
  BY <1>3, TopSeqIsGreatest, LastSeqIsTop
<1> HIDE DEF new, seq, prev
<1>7. IsFiniteSet(chain') /\ \A e \in chain' : IsEvent(e)
  BY <1>1, <1>3, <1>5, FS_AddElement
<1>8. ChainTypes'
  <2>1. \A v \in Writers : auditPc'[v] = "insert" => entry'[v].seq \in Nat \ {0}
    BY <1>2 DEF VerifyInvariant, ChainTypes
  <2>2. (\A e \in chain : IsEvent(e))'
    BY <1>7 DEF IsEvent
  <2> QED BY <1>7, <2>1, <2>2 DEF ChainTypes
<1>9. ASSUME ~forked' PROVE seq = n + 1 /\ ~forked /\ LastSeq' = n + 1
  <2>1. seq = n + 1 /\ ~forked
    BY <1>1, <1>9
  <2>2. TopSeq(chain') = n + 1
    <3> HIDE DEF n
    <3>1. n + 1 \in Nat /\ (\A e \in chain' : e.seq <= n + 1) /\ \E e \in chain' : e.seq = n + 1
      BY <1>1, <1>4, <1>6, <2>1
    <3> QED BY <1>7, <3>1, TopSeqIs
  <2>3. LastSeq' = TopSeq(chain')
    BY DEF LastSeq, TopSeq
  <2> QED BY <2>1, <2>2, <2>3
<1>10. ASSUME ~forked', WholeInvariant PROVE WholeInvariant'
  <2>1. seq = n + 1 /\ LastSeq' = n + 1
    BY <1>9, <1>10
  <2>2. FollowsLast(prev)
    BY <1>1, <1>10, <2>1 DEF WholeInvariant, seq, prev
  <2>3. \A d, e \in chain' : d.seq = e.seq => d = e
    <3>1. \A d, e \in chain : d.seq = e.seq => d = e
      BY <1>10 DEF WholeInvariant
    <3> HIDE DEF n
    <3> QED BY <1>1, <1>4, <1>6, <2>1, <3>1
  <2>4. \A m \in 1..LastSeq' : \E e \in chain' : e.seq = m
    <3>1. \A m \in 1..n : \E e \in chain : e.seq = m
      BY <1>10 DEF WholeInvariant
    <3> HIDE DEF n
    <3> QED BY <1>1, <1>4, <1>6, <2>1, <3>1
  <2>5. ASSUME NEW e \in chain'
        PROVE  /\ e.content = "stored" /\ Follows(e.prev, e.seq)'
               /\ e.hash = Digest(e.id, "stored", e.seq, e.prev)
    <3>1. CASE e \in chain
      BY <1>1, <1>10, <3>1 DEF WholeInvariant, Follows
    <3>2. CASE e = new
      <4>1. \/ n = 0 /\ prev = NoHash
            \/ \E d \in chain' : d.seq = n /\ prev = d.hash
        BY <1>1, <2>2 DEF FollowsLast
      <4>2. n = seq - 1 /\ (n = 0 => seq = 1)
        BY <1>6, <2>1
      <4>3. Follows(e.prev, e.seq)'
        <5>1. CASE n = 0 /\ prev = NoHash
          BY <1>4, <3>2, <4>2, <5>1 DEF Follows
        <5>2. CASE \E d \in chain' : d.seq = n /\ prev = d.hash
          BY <1>4, <3>2, <4>2, <5>2 DEF Follows
        <5> QED BY <4>1, <5>1, <5>2
      <4> QED BY <1>4, <3>2, <4>3
    <3> QED BY <1>1, <3>1, <3>2
  <2>6. ASSUME NEW v \in Writers, auditPc'[v] = "insert"
        PROVE  entry'[v].seq < LastSeq' + 1
    <3>1. entry'[v] = entry[v] /\ entry[v].seq <= n + 1 /\ entry[v].seq \in Nat
      BY <1>2, <1>10, <2>6 DEF WholeInvariant, VerifyInvariant, ChainTypes
    <3> HIDE DEF n
    <3> QED BY <1>6, <2>1, <3>1
  <2>7. ASSUME NEW v \in Writers, auditPc'[v] = "insert"
        PROVE  entry'[v].seq <= LastSeq' + 1 /\ entry'[v].seq # LastSeq' + 1
    <3>1. entry'[v].seq \in Nat
      BY <1>8, <2>7 DEF ChainTypes
    <3> HIDE DEF n
    <3> QED BY <1>6, <2>1, <2>6, <2>7, <3>1
  <2> QED BY <2>3, <2>4, <2>5, <2>7, Zenon DEF WholeInvariant
<1>11. ASSUME ~forked', NEW f \in chain, Edited(f) \/ Unlinked(f)
       PROVE  f \in chain' /\ (Edited(f)' \/ Unlinked(f)')
  <2>1. f \in chain' /\ (Edited(f) => Edited(f)')
    BY <1>1 DEF Edited
  <2>2. ASSUME Unlinked(f) PROVE Unlinked(f)'
    <3>1. PICK id, s, a, p, m :
            /\ m \in 1..n
            /\ f.hash = Digest(id, "stored", s, Digest(a, "stored", m, p))
            /\ \A d \in chain : d.hash # Digest(a, "stored", m, p)
      BY <2>2 DEF Unlinked
    <3>2. m \in 1..LastSeq' /\ m # seq
      <4> HIDE DEF n
      <4> QED BY <1>6, <1>9, <1>11, <3>1
    <3>3. \A d \in chain' : d.hash # Digest(a, "stored", m, p)
      BY <1>1, <1>4, <3>1, <3>2 DEF Digest
    <3> QED BY <3>1, <3>2, <3>3 DEF Unlinked
  <2> QED BY <1>11, <2>1, <2>2
<1> QED BY <1>1, <1>8, <1>9, <1>10, <1>11 DEF VerifyInvariant

LEMMA EditVerifies ==
  ASSUME VerifyInvariant, ~tampered, ~truncated, NEW e \in chain, Edit(e),
         UNCHANGED <<auditPc, entry, forked>>
  PROVE  VerifyInvariant'
<1> DEFINE g == [e EXCEPT !.content = "edited"]
<1>1. chain' = (chain \ {e}) \cup {g} /\ tampered'
  BY DEF Edit
<1>2. PICK V : e \in [id : V, content : V, seq : Nat \ {0}, prev : V, hash : V]
  BY DEF VerifyInvariant, ChainTypes, IsEvent
<1>3. g.content = "edited" /\ g.hash = e.hash
  BY <1>2
<1>4. IsEvent(g)
  <2> DEFINE U == V \cup {"edited"}
  <2>1. e \in [id : U, content : U, seq : Nat \ {0}, prev : U, hash : U]
    BY <1>2
  <2>2. g \in [id : U, content : U, seq : Nat \ {0}, prev : U, hash : U]
    <3>1. "edited" \in U
      OBVIOUS
    <3> HIDE DEF U
    <3> QED BY <2>1, <3>1
  <2> HIDE DEF U, g
  <2> QED BY <2>2 DEF IsEvent
<1> HIDE DEF g
<1>5. ChainTypes'
  <2>1. IsFiniteSet(chain')
    BY <1>1, FS_AddElement, FS_RemoveElement DEF VerifyInvariant, ChainTypes
  <2>2. \A d \in chain' : IsEvent(d)
    BY <1>1, <1>4 DEF VerifyInvariant, ChainTypes
  <2>3. (\A d \in chain : IsEvent(d))'
    BY <2>2 DEF IsEvent
  <2> QED BY <2>1, <2>3 DEF VerifyInvariant, ChainTypes
<1>6. ASSUME ~forked PROVE \E f \in chain' : Edited(f)'
  <2>1. e.hash = Digest(e.id, "stored", e.seq, e.prev)
    BY <1>6 DEF VerifyInvariant, WholeInvariant
  <2> QED BY <1>1, <1>3, <2>1 DEF Edited
<1> QED BY <1>1, <1>5, <1>6 DEF VerifyInvariant

(* The event after the one that was removed is hashed over it.             *)
LEMMA EraseVerifies ==
  ASSUME VerifyInvariant, ~tampered, ~truncated, NEW e \in chain, Erase(e),
         UNCHANGED <<auditPc, entry, forked>>
  PROVE  VerifyInvariant'
<1> DEFINE n == LastSeq
<1>1. ~forked /\ chain' = chain \ {e} /\ WholeInvariant
  BY DEF Erase, VerifyInvariant
<1>2. IsFiniteSet(chain') /\ \A d \in chain' : IsEvent(d)
  BY <1>1, FS_RemoveElement DEF VerifyInvariant, ChainTypes
<1>3. ChainTypes'
  <2>1. (\A d \in chain : IsEvent(d))'
    BY <1>2 DEF IsEvent
  <2> QED BY <1>2, <2>1 DEF VerifyInvariant, ChainTypes
<1>4. CASE e.seq = n
  BY <1>3, <1>4 DEF Erase, VerifyInvariant
<1>5. CASE e.seq # n
  <2>1. n \in Nat /\ (\A d \in chain : d.seq \in 1..n) /\ (n = 0 \/ \E d \in chain : d.seq = n)
    BY TopSeqIsGreatest, LastSeqIsTop DEF VerifyInvariant, ChainTypes
  <2>2. tampered' /\ truncated' = truncated
    BY <1>5 DEF Erase
  <2> HIDE DEF n
  <2>3. LastSeq' = n
    <3>1. (\A d \in chain' : d.seq <= n) /\ \E d \in chain' : d.seq = n
      BY <1>1, <1>5, <2>1
    <3>2. TopSeq(chain') = n
      BY <1>2, <2>1, <3>1, TopSeqIs
    <3> QED BY <3>2 DEF LastSeq, TopSeq
  <2>4. e.seq \in 1..n /\ e.seq + 1 \in 1..n
    BY <1>5, <2>1
  <2>5. PICK f \in chain : f.seq = e.seq + 1
    BY <1>1, <2>4 DEF WholeInvariant, n
  <2>6. f \in chain' /\ f.hash = Digest(f.id, "stored", f.seq, f.prev)
    <3>1. f # e
      BY <2>4, <2>5
    <3> QED BY <1>1, <3>1 DEF WholeInvariant
  <2>7. f.prev = e.hash /\ e.hash = Digest(e.id, "stored", e.seq, e.prev)
    <3>1. Follows(f.prev, f.seq) /\ e.hash = Digest(e.id, "stored", e.seq, e.prev)
      BY <1>1 DEF WholeInvariant
    <3>2. \E d \in chain : d.seq = e.seq /\ f.prev = d.hash
      BY <2>4, <2>5, <3>1 DEF Follows
    <3> QED BY <1>1, <3>1, <3>2 DEF WholeInvariant
  <2>8. \A d \in chain' : d.hash # Digest(e.id, "stored", e.seq, e.prev)
    BY <1>1 DEF WholeInvariant, Digest
  <2>9. Unlinked(f)'
    BY <2>3, <2>4, <2>6, <2>7, <2>8 DEF Unlinked
  <2> QED BY <1>3, <2>2, <2>6, <2>9 DEF VerifyInvariant
<1> QED BY <1>4, <1>5

(* As long as the appends did not overlap, an untouched trail is a whole   *)
(* chain and a tampered one holds an edited or orphaned event.             *)
THEOREM VerifyInvariantHolds == AuditSpec => []VerifyInvariant
<1>1. ReplayInvariant /\ VerifyInvariant /\ [AuditNext]_auditVars => VerifyInvariant'
  <2> SUFFICES ASSUME AuditTypes, VerifyInvariant, [AuditNext]_auditVars
               PROVE  VerifyInvariant'
    BY DEF ReplayInvariant
  <2>1. CASE UNCHANGED auditVars
    BY <2>1, ChainStays DEF auditVars
  <2>2. ASSUME NEW w \in Writers, StartEvent(w) \/ StartReplay(w)
        PROVE  VerifyInvariant'
    <3>1. /\ UNCHANGED <<chain, forked, tampered, truncated>>
          /\ AuditGoto(w, "read") /\ \A v \in Writers : v # w => entry'[v] = entry[v]
      BY <2>2 DEF StartEvent, StartReplay, AuditQuiet, AuditTypes
    <3>2. \A v \in Writers : auditPc'[v] = "insert" => auditPc[v] = "insert" /\ entry'[v] = entry[v]
      BY <3>1 DEF AuditGoto, AuditTypes
    <3> QED BY <3>1, <3>2, ChainStays
  <2>3. ASSUME NEW w \in Writers, ReadChain(w) PROVE VerifyInvariant'
    BY <2>3, ReadVerifies
  <2>4. ASSUME NEW w \in Writers, Insert(w) PROVE VerifyInvariant'
    BY <2>4, InsertVerifies
  <2>5. ASSUME NEW w \in Writers, InsertRefused(w) \/ Unreplayable(w) \/ AuditFail(w)
        PROVE  VerifyInvariant'
    <3>1. UNCHANGED <<chain, forked, tampered, truncated>> /\ AuditEnd(w)
      BY <2>5 DEF InsertRefused, Unreplayable, AuditFail, AuditQuiet
    <3>2. \A v \in Writers : auditPc'[v] = "insert" => auditPc[v] = "insert" /\ entry'[v] = entry[v]
      BY <3>1 DEF AuditEnd, AuditGoto, AuditTypes
    <3> QED BY <3>1, <3>2, ChainStays
  <2>6. ASSUME NEW w \in Writers, Send(w) PROVE VerifyInvariant'
    <3>1. /\ UNCHANGED <<chain, forked, tampered, truncated>>
          /\ AuditGoto(w, "read") \/ AuditGoto(w, "idle")
          /\ \A v \in Writers : v # w => entry'[v] = entry[v]
      BY <2>6 DEF Send, AuditEnd, AuditTypes
    <3>2. \A v \in Writers : auditPc'[v] = "insert" => auditPc[v] = "insert" /\ entry'[v] = entry[v]
      BY <3>1 DEF AuditGoto, AuditTypes
    <3> QED BY <3>1, <3>2, ChainStays
  <2>7. CASE Tamper
    BY <2>7, EditVerifies, EraseVerifies DEF Tamper
  <2> QED BY <2>1, <2>2, <2>3, <2>4, <2>5, <2>6, <2>7 DEF AuditNext, AuditStep
<1> QED BY <1>1, VerifyStart, ReplayInvariantHolds, PTL DEF AuditSpec

(* VerifyIsExact: without two overlapping appends, verifyAuditChain        *)
(* accepts an untouched chain of any length and refuses for good one that  *)
(* was edited or lost an event before the last.                            *)
THEOREM VerifyAlwaysExact == AuditSpec => []VerifyIsExact
<1>1. VerifyInvariant => VerifyIsExact
  <2> SUFFICES ASSUME VerifyInvariant, ~forked
               PROVE  (~tampered /\ ~truncated => Verified) /\ (tampered => ~Verified)
    BY DEF VerifyIsExact
  <2>1. ChainTypes
    BY DEF VerifyInvariant
  <2>2. ~tampered /\ ~truncated => Verified
    BY <2>1, WholeIsVerified DEF VerifyInvariant
  <2>3. tampered => ~Verified
    BY <2>1, BrokenIsNotVerified DEF VerifyInvariant, ChainTypes
  <2> QED BY <2>2, <2>3
<1> QED BY <1>1, VerifyInvariantHolds, PTL

-----------------------------------------------------------------------------
(* The signing keys.                                                       *)

UnderWay == {r \in Rotators : keyPc[r] # "idle"}

Roles == {"absent", "primary", "secondary"}

KeyTypes ==
  /\ keys \in [KeyIds -> [role : Roles, expires : Int]]
  /\ keyPc \in [Rotators -> {"idle", "audit", "answer", "undo"}]
  /\ rotation \in [Rotators -> [key : KeyIds \cup {NoKey}, prev : KeyIds \cup {NoKey}, until : Int]]
  /\ day \in Nat /\ keyFaults \in Nat
  /\ known \subseteq KeyIds /\ promised \subseteq [key : KeyIds, until : Int]

(* There is one primary. A rotation under way has made its key, has left   *)
(* the one before in its grace window, and shares neither with another.    *)
RotationsInvariant ==
  /\ \E k \in KeyIds : Primaries = {k}
  /\ \A r \in UnderWay :
       /\ rotation[r].key \in KeyIds /\ rotation[r].prev \in KeyIds
       /\ keys[rotation[r].key].role # "absent"
       /\ keys[rotation[r].prev] = Secondary(rotation[r].until)
       /\ \A p \in promised : p.key # rotation[r].prev
  /\ \A q, r \in UnderWay :
       q # r => rotation[q].key # rotation[r].key /\ rotation[q].prev # rotation[r].prev
  /\ \A r \in Rotators \ UnderWay : rotation[r] = NoRotation
  /\ \A p \in promised : keys[p.key] = Secondary(p.until)

(* Every key that is there has a caller who knows its secret, or will have.*)
SecretsInvariant ==
  ~orphaned /\ ~overtaken =>
    \A k \in KeyIds :
      keys[k].role # "absent" => k \in known \/ \E r \in UnderWay : rotation[r].key = k

KeysInvariant == KeyTypes /\ RotationsInvariant /\ SecretsInvariant

-----------------------------------------------------------------------------
LEMMA KeysStart == KeysInit => KeysInvariant
<1> SUFFICES ASSUME KeysInit PROVE KeysInvariant
  OBVIOUS
<1> USE KeysAssumption
<1>1. KeyTypes
  <2>1. NoExpiry \in Int
    BY DEF NoExpiry
  <2>2. TheKey \in [role : Roles, expires : Int] /\ Absent \in [role : Roles, expires : Int]
    BY <2>1 DEF TheKey, Absent, Roles
  <2>3. keys \in [KeyIds -> [role : Roles, expires : Int]]
    BY <2>2 DEF KeysInit
  <2> QED BY <2>3 DEF KeysInit, KeyTypes, NoRotation
<1>2. Primaries = {Configured}
  BY DEF KeysInit, Primaries, TheKey, Absent
<1>3. UnderWay = {}
  BY DEF KeysInit, UnderWay
<1>4. RotationsInvariant
  BY <1>2, <1>3 DEF RotationsInvariant, KeysInit
<1>5. SecretsInvariant
  BY DEF SecretsInvariant, KeysInit, Absent, TheKey
<1> QED BY <1>1, <1>4, <1>5 DEF KeysInvariant

LEMMA TypesStep == KeyTypes /\ RotationsInvariant /\ [KeysNext]_keyVars => KeyTypes'
<1> SUFFICES ASSUME KeyTypes, RotationsInvariant, [KeysNext]_keyVars PROVE KeyTypes'
  OBVIOUS
<1> USE KeysAssumption DEF KeyTypes, Roles
<1>1. ASSUME NEW r \in Rotators, Rotate(r) PROVE KeyTypes'
  BY <1>1 DEF Rotate, KeyGoto, Secondary, TheKey, NoExpiry, Primaries
<1>2. ASSUME NEW r \in Rotators, AuditRotation(r) PROVE KeyTypes'
  BY <1>2 DEF AuditRotation, KeyGoto, KeyFault
<1>3. ASSUME NEW r \in Rotators, Answer(r) PROVE KeyTypes'
  <2>1. r \in UnderWay
    BY <1>3 DEF Answer, UnderWay
  <2>2. rotation[r].key \in KeyIds /\ rotation[r].prev \in KeyIds
    BY <2>1 DEF RotationsInvariant
  <2> QED BY <1>3, <2>2 DEF Answer, KeyEnd, KeyGoto, NoRotation
<1>4. ASSUME NEW r \in Rotators, Undo(r) PROVE KeyTypes'
  <2> DEFINE Rows == [KeyIds -> [role : Roles, expires : Int]]
  <2>1. NoExpiry \in Int
    BY DEF NoExpiry
  <2>2. TheKey \in [role : Roles, expires : Int] /\ Absent \in [role : Roles, expires : Int]
    BY <2>1 DEF TheKey, Absent, Roles
  <2>3. [keys EXCEPT ![rotation[r].key] = Absent] \in Rows
    BY <2>2
  <2>4. keys' \in Rows
    BY <1>4, <2>2, <2>3 DEF Undo, Undone
  <2> QED BY <1>4, <2>4 DEF Undo, KeyEnd, KeyGoto, NoRotation
<1>5. ASSUME NEW r \in Rotators, Orphan(r) PROVE KeyTypes'
  BY <1>5 DEF Orphan, KeyFault, KeyEnd, KeyGoto, NoRotation
<1>6. CASE NextDay
  BY <1>6 DEF NextDay
<1>7. CASE UNCHANGED keyVars
  BY <1>7 DEF keyVars
<1> QED BY <1>1, <1>2, <1>3, <1>4, <1>5, <1>6, <1>7 DEF KeysNext

LEMMA RolesOfKeys ==
  /\ \A x : Secondary(x).role = "secondary"
  /\ TheKey.role = "primary" /\ Absent.role = "absent"
BY DEF Secondary, TheKey, Absent

(* A rotation makes a key nobody has and ages the only primary.            *)
LEMMA RotateKeepsRotations ==
  ASSUME KeyTypes, RotationsInvariant, NEW r \in Rotators, Rotate(r)
  PROVE  RotationsInvariant'
<1> USE KeysAssumption
<1>1. PICK k \in KeyIds, grace \in Graces, prev \in Primaries :
        /\ keyPc[r] = "idle" /\ Unused(k)
        /\ keys' = [keys EXCEPT ![prev] = Secondary(day + grace), ![k] = TheKey]
        /\ rotation' = [rotation EXCEPT ![r] = [key |-> k, prev |-> prev, until |-> day + grace]]
        /\ keyPc' = [keyPc EXCEPT ![r] = "audit"] /\ promised' = promised
  BY DEF Rotate, KeyGoto
<1> DEFINE aged == Secondary(day + grace)
<1>2. prev \in KeyIds /\ keys[prev].role = "primary" /\ keys[k].role = "absent" /\ k # prev
  BY <1>1 DEF Primaries, Unused, Absent
<1>3. \A j \in KeyIds : keys'[j] = IF j = k THEN TheKey ELSE IF j = prev THEN aged ELSE keys[j]
  BY <1>1, <1>2 DEF KeyTypes
<1>4. UnderWay' = UnderWay \cup {r} /\ r \notin UnderWay
  BY <1>1 DEF UnderWay, KeyTypes
<1>5. Primaries = {prev}
  BY <1>2 DEF RotationsInvariant
<1>6. Primaries' = {k}
  BY <1>2, <1>3, <1>5 DEF Primaries, TheKey, Secondary
<1>7. \A q \in UnderWay :
        /\ rotation[q].key \in KeyIds /\ rotation[q].prev \in KeyIds
        /\ rotation[q].key # k /\ rotation[q].prev # prev /\ rotation[q].prev # k
  <2> SUFFICES ASSUME NEW q \in UnderWay
               PROVE /\ rotation[q].key \in KeyIds /\ rotation[q].prev \in KeyIds
                     /\ rotation[q].key # k /\ rotation[q].prev # prev /\ rotation[q].prev # k
    OBVIOUS
  <2>1. /\ rotation[q].key \in KeyIds /\ rotation[q].prev \in KeyIds
        /\ keys[rotation[q].prev] = Secondary(rotation[q].until)
    BY DEF RotationsInvariant
  <2>2. keys[rotation[q].prev].role = "secondary"
    BY <2>1, RolesOfKeys
  <2> QED BY <1>1, <1>2, <2>1, <2>2 DEF Unused, UnderWay
<1>8. \A p \in promised : p.key \in KeyIds /\ p.key # prev /\ p.key # k
  <2>1. \A p \in promised : p.key \in KeyIds /\ keys[p.key] = Secondary(p.until)
    BY DEF RotationsInvariant, KeyTypes
  <2> QED BY <1>2, <2>1, RolesOfKeys
<1>9. /\ rotation'[r].key = k /\ rotation'[r].prev = prev /\ aged = Secondary(rotation'[r].until)
      /\ \A q \in Rotators : q # r => rotation'[q] = rotation[q]
  BY <1>1 DEF KeyTypes
<1>10. aged.role = "secondary" /\ TheKey.role = "primary"
  BY RolesOfKeys
<1> HIDE DEF aged
<1>11. ASSUME NEW q \in UnderWay'
       PROVE /\ rotation'[q].key \in KeyIds /\ rotation'[q].prev \in KeyIds
             /\ keys'[rotation'[q].key].role # "absent"
             /\ keys'[rotation'[q].prev] = Secondary(rotation'[q].until)
             /\ \A p \in promised' : p.key # rotation'[q].prev
  <2>1. CASE q = r
    <3>1. keys'[k].role # "absent" /\ keys'[prev] = aged
      BY <1>1, <1>2, <1>3, <1>10
    <3> QED BY <2>1, <1>1, <1>2, <1>8, <1>9, <3>1
  <2>2. CASE q # r
    <3>1. q \in UnderWay /\ rotation'[q] = rotation[q]
      BY <2>2, <1>4, <1>9 DEF UnderWay
    <3>2. keys[rotation[q].key].role # "absent" /\ keys[rotation[q].prev] = Secondary(rotation[q].until)
      BY <3>1 DEF RotationsInvariant
    <3>3. keys'[rotation[q].key].role # "absent"
      BY <3>1, <3>2, <1>3, <1>7, <1>10
    <3>4. keys'[rotation[q].prev] = keys[rotation[q].prev]
      BY <3>1, <1>3, <1>7
    <3>5. \A p \in promised' : p.key # rotation[q].prev
      BY <3>1, <1>1 DEF RotationsInvariant
    <3> QED BY <3>1, <3>2, <3>3, <3>4, <3>5, <1>7
  <2> QED BY <2>1, <2>2
<1>12. ASSUME NEW p \in UnderWay', NEW q \in UnderWay', p # q
       PROVE rotation'[p].key # rotation'[q].key /\ rotation'[p].prev # rotation'[q].prev
  <2>1. CASE p = r
    BY <2>1, <1>4, <1>7, <1>9, <1>12 DEF UnderWay
  <2>2. CASE q = r
    BY <2>2, <1>4, <1>7, <1>9, <1>12 DEF UnderWay
  <2>3. CASE p # r /\ q # r
    BY <2>3, <1>4, <1>9, <1>12 DEF UnderWay, RotationsInvariant
  <2> QED BY <2>1, <2>2, <2>3
<1>13. \A q \in Rotators \ UnderWay' : rotation'[q] = NoRotation
  BY <1>4, <1>9 DEF RotationsInvariant
<1>14. \A p \in promised' : keys'[p.key] = Secondary(p.until)
  BY <1>1, <1>3, <1>8 DEF RotationsInvariant
<1> QED BY <1>6, <1>11, <1>12, <1>13, <1>14 DEF RotationsInvariant

(* A rotation that ends, answered, undone or not, is not under way.        *)
LEMMA RotationEnds ==
  ASSUME KeyTypes, NEW r \in Rotators, KeyEnd(r)
  PROVE  /\ UnderWay' = UnderWay \ {r} /\ rotation'[r] = NoRotation
         /\ \A q \in Rotators : q # r => rotation'[q] = rotation[q]
BY DEF KeyEnd, KeyGoto, UnderWay, KeyTypes

LEMMA AnswerKeepsRotations ==
  ASSUME KeyTypes, RotationsInvariant, NEW r \in Rotators, Answer(r)
  PROVE  RotationsInvariant'
<1>1. /\ UnderWay' = UnderWay \ {r} /\ rotation'[r] = NoRotation
      /\ \A q \in Rotators : q # r => rotation'[q] = rotation[q]
  BY RotationEnds DEF Answer
<1>2. r \in UnderWay
  BY DEF Answer, UnderWay
<1>3. /\ keys' = keys
      /\ promised' = promised \cup {[key |-> rotation[r].prev, until |-> rotation[r].until]}
  BY DEF Answer
<1>4. \A q \in UnderWay' : q \in UnderWay /\ q # r /\ rotation'[q] = rotation[q] /\ q \in Rotators
  BY <1>1 DEF UnderWay
<1>5. Primaries' = Primaries
  BY <1>3 DEF Primaries
<1>6. \A p \in promised' : \/ p \in promised
                           \/ p.key = rotation[r].prev /\ p.until = rotation[r].until
  BY <1>3
<1>7. \A q \in UnderWay' : \A p \in promised' : p.key # rotation'[q].prev
  BY <1>2, <1>4, <1>6 DEF RotationsInvariant
<1>8. \A p \in promised' : keys'[p.key] = Secondary(p.until)
  BY <1>2, <1>3, <1>6 DEF RotationsInvariant
<1>9. \A q \in Rotators \ UnderWay' : rotation'[q] = NoRotation
  BY <1>1 DEF RotationsInvariant
<1> QED BY <1>3, <1>4, <1>5, <1>7, <1>8, <1>9 DEF RotationsInvariant

(* The key of a rotation is deleted only while it is the primary; what is  *)
(* restored in its place nobody else falls back to and nobody was told of. *)
LEMMA UndoKeepsRotations ==
  ASSUME KeyTypes, RotationsInvariant, NEW r \in Rotators, Undo(r)
  PROVE  RotationsInvariant'
<1> DEFINE k == rotation[r].key
<1> DEFINE prev == rotation[r].prev
<1>1. /\ UnderWay' = UnderWay \ {r} /\ rotation'[r] = NoRotation
      /\ \A q \in Rotators : q # r => rotation'[q] = rotation[q]
  BY RotationEnds DEF Undo
<1>2. r \in UnderWay
  BY DEF Undo, UnderWay
<1>3. keys' = Undone(r) /\ promised' = promised
  BY DEF Undo
<1>4. \A q \in UnderWay' : q \in UnderWay /\ q # r /\ rotation'[q] = rotation[q] /\ q \in Rotators
  BY <1>1 DEF UnderWay
<1>5. \A q \in Rotators \ UnderWay' : rotation'[q] = NoRotation
  BY <1>1 DEF RotationsInvariant
<1>6. \A q, p \in UnderWay' :
        q # p => rotation'[q].key # rotation'[p].key /\ rotation'[q].prev # rotation'[p].prev
  BY <1>4 DEF RotationsInvariant
<1>7. \A q \in UnderWay' :
        /\ rotation'[q].key \in KeyIds /\ rotation'[q].prev \in KeyIds
        /\ \A p \in promised' : p.key # rotation'[q].prev
  BY <1>3, <1>4 DEF RotationsInvariant
<1>8. CASE keys[k].role # "primary"
  <2>1. keys' = keys
    BY <1>3, <1>8 DEF Undone
  <2>2. Primaries' = Primaries
    BY <2>1 DEF Primaries
  <2> QED BY <1>3, <1>4, <1>5, <1>6, <1>7, <2>1, <2>2 DEF RotationsInvariant
<1>9. CASE keys[k].role = "primary"
  <2>1. k \in KeyIds /\ prev \in KeyIds /\ keys[prev] = Secondary(rotation[r].until)
    BY <1>2 DEF RotationsInvariant
  <2>2. k # prev
    BY <2>1, <1>9 DEF Secondary
  <2>3. \A j \in KeyIds : keys'[j] = IF j = prev THEN TheKey ELSE IF j = k THEN Absent ELSE keys[j]
    BY <1>3, <1>9, <2>1, <2>2 DEF Undone, KeyTypes
  <2>4. Primaries = {k}
    BY <1>9, <2>1 DEF RotationsInvariant, Primaries
  <2>5. Primaries' = {prev}
    BY <2>1, <2>3, <2>4 DEF Primaries, TheKey, Absent
  <2>6. ASSUME NEW q \in UnderWay'
        PROVE /\ keys'[rotation'[q].key].role # "absent"
              /\ keys'[rotation'[q].prev] = Secondary(rotation'[q].until)
    <3>1. /\ rotation[q].key # k /\ rotation[q].prev # prev
          /\ keys[rotation[q].key].role # "absent"
          /\ keys[rotation[q].prev] = Secondary(rotation[q].until)
      BY <1>2, <1>4 DEF RotationsInvariant
    <3>2. rotation[q].prev # k
      BY <3>1, <1>9 DEF Secondary
    <3>3. TheKey.role = "primary"
      BY DEF TheKey
    <3> QED BY <1>4, <1>7, <2>3, <3>1, <3>2, <3>3
  <2>7. ASSUME NEW p \in promised' PROVE keys'[p.key] = Secondary(p.until)
    <3>1. p.key \in KeyIds /\ p.key # prev /\ keys[p.key] = Secondary(p.until)
      BY <1>2, <1>3 DEF RotationsInvariant, KeyTypes
    <3>2. p.key # k
      BY <3>1, <1>9 DEF Secondary
    <3> QED BY <2>3, <3>1, <3>2
  <2> QED BY <1>5, <1>6, <1>7, <2>1, <2>5, <2>6, <2>7 DEF RotationsInvariant
<1> QED BY <1>8, <1>9

LEMMA OrphanKeepsRotations ==
  ASSUME KeyTypes, RotationsInvariant, NEW r \in Rotators, Orphan(r)
  PROVE  RotationsInvariant'
<1>1. /\ UnderWay' = UnderWay \ {r} /\ rotation'[r] = NoRotation
      /\ \A q \in Rotators : q # r => rotation'[q] = rotation[q]
  BY RotationEnds DEF Orphan
<1>2. keys' = keys /\ promised' = promised
  BY DEF Orphan
<1>3. \A q \in UnderWay' : q \in UnderWay /\ rotation'[q] = rotation[q]
  BY <1>1 DEF UnderWay
<1>4. Primaries' = Primaries
  BY <1>2 DEF Primaries
<1>5. \A q \in Rotators \ UnderWay' : rotation'[q] = NoRotation
  BY <1>1 DEF RotationsInvariant
<1> QED BY <1>2, <1>3, <1>4, <1>5 DEF RotationsInvariant

LEMMA RotationsStep ==
  ASSUME KeyTypes, RotationsInvariant, [KeysNext]_keyVars
  PROVE  RotationsInvariant'
<1>1. ASSUME NEW r \in Rotators, AuditRotation(r) PROVE RotationsInvariant'
  <2>1. UnderWay' = UnderWay
    BY <1>1 DEF AuditRotation, KeyGoto, UnderWay, KeyTypes
  <2>2. keys' = keys /\ rotation' = rotation /\ promised' = promised /\ Primaries' = Primaries
    BY <1>1 DEF AuditRotation, Primaries
  <2> QED BY <2>1, <2>2 DEF RotationsInvariant
<1>2. CASE NextDay \/ UNCHANGED keyVars
  <2>1. /\ keys' = keys /\ rotation' = rotation /\ promised' = promised
        /\ Primaries' = Primaries /\ UnderWay' = UnderWay
    BY <1>2 DEF NextDay, keyVars, Primaries, UnderWay
  <2> QED BY <2>1 DEF RotationsInvariant
<1> QED BY <1>1, <1>2, RotateKeepsRotations, AnswerKeepsRotations, UndoKeepsRotations,
           OrphanKeepsRotations DEF KeysNext

(* A key that stays has its caller still, and a new one the rotation that  *)
(* made it.                                                                *)
LEMMA SecretsStep ==
  ASSUME KeyTypes, RotationsInvariant, SecretsInvariant, [KeysNext]_keyVars
  PROVE  SecretsInvariant'
<1> SUFFICES ASSUME ~orphaned', ~overtaken', NEW k \in KeyIds, keys'[k].role # "absent"
             PROVE  k \in known' \/ \E r \in UnderWay' : rotation'[r].key = k
  BY DEF SecretsInvariant
<1> USE KeysAssumption
<1>1. ASSUME NEW r \in Rotators, Rotate(r) PROVE k \in known' \/ \E q \in UnderWay' : rotation'[q].key = k
  <2>1. PICK new \in KeyIds, grace \in Graces, prev \in Primaries :
          /\ keyPc[r] = "idle"
          /\ keys' = [keys EXCEPT ![prev] = Secondary(day + grace), ![new] = TheKey]
          /\ rotation' = [rotation EXCEPT ![r] = [key |-> new, prev |-> prev, until |-> day + grace]]
          /\ keyPc' = [keyPc EXCEPT ![r] = "audit"]
    BY <1>1 DEF Rotate, KeyGoto
  <2>2. known' = known /\ ~orphaned /\ ~overtaken
    BY <1>1 DEF Rotate
  <2>3. r \in UnderWay' /\ rotation'[r].key = new /\ UnderWay \subseteq UnderWay' /\ r \notin UnderWay
    BY <2>1 DEF UnderWay, KeyTypes
  <2>4. CASE k = new
    BY <2>3, <2>4
  <2>5. CASE k # new
    <3>1. keys[k].role # "absent"
      <4>1. CASE k = prev
        BY <4>1, <2>1 DEF Primaries
      <4>2. CASE k # prev
        BY <4>2, <2>1, <2>5 DEF KeyTypes
      <4> QED BY <4>1, <4>2
    <3>2. k \in known \/ \E q \in UnderWay : rotation[q].key = k
      BY <2>2, <3>1 DEF SecretsInvariant
    <3>3. \A q \in UnderWay : rotation'[q] = rotation[q]
      BY <2>1, <2>3 DEF UnderWay, KeyTypes
    <3> QED BY <2>2, <2>3, <3>2, <3>3
  <2> QED BY <2>4, <2>5
<1>2. ASSUME NEW r \in Rotators, AuditRotation(r) PROVE k \in known' \/ \E q \in UnderWay' : rotation'[q].key = k
  <2>1. UnderWay' = UnderWay
    BY <1>2 DEF AuditRotation, KeyGoto, UnderWay, KeyTypes
  <2> QED BY <1>2, <2>1 DEF AuditRotation, SecretsInvariant
<1>3. ASSUME NEW r \in Rotators, Answer(r) PROVE k \in known' \/ \E q \in UnderWay' : rotation'[q].key = k
  <2>1. /\ UnderWay' = UnderWay \ {r}
        /\ \A q \in Rotators : q # r => rotation'[q] = rotation[q]
    BY <1>3, RotationEnds DEF Answer
  <2>2. /\ known' = known \cup {rotation[r].key} /\ keys' = keys
        /\ orphaned' = orphaned /\ overtaken' = overtaken
    BY <1>3 DEF Answer
  <2>3. k \in known \/ \E q \in UnderWay : rotation[q].key = k
    BY <2>2 DEF SecretsInvariant
  <2> QED BY <2>1, <2>2, <2>3 DEF UnderWay
<1>4. ASSUME NEW r \in Rotators, Undo(r) PROVE k \in known' \/ \E q \in UnderWay' : rotation'[q].key = k
  <2>1. /\ UnderWay' = UnderWay \ {r}
        /\ \A q \in Rotators : q # r => rotation'[q] = rotation[q]
    BY <1>4, RotationEnds DEF Undo
  <2>2. ~overtaken /\ keys[rotation[r].key].role = "primary"
    BY <1>4 DEF Undo
  <2>3. known' = known /\ ~orphaned
    BY <1>4 DEF Undo
  <2>4. r \in UnderWay
    BY <1>4 DEF Undo, UnderWay
  <2>5. /\ rotation[r].key \in KeyIds /\ rotation[r].prev \in KeyIds
        /\ keys[rotation[r].prev] = Secondary(rotation[r].until)
    BY <2>4 DEF RotationsInvariant
  <2>6. keys[rotation[r].prev].role = "secondary"
    BY <2>5, RolesOfKeys
  <2>7. keys' = [keys EXCEPT ![rotation[r].key] = Absent, ![rotation[r].prev] = TheKey]
    BY <1>4, <2>2 DEF Undo, Undone
  <2>8. k # rotation[r].key
    BY <2>2, <2>5, <2>6, <2>7, RolesOfKeys DEF KeyTypes
  <2>9. keys[k].role # "absent"
    BY <2>5, <2>6, <2>7, <2>8 DEF KeyTypes
  <2>10. k \in known \/ \E q \in UnderWay : rotation[q].key = k
    BY <2>2, <2>3, <2>9 DEF SecretsInvariant
  <2> QED BY <2>1, <2>3, <2>8, <2>10 DEF UnderWay
<1>5. ASSUME NEW r \in Rotators, Orphan(r) PROVE FALSE
  BY <1>5 DEF Orphan
<1>6. CASE NextDay \/ UNCHANGED keyVars
  BY <1>6 DEF NextDay, keyVars, SecretsInvariant, UnderWay
<1> QED BY <1>1, <1>2, <1>3, <1>4, <1>5, <1>6 DEF KeysNext

THEOREM KeysInvariantHolds == KeysSpec => []KeysInvariant
<1>1. KeysInvariant /\ [KeysNext]_keyVars => KeysInvariant'
  BY TypesStep, RotationsStep, SecretsStep DEF KeysInvariant
<1> QED BY <1>1, KeysStart, PTL DEF KeysSpec

(* Webhooks always have exactly one key to be signed with, and a replaced  *)
(* key verifies as long as a caller was told: rotateSigningKey and         *)
(* rollbackSigningKeyRotation in any order, with any failures.             *)
THEOREM KeysAreHonoured == KeysSpec => []GraceHonoured
<1>1. KeysInvariant => GraceHonoured
  <2> SUFFICES ASSUME KeysInvariant PROVE GraceHonoured
    OBVIOUS
  <2>1. Cardinality(Primaries) = 1
    BY FS_Singleton DEF KeysInvariant, RotationsInvariant
  <2>2. ASSUME NEW p \in promised, day < p.until PROVE Active(p.key)
    <3>1. keys[p.key] = Secondary(p.until)
      BY DEF KeysInvariant, RotationsInvariant
    <3> QED BY <2>2, <3>1 DEF Active, Secondary
  <2> QED BY <2>1, <2>2 DEF GraceHonoured
<1> QED BY <1>1, KeysInvariantHolds, PTL

(* When every rotate-key call has ended, webhooks are signed with a key    *)
(* whose secret a caller was given, unless an unanswered rotation stayed.  *)
THEOREM SecretsAreGiven == KeysSpec => []PrimaryIsKnown
<1>1. KeysInvariant => PrimaryIsKnown
  <2> SUFFICES ASSUME KeysInvariant, ~orphaned, ~overtaken,
                      \A r \in Rotators : keyPc[r] = "idle", NEW k \in Primaries
               PROVE  k \in known
    BY DEF PrimaryIsKnown
  <2>1. k \in KeyIds /\ keys[k].role # "absent"
    BY DEF Primaries
  <2>2. UnderWay = {}
    BY DEF UnderWay
  <2> QED BY <2>1, <2>2 DEF KeysInvariant, SecretsInvariant
<1> QED BY <1>1, KeysInvariantHolds, PTL

(* Whatever rotations overlap, fail and are taken back: one primary whose  *)
(* secret somebody has, and every replaced key for as long as was told.    *)
THEOREM RotationsAreSafe == KeysSpec => []RotationIsSafe
<1>1. GraceHonoured /\ PrimaryIsKnown => RotationIsSafe
  BY DEF RotationIsSafe
<1> QED BY <1>1, KeysAreHonoured, SecretsAreGiven, PTL
=============================================================================
