---------------------------- MODULE RequestCapture ----------------------------
(***************************************************************************)
(* captureRequestLifecycle (lifecycle/service.ts) behind its two doors: an *)
(* inbound adapter (routes/inbound-capture.ts), which passes on the key of *)
(* the delivery, and POST /requests (routes/requests/shared.ts), which     *)
(* does not. In front of the door stands a caller that sends a message     *)
(* again when no answer came: the webhook provider of an adapter, or       *)
(* callApi of the node SDK (fetcher.ts). Policy evaluation and the clock   *)
(* are those of other modules; here they are one more write each.          *)
(***************************************************************************)
EXTENDS Naturals, FiniteSets

CONSTANTS
  Messages,          \* what is captured; also its idempotency key
  Keyed,             \* messages that come through an inbound adapter
  ReceivedAt(_),     \* intakeSource.receivedAt, which the sender decides
  RequestIds,        \* ids makeRequestId returns
  PageSize,          \* DEFAULT_LIMIT of requests.list()
  Servers,           \* handlers running at the same time
  MaxSends,          \* retryMaxAttempts
  MaxCaptureFaults,  \* bound: statements that fail, processes that die
  NoMessage, NoRequest

ASSUME CaptureAssumption ==
  /\ Keyed \subseteq Messages /\ NoMessage \notin Messages /\ NoRequest \notin RequestIds
  /\ \A m \in Messages : ReceivedAt(m) \in Nat
  /\ PageSize \in Nat \ {0} /\ MaxSends \in Nat \ {0} /\ MaxCaptureFaults \in Nat

VARIABLES
  captured,       \* requests: id, message captured, key stored
  traces,         \* timeline, audit, notification, clock and due-date writes
  capturePc,      \* the statement each server executes next
  capturing,      \* the message it serves and the id it made
  sendings,       \* for every message, how often it was sent
  responses,      \* for every message, the ids its sender was answered
  captureFaults,  \* bounded counter
  crossed,        \* history: messages served twice at the same time
  buried,         \* history: messages whose request had left the newest page
  severed         \* history: requests whose capture stopped half way

captureVars == <<captured, traces, capturePc, capturing, sendings, responses, captureFaults,
                 crossed, buried, severed>>

NoCapture == [msg |-> NoMessage, id |-> NoRequest]

(* The writes that follow the insertion of a request, in this order.       *)
Writes == <<"timeline", "audit", "notification", "clock", "due">>

(* list() orders by received_at, newest first, and returns one page; equal *)
(* timestamps come in any order.                                           *)
Newer(r, q) == ReceivedAt(r.msg) > ReceivedAt(q.msg)

Pages ==
  {page \in SUBSET captured :
     /\ Cardinality(page) = IF Cardinality(captured) < PageSize THEN Cardinality(captured)
                            ELSE PageSize
     /\ \A r \in captured \ page, q \in page : ~Newer(r, q)}

(* A mutant: no request is looked for.                                     *)
KnownNever(m, page) == {}

(* A request of the page with the key of the delivery.                     *)
Known(m, page) == IF m \in Keyed THEN {r \in page : r.key = m} ELSE {}

Of(m) == {r \in captured : r.msg = m}

CaptureInit ==
  /\ captured = {} /\ traces = {}
  /\ capturePc = [s \in Servers |-> "idle"]
  /\ capturing = [s \in Servers |-> NoCapture]
  /\ sendings = [m \in Messages |-> 0]
  /\ responses = [m \in Messages |-> {}]
  /\ captureFaults = 0 /\ crossed = {} /\ buried = {} /\ severed = {}

CaptureGoto(s, label) == capturePc' = [capturePc EXCEPT ![s] = label]

(* The handler ends; its answer, if it has one, may be lost on the way.    *)
Respond(s, ids) ==
  /\ CaptureGoto(s, "idle")
  /\ capturing' = [capturing EXCEPT ![s] = NoCapture]
  /\ \/ responses' = [responses EXCEPT ![capturing[s].msg] = @ \cup ids]
     \/ UNCHANGED responses
-----------------------------------------------------------------------------
(* A sender without an answer sends, or sends again - also while a server  *)
(* is still busy with what timed out.                                      *)
SendMessage(s) ==
  \E m \in Messages :
    /\ capturePc[s] = "idle"
    /\ responses[m] = {} /\ sendings[m] < MaxSends
    /\ sendings' = [sendings EXCEPT ![m] = @ + 1]
    /\ capturing' = [capturing EXCEPT ![s] = [msg |-> m, id |-> NoRequest]]
    /\ CaptureGoto(s, "lookup")
    /\ crossed' = crossed \cup {n \in {m} : \E t \in Servers : capturing[t].msg = n}
    /\ UNCHANGED <<captured, traces, responses, captureFaults, buried, severed>>

LookupHit(s) ==
  \E page \in Pages :
    /\ capturePc[s] = "lookup"
    /\ \E r \in Known(capturing[s].msg, page) : Respond(s, {r.id})
    /\ UNCHANGED <<captured, traces, sendings, captureFaults, crossed, buried, severed>>

LookupMiss(s) ==
  \E page \in Pages :
    /\ capturePc[s] = "lookup"
    /\ Known(capturing[s].msg, page) = {}
    /\ buried' = buried \cup {m \in {capturing[s].msg} : Of(m) # {} /\ Of(m) \cap page = {}}
    /\ CaptureGoto(s, "create")
    /\ UNCHANGED <<captured, traces, capturing, sendings, responses, captureFaults, crossed,
                   severed>>

CreateRequest(s) ==
  \E id \in RequestIds :
    /\ capturePc[s] = "create" /\ \A r \in captured : r.id # id
    /\ captured' = captured \cup
         {[id |-> id, msg |-> capturing[s].msg,
           key |-> IF capturing[s].msg \in Keyed THEN capturing[s].msg ELSE NoMessage]}
    /\ capturing' = [capturing EXCEPT ![s].id = id]
    /\ CaptureGoto(s, Writes[1])
    /\ UNCHANGED <<traces, sendings, responses, captureFaults, crossed, buried, severed>>

(* A mutant: the handler answers before the last write.                    *)
WriteTraceButLast(s) ==
  \E i \in 1..4 :
    /\ capturePc[s] = Writes[i]
    /\ traces' = traces \cup {[id |-> capturing[s].id, what |-> Writes[i]]}
    /\ IF i = 4 THEN Respond(s, {capturing[s].id})
       ELSE CaptureGoto(s, Writes[i+1]) /\ UNCHANGED <<capturing, responses>>
    /\ UNCHANGED <<captured, sendings, captureFaults, crossed, buried, severed>>

WriteTrace(s) ==
  \E i \in 1..5 :
    /\ capturePc[s] = Writes[i]
    /\ traces' = traces \cup {[id |-> capturing[s].id, what |-> Writes[i]]}
    /\ IF i = 5 THEN Respond(s, {capturing[s].id})
       ELSE CaptureGoto(s, Writes[i+1]) /\ UNCHANGED <<capturing, responses>>
    /\ UNCHANGED <<captured, sendings, captureFaults, crossed, buried, severed>>

(* A statement fails or the process dies; what was written stays.          *)
CaptureFail(s) ==
  /\ capturePc[s] # "idle" /\ captureFaults < MaxCaptureFaults
  /\ captureFaults' = captureFaults + 1
  /\ severed' = severed \cup ({capturing[s].id} \ {NoRequest})
  /\ CaptureGoto(s, "idle") /\ capturing' = [capturing EXCEPT ![s] = NoCapture]
  /\ UNCHANGED <<captured, traces, sendings, responses, crossed, buried>>

CaptureNext ==
  \E s \in Servers :
    \/ SendMessage(s) \/ LookupHit(s) \/ LookupMiss(s) \/ CreateRequest(s) \/ WriteTrace(s)
    \/ CaptureFail(s)

CaptureSpec == CaptureInit /\ [][CaptureNext]_captureVars
-----------------------------------------------------------------------------
(* Properties.                                                             *)

(* A delivery repeated by its provider becomes one request, whatever       *)
(* failed or was lost - unless two of its copies were served at the same   *)
(* time or newer requests had pushed the first off the page.               *)
OneRequestPerDelivery ==
  \A m \in Keyed \ (crossed \cup buried) : Cardinality(Of(m)) <= 1

(* A request its sender was answered is in the timeline, audited,          *)
(* announced and on the clock, unless the handler that made it failed: a   *)
(* repeated delivery finds such a request and answers it as it is.         *)
AnsweredIsComplete ==
  \A m \in Messages : \A id \in responses[m] \ severed :
    \/ \A i \in 1..5 : [id |-> id, what |-> Writes[i]] \in traces
    \/ m \in crossed

(* Both.                                                                   *)
CaptureIsExact == OneRequestPerDelivery /\ AnsweredIsComplete
=============================================================================
