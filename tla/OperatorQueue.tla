---------------------------- MODULE OperatorQueue ----------------------------
(***************************************************************************)
(* The operator's request queue in a browser (react/src/operator-queue.tsx)*)
(* against a server others work on too. Every button starts an async call: *)
(* it posts, then refreshes the whole queue by a list, one read per        *)
(* request and a look-up of the shop's account of each. Only the card of   *)
(* `busyId` is disabled meanwhile, so calls overlap and their answers      *)
(* replace what a later one has shown.                                     *)
(***************************************************************************)
EXTENDS Naturals, FiniteSets

CONSTANTS
  Requests,       \* the queue, one shop account each
  TypesOf(_),     \* what requestType may be
  StartsAt(_),    \* status when the page is opened
  Slots,          \* calls of the page under way at the same time
  MaxClicks,      \* bound: calls started
  MaxTroubles,    \* bound: browser requests that fail, changes by other clients
  None

ASSUME OperatorAssumption ==
  /\ None \notin Requests /\ MaxClicks \in Nat /\ MaxTroubles \in Nat

VARIABLES
  server,       \* status of each request, and how often it has changed
  type,         \* requestType of each request
  accounts,     \* requests whose account the shop has
  cards,        \* rows and details: what each card shows
  people,       \* requests with an account in the last look-up
  verifiedIds,
  busyId,
  refusal,      \* refuseId, and the request refuseReason was typed for
  page,         \* the async functions under way
  clicks, troubles,  \* bounded counters
  confirmed,    \* history: the server took this operator's confirmation
  settled,      \* history: was fulfilled, refused or closed
  worked,       \* history: was in progress at the server
  given,        \* history: the JSON copy of the account was downloaded
  acted,        \* history: change a finished call of this page has made
  raced         \* history: two refreshes were under way together

cardVars == <<cards, people, verifiedIds, busyId, refusal>>
historyVars == <<confirmed, settled, worked, given, acted, raced>>
operatorVars == <<server, type, accounts, cardVars, page, clicks, troubles, historyVars>>

Server == INSTANCE StateMachine WITH RefusalEligible <- TRUE

NoCard   == [status |-> "none", change |-> 0, detail |-> FALSE]
NoRefusal == [id |-> None, reason |-> None]
Resting  == [pc |-> "idle", request |-> None, action |-> "none", reason |-> None,
             change |-> 0, read |-> <<>>]
Loading  == [Resting EXCEPT !.pc = "list"]
Final    == {"fulfilled", "refused", "closed"}

OperatorInit ==
  /\ server = [r \in Requests |-> [status |-> StartsAt(r), change |-> 0]]
  /\ type \in {t \in [Requests -> UNION {TypesOf(r) : r \in Requests}] :
                 \A r \in Requests : t[r] \in TypesOf(r)}
  /\ accounts = Requests /\ people = {} /\ verifiedIds = {} /\ busyId = None
  /\ cards = [r \in Requests |-> NoCard]
  /\ refusal = NoRefusal
  /\ page = [c \in Slots |-> Resting]
  /\ clicks = 0 /\ troubles = 0
  /\ confirmed = {} /\ settled = {r \in Requests : StartsAt(r) \in Final}
  /\ worked = {r \in Requests : StartsAt(r) = "in_progress"} /\ given = {}
  /\ acted = [r \in Requests |-> 0] /\ raced = FALSE
-----------------------------------------------------------------------------
(* What a card offers.                                                     *)

IdentityUnlocked(r) ==
  \/ cards[r].status \in Final
  \/ cards[r].status = "in_progress" /\ r \in verifiedIds

(* The type is part of the details.                                        *)
ShownType(r) == IF cards[r].detail THEN type[r] ELSE "unknown"

(* UnlockedRecords: the tables of AcmeRecords have something to show.      *)
RecordsShown(r) == IdentityUnlocked(r) /\ r \in people

(* CorrectionSlot: the form is filled with the account's name and plan.    *)
CorrectionShown(r) ==
  cards[r].status = "in_progress" /\ ShownType(r) = "correct" /\ r \in people

(* A mutant: the copy is offered while the filer is still being verified.  *)
ExportOfferedEarly(r) ==
  /\ cards[r].status \in {"verification_pending", "in_progress"}
  /\ ShownType(r) \in {"access", "portability"}

(* Download JSON copy.                                                     *)
ExportOffered(r) ==
  cards[r].status = "in_progress" /\ ShownType(r) \in {"access", "portability"}

ButtonsAt == [
  verification_request |-> {"captured"},
  verification_approve |-> {"verification_pending"},
  verification_reject  |-> {"verification_pending"},
  fulfil               |-> {"in_progress"},
  close                |-> {"fulfilled", "refused"}]

Buttons(r) ==
  {a \in DOMAIN ButtonsAt : cards[r].status \in ButtonsAt[a]}
    \cup {a \in {"erase"} : /\ cards[r].status = "fulfilled"
                            /\ ShownType(r) = "delete" /\ r \in people}
    \cup {a \in {"correct"} : CorrectionShown(r)}
-----------------------------------------------------------------------------
Trouble == troubles < MaxTroubles /\ troubles' = troubles + 1

Ended(c) ==
  /\ page' = [page EXCEPT ![c] = Resting]
  /\ busyId' = IF page[c].request = None THEN busyId ELSE None

(* Calls whose refresh is under way.                                       *)
Refreshing == {c \in Slots : page[c].pc \in {"list", "details", "people"}}

(* The effect that loads the queue when the page is opened, or again after *)
(* that has failed.                                                        *)
OpenPage(c) ==
  /\ \A d \in Slots : page[d].pc = "idle"
  /\ \A r \in Requests : cards[r] = NoCard
  /\ page' = [page EXCEPT ![c] = Loading]
  /\ UNCHANGED <<server, type, accounts, cardVars, clicks, troubles, historyVars>>

Start(c, r, action, reason) ==
  /\ page[c].pc = "idle" /\ clicks < MaxClicks /\ busyId # r
  /\ clicks' = clicks + 1 /\ busyId' = r
  /\ page' = [page EXCEPT ![c] = [Resting EXCEPT !.pc = "post", !.request = r,
                                                 !.action = action, !.reason = reason]]

(* A mutant: the card is marked as confirmed before the server has agreed. *)
ClickConfirming(c, r) ==
  \E action \in Buttons(r) :
    /\ Start(c, r, action, None)
    /\ verifiedIds' = verifiedIds \cup {q \in {r} : action = "verification_approve"}
    /\ UNCHANGED <<server, type, accounts, cards, people, refusal, troubles, historyVars>>

(* runAction, eraseAcme and correctAcme up to their first await.           *)
Click(c, r) ==
  \E action \in Buttons(r) :
    /\ Start(c, r, action, None)
    /\ UNCHANGED <<server, type, accounts, cards, people, verifiedIds, refusal, troubles,
                   historyVars>>

(* A mutant: the text of the form opened before is kept.                   *)
OpenRefusalKeeping(r) ==
  /\ cards[r].status = "in_progress" /\ busyId # r
  /\ refusal' = [refusal EXCEPT !.id = r]
  /\ UNCHANGED <<server, type, accounts, cards, people, verifiedIds, busyId, page, clicks,
                 troubles, historyVars>>

OpenRefusal(r) ==
  /\ cards[r].status = "in_progress" /\ busyId # r
  /\ refusal' = [id |-> r, reason |-> None]
  /\ UNCHANGED <<server, type, accounts, cards, people, verifiedIds, busyId, page, clicks,
                 troubles, historyVars>>

TypeReason ==
  /\ refusal.id # None /\ refusal' = [refusal EXCEPT !.reason = refusal.id]
  /\ UNCHANGED <<server, type, accounts, cards, people, verifiedIds, busyId, page, clicks,
                 troubles, historyVars>>

(* Cancelling closes the form and keeps the text.                          *)
CancelRefusal ==
  /\ refusal.id # None /\ refusal' = [refusal EXCEPT !.id = None]
  /\ UNCHANGED <<server, type, accounts, cards, people, verifiedIds, busyId, page, clicks,
                 troubles, historyVars>>

(* Without a reason only an alert is shown.                                *)
SubmitRefusal(c, r) ==
  /\ refusal.id = r /\ refusal.reason # None
  /\ Start(c, r, "refuse", refusal.reason)
  /\ UNCHANGED <<server, type, accounts, cards, people, verifiedIds, refusal, troubles,
                 historyVars>>

(* exportAcme: one read of the shop, which marks no card as busy and whose *)
(* answer, when it comes, changes nothing of the page.                     *)
Export(r) ==
  /\ ExportOffered(r) /\ busyId # r /\ r \in accounts
  /\ given' = given \cup {r}
  /\ UNCHANGED <<server, type, accounts, cardVars, page, clicks, troubles, confirmed, settled,
                 worked, acted, raced>>

(* A status changes at the server.                                         *)
Moves(r, action) ==
  LET to == Server!StatusByAction[action] IN
  /\ server' = [server EXCEPT ![r] = [status |-> to, change |-> @.change + 1]]
  /\ settled' = settled \cup {q \in {r} : to \in Final}
  /\ worked' = worked \cup {q \in {r} : to = "in_progress"}

(* The request arrives, is applied or refused, or never gets there.        *)
Post(c) ==
  LET r == page[c].request action == page[c].action
      onServer == action \in Server!Actions
      answered == page' = [page EXCEPT ![c].pc = "answer",
                                       ![c].change = server'[r].change] IN
  /\ page[c].pc = "post"
  /\ \/ /\ onServer /\ Server!Permitted(action, server[r].status)
        /\ Moves(r, action)
        /\ confirmed' = confirmed \cup {q \in {r} : action = "verification_approve"}
        /\ answered /\ UNCHANGED <<accounts, busyId, troubles>>
     \/ /\ ~onServer
        /\ accounts' = accounts \ {q \in {r} : action = "erase"}
        /\ UNCHANGED <<server, settled, worked, confirmed, busyId, troubles>> /\ answered
     \/ /\ onServer /\ ~Server!Permitted(action, server[r].status)
        /\ Ended(c) /\ UNCHANGED <<server, accounts, settled, worked, confirmed, troubles>>
     \/ Trouble /\ Ended(c) /\ UNCHANGED <<server, accounts, settled, worked, confirmed>>
  /\ UNCHANGED <<type, cards, people, verifiedIds, refusal, clicks, given, acted, raced>>

(* What runAction does before its refresh; the calls of the shop refresh   *)
(* at once. An answer may be lost on its way.                              *)
Answered(c) ==
  LET r == page[c].request IN
  /\ page[c].pc = "answer"
  /\ \/ /\ page' = [page EXCEPT ![c].pc = "list"]
        /\ verifiedIds' = verifiedIds \cup
             {q \in {r} : page[c].action = "verification_approve"}
        /\ refusal' = IF page[c].action \in Server!Actions THEN NoRefusal ELSE refusal
        /\ raced' = (raced \/ Refreshing # {})
        /\ UNCHANGED <<busyId, troubles>>
     \/ Trouble /\ Ended(c) /\ UNCHANGED <<verifiedIds, refusal, raced>>
  /\ UNCHANGED <<server, type, accounts, cards, people, clicks, confirmed, settled, worked,
                 given, acted>>

(* setRows: a row's own status shows until the first details have come.    *)
ListRows(c) ==
  /\ page[c].pc = "list"
  /\ page' = [page EXCEPT ![c].pc = "details", ![c].read = <<>>]
  /\ cards' = [r \in Requests |-> IF cards[r].detail THEN cards[r] ELSE
                 [status |-> server[r].status, change |-> server[r].change, detail |-> FALSE]]
  /\ UNCHANGED <<server, type, accounts, people, verifiedIds, busyId, refusal, clicks, troubles,
                 historyVars>>

(* One of the reads that Promise.all waits for.                            *)
ReadDetail(c, r) ==
  /\ page[c].pc = "details" /\ r \notin DOMAIN page[c].read
  /\ page' = [page EXCEPT ![c].read = [q \in DOMAIN @ \cup {r} |->
                                         IF q = r THEN server[r] ELSE @[q]]]
  /\ UNCHANGED <<server, type, accounts, cardVars, clicks, troubles, historyVars>>

(* setDetails replaces them all.                                           *)
ShowDetails(c) ==
  /\ page[c].pc = "details" /\ DOMAIN page[c].read = Requests
  /\ cards' = [r \in Requests |-> [status |-> page[c].read[r].status,
                                   change |-> page[c].read[r].change, detail |-> TRUE]]
  /\ page' = [page EXCEPT ![c].pc = "people", ![c].read = <<>>]
  /\ UNCHANGED <<server, type, accounts, people, verifiedIds, busyId, refusal, clicks, troubles,
                 historyVars>>

(* The look-ups, one of which may be refused and show no account; the call *)
(* ends.                                                                   *)
ShowPeople(c) ==
  LET r == page[c].request IN
  /\ page[c].pc = "people"
  /\ \E missing \in SUBSET accounts :
       /\ people' = accounts \ missing
       /\ IF missing = {} THEN troubles' = troubles ELSE Trouble /\ Cardinality(missing) = 1
  /\ acted' = [q \in Requests |-> IF q = r THEN page[c].change ELSE acted[q]]
  /\ Ended(c)
  /\ UNCHANGED <<server, type, accounts, cards, verifiedIds, refusal, clicks, confirmed,
                 settled, worked, given, raced>>

(* The list, a detail or a look-up does not come, or an answer is no JSON; *)
(* the alert is all that is shown.                                         *)
RefreshFails(c) ==
  /\ c \in Refreshing /\ Trouble
  /\ Ended(c)
  /\ UNCHANGED <<server, type, accounts, cards, people, verifiedIds, refusal, clicks,
                 historyVars>>

(* Another operator, the API or the subject.                               *)
ForeignMove(r) ==
  /\ Trouble
  /\ \E action \in Server!Actions :
       Server!Permitted(action, server[r].status) /\ Moves(r, action)
  /\ UNCHANGED <<type, accounts, cardVars, page, clicks, confirmed, given, acted, raced>>

OperatorNext ==
  \/ \E r \in Requests : OpenRefusal(r) \/ Export(r) \/ ForeignMove(r)
  \/ \E c \in Slots, r \in Requests : Click(c, r) \/ SubmitRefusal(c, r) \/ ReadDetail(c, r)
  \/ TypeReason \/ CancelRefusal
  \/ \E c \in Slots : \/ OpenPage(c) \/ Post(c) \/ Answered(c) \/ ListRows(c)
                      \/ ShowDetails(c) \/ ShowPeople(c) \/ RefreshFails(c)

OperatorSpec == OperatorInit /\ [][OperatorNext]_operatorVars
-----------------------------------------------------------------------------
(* Properties.                                                             *)

(* The tables show only if this operator has confirmed the filer, or the   *)
(* server has fulfilled, refused or closed the request, whatever was said  *)
(* of the filer before; the form and the copy are given out only of a      *)
(* request the server has put in progress, which a rejected verification   *)
(* does as well - whoever else works on it, whichever calls fail and       *)
(* whatever late answers the cards show. (See FullDataStaysHidden.)        *)
RecordsNeedAnOutcome ==
  \A r \in Requests :
    /\ RecordsShown(r) => r \in confirmed \cup settled
    /\ r \in given \/ CorrectionShown(r) => r \in worked

(* What operator-queue.tsx:900 tells the operator: "Full product data      *)
(* stays hidden until you say it is the same person", for requests nobody  *)
(* had decided on when the page was opened. The code does not keep it.     *)
FullDataStaysHidden ==
  \A r \in Requests : StartsAt(r) \in {"captured", "verification_pending"} =>
    (RecordsShown(r) \/ r \in given => r \in confirmed)

(* A refusal carries the reason typed for it, though all cards share one   *)
(* text, which calls of other cards clear under the form.                  *)
ReasonIsTheRequests ==
  \A c \in Slots : page[c].action = "refuse" => page[c].reason = page[c].request

(* After a call has ended well its card shows what the call did, or newer, *)
(* as long as no two refreshes were under way together: then the older     *)
(* answers may be the ones that stay.                                      *)
OwnActionIsShown ==
  ~raced => \A r \in Requests : cards[r].change >= acted[r]

OperatorIsNotMisled == RecordsNeedAnOutcome /\ ReasonIsTheRequests /\ OwnActionIsShown
=============================================================================
