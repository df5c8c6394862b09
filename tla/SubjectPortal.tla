---------------------------- MODULE SubjectPortal ----------------------------
(***************************************************************************)
(* The requests of one subject: GET /subjects/:subjectId (routes/          *)
(* subjects.ts over requests.listBySubject), which a client walks page by  *)
(* page with the cursor it is given, and the portal of the React package   *)
(* (react/src/subject-portal.tsx), which files requests and shows the      *)
(* first page. A row is listed by created_at, and by id among equals, as   *)
(* texts. created_at is the intake's receivedAt, spelled as the sender     *)
(* spelled it; a cursor's is spelled anew when it comes back.              *)
(***************************************************************************)
EXTENDS Naturals, FiniteSets, SequencesExt

CONSTANTS
  Filings,            \* ids of requests, numbers: their order is the ids'
  SubjectPage,        \* limit of a page
  Stamps,             \* texts of receivedAt, numbers: their order is the texts'
  Respell(_),         \* the text toISOString gives for one; Nothing: not accepted
  MaxGiven,           \* bound: rows a client is given in a walk
  MaxPortalFaults,    \* bound: calls that fail
  Nothing             \* no request, no cursor

ASSUME PortalAssumption ==
  /\ Filings \subseteq Nat /\ SubjectPage \in Nat \ {0}
  /\ Stamps \subseteq Nat /\ Nothing \notin Stamps
  /\ \A t \in Stamps : Respell(t) \in Stamps \cup {Nothing}
  /\ MaxGiven \in Nat /\ MaxPortalFaults \in Nat
  /\ Nothing \notin Filings \cup [id : Filings, created : Stamps]

VARIABLES
  subjectRows,   \* requests of the subject: id and created_at
  walk,          \* a client's walk: its cursor, what it has been given, and whether
                 \* a cursor came back spelled differently
  walkKnown,     \* history: rows there when the walk began
  portal,        \* the form: whether it has text, its alert, pending; what is shown
  filing,        \* the submission under way
  loads,         \* the refreshes under way: of the first render, of a submission
  portalFaults,  \* bounded counter
  lastFiled,     \* history: the portal's last request whose submission raised no alert
  outrun      \* history: a submission's refresh ran beside the first one

portalVars == <<subjectRows, walk, walkKnown, portal, filing, loads, portalFaults,
                lastFiled, outrun>>
subjectWalk   == <<walk, walkKnown>>
browserVars   == <<portal, filing, loads, portalFaults, lastFiled, outrun>>

NoWalk == [at |-> "idle", cursor |-> Nothing, given |-> <<>>, respelled |-> FALSE]
NoLoad == [at |-> "none", rows |-> {}]
Loads  == {"first", "again"}
NoFiling == [at |-> "idle", id |-> Nothing, text |-> FALSE]

PortalInit ==
  /\ subjectRows = {}
  /\ walk = NoWalk /\ walkKnown = {}
  /\ portal = [text |-> FALSE, alert |-> FALSE, rows |-> {}]
  /\ filing = NoFiling
  /\ loads = [l \in Loads |-> IF l = "first" THEN [NoLoad EXCEPT !.at = "asked"] ELSE NoLoad]
  /\ portalFaults = 0 /\ lastFiled = Nothing /\ outrun = FALSE

(* ORDER BY created_at DESC, id DESC.                                      *)
Listed(a, b) == a.created > b.created \/ (a.created = b.created /\ a.id > b.id)

(* A mutant: rows created together with the cursor's are taken for seen.   *)
PastCursorTime(row, cursor) == cursor = Nothing \/ cursor.created > row.created

PastCursor(row, cursor) == cursor = Nothing \/ Listed(cursor, row)

(* decodeCursor: Nothing for a cursor it does not accept.                  *)
DecodeCursor(cursor) ==
  IF cursor = Nothing \/ Respell(cursor.created) = Nothing THEN Nothing
  ELSE [cursor EXCEPT !.created = Respell(@)]

(* One row more than the limit is selected: it is not given, but tells     *)
(* that there is a next page.                                              *)
SubjectList(cursor) ==
  CHOOSE s \in SetToSeqs({r \in subjectRows : PastCursor(r, cursor)}) :
    \A i, j \in DOMAIN s : i < j => Listed(s[i], s[j])
FirstPage(list) == SubSeq(list, 1, IF Len(list) < SubjectPage THEN Len(list) ELSE SubjectPage)
RowsShown == ToSet(FirstPage(SubjectList(Nothing)))

(* A capture inserts its row; its receivedAt may be any.                   *)
InsertRow(id) ==
  \E at \in Stamps : subjectRows' = subjectRows \cup {[id |-> id, created |-> at]}

NewIds == Filings \ {r.id : r \in subjectRows}

FileElsewhere ==
  /\ \E id \in NewIds \ {filing.id} : InsertRow(id)
  /\ UNCHANGED <<subjectWalk, browserVars>>
-----------------------------------------------------------------------------
BeginWalk ==
  /\ walk.at = "idle" /\ subjectRows # {}
  /\ walk' = [NoWalk EXCEPT !.at = "paging"] /\ walkKnown' = subjectRows
  /\ UNCHANGED <<subjectRows, browserVars>>

NextSubjectPage ==
  /\ walk.at = "paging" /\ Len(walk.given) < MaxGiven
  /\ LET cursor == DecodeCursor(walk.cursor)
         list == SubjectList(cursor)
         page == FirstPage(list)
     IN  /\ walk.cursor # Nothing => cursor # Nothing
         /\ walk' = [at     |-> IF Len(list) > SubjectPage THEN "paging" ELSE "done",
                     cursor |-> IF page = <<>> THEN Nothing ELSE Last(page),
                     given  |-> walk.given \o page,
                     respelled |-> walk.respelled \/ cursor # walk.cursor]
  /\ UNCHANGED <<walkKnown, subjectRows, browserVars>>

(* "Cursor must be a cursor returned by this endpoint."                    *)
RefuseCursor ==
  /\ walk.at = "paging" /\ walk.cursor # Nothing /\ DecodeCursor(walk.cursor) = Nothing
  /\ walk' = [walk EXCEPT !.at = "refused"]
  /\ UNCHANGED <<walkKnown, subjectRows, browserVars>>
-----------------------------------------------------------------------------
(* The fields stay open while a submission is under way.                   *)
TypeText ==
  /\ ~portal.text /\ portal' = [portal EXCEPT !.text = TRUE]
  /\ UNCHANGED <<subjectRows, subjectWalk, filing, loads, portalFaults, lastFiled, outrun>>

(* A mutant: the text is cleared as soon as it has been sent.              *)
SubmitAndClear ==
  /\ filing.at = "idle"
  /\ filing' \in [at : {"posting"}, id : NewIds, text : {portal.text}]
  /\ portal' = [portal EXCEPT !.alert = FALSE, !.text = FALSE]
  /\ UNCHANGED <<subjectRows, subjectWalk, loads, portalFaults, lastFiled, outrun>>

(* onSubmit up to its first await; the button is disabled until it ends.   *)
(* Text is optional.                                                       *)
SubmitFiling ==
  /\ filing.at = "idle"
  /\ filing' \in [at : {"posting"}, id : NewIds, text : {portal.text}]
  /\ portal' = [portal EXCEPT !.alert = FALSE]
  /\ UNCHANGED <<subjectRows, subjectWalk, loads, portalFaults, lastFiled, outrun>>

CaptureFiling ==
  /\ filing.at = "posting" /\ filing' = [filing EXCEPT !.at = "stored"]
  /\ filing.id \in NewIds /\ InsertRow(filing.id)
  /\ UNCHANGED <<subjectWalk, portal, loads, portalFaults, lastFiled, outrun>>

(* The answer has come: refresh.                                           *)
RefreshAfterFiling ==
  /\ filing.at = "stored" /\ filing' = [filing EXCEPT !.at = "refreshing"]
  /\ loads' = [loads EXCEPT !["again"].at = "asked"]
  /\ outrun' = (loads["first"].at # "none")
  /\ UNCHANGED <<subjectRows, subjectWalk, portal, portalFaults, lastFiled>>

(* The server answers a refresh with the first page.                       *)
AnswerLoad(l) ==
  /\ loads[l].at = "asked"
  /\ loads' = [loads EXCEPT ![l] = [at |-> "answered", rows |-> RowsShown]]
  /\ UNCHANGED <<subjectRows, subjectWalk, portal, filing, portalFaults, lastFiled, outrun>>

(* setRows; the submission that waited for it clears the text and ends.    *)
ShowLoad(l) ==
  /\ loads[l].at = "answered"
  /\ loads' = [loads EXCEPT ![l] = NoLoad]
  /\ IF l = "again"
     THEN /\ portal' = [portal EXCEPT !.rows = loads[l].rows, !.text = FALSE]
          /\ filing' = NoFiling /\ lastFiled' = filing.id
     ELSE /\ portal' = [portal EXCEPT !.rows = loads[l].rows]
          /\ UNCHANGED <<filing, lastFiled>>
  /\ UNCHANGED <<subjectRows, subjectWalk, portalFaults, outrun>>

(* A call fails, or its answer is lost: the alert says so, whether or not  *)
(* the request has been filed, and the text stays.                         *)
FilingFails ==
  /\ filing.at # "idle" /\ portalFaults < MaxPortalFaults
  /\ portalFaults' = portalFaults + 1
  /\ filing' = NoFiling
  /\ loads' = [loads EXCEPT !["again"] = NoLoad]
  /\ portal' = [portal EXCEPT !.alert = TRUE]
  /\ UNCHANGED <<subjectRows, subjectWalk, lastFiled, outrun>>

FirstLoadFails ==
  /\ loads["first"].at # "none" /\ portalFaults < MaxPortalFaults
  /\ portalFaults' = portalFaults + 1
  /\ loads' = [loads EXCEPT !["first"] = NoLoad]
  /\ portal' = [portal EXCEPT !.alert = TRUE]
  /\ UNCHANGED <<subjectRows, subjectWalk, filing, lastFiled, outrun>>

WalkNext == FileElsewhere \/ BeginWalk \/ NextSubjectPage \/ RefuseCursor

BrowserNext ==
  \/ FileElsewhere \/ TypeText \/ SubmitFiling \/ CaptureFiling \/ RefreshAfterFiling
  \/ FilingFails \/ FirstLoadFails
  \/ \E l \in Loads : AnswerLoad(l) \/ ShowLoad(l)

PortalNext == WalkNext \/ BrowserNext

PortalSpec == PortalInit /\ [][PortalNext]_portalVars
-----------------------------------------------------------------------------
(* Properties.                                                             *)

(* A walk is given no request twice, and at its end every one that was     *)
(* there when it began, whatever was filed meanwhile - as long as the      *)
(* receivedAt of the rows that ended its pages was spelled as toISOString  *)
(* spells it.                                                              *)
PagesAreWhole ==
  ~walk.respelled =>
    /\ IsInjective(walk.given)
    /\ walk.at = "done" => walkKnown \subseteq ToSet(walk.given)

(* What the portal shows was filed; a submission that raised no alert is   *)
(* shown, unless newer ones fill the page or the first refresh was still   *)
(* under way; and the text of a submission stays in the form until its     *)
(* request is stored and shown.                                            *)
PortalIsHonest ==
  /\ portal.rows \subseteq subjectRows
  /\ filing.at # "idle" /\ filing.text => portal.text
  /\ lastFiled # Nothing /\ filing.at = "idle" /\ ~portal.alert /\ ~outrun =>
       \/ \E r \in portal.rows : r.id = lastFiled
       \/ Cardinality(portal.rows) = SubjectPage

SubjectSeesOwn == PagesAreWhole /\ PortalIsHonest
=============================================================================
