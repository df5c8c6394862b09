--------------------------- MODULE RequestEvidence ---------------------------
(***************************************************************************)
(* The evidence of one request (routes/requests.ts): the authority column  *)
(* - the documents an agent submits and staff approve or reject - and the  *)
(* verification evidence, whose rows name files in the storage. A route    *)
(* reads the row, builds the new authority from what it has read, and      *)
(* writes it through requests.update, which reads the row once more and    *)
(* writes every column back; its timeline event and its audit entry follow *)
(* in statements of their own.                                             *)
(***************************************************************************)
EXTENDS Naturals

CONSTANTS
  Examiners,          \* calls being served at the same time
  Documents,          \* evidence documents an agent submits
  NoDocument,         \* none submitted yet
  MaxEvidenceCalls,   \* bound: calls made
  MaxEvidenceFaults   \* bound: calls that end early

ASSUME EvidenceAssumption ==
  /\ NoDocument \notin Documents
  /\ MaxEvidenceCalls \in Nat /\ MaxEvidenceFaults \in Nat

VARIABLES
  authority,  \* requests.authority_json
  files,      \* uploads whose bytes the storage has
  evidence,   \* verification_evidence: ids of rows, by how they came
  noted,      \* calls with an event in the timeline
  audited,    \* calls with an entry in the audit trail
  exam,       \* what each call is at
  examCalls, examFaults,   \* bounded counters
  examined    \* history: the documents some approval or rejection has read

evidenceVars == <<authority, files, evidence, noted, audited, exam, examCalls, examFaults,
                  examined>>

NoExam == [kind |-> "none", at |-> "idle", id |-> 0,
           next |-> [documents |-> NoDocument, status |-> "none"]]

EvidenceInit ==
  /\ authority = [documents |-> NoDocument, status |-> "none"]
  /\ files = {} /\ evidence = {} /\ noted = {} /\ audited = {} /\ examined = {}
  /\ exam = [x \in Examiners |-> NoExam]
  /\ examCalls = 0 /\ examFaults = 0

ExamAt(x, label) == exam[x].at = label
ExamGoto(x, label) == exam' = [exam EXCEPT ![x].at = label]

BeginExam(x, kind, label, next) ==
  /\ exam[x] = NoExam /\ examCalls < MaxEvidenceCalls
  /\ examCalls' = examCalls + 1
  /\ exam' = [exam EXCEPT ![x] = [kind |-> kind, at |-> label, id |-> examCalls + 1,
                                  next |-> next]]
  /\ UNCHANGED <<authority, files, evidence, noted, audited, examFaults>>

(* POST /authority/submit.                                                 *)
SubmitAuthority(x) ==
  \E d \in Documents :
    /\ BeginExam(x, "submit", "fetch", [authority EXCEPT !.documents = d, !.status = "pending"])
    /\ UNCHANGED examined

(* POST /authority/approve and /authority/reject, whatever the status is.  *)
ApproveAuthority(x) ==
  /\ BeginExam(x, "approve", "fetch", [authority EXCEPT !.status = "verified"])
  /\ examined' = examined \cup {authority.documents}

RejectAuthority(x) ==
  /\ BeginExam(x, "reject", "fetch", [authority EXCEPT !.status = "rejected"])
  /\ examined' = examined \cup {authority.documents}

(* Any other route that updates the row.                                   *)
UpdateOther(x) == BeginExam(x, "other", "fetch", authority) /\ UNCHANGED examined

(* A mutant: the verdict is put on the documents of the row as it is now.  *)
FetchMerging(x) ==
  /\ ExamAt(x, "fetch")
  /\ exam' = [exam EXCEPT ![x].at = "write", ![x].next =
       IF exam[x].kind = "submit" THEN @
       ELSE [authority EXCEPT !.status = IF exam[x].kind = "other" THEN @
                                         ELSE exam[x].next.status]]
  /\ UNCHANGED <<authority, files, evidence, noted, audited, examCalls, examFaults, examined>>

(* requests.update reads the row: a route that does not set the authority  *)
(* will write back the one it finds here.                                  *)
FetchAuthority(x) ==
  /\ ExamAt(x, "fetch")
  /\ exam' = [exam EXCEPT ![x].at = "write",
                          ![x].next = IF exam[x].kind = "other" THEN authority ELSE @]
  /\ UNCHANGED <<authority, files, evidence, noted, audited, examCalls, examFaults, examined>>

WriteAuthority(x) ==
  /\ ExamAt(x, "write") /\ ExamGoto(x, "timeline")
  /\ authority' = exam[x].next
  /\ UNCHANGED <<files, evidence, noted, audited, examCalls, examFaults, examined>>
-----------------------------------------------------------------------------
(* POST /verification/evidence names files the client has somewhere; what  *)
(* is stored is the row.                                                   *)
AttachEvidence(x) == BeginExam(x, "attach", "create", NoExam.next) /\ UNCHANGED examined

(* A mutant: the row is written before the bytes.                          *)
UploadRowFirst(x) == BeginExam(x, "upload", "create", NoExam.next) /\ UNCHANGED examined

(* POST /verification/evidence/upload stores the bytes under a new id.     *)
UploadEvidence(x) == BeginExam(x, "upload", "put", NoExam.next) /\ UNCHANGED examined

PutEvidence(x) ==
  /\ ExamAt(x, "put") /\ ExamGoto(x, "create")
  /\ files' = files \cup {exam[x].id}
  /\ UNCHANGED <<authority, evidence, noted, audited, examCalls, examFaults, examined>>

CreateEvidence(x) ==
  /\ ExamAt(x, "create") /\ ExamGoto(x, "timeline")
  /\ evidence' = evidence \cup {[id |-> exam[x].id, kind |-> exam[x].kind]}
  /\ UNCHANGED <<authority, files, noted, audited, examCalls, examFaults, examined>>

NoteEvidence(x) ==
  /\ ExamAt(x, "timeline") /\ ExamGoto(x, "audit")
  /\ noted' = noted \cup {exam[x].id}
  /\ UNCHANGED <<authority, files, evidence, audited, examCalls, examFaults, examined>>

(* The audit entry, and the answer.                                        *)
AuditEvidence(x) ==
  /\ ExamAt(x, "audit")
  /\ exam' = [exam EXCEPT ![x] = NoExam]
  /\ audited' = audited \cup {exam[x].id}
  /\ UNCHANGED <<authority, files, evidence, noted, examCalls, examFaults, examined>>

(* A statement fails, or the process dies; an upload that fails may have   *)
(* stored its bytes.                                                       *)
ExamFails(x) ==
  /\ exam[x] # NoExam /\ examFaults < MaxEvidenceFaults /\ examFaults' = examFaults + 1
  /\ exam' = [exam EXCEPT ![x] = NoExam]
  /\ \/ UNCHANGED files
     \/ ExamAt(x, "put") /\ files' = files \cup {exam[x].id}
  /\ UNCHANGED <<authority, evidence, noted, audited, examCalls, examined>>

EvidenceNext ==
  \E x \in Examiners :
    \/ SubmitAuthority(x) \/ ApproveAuthority(x) \/ RejectAuthority(x) \/ UpdateOther(x)
    \/ FetchAuthority(x) \/ WriteAuthority(x)
    \/ AttachEvidence(x) \/ UploadEvidence(x) \/ PutEvidence(x) \/ CreateEvidence(x)
    \/ NoteEvidence(x) \/ AuditEvidence(x) \/ ExamFails(x)

EvidenceSpec == EvidenceInit /\ [][EvidenceNext]_evidenceVars
-----------------------------------------------------------------------------
(* Properties.                                                             *)

(* A verdict stands over documents that were in the row when a verdict was *)
(* begun - never over documents submitted while it was being written,      *)
(* which it may overwrite but does not approve.                            *)
VerdictsAreExamined ==
  authority.status \in {"verified", "rejected"} => authority.documents \in examined

(* Every uploaded row has its bytes in the storage, and every call in the  *)
(* audit trail is in the timeline with all it wrote: a call that ends      *)
(* early leaves bytes without a row, or a row nobody announced, never the  *)
(* reverse.                                                                *)
UploadsAreBacked ==
  /\ \A e \in evidence : e.kind = "upload" => e.id \in files
  /\ audited \subseteq noted

EvidenceStands == VerdictsAreExamined /\ UploadsAreBacked
=============================================================================
