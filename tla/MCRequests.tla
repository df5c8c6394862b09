------------------------------ MODULE MCRequests ------------------------------
(* Instances of Lifecycle, of Fulfilment and of four smaller modules for TLC, *)
(* which share nothing: a behaviour is of the part it starts in.              *)
EXTENDS Lifecycle, Fulfilment, RequestEvidence, SubjectPortal, ObjectStores, TLC

CONSTANTS h1, h2, a1, a2, r1, m1, m2, f1, f2

VARIABLE part

Pair         == {h1, h2}
TwoManifests == {m1, m2}
TwoAppeals   == {a1, a2}
TwoFiles     == {f1, f2}
BothStop     == {"verification", "clarification"}
ThreeOrMinusOne == {3, -1}
Staff        == {"refuse", "close"}
Beginning    == {"in_progress", "refused"}
NoOne        == {}
(* A date without a time; a time as toISOString spells it; the same time   *)
(* with an offset.                                                         *)
Spelled(t) == IF t = 1 THEN Nothing ELSE 2

Symmetric    == Permutations(Pair) \cup Permutations(TwoManifests) \cup Permutations(TwoFiles)
                \cup Permutations(TwoAppeals)

RequestsInit ==
  /\ part \in {"lifecycle", "fulfilment", "evidence", "walk", "portal", "files", "blob"}
  /\ Init /\ FulfilmentInit /\ EvidenceInit /\ PortalInit /\ FilesInit /\ BlobInit
  /\ part # "fulfilment" => row.status = "in_progress"
  /\ part # "blob" => ~overwrite

RequestsNext ==
  \/ /\ part = "lifecycle" /\ Next
     /\ UNCHANGED <<part, fulfilmentVars, evidenceVars, portalVars, fileVars, blobVars>>
  \/ /\ part = "fulfilment" /\ FulfilmentNext
     /\ UNCHANGED <<part, vars, evidenceVars, portalVars, fileVars, blobVars>>
  \/ /\ part = "evidence" /\ EvidenceNext
     /\ UNCHANGED <<part, vars, fulfilmentVars, portalVars, fileVars, blobVars>>
  \/ /\ part = "walk" /\ WalkNext
     /\ UNCHANGED <<part, vars, fulfilmentVars, evidenceVars, fileVars, blobVars>>
  \/ /\ part = "portal" /\ BrowserNext
     /\ UNCHANGED <<part, vars, fulfilmentVars, evidenceVars, fileVars, blobVars>>
  \/ /\ part = "files" /\ FilesNext
     /\ UNCHANGED <<part, vars, fulfilmentVars, evidenceVars, portalVars, blobVars>>
  \/ /\ part = "blob" /\ BlobNext
     /\ UNCHANGED <<part, vars, fulfilmentVars, evidenceVars, portalVars, fileVars>>

RequestsSpec ==
  RequestsInit /\ [][RequestsNext]_<<part, vars, fulfilmentVars, evidenceVars, portalVars,
                                     fileVars, blobVars>>
=============================================================================
