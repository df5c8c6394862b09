----------------------------- MODULE ObjectStores -----------------------------
(***************************************************************************)
(* Both stores an object may be in, beside each other: the filesystem      *)
(* adapter and the Vercel Blob adapter, which share nothing.               *)
(***************************************************************************)
EXTENDS ArtifactFiles, BlobStorage

StoresSpec == FilesSpec /\ BlobSpec

(* What either store keeps of an object is whole: a write that met no      *)
(* other, at whichever attempt, and what a read makes of it.               *)
StoresAreWhole == ObjectsAreWhole /\ BlobsAreWhole
=============================================================================
