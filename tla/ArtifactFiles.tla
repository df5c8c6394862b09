---------------------------- MODULE ArtifactFiles ----------------------------
(***************************************************************************)
(* One object of the filesystem store (storage-filesystem): the file with  *)
(* its bytes and the sidecar with its metadata, written one after the      *)
(* other, and putObject, getObject and deleteObject, which runWithRetry    *)
(* starts again from the beginning when a call of the file system fails.   *)
(* writeFile truncates a file before it writes it.                         *)
(***************************************************************************)
EXTENDS Naturals

CONSTANTS
  Clients,        \* calls of the adapter under way at the same time
  FileAttempts,   \* retryMaxAttempts
  MaxPuts,        \* bound: versions of the object
  MaxDiskFaults   \* bound: calls that fail, processes that die

ASSUME FilesAssumption ==
  FileAttempts \in Nat \ {0} /\ MaxPuts \in Nat /\ MaxDiskFaults \in Nat

VARIABLES
  file, sidecar,  \* the version in each; Missing, or Torn
  fileOp,         \* what each client is at
  putCount, diskFaults,   \* bounded counters
  content         \* history: the object as the last write that met no other left
                  \* it; Unknown while one is under way or after one has failed

fileVars == <<file, sidecar, fileOp, putCount, diskFaults, content>>

Missing == 0
Torn    == MaxPuts + 1   \* truncated, or written in part
Unknown == MaxPuts + 2

NoFileOp == [kind |-> "none", at |-> "idle", version |-> Missing, attempt |-> 1,
             bytes |-> Unknown, meta |-> Unknown, calm |-> TRUE]

FilesInit ==
  /\ file = Missing /\ sidecar = Missing /\ content = Missing
  /\ fileOp = [c \in Clients |-> NoFileOp]
  /\ putCount = 0 /\ diskFaults = 0

Writing(c) == fileOp[c].kind \in {"put", "delete"}
Step(c, kind, at) == fileOp[c].kind = kind /\ fileOp[c].at = at
FileGoto(c, at) == fileOp' = [fileOp EXCEPT ![c].at = at]

(* A write disturbs every call it overlaps.                                *)
BeginWrite(c, kind, version) ==
  /\ fileOp[c] = NoFileOp
  /\ fileOp' = [d \in Clients |->
       IF d = c THEN [NoFileOp EXCEPT !.kind = kind, !.at = "file", !.version = version,
                                      !.calm = \A e \in Clients : ~Writing(e)]
       ELSE IF fileOp[d] = NoFileOp THEN NoFileOp ELSE [fileOp[d] EXCEPT !.calm = FALSE]]
  /\ content' = Unknown
  /\ UNCHANGED <<file, sidecar, diskFaults>>

(* The call has succeeded.                                                 *)
EndWrite(c) ==
  /\ fileOp' = [fileOp EXCEPT ![c] = NoFileOp]
  /\ content' = IF fileOp[c].calm THEN fileOp[c].version ELSE content
-----------------------------------------------------------------------------
(* putObject: the bytes are opened and written, then the sidecar.          *)
BeginPut(c) ==
  /\ putCount < MaxPuts /\ putCount' = putCount + 1
  /\ BeginWrite(c, "put", putCount + 1)

OpenFile(c) ==
  /\ Step(c, "put", "file") /\ FileGoto(c, "bytes")
  /\ file' = Torn
  /\ UNCHANGED <<sidecar, putCount, diskFaults, content>>

WriteBytes(c) ==
  /\ Step(c, "put", "bytes") /\ FileGoto(c, "sidecar")
  /\ file' = fileOp[c].version
  /\ UNCHANGED <<sidecar, putCount, diskFaults, content>>

OpenSidecar(c) ==
  /\ Step(c, "put", "sidecar") /\ FileGoto(c, "metadata")
  /\ sidecar' = Torn
  /\ UNCHANGED <<file, putCount, diskFaults, content>>

WriteMetadata(c) ==
  /\ Step(c, "put", "metadata") /\ EndWrite(c)
  /\ sidecar' = fileOp[c].version
  /\ UNCHANGED <<file, putCount, diskFaults>>

(* deleteObject: removeIfExists takes a file that is missing for removed.  *)
BeginDelete(c) == BeginWrite(c, "delete", Missing) /\ UNCHANGED putCount

(* A mutant: nothing more to do where the file is missing.                 *)
UnlinkFileOrReturn(c) ==
  /\ Step(c, "delete", "file")
  /\ IF file = Missing THEN EndWrite(c) ELSE FileGoto(c, "sidecar") /\ UNCHANGED content
  /\ file' = Missing
  /\ UNCHANGED <<sidecar, putCount, diskFaults>>

UnlinkFile(c) ==
  /\ Step(c, "delete", "file") /\ FileGoto(c, "sidecar")
  /\ file' = Missing
  /\ UNCHANGED <<sidecar, putCount, diskFaults, content>>

UnlinkSidecar(c) ==
  /\ Step(c, "delete", "sidecar") /\ EndWrite(c)
  /\ sidecar' = Missing
  /\ UNCHANGED <<file, putCount, diskFaults>>

(* getObject reads both at once; an unreadable sidecar is none, a missing  *)
(* file an error that is not retried.                                      *)
BeginGet(c) ==
  /\ fileOp[c] = NoFileOp
  /\ fileOp' = [fileOp EXCEPT ![c] =
       [NoFileOp EXCEPT !.kind = "get", !.at = "reading", !.version = content,
                        !.calm = \A d \in Clients : ~Writing(d)]]
  /\ UNCHANGED <<file, sidecar, putCount, diskFaults, content>>

ReadBytes(c) ==
  /\ Step(c, "get", "reading") /\ fileOp[c].bytes = Unknown
  /\ fileOp' = [fileOp EXCEPT ![c].bytes = file]
  /\ UNCHANGED <<file, sidecar, putCount, diskFaults, content>>

ReadSidecar(c) ==
  /\ Step(c, "get", "reading") /\ fileOp[c].meta = Unknown
  /\ fileOp' = [fileOp EXCEPT ![c].meta = IF sidecar = Torn THEN Missing ELSE sidecar]
  /\ UNCHANGED <<file, sidecar, putCount, diskFaults, content>>

Read(c) == Step(c, "get", "reading") /\ fileOp[c].bytes # Unknown /\ fileOp[c].meta # Unknown

Returned(c) ==
  /\ Read(c)
  /\ fileOp' = [fileOp EXCEPT ![c] = NoFileOp]
  /\ UNCHANGED <<file, sidecar, putCount, diskFaults, content>>

(* A call of the file system fails: with EBUSY and the like the operation  *)
(* starts again while it has attempts left, otherwise it fails. A process  *)
(* that dies leaves it where it is.                                        *)
FileFault(c) ==
  /\ fileOp[c] # NoFileOp /\ diskFaults < MaxDiskFaults /\ diskFaults' = diskFaults + 1
  /\ \/ /\ fileOp[c].attempt < FileAttempts
        /\ fileOp' = [fileOp EXCEPT ![c].attempt = @ + 1, ![c].bytes = Unknown, ![c].meta = Unknown,
                                    ![c].at = IF Writing(c) THEN "file" ELSE "reading"]
     \/ fileOp' = [fileOp EXCEPT ![c] = NoFileOp]
  /\ UNCHANGED <<file, sidecar, putCount, content>>

FilesNext ==
  \E c \in Clients :
    \/ BeginPut(c) \/ OpenFile(c) \/ WriteBytes(c) \/ OpenSidecar(c) \/ WriteMetadata(c)
    \/ BeginDelete(c) \/ UnlinkFile(c) \/ UnlinkSidecar(c)
    \/ BeginGet(c) \/ ReadBytes(c) \/ ReadSidecar(c) \/ Returned(c) \/ FileFault(c)

FilesSpec == FilesInit /\ [][FilesNext]_fileVars
-----------------------------------------------------------------------------
(* Properties.                                                             *)

(* After a write that met no other and succeeded, at whichever attempt,    *)
(* the bytes and the sidecar are of its version - both gone after a        *)
(* deletion - and a read that no write overlaps returns the two of one     *)
(* version; what was torn or left over by a failed write is repaired by    *)
(* the next.                                                               *)
ObjectsAreWhole ==
  /\ content # Unknown => file = content /\ sidecar = content
  /\ \A c \in Clients : Read(c) /\ fileOp[c].calm /\ fileOp[c].version # Unknown =>
       fileOp[c].bytes = fileOp[c].version /\ fileOp[c].meta = fileOp[c].version
=============================================================================
