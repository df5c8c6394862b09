----------------------------- MODULE BlobStorage -----------------------------
(***************************************************************************)
(* One object of the Vercel Blob store (storage-vercel-blob/adapter.ts):   *)
(* putObject and deleteObject are one call each, abandoned after a timeout *)
(* and made again by runWithRetry, whether or not the abandoned call is    *)
(* still on its way; getObject asks for the metadata and then fetches the  *)
(* bytes from the object's URL, which is served through a cache.           *)
(***************************************************************************)
EXTENDS Naturals, FiniteSets

CONSTANTS
  BlobCallers,     \* calls of the adapter under way at the same time
  BlobAttempts,    \* retryMaxAttempts
  MaxBlobPuts,     \* bound: versions of the object
  MaxBlobCalls,    \* bound: deletes and reads
  MaxAborts        \* bound: calls abandoned, or failed on the way

ASSUME BlobAssumption ==
  /\ BlobAttempts \in Nat \ {0}
  /\ MaxBlobPuts \in Nat /\ MaxBlobCalls \in Nat /\ MaxAborts \in Nat

VARIABLES
  overwrite,   \* allowOverwrite
  blob,        \* the version the store has
  urlServes,   \* the versions it has had, which the cache of its URL may serve
  adrift,      \* what abandoned calls would store, if they still arrive
  blobOp,      \* what each caller is at
  blobPuts, blobCalls, aborts,   \* bounded counters
  told,        \* history: versions whose put was answered with success
  doubted,     \* history: versions some put of which was abandoned
  deleting,    \* history: there has been a delete
  settledOn,   \* history: what the last write that met no other has left
  read         \* history: the last answer of getObject

blobVars == <<overwrite, blob, urlServes, adrift, blobOp, blobPuts, blobCalls, aborts, told,
              doubted, deleting, settledOn, read>>
blobRest == <<overwrite, blobPuts, blobCalls>>

NoBlob  == 0
InDoubt == MaxBlobPuts + 1
NoAnswer == [meta |-> NoBlob, bytes |-> NoBlob]
NoBlobOp == [kind |-> "none", at |-> "idle", version |-> NoBlob, attempt |-> 1, calm |-> TRUE]

BlobInit ==
  /\ overwrite \in BOOLEAN
  /\ blob = NoBlob /\ urlServes = {} /\ adrift = {}
  /\ blobOp = [c \in BlobCallers |-> NoBlobOp]
  /\ blobPuts = 0 /\ blobCalls = 0 /\ aborts = 0
  /\ told = {} /\ doubted = {} /\ deleting = FALSE /\ settledOn = NoBlob /\ read = NoAnswer

Overwriting(c) == blobOp[c].kind \in {"put", "delete"}

BeginBlobWrite(c, kind, version) ==
  /\ blobOp[c] = NoBlobOp
  /\ blobOp' = [d \in BlobCallers |->
       IF d = c THEN [NoBlobOp EXCEPT !.kind = kind, !.at = "ask", !.version = version,
                                      !.calm = \A e \in BlobCallers : ~Overwriting(e)]
       ELSE IF Overwriting(d) THEN [blobOp[d] EXCEPT !.calm = FALSE] ELSE blobOp[d]]
  /\ settledOn' = InDoubt
  /\ UNCHANGED <<overwrite, blob, urlServes, adrift, aborts, told, doubted, read>>

BeginBlobPut(c) ==
  /\ blobPuts < MaxBlobPuts /\ blobPuts' = blobPuts + 1
  /\ BeginBlobWrite(c, "put", blobPuts + 1)
  /\ UNCHANGED <<blobCalls, deleting>>

BeginBlobDelete(c) ==
  /\ blobCalls < MaxBlobCalls /\ blobCalls' = blobCalls + 1
  /\ BeginBlobWrite(c, "delete", NoBlob) /\ deleting' = TRUE
  /\ UNCHANGED blobPuts

(* A mutant: overwriting is allowed by default.                            *)
AcceptsAlways(version) == TRUE

(* What allowOverwrite asks of the store.                                  *)
Accepts(version) == version = NoBlob \/ blob = NoBlob \/ overwrite

StoreBlob(version) ==
  /\ blob' = version
  /\ urlServes' = urlServes \cup ({version} \ {NoBlob})

BlobEnds(c) == blobOp' = [blobOp EXCEPT ![c] = NoBlobOp]

(* runWithRetry: the call is made again, or was the last.                  *)
BlobAgain(c) ==
  IF blobOp[c].attempt < BlobAttempts
  THEN blobOp' = [blobOp EXCEPT ![c].attempt = @ + 1]
  ELSE BlobEnds(c)

Asking(c) == blobOp[c].at = "ask" /\ Overwriting(c)

WriteApplied(c) ==
  /\ Asking(c) /\ Accepts(blobOp[c].version)
  /\ StoreBlob(blobOp[c].version) /\ BlobEnds(c)
  /\ told' = told \cup ({blobOp[c].version} \ {NoBlob})
  /\ settledOn' = IF blobOp[c].calm /\ adrift \subseteq {blobOp[c].version}
                  THEN blobOp[c].version ELSE settledOn
  /\ UNCHANGED <<blobRest, adrift, aborts, doubted, deleting, read>>

(* The object exists. By the text of the message the failure is taken for  *)
(* final, or for one to try again.                                         *)
WriteRefused(c) ==
  /\ Asking(c) /\ ~Accepts(blobOp[c].version)
  /\ BlobEnds(c) \/ BlobAgain(c)
  /\ UNCHANGED <<blobRest, blob, urlServes, adrift, aborts, told, doubted, deleting, settledOn,
                 read>>

(* The call times out or its connection is lost: it has been lost too, has *)
(* been carried out, or will be.                                           *)
WriteAborted(c) ==
  /\ Asking(c) /\ aborts < MaxAborts /\ aborts' = aborts + 1
  /\ BlobAgain(c)
  /\ doubted' = doubted \cup {blobOp[c].version}
  /\ \/ UNCHANGED <<blob, urlServes, adrift>>
     \/ Accepts(blobOp[c].version) /\ StoreBlob(blobOp[c].version) /\ UNCHANGED adrift
     \/ adrift' = adrift \cup {blobOp[c].version} /\ UNCHANGED <<blob, urlServes>>
  /\ UNCHANGED <<blobRest, told, deleting, settledOn, read>>

Arrive(version) ==
  /\ version \in adrift /\ adrift' = adrift \ {version}
  /\ IF Accepts(version) THEN StoreBlob(version) ELSE UNCHANGED <<blob, urlServes>>
  /\ UNCHANGED <<blobRest, blobOp, aborts, told, doubted, deleting, settledOn, read>>
-----------------------------------------------------------------------------
BeginBlobGet(c) ==
  /\ blobOp[c] = NoBlobOp /\ blobCalls < MaxBlobCalls /\ blobCalls' = blobCalls + 1
  /\ blobOp' = [blobOp EXCEPT ![c].kind = "get", ![c].at = "head"]
  /\ UNCHANGED <<overwrite, blob, urlServes, adrift, blobPuts, aborts, told, doubted, deleting,
                 settledOn, read>>

Reading(c, at) == blobOp[c].kind = "get" /\ blobOp[c].at = at
NothingWritten == UNCHANGED <<blobRest, blob, urlServes, adrift, told, doubted, deleting, settledOn>>

(* The metadata; an object that is not there ends the call.                *)
GetHead(c) ==
  /\ Reading(c, "head")
  /\ IF blob = NoBlob THEN BlobEnds(c)
     ELSE blobOp' = [blobOp EXCEPT ![c].at = "fetch", ![c].version = blob, ![c].attempt = 1]
  /\ UNCHANGED <<aborts, read>> /\ NothingWritten

(* The bytes the URL serves, from the store or the cache.                  *)
FetchBytes(c) ==
  /\ Reading(c, "fetch") /\ BlobEnds(c)
  /\ \E bytes \in urlServes : read' = [meta |-> blobOp[c].version, bytes |-> bytes]
  /\ UNCHANGED aborts /\ NothingWritten

(* The URL of an object that was deleted meanwhile.                        *)
FetchNothing(c) ==
  /\ Reading(c, "fetch") /\ blob = NoBlob /\ BlobAgain(c)
  /\ UNCHANGED <<aborts, read>> /\ NothingWritten

GetAborted(c) ==
  /\ Reading(c, "head") \/ Reading(c, "fetch")
  /\ aborts < MaxAborts /\ aborts' = aborts + 1 /\ BlobAgain(c)
  /\ UNCHANGED read /\ NothingWritten

BlobNext ==
  \/ \E c \in BlobCallers :
       \/ BeginBlobPut(c) \/ BeginBlobDelete(c) \/ BeginBlobGet(c)
       \/ WriteApplied(c) \/ WriteRefused(c) \/ WriteAborted(c)
       \/ GetHead(c) \/ FetchBytes(c) \/ FetchNothing(c) \/ GetAborted(c)
  \/ \E version \in adrift : Arrive(version)

BlobSpec == BlobInit /\ [][BlobNext]_blobVars
-----------------------------------------------------------------------------
(* Properties.                                                             *)

(* Without allowOverwrite an object that is not deleted is written once,   *)
(* whatever is repeated or arrives late: a put that was answered with      *)
(* success stays, and whoever reads it gets its bytes with its metadata.   *)
WrittenOnce ==
  ~overwrite /\ ~deleting =>
    /\ Cardinality(urlServes) <= 1
    /\ told \subseteq {blob}
    /\ read.meta = read.bytes

(* With or without it, the object is what the last write that met no other *)
(* and no late arrival has left, and it holds no version whose put was     *)
(* refused or lost without a timeout.                                      *)
WritesSettle ==
  /\ settledOn # InDoubt => blob = settledOn
  /\ blob \in told \cup doubted \cup {NoBlob}

BlobsAreWhole == WrittenOnce /\ WritesSettle
=============================================================================
