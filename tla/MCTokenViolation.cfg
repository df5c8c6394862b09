SPECIFICATION RequestsSpec
CONSTANTS
  ResponseDays = 3
  MaxAdditionalDays = 4
  StopReasons <- BothStop
  Extensions <- ThreeOrMinusOne
  MaxTime = 2
  MaxEvents = 5
  h1 = h1
  h2 = h2
  a1 = a1
  a2 = a2
  r1 = r1
  m1 = m1
  m2 = m2
  f1 = f1
  f2 = f2
  NoAppeal = NoAppeal
  NoManifest = NoManifest
  NoArtifact = NoArtifact
  Handlers = {h1}
  Appeals <- NoOne
  Requestors <- NoOne
  StaffActions <- NoOne
  InitialStatuses <- Beginning
  RefusalEligible = TRUE
  Manifests <- TwoManifests
  Artifacts <- TwoFiles
  MaxTokens = 2
  EmailEnabled = FALSE
  MaxCalls = 3
  MaxFaults = 0
  Examiners <- Pair
  Documents = {"mandate", "deed"}
  NoDocument = NoDocument
  MaxEvidenceCalls = 3
  MaxEvidenceFaults = 1
  Filings = {1, 2, 3}
  SubjectPage = 1
  Stamps = {1, 2, 3}
  Respell <- Spelled
  MaxGiven = 4
  MaxPortalFaults = 1
  Nothing = Nothing
  Clients <- Pair
  FileAttempts = 2
  MaxPuts = 2
  MaxDiskFaults = 1
  BlobCallers <- Pair
  BlobAttempts = 2
  MaxBlobPuts = 2
  MaxBlobCalls = 2
  MaxAborts = 2
INVARIANTS
  TokenReachesSubject
CHECK_DEADLOCK FALSE
