SPECIFICATION FairSpec
CONSTANTS
  h1 = h1
  h2 = h2
  key1 = key1
  NoKey = NoKey
  Handlers <- Alone
  Calls <- EveryCall
  AuthorityCalls <- SomeAuthority
  ResponseDays = 3
  MaxAdditionalDays = 3
  StopReasons <- BothStop
  RefusalEligible = TRUE
  MaxCalls = 4
  MaxFaults = 1
  MaxTime = 1
INVARIANT
  OneCallPerKey
PROPERTIES
  AtomicWhenAlone
  AppliedIsAnnounced
CHECK_DEADLOCK FALSE
