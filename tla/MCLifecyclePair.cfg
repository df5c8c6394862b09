SPECIFICATION Spec
CONSTANTS
  h1 = h1
  h2 = h2
  key1 = key1
  NoKey = NoKey
  Handlers <- Pair
  Calls <- EveryCall
  AuthorityCalls <- OneAuthority
  ResponseDays = 3
  MaxAdditionalDays = 3
  StopReasons <- BothStop
  RefusalEligible = TRUE
  MaxCalls = 3
  MaxFaults = 1
  MaxTime = 1
INVARIANTS
  StatusHasEvent
  DueIsExplained
CHECK_DEADLOCK FALSE
