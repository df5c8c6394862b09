SPECIFICATION Spec
CONSTANTS
  h1 = h1
  h2 = h2
  key1 = key1
  NoKey = NoKey
  Handlers <- Alone
  Calls <- KeyedVerification
  AuthorityCalls <- OneAuthority
  ResponseDays = 3
  MaxAdditionalDays = 3
  StopReasons <- BothStop
  RefusalEligible = TRUE
  MaxCalls = 2
  MaxFaults = 1
  MaxTime = 0
INVARIANT
  AcceptedRetryIsApplied
CHECK_DEADLOCK FALSE
