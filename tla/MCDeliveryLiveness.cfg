SPECIFICATION FairSpec
CONSTANTS
  w1 = w1
  w2 = w2
  h1 = h1
  k1 = k1
  e1 = e1
  j1 = j1
  Workers = {w1,w2}
  Handlers = {h1}
  Unconfigured = {}
  Keys = {k1}
  Events = {e1}
  Jobs = {j1}
  Schedule <- OneRetry
  RetryMaxAttempts = 7
  Lease = 2
  BatchLimit = 1
  Outcomes = {"delivered", "retriable", "rejected"}
  MaxCalls = 1
  MaxFaults = 1
  MaxOverruns = 1
  Never = Never
PROPERTIES
  DeadIsReported
  EveryDueJobSettles
  EveryEventGetsJob
