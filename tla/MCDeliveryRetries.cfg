SPECIFICATION Spec
CONSTANTS
  w1 = w1
  w2 = w2
  h1 = h1
  h2 = h2
  k1 = k1
  e1 = e1
  j1 = j1
  Workers = {w1,w2}
  Handlers = {h1,h2}
  Unconfigured = {h2}
  Keys = {k1}
  Events = {e1}
  Jobs = {j1}
  Schedule <- LeaseLongSchedule
  RetryMaxAttempts = 3
  Lease = 2
  BatchLimit = 1
  Outcomes = {"delivered", "retriable", "rejected", "skipped"}
  MaxCalls = 1
  MaxFaults = 1
  MaxOverruns = 1
  Never = Never
SYMMETRY Symmetry
INVARIANTS
  TypeOK
  RetryPolicyRespected
  LeaseExclusive
  SendsAccounted
  TimelineMatchesAttempts
  DeadReportedOnce
PROPERTIES
  ProgressNeverUndone
