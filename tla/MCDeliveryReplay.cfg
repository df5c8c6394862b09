SPECIFICATION Spec
CONSTANTS
  w1 = w1
  h1 = h1
  h2 = h2
  k1 = k1
  e1 = e1
  e2 = e2
  j1 = j1
  j2 = j2
  e3 = e3
  j3 = j3
  Workers = {}
  Handlers = {h1,h2}
  Unconfigured = {}
  Keys = {k1}
  Events = {e1,e2,e3}
  Jobs = {j1,j2,j3}
  Schedule <- OneRetry
  RetryMaxAttempts = 7
  Lease = 2
  BatchLimit = 1
  Outcomes = {"delivered", "retriable"}
  MaxCalls = 3
  MaxFaults = 1
  MaxOverruns = 0
  Never = Never
PROPERTIES
  OneEventUnlessTogether
