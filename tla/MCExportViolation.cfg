SPECIFICATION EdgesSpec
CONSTANTS
  w1 = w1
  w2 = w2
  e1 = e1
  e2 = e2
  k1 = k1
  k2 = k2
  s0 = s0
  s1 = s1
  s2 = s2
  s3 = s3
  x1 = x1
  x2 = x2
  x3 = x3
  b1 = b1
  b2 = b2
  b3 = b3
  NoEvent = NoEvent
  NoKey = NoKey
  Writers <- Two
  Events <- TwoEvents
  ReplayKeys = {k1}
  MaxEvents = 3
  MaxAuditFaults = 2
  Rotators <- Two
  KeyIds <- FourKeys
  Configured = s0
  Graces = {0, 2}
  MaxDays = 3
  MaxKeyFaults = 2
  Messages <- ThreeMessages
  Keyed <- TwoKeyed
  ReceivedAt <- FirstIsOlder
  RequestIds <- ThreeIds
  PageSize = 1
  Servers <- Two
  MaxSends = 2
  MaxCaptureFaults = 1
  NoMessage = NoMessage
  NoRequest = NoRequest
  Processes <- Two
  Addresses = {"a"}
  Tenants = {"t"}
  IpLimit = 2
  TenantLimit = 1
  Window = 3
  PerSecond = 2
  MaxTicks = 5
  Bots <- Three
  Skew <- Skews
  Ttl = 2
  MaxTokens = 3
  MaxTime = 5
  Workers <- Two
  MaxSize = 2
  Expiries = {1, 2}
  MaxEnqueued = 3
  RowIds = {1, 2, 3}
  Limit = 1
  PageCap = 4
  MaxStamp = 3
  MaxStatusMoves = 1
  Instances <- Three
  Release <- Releases
  Latest = 3
  NotRepeatable = {3}
  MaxStartFaults = 2
  Jurisdictions = {"uk", "global"}
  PackNames = {"launch", "custom"}
  PackVersions = {1, 2}
  Launch <- LaunchPacks
  Workspaces = {"workspace"}
  Publishers <- Two
  Proposals = {"proposal"}
  MaxPublished = 2
  MaxRestarts = 1
  BaseClocks <- TwoClocks
  ClockRules <- SomeRules
  Contexts <- OneContext
  ExtensionAsks = {2}
  MaxEngineDays = 2
  MaxEngineEvents = 3
  Callers <- Two
  MaxLength = 2
  ListExpiries = {1, 2}
  MaxListTime = 1
  MaxAppends = 3
  Emitters <- Two
  Recipients <- TwoKeys
  MailKeys = {"key"}
  MailAttempts = 2
  MaxEmissions = 3
  MaxMailFaults = 1
  Requests = {b1}
  TypesOf <- SomeTypes
  StartsAt <- AsOpened
  Slots <- Two
  MaxClicks = 2
  MaxTroubles = 0
  None = None
INVARIANT
  FullDataStaysHidden
CHECK_DEADLOCK FALSE
SYMMETRY Symmetric
