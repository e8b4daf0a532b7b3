SPECIFICATION ServicesSpec
CONSTANTS
  Workers = {w1, w2}
  NoHolder = NoHolder
  HardLimit = 3
  LockTimeout = 4
  StaleThreshold = 4
  r1 = r1
  r2 = r2
  k1 = k1
  k2 = k2
  k3 = k3
  q1 = q1
  q2 = q2
  q3 = q3
  a1 = a1
  a2 = a2
  c1 = c1
  c2 = c2
  c3 = c3
  NoKey = NoKey
  NoRequest = NoRequest
  NoClient = NoClient
  NoConfig = NoKey
  NoModel = NoClient
  LocalModel = NoRequest
  Devices <- TwoRequests
  Keys <- ThreeKeys
  MaxPasswords = 1
  Logins <- TwoRequests
  Attempts = 2
  Visits <- ThreeRequests
  Clients <- TwoClients
  ClientLimit = 1
  ApplicationLimit = 2
  MaxCounters = 2
  MaxWindow = 1
  Questions <- ThreeRequests
  Passages <- TestPassages
  MaxPassages = 3
  Configurations <- TestConfigurations
  MaxTopK = 3
  MaxReferences = 2
  Frame = 2
  Margin = 3
  Full = 2
  Scale = 12
  Documents <- TestDocuments
  Options <- TestOptions
  Cases <- ThreeCases
  Near <- OneNearPair
  MaxReports = 2
  MaxEdits = 1
  Blocks <- ThreeBlocks
  MaxEvidence = 2
  MaxRanked = 3
  HitK = 2
  RecallK = 2
  Discount <- Logarithms
  Configs <- TwoRequests
  Models <- TwoClients
  Files <- OneDocument
  Editors <- OneEditor
  Batches = 1
  MaxRevision = 2
  MaxVersion = 2
SYMMETRY Symmetry
INVARIANT MutualExclusion
INVARIANT OthersAreOut
INVARIANT UsableIsListed
 
INVARIANT LimitsHold
INVARIANT SlotIsTheJob
INVARIANT ContextFits
INVARIANT OrderIsKept
 
INVARIANT FrozenTestIsBlind
INVARIANT LikeIsComparedWithLike
INVARIANT MetricsAgree
 
 
PROPERTY OnlyDeadRunsAreStopped
CHECK_DEADLOCK FALSE
