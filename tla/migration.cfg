SPECIFICATION Spec
CONSTANTS
  m1 = m1 m2 = m2 w1 = w1 w2 = w2 c1 = c1
  NoRun = NoRun NoMessage = NoMessage Free = Free
  Ids <- Three
  Old <- OneAndThree
  Invalid <- First
  Runs <- TwoRuns
  Workers <- TwoWorkers
  Clients <- OneClient
  BatchSize = 2
  MaxRetries = 1
  MaxSent = 2
  FaultKinds <- AllFaults
  MaxFaults = 1
CHECK_DEADLOCK FALSE
SYMMETRY Symmetry
INVARIANTS  BatchesExclude CountersMatchCursor
PROPERTIES  SuccessMeansReady
