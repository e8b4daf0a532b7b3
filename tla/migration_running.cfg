SPECIFICATION FairSpec
CONSTANTS
  m1 = m1 m2 = m2 w1 = w1 w2 = w2 c1 = c1
  NoRun = NoRun NoMessage = NoMessage Free = Free
  Ids <- First
  Old <- First
  Invalid <- None
  Runs <- OneRun
  Workers <- TwoWorkers
  Clients <- OneClient
  BatchSize = 1
  MaxRetries = 0
  MaxSent = 3
  FaultKinds <- None
  MaxFaults = 0
CHECK_DEADLOCK FALSE
PROPERTIES RunningEnds
