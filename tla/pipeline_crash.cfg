SPECIFICATION Spec
CONSTANTS
  d1 = d1 u1 = u1 r1 = r1 w1 = w1 w2 = w2 c1 = c1 c2 = c2
  NoIndex = NoIndex NoTask = NoTask NoMessage = NoMessage Free = Free Orphaned = Orphaned
  Documents <- OneDocument
  Tasks <- UploadAndReprocess
  UploadTasks <- OneUpload
  DocumentOf <- OfOneDocument
  Workers <- TwoWorkers
  Clients <- OneClient
  MaxRetries = 0
  MaxDispatches = 2
  MaxCrashes = 1
CHECK_DEADLOCK FALSE
SYMMETRY Symmetry
INVARIANTS  SingleBuilder
PROPERTIES IndexNeverLost SuccessReportsOwnIndex
