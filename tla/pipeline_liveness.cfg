SPECIFICATION FairSpec
CONSTANTS
  d1 = d1 u1 = u1 r1 = r1 w1 = w1 w2 = w2 c1 = c1 c2 = c2
  NoIndex = NoIndex NoTask = NoTask NoMessage = NoMessage Free = Free Orphaned = Orphaned
  Documents <- OneDocument
  Tasks <- UploadAndReprocess
  UploadTasks <- OneUpload
  DocumentOf <- OfOneDocument
  Workers <- OneWorker
  Clients <- OneClient
  MaxRetries = 1
  MaxDispatches = 1
  MaxCrashes = 1
CHECK_DEADLOCK FALSE
PROPERTIES  TasksConverge
