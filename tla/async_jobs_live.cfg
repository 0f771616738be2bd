SPECIFICATION FairSpec
CONSTANTS
  j1 = j1
  j2 = j2
  Jobs <- TwoJobs
  MaxRuns = 1
  MaxSessions = 2
  MaxTries = 1
  SlowDelivery = FALSE
  Messages = FALSE
PROPERTIES
  ResultReachesModel
CHECK_DEADLOCK FALSE
