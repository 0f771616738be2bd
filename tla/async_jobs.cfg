SPECIFICATION Spec
CONSTANTS
  j1 = j1
  j2 = j2
  Jobs <- TwoJobs
  MaxRuns = 2
  MaxSessions = 2
  MaxTries = 1
  SlowDelivery = FALSE
  Messages = TRUE
SYMMETRY JobSymmetry
PROPERTIES
  NoDuplicateInjection
  NoInjectionAcrossConversations
  QuietStaysQuiet
CHECK_DEADLOCK FALSE
