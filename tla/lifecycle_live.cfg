SPECIFICATION FairSpec
CONSTANTS
  c1 = c1
  c2 = c2
  k1 = k1
  k2 = k2
  nobody = nobody
  NoCaller = nobody
  Callers <- TwoCallers
  Killers <- OneKiller
  Gens <- OneGen
  Sessions <- TwoSessions
  KillKinds <- Tombstoning
  IdleTtl = 1
  ColdRevival = TRUE
  MayRestart = FALSE
  Isolated <- NoneIsolated
PROPERTIES
  EnsureLiveSettles
  ReleaseSettles
  IdleAgentParks
CHECK_DEADLOCK FALSE
