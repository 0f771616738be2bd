SPECIFICATION Spec
CONSTANTS
  c1 = c1
  c2 = c2
  k1 = k1
  k2 = k2
  nobody = nobody
  NoCaller = nobody
  Callers <- TwoCallers
  Killers <- OneKiller
  Gens <- TwoGens
  Sessions <- TwoSessions
  KillKinds <- Tombstoning
  IdleTtl = 1
  ColdRevival = TRUE
  MayRestart = TRUE
  Isolated <- FirstIsolated
INVARIANTS
  DetachedWhenParkedOrAborted
  NoOrphanSession
  OneWriterPerRef
  KilledStaysDead
PROPERTIES
  NeverHandsOutDisposing
CHECK_DEADLOCK FALSE
