SPECIFICATION Spec
CONSTANTS
  c1 = c1
  c2 = c2
  k1 = k1
  k2 = k2
  nobody = nobody
  NoCaller = nobody
  Callers <- TwoCallers
  Killers <- OneKiller
  Gens <- TwoGens
  Sessions <- ThreeSessions
  KillKinds <- PlainReleases
  IdleTtl = 1
  ColdRevival = TRUE
  MayRestart = FALSE
  Isolated <- NoneIsolated
INVARIANTS
  OnlyForgottenEscape
PROPERTIES
  StaleWorkIsHarmless
CHECK_DEADLOCK FALSE
