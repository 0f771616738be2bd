SPECIFICATION Spec
CONSTANTS
  j1 = j1
  j2 = j2
  j3 = j3
  Spawns <- MCSpawns
  Limits <- MCLimits
INVARIANTS
  PermitsAccounted
  NoAbandonedWaiter
PROPERTIES
  EverySpawnSettles
  ImplementsPermitPool
