SPECIFICATION Spec
CONSTANTS
  root = root
  left = left
  middle = middle
  right = right
  NoAgent = NoAgent
  Agents <- MCAgents
  Parent <- MCParent
  Limits <- MCLimits
  MaxTurns = 2
INVARIANTS
  SlotsMatchRequests
PROPERTIES
  EveryAgentEnds
  ImplementsPermitPool
