SPECIFICATION Spec
CONSTANTS
  e1 = e1
  e2 = e2
  e3 = e3
  k1 = k1
  k2 = k2
  Events <- ThreeEvents
  Keys <- TwoKeys
  KeyOf <- IssueOf
  Slots = {s1}
  NoSlot = NoSlot
  NoEvent = NoEvent
  MaxRetries = 0
  MaxStarts = 2
  MaxReopens = 1
INVARIANTS
  OneRunPerIssue
  SlotsConserved
  NoStuckRow
  CancelTargetsThisRun
PROPERTIES
  CancelSticks
  OutcomeIsRecorded
