SPECIFICATION FairSpec
CONSTANTS
  e1 = e1
  e2 = e2
  e3 = e3
  k1 = k1
  k2 = k2
  Events <- TwoEvents
  Keys <- TwoKeys
  KeyOf <- SameIssue
  Slots = {s1}
  NoSlot = NoSlot
  NoEvent = NoEvent
  MaxRetries = 1
  MaxStarts = 2
  MaxReopens = 1
PROPERTIES
  EventSettles
