SPECIFICATION FairSpec
CONSTANTS
  d1 = d1
  p1 = p1
  r1 = r1
  s1 = s1
  None = None
  Delivery = {d1}
  Producer = {p1}
  Sweeper = {s1}
  Attempts = 2
  IndexerAttempts = 2
  Request = {r1}
  MaxRetries = 1
  MaxFaults = 1
INVARIANTS
  NothingStranded
  DeliveredWasAccepted
  OneCopy
CHECK_DEADLOCK FALSE
PROPERTIES
  EventIsDecided
