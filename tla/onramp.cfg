SPECIFICATION FairSpec
CONSTANTS
  o1 = o1
  x1 = x1
  a1 = a1
  h1 = h1
  h2 = h2
  s1 = s1
  None = None
  Order = {o1}
  Hash = {x1}
  Amount = {a1}
  Handler = {h1, h2}
  Poller = {s1}
  BatchLimit = 1
  MaxDeliveries = 2
  MaxFaults = 1
INVARIANTS
  TypeOK
  RepliesHold
PROPERTIES
  ClosedIsInert
  OrderIsReconciled
CHECK_DEADLOCK FALSE
