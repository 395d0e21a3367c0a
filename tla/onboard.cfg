SPECIFICATION FairSpec
CONSTANTS
  c1 = c1
  c2 = c2
  d1 = d1
  d2 = d2
  None = None
  Legacy = Legacy
  Call = {c1, c2}
  Deployment = {d1, d2}
  FirstDeployment = d1
  RejectsTwice = {d1}
  MaxFaults = 2
INVARIANTS
  InsertedIsOnChain
PROPERTIES
  MarkStays
  
CHECK_DEADLOCK FALSE
