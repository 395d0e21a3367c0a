SPECIFICATION FairSpec
CONSTANTS
  a = a
  b = b
  f1 = f1
  f2 = f2
  p1 = p1
  o1 = o1
  None = None
  Scope = {a, b}
  Fetch = {f1, f2}
  Payment = {p1}
  Op = {o1}
  Cap = 3
  MaxUpsets = 1
INVARIANTS
  ForeignHasCause
  WipeLeavesNothing
PROPERTIES
  PrivateRowsKept
  SettledShows
CHECK_DEADLOCK FALSE
