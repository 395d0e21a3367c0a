SPECIFICATION NotesSpec
CONSTANTS
  o1 = o1
  o2 = o2
  None = None
  Op = {o1, o2}
  Amount = {1, 2}
  FirstPool = {0, 2}
  MaxUpsets = 2
INVARIANTS
  NothingTwice
PROPERTIES
  RecoveryReconciles
  LossHasCause
CHECK_DEADLOCK FALSE
