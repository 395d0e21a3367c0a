SPECIFICATION Spec
CONSTANTS
  a = a
  b = b
  None = None
  KindAt <- Kinds
  FirstHeight = 2
  MaxHeight = 5
  Reconnector = {a, b}
  Boot = a
  Window = 1
  MaxGap = 3
  BatchSize = 2
  Confirmations = 1
  MaxReconnectAttempts = 2
  MaxFaults = 1
INVARIANTS
  LossHasCause
PROPERTIES
  EventIsHandled
  ComesBack
CHECK_DEADLOCK FALSE
