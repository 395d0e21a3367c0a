SPECIFICATION Spec
CONSTANTS
  c1 = c1
  c2 = c2
  c3 = c3
  mainnet = mainnet
  testnet = testnet
  None = None
  Call = {c1, c2, c3}
  Chain = {mainnet, testnet}
  HasFallback = {mainnet}
SYMMETRY AnyOrder
INVARIANTS
  OwnSession
  PaymentsAccounted
CHECK_DEADLOCK FALSE
