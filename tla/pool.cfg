SPECIFICATION Spec
CONSTANTS
  n1 = n1
  n2 = n2
  n3 = n3
  x1 = x1
  x2 = x2
  alice = alice
  bob = bob
  usdc = usdc
  Zero = Zero
  Pool = Pool
  Note = {n1, n2, n3}
  Token = {usdc}
  AmountOf <- Amounts
  TokenOf <- Tokens
  NullifierOf <- Nullifiers
  Account = {alice, bob}
  Funds <- Wealth
  LEVELS = 2
  ROOT_HISTORY = 2
  WITHDRAW_FEE_BPS = 4000
  MAX_WITHDRAW_AMOUNT = 3
  AmountBound = 5
  FirstFeeRecipient = bob
INVARIANTS
  RootIsTreeRoot
  RecentRootsKnown
  Solvent
PROPERTIES
  ImplementsShieldedPool
CHECK_DEADLOCK FALSE
