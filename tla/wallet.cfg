SPECIFICATION FairWalletSpec
CONSTANTS
  s1 = s1
  s2 = s2
  i0 = i0
  i1 = i1
  evm = evm
  svm = svm
  xlm = xlm
  Null = Null
  Seed = {s1, s2}
  Id = {i0, i1}
  FirstId = i0
  ChainType = {evm, svm, xlm}
  Evm = evm
  RequiredAddresses = 4
  MaxStores = 2
  MaxRestarts = 1
INVARIANTS
  CacheIsOwn
  ActiveIsShown
PROPERTIES
  ConnectingEnds
CHECK_DEADLOCK FALSE
