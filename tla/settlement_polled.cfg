SPECIFICATION FairSpec
CONSTANTS
  i1 = i1
  i2 = i2
  t1 = t1
  t2 = t2
  x1 = x1
  x2 = x2
  y1 = y1
  r1 = r1
  s1 = s1
  e1 = e1
  h1 = h1
  h2 = h2
  None = None
  Invoice = {i1, i2}
  Tx = {t1, t2}
  Hash <- Hashes
  OnChain <- Names
  Spelling <- ChainSpelling
  Terms <- PolledTerms
  Transfer <- PolledTransfer
  EvmChain <- EvmChains
  EchoChain <- EchoChains
  Lifetime <- ShortLives
  Request = {r1}
  Sweeper = {s1}
  Handler = {}
  Expirer = {e1}
  SweepLimit = 2
  HistoryPage = 2
  MaxTime = 2
  MaxFaults = 1
INVARIANTS
  TypeOK
  OneTxOneInvoice
  SettlementBacked
  OneNotice
  CreatedMeansSettled
PROPERTIES
  Irrevocable
  ImplementsLedger
  SettlementIsAnnounced
