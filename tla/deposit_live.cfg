\* A signet and a mainnet deposit, the mainnet chain below its fork height at first.
SPECIFICATION FairSpec
CONSTANTS
  None = None
  d1 = d1
  d2 = d2
  c1 = c1
  c2 = c2
  m1 = m1
  m2 = m2
  m3 = m3
  m4 = m4
  signet = signet
  mainnet = mainnet
  Deposit = {d1, d2}
  Coin = {c1}
  MintTx = {m1, m2, m3}
  Network = {signet, mainnet}
  NetOf <- TwoNetworks
  MinConf <- SignetMain
  Fork <- ForkAtThree
  ReorgDepth <- ReorgMain
  IndexSpace = 1
  MaxTip = 3
  MaxClock = 0
  MaxFaults = 1
INVARIANTS
  MintsStandOnFinalCoins
PROPERTIES
  FundedDepositsAreMinted
