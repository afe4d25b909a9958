\* One deposit and one fault: is a confirmed deposit minted in the end?
SPECIFICATION FairSpec
CONSTANTS
  None = None
  d1 = d1
  d2 = d2
  c1 = c1
  c2 = c2
  m1 = m1
  m2 = m2
  m3 = m3
  m4 = m4
  signet = signet
  mainnet = mainnet
  Deposit = {d1}
  Coin = {c1}
  MintTx = {m1, m2, m3, m4}
  Network = {signet}
  NetOf <- OneNetwork
  MinConf <- OneConf
  Fork <- NoFork
  ReorgDepth <- NoReorg
  IndexSpace = 2
  MaxTip = 1
  MaxClock = 0
  MaxFaults = 1
PROPERTIES
  ConfirmedDepositsAreMinted
