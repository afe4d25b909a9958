\* Two deposits on one network, reorganisations of one block, one fault.
SPECIFICATION Spec
CONSTANTS
  None = None
  d1 = d1
  d2 = d2
  c1 = c1
  c2 = c2
  m1 = m1
  m2 = m2
  m3 = m3
  m4 = m4
  signet = signet
  mainnet = mainnet
  Deposit = {d1, d2}
  Coin = {c1, c2}
  MintTx = {m1, m2, m3}
  Network = {signet}
  NetOf <- OneNetwork
  MinConf <- TwoConfs
  Fork <- NoFork
  ReorgDepth <- ReorgOfOne
  IndexSpace = 2
  MaxTip = 3
  MaxClock = 1
  MaxFaults = 1
SYMMETRY Symmetry
INVARIANTS
  TypeOK
  MintedOnce
  MintsStandOnFinalCoins
  DoubleCreditHasACause
  MintedRowsAreTrue
PROPERTIES
  RowsGoForward
  SettlesDeposits
