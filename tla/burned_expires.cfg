\* A user burns all he deposited; no faults.
SPECIFICATION FairSpec
CONSTANTS
  None = None
  w1 = w1
  w2 = w2
  d1 = d1
  d2 = d2
  c1 = c1
  c2 = c2
  c3 = c3
  c4 = c4
  p1 = p1
  p2 = p2
  p3 = p3
  b1 = b1
  b2 = b2
  Withdrawal = {w1}
  Dep = {d1}
  Coin = {c1, c2}
  BurnTx = {b1}
  OtherTx = {}
  BurnAmount = {7}
  PayTx = {p1}
  Amount <- AmountsAll
  DepValue <- Values
  DepIndex <- OwnIndices
  Fee = 2
  Dust = 1
  Timeout = 1
  IndexSpace = 3
  LastSubmit = 1
  MaxClock = 3
  MaxFaults = 0
PROPERTIES
  BurnedRequestsDoNotExpire
