\* The same burn submitted again after a lost answer.
SPECIFICATION Spec
CONSTANTS
  None = None
  w1 = w1
  w2 = w2
  d1 = d1
  d2 = d2
  c1 = c1
  c2 = c2
  c3 = c3
  c4 = c4
  p1 = p1
  p2 = p2
  p3 = p3
  b1 = b1
  b2 = b2
  Withdrawal = {w1, w2}
  Dep = {d1, d2}
  Coin = {c1, c2, c3}
  BurnTx = {b1}
  OtherTx = {}
  BurnAmount = {2}
  PayTx = {p1, p2}
  Amount <- AmountsEqual
  DepValue <- Values
  DepIndex <- OwnIndices
  Fee = 2
  Dust = 1
  Timeout = 1
  IndexSpace = 3
  LastSubmit = 1
  MaxClock = 1
  MaxFaults = 0
INVARIANTS
  BurnPaidOnce
