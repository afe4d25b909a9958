\* Two withdrawals paid from two deposits; a burn and another L2 transaction; one fault.
SPECIFICATION FairSpec
CONSTANTS
  None = None
  w1 = w1
  w2 = w2
  d1 = d1
  d2 = d2
  c1 = c1
  c2 = c2
  c3 = c3
  c4 = c4
  p1 = p1
  p2 = p2
  p3 = p3
  b1 = b1
  b2 = b2
  Withdrawal = {w1, w2}
  Dep = {d1, d2}
  Coin = {c1, c2, c3, c4}
  BurnTx = {b1}
  OtherTx = {b2}
  BurnAmount = {2}
  PayTx = {p1, p2, p3}
  Amount <- AmountsTwoThree
  DepValue <- Values
  DepIndex <- OwnIndices
  Fee = 2
  Dust = 1
  Timeout = 1
  IndexSpace = 3
  LastSubmit = 1
  MaxClock = 3
  MaxFaults = 1
INVARIANTS
  TypeOK
  PaidOnce
  FinalStatusIsTrue
  PaidForAnL2Transaction
  PayoutsAreAcceptable
  NothingDisappears
PROPERTIES
  FinalStatusIsFinal
  SettlesWithdrawals
  PendingIsSettled
