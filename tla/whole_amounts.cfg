\* The constants are those of apps.cfg; the amounts need none of them.
SPECIFICATION Spec
CONSTANTS
  None = None
  Off = Off
  Token = Token
  NoToken = NoToken
  Garbage = Garbage
  DepositIds = {d1, d2}
  NetIds = {n1, n2}
  TxIds = {t1, t2}
  Endpoints = {e1, e2}
  KeyIds = {k1, k2}
  HomeNet = n1
  CallFaults = 1
  Prompts = 1
  Posts = 2
  Opens = 2
  OnlineWindow = 3
  CycleRows = 2
  RowTicks = 3
  Horizon = 8
  Slides = 3
  LogSize = 3
  LogBound = 7
  FigureHeights = {137, 325}
  CaptionLines = {0, 2}
  ParagraphLines = {2, 36}
  PageBound = 2
INVARIANT MinimumIsPaid
CHECK_DEADLOCK FALSE
