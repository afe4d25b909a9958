--------------------------------- MODULE MCApps ---------------------------------
(***************************************************************************)
(* The parts around the peg that share no state with each other: the forms *)
(* of the bridge page, the panes and the store of the desktop wallet, its  *)
(* poller and console, the federation's check-in, the routing of the API   *)
(* and of the sites, the amounts, the tour and the whitepaper's layout.  A *)
(* behaviour is one of one part, chosen in the beginning; the variables of *)
(* the others keep the value Off.                                          *)
(***************************************************************************)
EXTENDS Integers, FiniteSets

CONSTANTS
  None, Off, Token, NoToken, Garbage,
  DepositIds, NetIds, TxIds, Endpoints, KeyIds,
  HomeNet,          \* the network a client starts with
  CallFaults,       \* bound: failed calls of a deposit form
  Prompts,          \* bound: prompts to switch the chain
  Posts,            \* bound: withdrawal requests in flight
  Opens,            \* bound: how often a tab is opened
  OnlineWindow,     \* the API's window, in poll intervals
  CycleRows, RowTicks, Horizon,   \* bounds: rows of a cycle, time for one, time
  Slides,           \* of the tour
  LogSize, LogBound,              \* MAX_ENTRIES; bound: messages logged
  FigureHeights, CaptionLines, ParagraphLines,   \* of the blocks of the whitepaper
  PageBound         \* bound: pages of it

VARIABLES
  part,
  server, posts, gets, timers, pollId, latest, loading, qr, addr, badge, faults,
  currentNetwork, connected, chain, switches, switched, burns, burned, field, result, disabled, bodies,
  inst, mounts, dep, running, calls, started, stats, balance, bridge,
  row, creating, busy, shown, timer, answers, newest, failures,
  net, pane, panes, burnTx, button, handlers, sent, known, attempted, claims,
  settings, stored, key, tab, address, confirm, revealed, sentFrom,
  now, pc, rows, ok, wait, meta, read, answer,
  call, at, reply,
  flow, stage, exact, wei, column, sats,
  tour, paper, console,
  req, served, status

WD == INSTANCE WidgetDeposit WITH Deposit <- DepositIds, MaxFaults <- CallFaults
WW == INSTANCE WidgetWithdraw WITH Network <- NetIds, Tx <- TxIds, MaxSwitch <- Prompts, MaxPosts <- Posts, posts <- bodies
PO == INSTANCE Poller WITH Dep <- Endpoints, MaxMounts <- Opens
DD == INSTANCE DesktopDeposit WITH Deposit <- DepositIds, MaxFaults <- CallFaults,
        server <- row, gets <- answers, latest <- newest, faults <- failures
DW == INSTANCE DesktopWithdraw WITH Network <- NetIds, Tx <- TxIds, MaxMounts <- Opens,
        inst <- pane, mounts <- panes, busy <- button, requests <- claims
DS == INSTANCE DesktopStore WITH Key <- KeyIds
HB == INSTANCE Heartbeat WITH Window <- OnlineWindow, MaxRows <- CycleRows, RowTime <- RowTicks, MaxTime <- Horizon
GW == INSTANCE Gateway WITH pc <- at, answer <- reply
\* 10^3 sats of 10 wei for the 10^8 of 10^10, 14 bits for the 53 of a double.
AM == INSTANCE Amounts WITH SatsPerEcx <- 1000, WeiPerSat <- 10, Bits <- 14, Dust <- 5, Minimum <- 9, MaxSats <- 2500, stored <- column
TO == INSTANCE Tour WITH Total <- Slides, t <- tour
WP == INSTANCE Whitepaper WITH Height <- FigureHeights, Captions <- CaptionLines, Lines <- ParagraphLines,
        MaxPages <- PageBound, w <- paper
DC == INSTANCE DesktopConsole WITH MaxEntries <- LogSize, MaxLogs <- LogBound, MaxMounts <- Opens, c <- console
SI == INSTANCE Sites

\* `null' and what is no JSON are none of the values they stand beside; a tour has a
\* slide and the log an entry.  A figure, a paragraph and the space they ask for fit on
\* a page, and captions have three lines at most, as the whitepaper's have: its
\* generator breaks no block.
ASSUME AppsAssumption ==
  /\ None \notin DepositIds \cup NetIds \cup TxIds
  /\ None \notin DD!Answer
  /\ None \notin {"burn", "submit"}
  /\ {None, Garbage} \cap DS!Settings = {}
  /\ {CallFaults, Prompts, Posts, Opens, OnlineWindow, CycleRows, RowTicks, Horizon, LogBound, PageBound} \subseteq Nat
  /\ Slides \in Nat \ {0} /\ LogSize \in Nat \ {0}
  /\ FigureHeights \subseteq 1 .. 820
  /\ CaptionLines \subseteq 0 .. 3
  /\ ParagraphLines \subseteq 1 .. 41

\* The variables of each part.
wd == <<server, posts, gets, timers, pollId, latest, loading, qr, addr, badge, faults>>
ww == <<currentNetwork, connected, chain, switches, switched, burns, burned, field, result, disabled, bodies>>
po == <<inst, mounts, dep, running, calls, started, stats, balance, bridge>>
dd == <<row, creating, busy, shown, timer, answers, newest, failures>>
dw == <<net, pane, panes, burnTx, button, handlers, sent, known, attempted, claims>>
ds == <<settings, stored, key, tab, address, confirm, revealed, sentFrom>>
hb == <<now, pc, rows, ok, wait, meta, read, answer>>
gw == <<call, at, reply>>
am == <<flow, stage, exact, wei, column, sats>>
si == <<req, served, status>>

vars == <<part, wd, ww, po, dd, dw, ds, hb, gw, am, si, tour, paper, console>>

Init ==
  /\ part \in {"WD", "WW", "PO", "DD", "DW", "DS", "HB", "GW", "AM", "TO", "WP", "DC", "SI"}
  /\ IF part = "WD" THEN WD!Init
     ELSE /\ server = Off /\ posts = Off /\ gets = Off /\ timers = Off /\ pollId = Off /\ latest = Off
          /\ loading = Off /\ qr = Off /\ addr = Off /\ badge = Off /\ faults = Off
  /\ IF part = "WW" THEN WW!Init /\ currentNetwork = HomeNet
     ELSE /\ currentNetwork = Off /\ connected = Off /\ chain = Off /\ switches = Off /\ switched = Off
          /\ burns = Off /\ burned = Off /\ field = Off /\ result = Off /\ disabled = Off /\ bodies = Off
  /\ IF part = "PO" THEN PO!Init
     ELSE /\ inst = Off /\ mounts = Off /\ dep = Off /\ running = Off /\ calls = Off /\ started = Off
          /\ stats = Off /\ balance = Off /\ bridge = Off
  /\ IF part = "DD" THEN DD!Init
     ELSE /\ row = Off /\ creating = Off /\ busy = Off /\ shown = None /\ timer = Off
          /\ answers = Off /\ newest = Off /\ failures = Off
  /\ IF part = "DW" THEN DW!Init /\ net = HomeNet
     ELSE /\ net = Off /\ pane = Off /\ panes = Off /\ burnTx = Off /\ button = Off /\ handlers = Off
          /\ sent = Off /\ known = Off /\ attempted = Off /\ claims = Off
  /\ IF part = "DS" THEN DS!Init
     ELSE /\ settings = Off /\ stored = Off /\ key = Off /\ tab = Off /\ address = Off
          /\ confirm = Off /\ revealed = Off /\ sentFrom = Off
  /\ IF part = "HB" THEN HB!Init
     ELSE now = Off /\ pc = Off /\ rows = Off /\ ok = Off /\ wait = Off /\ meta = Off /\ read = Off /\ answer = Off
  /\ IF part = "GW" THEN GW!Init ELSE call = Off /\ at = Off /\ reply = Off
  /\ IF part = "AM" THEN AM!Init
     ELSE flow = Off /\ stage = Off /\ exact = Off /\ wei = Off /\ column = Off /\ sats = Off
  /\ IF part = "TO" THEN TO!Init ELSE tour = Off
  /\ IF part = "WP" THEN WP!Init ELSE paper = Off
  /\ IF part = "DC" THEN DC!Init ELSE console = Off
  /\ IF part = "SI" THEN SI!Init ELSE req = Off /\ served = Off /\ status = Off

Next ==
  /\ UNCHANGED part
  /\ IF part = "WD" THEN WD!Next ELSE UNCHANGED wd
  /\ IF part = "WW" THEN WW!Next ELSE UNCHANGED ww
  /\ IF part = "PO" THEN PO!Next ELSE UNCHANGED po
  /\ IF part = "DD" THEN DD!Next ELSE UNCHANGED dd
  /\ IF part = "DW" THEN DW!Next ELSE UNCHANGED dw
  /\ IF part = "DS" THEN DS!Next ELSE UNCHANGED ds
  /\ IF part = "HB" THEN HB!Next ELSE UNCHANGED hb
  /\ IF part = "GW" THEN GW!Next ELSE UNCHANGED gw
  /\ IF part = "AM" THEN AM!Next ELSE UNCHANGED am
  /\ IF part = "TO" THEN TO!Next ELSE UNCHANGED tour
  /\ IF part = "WP" THEN WP!Next ELSE UNCHANGED paper
  /\ IF part = "DC" THEN DC!Next ELSE UNCHANGED console
  /\ IF part = "SI" THEN SI!Next ELSE UNCHANGED si

\* The intervals fire: the one of the poller and the one of DepositPane.
Fires    == \/ part = "PO" /\ PO!Interval
            \/ part = "DD" /\ DD!Poll
CanFire  == \/ part = "PO" /\ inst # 0 /\ ~running
            \/ part = "DD" /\ timer # None /\ DD!Row(timer) \notin answers
\* HTTP calls end, answers arrive, the user answers the wallet.
Ends     == \/ part = "PO" /\ PO!CallEnds
            \/ part = "DD" /\ \E a \in answers : DD!Answered(a)
            \/ part = "WW" /\ WW!AnswerBurn
CanEnd   == \/ part = "PO" /\ calls # {}
            \/ part = "DD" /\ answers # {}
            \/ part = "WW" /\ burns # {}

Spec ==
  /\ Init /\ [][Next]_vars
  /\ []<>~CanFire \/ []<><<Fires /\ UNCHANGED part>>_vars
  /\ []<>~CanEnd \/ []<><<Ends /\ UNCHANGED part>>_vars

-----------------------------------------------------------------------------
TypeOK ==
  /\ (part = "WD" => WD!TypeOK) /\ (part = "WW" => WW!TypeOK) /\ (part = "PO" => PO!TypeOK)
  /\ (part = "DD" => DD!TypeOK) /\ (part = "DW" => DW!TypeOK) /\ (part = "DS" => DS!TypeOK)
  /\ (part = "HB" => HB!TypeOK) /\ (part = "AM" => AM!TypeOK) /\ (part = "TO" => TO!TypeOK)
  /\ (part = "WP" => WP!TypeOK) /\ (part = "DC" => DC!TypeOK) /\ (part = "SI" => SI!TypeOK)

\* Two deposit requests of the page may be answered in either order and late: still at
\* most one interval is live, the one depositPollId names, and one is while the page
\* says it waits. The burn button is disabled only while a burn of the initiate handler
\* is open, whoever clicks, edits or disconnects meanwhile (BridgeWidget.astro).
FormsKeepTrack ==
  /\ part = "WD" => WD!OneInterval /\ WD!WaitingIsPolling
  /\ part = "WW" => WW!DisabledWhileBurning

\* DepositPane polls what it shows exactly while that is not minted; `busy' of an open
\* WithdrawPane is the step of its one handler, and ECX burned by `Initiate Withdrawal'
\* is claimed on the network it was burned on, even when the pane was closed and the
\* network changed during the burn.
PanesKeepTrack ==
  /\ part = "DD" => DD!PolledIsShown
  /\ part = "DW" => DW!BusyIsTheHandler /\ DW!KnownBurnsAreClaimed

\* "Runs fn immediately" and "guards against overlapping invocations": usePoller shows
\* only the endpoint selected, however late calls for another answer. Settings that were
\* written are found by a restart, and no address is shown but that of the key in the
\* storage. The log shows the newest messages in order, and the console is busy exactly
\* while its own call is under way.
WalletIsCurrent ==
  /\ part = "PO" => PO!NoOverlap /\ PO!ShownIsForSelected /\ PO!RunsImmediately
  /\ part = "DS" => DS!WrittenIsLoaded /\ DS!ShownAddressIsTheKey
  /\ part = "DC" => DC!LogKeepsNewest /\ DC!BusyIsTheCall

\* No method, path or prefix reaches a federation handler without the token, and a
\* request for a handler of the worker is never sent upstream by the proxies that take
\* what is left; `online' is never said of a federation without a check-in in the window
\* before (packages/api).
ApiAnswers ==
  /\ part = "GW" => GW!FedNeedsToken /\ GW!OwnPathsStayHere
  /\ part = "HB" => HB!OnlineMeansRecent

\* Through all roundings what is paid is what was asked, to within one sat and never
\* more, is covered by what was burned to within one sat, and what was minted is recorded
\* to within one rounding (ecxToSats, burnECX, processDeposit).
AmountsAgree ==
  /\ part = "AM" => /\ AM!PayoutWithinASat
                    /\ AM!PayoutCoveredByBurn
                    /\ AM!RecordedCloseToMinted

\* "Minimum withdrawal: 1,000 satoshis" and "strict 1:1 peg" (the bridging guide): what is
\* refused is below the minimum.
MinimumIsPaid == part = "AM" => AM!MinimumIsPaid

\* Whatever layout the tour was in while the user moved, it shows the slide of the
\* index; a hash that names a slide names the one shown, once hashchange was delivered;
\* and "a re-visit always starts at the top of the slide" on a phone (tour.js). The
\* middlewares of the sites prefix a path once, share assets and load deep links of the
\* tour, and what the site shows of a path that can be decoded, its preview shows too.
SitesShowPages ==
  /\ part = "TO" => TO!ShownIsIndex /\ TO!LinkIsShown /\ TO!RevisitAtTop
  /\ part = "SI" => /\ SI!PrefixedOnce
                    /\ SI!AssetsAreShared
                    /\ SI!DeepLinkLoads
                    /\ SI!PreviewShowsWhatShips

\* A footer of the whitepaper carries the number of its page, although numbers and pages
\* are counted apart, nothing is drawn into its line, and page breaks leave no page
\* blank (whitepaper.pdf.ts).
PaperIsLaidOut ==
  /\ part = "WP" => WP!FootersNumberPages /\ WP!AboveTheFooter /\ WP!NoBlankPage

\* What no step does: end an interval of the page but because another takes its place or
\* a deposit was minted; take the check-in back, through crashes and failed check-ins.
StepsKeepTrack ==
  [][/\ part = "WD" => WD!PollEndsForAReason
     /\ part = "HB" => HB!CheckInAdvances]_vars

\* The burn button of the page comes back, whether the burn is sent or refused; while a
\* tab of the wallet stays open its figures are fetched again and again, whether calls
\* succeed or fail; and a mint is shown in the end, although a late answer may take it
\* back for a while.
ClientsGoOn ==
  /\ part = "WW" => WW!ButtonComesBack
  /\ part = "PO" => PO!PollingGoesOn
  /\ part = "DD" => DD!MintIsShown
=============================================================================
