# Snowside: TLA+ models and proofs

Snowside is an EVM chain whose native coin, ECX, is pegged 1:1 to eCash. The
heart of the repository is the custodial bridge: a Cloudflare Worker with a D1
database (`packages/api`), a polling service that holds the L1 keys and the L2
minter key (`packages/federation`), and the clients that create requests
(`packages/bridge`, `packages/desktop`). Around it are sites: a tour, an
explorer, and the whitepaper, which is generated as a PDF and read in a viewer
shipped with the site (`packages/web/public/pdfjs/web/viewer.mjs`, by far the
largest program of the repository). This directory models these parts, checks
them with TLC and proves, with TLAPS, the safety properties of the bridge, of
the parts around it and of most of the viewer, and that the bridge implements its
abstract specification.

## 1. Inventory

| Part | State | Operations | Talks to | Module |
|---|---|---|---|---|
| API tables (`api/src/index.ts`, `schema.sql`) | `deposits`, `withdrawals` | `POST` deposit and withdraw, `PATCH` of both, queries | clients, federation | `DepositFlow`, `WithdrawFlow` |
| API routing and proxies | none | handlers in order, bearer check, RPC and esplora proxies, catch-all | everybody | `Gateway` |
| API check-in and status | `meta` | `POST /v1/fed/checkin`, `GET /v1/bridge/status` | federation, clients | `Heartbeat` |
| Federation, deposits (`federation/src/index.ts` 201-412, 560-578) | list and locals of one cycle | `assignDepositAddress`, `checkAddressForDeposits`, `processDeposit`, `mintEcx` | API, esplora (L1), L2 RPC | `DepositFlow` |
| Federation, withdrawals (`index.ts` 416-548, 580-613, `withdraw.ts`) | as above | `verifyBurnTx`, `fetchFundedDeposits`, `selectUtxos`, `buildSignAndBroadcastWithdrawal`, time-out | API, esplora, L2 RPC | `WithdrawFlow` |
| Amounts | none | `satsToEcxMultiplier`, `ecxToSats`, doubles, INTEGER column, clients' conversions | | `Amounts` |
| Web widget (`BridgeWidget.astro`) | poll interval, fields, buttons, network | create and poll a deposit; burn, submit; switch networks | API, browser wallet | `WidgetDeposit`, `WidgetWithdraw` |
| Desktop wallet (`packages/desktop`) | settings, key, log, state of the mounted tab | `usePoller`, both panes, settings and keys, console | API, L2 RPC, localStorage | `Poller`, `DesktopDeposit`, `DesktopWithdraw`, `DesktopStore`, `DesktopConsole` |
| Tour (`tour/assets/tour.js`) | index, layout, hash, touches | keys, swipes, links, resizing | browser | `Tour` |
| Request handlers of the sites (`*/functions/_middleware.js`, `tour/scripts/serve.mjs`) | none | prefixing, fallback | browser | `Sites` |
| Whitepaper generator (`web/src/pages/whitepaper.pdf.ts`) | cursor, page number | page breaks, footers | | `Whitepaper` |
| PDF viewer, drawing | queue, page views, render tasks, buffer, layers, thumbnails | render, cancel, evict, zoom, rotate | worker, timers | `PdfRendering`, `PdfLayers`, `PdfThumbs` |
| PDF viewer, search | query, matches, pending pages, highlighted divs | extract, match, select, highlight | worker | `PdfFind`, `PdfHighlight` |
| PDF viewer, history | entries of the browser, internal state | jump, back, popstate, hash | browser | `PdfHistory` |
| PDF viewer, modes | scroll and spread modes, full screen, tool, editor mode | present, page, edit, drag | browser | `PdfPresentation`, `PdfTools` |
| PDF viewer, dialogs | open dialog, print job, password requests, alt text | print, cancel, ask, close | browser, worker | `PdfDialogs`, `PdfAltText` |
| PDF viewer, documents | document, views, promises, sandbox | open, close, save, set up and destroy scripting | worker | `PdfDocument`, `PdfScripting` |
| PDF viewer, page editing | mapper and three lists of pages with saved copies | move, copy, cut, paste, delete, undo, save | | `PdfPageEdit` |
| PDF viewer, sidebar | view, outline, attachments, layers, history of views | open, switch, load | worker, localStorage | `PdfSidebar`, `PdfTrees` |
| L2 node (`go/subnet-evm`), L1 chains | | vendored or external: an environment here | | |
| BMM bidder, contracts, other sites, genesis, scripts | | stub, empty or static: not modelled | | |

What is hard in this code:

* The loop is one sequential process, but each `await` lets users, miners and
  the L2 move; the row it works on is the copy it listed at the start of the
  cycle, and the tip and the outputs of an address are read by two calls.
* A remote call can be done and its answer lost. The mint and its record
  (`sendTransaction`, `PATCH minted`) are two calls, as are the payout and its
  record; nothing ties them together, and a restart forgets what was under way.
* The API's `PATCH` has no guard: only the loop's order keeps rows from going
  backwards. Derivation indices come from the clock. One pool of outputs backs
  deposits that are not minted yet and pays withdrawals.
* Clients poll without a guard against answers out of order, and handlers go on
  after the pane or page they belong to has changed.
* The viewer is a set of event handlers and promise chains over shared objects.
  Few continuations carry a token that says what they were started for: a page
  evicted and drawn again, a query changed, a document replaced, a job cancelled
  or a dialog closed is found out, if at all, by comparing fields.

`PROJECT.json` lists these hazards one by one, at the line where each bites,
with the properties that would catch it going wrong.

## 2. Modules

| Module | What it is |
|---|---|
| `DepositFlow`, `WithdrawFlow` | the two halves of the bridge |
| `Settlement` | what each half promises, without loop, chains and calls; both implement it |
| `MCDepositFlow`, `MCWithdrawFlow` | their instances for TLC |
| `DepositFlowProofs`, `WithdrawFlowProofs` | TLAPS proofs about them |
| `Amounts`, `Gateway`, `Heartbeat`, `WidgetDeposit`, `WidgetWithdraw`, `Poller`, `DesktopDeposit`, `DesktopWithdraw`, `DesktopStore`, `DesktopConsole`, `Tour`, `Sites`, `Whitepaper` | the parts around the peg, one module each |
| `MCApps` | all of these, one run |
| `ClientProofs`, `ServerProofs`, `SitesProofs` | TLAPS proofs about the parts around the peg, each module extending the one before: forms, panes, poller, store and console; check-in and routing; tour, middlewares and whitepaper |
| `PdfRendering`, `PdfLayers`, `PdfThumbs`, `PdfFind`, `PdfHighlight`, `PdfHistory`, `PdfPresentation`, `PdfTools`, `PdfDialogs`, `PdfAltText`, `PdfDocument`, `PdfScripting`, `PdfPageEdit`, `PdfSidebar`, `PdfTrees` | the viewer, one module per component |
| `ViewerState` | the variables the parts of the viewer share |
| `ViewerParts`, `DocumentParts` | ten parts of the viewer that something is proved about, as instances with constants of their own and the assumptions on them: thumbnails, history, presentation, dialogs and alt text; tools, documents, scripting, sidebar and trees |
| `MCPdf` | these and the other parts in small instances, one run |
| `ViewerProofs`, `DocumentProofs` | TLAPS proofs about `ViewerParts` and `DocumentParts`, part by part |
| `PdfProofs` | the proofs about `PdfLayers`, and the theorems of `MCPdf` that follow from all of these |

### DepositFlow

State and code: `row` and `created` are the `deposits` table (status,
`derivation_index`, `amount_sats`, `amount_ecx`, `created_at`); `snap` is the
list that `GET /v1/fed/deposits/pending` returned, less the rows already
finished; `pc`, `cur`, `seenTip`, `found` and `hash` are the loop's position and
local variables; `tip` and `coin` are the L1 chains; `mintTx` is what the L2
accepted. Amounts are the sets of coins counted: the code keeps their sum, the
set also tells which output backs which mint.

Actions: one for each stretch of the loop between two awaits (`ListPending`,
`AssignAddress`, `ReadTip`, `ReadUtxos`, `PatchConfirmed`, `SendMint`, the three
outcomes of the receipt, `PatchMinted`, `EndOfList`, `NextCycle`), `CreateDeposit`
for the API's route, and the environment: `Fund`, `NewBlock`, `Execute`, `Revert`,
`SpendByWithdrawal`, `Tick`, `Crash`. Calls take an outcome: `ok`, `lost` (done,
answer lost) or `down` (not done). `mintTx[m].lost` is a history flag: the loop
went on without having recorded mint `m`.

The ASSUME says that reorganisations are shallower than `MIN_CONFIRMATIONS`.
That is what the operator chooses the numbers for (1 on signet and testnet: no
reorganisation at all; 3 on mainnet).

### WithdrawFlow

State and code: `wrow` is the `withdrawals` table; `funded` the rows of
`GET /v1/fed/deposits/funded`; `coin` the outputs under the federation's keys
with value and derivation index; `onL2` the transactions the L2 knows and
`burned` what each of them burned, nothing for most; `payTx` the accepted
payouts; `snap`, `now`, `cur`, `rows`, `inputs`, `change` and `hash` the loop's
variables. `rows` are the funded rows whose outputs were not asked for yet.
`inputs` are pairs of an output and the row it was listed for, as in the code, so
that an output listed for two rows is there twice.

The API stores any hash with any amount, or none, and so does
`SubmitWithdrawal`. `verifyBurnTx` asks only whether the transaction exists, and
so does `VerifyBurn`: a transaction that burned nothing (`Transact`) is as good as
a burn of another amount (`Burn`). Then come one call for the funded rows
(`FetchFunded`), one per row for its outputs (`FetchUtxos`), and the selection and
signature (`BuildPayout`). `Selections` is `selectUtxos`, largest first; equal
values may come in any order (the order of the list is esplora's). `Deposited`
stands for all of `DepositFlow` and happens between two passes over the
withdrawals, where the loop processes deposits.

New outputs and payouts take the next unused name (`NextOf`), so that states that
differ in names alone are one; symmetry sets would not be sound for the liveness
property that the same run checks.

### Settlement

An order (a deposit, a request) is open until a transaction settles it or it is
dropped. The service sends a transaction only for an open order of which it
knows no other; it may forget a transaction, and only then send another. The
refinement mappings are `Orders` in `DepositFlow` (the order's state from the
row's status; its transactions are the mints that may still be executed, `lost`
those the loop went on without having recorded) and in `WithdrawFlow` (payouts).
TLC checks them as `SettlesDeposits` and `SettlesWithdrawals`, TLAPS proves them.

### The suites

The parts in `MCApps` share no state and neither do those in `MCPdf`: a
behaviour is one of one part, named by `part` and chosen by `Init`; the
variables of the others keep the value `Off`. Each part has its own named
properties in its module; the suites check their conjunctions, grouped by what a
user would say, such as `CancelledWorkIsHarmless`.

Where parts of the viewer do meet (a document is replaced under the sidebar, a
page is drawn while thumbnails wait, a presentation begins while an editor is
active), each module has the other as an environment with everything it may do
at that place: `PdfThumbs` has the page the viewer draws, `PdfTools` has the
presentation, `PdfHighlight` has the finder's results before it is told of them,
`PdfSidebar` and `PdfTrees` have documents that come and go.

In the viewer a handler is one action; promise callbacks that are already
resolved run before the next event, so the action runs them, too. Timers, answers
of the worker, dialog `close` events, `popstate`, `toBlob` and fetched pages are
actions of their own. Most modules keep their state in one record, which the
methods transform as they call each other, with the names of the source.
What a worker may answer, and when a user may click, is left open.

## 3. Runs

Passing runs:

| Run | Instance | Shows |
|---|---|---|
| `deposit_safety` | 2 deposits, 2 coins, 1 network, `MinConf` 2, reorganisations of 1 block, 3 blocks, 2 indices, 2 seconds, 1 fault, 3 mints | `MintedOnce`, `MintsStandOnFinalCoins`, `DoubleCreditHasACause`, `MintedRowsAreTrue`, `RowsGoForward`, and that the loop implements `Settlement` |
| `deposit_live` | a signet and a mainnet deposit, fork at height 3, 1 fault, fairness | nothing minted before the fork; a deposit with a final coin is minted in the end unless a withdrawal takes the coin |
| `withdrawals` | 2 requests for 2 and 3 units, 2 deposits of 7 and 5, change and dust, an L2 with one burn and one transaction that is none, 1 fault, 3 payouts, fairness | `PaidOnce`, `FinalStatusIsTrue`, `PaidForAnL2Transaction`, `PayoutsAreAcceptable`, `NothingDisappears`, `FinalStatusIsFinal`; no request stays pending; the loop implements `Settlement` |
| `apps` | the instances in `MCApps` | forms, panes and wallet keep track of what they show (`FormsKeepTrack`, `PanesKeepTrack`, `WalletIsCurrent`, `StepsKeepTrack`), `ApiAnswers`, `AmountsAgree`, `SitesShowPages`, `PaperIsLaidOut`; and `ClientsGoOn` under fairness |
| `pdf_viewer` | the instances in `MCPdf` | `PagesAreDrawn`, `SearchShowsMatches`, `HistoryLeadsBack`, `ModesComeBack`, `CancelledWorkIsHarmless`, `DocumentIsItsOwn`, `EditedPagesAgree`, `SidebarOfDocument`, `EventsInOrder`; and `VisibleGetsDrawn`, `WorkEnds` under fairness |

Runs that end in a violation, each of a sentence of the guide or of a comment:

| Run | The text | What happens |
|---|---|---|
| `unique_address` | guide: "unique, single-purpose address" | two deposits handled in the same second share an index |
| `crash_mint` | guide: "Every post-genesis mint is 1:1-backed by an observed L1 deposit" | one crash between the mint and its record, and the deposit is minted twice |
| `confirmed_spent` | guide: "marked `confirmed`, then the exact amount is minted" | a failed mint leaves a confirmed row whose coin a withdrawal spends; it is never minted |
| `burned_expires` | guide: "expire after 15 minutes if no valid burn is detected" | a request with a known burn expires |
| `fee_backing` | comment: "ALL Snowside ECX is backed 1:1 by REAL ECX" | the flat fee of a payout comes out of the pool |
| `burn_paid_twice` | comment: "proof the user burned ECX on L2"; guide: "strict 1:1 peg" | one burn, submitted twice, is paid twice |
| `whole_amounts` | guide: "Minimum withdrawal: 1,000 satoshis", "strict 1:1 peg" | a request for a whole number of ECX is read as wei and not paid |

Bounds. Two deposits (or requests) are what an interference needs: one shared
index, one coin counted by two rows, one row that fails while another goes on.
One fault of any kind at any call already reaches every state in which the loop
has lost track of a mint or payout; three transactions leave room for the repeat
and for the other row. `MaxTip` 3 lets a coin be mined, reorganised and mined
again before it has two confirmations. Two indices make a collision possible but
not necessary. The proofs remove all of these bounds for the properties they
cover. The amounts of `withdrawals` are in units in which the fee is 2 and
the dust limit 1, so that change below, at and above the limit all occur.

Symmetry is used in the safety runs of the deposits only, over coins and
transactions, whose names appear in no constant.

Fairness. `WF(Loop)`: the loop is `while (true)` with every error caught, in a
container with `restart: unless-stopped`; it always takes its next step. The L2
executes what it accepted (`WF(Execute)`), and time passes (`WF(Tick)` in
`WithdrawFlow`, which the time-out needs). Users, miners and withdrawals owe
nothing. Faults are finitely many (`MaxFaults`), so a liveness property says: once
the faults stop.

The bounds of the suites are in `apps.cfg`, as constants of `MCApps`, in
`pdf_viewer.cfg`, as constants of `ViewerParts`, `DocumentParts` and `MCPdf`, and in the
INSTANCE statements of `MCPdf`, each with the case it is there for: two deposits
or burns for an answer that comes late for the other, two mounts of a tab, three documents for one opened
while another is closed, four pages with a buffer of three for an eviction, two
print jobs for a cancelled one that goes on, a page with two places for a jump within a page, three edits of pages for a cut, a
paste and an undo. Amounts are at 1000 sats of 10 wei and 14-bit mantissas, for
the 10^8 sats of 10^10 wei and 53 bits, so that the same roundings happen.

In the suites the fairness assumed is that timers fire, that calls, workers and
the browser answer (one way or the other), and that the drawing of a page that
is not paused ends. Users owe nothing, except that in liveness of drawing,
search and switching they stop acting at some time (`quiet`). Weak fairness of
an action `A` is written `[]<>~can \/ []<><<A>>_vars` with its guard `can`
spelled out, which means the same as `WF_vars(A)` and spares TLC the
computation of `ENABLED` over large disjunctions.

Deadlock is checked in the runs of the bridge, whose loop can always take a
step. The suites may stop: a sheet is laid out, all edits are used up.

## 4. Proofs

### The bridge

`DepositFlowProofs` and `WithdrawFlowProofs` prove, for every set of deposits,
coins, networks, transactions and every number of confirmations, blocks, seconds
and faults that meets the ASSUME of the module:

* `TypeCorrect`: the type invariant;
* `MintedOnceHolds`, `MintsStandHolds`, `DoubleCreditHolds`, `MintedRowsHold` and
  `RowsGoForwardHolds` of the deposits;
* `PaidOnceHolds`, `FinalStatusHolds`, `PaidForAnL2TransactionHolds`, `PayoutsAcceptable`
  and `FinalStatusIsFinalHolds` of the withdrawals;
* `SettlesDepositsHolds` and `SettlesWithdrawalsHolds`: both halves implement
  `Settlement`.

Both follow from an inductive invariant, `IInv`, a conjunction of named parts:

* `ControlInv`: program counter and local variables agree;
* `SnapshotInv`: the listed copy of a row that is not finished is still what the
  table holds. This is why the unguarded `PATCH` is harmless: one process writes,
  and it drops a row from its list once it has written it;
* `TrackedInv`: a mint (payout) that is not lost is recorded or is the one in
  hand. A second one is started only for a row that is not recorded, so
  `MintedOnce` and `PaidOnce` follow;
* `ReadInv` and `ConfirmedInv` (deposits): what was read of the chain still holds
  of it. The key lemma is `FinalStable`: a coin with `MinConf` confirmations under
  a tip that was once the real one keeps them, because the tip never goes down
  and a reorganisation replaces fewer than `MinConf` blocks;
* `InputsInv` (withdrawals): the signed inputs are still unspent and each is at
  the index of its row.

`DoubleCreditHasACause` is then a consequence of `MintedOnce` and
`MintsStandOnFinalCoins`: a coin in two mints of two deposits is at both
addresses.

The refinement is proved action by action (`DepositStepRefines`,
`WithdrawStepRefines`): most steps leave the orders as they are; `SendMint` and
`Broadcast` are `Send`, which needs `TrackedInv`: a mint (payout) of the order in
hand that is not lost would be recorded already; failed patches and crashes that
lose one are `Forget`; the patches are `Settle`, the time-out is `Drop`.

### The parts around the peg

Each part has an inductive invariant of its own, `IInv` at the end of its module,
and each proof module shows that those of its parts hold in all behaviours of
`MCApps` (`FormsInvariance`, `PanesInvariance`, `WalletInvariance`,
`ServerInvariance`, `SitesInvariance`). All ASSUMEd is `AppsAssumption`: bounds
are natural numbers, `None` is no id, and the blocks of the whitepaper have the
sizes its content has.

| Theorem | For every | What the invariant adds to the property |
|---|---|---|
| `FormsKeepTrackHolds` | set of deposits, networks and transactions, number of faults, prompts and requests under way | an answer `minted` is true of the server's row; a disabled button has a handler that waits |
| `PanesKeepTrackHolds` | the same, and number of openings | rows shown or polled exist; handlers belong to panes that were opened; a hash that is known was sent on its network |
| `WalletIsCurrentHolds` | set of endpoints and keys, number of mounts, log size | calls belong to mounts of the past; the one of the current mount asks the endpoint selected; the entries of the log are numbered without a gap up to the last message |
| `ApiAnswersHold` | window, cycle length, time of a row, horizon; every base URL, path, method and token | a check-in, what was read of it and the answer given are in the past and in this order; who answered follows from the request alone |
| `StepsKeepTrackHolds` | as above | the same invariants |
| `SitesShowPagesHolds` | number of slides; every request of the sites | a window has the layout of its size; what is served follows from the request |
| `PaperIsLaidOutHolds` | set of figures up to 820 units high, captions of at most 3 lines, paragraphs of at most 41 | `pageNum` counts the pages; a page of a section has something on it |
| `TypesHold` | all of these | the type invariant of the suite, except of the amounts |

The arguments that take more than one look:

* Routing (`FedRoutesAreUnderFed`). A segment of a pattern may be a parameter,
  but `fed` is none, so a request that matches a route of a federation handler
  has `fed` as its second segment, and the bearer check in front of `/v1/fed/*`
  has seen it.
* Online (`OnlineIsRecent`). The status handler reads the row and answers later;
  meanwhile the row may be replaced, by a later time only, so an answer that is
  recent in what it read is recent in what is stored.
* The log (`ClientProofs`). `slice(-499)` and an append keep the newest entries:
  the lemmas about the slice are on sequences of any length.
* The tour. `render` is the only writer of what is shown; `applyMode` renders
  whenever the layout changes, so an index that moved while the other layout was
  visible is shown by the new one (`ModeIsApplied`).
* The whitepaper. `ensureSpace` is asked for the figure but not for its caption.
  Three lines of caption still end above the footer: 905 + 2 * 13 = 931 of 933
  units (`PaperStep`). Four would not.

### The viewer

Eleven of the fifteen parts of the viewer have an inductive invariant, `Sound` of
their state (`IInv` at the end of the module). `ViewerProofs`, `DocumentProofs`
and, for the layers, `PdfProofs` show of each part that it begins with it, that every action
keeps it and what that step promises (`HStep`, `KStep` and so on, with one lemma
per action or method), and that it implies the part's properties. `PdfProofs`
puts them together (`ViewerSound`) and draws the conclusions about `MCPdf`:

| Theorem | For every | What the invariants add to the properties |
|---|---|---|
| `HistoryLeadsBackTheorem` | number of pages and entries, set of long pages and of hashes, threshold | only the first entry may have no destination, and then its number is 0; a position has its page as identity; what is under way ends inside the list; the internal number is that of the current entry as long as no temporary position was written over an entry without destination |
| `ModesComeBackTheorem` | number of pages, switches and documents | modes are the chosen ones until the work of `#enter` is done and those of `#enter` until that of `#exit` is, which finds the chosen ones in the arguments; tools, toolbar and presentation have been told the same |
| `CancelledWorkIsHarmlessTheorem` | number of pages, jobs, requests and `close` events under way; set of images, windows and rectangles | how far the container is filled follows from the phase of the active job; a prompt is open, or closed with its event under way, exactly while its capability is pending; the dialog on the screen is filled in for its image |
| `CancelledWorkIsHarmlessTheorem`, layers | number of draws | a layer is in the page from the end of its rendering until its builder goes; a view that was drawn has its builders; the newest continuation is that of the last draw and brings what is missing |
| `DocumentIsItsOwnTheorem` | number of documents and pages | answers under way are of the document opened last or of the one being closed; `getPagesLeft` counts the pages under way; without a sandbox nothing of one is left |
| `SidebarOfDocumentTheorem` | set of files, pages, names and layers; size of the history | the history holds the file of the open document; what is told later is right when it is told; before the answer of a document there are no files |
| `SidebarOfDocumentTheorem`, thumbnails | number of pages, rotations and events, set of broken pages and of views | a thumbnail without its page was never drawn or has failed; the last canvas of a finished one that waits to be encoded has the rotation of now |
| `EventsInOrderTheorem` | all of these | the same invariants, before and after the step |

Assumed is only what is next to the constants: numbers are natural, a document
has a page (`PdfDocument` is about documents of at least two), the history of
views has room for one file, a thumbnail is in view, the alt text dialog fits into the window, and there
is a name for an attachment. Images and hashes may be anywhere.

The arguments that take more than one look:

* The container of a job (`JobsSound`). Every continuation of a print job compares
  the active service with its own, so the pictures in the container are those of
  the active job in order, as many as `Filled` says; a job that ended may leave
  one picture that is not revoked, and only if it ended between `toBlob` and the
  `load` event.
* Prompts (`Turn`, `Prompted`, `Waits`). A second request waits for the capability
  of the first prompt. `Turn` lists the eight queues of microtasks there may be
  and what holds before each: a turn leaves either no request or one whose
  prompt is open, closed with its event under way, or the next to be opened.
* Changing modes (`ModesSound` of `PdfPresentation`). `fullscreenchange` and its
  two time-outs are queued, so a presentation may be left before its `#enter` ran.
  The invariant says what each queued piece of work will find.
* Pages and their promise (`PromiseSound`). Settling `pagesPromise` takes as many
  answers as there are pages under way; the lemma removes one page from the set
  of pages under way and counts.
* Attachments (`FilesSound`). The files of a document are announced by the
  event, the answer or the first page, whichever comes first; the invariant says
  what each of them finds.

* Layers (`DrawEnds`). Continuations of draws that were interrupted still work on
  the fields of the view. They end in the order they began, so it is enough to
  know the newest one: when the list is empty, what it brought is there and
  nobody has hidden it since.
* Images (`Shows`). Canvases are encoded in the order of the calls and nothing
  cancels them. A finished thumbnail has, from some place of the queue on, only
  canvases of the rotation of now, or has its image and none in the queue; a
  canvas from before a rotation is always ahead of that place.

The search for the invariant of `PdfDialogs` found an error of the model: an answer
given to the prompt of a document already closed was taken as the reason for a
new request, and with five requests, more than the run has, a request failed
whose prompt nobody had dismissed. The worker of a closed document asks nothing;
the model now says so.

### Only model-checked

* Liveness (`deposit_live`, `PendingIsSettled`, `ClientsGoOn`, and `VisibleGetsDrawn`
  and `WorkEnds` of the viewer): the prover has neither fairness nor ENABLED.
* `NothingDisappears`: a sum over a set of coins; that it does not depend on the
  order of the summands needs induction over finite sets.
* `AmountsAgree` and the types of the amounts: a double is found with CHOOSE over
  powers of two, whose existence is an induction, and two roundings are composed;
  the prover has no theory of exponentiation.
* `PagesAreDrawn` (`PdfRendering`), `SearchShowsMatches` (`PdfFind`,
  `PdfHighlight`) and `EditedPagesAgree` (`PdfPageEdit`). The buffer of drawn
  pages, the highlights of a text and the pages after a cut are what folds and
  SelectSeq return, the number of results is a sum and the selected match is
  found by recursion from page to page; facts about all of these need induction
  over data.
* `TypeOK` of the viewer, which is a conjunction over all parts. The eleven
  parts above keep the types that their invariants state.

## 5. Observations

Modelling the code brought up behaviour that the properties above allow for, by
an exception that is stated with them or by leaving a promise unstated. They
are recorded here and not as runs: we found no sentence of the repository that
promises otherwise in so many words.

Bridge and clients:

* `verifyBurnTx` accepts any transaction that exists (TODO in `index.ts` 430; the
  guide admits it at line 91), whatever it burned and whoever sent it. That nothing
  is paid without a burn is therefore no property of this code: what is checked
  and proved, `PaidForAnL2Transaction`, is that every payout is for a request
  with a hash the L2 knows.
* The comment at `index.ts` 503 says "use a high index to avoid collision", but
  the index of the change is the clock modulo 10^6, in the range that deposits
  use. `ChangeIndex` takes it from that range; change may then join the outputs of
  a deposit or be at an index that no row has.
* Amounts from 546 to 999 sats are paid although the guide's minimum is 1,000.
* The desktop wallet's default API URL ends in `/v1` and its paths begin with it:
  it asks for `/v1/v1/bridge/...`, which no handler matches and the catch-all
  takes. `Gateway` has calls with this base and these paths among others; its
  properties say who answers what, not that the default works.
* The widget may show the address of an earlier deposit, says "Withdrawal
  submitted!" after the burn alone, posts what is in the field for the burn's
  hash unchecked, and takes the network of the request from the moment of the
  click and that of the burn from the wallet. An answer without an id leaves
  "Generating..." or "Submitting..." on the page.
* A burn hash typed or kept in the desktop pane is gone with the pane; a new key
  replaces the only copy of the old one.
* The federation is shown offline while a cycle takes longer than the window.
* The tour leaves a hash out of range as it is and counts a pinch as a swipe.
* `serve.mjs` says "what you see locally is what ships". That holds of what the
  site shows (`PreviewShowsWhatShips`); not of what it does not find: a path with a
  dot in a directory or at the beginning of its name is `index.html` in the preview
  and 404 on the site, and malformed percent encoding is 500 in the preview. The last page of each section of the whitepaper has no footer.

Viewer:

* `PdfFind`: the index of the pending page is tested for truth, so the first
  page never counts as pending. `PdfHighlight`: matches that begin in the same
  ligature share one place; the second is not marked as selected.
* `PdfHistory`: returning to an entry that never got a destination leaves the
  internal state of the entry before (`Astray`). If a temporary position is written
  then, the entry gets the other's number (`lost`), entries are no longer in
  order, and `back()` may leave the viewer. The model goes on; `UidsIncrease` and
  `BackStaysInViewer` are about the states before that, `InternalIsCurrent` and
  `JumpIsUndoable` about those that are not `Astray`. After two quick jumps the position kept is that
  of the first.
* `PdfDialogs`: a late `close` event may cancel a newer job or prompt; a blob URL
  made after a cancellation is not revoked.
* `PdfDocument`: late answers for pages settle the next document's
  `pagesPromise`; two calls of `open` at once are not serialised; closing does not
  wait for a save that is under way, and edits made during a save are reset.
* `PdfScripting`: closing a document while the sandbox library loads leaves its
  capabilities unsettled; flipping back quickly repeats a `PageOpen`.
* `PdfPageEdit` (off by default): the find controller saves nothing when pages are
  cut, so the texts are wrong after the undo of a cut once a search has begun
  (`stale`), and the undo throws if nothing was saved before. The model ends there:
  the viewer was not told, has fewer page views than thumbnails, and edits that
  follow read past the end of a list and throw in turn. After cut, paste and copy, a
  selection may destroy the pasted view, which `ShownIsAlive` allows for; deleting
  the last page and restoring the order counts as unchanged.
* `PdfSidebar`: "none" kept for a file does not close an open sidebar; two tabs
  overwrite each other's history. `PdfTrees`: every rendering of a tree adds a
  listener.
* `PdfThumbs`: an image that arrives after a reset, and those of a replaced
  document, are never revoked.
* `PdfTools`: asking for no editor while a switch waits for pages is ignored, so
  an editor may become active inside a presentation; a switch waits for a page
  that was scrolled away until it is drawn.
* `PdfAltText`: from right to left, a dialog without a place keeps an old
  `style.right`.

## 6. What is not modelled

* Keys, signatures, bech32, ABI encoding, replay-protection lock times.
* Values that do not steer the loop: `ecash_tx_hash`, `mint_tx_hash`,
  `confirmed_at` and the like; logging.
* Missing configuration (no RPC URL, no minter key): the loop then skips.
* The vendored L2 node; the empty contracts and the bidder stub; read-only
  listings and the OpenAPI page; the widget's history and QR scanner; sending
  coins with the desktop wallet and its Tauri shell.
* In `WithdrawFlow`: outputs that are unconfirmed and later replaced, further
  payments to a funded address, and burns that the L2 knows but never executes.
* Of the viewer: the library `pdf.mjs` (parsing, drawing, the annotation
  editor), localisation, preferences, `NewAltTextManager` (which needs a
  machine-learning manager), signatures and comments, toolbars that only mirror
  state, caret browsing, XFA, detail views of very large pages.
* Text and content: the build script and slides of the tour, the whitepaper's
  sections, styles.

## 7. Plan

Done: the bridge with its runs and proofs, the abstract `Settlement` and the
proof that it is implemented, the parts around the peg with their proofs, the
viewer with its run, and the proofs about eleven of its parts.

Next, in this order:

1. The invariant of `PdfRendering`. `StateMatchesTask` and `CanvasesBuffered` do not
   depend on what the queue chooses, and could be proved with the choice left open.
2. Deposits and withdrawals composed over one pool and one loop, in place of
   `SpendByWithdrawal` and `Deposited`.
