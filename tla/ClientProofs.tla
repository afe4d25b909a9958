----------------------------- MODULE ClientProofs -----------------------------
(***************************************************************************)
(* TLAPS proofs about the forms of the bridge page and the bridge panes of *)
(* the desktop wallet (MCApps), for every number of deposits, networks,    *)
(* transactions, failed calls, prompts and mounts, and about what the      *)
(* wallet shows: the poller behind its figures, its store and its console, *)
(* for every number of endpoints, keys, mounts and messages.               *)
(***************************************************************************)
EXTENDS MCApps, SequenceTheorems, TLAPS

(* What the assumptions say of the constants of the forms and the panes. *)
LEMMA ClientConstants ==
  /\ CallFaults \in Nat /\ Prompts \in Nat /\ Opens \in Nat
  /\ None \notin DepositIds /\ None \notin NetIds /\ None \notin TxIds
  /\ None \notin DD!Answer /\ None # "burn" /\ None # "submit"
BY AppsAssumption

(* A step of a behaviour of one part is a step of that part. *)
LEMMA StepOfPart ==
  ASSUME [Next]_vars
  PROVE  /\ part' = part
         /\ part = "WD" => [WD!Next]_wd
         /\ part = "WW" => [WW!Next]_ww
         /\ part = "DD" => [DD!Next]_dd
         /\ part = "DW" => [DW!Next]_dw
         /\ part = "PO" => [PO!Next]_po
         /\ part = "DS" => [DS!Next]_ds
         /\ part = "DC" => [DC!Next]_console
         /\ part = "HB" => [HB!Next]_hb
         /\ part = "GW" => [GW!Next]_gw
         /\ part = "TO" => [TO!Next]_tour
         /\ part = "SI" => [SI!Next]_si
         /\ part = "WP" => [WP!Next]_paper
BY DEF Next, vars

-----------------------------------------------------------------------------
(***************************************************************************)
(* The deposit form of the page.                                           *)
(***************************************************************************)
(* Every step of the form, its calls and the federation keeps the types. *)
LEMMA FormTypeStep == WD!TypeOK /\ [WD!Next]_wd => WD!TypeOK'
<1> SUFFICES ASSUME WD!TypeOK, [WD!Next]_wd PROVE WD!TypeOK'
  OBVIOUS
<1> USE ClientConstants DEF WD!TypeOK, WD!Stage, WD!Answer
<1>1. ASSUME NEW d \in DepositIds, WD!Generate(d) \/ WD!Created(d) PROVE WD!TypeOK'
  BY <1>1 DEF WD!Generate, WD!Created
<1>2. ASSUME NEW d \in DepositIds, WD!Posted(d) \/ WD!PostFailed(d) \/ WD!PostRefused(d) PROVE WD!TypeOK'
  BY <1>2 DEF WD!Posted, WD!PostFailed, WD!PostRefused, WD!PollDeposit, WD!Lost
<1>3. ASSUME NEW d \in DepositIds, WD!Poll(d) \/ WD!Advance(d) PROVE WD!TypeOK'
  BY <1>3 DEF WD!Poll, WD!Advance
<1>4. ASSUME NEW a \in gets, WD!Answered(a) PROVE WD!TypeOK'
  <2>1. a \in WD!Answer
    OBVIOUS
  <2> QED BY <1>4, <2>1, ZenonT(60) DEF WD!Answered, WD!ShowBadge, WD!Stop
<1>5. ASSUME NEW a \in gets, WD!AnswerLost(a) PROVE WD!TypeOK'
  BY <1>5 DEF WD!AnswerLost, WD!Lost
<1>6. CASE UNCHANGED wd
  BY <1>6 DEF wd
<1> QED BY <1>1, <1>2, <1>3, <1>4, <1>5, <1>6 DEF WD!Next

(* The inductive invariant of the deposit form holds in the beginning. *)
LEMMA FormInit == WD!Init => WD!IInv
<1> SUFFICES ASSUME WD!Init PROVE WD!IInv
  OBVIOUS
<1>1. WD!TypeOK
  <2>1. faults \in 0 .. CallFaults
    BY ClientConstants DEF WD!Init
  <2>2. server \in [DepositIds -> WD!Stage]
    BY DEF WD!Init, WD!Stage
  <2>3. qr \in BOOLEAN
    BY DEF WD!Init
  <2> QED BY <2>1, <2>2, <2>3 DEF WD!Init, WD!TypeOK
<1>2. WD!OneInterval /\ WD!WaitingIsPolling /\ WD!MintedAnswersAreTrue
  BY DEF WD!Init, WD!OneInterval, WD!WaitingIsPolling, WD!MintedAnswersAreTrue
<1> QED BY <1>1, <1>2 DEF WD!IInv

(* Every step of the deposit form keeps its inductive invariant: pollDeposit clears the interval *)
(* it replaces, and the answer that ends the polling also hides the waiting text. *)
LEMMA FormStep == WD!IInv /\ [WD!Next]_wd => WD!IInv'
<1> SUFFICES ASSUME WD!IInv, [WD!Next]_wd PROVE WD!IInv'
  OBVIOUS
<1>0. WD!TypeOK /\ WD!TypeOK'
  BY FormTypeStep DEF WD!IInv
<1>1. WD!OneInterval'
  BY DEF WD!IInv, WD!OneInterval, WD!Next, WD!Generate, WD!Created, WD!Posted, WD!PostFailed, WD!PostRefused,
     WD!Poll, WD!Advance, WD!Answered, WD!AnswerLost, WD!PollDeposit, WD!Stop, wd
<1>2. WD!WaitingIsPolling'
  BY DEF WD!IInv, WD!WaitingIsPolling, WD!Next, WD!Generate, WD!Created, WD!Posted,
     WD!PostFailed, WD!PostRefused, WD!Poll, WD!Advance, WD!Answered, WD!AnswerLost, WD!PollDeposit, WD!Stop, wd
<1>3. WD!MintedAnswersAreTrue'
  <2> USE <1>0 DEF WD!IInv, WD!MintedAnswersAreTrue, WD!TypeOK, WD!Stage, WD!Answer
  <2>1. ASSUME NEW d \in DepositIds, WD!Poll(d) PROVE WD!MintedAnswersAreTrue'
    BY <2>1 DEF WD!Poll
  <2>2. ASSUME NEW d \in DepositIds, WD!Advance(d) PROVE WD!MintedAnswersAreTrue'
    BY <2>2 DEF WD!Advance
  <2>3. ASSUME NEW d \in DepositIds, WD!Created(d) PROVE WD!MintedAnswersAreTrue'
    BY <2>3 DEF WD!Created
  <2>4. ASSUME gets' \subseteq gets, server' = server PROVE WD!MintedAnswersAreTrue'
    BY <2>4
  <2> QED BY <2>1, <2>2, <2>3, <2>4 DEF WD!Next, WD!Generate, WD!Posted, WD!PostFailed, WD!PostRefused,
             WD!Answered, WD!AnswerLost, wd
<1> QED BY <1>0, <1>1, <1>2, <1>3 DEF WD!IInv

(* An interval of the page ends only because another one takes its place or a deposit was minted *)
(* (the clearInterval in the continuation of the poll). *)
LEMMA FormPollEnds == WD!IInv /\ [WD!Next]_wd => WD!PollEndsForAReason
<1> SUFFICES ASSUME WD!IInv, [WD!Next]_wd, NEW d \in timers \ timers'
             PROVE  \/ \E e \in timers' : e # d
                    \/ \E e \in DepositIds : server[e] = "minted"
  BY DEF WD!PollEndsForAReason
<1>1. ASSUME NEW e \in DepositIds, WD!Posted(e) PROVE \E x \in timers' : x # d
  BY <1>1 DEF WD!Posted, WD!PollDeposit
<1>2. ASSUME NEW a \in gets, WD!Answered(a) PROVE \E e \in DepositIds : server[e] = "minted"
  <2>1. a.stage = "minted" /\ a \in WD!Answer
    BY <1>2 DEF WD!Answered, WD!Stop, WD!IInv, WD!TypeOK
  <2>2. server[a.dep] = "minted" /\ a.dep \in DepositIds
    BY <2>1 DEF WD!IInv, WD!MintedAnswersAreTrue, WD!Answer
  <2> QED BY <2>2
<1> QED BY <1>1, <1>2 DEF WD!Next, WD!Generate, WD!Created, WD!PostFailed, WD!PostRefused, WD!Poll, WD!Advance,
           WD!AnswerLost, wd

-----------------------------------------------------------------------------
(***************************************************************************)
(* The withdrawal form of the page.                                        *)
(***************************************************************************)
(* The inductive invariant of the withdrawal form holds in the beginning. *)
LEMMA BurnFormInit == WW!Init => WW!IInv
<1> SUFFICES ASSUME WW!Init PROVE WW!IInv
  OBVIOUS
<1>1. WW!TypeOK
  <2>1. switched \in 0 .. Prompts
    BY ClientConstants DEF WW!Init
  <2>2. connected \in BOOLEAN /\ disabled \in BOOLEAN
    BY DEF WW!Init
  <2> QED BY <2>1, <2>2 DEF WW!Init, WW!TypeOK, WW!Text
<1>2. WW!DisabledWhileBurning
  BY DEF WW!Init, WW!DisabledWhileBurning
<1> QED BY <1>1, <1>2 DEF WW!IInv

(* Every step of the withdrawal form and of the wallet keeps the types. *)
LEMMA BurnFormTypeStep == WW!TypeOK /\ [WW!Next]_ww => WW!TypeOK'
<1> SUFFICES ASSUME WW!TypeOK, [WW!Next]_ww PROVE WW!TypeOK'
  OBVIOUS
<1> USE ClientConstants DEF WW!TypeOK, WW!Prompt, WW!Request, WW!Text, WW!wallet
<1>1. CASE WW!ConnectWallet \/ WW!DisconnectWallet
  <2>1. CASE WW!ConnectWallet
    BY <2>1 DEF WW!ConnectWallet, WW!SwitchNetwork
  <2>2. CASE WW!DisconnectWallet
    BY <2>2 DEF WW!DisconnectWallet
  <2> QED BY <1>1, <2>1, <2>2
<1>2. CASE WW!InitiatePosts \/ WW!EditField
  BY <1>2 DEF WW!InitiatePosts, WW!EditField, WW!Body
<1>3. ASSUME NEW n \in NetIds, WW!SelectNetwork(n) \/ WW!AnswerSwitch(n) PROVE WW!TypeOK'
  BY <1>3 DEF WW!SelectNetwork, WW!AnswerSwitch, WW!SwitchNetwork
<1>4. ASSUME NEW t \in TxIds, WW!ClickBurn(t) \/ WW!InitiateBurns(t) PROVE WW!TypeOK'
  <2>1. CASE WW!ClickBurn(t)
    BY <2>1 DEF WW!ClickBurn, WW!BurnECX
  <2>2. CASE WW!InitiateBurns(t)
    BY <2>2 DEF WW!InitiateBurns, WW!BurnECX
  <2> QED BY <1>4, <2>1, <2>2
<1>5. ASSUME NEW b \in burns, WW!BurnSent(b) \/ WW!BurnRefused(b) PROVE WW!TypeOK'
  <2>0. disabled' \in BOOLEAN
    BY <1>5 DEF WW!BurnSent, WW!BurnRefused, WW!Enable
  <2>1. CASE WW!BurnSent(b)
    BY <2>0, <2>1 DEF WW!BurnSent, WW!Fill
  <2>2. CASE WW!BurnRefused(b)
    BY <2>0, <2>2 DEF WW!BurnRefused
  <2> QED BY <1>5, <2>1, <2>2
<1>6. ASSUME NEW r \in bodies, WW!Posted(r) \/ WW!PostFailed(r) \/ WW!PostRefused(r) PROVE WW!TypeOK'
  BY <1>6 DEF WW!Posted, WW!PostFailed, WW!PostRefused
<1>7. CASE UNCHANGED ww
  BY <1>7 DEF ww
<1> QED BY <1>1, <1>2, <1>3, <1>4, <1>5, <1>6, <1>7 DEF WW!Next, WW!AnswerBurn

(* Every step of the withdrawal form keeps its inductive invariant: the initiate handler enables *)
(* the burn button on both paths. *)
LEMMA BurnFormStep == WW!IInv /\ [WW!Next]_ww => WW!IInv'
<1> SUFFICES ASSUME WW!IInv, [WW!Next]_ww PROVE WW!IInv'
  OBVIOUS
<1>0. WW!TypeOK /\ WW!TypeOK'
  BY BurnFormTypeStep DEF WW!IInv
<1> USE ClientConstants DEF WW!TypeOK, WW!Prompt, WW!wallet, WW!DisabledWhileBurning
<1>1. ASSUME UNCHANGED <<burns, disabled>> PROVE WW!IInv'
  BY <1>0, <1>1 DEF WW!IInv
<1>2. ASSUME NEW t \in TxIds, WW!ClickBurn(t) \/ WW!InitiateBurns(t) PROVE WW!IInv'
  <2>1. CASE WW!ClickBurn(t)
    BY <1>0, <2>1 DEF WW!IInv, WW!ClickBurn, WW!BurnECX
  <2>2. CASE WW!InitiateBurns(t)
    BY <1>0, <2>2 DEF WW!IInv, WW!InitiateBurns, WW!BurnECX
  <2> QED BY <1>2, <2>1, <2>2
<1>3. ASSUME NEW b \in burns, WW!BurnSent(b) \/ WW!BurnRefused(b) PROVE WW!IInv'
  BY <1>0, <1>3 DEF WW!IInv, WW!BurnSent, WW!BurnRefused, WW!Enable
<1> QED
  BY <1>1, <1>2, <1>3
  DEF WW!Next, WW!ConnectWallet, WW!DisconnectWallet, WW!SelectNetwork, WW!AnswerSwitch, WW!InitiatePosts,
      WW!EditField, WW!AnswerBurn, WW!Posted, WW!PostFailed, WW!PostRefused, ww

-----------------------------------------------------------------------------
(***************************************************************************)
(* The deposit pane of the desktop wallet.                                 *)
(***************************************************************************)
(* The inductive invariant of DepositPane holds in the beginning. *)
LEMMA PaneInit == DD!Init => DD!IInv
<1> SUFFICES ASSUME DD!Init PROVE DD!IInv
  OBVIOUS
<1>1. DD!TypeOK
  <2>1. failures \in 0 .. CallFaults
    BY ClientConstants DEF DD!Init
  <2>2. busy \in BOOLEAN
    BY DEF DD!Init
  <2>3. row \in [DepositIds -> DD!Stage]
    BY DEF DD!Init, DD!Stage
  <2> QED BY <2>1, <2>2, <2>3 DEF DD!Init, DD!TypeOK
<1>2. DD!PolledIsShown /\ DD!RowsExist
  BY DEF DD!Init, DD!PolledIsShown, DD!RowsExist
<1> QED BY <1>1, <1>2 DEF DD!IInv

(* setDeposit and the effect after it: the interval that runs then polls the deposit shown. *)
LEMMA SetDepositPolls ==
  ASSUME DD!TypeOK, DD!PolledIsShown, NEW a \in DD!Answer, DD!SetDeposit(a)
  PROVE  /\ DD!PolledIsShown'
         /\ shown' \in DD!Answer /\ timer' \in DepositIds \cup {None}
<1> USE ClientConstants DEF DD!Answer, DD!Stage
<1>1. shown' = a /\ a # None /\ a.dep \in DepositIds
  BY DEF DD!SetDeposit
<1>2. DD!Polled(a) = IF a.stage = "minted" THEN None ELSE a.dep
  BY DEF DD!Polled, DD!Status
<1>3. timer' = DD!Polled(a)
  <2>1. CASE shown # None /\ shown.dep = a.dep /\ DD!Status(shown) = DD!Status(a)
    <3>1. timer' = timer /\ shown \in DD!Answer
      BY <2>1 DEF DD!SetDeposit, DD!Effect, DD!TypeOK
    <3>2. shown.stage = "minted" <=> a.stage = "minted"
      BY <2>1, <3>1 DEF DD!Status
    <3> QED BY <1>2, <2>1, <3>1, <3>2 DEF DD!PolledIsShown
  <2>2. CASE ~(shown # None /\ shown.dep = a.dep /\ DD!Status(shown) = DD!Status(a))
    BY <2>2 DEF DD!SetDeposit, DD!Effect
  <2> QED BY <2>1, <2>2
<1> QED BY <1>1, <1>2, <1>3 DEF DD!PolledIsShown

(* Every step of the pane, its calls and the federation keeps the invariant of DepositPane: an *)
(* answer that comes late, or for another deposit, moves the interval with what is shown. *)
LEMMA PaneStep == DD!IInv /\ [DD!Next]_dd => DD!IInv'
<1> SUFFICES ASSUME DD!IInv, [DD!Next]_dd PROVE DD!IInv'
  OBVIOUS
<1> USE ClientConstants DEF DD!IInv, DD!TypeOK, DD!Stage, DD!Answer, DD!RowsExist
<1>1. ASSUME NEW d \in DepositIds, DD!Create(d) \/ DD!CreateFailed(d) PROVE DD!IInv'
  <2>1. busy' \in BOOLEAN
    BY <1>1 DEF DD!Create, DD!CreateFailed
  <2> QED BY <1>1, <2>1 DEF DD!Create, DD!CreateFailed, DD!PolledIsShown
<1>2. ASSUME NEW d \in DepositIds, DD!Created(d) \/ DD!Advance(d) PROVE DD!IInv'
  <2>1. \E s \in DD!Stage \ {"none"} : row' = [row EXCEPT ![d] = s]
    BY <1>2 DEF DD!Created, DD!Advance
  <2>2. UNCHANGED <<creating, busy, shown, timer, answers, newest, failures>>
    BY <1>2 DEF DD!Created, DD!Advance
  <2> QED BY <2>1, <2>2 DEF DD!PolledIsShown
<1>3. ASSUME NEW d \in DepositIds, DD!Ready(d) PROVE DD!IInv'
  <2>1. DD!Row(d) \in DD!Answer /\ row[DD!Row(d).dep] # "none"
    BY <1>3 DEF DD!Ready, DD!Row
  <2>2. DD!PolledIsShown' /\ shown' \in DD!Answer /\ timer' \in DepositIds \cup {None}
    BY <1>3, <2>1, SetDepositPolls DEF DD!Ready
  <2>3. busy' \in BOOLEAN
    BY <1>3 DEF DD!Ready
  <2> QED BY <1>3, <2>1, <2>2, <2>3 DEF DD!Ready, DD!SetDeposit
<1>4. ASSUME NEW a \in answers, DD!Answered(a) PROVE DD!IInv'
  <2>1. a \in DD!Answer /\ row[a.dep] # "none"
    OBVIOUS
  <2>2. DD!PolledIsShown' /\ shown' \in DD!Answer /\ timer' \in DepositIds \cup {None}
    BY <1>4, <2>1, SetDepositPolls DEF DD!Answered
  <2> QED BY <1>4, <2>1, <2>2 DEF DD!Answered, DD!SetDeposit
<1>5. ASSUME NEW a \in answers, DD!PollFailed(a) PROVE DD!IInv'
  BY <1>5 DEF DD!PollFailed, DD!PolledIsShown
<1>6. CASE DD!Poll
  <2>1. timer \in DepositIds /\ row[timer] # "none"
    BY <1>6 DEF DD!Poll, DD!PolledIsShown
  <2>2. DD!Row(timer) \in DD!Answer /\ DD!Row(timer).dep = timer
    BY <2>1 DEF DD!Row
  <2> QED BY <1>6, <2>1, <2>2 DEF DD!Poll, DD!PolledIsShown
<1>7. CASE UNCHANGED dd
  BY <1>7 DEF dd, DD!PolledIsShown
<1> QED BY <1>1, <1>2, <1>3, <1>4, <1>5, <1>6, <1>7 DEF DD!Next

-----------------------------------------------------------------------------
(***************************************************************************)
(* The withdrawal pane of the desktop wallet.                              *)
(***************************************************************************)
(* The inductive invariant of WithdrawPane holds in the beginning. *)
LEMMA BurnPaneInit == DW!Init => DW!IInv
<1> SUFFICES ASSUME DW!Init PROVE DW!IInv
  OBVIOUS
<1>1. DW!TypeOK
  <2>1. pane \in 0 .. Opens /\ panes \in 0 .. Opens
    BY ClientConstants DEF DW!Init
  <2> QED BY <2>1 DEF DW!Init, DW!TypeOK
<1>2. DW!HandlersOfPanes /\ DW!BusyIsTheHandler /\ DW!BurnsAreUnsent /\ DW!HashesWereSent
  BY DEF DW!Init, DW!HandlersOfPanes, DW!BusyIsTheHandler, DW!BurnsAreUnsent, DW!HashesWereSent
<1>3. DW!KnownBurnsAreClaimed
  BY DEF DW!Init, DW!KnownBurnsAreClaimed
<1> QED BY <1>1, <1>2, <1>3 DEF DW!IInv

(* Every step of the pane and its handlers keeps the types. *)
LEMMA BurnPaneTypeStep == DW!TypeOK /\ [DW!Next]_dw => DW!TypeOK'
<1> SUFFICES ASSUME DW!TypeOK, [DW!Next]_dw PROVE DW!TypeOK'
  OBVIOUS
<1> USE ClientConstants DEF DW!TypeOK, DW!Handler, DW!Request
<1>1. CASE DW!Mount \/ DW!Unmount
  BY <1>1 DEF DW!Mount, DW!Unmount
<1>2. ASSUME NEW n \in NetIds, DW!ChangeNetwork(n) PROVE DW!TypeOK'
  BY <1>2 DEF DW!ChangeNetwork
<1>3. CASE DW!EditField
  BY <1>3 DEF DW!EditField
<1>4. ASSUME NEW k \in {"burn", "initiate"}, NEW s \in {"burn", "submit"}, NEW t \in TxIds,
             DW!Idle, DW!Start(k, s, t),
             UNCHANGED <<net, pane, panes, burnTx, sent, known, attempted, claims>>
      PROVE  DW!TypeOK'
  BY <1>4 DEF DW!Idle, DW!Start
<1>5. ASSUME NEW t \in TxIds, DW!ClickBurn(t) \/ DW!InitiateBurns(t) PROVE DW!TypeOK'
  BY <1>4, <1>5 DEF DW!ClickBurn, DW!InitiateBurns
<1>6. CASE DW!InitiateSubmits
  BY <1>4, <1>6 DEF DW!InitiateSubmits
<1>7. ASSUME NEW h \in handlers, DW!Burned(h) PROVE DW!TypeOK'
  BY <1>7 DEF DW!Burned, DW!Continue
<1>8. ASSUME NEW h \in handlers, DW!BurnFailed(h) PROVE DW!TypeOK'
  BY <1>8 DEF DW!BurnFailed
<1>9. ASSUME NEW h \in handlers, DW!Submitted(h) \/ DW!SubmitFailed(h) PROVE DW!TypeOK'
  BY <1>9 DEF DW!Submitted, DW!SubmitFailed, DW!Clear, DW!Body
<1>10. CASE UNCHANGED dw
  BY <1>10 DEF dw
<1> QED BY <1>1, <1>2, <1>3, <1>5, <1>6, <1>7, <1>8, <1>9, <1>10 DEF DW!Next

(* A handler of an idle pane is started: it is the pane's only one. *)
LEMMA StartedHandler ==
  ASSUME DW!IInv, DW!TypeOK',
         NEW k \in {"burn", "initiate"}, NEW s \in {"burn", "submit"}, NEW t \in TxIds,
         s = "burn" => DW!Unused(t), s = "submit" => sent[t] # None,
         DW!Idle, DW!Start(k, s, t),
         UNCHANGED <<net, pane, panes, burnTx, sent, known, attempted, claims>>
  PROVE  DW!IInv'
<1> DEFINE new == [inst |-> pane, kind |-> k, net |-> net, step |-> s, tx |-> t]
<1>1. handlers' = handlers \cup {new} /\ button' = s
  BY DEF DW!Start
<1>2. pane # 0 /\ pane \in Nat /\ panes \in Nat /\ pane <= panes /\ \A h \in handlers : h.inst # pane
  BY ClientConstants DEF DW!IInv, DW!TypeOK, DW!Handler, DW!HandlersOfPanes, DW!BusyIsTheHandler, DW!Idle
<1>3. new.inst = pane /\ new.step = s /\ new.tx = t
  OBVIOUS
<1> HIDE DEF new
<1>4. DW!HandlersOfPanes' /\ DW!BusyIsTheHandler'
  BY <1>1, <1>2, <1>3 DEF DW!IInv, DW!HandlersOfPanes, DW!BusyIsTheHandler
<1>5. DW!BurnsAreUnsent' /\ DW!HashesWereSent'
  BY <1>1, <1>3 DEF DW!IInv, DW!BurnsAreUnsent, DW!HashesWereSent, DW!Unused
<1>6. DW!KnownBurnsAreClaimed'
  BY <1>1 DEF DW!IInv, DW!KnownBurnsAreClaimed, DW!Body
<1> QED BY <1>4, <1>5, <1>6 DEF DW!IInv

(* A handler ends, and no other takes its place: its pane, if it is still open, is idle again. *)
LEMMA EndedHandler ==
  ASSUME DW!IInv, NEW h \in handlers, handlers' = handlers \ {h},
         button' = IF DW!Live(h) THEN None ELSE button, UNCHANGED <<pane, panes>>
  PROVE  DW!HandlersOfPanes' /\ DW!BusyIsTheHandler'
<1>1. DW!HandlersOfPanes'
  BY DEF DW!IInv, DW!HandlersOfPanes
<1>2. ASSUME pane # 0, ~DW!Live(h) PROVE DW!BusyIsTheHandler'
  BY <1>2 DEF DW!IInv, DW!BusyIsTheHandler, DW!Live
<1>3. ASSUME pane # 0, DW!Live(h) PROVE DW!BusyIsTheHandler'
  BY <1>3 DEF DW!IInv, DW!BusyIsTheHandler, DW!Live
<1> QED BY <1>1, <1>2, <1>3 DEF DW!BusyIsTheHandler

(* sendTransaction returned the hash: the handler goes on to the request of what it burned, *)
(* also when its pane was closed meanwhile. *)
LEMMA BurnedStep ==
  ASSUME DW!IInv, DW!TypeOK', NEW h \in handlers, DW!Burned(h)
  PROVE  DW!IInv'
<1> USE ClientConstants
<1> DEFINE next == [h EXCEPT !.step = "submit"]
<1>1. h \in DW!Handler /\ h.tx \in TxIds /\ h.net \in NetIds /\ h.net # None /\ sent[h.tx] = None
  BY DEF DW!IInv, DW!TypeOK, DW!Handler, DW!BurnsAreUnsent, DW!Burned
<1>2. next.inst = h.inst /\ next.step = "submit" /\ next.tx = h.tx /\ next.net = h.net
  BY <1>1 DEF DW!Handler
<1>3. sent'[h.tx] = h.net /\ \A t \in TxIds : t # h.tx => sent'[t] = sent[t]
  BY <1>1 DEF DW!Burned, DW!IInv, DW!TypeOK
<1>4. \A t \in TxIds : sent[t] # None => sent'[t] = sent[t]
  BY <1>1, <1>3
<1>5. \A g \in handlers : g.tx \in TxIds /\ g.step \in {"burn", "submit"}
  BY DEF DW!IInv, DW!TypeOK, DW!Handler
<1>6. /\ h.kind = "initiate" => handlers' = (handlers \ {h}) \cup {next}
      /\ h.kind # "initiate" => handlers' = handlers \ {h}
  BY DEF DW!Burned, DW!Continue
<1>7. \A g \in handlers' : g = next \/ (g \in handlers /\ g # h)
  BY <1>6
<1> HIDE DEF next
<1>8. DW!HandlersOfPanes'
  BY <1>2, <1>7 DEF DW!IInv, DW!HandlersOfPanes, DW!Burned
<1>9. DW!BusyIsTheHandler'
  <2>1. CASE h.kind # "initiate"
    BY <1>6, <2>1, EndedHandler DEF DW!Burned, DW!Continue
  <2>2. CASE h.kind = "initiate" /\ pane # 0 /\ DW!Live(h)
    <3>1. \A g \in handlers : g.inst = pane <=> g = h
      BY <2>2 DEF DW!IInv, DW!BusyIsTheHandler, DW!Live
    <3>2. button' = "submit" /\ pane' = pane
      BY <2>2 DEF DW!Burned, DW!Continue
    <3> QED BY <1>2, <1>6, <2>2, <3>1, <3>2 DEF DW!BusyIsTheHandler, DW!Live
  <2>3. CASE h.kind = "initiate" /\ pane # 0 /\ ~DW!Live(h)
    <3>1. button' = button /\ pane' = pane
      BY <2>3 DEF DW!Burned, DW!Continue
    <3>2. h.inst # pane /\ next.inst # pane
      BY <1>2, <2>3 DEF DW!Live
    <3> QED BY <1>2, <1>6, <2>3, <3>1, <3>2 DEF DW!IInv, DW!BusyIsTheHandler
  <2>4. CASE pane = 0
    BY <2>4 DEF DW!BusyIsTheHandler, DW!Burned
  <2> QED BY <2>1, <2>2, <2>3, <2>4
<1>10. DW!BurnsAreUnsent'
  <2>1. \A g \in handlers : g # h => g.tx # h.tx
    BY DEF DW!IInv, DW!BurnsAreUnsent, DW!Burned
  <2>2. \A g \in handlers' : g.step = "burn" <=> sent'[g.tx] = None
    BY <1>1, <1>2, <1>3, <1>5, <1>7, <2>1 DEF DW!IInv, DW!BurnsAreUnsent
  <2>3. \A g \in handlers', f \in handlers' : g.step = "burn" /\ f.tx = g.tx => f = g
    BY <1>2, <1>7, <2>1 DEF DW!IInv, DW!BurnsAreUnsent
  <2> QED BY <2>2, <2>3 DEF DW!BurnsAreUnsent
<1>11. DW!HashesWereSent'
  <2>1. \A k \in known : k[1] \in TxIds
    BY DEF DW!IInv, DW!TypeOK
  <2>2. known' = known \cup {<<h.tx, h.kind>>} /\ burnTx' \in {h.tx, burnTx}
    BY DEF DW!Burned
  <2> QED BY <1>1, <1>3, <1>4, <2>1, <2>2 DEF DW!IInv, DW!HashesWereSent, DW!TypeOK
<1>12. DW!KnownBurnsAreClaimed'
  <2> SUFFICES ASSUME NEW k \in known', k[2] = "initiate"
               PROVE  LET claim == [tx |-> k[1], network |-> sent'[k[1]]]
                      IN  \/ claim \in attempted
                          \/ \E g \in handlers' : g.step = "submit" /\ DW!Body(g) = claim
    BY DEF DW!KnownBurnsAreClaimed, DW!Burned, DW!Body
  <2>1. CASE k \in known
    <3>1. sent'[k[1]] = sent[k[1]]
      BY <1>4, <2>1 DEF DW!IInv, DW!HashesWereSent, DW!TypeOK
    <3>2. \A g \in handlers : g.step = "submit" => g \in handlers'
      BY <1>6 DEF DW!Burned
    <3> QED BY <2>1, <3>1, <3>2 DEF DW!IInv, DW!KnownBurnsAreClaimed
  <2>2. CASE k = <<h.tx, h.kind>>
    <3>1. next \in handlers'
      BY <1>6, <2>2
    <3> QED BY <1>2, <1>3, <2>2, <3>1 DEF DW!Body
  <2> QED BY <2>1, <2>2 DEF DW!Burned
<1> QED BY <1>8, <1>9, <1>10, <1>11, <1>12 DEF DW!IInv

(* A burn that fails, perhaps after the transaction went out, leaves no handler behind. *)
LEMMA BurnFailedStep ==
  ASSUME DW!IInv, DW!TypeOK', NEW h \in handlers, DW!BurnFailed(h)
  PROVE  DW!IInv'
<1> USE ClientConstants
<1>1. h.tx \in TxIds /\ h.net \in NetIds /\ h.net # None /\ sent[h.tx] = None
  BY DEF DW!IInv, DW!TypeOK, DW!Handler, DW!BurnsAreUnsent, DW!BurnFailed
<1>2. \A t \in TxIds : t # h.tx => sent'[t] = sent[t]
  BY <1>1 DEF DW!BurnFailed, DW!IInv, DW!TypeOK
<1>3. \A t \in TxIds : sent[t] # None => sent'[t] = sent[t]
  BY <1>1, <1>2
<1>4. handlers' = handlers \ {h} /\ \A g \in handlers : g.tx \in TxIds
  BY DEF DW!BurnFailed, DW!IInv, DW!TypeOK, DW!Handler
<1>5. DW!HandlersOfPanes' /\ DW!BusyIsTheHandler'
  BY EndedHandler DEF DW!BurnFailed
<1>6. DW!BurnsAreUnsent'
  <2>1. \A g \in handlers : g # h => g.tx # h.tx
    BY DEF DW!IInv, DW!BurnsAreUnsent, DW!BurnFailed
  <2> QED BY <1>2, <1>4, <2>1 DEF DW!IInv, DW!BurnsAreUnsent
<1>7. \A k \in known : k[1] \in TxIds /\ sent[k[1]] # None /\ sent'[k[1]] = sent[k[1]]
  BY <1>3 DEF DW!IInv, DW!TypeOK, DW!HashesWereSent
<1>8. DW!HashesWereSent'
  BY <1>3, <1>7 DEF DW!IInv, DW!HashesWereSent, DW!BurnFailed, DW!TypeOK
<1>9. DW!KnownBurnsAreClaimed'
  <2>1. \A g \in handlers : g.step = "submit" => g \in handlers'
    BY <1>4 DEF DW!BurnFailed
  <2>2. known' = known /\ attempted' = attempted
    BY DEF DW!BurnFailed
  <2> SUFFICES ASSUME NEW k \in known, k[2] = "initiate", NEW c, c = [tx |-> k[1], network |-> sent[k[1]]]
               PROVE  c \in attempted \/ \E g \in handlers' : g.step = "submit" /\ DW!Body(g) = c
    BY <1>7, <2>2 DEF DW!KnownBurnsAreClaimed, DW!Body
  <2>3. c \in attempted \/ \E g \in handlers : g.step = "submit" /\ DW!Body(g) = c
    BY DEF DW!IInv, DW!KnownBurnsAreClaimed
  <2> QED BY <2>1, <2>3
<1> QED BY <1>5, <1>6, <1>8, <1>9 DEF DW!IInv

(* A request that is answered or fails was posted: its burn stays claimed. *)
LEMMA RequestStep ==
  ASSUME DW!IInv, DW!TypeOK', NEW h \in handlers, DW!Submitted(h) \/ DW!SubmitFailed(h)
  PROVE  DW!IInv'
<1>1. /\ handlers' = handlers \ {h} /\ UNCHANGED <<pane, panes, sent, known>>
      /\ attempted' = attempted \cup {DW!Body(h)}
      /\ button' = IF DW!Live(h) THEN None ELSE button
      /\ burnTx' \in {None, burnTx}
  BY DEF DW!Submitted, DW!SubmitFailed, DW!Clear
<1>2. DW!HandlersOfPanes' /\ DW!BusyIsTheHandler'
  BY <1>1, EndedHandler
<1>3. DW!BurnsAreUnsent' /\ DW!HashesWereSent'
  BY <1>1 DEF DW!IInv, DW!BurnsAreUnsent, DW!HashesWereSent
<1>4. DW!KnownBurnsAreClaimed'
  <2> SUFFICES ASSUME NEW k \in known, k[2] = "initiate"
               PROVE  LET claim == [tx |-> k[1], network |-> sent[k[1]]]
                      IN  \/ claim \in attempted'
                          \/ \E g \in handlers' : g.step = "submit" /\ DW!Body(g) = claim
    BY <1>1 DEF DW!KnownBurnsAreClaimed, DW!Body
  <2> QED BY <1>1 DEF DW!IInv, DW!KnownBurnsAreClaimed
<1> QED BY <1>2, <1>3, <1>4 DEF DW!IInv

(* Every step keeps the invariant of WithdrawPane: a pane that is opened has no handler, since *)
(* the waiting ones belong to panes before it. *)
LEMMA BurnPaneStep == DW!IInv /\ [DW!Next]_dw => DW!IInv'
<1> SUFFICES ASSUME DW!IInv, [DW!Next]_dw PROVE DW!IInv'
  OBVIOUS
<1>0. DW!TypeOK /\ DW!TypeOK'
  BY BurnPaneTypeStep DEF DW!IInv
<1>1. CASE DW!Mount
  <2>1. panes' = panes + 1 /\ pane' = panes + 1 /\ panes \in Nat
    BY <1>0, <1>1, ClientConstants DEF DW!Mount, DW!TypeOK
  <2>2. \A h \in handlers : h.inst \in Nat /\ h.inst <= panes
    BY <1>0, ClientConstants DEF DW!IInv, DW!HandlersOfPanes, DW!TypeOK, DW!Handler
  <2>3. DW!HandlersOfPanes' /\ DW!BusyIsTheHandler'
    BY <1>1, <2>1, <2>2 DEF DW!Mount, DW!HandlersOfPanes, DW!BusyIsTheHandler
  <2> QED BY <1>0, <1>1, <2>3 DEF DW!IInv, DW!Mount, DW!BurnsAreUnsent, DW!HashesWereSent,
             DW!KnownBurnsAreClaimed, DW!Body
<1>2. ASSUME pane' = 0, UNCHANGED <<panes, burnTx, handlers, sent, known, attempted>> PROVE DW!IInv'
  <2>1. DW!HandlersOfPanes'
    BY <1>0, <1>2, ClientConstants DEF DW!IInv, DW!HandlersOfPanes, DW!TypeOK
  <2> QED BY <1>0, <1>2, <2>1 DEF DW!IInv, DW!BusyIsTheHandler, DW!BurnsAreUnsent, DW!HashesWereSent,
             DW!KnownBurnsAreClaimed, DW!Body
<1>3. ASSUME NEW n \in NetIds, DW!Unmount \/ DW!ChangeNetwork(n) PROVE DW!IInv'
  BY <1>2, <1>3 DEF DW!Unmount, DW!ChangeNetwork
<1>4. CASE DW!Unmount
  BY <1>2, <1>4 DEF DW!Unmount
<1>5. CASE DW!EditField
  BY <1>0, <1>5 DEF DW!IInv, DW!EditField, DW!HandlersOfPanes, DW!BusyIsTheHandler, DW!BurnsAreUnsent,
     DW!HashesWereSent, DW!KnownBurnsAreClaimed, DW!Body
<1>6. ASSUME NEW t \in TxIds, DW!ClickBurn(t) \/ DW!InitiateBurns(t) PROVE DW!IInv'
  BY <1>0, <1>6, StartedHandler DEF DW!ClickBurn, DW!InitiateBurns
<1>7. CASE DW!InitiateSubmits
  <2>1. burnTx \in TxIds /\ sent[burnTx] # None
    BY <1>0, <1>7 DEF DW!IInv, DW!InitiateSubmits, DW!HashesWereSent, DW!TypeOK
  <2>2. PICK t \in TxIds : t = burnTx
    BY <2>1
  <2> QED BY <1>0, <1>7, <2>1, <2>2, StartedHandler DEF DW!InitiateSubmits
<1>8. ASSUME NEW h \in handlers, DW!Burned(h) \/ DW!BurnFailed(h) PROVE DW!IInv'
  BY <1>0, <1>8, BurnedStep, BurnFailedStep
<1>9. ASSUME NEW h \in handlers, DW!Submitted(h) \/ DW!SubmitFailed(h) PROVE DW!IInv'
  BY <1>0, <1>9, RequestStep
<1>10. CASE UNCHANGED dw
  BY <1>0, <1>10 DEF dw, DW!IInv, DW!HandlersOfPanes, DW!BusyIsTheHandler, DW!BurnsAreUnsent,
     DW!HashesWereSent, DW!KnownBurnsAreClaimed, DW!Body
<1> QED BY <1>1, <1>3, <1>4, <1>5, <1>6, <1>7, <1>8, <1>9, <1>10 DEF DW!Next

-----------------------------------------------------------------------------
(***************************************************************************)
(* The theorems.                                                           *)
(***************************************************************************)
FormsInv ==
  /\ part = "WD" => WD!IInv
  /\ part = "WW" => WW!IInv

(* The inductive invariants of both forms of BridgeWidget.astro hold in every reachable state. *)
THEOREM FormsInvariance == Spec => []FormsInv
<1>1. Init => FormsInv
  BY FormInit, BurnFormInit DEF Init, FormsInv
<1>2. FormsInv /\ [Next]_vars => FormsInv'
  BY StepOfPart, FormStep, BurnFormStep DEF FormsInv
<1> QED BY <1>1, <1>2, PTL DEF Spec

(* However calls and answers of BridgeWidget.astro interleave, at most one interval polls, one *)
(* does while the page says it waits, and the burn button is disabled only during a burn.       *)
THEOREM FormsKeepTrackHolds == Spec => []FormsKeepTrack
<1>1. FormsInv => FormsKeepTrack
  BY DEF FormsInv, FormsKeepTrack, WD!IInv, WW!IInv
<1> QED BY <1>1, FormsInvariance, PTL

PanesInv ==
  /\ part = "DD" => DD!IInv
  /\ part = "DW" => DW!IInv

(* The inductive invariants of DepositPane and WithdrawPane hold in every reachable state. *)
THEOREM PanesInvariance == Spec => []PanesInv
<1>1. Init => PanesInv
  BY PaneInit, BurnPaneInit DEF Init, PanesInv
<1>2. PanesInv /\ [Next]_vars => PanesInv'
  BY StepOfPart, PaneStep, BurnPaneStep DEF PanesInv
<1> QED BY <1>1, <1>2, PTL DEF Spec

(* However answers of the desktop wallet interleave and whenever its panes are closed, opened   *)
(* and the network is changed: DepositPane polls what it shows, `busy' is the step of the one   *)
(* handler of the open WithdrawPane, and what `Initiate Withdrawal' burned is claimed where it  *)
(* was burned. *)
THEOREM PanesKeepTrackHolds == Spec => []PanesKeepTrack
<1>1. PanesInv => PanesKeepTrack
  BY DEF PanesInv, PanesKeepTrack, DD!IInv, DW!IInv
<1> QED BY <1>1, PanesInvariance, PTL

-----------------------------------------------------------------------------
(* What the assumptions say of the constants of the store and the console. *)
LEMMA WalletConstants ==
  /\ Opens \in Nat /\ LogBound \in Nat /\ LogSize \in Nat /\ LogSize > 0
  /\ None \notin DS!Settings /\ Garbage \notin DS!Settings
BY AppsAssumption

-----------------------------------------------------------------------------
(***************************************************************************)
(* The poller.                                                             *)
(***************************************************************************)
(* The inductive invariant of usePoller holds in the beginning. *)
LEMMA PollerInit == PO!Init => PO!IInv
<1> SUFFICES ASSUME PO!Init PROVE PO!IInv
  OBVIOUS
<1>1. inst \in 0 .. Opens /\ mounts \in 0 .. Opens /\ inst <= mounts /\ inst = 0 /\ calls = {}
  BY WalletConstants DEF PO!Init
<1>2. running \in BOOLEAN
  BY DEF PO!Init
<1>3. PO!TypeOK
  BY <1>1, <1>2 DEF PO!Init, PO!TypeOK
<1> QED BY <1>1, <1>3 DEF PO!IInv, PO!CallsOfMounts, PO!NoOverlap, PO!LiveCallsAreCurrent,
           PO!ShownIsForSelected, PO!RunsImmediately

(* Every step of the tabs and the calls keeps the types. *)
LEMMA PollerTypeStep == PO!TypeOK /\ [PO!Next]_po => PO!TypeOK'
<1> SUFFICES ASSUME PO!TypeOK, [PO!Next]_po PROVE PO!TypeOK'
  OBVIOUS
<1> USE WalletConstants DEF PO!TypeOK, PO!Call, PO!Step
<1>0. running' \in BOOLEAN
  BY DEF PO!Next, PO!Mount, PO!Unmount, PO!Interval, PO!Tick, PO!CallEnds, PO!Stats, PO!Balance,
     PO!Bridge, PO!Release, PO!ChangeDeps, po
<1>1. CASE PO!Mount
  BY <1>0, <1>1 DEF PO!Mount
<1>2. CASE PO!Unmount
  BY <1>0, <1>2 DEF PO!Unmount, PO!shown
<1>3. CASE PO!Interval
  BY <1>0, <1>3 DEF PO!Interval, PO!Tick, PO!shown
<1>4. ASSUME NEW c \in calls, PO!Stats(c) PROVE PO!TypeOK'
  BY <1>0, <1>4 DEF PO!Stats, PO!SetStats, PO!Goto
<1>5. ASSUME NEW c \in calls, PO!Balance(c) PROVE PO!TypeOK'
  BY <1>0, <1>5 DEF PO!Balance, PO!SetBalance, PO!Goto
<1>6. ASSUME NEW c \in calls, NEW good \in BOOLEAN, PO!Bridge(c, good) PROVE PO!TypeOK'
  BY <1>0, <1>6 DEF PO!Bridge
<1>7. ASSUME NEW d \in Endpoints, PO!ChangeDeps(d) PROVE PO!TypeOK'
  BY <1>0, <1>7 DEF PO!ChangeDeps, PO!shown
<1>8. CASE UNCHANGED po
  BY <1>0, <1>8 DEF po
<1> QED BY <1>1, <1>2, <1>3, <1>4, <1>5, <1>6, <1>7, <1>8 DEF PO!Next, PO!CallEnds

(* A call that goes on to its next await stays the only one of its component. *)
LEMMA CallGoesOn ==
  ASSUME PO!IInv, NEW c \in calls, NEW s \in PO!Step, PO!Goto(c, s),
         UNCHANGED <<inst, mounts, dep, running>>
  PROVE  PO!CallsOfMounts' /\ PO!NoOverlap' /\ PO!LiveCallsAreCurrent'
<1> DEFINE next == [c EXCEPT !.step = s]
<1>1. next.inst = c.inst /\ next.dep = c.dep
  BY DEF PO!IInv, PO!TypeOK, PO!Call
<1>2. calls' = (calls \ {c}) \cup {next}
  BY DEF PO!Goto
<1> HIDE DEF next
<1>3. PO!CallsOfMounts' /\ PO!LiveCallsAreCurrent'
  BY <1>1, <1>2 DEF PO!IInv, PO!CallsOfMounts, PO!LiveCallsAreCurrent
<1>4. CASE inst # 0 /\ running
  <2>1. PICK e \in calls : \A d \in calls : d.inst = inst <=> d = e
    BY <1>4 DEF PO!IInv, PO!NoOverlap
  <2>2. \E e2 \in calls' : \A d \in calls' : d.inst = inst <=> d = e2
    <3>1. CASE e = c
      BY <1>1, <1>2, <2>1, <3>1
    <3>2. CASE e # c
      BY <1>1, <1>2, <2>1, <3>2
    <3> QED BY <3>1, <3>2
  <2> QED BY <1>3, <1>4, <2>2 DEF PO!NoOverlap
<1>5. CASE inst # 0 /\ ~running
  <2>1. \A d \in calls' : d.inst # inst
    BY <1>1, <1>2, <1>5 DEF PO!IInv, PO!NoOverlap
  <2> QED BY <1>3, <1>5, <2>1 DEF PO!NoOverlap
<1>6. CASE inst = 0
  BY <1>3, <1>6 DEF PO!NoOverlap
<1> QED BY <1>3, <1>4, <1>5, <1>6

(* Every step keeps the invariant of usePoller: a tab that is opened finds no call of its own,  *)
(* the endpoint changes only while the tab is closed, and setState of a closed tab does nothing. *)
LEMMA PollerStep == PO!IInv /\ [PO!Next]_po => PO!IInv'
<1> SUFFICES ASSUME PO!IInv, [PO!Next]_po PROVE PO!IInv'
  OBVIOUS
<1>0. PO!TypeOK /\ PO!TypeOK'
  BY PollerTypeStep DEF PO!IInv
<1>a. inst \in Nat /\ mounts \in Nat /\ \A c \in calls : c.inst \in Nat /\ c.inst # 0
  BY <1>0, WalletConstants DEF PO!TypeOK, PO!Call
<1>1. CASE PO!Mount
  <2> DEFINE new == [inst |-> mounts + 1, dep |-> dep, step |-> "stats"]
  <2>1. /\ mounts' = mounts + 1 /\ inst' = mounts + 1 /\ running' = TRUE /\ calls' = calls \cup {new}
        /\ stats' = None /\ balance' = None /\ bridge' = None /\ started' = dep /\ dep' = dep
    BY <1>1 DEF PO!Mount
  <2>2. new.inst = mounts + 1 /\ new.dep = dep
    OBVIOUS
  <2> HIDE DEF new
  <2>3. \A c \in calls : c.inst <= mounts /\ c.inst # mounts + 1
    BY <1>a DEF PO!IInv, PO!CallsOfMounts
  <2>4. PO!CallsOfMounts' /\ PO!LiveCallsAreCurrent'
    BY <1>a, <2>1, <2>2, <2>3 DEF PO!CallsOfMounts, PO!LiveCallsAreCurrent
  <2>5. PO!NoOverlap'
    BY <2>1, <2>2, <2>3 DEF PO!NoOverlap
  <2> QED BY <1>0, <2>1, <2>4, <2>5 DEF PO!IInv, PO!ShownIsForSelected, PO!RunsImmediately
<1>2. ASSUME inst' = 0, UNCHANGED <<mounts, running, calls>> PROVE PO!IInv'
  BY <1>0, <1>a, <1>2 DEF PO!IInv, PO!CallsOfMounts, PO!NoOverlap, PO!LiveCallsAreCurrent,
     PO!ShownIsForSelected, PO!RunsImmediately
<1>3. CASE PO!Unmount
  BY <1>2, <1>3 DEF PO!Unmount
<1>4. ASSUME NEW d \in Endpoints, PO!ChangeDeps(d) PROVE PO!IInv'
  BY <1>2, <1>4 DEF PO!ChangeDeps
<1>5. CASE PO!Interval /\ running
  BY <1>0, <1>5 DEF PO!IInv, PO!Interval, PO!Tick, PO!shown, PO!CallsOfMounts, PO!NoOverlap,
     PO!LiveCallsAreCurrent, PO!ShownIsForSelected, PO!RunsImmediately
<1>6. CASE PO!Interval /\ ~running
  <2> DEFINE new == [inst |-> inst, dep |-> dep, step |-> "stats"]
  <2>1. /\ inst # 0 /\ running' = TRUE /\ calls' = calls \cup {new} /\ started' = dep
        /\ UNCHANGED <<inst, mounts, dep, stats, balance, bridge>>
    BY <1>6 DEF PO!Interval, PO!Tick, PO!shown
  <2>2. new.inst = inst /\ new.dep = dep
    OBVIOUS
  <2> HIDE DEF new
  <2>3. \A c \in calls : c.inst # inst
    BY <1>6, <2>1 DEF PO!IInv, PO!NoOverlap
  <2>4. PO!NoOverlap'
    BY <2>1, <2>2, <2>3 DEF PO!NoOverlap
  <2>5. PO!CallsOfMounts' /\ PO!LiveCallsAreCurrent'
    BY <1>a, <2>1, <2>2 DEF PO!IInv, PO!CallsOfMounts, PO!LiveCallsAreCurrent
  <2> QED BY <1>0, <2>1, <2>4, <2>5 DEF PO!IInv, PO!ShownIsForSelected, PO!RunsImmediately
<1>7. ASSUME NEW c \in calls, PO!Stats(c) \/ PO!Balance(c) PROVE PO!IInv'
  <2>1. PO!CallsOfMounts' /\ PO!NoOverlap' /\ PO!LiveCallsAreCurrent'
    BY <1>7, CallGoesOn DEF PO!Stats, PO!Balance, PO!Step
  <2>2. PO!ShownIsForSelected'
    BY <1>7 DEF PO!IInv, PO!Stats, PO!SetStats, PO!Balance, PO!SetBalance, PO!Live,
       PO!LiveCallsAreCurrent, PO!ShownIsForSelected
  <2>3. PO!RunsImmediately'
    BY <1>7 DEF PO!IInv, PO!Stats, PO!Balance, PO!RunsImmediately
  <2> QED BY <1>0, <2>1, <2>2, <2>3 DEF PO!IInv
<1>8. ASSUME NEW c \in calls, NEW good \in BOOLEAN, PO!Bridge(c, good) PROVE PO!IInv'
  <2>1. calls' = calls \ {c} /\ UNCHANGED <<inst, mounts, dep, started, stats, balance>>
    BY <1>8 DEF PO!Bridge
  <2>2. PO!CallsOfMounts' /\ PO!LiveCallsAreCurrent' /\ PO!RunsImmediately'
    BY <2>1 DEF PO!IInv, PO!CallsOfMounts, PO!LiveCallsAreCurrent, PO!RunsImmediately
  <2>3. PO!ShownIsForSelected'
    BY <1>8, <2>1 DEF PO!IInv, PO!Bridge, PO!Live, PO!LiveCallsAreCurrent, PO!ShownIsForSelected
  <2>4. CASE inst # 0 /\ PO!Live(c)
    <3>1. running' = FALSE
      BY <1>8, <2>4 DEF PO!Bridge, PO!Release
    <3>2. \A d \in calls' : d.inst # inst
      BY <2>1, <2>4 DEF PO!IInv, PO!NoOverlap, PO!Live
    <3>3. PO!NoOverlap'
      BY <2>1, <3>1, <3>2 DEF PO!NoOverlap
    <3> QED BY <1>0, <2>2, <2>3, <3>3 DEF PO!IInv
  <2>5. CASE inst # 0 /\ ~PO!Live(c)
    <3>1. running' = running
      BY <1>8, <2>5 DEF PO!Bridge, PO!Release
    <3>2. PO!NoOverlap'
      BY <2>1, <2>5, <3>1 DEF PO!IInv, PO!NoOverlap, PO!Live
    <3> QED BY <1>0, <2>2, <2>3, <3>2 DEF PO!IInv
  <2>6. CASE inst = 0
    BY <1>0, <2>1, <2>2, <2>3, <2>6 DEF PO!IInv, PO!NoOverlap
  <2> QED BY <2>4, <2>5, <2>6
<1>9. CASE UNCHANGED po
  BY <1>0, <1>9 DEF po, PO!IInv, PO!CallsOfMounts, PO!NoOverlap, PO!LiveCallsAreCurrent,
     PO!ShownIsForSelected, PO!RunsImmediately
<1> QED BY <1>1, <1>3, <1>4, <1>5, <1>6, <1>7, <1>8, <1>9 DEF PO!Next, PO!CallEnds

-----------------------------------------------------------------------------
(***************************************************************************)
(* The store.                                                              *)
(***************************************************************************)
(* load gives settings whatever was stored, by this release or another. *)
LEMMA LoadGivesSettings ==
  ASSUME NEW raw \in {None, Garbage} \cup DS!Raw
  PROVE  DS!Load(raw) \in DS!Settings
<1>1. CASE raw \in {None, Garbage}
  BY <1>1 DEF DS!Load, DS!Defaults, DS!Settings, DS!Url
<1>2. CASE raw \in DS!Raw /\ raw \notin {None, Garbage}
  BY <1>2 DEF DS!Load, DS!Raw, DS!Settings, DS!Url
<1> QED BY <1>1, <1>2

(* Settings that were written are found by load; only an API URL left empty comes back as the *)
(* default. *)
LEMMA LoadOfWritten ==
  ASSUME NEW s \in DS!Settings
  PROVE  DS!Load(s) = [s EXCEPT !.api = IF @ = "empty" THEN "default" ELSE @]
BY WalletConstants DEF DS!Load, DS!Settings, DS!Url

(* The inductive invariant of the store holds in the beginning. *)
LEMMA StoreInit == DS!Init => DS!IInv
<1> SUFFICES ASSUME DS!Init PROVE DS!IInv
  OBVIOUS
<1>1. settings \in DS!Settings
  BY LoadGivesSettings DEF DS!Init
<1>2. confirm \in BOOLEAN
  BY DEF DS!Init
<1> QED BY <1>1, <1>2 DEF DS!Init, DS!IInv, DS!TypeOK, DS!Tabs, DS!ShownAddressIsTheKey

(* Every step of the tabs, the storage and a restart keeps the invariant of the store: a tab *)
(* that is opened reads the key, and the key changes only in tabs that read it back or show none. *)
LEMMA StoreStep == DS!IInv /\ [DS!Next]_ds => DS!IInv'
<1> SUFFICES ASSUME DS!IInv, [DS!Next]_ds PROVE DS!IInv'
  OBVIOUS
<1> USE DEF DS!IInv, DS!TypeOK, DS!Tabs, DS!ShownAddressIsTheKey
<1>0. DS!Settings \subseteq DS!Raw
  BY DEF DS!Settings, DS!Raw, DS!Url
<1>1. ASSUME settings' \in DS!Settings, DS!Persist, UNCHANGED <<key, tab, DS!ui, sentFrom>>
      PROVE  DS!IInv'
  BY <1>0, <1>1 DEF DS!Persist, DS!ui
<1>2. ASSUME NEW n \in {"mainnet", "testnet", "signet"}, DS!SelectNetwork(n) PROVE DS!IInv'
  <2>1. settings' \in DS!Settings
    BY <1>2 DEF DS!SelectNetwork, DS!Settings
  <2> QED BY <1>1, <1>2, <2>1 DEF DS!SelectNetwork
<1>3. CASE DS!EditSettings
  <2>1. settings' \in DS!Settings
    BY <1>3 DEF DS!EditSettings, DS!Settings
  <2> QED BY <1>1, <1>3, <2>1 DEF DS!EditSettings
<1>4. CASE DS!Restart
  <2>1. settings' \in DS!Settings
    BY <1>4, LoadGivesSettings DEF DS!Restart
  <2>2. confirm' \in BOOLEAN
    BY <1>4 DEF DS!Restart
  <2> QED BY <1>4, <2>1, <2>2 DEF DS!Restart
<1>5. ASSUME NEW t \in DS!Tabs, DS!OpenTab(t) PROVE DS!IInv'
  <2>1. confirm' \in BOOLEAN
    BY <1>5 DEF DS!OpenTab, DS!MountTab
  <2> QED BY <1>5, <2>1 DEF DS!OpenTab, DS!MountTab
<1>6. ASSUME NEW k \in KeyIds, DS!StoreWallet(k) PROVE DS!IInv'
  BY <1>6 DEF DS!StoreWallet
<1>7. CASE DS!Forget \/ DS!Send
  BY <1>7 DEF DS!Forget, DS!Send, DS!ui
<1>8. CASE DS!Reveal \/ DS!AskDelete \/ DS!CancelDelete
  <2>1. confirm' \in BOOLEAN
    BY <1>8 DEF DS!Reveal, DS!AskDelete, DS!CancelDelete
  <2> QED BY <1>8, <2>1 DEF DS!Reveal, DS!AskDelete, DS!CancelDelete
<1>9. CASE DS!ConfirmDelete
  <2>1. confirm' \in BOOLEAN
    BY <1>9 DEF DS!ConfirmDelete
  <2> QED BY <1>9, <2>1 DEF DS!ConfirmDelete, DS!Hide
<1>10. CASE UNCHANGED ds
  BY <1>10 DEF ds
<1> QED BY <1>2, <1>3, <1>4, <1>5, <1>6, <1>7, <1>8, <1>9, <1>10 DEF DS!Next

-----------------------------------------------------------------------------
(***************************************************************************)
(* The console.                                                            *)
(***************************************************************************)
(* What is left of a sequence from a place on, with one more element. *)
LEMMA DropAndAdd ==
  ASSUME NEW S, NEW e \in Seq(S), NEW a \in Nat, 1 <= a, a <= Len(e) + 1, NEW x \in S, NEW r,
         r = SubSeq(e, a, Len(e)) \o <<x>>
  PROVE  /\ r \in Seq(S) /\ Len(r) = Len(e) - a + 2
         /\ \A i \in 1 .. Len(e) - a + 1 : r[i] = e[a + i - 1]
         /\ r[Len(r)] = x
<1> DEFINE s == SubSeq(e, a, Len(e))
<1>0. Len(e) \in Nat
  BY LenProperties
<1>1. \A i \in a .. Len(e) : e[i] \in S
  BY <1>0, ElementOfSeq
<1>2. /\ s \in Seq(S) /\ Len(s) = Len(e) - a + 1
      /\ \A i \in 1 .. Len(e) - a + 1 : s[i] = e[a + i - 1]
  BY <1>0, <1>1, SubSeqProperties
<1>3. r = s \o <<x>> /\ <<x>> \in Seq(S) /\ Len(<<x>>) = 1 /\ <<x>>[1] = x
  OBVIOUS
<1> HIDE DEF s
<1>4. /\ r \in Seq(S) /\ Len(r) = Len(s) + 1
      /\ \A i \in 1 .. Len(s) + 1 : r[i] = IF i <= Len(s) THEN s[i] ELSE <<x>>[i - Len(s)]
  BY <1>2, <1>3, ConcatProperties
<1>5. Len(s) \in Nat
  BY <1>2, LenProperties
<1>6. ASSUME NEW i \in 1 .. Len(e) - a + 1 PROVE r[i] = e[a + i - 1]
  <2>1. i \in 1 .. Len(s) + 1 /\ i <= Len(s)
    BY <1>0, <1>2, <1>5
  <2>2. r[i] = s[i]
    BY <1>4, <2>1
  <2> QED BY <1>2, <2>2
<1>7. r[Len(s) + 1] = x
  <2>1. PICK m \in Nat : m = Len(s)
    BY <1>5
  <2>2. PICK k \in 1 .. m + 1 : k = m + 1 /\ ~(k <= m) /\ k - m = 1
    OBVIOUS
  <2>3. \A i \in 1 .. m + 1 : r[i] = IF i <= m THEN s[i] ELSE <<x>>[i - m]
    BY <1>4, <2>1
  <2>4. r[k] = IF k <= m THEN s[k] ELSE <<x>>[k - m]
    BY <2>2, <2>3
  <2>5. r[k] = <<x>>[1]
    BY <2>2, <2>4
  <2> QED BY <1>3, <2>1, <2>2, <2>5
<1>8. Len(s) + 1 = Len(e) - a + 2
  BY <1>0, <1>2
<1> QED BY <1>4, <1>6, <1>7, <1>8

(* How many messages of n a log of M entries shows, and from which one on it keeps them when *)
(* there is one more. *)
LEMMA KeptCounts ==
  ASSUME NEW M \in Nat, M > 0, NEW n \in Nat
  PROVE  LET k  == IF n < M THEN n ELSE M
             a  == IF k > M - 1 THEN k - M + 2 ELSE 1
             k2 == IF n + 1 < M THEN n + 1 ELSE M
         IN  k \in Nat /\ a \in Nat /\ 1 <= a /\ a <= k + 1 /\ k2 = k - a + 2 /\ k2 \in Nat
<1>1. CASE n < M
  BY <1>1
<1>2. CASE ~(n < M)
  BY <1>2
<1> QED BY <1>1, <1>2

(* log() appends the next message and drops the oldest one of a full log. *)
LEMMA LogKeeps ==
  ASSUME NEW d \in DC!Console, DC!Newest(d), d.kept <= d.logs, d.logs < LogBound
  PROVE  DC!Log(d) \in DC!Console /\ DC!Newest(DC!Log(d))
<1> DEFINE e == d.entries
<1>0. /\ e \in Seq(1 .. LogBound) /\ d.logs \in Nat /\ d.kept \in Nat /\ d.kept <= d.logs
      /\ LogSize \in Nat /\ LogSize > 0 /\ LogBound \in Nat /\ d.logs + 1 \in 1 .. LogBound
  BY WalletConstants DEF DC!Console
<1>a. PICK n \in Nat : n = d.logs - d.kept /\ n + 1 = d.logs + 1 - d.kept
  <2>1. PICK l \in Nat, k \in Nat : l = d.logs /\ k = d.kept /\ k <= l
    BY <1>0
  <2>2. l - k \in Nat /\ (l - k) + 1 = l + 1 - k
    BY <2>1
  <2> QED BY <2>1, <2>2
<1>b. PICK k \in Nat, a \in Nat, k2 \in Nat :
        /\ k = DC!Kept(n) /\ a = (IF k > LogSize - 1 THEN k - LogSize + 2 ELSE 1) /\ k2 = DC!Kept(n + 1)
        /\ 1 <= a /\ a <= k + 1 /\ k2 = k - a + 2
  <2>1. LogSize \in Nat /\ LogSize > 0
    BY <1>0
  <2> QED BY <2>1, KeptCounts DEF DC!Kept
<1>1. k = DC!Kept(d.logs - d.kept) /\ k2 = DC!Kept(d.logs + 1 - d.kept)
  BY <1>a, <1>b
<1>2. e = [i \in 1 .. k |-> d.logs - k + i]
  BY <1>1 DEF DC!Newest
<1>3. Len(e) = k /\ \A i \in 1 .. k : e[i] = d.logs - k + i
  BY <1>0, <1>2
<1>4. a = IF k > LogSize - 1 THEN k - LogSize + 2 ELSE 1
  BY <1>b
<1>6. 1 <= a /\ a <= k + 1 /\ k2 = k - a + 2
  BY <1>b
<1>7. PICK r : r = SubSeq(e, a, Len(e)) \o <<d.logs + 1>>
  OBVIOUS
<1>8. /\ r \in Seq(1 .. LogBound) /\ Len(r) = k - a + 2
      /\ \A i \in 1 .. k - a + 1 : r[i] = e[a + i - 1]
      /\ r[k - a + 2] = d.logs + 1
  <2>1. 1 <= a /\ a <= Len(e) + 1
    BY <1>3, <1>6
  <2>2. PICK S : S = 1 .. LogBound
    OBVIOUS
  <2>3. PICK q \in Seq(S), x \in S : q = e /\ x = d.logs + 1
    BY <1>0, <2>2
  <2>4. r = SubSeq(q, a, Len(q)) \o <<x>> /\ 1 <= a /\ a <= Len(q) + 1
    BY <1>7, <2>1, <2>3
  <2>5. r \in Seq(S) /\ Len(r) = Len(q) - a + 2
    BY <2>4, DropAndAdd
  <2>6. \A i \in 1 .. Len(q) - a + 1 : r[i] = q[a + i - 1]
    BY <2>4, DropAndAdd
  <2>7. r[Len(r)] = x
    BY <2>4, DropAndAdd
  <2> QED BY <1>3, <2>2, <2>3, <2>5, <2>6, <2>7
<1>9. DC!Log(d) = [d EXCEPT !.logs = d.logs + 1, !.entries = r]
  BY <1>3, <1>4, <1>7 DEF DC!Log, DC!Console
<1>10. /\ DC!Log(d) \in DC!Console /\ DC!Log(d).entries = r
       /\ DC!Log(d).logs = d.logs + 1 /\ DC!Log(d).kept = d.kept
  <2>1. d.logs + 1 \in 0 .. LogBound
    BY <1>0
  <2> QED BY <1>8, <1>9, <2>1 DEF DC!Console
<1>11. \A i \in 1 .. k2 : r[i] = d.logs + 1 - k2 + i
  <2> SUFFICES ASSUME NEW i \in 1 .. k2 PROVE r[i] = d.logs + 1 - k2 + i
    OBVIOUS
  <2>1. CASE i <= k - a + 1
    <3>1. a + i - 1 \in 1 .. k /\ r[i] = e[a + i - 1]
      BY <1>6, <1>8, <2>1
    <3> HIDE DEF e
    <3>2. e[a + i - 1] = d.logs - k + (a + i - 1)
      BY <1>3, <3>1
    <3> QED BY <1>0, <1>6, <3>1, <3>2
  <2>2. CASE i = k - a + 2
    BY <1>0, <1>6, <1>8, <2>2
  <2> QED BY <1>6, <2>1, <2>2
<1>12. PICK l : l = DC!Log(d)
  OBVIOUS
<1> DEFINE m == DC!Kept(l.logs - l.kept)
<1>13. l.entries = r /\ l.logs = d.logs + 1 /\ l.kept = d.kept /\ m = k2
  BY <1>0, <1>1, <1>10, <1>12
<1> HIDE DEF m
<1>14. \A i \in 1 .. m : r[i] = l.logs - m + i
  BY <1>0, <1>11, <1>13
<1>15. r = [i \in 1 .. m |-> r[i]]
  BY <1>6, <1>8, <1>13, LenProperties
<1>16. r = [i \in 1 .. m |-> l.logs - m + i]
  BY <1>14, <1>15
<1>17. DC!Newest(l)
  BY <1>13, <1>16 DEF DC!Newest, m
<1> QED BY <1>10, <1>12, <1>17

(* The part of the console's invariant that is about the log and the counters. *)
Kempt(d) ==
  /\ d \in DC!Console /\ DC!Newest(d)
  /\ d.kept <= d.logs /\ d.nextId <= d.logs + 1 /\ d.calls \subseteq 1 .. d.mounts
  /\ d.mounted => d.mounts > 0

(* It depends on nothing but those fields of the record. *)
LEMMA KemptFrame ==
  ASSUME NEW d, Kempt(d), NEW x \in DC!Console,
         x.entries = d.entries, x.logs = d.logs, x.kept = d.kept, x.nextId = d.nextId,
         x.calls \subseteq 1 .. x.mounts, x.mounted => x.mounts > 0
  PROVE  Kempt(x)
BY DEF Kempt, DC!Newest

(* log() changes the entries and their count, and nothing else of the wallet. *)
LEMMA KemptLog ==
  ASSUME NEW d, Kempt(d), d.logs < LogBound
  PROVE  /\ Kempt(DC!Log(d)) /\ DC!Log(d).logs = d.logs + 1 /\ DC!Log(d).nextId = d.nextId
         /\ DC!Log(d).mounted = d.mounted /\ DC!Log(d).mounts = d.mounts
         /\ DC!Log(d).busy = d.busy /\ DC!Log(d).calls = d.calls
<1>0. d \in DC!Console /\ d.logs \in Nat /\ d.kept \in Nat /\ d.nextId \in Nat /\ LogBound \in Nat
  BY WalletConstants DEF Kempt, DC!Console
<1>1. DC!Log(d) \in DC!Console /\ DC!Newest(DC!Log(d))
  BY LogKeeps DEF Kempt
<1>2. /\ DC!Log(d).logs = d.logs + 1 /\ DC!Log(d).nextId = d.nextId /\ DC!Log(d).kept = d.kept
      /\ DC!Log(d).mounted = d.mounted /\ DC!Log(d).mounts = d.mounts
      /\ DC!Log(d).busy = d.busy /\ DC!Log(d).calls = d.calls
  BY <1>0 DEF DC!Log, DC!Console
<1>3. DC!Log(d).kept <= DC!Log(d).logs /\ DC!Log(d).nextId <= DC!Log(d).logs + 1
  BY <1>0, <1>2 DEF Kempt
<1> QED BY <1>1, <1>2, <1>3 DEF Kempt

(* rpcCall up to the fetch takes the next id and logs the request. *)
LEMMA KemptStart ==
  ASSUME NEW d, Kempt(d), d.logs < LogBound
  PROVE  /\ Kempt(DC!RpcStart(d))
         /\ DC!RpcStart(d).mounted = d.mounted /\ DC!RpcStart(d).mounts = d.mounts
         /\ DC!RpcStart(d).busy = d.busy /\ DC!RpcStart(d).calls = d.calls
<1>1. PICK l : l = DC!Log(d)
  OBVIOUS
<1>2. /\ Kempt(l) /\ l.logs = d.logs + 1 /\ l.nextId = d.nextId
      /\ l.mounted = d.mounted /\ l.mounts = d.mounts /\ l.busy = d.busy /\ l.calls = d.calls
  BY <1>1, KemptLog
<1>3. PICK x : x = [l EXCEPT !.nextId = @ + 1]
  OBVIOUS
<1>4. d.nextId \in 1 .. LogBound + 1 /\ d.nextId <= d.logs + 1 /\ d.logs \in Nat /\ LogBound \in Nat
  BY WalletConstants DEF Kempt, DC!Console
<1>5. d.nextId + 1 \in 1 .. LogBound + 1 /\ d.nextId + 1 <= d.logs + 2
  BY <1>4
<1>6. /\ x \in DC!Console /\ x.entries = l.entries /\ x.logs = l.logs /\ x.kept = l.kept
      /\ x.nextId = d.nextId + 1 /\ x.mounted = l.mounted /\ x.mounts = l.mounts
      /\ x.busy = l.busy /\ x.calls = l.calls
  BY <1>2, <1>3, <1>5 DEF Kempt, DC!Console
<1>7. DC!Newest(x)
  BY <1>2, <1>6 DEF Kempt, DC!Newest
<1>8. Kempt(x)
  BY <1>2, <1>4, <1>5, <1>6, <1>7 DEF Kempt
<1> QED BY <1>1, <1>2, <1>3, <1>6, <1>8 DEF DC!RpcStart

(* The inductive invariant of the console holds in the beginning. *)
LEMMA ConsoleInit == DC!Init => DC!IInv
<1> SUFFICES ASSUME DC!Init PROVE DC!IInv
  OBVIOUS
<1>1. /\ console.entries = <<>> /\ console.logs = 0 /\ console.kept = 0 /\ console.nextId = 1
      /\ console.calls = {} /\ console.mounted = FALSE /\ console.mounts = 0
  BY DEF DC!Init
<1>2. 0 \in 0 .. LogBound /\ 1 \in 1 .. LogBound + 1 /\ 0 \in 0 .. Opens /\ 0 \in 0 .. 1
  BY WalletConstants
<1>3. DC!TypeOK
  BY <1>2 DEF DC!Init, DC!TypeOK, DC!Console
<1>4. DC!LogKeepsNewest
  <2>1. DC!Kept(console.logs - console.kept) = 0
    BY <1>1, WalletConstants DEF DC!Kept
  <2>2. [i \in 1 .. 0 |-> console.logs - 0 + i] = <<>>
    OBVIOUS
  <2> QED BY <1>1, <2>1, <2>2 DEF DC!LogKeepsNewest, DC!Newest
<1> QED BY <1>1, <1>3, <1>4 DEF DC!IInv, DC!CountsAgree, DC!BusyIsTheCall

(* Every step keeps the invariant of the console: a call ends under the tab that made it, and a *)
(* tab that is opened again has made none. *)
LEMMA ConsoleStep == DC!IInv /\ [DC!Next]_console => DC!IInv'
<1> SUFFICES ASSUME DC!IInv, [DC!Next]_console PROVE DC!IInv'
  OBVIOUS
<1>0. /\ Kempt(console) /\ console \in DC!Console /\ DC!BusyIsTheCall
      /\ console.logs \in Nat /\ LogBound \in Nat /\ console.mounts \in Nat
  BY WalletConstants DEF DC!IInv, DC!TypeOK, DC!CountsAgree, DC!LogKeepsNewest, Kempt, DC!Console
<1>a. ASSUME Kempt(console'), console'.mounted => (console'.busy <=> console'.mounts \in console'.calls)
      PROVE  DC!IInv'
  BY <1>a DEF DC!IInv, DC!TypeOK, DC!CountsAgree, DC!LogKeepsNewest, DC!BusyIsTheCall, Kempt
<1>1. CASE DC!Mount
  <2>0. console.mounts + 1 \in 0 .. Opens /\ console.mounts + 1 > 0
    BY <1>0, <1>1, WalletConstants DEF DC!Mount
  <2>1. /\ console' \in DC!Console /\ console'.entries = console.entries /\ console'.logs = console.logs
        /\ console'.kept = console.kept /\ console'.nextId = console.nextId
        /\ console'.mounts = console.mounts + 1 /\ console'.busy = FALSE /\ console'.calls = console.calls
    BY <1>0, <1>1, <2>0 DEF DC!Mount, DC!Console
  <2>2. console'.calls \subseteq 1 .. console'.mounts /\ console'.mounts \notin console'.calls
    BY <1>0, <2>1 DEF Kempt
  <2> QED BY <1>0, <1>a, <2>0, <2>1, <2>2, KemptFrame
<1>2. CASE DC!Unmount
  <2>1. /\ console' \in DC!Console /\ console'.entries = console.entries /\ console'.logs = console.logs
        /\ console'.kept = console.kept /\ console'.nextId = console.nextId
        /\ console'.mounts = console.mounts /\ console'.calls = console.calls /\ console'.mounted = FALSE
    BY <1>0, <1>2 DEF DC!Unmount, DC!Console
  <2>2. console'.calls \subseteq 1 .. console'.mounts
    BY <1>0, <2>1 DEF Kempt
  <2> QED BY <1>0, <1>a, <2>1, <2>2, KemptFrame
<1>3. CASE DC!ClearLogs
  <2>1. /\ console' \in DC!Console /\ console'.entries = <<>> /\ console'.logs = console.logs
        /\ console'.kept = console.logs /\ console'.nextId = console.nextId
        /\ console'.mounted = console.mounted /\ console'.mounts = console.mounts
        /\ console'.calls = console.calls /\ console'.busy = console.busy
    <3>1. <<>> \in Seq(1 .. LogBound)
      OBVIOUS
    <3> QED BY <1>0, <1>3, <3>1 DEF DC!ClearLogs, DC!Console
  <2>2. DC!Newest(console')
    <3>1. DC!Kept(console'.logs - console'.kept) = 0
      BY <1>0, <2>1, WalletConstants DEF DC!Kept
    <3>2. [i \in 1 .. 0 |-> console'.logs - 0 + i] = <<>>
      OBVIOUS
    <3> QED BY <2>1, <3>1, <3>2 DEF DC!Newest
  <2>3. Kempt(console')
    BY <1>0, <2>1, <2>2 DEF Kempt
  <2> QED BY <1>0, <1>a, <2>1, <2>3 DEF DC!BusyIsTheCall
<1>4. ASSUME console.logs + 1 < LogBound, DC!Call(TRUE) PROVE DC!IInv'
  <2>1. PICK l : l = DC!RpcStart(console)
    OBVIOUS
  <2>2. /\ Kempt(l) /\ l \in DC!Console /\ l.mounted = console.mounted /\ l.mounts = console.mounts
        /\ l.calls = console.calls
    BY <1>0, <1>4, <2>1, KemptStart DEF Kempt
  <2>3. console.mounts \in 1 .. Opens
    BY <1>0, <1>4 DEF DC!Call, Kempt, DC!Console
  <2>4. console' = [l EXCEPT !.busy = TRUE, !.result = "null", !.calls = @ \cup {console.mounts}]
    BY <1>4, <2>1 DEF DC!Call
  <2>5. /\ console' \in DC!Console /\ console'.entries = l.entries /\ console'.logs = l.logs
        /\ console'.kept = l.kept /\ console'.nextId = l.nextId /\ console'.mounted = l.mounted
        /\ console'.mounts = l.mounts /\ console'.busy = TRUE
        /\ console'.calls = console.calls \cup {console.mounts}
    BY <2>2, <2>3, <2>4 DEF DC!Console
  <2>6. console'.calls \subseteq 1 .. console'.mounts /\ (console'.mounted => console'.mounts > 0)
    BY <1>0, <2>2, <2>3, <2>5 DEF Kempt
  <2> QED BY <1>a, <2>2, <2>5, <2>6, KemptFrame
<1>5. ASSUME console.logs + 1 < LogBound, DC!Call(FALSE) PROVE DC!IInv'
  <2>1. PICK l : l = DC!Log(console)
    OBVIOUS
  <2>2. /\ Kempt(l) /\ l \in DC!Console /\ l.mounted = console.mounted /\ l.mounts = console.mounts
        /\ l.calls = console.calls /\ l.busy = console.busy
    BY <1>0, <1>5, <2>1, KemptLog DEF Kempt
  <2>3. console' = [l EXCEPT !.result = "error"]
    BY <1>5, <2>1 DEF DC!Call
  <2>4. /\ console' \in DC!Console /\ console'.entries = l.entries /\ console'.logs = l.logs
        /\ console'.kept = l.kept /\ console'.nextId = l.nextId /\ console'.mounted = l.mounted
        /\ console'.mounts = l.mounts /\ console'.busy = l.busy /\ console'.calls = l.calls
    BY <2>2, <2>3 DEF DC!Console
  <2>5. Kempt(console')
    BY <2>2, <2>4, KemptFrame DEF Kempt
  <2> QED BY <1>0, <1>a, <2>2, <2>4, <2>5 DEF DC!BusyIsTheCall
<1>6. ASSUME console.logs + 1 < LogBound, NEW m \in console.calls, NEW good \in BOOLEAN, DC!CallEnds(m, good)
      PROVE  DC!IInv'
  <2>1. PICK l : l = IF good THEN DC!RpcEnd(console) ELSE DC!Log(DC!RpcEnd(console))
    OBVIOUS
  <2>2. /\ Kempt(l) /\ l \in DC!Console /\ l.mounted = console.mounted /\ l.mounts = console.mounts
        /\ l.calls = console.calls /\ l.busy = console.busy
    <3>1. PICK k : k = DC!Log(console)
      OBVIOUS
    <3>2. /\ Kempt(k) /\ k.logs = console.logs + 1 /\ k.mounted = console.mounted
          /\ k.mounts = console.mounts /\ k.calls = console.calls /\ k.busy = console.busy
      BY <1>0, <1>6, <3>1, KemptLog
    <3>3. k.logs < LogBound
      BY <1>0, <1>6, <3>2
    <3>4. CASE good
      BY <2>1, <3>1, <3>2, <3>4 DEF DC!RpcEnd, Kempt
    <3>5. CASE ~good
      BY <2>1, <3>1, <3>2, <3>3, <3>5, KemptLog DEF DC!RpcEnd, Kempt
    <3> QED BY <3>4, <3>5
  <2>3. PICK e : e = [l EXCEPT !.calls = @ \ {m}]
    OBVIOUS
  <2>4. /\ e \in DC!Console /\ e.entries = l.entries /\ e.logs = l.logs
        /\ e.kept = l.kept /\ e.nextId = l.nextId /\ e.mounted = l.mounted
        /\ e.mounts = l.mounts /\ e.busy = l.busy /\ e.calls = console.calls \ {m}
    BY <2>2, <2>3 DEF DC!Console
  <2>5. Kempt(e)
    <3>1. e.calls \subseteq 1 .. e.mounts
      BY <1>0, <2>2, <2>4 DEF Kempt
    <3> QED BY <2>2, <2>4, <3>1, KemptFrame DEF Kempt
  <2>6. CASE console.mounted /\ m = console.mounts
    <3>1. console' = [e EXCEPT !.busy = FALSE, !.result = IF good THEN "value" ELSE "error"]
      BY <1>6, <2>1, <2>3, <2>6 DEF DC!CallEnds
    <3>2. /\ console' \in DC!Console /\ console'.entries = e.entries /\ console'.logs = e.logs
          /\ console'.kept = e.kept /\ console'.nextId = e.nextId /\ console'.mounted = e.mounted
          /\ console'.mounts = e.mounts /\ console'.busy = FALSE /\ console'.calls = e.calls
      BY <2>4, <3>1 DEF DC!Console
    <3>3. Kempt(console')
      BY <2>5, <3>2, KemptFrame DEF Kempt
    <3> QED BY <1>a, <2>2, <2>4, <2>6, <3>2, <3>3
  <2>7. CASE ~(console.mounted /\ m = console.mounts)
    <3>1. console' = e
      BY <1>6, <2>1, <2>3, <2>7 DEF DC!CallEnds
    <3> QED BY <1>0, <1>a, <2>2, <2>4, <2>5, <2>7, <3>1 DEF DC!BusyIsTheCall
  <2> QED BY <2>6, <2>7
<1>7. ASSUME console.logs + 1 < LogBound, DC!OtherStart \/ DC!OtherEnds PROVE DC!IInv'
  <2>1. ASSUME NEW l, Kempt(l), l.mounted = console.mounted, l.mounts = console.mounts,
               l.calls = console.calls, l.busy = console.busy,
               NEW n \in 0 .. 1, console' = [l EXCEPT !.others = n]
        PROVE  DC!IInv'
    <3>1. /\ console' \in DC!Console /\ console'.entries = l.entries /\ console'.logs = l.logs
          /\ console'.kept = l.kept /\ console'.nextId = l.nextId /\ console'.mounted = l.mounted
          /\ console'.mounts = l.mounts /\ console'.busy = l.busy /\ console'.calls = l.calls
      BY <2>1 DEF DC!Console, Kempt
    <3>2. Kempt(console')
      BY <2>1, <3>1, KemptFrame DEF Kempt
    <3> QED BY <1>0, <1>a, <2>1, <3>1, <3>2 DEF DC!BusyIsTheCall
  <2>2. CASE DC!OtherStart
    <3>1. PICK l : l = DC!RpcStart(console)
      OBVIOUS
    <3>2. /\ Kempt(l) /\ l.mounted = console.mounted /\ l.mounts = console.mounts
          /\ l.calls = console.calls /\ l.busy = console.busy
      BY <1>0, <1>7, <3>1, KemptStart
    <3>3. console' = [l EXCEPT !.others = 1] /\ 1 \in 0 .. 1
      BY <2>2, <3>1 DEF DC!OtherStart
    <3> QED BY <2>1, <3>2, <3>3
  <2>3. CASE DC!OtherEnds
    <3>1. PICK l : l = DC!Log(console)
      OBVIOUS
    <3>2. /\ Kempt(l) /\ l.mounted = console.mounted /\ l.mounts = console.mounts
          /\ l.calls = console.calls /\ l.busy = console.busy
      BY <1>0, <1>7, <3>1, KemptLog
    <3>3. console' = [l EXCEPT !.others = 0] /\ 0 \in 0 .. 1
      BY <2>3, <3>1 DEF DC!OtherEnds, DC!RpcEnd
    <3> QED BY <2>1, <3>2, <3>3
  <2> QED BY <1>7, <2>2, <2>3
<1>8. CASE UNCHANGED console
  BY <1>0, <1>8, <1>a DEF DC!BusyIsTheCall
<1> QED BY <1>1, <1>2, <1>3, <1>4, <1>5, <1>6, <1>7, <1>8 DEF DC!Next

-----------------------------------------------------------------------------
(***************************************************************************)
(* The theorems.                                                           *)
(***************************************************************************)
WalletInv ==
  /\ part = "PO" => PO!IInv
  /\ part = "DS" => DS!IInv
  /\ part = "DC" => DC!IInv

(* The inductive invariants of the poller, the store and the console hold in every reachable *)
(* state. *)
THEOREM WalletInvariance == Spec => []WalletInv
<1>1. Init => WalletInv
  BY PollerInit, StoreInit, ConsoleInit DEF Init, WalletInv
<1>2. WalletInv /\ [Next]_vars => WalletInv'
  BY StepOfPart, PollerStep, StoreStep, ConsoleStep DEF WalletInv
<1> QED BY <1>1, <1>2, PTL DEF Spec

(* Whatever order calls end in and whenever tabs are left: usePoller never runs fn twice at once *)
(* and shows the endpoint selected, a restart finds the settings that were written, no address   *)
(* is shown but that of the stored key, and the log keeps the newest messages. *)
THEOREM WalletIsCurrentHolds == Spec => []WalletIsCurrent
<1>1. DS!IInv => DS!WrittenIsLoaded
  BY LoadOfWritten DEF DS!IInv, DS!TypeOK, DS!WrittenIsLoaded
<1>2. WalletInv => WalletIsCurrent
  BY <1>1 DEF WalletInv, WalletIsCurrent, PO!IInv, DS!IInv, DC!IInv
<1> QED BY <1>2, WalletInvariance, PTL
=============================================================================
