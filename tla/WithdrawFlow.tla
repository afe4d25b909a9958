----------------------------- MODULE WithdrawFlow -----------------------------
(***************************************************************************)
(* The withdrawal half of the custodial bridge: the withdrawals table of   *)
(* the API, the withdrawal part of the federation's poll loop, the L1      *)
(* outputs it spends and the L2 transactions that are named as burns.      *)
(*                                                                         *)
(* As in DepositFlow the loop is one sequential process whose steps end at *)
(* its awaits, and a remote call is done and answered ("ok"), done with    *)
(* its answer lost ("lost"), or not done ("down").  The deposits are an    *)
(* environment here: they add outputs to the pool and mint as much on the  *)
(* L2.  Confirmations do not appear: fetchUtxos takes every output that    *)
(* esplora lists, confirmed or not.  The model is of one network: rows of  *)
(* the others are skipped when outputs are collected.                      *)
(***************************************************************************)
EXTENDS Integers, FiniteSetsExt

CONSTANTS
  Withdrawal,   \* ids of withdrawal requests
  Dep,          \* deposit rows that may become funded
  Coin,         \* L1 outputs
  BurnTx,       \* L2 transactions that burn
  OtherTx,      \* L2 transactions that burn nothing
  PayTx,        \* L1 payout transactions
  None,         \* "null"
  Amount,       \* what each withdrawal asks for, in sats
  BurnAmount,   \* what users burn, in sats
  DepValue,     \* what a deposit brings, in sats
  DepIndex,     \* derivation index of each deposit row
  Fee,          \* the flat network fee (1000)
  Dust,         \* the dust limit (546)
  Timeout,      \* WITHDRAWAL_TIMEOUT_MS
  IndexSpace,   \* the modulus of the time-based change index
  LastSubmit,   \* bound: time of the last withdrawal request
  MaxClock,     \* bound: time
  MaxFaults     \* bound: lost or refused calls and crashes

ASSUME WithdrawAssumption ==
  /\ None \notin Withdrawal \cup BurnTx \cup OtherTx \cup PayTx
  /\ BurnTx \cap OtherTx = {}
  /\ Amount \in [Withdrawal -> Nat]
  /\ BurnAmount \subseteq Nat \ {0}
  /\ DepValue \in [Dep -> Nat]
  /\ IndexSpace \in Nat \ {0}
  /\ DepIndex \in [Dep -> 0 .. IndexSpace - 1]
  /\ Fee \in Nat
  /\ Dust \in Nat \ {0}
  /\ Timeout \in Nat
  /\ LastSubmit \in Nat
  /\ MaxClock \in Nat
  /\ MaxFaults \in Nat

VARIABLES
  clock,    \* wall-clock time
  wrow,     \* the withdrawals table
  funded,   \* rows GET /v1/fed/deposits/funded lists
  coin,     \* L1 outputs under the federation's keys
  onL2,     \* transactions the L2 knows
  burned,   \* what each of them burned (0: nothing)
  payTx,    \* payout transactions the L1 has accepted
  supply,   \* ECX outstanding on the L2, in sats
  pc,       \* where the loop is
  snap,     \* rows of GET /v1/fed/withdrawals/pending not yet finished
  now,      \* Date.now() as read once per list
  cur,      \* the withdrawal being processed
  rows,     \* funded rows whose outputs were not asked for yet
  inputs,   \* outputs listed, then selected, for its payout: each with its row
  change,   \* value and index of its change output
  hash,     \* its accepted payout
  faults    \* faults so far

world == <<wrow, funded, coin, onL2, burned, payTx, supply>>
local == <<snap, now, cur, rows, inputs, change, hash>>
vars  == <<clock, world, pc, local, faults>>

L2Tx   == BurnTx \cup OtherTx
Index  == 0 .. IndexSpace - 1
WRow   == [status : {"none", "pending", "completed", "failed"},
           burn : L2Tx \cup {None}, created : Nat]
NoWRow == [status |-> "none", burn |-> None, created |-> 0]
CoinState == [st : {"absent", "unspent", "spent"}, index : Index, value : Nat]
NoCoin == [st |-> "absent", index |-> 0, value |-> 0]
PayState == [st : {"free", "sent"}, w : Withdrawal \cup {None},
             coins : SUBSET Coin, lost : BOOLEAN]
NoPay  == [st |-> "free", w |-> None, coins |-> {}, lost |-> FALSE]
NoChange == [value |-> 0, index |-> 0]

PCs == {"list", "each", "funded", "collect", "broadcast", "record", "rest"}

TypeOK ==
  /\ clock \in Nat
  /\ wrow \in [Withdrawal -> WRow]
  /\ funded \in SUBSET Dep
  /\ coin \in [Coin -> CoinState]
  /\ onL2 \in SUBSET L2Tx
  /\ burned \in [L2Tx -> Nat]
  /\ payTx \in [PayTx -> PayState]
  /\ supply \in Nat
  /\ pc \in PCs
  /\ snap \in [Withdrawal -> WRow]
  /\ now \in Nat
  /\ cur \in Withdrawal \cup {None}
  /\ rows \in SUBSET Dep
  /\ inputs \in SUBSET (Coin \X Dep)
  /\ change \in [value : Nat, index : Index]
  /\ hash \in PayTx \cup {None}
  /\ faults \in 0 .. MaxFaults

Init ==
  /\ clock = 1
  /\ wrow = [w \in Withdrawal |-> NoWRow]
  /\ funded = {}
  /\ coin = [c \in Coin |-> NoCoin]
  /\ onL2 = {}
  /\ burned = [t \in L2Tx |-> 0]
  /\ payTx = [p \in PayTx |-> NoPay]
  /\ supply = 0
  /\ pc = "rest"
  /\ snap = [w \in Withdrawal |-> NoWRow]
  /\ now = 0
  /\ cur = None
  /\ rows = {}
  /\ inputs = {}
  /\ change = NoChange
  /\ hash = None
  /\ faults = 0

Outcome == {"ok", "lost", "down"}

Counted(o) ==
  IF o = "ok" THEN UNCHANGED faults
              ELSE faults < MaxFaults /\ faults' = faults + 1

-----------------------------------------------------------------------------
(***************************************************************************)
(* Users, deposits and time.                                               *)
(***************************************************************************)

\* A new output or transaction takes the next name that is not in use.
NextOf(S) == IF S = {} THEN {} ELSE {CHOOSE x \in S : TRUE}
Absent == {c \in Coin : coin[c].st = "absent"}
Free   == {p \in PayTx : payTx[p].st = "free"}

\* A deposit arrives, is recorded as funded and minted 1:1, all by the deposit
\* half of the loop, which runs before the withdrawals of each cycle.
Deposited(d, c) ==
  /\ pc = "rest"
  /\ d \notin funded
  /\ c \in NextOf(Absent)
  /\ coin' = [coin EXCEPT ![c] = [st |-> "unspent", index |-> DepIndex[d],
                                  value |-> DepValue[d]]]
  /\ funded' = funded \cup {d}
  /\ supply' = supply + DepValue[d]
  /\ UNCHANGED <<clock, wrow, onL2, burned, payTx, pc, local, faults>>

\* A user burns amount a on the L2.
Burn(b, a) ==
  /\ b \notin onL2
  /\ a <= supply
  /\ onL2' = onL2 \cup {b}
  /\ burned' = [burned EXCEPT ![b] = a]
  /\ supply' = supply - a
  /\ UNCHANGED <<clock, wrow, funded, coin, payTx, pc, local, faults>>

\* A user sends any other transaction on the L2.
Transact(t) ==
  /\ t \notin onL2
  /\ onL2' = onL2 \cup {t}
  /\ UNCHANGED <<clock, wrow, funded, coin, burned, payTx, supply, pc, local, faults>>

\* POST /v1/bridge/withdraw: burnTxHash is optional and not looked at.  It may
\* be that of any transaction, before or after the L2 knows it, may have burned
\* another amount, and may be named again by a client that lost the answer.
SubmitWithdrawal(w, t) ==
  /\ clock <= LastSubmit
  /\ wrow[w].status = "none"
  /\ wrow' = [wrow EXCEPT ![w] = [status |-> "pending", burn |-> t, created |-> clock]]
  /\ UNCHANGED <<clock, funded, coin, onL2, burned, payTx, supply, pc, local, faults>>

Tick ==
  /\ clock < MaxClock
  /\ clock' = clock + 1
  /\ UNCHANGED <<world, pc, local, faults>>

-----------------------------------------------------------------------------
(***************************************************************************)
(* The loop: processPendingWithdrawals.                                    *)
(***************************************************************************)
\* Mutant: the status of a paid request is not written.
PatchWithdrawalNoStatus(w, status, o) ==
  /\ wrow' = IF o = "down" \/ status = "completed"
             THEN wrow ELSE [wrow EXCEPT ![w].status = status]
  /\ Counted(o)

PatchWithdrawal(w, status, o) ==
  /\ wrow' = IF o = "down" THEN wrow ELSE [wrow EXCEPT ![w].status = status]
  /\ Counted(o)

\* Withdrawal w is finished for this cycle, whatever came of it.
Finish(w) ==
  /\ pc' = "each"
  /\ snap' = [snap EXCEPT ![w] = NoWRow]
  /\ cur' = None
  /\ rows' = {}
  /\ inputs' = {}
  /\ change' = NoChange
  /\ hash' = None
  /\ UNCHANGED now

\* Mutant: the list is not restricted to pending requests.
PendingAny(w) == wrow[w].status # "none"

\* GET /v1/fed/withdrawals/pending: WHERE status = 'pending'.
Pending(w) == wrow[w].status = "pending"

\* The rows, then `const now = Date.now()'.
ListPending(o) ==
  /\ pc = "list"
  /\ Counted(o)
  /\ IF o = "ok"
     THEN /\ pc' = "each"
          /\ snap' = [w \in Withdrawal |->
                        IF Pending(w) THEN wrow[w] ELSE NoWRow]
          /\ now' = clock
     ELSE pc' = "rest" /\ UNCHANGED <<snap, now>>
  /\ UNCHANGED <<clock, world, cur, rows, inputs, change, hash>>

\* The rows come ORDER BY created_at ASC.
Turn(w) ==
  /\ pc = "each"
  /\ snap[w].status # "none"
  /\ \A v \in Withdrawal : snap[v].status # "none" => snap[w].created <= snap[v].created

\* Mutant: the age is computed from a time in other units.
ExpiredUnits(w) == snap[w].created > 0 /\ now - 1000 * snap[w].created > Timeout

Expired(w) == snap[w].created > 0 /\ now - snap[w].created > Timeout

\* Older than the time-out at the time of the list: PATCH 'failed', whatever
\* the burn.
ExpireWithdrawal(w, o) ==
  /\ Turn(w)
  /\ Expired(w)
  /\ PatchWithdrawal(w, "failed", o)
  /\ Finish(w)
  /\ UNCHANGED <<clock, funded, coin, onL2, burned, payTx, supply>>

\* processWithdrawal: a row that is not pending or has no burn hash is skipped.
SkipWithdrawal(w) ==
  /\ Turn(w)
  /\ ~Expired(w)
  /\ snap[w].status # "pending" \/ snap[w].burn = None
  /\ Finish(w)
  /\ UNCHANGED <<clock, world, faults>>

\* Mutant: the answer of verifyBurnTx is not looked at.
VerifyBurnUnchecked(w, o) ==
  /\ Turn(w)
  /\ ~Expired(w)
  /\ snap[w].status = "pending"
  /\ snap[w].burn # None
  /\ Counted(o)
  /\ pc' = "funded" /\ cur' = w
  /\ UNCHANGED <<clock, world, snap, now, rows, inputs, change, hash>>

\* verifyBurnTx: the transaction exists on the L2.  Whether it burned, how much
\* and whose it is are not looked at.
VerifyBurn(w, o) ==
  /\ Turn(w)
  /\ ~Expired(w)
  /\ snap[w].status = "pending"
  /\ snap[w].burn # None
  /\ Counted(o)
  /\ IF o = "ok" /\ snap[w].burn \in onL2
     THEN pc' = "funded" /\ cur' = w /\ UNCHANGED <<snap, now, rows, inputs, change, hash>>
     ELSE Finish(w)
  /\ UNCHANGED <<clock, world>>

Total(S) == MapThenSumSet(LAMBDA x : coin[x[1]].value, S)

\* selectUtxos: largest first, until the total reaches `need'; ties either way.
Selections(U, need) ==
  {S \in SUBSET U :
     /\ Total(S) >= need
     /\ \A s \in S, u \in U \ S : coin[s[1]].value >= coin[u[1]].value
     /\ \E s \in S : /\ \A t \in S : coin[s[1]].value <= coin[t[1]].value
                     /\ Total(S \ {s}) < need}

\* Mutant: every row is taken to own every output.
CollectedAll(D) == {x \in Coin \X D : coin[x[1]].st = "unspent"}

\* The outputs of the rows in D, once for each row: an output of an address that
\* two rows share is listed by both.
Collected(D) ==
  {x \in Coin \X D : coin[x[1]].st = "unspent" /\ coin[x[1]].index = DepIndex[x[2]]}

\* Mutant: no change output.
NoChangeSats(v) == 0

\* What is left of the inputs is paid back if it is more than dust, to an
\* address taken from the clock.
ChangeSats(v) == IF v > Dust THEN v ELSE 0
ChangeIndex == clock % IndexSpace

\* fetchFundedDeposits, the change address and the dust limit.  A call that fails
\* yields no rows.
FetchFunded(o) ==
  /\ pc = "funded"
  /\ Counted(o)
  /\ \/ /\ o = "down" \/ funded = {} \/ Amount[cur] < Dust
        /\ Finish(cur)
     \/ /\ o = "ok" /\ funded # {} /\ Amount[cur] >= Dust
        /\ pc' = "collect"
        /\ rows' = funded
        /\ inputs' = {}
        /\ change' = [NoChange EXCEPT !.index = ChangeIndex]
        /\ UNCHANGED <<snap, now, cur, hash>>
  /\ UNCHANGED <<clock, world>>

\* fetchUtxos for the next row; a call that fails yields no outputs.  The order
\* of the rows does not matter to the selection.
FetchUtxos(d, o) ==
  /\ pc = "collect"
  /\ d \in rows
  /\ Counted(o)
  /\ rows' = rows \ {d}
  /\ inputs' = inputs \cup IF o = "ok" THEN Collected({d}) ELSE {}
  /\ UNCHANGED <<clock, world, pc, snap, now, cur, change, hash>>

\* The selection, and the transaction built and signed.  The withdrawal is given
\* up if nothing can be selected or if deriving a key, decoding the address,
\* building or signing fails.
BuildPayout ==
  LET need == Amount[cur] + Fee IN
  /\ pc = "collect"
  /\ rows = {}
  /\ \/ Finish(cur)
     \/ /\ \E S \in Selections(inputs, need) : \E v \in 0 .. Total(S) :
             /\ Total(S) = need + v
             /\ inputs' = S
             /\ change' = [change EXCEPT !.value = ChangeSats(v)]
        /\ pc' = "broadcast"
        /\ UNCHANGED <<snap, now, cur, rows, hash>>
  /\ UNCHANGED <<clock, world, faults>>

\* The L1 node accepts a transaction whose inputs are distinct unspent outputs.
Acceptable(S) ==
  /\ \A x \in S : coin[x[1]].st = "unspent"
  /\ \A x, y \in S : x[1] = y[1] => x = y

\* The accepted payout spends its inputs and may create a change output, at an
\* index that no deposit row records (unless a row happens to have it).
Pay(p, o) ==
  LET spent == {x[1] : x \in inputs} IN
  /\ p \in NextOf(Free)
  /\ payTx' = [payTx EXCEPT ![p] = [st |-> "sent", w |-> cur, coins |-> spent,
                                    lost |-> o = "lost"]]
  /\ \E c \in Coin :
       /\ change.value > 0 => c \in NextOf(Absent)
       /\ coin' = [x \in Coin |->
                     IF x \in spent THEN [coin[x] EXCEPT !.st = "spent"]
                     ELSE IF x = c /\ change.value > 0
                          THEN [st |-> "unspent", index |-> change.index, value |-> change.value]
                          ELSE coin[x]]

\* Mutant: the withdrawal goes on although nothing was broadcast.
BroadcastUnchecked(o) ==
  /\ pc = "broadcast"
  /\ Counted(o)
  /\ \/ /\ o = "down" \/ ~Acceptable(inputs)
        /\ UNCHANGED <<coin, payTx, hash>>
     \/ /\ o # "down" /\ Acceptable(inputs)
        /\ \E p \in PayTx : Pay(p, o) /\ hash' = p
  /\ pc' = "record"
  /\ UNCHANGED <<clock, wrow, funded, onL2, burned, supply, snap, now, cur, rows, inputs, change>>

\* broadcastTx
Broadcast(o) ==
  /\ pc = "broadcast"
  /\ Counted(o)
  /\ \/ /\ o = "down" \/ ~Acceptable(inputs)
        /\ Finish(cur)
        /\ UNCHANGED <<coin, payTx>>
     \/ /\ o # "down" /\ Acceptable(inputs)
        /\ \E p \in PayTx :
             /\ Pay(p, o)
             /\ IF o = "lost"
                THEN Finish(cur)
                ELSE /\ pc' = "record" /\ hash' = p
                     /\ UNCHANGED <<snap, now, cur, rows, inputs, change>>
  /\ UNCHANGED <<clock, wrow, funded, onL2, burned, supply>>

\* History: the loop goes on without having recorded payout p.
Lose(p) == payTx' = [payTx EXCEPT ![p].lost = TRUE]

\* Mutant: the status a deposit ends with.
PatchCompletedMinted(o) ==
  /\ pc = "record"
  /\ PatchWithdrawal(cur, "minted", o)
  /\ IF o = "down" THEN Lose(hash) ELSE UNCHANGED payTx
  /\ Finish(cur)
  /\ UNCHANGED <<clock, funded, coin, onL2, burned, supply>>

\* PATCH status 'completed'.
PatchCompleted(o) ==
  /\ pc = "record"
  /\ PatchWithdrawal(cur, "completed", o)
  /\ IF o = "down" THEN Lose(hash) ELSE UNCHANGED payTx
  /\ Finish(cur)
  /\ UNCHANGED <<clock, funded, coin, onL2, burned, supply>>

EndOfList ==
  /\ pc = "each"
  /\ \A w \in Withdrawal : snap[w].status = "none"
  /\ pc' = "rest"
  /\ UNCHANGED <<clock, world, local, faults>>

\* The pause, the check-in and the deposits of the next cycle.
NextCycle ==
  /\ pc = "rest"
  /\ pc' = "list"
  /\ UNCHANGED <<clock, world, local, faults>>

\* The container is killed and restarted: the loop's memory is gone, and it
\* begins with the check-in and the deposits.
Crash ==
  /\ pc # "rest"
  /\ Counted("down")
  /\ pc' = "rest"
  /\ snap' = [w \in Withdrawal |-> NoWRow]
  /\ cur' = None
  /\ rows' = {}
  /\ inputs' = {}
  /\ change' = NoChange
  /\ hash' = None
  /\ IF hash # None THEN Lose(hash) ELSE UNCHANGED payTx
  /\ UNCHANGED <<clock, wrow, funded, coin, onL2, burned, supply, now>>

-----------------------------------------------------------------------------
Loop ==
  \/ \E o \in {"ok", "down"} :
       \/ ListPending(o)
       \/ \E w \in Withdrawal : VerifyBurn(w, o)
       \/ FetchFunded(o)
       \/ \E d \in Dep : FetchUtxos(d, o)
  \/ \E o \in Outcome :
       \/ \E w \in Withdrawal : ExpireWithdrawal(w, o)
       \/ Broadcast(o)
       \/ PatchCompleted(o)
  \/ \E w \in Withdrawal : SkipWithdrawal(w)
  \/ BuildPayout
  \/ EndOfList \/ NextCycle

Users ==
  \/ \E d \in Dep, c \in Coin : Deposited(d, c)
  \/ \E b \in BurnTx, a \in BurnAmount : Burn(b, a)
  \/ \E t \in OtherTx : Transact(t)
  \/ \E w \in Withdrawal, t \in L2Tx \cup {None} : SubmitWithdrawal(w, t)

Next == Loop \/ Users \/ Tick \/ Crash

Spec == Init /\ [][Next]_vars

\* The loop keeps polling and time keeps passing; users owe nothing.
FairSpec == Spec /\ WF_vars(Loop) /\ WF_vars(Tick)

-----------------------------------------------------------------------------
(***************************************************************************)
(* Properties.                                                             *)
(***************************************************************************)

\* A withdrawal is paid at most once as far as the loop knows: of two payouts
\* for one withdrawal the loop lost track of at least one (a crash, or a lost
\* answer, between broadcastTx and PATCH 'completed').
PaidOnce ==
  \A p, q \in PayTx :
    /\ payTx[p].st = "sent" /\ payTx[q].st = "sent" /\ p # q
    /\ payTx[p].w = payTx[q].w
    => payTx[p].lost \/ payTx[q].lost

\* The final statuses tell the truth: 'completed' means there is a payout, and
\* 'failed' (the time-out) that the loop has no payout it knows of.
FinalStatusIsTrue ==
  \A w \in Withdrawal :
    /\ wrow[w].status = "completed" =>
         \E p \in PayTx : payTx[p].st = "sent" /\ payTx[p].w = w /\ ~payTx[p].lost
    /\ wrow[w].status = "failed" =>
         \A p \in PayTx : payTx[p].w = w => payTx[p].lost

\* The hash of a request is the only thing that lets money out, and it is that
\* of a transaction the L2 knew when it was asked for: every payout, also one the
\* loop lost track of or repeats, is for a request that names one (verifyBurnTx).
PaidForAnL2Transaction ==
  \A p \in PayTx : payTx[p].st = "sent" => wrow[payTx[p].w].burn \in onL2

\* What the loop signs is what the L1 accepts: the inputs are different outputs
\* and still unspent when they are broadcast, although they were listed by one
\* call for each row, some calls earlier.  Only rows that share a derivation
\* index make it refuse (the output is then listed, and selected, twice).
PayoutsAreAcceptable ==
  pc = "broadcast" =>
    \/ Acceptable(inputs)
    \/ \E d, e \in funded : d # e /\ DepIndex[d] = DepIndex[e]

\* The API's PATCH has no guard, yet a completed or failed withdrawal keeps its
\* status, and no row loses its burn.
FinalStatusIsFinal ==
  [][\A w \in Withdrawal :
       /\ wrow[w].status \in {"completed", "failed"} => wrow'[w] = wrow[w]
       /\ wrow[w].status # "none" => wrow'[w].burn = wrow[w].burn]_vars

\* What is not accounted for by fees and by dust left to the miners is still
\* under the federation's keys or was paid out for a request that names a transaction:
\* outputs never leave by another way.
Reserve == MapThenSumSet(LAMBDA c : IF coin[c].st = "unspent" THEN coin[c].value ELSE 0, Coin)
PaidOut == MapThenSumSet(LAMBDA p : IF payTx[p].st = "sent" THEN Amount[payTx[p].w] ELSE 0, PayTx)
Payouts == Cardinality({p \in PayTx : payTx[p].st = "sent"})
Received == MapThenSumSet(LAMBDA d : DepValue[d], funded)

NothingDisappears ==
  /\ Reserve + PaidOut + Payouts * Fee <= Received
  /\ Received <= Reserve + PaidOut + Payouts * (Fee + Dust)

\* The loop and its failures implement the abstract service: a withdrawal is an order that a
\* payout settles or the time-out drops, and while the loop keeps track of a payout it sends no
\* other.
OrderState(w) == CASE wrow[w].status = "none" -> "none"
                   [] wrow[w].status = "pending" -> "open"
                   [] wrow[w].status = "completed" -> "settled"
                   [] wrow[w].status = "failed" -> "dropped"
PayoutsOf(w, lost) ==
  {p \in PayTx : payTx[p].st = "sent" /\ payTx[p].w = w /\ payTx[p].lost = lost}

Orders == INSTANCE Settlement WITH
  Order <- Withdrawal, Tx <- PayTx,
  state <- [w \in Withdrawal |-> OrderState(w)],
  known <- [w \in Withdrawal |-> PayoutsOf(w, FALSE)],
  lost  <- [w \in Withdrawal |-> PayoutsOf(w, TRUE)]

SettlesWithdrawals == Orders!Spec

\* No request stays pending: it is paid, or the time-out fails it.
PendingIsSettled ==
  \A w \in Withdrawal :
    (wrow[w].status = "pending") ~> (wrow[w].status \in {"completed", "failed"})

-----------------------------------------------------------------------------
(***************************************************************************)
(* The inductive invariant behind the safety properties.                   *)
(***************************************************************************)
Working == {"funded", "collect", "broadcast", "record"}

\* Program counter and local variables agree; a withdrawal that is being paid
\* names a transaction that was verified.
ControlInv ==
  /\ (cur # None) <=> (pc \in Working)
  /\ (hash # None) <=> (pc = "record")
  /\ cur # None => /\ snap[cur].status = "pending"
                   /\ snap[cur].burn \in onL2

\* The snapshot is never stale for a row it still holds.
SnapshotInv ==
  \A w \in Withdrawal :
    snap[w].status # "none" => snap[w] = wrow[w] /\ snap[w].status = "pending"

\* A payout the loop has not lost is recorded, or is the one it is recording.
TrackedInv ==
  /\ \A p \in PayTx :
       payTx[p].st = "sent" /\ ~payTx[p].lost
       => wrow[payTx[p].w].status = "completed" \/ p = hash
  /\ hash # None => /\ payTx[hash].st = "sent" /\ ~payTx[hash].lost
                    /\ payTx[hash].w = cur

\* A payout is for a request that was made.
PayInv ==
  \A p \in PayTx :
    /\ payTx[p].st = "free" => payTx[p].w = None
    /\ payTx[p].st = "sent" =>
         payTx[p].w \in Withdrawal /\ wrow[payTx[p].w].status # "none"

\* The outputs listed and selected are still what esplora listed, and the rows
\* still to be asked for are funded.
InputsInv ==
  /\ rows \subseteq funded
  /\ pc \in {"collect", "broadcast"} =>
       \A x \in inputs : /\ x[2] \in funded
                         /\ coin[x[1]].st = "unspent"
                         /\ coin[x[1]].index = DepIndex[x[2]]

IInv ==
  /\ TypeOK /\ ControlInv /\ SnapshotInv /\ TrackedInv /\ PayInv /\ InputsInv
  /\ PaidOnce /\ FinalStatusIsTrue /\ PaidForAnL2Transaction

-----------------------------------------------------------------------------
(***************************************************************************)
(* What the documentation says; the runs that check these find them        *)
(* violated.                                                               *)
(***************************************************************************)

\* "Withdrawal requests expire after 15 minutes if no valid burn is detected":
\* a request whose burn, of its amount, the L2 knows is not failed.
BurnedRequestsDoNotExpire ==
  [][\A w \in Withdrawal :
       /\ wrow[w].status = "pending" /\ wrow'[w].status = "failed"
       => wrow[w].burn = None \/ burned[wrow[w].burn] # Amount[w]]_vars

\* "ALL Snowside ECX is backed 1:1 by REAL ECX": what the federation holds
\* covers what is outstanding on the L2 and what it owes for burns.
Owed == MapThenSumSet(LAMBDA t : burned[t], L2Tx) - PaidOut
Backed == Reserve >= supply + Owed

\* "Require a burn tx hash (proof the user burned ECX on L2)": a burn is paid out at
\* most once.
BurnPaidOnce ==
  \A p, q \in PayTx :
    /\ payTx[p].st = "sent" /\ payTx[q].st = "sent" /\ p # q
    => wrow[payTx[p].w].burn # wrow[payTx[q].w].burn
==============================================================================
