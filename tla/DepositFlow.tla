----------------------------- MODULE DepositFlow -----------------------------
(***************************************************************************)
(* The deposit half of the custodial bridge: the deposits table of the API *)
(* (packages/api), the deposit part of the federation's poll loop          *)
(* (packages/federation), the L1 chains it watches and the L2 it mints on. *)
(*                                                                         *)
(* The loop is one sequential process; every `await' in it ends a step, so *)
(* users, miners and the L2 interleave with it exactly where they can in   *)
(* the program.  Every remote call has one of three outcomes: it is done   *)
(* and answered ("ok"), done but its answer is lost ("lost"), or not done  *)
(* ("down").  The process may also be killed at any step and restarted.    *)
(*                                                                         *)
(* Amounts.  What the loop sees at an address is the set of coins (L1      *)
(* outputs) it counts; the code keeps the sum of their values.  The model  *)
(* keeps the set, which tells apart everything the sum does and also which *)
(* output backs which mint.                                                *)
(***************************************************************************)
EXTENDS Integers

CONSTANTS
  Deposit,      \* ids of deposit requests
  Coin,         \* L1 outputs that users may create
  MintTx,       \* ids of L2 mint transactions
  Network,      \* mainnet, testnet, signet
  None,         \* "null" for deposits and transactions
  NetOf,        \* the network a deposit request names
  MinConf,      \* MIN_CONFIRMATIONS, per network
  Fork,         \* fork height below which a network is not processed (0: none)
  ReorgDepth,   \* number of blocks a reorganisation may replace, per network
  IndexSpace,   \* the modulus of the time-based derivation index (10^6)
  MaxTip,       \* bound: height of an L1 chain
  MaxClock,     \* bound: seconds of wall-clock time
  MaxFaults     \* bound: lost or refused calls, time-outs, reverts and crashes

\* The code's defaults are 3, 1 and 1 confirmations: the operator chooses them
\* so that deeper reorganisations do not happen.
ASSUME ConstantsAssumption ==
  /\ None \notin Deposit \cup MintTx
  /\ NetOf \in [Deposit -> Network]
  /\ MinConf \in [Network -> Nat \ {0}]
  /\ Fork \in [Network -> Nat]
  /\ ReorgDepth \in [Network -> Nat]
  /\ \A n \in Network : ReorgDepth[n] < MinConf[n]
  /\ IndexSpace \in Nat \ {0}
  /\ MaxTip \in Nat
  /\ MaxClock \in Nat
  /\ MaxFaults \in Nat

VARIABLES
  clock,     \* wall-clock time, in seconds
  row,       \* the deposits table
  created,   \* its created_at column
  tip,       \* height of each L1 chain
  coin,      \* the L1 outputs paid to deposit addresses
  mintTx,    \* the mint transactions the L2 has accepted
  pc,        \* where the loop is
  snap,      \* the rows of GET /fed/deposits/pending not yet finished
  cur,       \* the deposit being processed
  seenTip,   \* tip as getTipHeight returned it
  found,     \* the coins checkAddressForDeposits counted
  hash,      \* the mint transaction whose receipt is awaited
  faults     \* faults so far

table == <<row, created>>
l1    == <<tip, coin>>
fed   == <<pc, snap, cur, seenTip, found, hash>>
vars  == <<clock, table, l1, mintTx, fed, faults>>

NoIndex == -1
Index   == 0 .. IndexSpace - 1

Status  == {"none", "pending", "confirmed", "minted"}
Row     == [status : Status, index : Index \cup {NoIndex},
            sats : SUBSET Coin, ecx : SUBSET Coin]
NoRow   == [status |-> "none", index |-> NoIndex, sats |-> {}, ecx |-> {}]

CoinState == [st : {"absent", "mempool", "mined", "gone", "spent"},
              addr : (Network \X Index) \cup {None}, height : Nat]
MintState == [st : {"free", "sent", "success", "reverted"},
              dep : Deposit \cup {None}, coins : SUBSET Coin, lost : BOOLEAN]

PCs == {"list", "each", "utxo", "confirm", "mint", "receipt", "record", "rest"}

TypeOK ==
  /\ clock \in Nat
  /\ row \in [Deposit -> Row]
  /\ created \in [Deposit -> Nat]
  /\ tip \in [Network -> Nat]
  /\ coin \in [Coin -> CoinState]
  /\ mintTx \in [MintTx -> MintState]
  /\ pc \in PCs
  /\ snap \in [Deposit -> Row]
  /\ cur \in Deposit \cup {None}
  /\ seenTip \in Nat
  /\ found \in SUBSET Coin
  /\ hash \in MintTx \cup {None}
  /\ faults \in 0 .. MaxFaults

Init ==
  /\ clock = 0
  /\ row = [d \in Deposit |-> NoRow]
  /\ created = [d \in Deposit |-> 0]
  /\ tip = [n \in Network |-> 0]
  /\ coin = [c \in Coin |-> [st |-> "absent", addr |-> None, height |-> 0]]
  /\ mintTx = [m \in MintTx |-> [st |-> "free", dep |-> None, coins |-> {},
                                 lost |-> FALSE]]
  /\ pc = "list"
  /\ snap = [d \in Deposit |-> NoRow]
  /\ cur = None
  /\ seenTip = 0
  /\ found = {}
  /\ hash = None
  /\ faults = 0
(***************************************************************************)
(* Calls.  Outcome is what a caller may meet; every outcome other than     *)
(* "ok" is counted in `faults', which bounds them.                         *)
(***************************************************************************)
Outcome == {"ok", "lost", "down"}

Counted(o) ==
  IF o = "ok" THEN UNCHANGED faults
              ELSE faults < MaxFaults /\ faults' = faults + 1

\* PATCH /v1/fed/deposit/:id writes the fields it is given, whatever the row
\* holds: the API has no guard on the status it overwrites.
PatchDeposit(d, r, o) ==
  /\ row' = IF o = "down" THEN row ELSE [row EXCEPT ![d] = r]
  /\ UNCHANGED created
  /\ Counted(o)

\* Mutant: one address per network.
AddressPerNetwork(n, i) == <<n, 0>>

\* HDWallet.deriveDepositAddress.  Mainnet and betanet use the same keys, but an
\* output is looked for on the chain of its row's network: an address here is
\* the key together with the chain.
Address(n, i) == <<n, i>>

-----------------------------------------------------------------------------
(***************************************************************************)
(* Users and the API's public routes.                                      *)
(***************************************************************************)

\* POST /v1/bridge/deposit
CreateDeposit(d) ==
  /\ row[d].status = "none"
  /\ row' = [row EXCEPT ![d].status = "pending"]
  /\ created' = [created EXCEPT ![d] = clock]
  /\ UNCHANGED <<clock, l1, mintTx, fed, faults>>

\* A user pays to the address that GET /v1/bridge/deposit/:id shows.
Fund(d, c) ==
  /\ row[d].index # NoIndex
  /\ coin[c].st = "absent"
  /\ coin' = [coin EXCEPT ![c] = [st |-> "mempool", height |-> 0,
                                  addr |-> Address(NetOf[d], row[d].index)]]
  /\ UNCHANGED <<clock, table, tip, mintTx, fed, faults>>

-----------------------------------------------------------------------------
(***************************************************************************)
(* The L1 chains (external).  A new block may replace the last k blocks by *)
(* k + 1 others (k = 0: it extends the chain).  An output that waits, or   *)
(* that was in a replaced block, is in one of the new blocks, waits, or is *)
(* gone for good (its inputs were spent elsewhere).                        *)
(***************************************************************************)
Unsettled(n, k) ==
  {c \in Coin : /\ \E i \in Index : coin[c].addr = Address(n, i)
                /\ \/ coin[c].st = "mempool"
                   \/ coin[c].st = "mined" /\ coin[c].height > tip[n] - k}

Fate(n, k) == [st : {"mined"}, height : tip[n] - k + 1 .. tip[n] + 1]
                \cup [st : {"mempool", "gone"}, height : {0}]

NewBlock(n, k) ==
  /\ k <= tip[n]
  /\ tip[n] < MaxTip
  /\ tip' = [tip EXCEPT ![n] = @ + 1]
  /\ \E fate \in [Unsettled(n, k) -> Fate(n, k)] :
       coin' = [c \in Coin |->
                  IF c \in Unsettled(n, k)
                  THEN [coin[c] EXCEPT !.st = fate[c].st, !.height = fate[c].height]
                  ELSE coin[c]]
  /\ UNCHANGED <<clock, table, mintTx, fed, faults>>

\* Wall-clock time, read in seconds by Date.now() / 1000.
Tick ==
  /\ clock < MaxClock
  /\ clock' = clock + 1
  /\ UNCHANGED <<table, l1, mintTx, fed, faults>>

-----------------------------------------------------------------------------
(***************************************************************************)
(* The L2 (external): an accepted mint transaction is executed or reverts. *)
(***************************************************************************)
Execute(m) ==
  /\ mintTx[m].st = "sent"
  /\ mintTx' = [mintTx EXCEPT ![m].st = "success"]
  /\ UNCHANGED <<clock, table, l1, fed, faults>>

Revert(m) ==
  /\ mintTx[m].st = "sent"
  /\ mintTx' = [mintTx EXCEPT ![m].st = "reverted"]
  /\ Counted("down")
  /\ UNCHANGED <<clock, table, l1, fed>>

\* History: the loop goes on although it does not know, or has not recorded,
\* what became of mint transaction m.
Lose(m) == mintTx' = [mintTx EXCEPT ![m].lost = TRUE]

-----------------------------------------------------------------------------
(***************************************************************************)
(* The loop: processPendingDeposits.                                       *)
(***************************************************************************)

\* Deposit d is finished for this cycle, whatever came of it.
Finish(d) ==
  /\ pc' = "each"
  /\ snap' = [snap EXCEPT ![d] = NoRow]
  /\ cur' = None
  /\ seenTip' = 0
  /\ found' = {}
  /\ hash' = None

\* Mutant: confirmed deposits are not listed again.
PendingOnly(d) == row[d].status = "pending"

\* GET /v1/fed/deposits/pending: WHERE status IN ('pending', 'confirmed').
Pending(d) == row[d].status \in {"pending", "confirmed"}

ListPending(o) ==
  /\ pc = "list"
  /\ Counted(o)
  /\ IF o = "ok"
     THEN /\ pc' = "each"
          /\ snap' = [d \in Deposit |-> IF Pending(d) THEN row[d] ELSE NoRow]
     ELSE pc' = "rest" /\ UNCHANGED snap
  /\ UNCHANGED <<clock, table, l1, mintTx, cur, seenTip, found, hash>>

\* The rows come ORDER BY created_at ASC.
Turn(d) ==
  /\ pc = "each"
  /\ snap[d].status # "none"
  /\ \A e \in Deposit : snap[e].status # "none" => created[d] <= created[e]

\* Mutant: the index is counted from 1.
NewIndexFromOne == 1 + (clock % IndexSpace)

\* assignDepositAddress
NewIndex == clock % IndexSpace

\* Mutant: a deposit that has an address is given another one.
AssignAddressAgain(d, o) ==
  /\ Turn(d)
  /\ PatchDeposit(d, [row[d] EXCEPT !.index = NewIndex], o)
  /\ Finish(d)
  /\ UNCHANGED <<clock, l1, mintTx>>

AssignAddress(d, o) ==
  /\ Turn(d)
  /\ snap[d].index = NoIndex
  /\ PatchDeposit(d, [row[d] EXCEPT !.index = NewIndex], o)
  /\ Finish(d)
  /\ UNCHANGED <<clock, l1, mintTx>>

\* Mutant: the fork height is not looked at.
ReadTipUngated(d, o) ==
  /\ Turn(d)
  /\ snap[d].index # NoIndex
  /\ Counted(o)
  /\ LET t == IF o = "ok" THEN tip[NetOf[d]] ELSE 0
     IN  IF snap[d].status = "minted" \/ t = 0
         THEN Finish(d)
         ELSE pc' = "utxo" /\ cur' = d /\ seenTip' = t /\ UNCHANGED <<snap, found, hash>>
  /\ UNCHANGED <<clock, table, l1, mintTx>>

\* processDeposit and checkAddressForDeposits, up to the answer of
\* getTipHeight: a minted row, an unreachable esplora (0) or a chain below the
\* fork height ends the deposit's turn.
ReadTip(d, o) ==
  /\ Turn(d)
  /\ snap[d].index # NoIndex
  /\ Counted(o)
  /\ LET t == IF o = "ok" THEN tip[NetOf[d]] ELSE 0
     IN  IF snap[d].status = "minted" \/ t = 0 \/ t < Fork[NetOf[d]]
         THEN Finish(d)
         ELSE /\ pc' = "utxo"
              /\ cur' = d
              /\ seenTip' = t
              /\ UNCHANGED <<snap, found, hash>>
  /\ UNCHANGED <<clock, table, l1, mintTx>>

\* Mutant: one confirmation too few.
EnoughConfirmationsOffByOne(c, n) ==
  coin[c].st = "mined" /\ seenTip - coin[c].height + 2 >= MinConf[n]

\* The filter of checkAddressForDeposits, with the tip read one call earlier.
EnoughConfirmations(c, n) ==
  coin[c].st = "mined" /\ seenTip - coin[c].height + 1 >= MinConf[n]

Confirmed(n, i) ==
  {c \in Coin : coin[c].addr = Address(n, i) /\ EnoughConfirmations(c, n)}

\* The rest of checkAddressForDeposits: the outputs of the address.
ReadUtxos(o) ==
  /\ pc = "utxo"
  /\ Counted(o)
  /\ LET S == IF o = "ok" THEN Confirmed(NetOf[cur], snap[cur].index) ELSE {}
     IN  IF S = {}
         THEN Finish(cur)
         ELSE /\ pc' = IF snap[cur].status = "pending" THEN "confirm" ELSE "mint"
              /\ found' = S
              /\ UNCHANGED <<snap, cur, seenTip, hash>>
  /\ UNCHANGED <<clock, table, l1, mintTx>>

\* processDeposit: PATCH status 'confirmed'; an error ends the turn.
PatchConfirmed(o) ==
  /\ pc = "confirm"
  /\ PatchDeposit(cur, [row[cur] EXCEPT !.status = "confirmed", !.sats = found], o)
  /\ IF o = "ok"
     THEN pc' = "mint" /\ UNCHANGED <<snap, cur, seenTip, found, hash>>
     ELSE Finish(cur)
  /\ UNCHANGED <<clock, l1, mintTx>>

\* mintEcx: sendTransaction.  When the answer is lost the transaction is in
\* the L2's pool but mintEcx returns null.
SendMint(o) ==
  /\ pc = "mint"
  /\ Counted(o)
  /\ \/ /\ o = "down"
        /\ Finish(cur)
        /\ UNCHANGED mintTx
     \/ /\ o # "down"
        /\ \E m \in MintTx :
             /\ mintTx[m].st = "free"
             /\ mintTx' = [mintTx EXCEPT ![m] = [st |-> "sent", dep |-> cur,
                                                 coins |-> found, lost |-> o = "lost"]]
             /\ IF o = "lost"
                THEN Finish(cur)
                ELSE pc' = "receipt" /\ hash' = m /\ UNCHANGED <<snap, cur, seenTip, found>>
  /\ UNCHANGED <<clock, table, l1>>

\* Mutant: the status of the receipt is not looked at.
ReceiptAny ==
  /\ pc = "receipt"
  /\ mintTx[hash].st \in {"success", "reverted"}
  /\ pc' = "record"
  /\ UNCHANGED <<clock, table, l1, mintTx, snap, cur, seenTip, found, hash, faults>>

\* mintEcx: waitForTransactionReceipt.
ReceiptSuccess ==
  /\ pc = "receipt"
  /\ mintTx[hash].st = "success"
  /\ pc' = "record"
  /\ UNCHANGED <<clock, table, l1, mintTx, snap, cur, seenTip, found, hash, faults>>

ReceiptReverted ==
  /\ pc = "receipt"
  /\ mintTx[hash].st = "reverted"
  /\ Finish(cur)
  /\ UNCHANGED <<clock, table, l1, mintTx, faults>>

\* The wait times out or the RPC fails: mintEcx returns null, the transaction
\* may still be executed.
ReceiptError ==
  /\ pc = "receipt"
  /\ Counted("lost")
  /\ Lose(hash)
  /\ Finish(cur)
  /\ UNCHANGED <<clock, table, l1>>

\* Mutant: the mint is recorded without the status.
PatchMintedNoStatus(o) ==
  /\ pc = "record"
  /\ PatchDeposit(cur, [row[cur] EXCEPT !.ecx = found], o)
  /\ IF o = "down" THEN Lose(hash) ELSE UNCHANGED mintTx
  /\ Finish(cur)
  /\ UNCHANGED <<clock, l1>>

\* processDeposit: PATCH status 'minted'.
PatchMinted(o) ==
  /\ pc = "record"
  /\ PatchDeposit(cur, [row[cur] EXCEPT !.status = "minted", !.ecx = found], o)
  /\ IF o = "down" THEN Lose(hash) ELSE UNCHANGED mintTx
  /\ Finish(cur)
  /\ UNCHANGED <<clock, l1>>

\* The withdrawals of the same cycle (the other half of the loop, here as an
\* environment) spend any output, confirmed or not, at the address of a funded
\* row: one that GET /v1/fed/deposits/funded lists because amount_sats is set.
SpendByWithdrawal(c) ==
  /\ pc = "rest"
  /\ coin[c].st \in {"mempool", "mined"}
  /\ \E d \in Deposit : row[d].sats # {} /\ coin[c].addr = Address(NetOf[d], row[d].index)
  /\ coin' = [coin EXCEPT ![c].st = "spent"]
  /\ UNCHANGED <<clock, table, tip, mintTx, fed, faults>>

\* End of the list, then the withdrawals, the pause of POLL_MS and the next
\* check-in.
EndOfList ==
  /\ pc = "each"
  /\ \A d \in Deposit : snap[d].status = "none"
  /\ pc' = "rest"
  /\ UNCHANGED <<clock, table, l1, mintTx, snap, cur, seenTip, found, hash, faults>>

NextCycle ==
  /\ pc = "rest"
  /\ pc' = "list"
  /\ UNCHANGED <<clock, table, l1, mintTx, snap, cur, seenTip, found, hash, faults>>

\* The container is killed and restarted: the loop's memory is gone.
Crash ==
  /\ pc \notin {"list", "rest"}
  /\ Counted("down")
  /\ pc' = "list"
  /\ snap' = [d \in Deposit |-> NoRow]
  /\ cur' = None
  /\ seenTip' = 0
  /\ found' = {}
  /\ hash' = None
  /\ IF hash # None THEN Lose(hash) ELSE UNCHANGED mintTx
  /\ UNCHANGED <<clock, table, l1>>

-----------------------------------------------------------------------------
Loop ==
  \/ \E o \in {"ok", "down"} :
       ListPending(o) \/ ReadUtxos(o) \/ \E d \in Deposit : ReadTip(d, o)
  \/ \E o \in Outcome :
       \/ \E d \in Deposit : AssignAddress(d, o)
       \/ PatchConfirmed(o) \/ SendMint(o) \/ PatchMinted(o)
  \/ ReceiptSuccess \/ ReceiptReverted \/ ReceiptError
  \/ EndOfList \/ NextCycle

Users ==
  \E d \in Deposit : CreateDeposit(d) \/ \E c \in Coin : Fund(d, c)

Chains ==
  \/ \E n \in Network : \E k \in 0 .. ReorgDepth[n] : NewBlock(n, k)
  \/ \E m \in MintTx : Execute(m) \/ Revert(m)

Withdrawals == \E c \in Coin : SpendByWithdrawal(c)

Next == Loop \/ Users \/ Chains \/ Withdrawals \/ Tick \/ Crash

Spec == Init /\ [][Next]_vars

\* The loop never stops by itself (`while (true)', restart: unless-stopped)
\* and the L2 executes what it accepted.  Time, users and miners owe nothing.
Fairness == WF_vars(Loop) /\ \A m \in MintTx : WF_vars(Execute(m))

FairSpec == Spec /\ Fairness

-----------------------------------------------------------------------------
(***************************************************************************)
(* Properties.                                                             *)
(***************************************************************************)
Live(m) == mintTx[m].st \in {"sent", "success"}

\* A deposit is minted at most once as far as the loop knows: two mint
\* transactions for one deposit that are not reverted can only come about when
\* the loop lost track of one of them (a crash, a lost answer or a receipt
\* time-out between sendTransaction and PATCH 'minted').  processDeposit and
\* the status it reads from its snapshot must see to that.
MintedOnce ==
  \A m1, m2 \in MintTx :
    /\ Live(m1) /\ Live(m2)
    /\ mintTx[m1].dep = mintTx[m2].dep
    /\ m1 # m2
    => mintTx[m1].lost \/ mintTx[m2].lost

\* Coin c was paid to address <<n, i>> and is buried deep enough on the real
\* chain now, not only in what the loop has read.
Final(c, n, i) ==
  /\ coin[c].st \in {"mined", "spent"}
  /\ coin[c].addr = Address(n, i)
  /\ tip[n] - coin[c].height + 1 >= MinConf[n]

\* Every mint, lost ones too, stands on at least one coin at its deposit's own
\* address, and all the coins it counts stay on the chain with the required
\* confirmations for ever: a reorganisation shallower than MIN_CONFIRMATIONS
\* never removes them, although the tip and the outputs are read by two calls
\* (checkAddressForDeposits).  The chain has reached the fork height.
MintsStandOnFinalCoins ==
  \A m \in MintTx :
    mintTx[m].st # "free" =>
      LET d == mintTx[m].dep IN
      /\ mintTx[m].coins # {}
      /\ \A c \in mintTx[m].coins : Final(c, NetOf[d], row[d].index)
      /\ tip[NetOf[d]] >= Fork[NetOf[d]]

\* What can make one coin back two mints: the loop lost track of one of them,
\* or the two deposits were given the same derivation index.
DoubleCreditHasACause ==
  \A m1, m2 \in MintTx :
    /\ Live(m1) /\ Live(m2) /\ m1 # m2
    /\ mintTx[m1].coins \cap mintTx[m2].coins # {}
    => \/ mintTx[m1].lost \/ mintTx[m2].lost
       \/ /\ mintTx[m1].dep # mintTx[m2].dep
          /\ row[mintTx[m1].dep].index = row[mintTx[m2].dep].index

\* A row says 'minted' only for a mint that was executed, for the amount that
\* row records.  That amount covers every coin the row was confirmed for, except
\* those a withdrawal has spent since (PATCH 'confirmed' and PATCH 'minted' may
\* be written cycles apart).
MintedRowsAreTrue ==
  \A d \in Deposit :
    row[d].status = "minted" =>
      /\ \E m \in MintTx : /\ mintTx[m].dep = d
                           /\ mintTx[m].st = "success"
                           /\ ~mintTx[m].lost
                           /\ mintTx[m].coins = row[d].ecx
      /\ row[d].sats # {}
      /\ \A c \in row[d].sats \ row[d].ecx : coin[c].st = "spent"

Rank(s) == CASE s = "none" -> 0 [] s = "pending" -> 1
             [] s = "confirmed" -> 2 [] s = "minted" -> 3

\* The API's PATCH has no guard, yet no step takes a deposit back in the order
\* none, pending, confirmed, minted, changes an address once given, or rewrites
\* the amount of a minted deposit.
RowsGoForward ==
  [][\A d \in Deposit :
       /\ Rank(row'[d].status) >= Rank(row[d].status)
       /\ row[d].index # NoIndex => row'[d].index = row[d].index
       /\ row[d].status = "minted" => row'[d] = row[d]]_vars

\* The loop, its chains and its failures implement the abstract service: a deposit is an order
\* that a mint settles, and while the loop keeps track of a mint that may be executed it sends
\* no other.
OrderState(d) == CASE row[d].status = "none" -> "none"
                   [] row[d].status \in {"pending", "confirmed"} -> "open"
                   [] row[d].status = "minted" -> "settled"
MintsOf(d, lost) == {m \in MintTx : Live(m) /\ mintTx[m].dep = d /\ mintTx[m].lost = lost}

Orders == INSTANCE Settlement WITH
  Order <- Deposit, Tx <- MintTx,
  state <- [d \in Deposit |-> OrderState(d)],
  known <- [d \in Deposit |-> MintsOf(d, FALSE)],
  lost  <- [d \in Deposit |-> MintsOf(d, TRUE)]

SettlesDeposits == Orders!Spec

\* A coin with enough confirmations at the address of a deposit leads to that
\* deposit being minted, whatever the (finitely many) faults, unless a
\* withdrawal takes the coin first.
FundedDepositsAreMinted ==
  \A d \in Deposit, c \in Coin :
    (/\ row[d].index # NoIndex
     /\ Final(c, NetOf[d], row[d].index)
     /\ tip[NetOf[d]] >= Fork[NetOf[d]])
    ~> (row[d].status = "minted" \/ coin[c].st = "spent")

-----------------------------------------------------------------------------
(***************************************************************************)
(* The inductive invariant behind the safety properties.                   *)
(***************************************************************************)
Working == {"utxo", "confirm", "mint", "receipt", "record"}
Minting == {"mint", "receipt", "record"}

\* Program counter and local variables agree.
ControlInv ==
  /\ (cur # None) <=> (pc \in Working)
  /\ (hash # None) <=> (pc \in {"receipt", "record"})
  /\ cur # None => snap[cur].status # "none" /\ snap[cur].index # NoIndex

\* The snapshot is never stale for a row it still holds: only the loop writes,
\* and it drops a row from the snapshot when it is done with it.
SnapshotInv ==
  \A d \in Deposit :
    snap[d].status # "none" =>
      /\ row[d].index = snap[d].index
      /\ snap[d].status \in {"pending", "confirmed"}
      /\ IF d = cur /\ pc \in Minting THEN row[d].status = "confirmed"
                                      ELSE row[d].status = snap[d].status

\* A mint the loop has not lost is recorded, or is the one it is waiting for.
TrackedInv ==
  /\ \A m \in MintTx :
       Live(m) /\ ~mintTx[m].lost => row[mintTx[m].dep].status = "minted" \/ m = hash
  /\ hash # None =>
       /\ mintTx[hash].dep = cur /\ mintTx[hash].coins = found
       /\ mintTx[hash].st # "free" /\ ~mintTx[hash].lost
       /\ pc = "record" => mintTx[hash].st = "success"

\* What the loop has read of the chain holds of the chain.
ReadInv ==
  /\ pc \in Working => /\ seenTip <= tip[NetOf[cur]]
                       /\ Fork[NetOf[cur]] <= seenTip
  /\ pc \in Working \ {"utxo"} =>
       /\ found # {}
       /\ \A c \in found : Final(c, NetOf[cur], row[cur].index)
  /\ pc = "utxo" /\ row[cur].status = "confirmed" =>
       \A c \in row[cur].sats : coin[c].st = "spent" \/ EnoughConfirmations(c, NetOf[cur])
  /\ pc \in Minting => \A c \in row[cur].sats \ found : coin[c].st = "spent"

\* A confirmed row keeps standing on the coins it was confirmed for.
ConfirmedInv ==
  \A d \in Deposit :
    row[d].status \in {"confirmed", "minted"} =>
      /\ row[d].index # NoIndex
      /\ row[d].sats # {}
      /\ \A c \in row[d].sats : Final(c, NetOf[d], row[d].index)

MintInv ==
  \A m \in MintTx :
    mintTx[m].st # "free" =>
      /\ mintTx[m].dep \in Deposit
      /\ row[mintTx[m].dep].index # NoIndex

IInv ==
  /\ TypeOK /\ ControlInv /\ SnapshotInv /\ TrackedInv /\ ReadInv
  /\ ConfirmedInv /\ MintInv
  /\ MintedOnce /\ MintsStandOnFinalCoins /\ MintedRowsAreTrue

-----------------------------------------------------------------------------
(***************************************************************************)
(* What the guide says (guides/bridging-ecx.md); the runs that check these *)
(* find them violated.                                                     *)
(***************************************************************************)

\* "Every deposit receives a unique, single-purpose address": no two deposits
\* on a network share a derivation index.
UniqueAddress ==
  \A d, e \in Deposit :
    /\ d # e /\ NetOf[d] = NetOf[e]
    /\ row[d].index # NoIndex
    => row[d].index # row[e].index

\* "Every post-genesis mint is 1:1-backed by an observed L1 deposit": no coin
\* backs two executed mints.
EveryMintBacked ==
  \A m1, m2 \in MintTx :
    /\ mintTx[m1].st = "success" /\ mintTx[m2].st = "success" /\ m1 # m2
    => mintTx[m1].coins \cap mintTx[m2].coins = {}

\* "When the transaction reaches the required confirmations, the deposit is
\* marked confirmed, then the exact amount is minted": a confirmed deposit is
\* minted in the end.
ConfirmedDepositsAreMinted ==
  \A d \in Deposit : (row[d].status = "confirmed") ~> (row[d].status = "minted")
=============================================================================
