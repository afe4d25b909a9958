-------------------------- MODULE DepositFlowProofs --------------------------
(***************************************************************************)
(* TLAPS proofs for DepositFlow: type correctness and the safety           *)
(* properties, for every number of deposits, coins, networks and mint      *)
(* transactions, every number of faults and every confirmation count       *)
(* larger than the reorganisation depth.                                   *)
(***************************************************************************)
EXTENDS DepositFlow, TLAPS

(* An index taken from the clock (assignDepositAddress) is an index, and NoIndex is not. *)
LEMMA IndexFacts ==
  /\ NoIndex \notin Index
  /\ \A x \in Nat : x % IndexSpace \in Index
BY ConstantsAssumption DEF NoIndex, Index

(* Updates of rows, mint transactions and coins stay in their types. *)
LEMMA RowUpdates ==
  ASSUME NEW r \in Row, NEW S \in SUBSET Coin
  PROVE  /\ \A i \in Index : [r EXCEPT !.index = i] \in Row
         /\ [r EXCEPT !.status = "pending"] \in Row
         /\ [r EXCEPT !.status = "confirmed", !.sats = S] \in Row
         /\ [r EXCEPT !.status = "minted", !.ecx = S] \in Row
BY DEF Row, Status

(* A mint transaction stays one when mintEcx sends it, the L2 runs it or the loop loses it. *)
LEMMA MintUpdates ==
  ASSUME NEW r \in MintState
  PROVE  /\ [r EXCEPT !.st = "success"] \in MintState
         /\ [r EXCEPT !.st = "reverted"] \in MintState
         /\ [r EXCEPT !.lost = TRUE] \in MintState
BY DEF MintState

(* An output stays one when a block settles it or a withdrawal spends it. *)
LEMMA CoinUpdates ==
  ASSUME NEW r \in CoinState,
         NEW f \in [st : {"mined", "mempool", "gone"}, height : Nat]
  PROVE  /\ [r EXCEPT !.st = f.st, !.height = f.height] \in CoinState
         /\ [r EXCEPT !.st = "spent"] \in CoinState
BY DEF CoinState

(* Losing track of a mint keeps the L2 state well typed. *)
LEMMA LoseType ==
  ASSUME TypeOK, NEW m \in MintTx, Lose(m)
  PROVE  mintTx' \in [MintTx -> MintState]
BY MintUpdates DEF TypeOK, Lose

(* What a new block does to an unsettled output is well typed. *)
LEMMA FateType ==
  ASSUME NEW n, NEW k, tip[n] \in Nat, k \in 0 .. tip[n]
  PROVE  Fate(n, k) \subseteq [st : {"mined", "mempool", "gone"}, height : Nat]
BY DEF Fate

(* The empty tables and chains are well typed. *)
LEMMA TypeInit == Init => TypeOK
BY ConstantsAssumption DEF Init, TypeOK, Row, NoRow, Status, CoinState, MintState, PCs

(* Counting a fault keeps the counter within its bound. *)
LEMMA FaultsType ==
  ASSUME TypeOK, NEW o, Counted(o)
  PROVE  faults' \in 0 .. MaxFaults
BY ConstantsAssumption DEF TypeOK, Counted

(* Ending a turn of processPendingDeposits keeps the loop state well typed. *)
LEMMA FinishType ==
  ASSUME TypeOK, NEW d \in Deposit, Finish(d)
  PROVE  /\ pc' \in PCs /\ snap' \in [Deposit -> Row] /\ cur' \in Deposit \cup {None}
         /\ seenTip' \in Nat /\ found' \in SUBSET Coin /\ hash' \in MintTx \cup {None}
BY DEF TypeOK, Finish, PCs, Row, NoRow, Status

(* Every step of the loop, the users and the chains keeps the types. *)
LEMMA TypeStep == ControlInv /\ TypeOK /\ [Next]_vars => TypeOK'
<1> SUFFICES ASSUME ControlInv, TypeOK, [Next]_vars PROVE TypeOK'
  OBVIOUS
<1> USE ConstantsAssumption
<1> USE DEF table, l1, fed
<1>1. ASSUME NEW o, ListPending(o) PROVE TypeOK'
  BY <1>1, FaultsType DEF ListPending, TypeOK, PCs, NoRow, Row, Status
<1>2. ASSUME NEW d \in Deposit, NEW o, AssignAddress(d, o) PROVE TypeOK'
  <2>1. row' \in [Deposit -> Row]
    BY <1>2, IndexFacts, RowUpdates DEF AssignAddress, PatchDeposit, NewIndex, TypeOK
  <2> QED BY <1>2, <2>1, FaultsType, FinishType DEF AssignAddress, PatchDeposit, TypeOK
<1>3. ASSUME NEW d \in Deposit, NEW o, ReadTip(d, o) PROVE TypeOK'
  BY <1>3, FaultsType, FinishType DEF ReadTip, TypeOK, PCs
<1>4. ASSUME NEW o, ReadUtxos(o) PROVE TypeOK'
  BY <1>4, FaultsType, FinishType DEF ReadUtxos, Confirmed, TypeOK, PCs, ControlInv, Working
<1>5. ASSUME NEW o, PatchConfirmed(o) PROVE TypeOK'
  <2>1. cur \in Deposit
    BY <1>5 DEF PatchConfirmed, ControlInv, Working, TypeOK
  <2>2. row' \in [Deposit -> Row]
    BY <1>5, <2>1, RowUpdates DEF PatchConfirmed, PatchDeposit, TypeOK
  <2> QED BY <1>5, <2>1, <2>2, FaultsType, FinishType DEF PatchConfirmed, PatchDeposit, TypeOK, PCs
<1>6. ASSUME NEW o, SendMint(o) PROVE TypeOK'
  <2>1. cur \in Deposit
    BY <1>6 DEF SendMint, ControlInv, Working, TypeOK
  <2>2. mintTx' \in [MintTx -> MintState]
    <3>1. CASE o = "down"
      BY <1>6, <3>1 DEF SendMint, TypeOK
    <3>2. CASE o # "down"
      <4>1. PICK m \in MintTx :
              mintTx' = [mintTx EXCEPT ![m] = [st |-> "sent", dep |-> cur,
                                               coins |-> found, lost |-> o = "lost"]]
        BY <1>6, <3>2, Zenon DEF SendMint
      <4>2. [st |-> "sent", dep |-> cur, coins |-> found, lost |-> o = "lost"] \in MintState
        BY <2>1 DEF TypeOK, MintState
      <4> HIDE DEF MintState
      <4> QED BY <4>1, <4>2 DEF TypeOK
    <3> QED BY <3>1, <3>2
  <2> QED BY <1>6, <2>1, <2>2, FaultsType, FinishType DEF SendMint, TypeOK, PCs
<1>7. CASE ReceiptSuccess
  BY <1>7 DEF ReceiptSuccess, TypeOK, PCs
<1>8. CASE ReceiptReverted
  BY <1>8, FinishType DEF ReceiptReverted, TypeOK, ControlInv, Working
<1>9. CASE ReceiptError
  <2>1. mintTx' \in [MintTx -> MintState]
    BY <1>9, LoseType DEF ReceiptError, TypeOK, ControlInv
  <2> QED BY <1>9, <2>1, FaultsType, FinishType DEF ReceiptError, TypeOK, ControlInv, Working
<1>10. ASSUME NEW o, PatchMinted(o) PROVE TypeOK'
  <2>1. cur \in Deposit
    BY <1>10 DEF PatchMinted, ControlInv, Working, TypeOK
  <2>2. row' \in [Deposit -> Row]
    BY <1>10, <2>1, RowUpdates DEF PatchMinted, PatchDeposit, TypeOK
  <2>3. mintTx' \in [MintTx -> MintState]
    BY <1>10, LoseType DEF PatchMinted, TypeOK, ControlInv
  <2> QED BY <1>10, <2>1, <2>2, <2>3, FaultsType, FinishType DEF PatchMinted, PatchDeposit, TypeOK, PCs
<1>11. CASE EndOfList \/ NextCycle
  BY <1>11 DEF EndOfList, NextCycle, TypeOK, PCs
<1>12. ASSUME NEW d \in Deposit, CreateDeposit(d) PROVE TypeOK'
  BY <1>12, RowUpdates DEF CreateDeposit, TypeOK
<1>13. ASSUME NEW d \in Deposit, NEW c \in Coin, Fund(d, c) PROVE TypeOK'
  <2>1. row[d].index \in Index
    BY <1>13 DEF Fund, TypeOK, Row
  <2>2. coin' \in [Coin -> CoinState]
    BY <1>13, <2>1 DEF Fund, Address, TypeOK, CoinState
  <2> QED BY <1>13, <2>2 DEF Fund, TypeOK
<1>14. ASSUME NEW n \in Network, NEW k \in 0 .. ReorgDepth[n], NewBlock(n, k) PROVE TypeOK'
  <2>1. /\ k <= tip[n]
        /\ tip' = [tip EXCEPT ![n] = @ + 1]
        /\ UNCHANGED <<clock, table, mintTx, fed, faults>>
    BY <1>14, Zenon DEF NewBlock
  <2>2. Fate(n, k) \subseteq [st : {"mined", "mempool", "gone"}, height : Nat]
    BY <2>1, FateType DEF TypeOK
  <2>3. PICK fate \in [Unsettled(n, k) -> Fate(n, k)] :
          coin' = [c \in Coin |->
                     IF c \in Unsettled(n, k)
                     THEN [coin[c] EXCEPT !.st = fate[c].st, !.height = fate[c].height]
                     ELSE coin[c]]
    BY <1>14, Zenon DEF NewBlock
  <2>4. coin' \in [Coin -> CoinState]
    <3>1. ASSUME NEW c \in Coin, c \in Unsettled(n, k)
          PROVE  [coin[c] EXCEPT !.st = fate[c].st, !.height = fate[c].height] \in CoinState
      BY <3>1, <2>2, CoinUpdates DEF TypeOK
    <3> QED BY <2>3, <3>1 DEF TypeOK
  <2> QED BY <2>1, <2>4 DEF TypeOK
<1>15. ASSUME NEW m \in MintTx, Execute(m) \/ Revert(m) PROVE TypeOK'
  <2>1. CASE Execute(m)
    BY <2>1, MintUpdates DEF Execute, TypeOK
  <2>2. CASE Revert(m)
    BY <2>2, MintUpdates, FaultsType DEF Revert, TypeOK
  <2> QED BY <1>15, <2>1, <2>2
<1>16. ASSUME NEW c \in Coin, SpendByWithdrawal(c) PROVE TypeOK'
  BY <1>16 DEF SpendByWithdrawal, TypeOK, CoinState
<1>17. CASE Tick
  BY <1>17 DEF Tick, TypeOK
<1>18. CASE Crash
  <2>1. mintTx' \in [MintTx -> MintState]
    BY <1>18, LoseType DEF Crash, TypeOK
  <2> QED BY <1>18, <2>1, FaultsType DEF Crash, TypeOK, PCs, Row, NoRow, Status
<1>19. CASE UNCHANGED vars
  BY <1>19 DEF vars, TypeOK
<1> QED
  BY <1>1, <1>2, <1>3, <1>4, <1>5, <1>6, <1>7, <1>8, <1>9, <1>10, <1>11, <1>12,
     <1>13, <1>14, <1>15, <1>16, <1>17, <1>18, <1>19
  DEF Next, Loop, Users, Chains, Withdrawals

-----------------------------------------------------------------------------
(***************************************************************************)
(* Facts about one step.                                                   *)
(***************************************************************************)

(* What an action that ends a deposit's turn leaves behind. *)
LEMMA FinishControl ==
  ASSUME NEW d, Finish(d)
  PROVE  /\ pc' = "each" /\ cur' = None /\ hash' = None
         /\ pc' \notin Working
BY DEF Finish, Working

(* Every step keeps the program counter and the local variables of the loop in agreement. *)
LEMMA ControlStep == ControlInv /\ TypeOK /\ [Next]_vars => ControlInv'
<1> SUFFICES ASSUME ControlInv, TypeOK, [Next]_vars PROVE ControlInv'
  OBVIOUS
<1> USE ConstantsAssumption DEF table, l1, fed, Working
<1>1. ASSUME NEW d, Finish(d) PROVE ControlInv'
  BY <1>1 DEF Finish, ControlInv
<1>2. ASSUME UNCHANGED fed PROVE ControlInv'
  BY <1>2 DEF ControlInv
<1>3. ASSUME NEW o, ListPending(o) PROVE ControlInv'
  BY <1>3 DEF ListPending, ControlInv
<1>4. ASSUME NEW d \in Deposit, NEW o, AssignAddress(d, o) PROVE ControlInv'
  BY <1>4, <1>1 DEF AssignAddress
<1>5. ASSUME NEW d \in Deposit, NEW o, ReadTip(d, o) PROVE ControlInv'
  BY <1>5, <1>1 DEF ReadTip, Turn, ControlInv
<1>6. ASSUME NEW o, ReadUtxos(o) PROVE ControlInv'
  BY <1>6, <1>1 DEF ReadUtxos, ControlInv
<1>7. ASSUME NEW o, PatchConfirmed(o) PROVE ControlInv'
  BY <1>7, <1>1 DEF PatchConfirmed, ControlInv
<1>8. ASSUME NEW o, SendMint(o) PROVE ControlInv'
  BY <1>8, <1>1 DEF SendMint, ControlInv
<1>9. CASE ReceiptSuccess
  BY <1>9 DEF ReceiptSuccess, ControlInv
<1>10. CASE ReceiptReverted \/ ReceiptError
  BY <1>10, <1>1 DEF ReceiptReverted, ReceiptError
<1>11. ASSUME NEW o, PatchMinted(o) PROVE ControlInv'
  BY <1>11, <1>1 DEF PatchMinted
<1>12. CASE EndOfList \/ NextCycle
  BY <1>12 DEF EndOfList, NextCycle, ControlInv
<1>13. CASE Users \/ Chains \/ Withdrawals \/ Tick
  <2>1. UNCHANGED fed
    BY <1>13, Zenon DEF Users, CreateDeposit, Fund, Chains, NewBlock, Execute, Revert,
       Withdrawals, SpendByWithdrawal, Tick
  <2> QED BY <1>2, <2>1
<1>14. CASE Crash
  BY <1>14 DEF Crash, ControlInv
<1>15. CASE UNCHANGED vars
  BY <1>15, <1>2 DEF vars
<1> QED
  BY <1>3, <1>4, <1>5, <1>6, <1>7, <1>8, <1>9, <1>10, <1>11, <1>12, <1>13, <1>14, <1>15
  DEF Next, Loop

(* No step touches the table but CreateDeposit and the loop's three PATCHes. *)
LEMMA TableFrame ==
  ASSUME [Next]_vars
  PROVE  \/ UNCHANGED row
         \/ \E d \in Deposit : CreateDeposit(d)
         \/ \E d \in Deposit, o \in Outcome : AssignAddress(d, o)
         \/ \E o \in Outcome : PatchConfirmed(o)
         \/ \E o \in Outcome : PatchMinted(o)
BY Zenon DEF Next, Loop, Users, Chains, Withdrawals, ListPending, ReadUtxos, ReadTip, SendMint,
   ReceiptSuccess, ReceiptReverted, ReceiptError, EndOfList, NextCycle, Fund,
   NewBlock, Execute, Revert, SpendByWithdrawal, Tick, Crash, vars, table

(* The row an unguarded PATCH overwrites is the one the snapshot promised. *)
LEMMA CurrentRow ==
  ASSUME TypeOK, ControlInv, SnapshotInv, pc \in Working
  PROVE  /\ cur \in Deposit
         /\ row[cur] \in Row
         /\ row[cur].status \in {"pending", "confirmed"}
         /\ row[cur].index = snap[cur].index
         /\ row[cur].index \in Index
         /\ pc \in Minting => row[cur].status = "confirmed"
         /\ pc \notin Minting => row[cur].status = snap[cur].status
<1>1. cur \in Deposit
  BY ConstantsAssumption DEF TypeOK, ControlInv
<1>2. snap[cur].status # "none" /\ snap[cur].index # NoIndex
  BY <1>1, ConstantsAssumption DEF ControlInv
<1>3. row[cur] \in Row
  BY <1>1 DEF TypeOK
<1>4. row[cur].index \in Index \cup {NoIndex}
  BY <1>3 DEF Row
<1> QED BY <1>1, <1>2, <1>3, <1>4 DEF SnapshotInv

(* What any step may do to a row: only CreateDeposit and the three PATCHes change one, and forwards. *)
LEMMA RowStep ==
  ASSUME TypeOK, ControlInv, SnapshotInv, [Next]_vars, NEW d \in Deposit
  PROVE  /\ Rank(row'[d].status) >= Rank(row[d].status)
         /\ row[d].index # NoIndex => row'[d].index = row[d].index
         /\ row[d].status = "minted" => row'[d] = row[d]
<1> USE DEF Rank
<1>0. row[d] \in Row /\ row[d].status \in Status
  BY DEF TypeOK, Row
<1>1. CASE UNCHANGED row
  BY <1>0, <1>1 DEF Status
<1>2. ASSUME NEW e \in Deposit, CreateDeposit(e)
      PROVE  /\ Rank(row'[d].status) >= Rank(row[d].status)
             /\ row[d].index # NoIndex => row'[d].index = row[d].index
             /\ row[d].status = "minted" => row'[d] = row[d]
  BY <1>0, <1>2 DEF CreateDeposit, TypeOK, Row, Status
<1>3. ASSUME NEW e \in Deposit, NEW o, AssignAddress(e, o)
      PROVE  /\ Rank(row'[d].status) >= Rank(row[d].status)
             /\ row[d].index # NoIndex => row'[d].index = row[d].index
             /\ row[d].status = "minted" => row'[d] = row[d]
  <2>1. pc = "each" /\ snap[e].status # "none" /\ snap[e].index = NoIndex
    BY <1>3 DEF AssignAddress, Turn
  <2>2. row[e].index = NoIndex /\ row[e].status # "minted"
    BY <2>1 DEF SnapshotInv, Minting
  <2>3. row' = row \/ row' = [row EXCEPT ![e] = [row[e] EXCEPT !.index = NewIndex]]
    BY <1>3 DEF AssignAddress, PatchDeposit
  <2> QED BY <1>0, <2>2, <2>3 DEF TypeOK, Row, Status
<1>4. ASSUME NEW o, PatchConfirmed(o)
      PROVE  /\ Rank(row'[d].status) >= Rank(row[d].status)
             /\ row[d].index # NoIndex => row'[d].index = row[d].index
             /\ row[d].status = "minted" => row'[d] = row[d]
  <2>1. pc = "confirm"
    BY <1>4 DEF PatchConfirmed
  <2>2. row' = row \/ row' = [row EXCEPT ![cur] = [row[cur] EXCEPT !.status = "confirmed", !.sats = found]]
    BY <1>4 DEF PatchConfirmed, PatchDeposit
  <2>3. /\ cur \in Deposit /\ row[cur] \in Row
        /\ row[cur].status \in {"pending", "confirmed"}
    BY <2>1, CurrentRow DEF Working
  <2>4. row'[d] = row[d] \/ (d = cur /\ row'[d] = [row[cur] EXCEPT !.status = "confirmed", !.sats = found])
    BY <2>2, <2>3 DEF TypeOK
  <2>5. \/ row'[d] = row[d]
        \/ /\ row'[d].status = "confirmed" /\ row'[d].index = row[d].index
           /\ row[d].status \in {"pending", "confirmed"}
    BY <2>3, <2>4 DEF Row
  <2> QED BY <1>0, <2>5 DEF Status
<1>5. ASSUME NEW o, PatchMinted(o)
      PROVE  /\ Rank(row'[d].status) >= Rank(row[d].status)
             /\ row[d].index # NoIndex => row'[d].index = row[d].index
             /\ row[d].status = "minted" => row'[d] = row[d]
  <2>1. pc = "record"
    BY <1>5 DEF PatchMinted
  <2>2. row' = row \/ row' = [row EXCEPT ![cur] = [row[cur] EXCEPT !.status = "minted", !.ecx = found]]
    BY <1>5 DEF PatchMinted, PatchDeposit
  <2>3. /\ cur \in Deposit /\ row[cur] \in Row
        /\ row[cur].status \in {"pending", "confirmed"}
    BY <2>1, CurrentRow DEF Working
  <2>4. row'[d] = row[d] \/ (d = cur /\ row'[d] = [row[cur] EXCEPT !.status = "minted", !.ecx = found])
    BY <2>2, <2>3 DEF TypeOK
  <2>5. \/ row'[d] = row[d]
        \/ /\ row'[d].status = "minted" /\ row'[d].index = row[d].index
           /\ row[d].status \in {"pending", "confirmed"}
    BY <2>3, <2>4 DEF Row
  <2> QED BY <1>0, <2>5 DEF Status
<1> QED
  BY <1>1, <1>2, <1>3, <1>4, <1>5, TableFrame

(* Coins at final depth stay there, at the same height; spent coins stay spent. *)
StaysFinal(c, n, i) ==
  /\ Final(c, n, i)'
  /\ coin'[c].height = coin[c].height
  /\ coin[c].st = "spent" => coin'[c].st = "spent"
  /\ tip'[n] >= tip[n]

(* Final coins stay final: the loop waits for more blocks than a reorganisation replaces. *)
LEMMA FinalStable ==
  ASSUME TypeOK, [Next]_vars, NEW c \in Coin, NEW n \in Network, NEW i \in Index,
         Final(c, n, i)
  PROVE  StaysFinal(c, n, i)
<1> USE ConstantsAssumption DEF table, l1, fed, Address
<1> USE DEF StaysFinal
<1>0. coin[c] \in CoinState /\ tip[n] \in Nat /\ coin[c].height \in Nat
  BY DEF TypeOK, CoinState
<1>1. CASE UNCHANGED l1
  BY <1>0, <1>1 DEF Final
<1>2. ASSUME NEW d \in Deposit, NEW e \in Coin, Fund(d, e)
      PROVE  StaysFinal(c, n, i)
  <2>1. e # c
    BY <1>2 DEF Fund, Final
  <2>2. coin'[c] = coin[c] /\ tip' = tip
    BY <1>2, <2>1 DEF Fund, TypeOK
  <2> QED BY <1>0, <2>2 DEF Final
<1>3. ASSUME NEW nn \in Network, NEW k \in 0 .. ReorgDepth[nn], NewBlock(nn, k)
      PROVE  StaysFinal(c, n, i)
  <2>1. tip' = [tip EXCEPT ![nn] = @ + 1]
    BY <1>3, Zenon DEF NewBlock
  <2>2. tip'[n] \in Nat /\ tip'[n] >= tip[n]
    BY <2>1, <1>0 DEF TypeOK
  <2>3. c \notin Unsettled(nn, k) \/ coin[c].st = "spent"
    <3>1. CASE n = nn
      BY <3>1, <1>0 DEF Unsettled, Final
    <3>2. CASE n # nn
      BY <3>2 DEF Unsettled, Final
    <3> QED BY <3>1, <3>2
  <2>4. c \notin Unsettled(nn, k)
    BY <2>3 DEF Unsettled
  <2>5. coin'[c] = coin[c]
    BY <1>3, <2>4, Zenon DEF NewBlock
  <2> QED BY <1>0, <2>2, <2>5 DEF Final
<1>4. ASSUME NEW e \in Coin, SpendByWithdrawal(e)
      PROVE  StaysFinal(c, n, i)
  <2>1. tip' = tip /\ coin'[c].addr = coin[c].addr /\ coin'[c].height = coin[c].height
        /\ coin'[c].st \in {"mined", "spent"}
        /\ (coin[c].st = "spent" => coin'[c].st = "spent")
    BY <1>4, <1>0 DEF SpendByWithdrawal, TypeOK, CoinState, Final
  <2> QED BY <1>0, <2>1 DEF Final
<1>5. \/ UNCHANGED l1
      \/ \E d \in Deposit, e \in Coin : Fund(d, e)
      \/ \E nn \in Network : \E k \in 0 .. ReorgDepth[nn] : NewBlock(nn, k)
      \/ \E e \in Coin : SpendByWithdrawal(e)
  BY Zenon DEF Next, Loop, Users, Chains, Withdrawals, ListPending, AssignAddress, ReadUtxos,
     ReadTip, PatchConfirmed, SendMint, PatchMinted, ReceiptSuccess, ReceiptReverted,
     ReceiptError, EndOfList, NextCycle, CreateDeposit, Execute, Revert, Tick, Crash, vars
<1> QED BY <1>1, <1>2, <1>3, <1>4, <1>5

-----------------------------------------------------------------------------
(***************************************************************************)
(* The snapshot.                                                           *)
(***************************************************************************)
(* Ending a turn drops one row of the snapshot and leaves the others. *)
LEMMA FinishSnapshot ==
  ASSUME TypeOK, ControlInv, SnapshotInv, NEW d \in Deposit, Finish(d),
         \A e \in Deposit : e # d => row'[e] = row[e],
         cur = d \/ pc = "each"
  PROVE  SnapshotInv'
<1>1. SUFFICES ASSUME NEW e \in Deposit, snap'[e].status # "none"
               PROVE  /\ row'[e].index = snap'[e].index
                      /\ snap'[e].status \in {"pending", "confirmed"}
                      /\ row'[e].status = snap'[e].status
  BY FinishControl DEF SnapshotInv, Working, Minting
<1>2. e # d /\ snap'[e] = snap[e]
  BY <1>1 DEF Finish, NoRow, TypeOK
<1>3. row'[e] = row[e]
  BY <1>2
<1>4. e # cur \/ pc \notin Minting
  BY <1>2, ConstantsAssumption DEF ControlInv, Working, Minting
<1> QED BY <1>1, <1>2, <1>3, <1>4 DEF SnapshotInv

(* Every step keeps the snapshot of GET /v1/fed/deposits/pending in agreement with the table. *)
LEMMA SnapshotStep == TypeOK /\ ControlInv /\ SnapshotInv /\ [Next]_vars => SnapshotInv'
<1> SUFFICES ASSUME TypeOK, ControlInv, SnapshotInv, [Next]_vars PROVE SnapshotInv'
  OBVIOUS
<1> USE ConstantsAssumption DEF table, l1, fed
<1>0. pc \in Working => cur \in Deposit
  BY CurrentRow
<1>1. ASSUME UNCHANGED <<row, fed>> PROVE SnapshotInv'
  BY <1>1 DEF SnapshotInv
<1>2. ASSUME NEW o, ListPending(o) PROVE SnapshotInv'
  <2>1. CASE o = "ok"
    <3>1. row' = row /\ pc' = "each"
          /\ \A d \in Deposit : snap'[d] = IF row[d].status \in {"pending", "confirmed"}
                                           THEN row[d] ELSE NoRow
      BY <1>2, <2>1 DEF ListPending, Pending
    <3> QED BY <3>1 DEF SnapshotInv, NoRow, Minting
  <2>2. CASE o # "ok"
    BY <1>2, <2>2 DEF ListPending, SnapshotInv, Minting
  <2> QED BY <2>1, <2>2
<1>3. ASSUME NEW d \in Deposit, NEW o, AssignAddress(d, o) PROVE SnapshotInv'
  <2>1. \A e \in Deposit : e # d => row'[e] = row[e]
    BY <1>3 DEF AssignAddress, PatchDeposit, TypeOK
  <2> QED BY <1>3, <2>1, FinishSnapshot DEF AssignAddress, Turn
<1>4. ASSUME NEW d \in Deposit, NEW o, ReadTip(d, o) PROVE SnapshotInv'
  <2>1. CASE Finish(d)
    BY <1>4, <2>1, FinishSnapshot DEF ReadTip, Turn
  <2>2. CASE ~Finish(d)
    BY <1>4, <2>2 DEF ReadTip, Turn, SnapshotInv, Minting
  <2> QED BY <2>1, <2>2
<1>5. ASSUME NEW o, ReadUtxos(o) PROVE SnapshotInv'
  <2>1. CASE Finish(cur)
    BY <1>5, <2>1, <1>0, FinishSnapshot DEF ReadUtxos, Working
  <2>2. CASE ~Finish(cur)
    <3>1. pc = "utxo" /\ pc' = (IF snap[cur].status = "pending" THEN "confirm" ELSE "mint")
          /\ UNCHANGED <<row, snap, cur>>
      BY <1>5, <2>2 DEF ReadUtxos
    <3> QED BY <3>1 DEF SnapshotInv, Minting
  <2> QED BY <2>1, <2>2
<1>6. ASSUME NEW o, PatchConfirmed(o) PROVE SnapshotInv'
  <2>0. cur \in Deposit /\ pc = "confirm"
    BY <1>6, <1>0 DEF PatchConfirmed, Working
  <2>1. \A e \in Deposit : e # cur => row'[e] = row[e]
    BY <1>6, <2>0 DEF PatchConfirmed, PatchDeposit, TypeOK
  <2>2. CASE o # "ok"
    BY <1>6, <2>0, <2>1, <2>2, FinishSnapshot DEF PatchConfirmed
  <2>3. CASE o = "ok"
    <3>1. pc' = "mint" /\ snap' = snap /\ cur' = cur
      BY <1>6, <2>3 DEF PatchConfirmed
    <3>2. row'[cur] = [row[cur] EXCEPT !.status = "confirmed", !.sats = found]
      BY <1>6, <2>0, <2>3 DEF PatchConfirmed, PatchDeposit, TypeOK
    <3>3. row'[cur].status = "confirmed" /\ row'[cur].index = row[cur].index
      BY <3>2, <2>0 DEF TypeOK, Row
    <3> QED BY <2>0, <2>1, <3>1, <3>3 DEF SnapshotInv, Minting
  <2> QED BY <2>2, <2>3
<1>7. ASSUME NEW o, SendMint(o) PROVE SnapshotInv'
  <2>1. CASE Finish(cur)
    BY <1>7, <2>1, <1>0, FinishSnapshot DEF SendMint, Working
  <2>2. CASE ~Finish(cur)
    <3>1. pc = "mint" /\ pc' = "receipt" /\ UNCHANGED <<row, snap, cur>>
      BY <1>7, <2>2 DEF SendMint
    <3> QED BY <3>1 DEF SnapshotInv, Minting
  <2> QED BY <2>1, <2>2
<1>8. CASE ReceiptSuccess
  BY <1>8 DEF ReceiptSuccess, SnapshotInv, Minting
<1>9. CASE ReceiptReverted \/ ReceiptError
  BY <1>9, <1>0, FinishSnapshot DEF ReceiptReverted, ReceiptError, Working
<1>10. ASSUME NEW o, PatchMinted(o) PROVE SnapshotInv'
  <2>1. cur \in Deposit
    BY <1>10, <1>0 DEF PatchMinted, Working
  <2>2. \A e \in Deposit : e # cur => row'[e] = row[e]
    BY <1>10, <2>1 DEF PatchMinted, PatchDeposit, TypeOK
  <2> QED BY <1>10, <2>1, <2>2, FinishSnapshot DEF PatchMinted
<1>11. CASE EndOfList \/ NextCycle
  BY <1>11 DEF EndOfList, NextCycle, SnapshotInv, Minting
<1>12. ASSUME NEW d \in Deposit, CreateDeposit(d) PROVE SnapshotInv'
  <2>1. snap[d].status = "none"
    BY <1>12 DEF CreateDeposit, SnapshotInv
  <2>2. UNCHANGED fed /\ \A e \in Deposit : e # d => row'[e] = row[e]
    BY <1>12 DEF CreateDeposit, TypeOK
  <2> QED BY <2>1, <2>2 DEF SnapshotInv
<1>13. CASE Crash
  BY <1>13 DEF Crash, SnapshotInv, NoRow
<1>14. ASSUME UNCHANGED <<row, fed>> \/ Chains \/ Withdrawals \/ Tick
              \/ \E d \in Deposit, c \in Coin : Fund(d, c)
       PROVE SnapshotInv'
  <2>1. UNCHANGED <<row, fed>>
    BY <1>14, Zenon DEF Fund, Chains, NewBlock, Execute, Revert, Withdrawals, SpendByWithdrawal, Tick
  <2> QED BY <1>1, <2>1
<1> QED
  BY <1>2, <1>3, <1>4, <1>5, <1>6, <1>7, <1>8, <1>9, <1>10, <1>11, <1>12, <1>13, <1>14
  DEF Next, Loop, Users, vars

-----------------------------------------------------------------------------
(***************************************************************************)
(* Final coins under the deposits and mints that count them.               *)
(***************************************************************************)
(* Coins final at the address of a row stay final there, as the row keeps its index. *)
LEMMA FinalAtRow ==
  ASSUME TypeOK, ControlInv, SnapshotInv, [Next]_vars,
         NEW d \in Deposit, row[d].index # NoIndex,
         NEW c \in Coin, Final(c, NetOf[d], row[d].index)
  PROVE  /\ Final(c, NetOf[d], row[d].index)'
         /\ row'[d].index = row[d].index
         /\ coin'[c].height = coin[c].height
         /\ coin[c].st = "spent" => coin'[c].st = "spent"
         /\ tip'[NetOf[d]] >= tip[NetOf[d]]
<1>1. row[d].index \in Index
  BY DEF TypeOK, Row
<1>2. PICK i \in Index : i = row[d].index
  BY <1>1
<1>3. NetOf[d] \in Network
  BY ConstantsAssumption
<1>4. StaysFinal(c, NetOf[d], i)
  BY <1>2, <1>3, FinalStable
<1>5. row'[d].index = i
  BY <1>2, RowStep
<1> QED BY <1>2, <1>4, <1>5 DEF Final, StaysFinal

(* How a mint transaction may change in one step. *)
MintCreated(m) ==
  /\ mintTx[m].st = "free" /\ pc = "mint"
  /\ mintTx'[m].st = "sent" /\ mintTx'[m].dep = cur /\ mintTx'[m].coins = found
  /\ \A k \in MintTx : k # m => mintTx'[k] = mintTx[k]
  /\ UNCHANGED <<table, l1>>

MintKept(m) ==
  /\ mintTx'[m].dep = mintTx[m].dep
  /\ mintTx'[m].coins = mintTx[m].coins
  /\ \/ mintTx'[m].st = mintTx[m].st
     \/ mintTx[m].st = "sent" /\ mintTx'[m].st \in {"success", "reverted"}
  /\ mintTx[m].lost => mintTx'[m].lost
  /\ mintTx'[m].lost => mintTx[m].lost \/ m = hash

(* Only mintEcx starts a mint transaction; what it was sent for never changes. *)
LEMMA MintFrame ==
  ASSUME TypeOK, ControlInv, [Next]_vars, NEW m \in MintTx
  PROVE  MintKept(m) \/ MintCreated(m)
<1> USE ConstantsAssumption DEF table, l1, fed
<1>0. mintTx[m] \in MintState
  BY DEF TypeOK
<1>1. CASE UNCHANGED mintTx
  BY <1>1 DEF MintKept
<1>2. ASSUME NEW k \in MintTx, Lose(k), k = hash PROVE MintKept(m)
  BY <1>2, <1>0 DEF Lose, MintKept, TypeOK, MintState
<1>3. ASSUME NEW k \in MintTx, Execute(k) \/ Revert(k) PROVE MintKept(m)
  BY <1>3, <1>0 DEF Execute, Revert, MintKept, TypeOK, MintState
<1>4. ASSUME NEW o, SendMint(o) PROVE MintKept(m) \/ MintCreated(m)
  <2>1. CASE o = "down"
    BY <1>4, <2>1, <1>1 DEF SendMint
  <2>2. CASE o # "down"
    <3>1. PICK k \in MintTx :
            /\ mintTx[k].st = "free"
            /\ mintTx' = [mintTx EXCEPT ![k] = [st |-> "sent", dep |-> cur,
                                                coins |-> found, lost |-> o = "lost"]]
      BY <1>4, <2>2, Zenon DEF SendMint
    <3>2. pc = "mint" /\ UNCHANGED <<table, l1>>
      BY <1>4 DEF SendMint
    <3>3. CASE k = m
      BY <3>1, <3>2, <3>3 DEF MintCreated, TypeOK
    <3>4. CASE k # m
      BY <3>1, <3>4 DEF MintKept, TypeOK
    <3> QED BY <3>3, <3>4
  <2> QED BY <2>1, <2>2
<1>5. hash \in MintTx \cup {None} /\ (pc \in {"receipt", "record"} => hash \in MintTx)
  BY DEF TypeOK, ControlInv
<1>6. CASE ReceiptError
  BY <1>6, <1>5, <1>2 DEF ReceiptError
<1>7. ASSUME NEW o, PatchMinted(o) PROVE MintKept(m)
  BY <1>7, <1>5, <1>2, <1>1 DEF PatchMinted, MintKept
<1>8. CASE Crash
  BY <1>8, <1>5, <1>2, <1>1 DEF Crash, MintKept
<1>9. \/ UNCHANGED mintTx
      \/ \E k \in MintTx : Execute(k) \/ Revert(k)
      \/ \E o \in Outcome : SendMint(o)
      \/ ReceiptError
      \/ \E o \in Outcome : PatchMinted(o)
      \/ Crash
  BY Zenon DEF Next, Loop, Users, Chains, Withdrawals, ListPending, AssignAddress, ReadUtxos,
     ReadTip, PatchConfirmed, ReceiptSuccess, ReceiptReverted,
     EndOfList, NextCycle, CreateDeposit, Fund, NewBlock, SpendByWithdrawal, Tick, vars
<1> QED BY <1>1, <1>3, <1>4, <1>6, <1>7, <1>8, <1>9

(* Every mint transaction is for a deposit that has an address. *)
LEMMA MintInvStep ==
  TypeOK /\ ControlInv /\ SnapshotInv /\ MintInv /\ [Next]_vars => MintInv'
<1> SUFFICES ASSUME TypeOK, ControlInv, SnapshotInv, MintInv, [Next]_vars,
                    NEW m \in MintTx, mintTx'[m].st # "free"
             PROVE  /\ mintTx'[m].dep \in Deposit
                    /\ row'[mintTx'[m].dep].index # NoIndex
  BY DEF MintInv
<1>1. CASE MintKept(m)
  <2>1. mintTx[m].st # "free" /\ mintTx'[m].dep = mintTx[m].dep
    BY <1>1 DEF MintKept
  <2>2. PICK d \in Deposit : d = mintTx[m].dep /\ row[d].index # NoIndex
    BY <2>1 DEF MintInv
  <2> QED BY <2>1, <2>2, RowStep
<1>2. CASE MintCreated(m)
  <2>1. pc \in Working
    BY <1>2 DEF MintCreated, Working
  <2> QED BY <1>2, <2>1, CurrentRow, IndexFacts DEF MintCreated, table
<1> QED BY <1>1, <1>2, MintFrame

(* Every step keeps the mints standing on final coins. *)
LEMMA MintsStandStep ==
  /\ TypeOK /\ ControlInv /\ SnapshotInv /\ ReadInv /\ MintInv
  /\ MintsStandOnFinalCoins /\ [Next]_vars
  => MintsStandOnFinalCoins'
<1> SUFFICES ASSUME TypeOK, ControlInv, SnapshotInv, ReadInv, MintInv,
                    MintsStandOnFinalCoins, [Next]_vars,
                    NEW m \in MintTx, mintTx'[m].st # "free"
             PROVE  /\ mintTx'[m].coins # {}
                    /\ \A c \in mintTx'[m].coins :
                         Final(c, NetOf[mintTx[m].dep], row[mintTx[m].dep].index)'
                    /\ tip'[NetOf[mintTx'[m].dep]] >= Fork[NetOf[mintTx'[m].dep]]
  BY DEF MintsStandOnFinalCoins
<1>1. CASE MintKept(m)
  <2>1. mintTx[m].st # "free" /\ mintTx'[m].dep = mintTx[m].dep /\ mintTx'[m].coins = mintTx[m].coins
    BY <1>1 DEF MintKept
  <2>2. PICK d \in Deposit : d = mintTx[m].dep /\ row[d].index # NoIndex
    BY <2>1 DEF MintInv
  <2>3. /\ mintTx[m].coins # {} /\ mintTx[m].coins \subseteq Coin
        /\ \A c \in mintTx[m].coins : Final(c, NetOf[d], row[d].index)
        /\ tip[NetOf[d]] >= Fork[NetOf[d]]
    BY <2>1, <2>2 DEF MintsStandOnFinalCoins, TypeOK, MintState
  <2>4. \A c \in mintTx[m].coins :
          Final(c, NetOf[d], row[d].index)' /\ tip'[NetOf[d]] >= tip[NetOf[d]]
    BY <2>2, <2>3, FinalAtRow
  <2>5. tip'[NetOf[d]] >= tip[NetOf[d]]
    BY <2>3, <2>4
  <2>6. tip[NetOf[d]] \in Nat /\ tip'[NetOf[d]] \in Nat /\ Fork[NetOf[d]] \in Nat
    BY ConstantsAssumption, TypeStep DEF TypeOK
  <2> QED BY <2>1, <2>2, <2>3, <2>4, <2>5, <2>6
<1>2. CASE MintCreated(m)
  <2>1. pc = "mint"
    BY <1>2 DEF MintCreated
  <2>2. /\ found # {}
        /\ \A c \in found : Final(c, NetOf[cur], row[cur].index)
        /\ seenTip <= tip[NetOf[cur]] /\ Fork[NetOf[cur]] <= seenTip
    BY <2>1 DEF ReadInv, Working
  <2>3. cur \in Deposit
    BY <2>1, CurrentRow DEF Working
  <2>4. tip[NetOf[cur]] \in Nat /\ Fork[NetOf[cur]] \in Nat /\ seenTip \in Nat
    BY <2>3, ConstantsAssumption DEF TypeOK
  <2> QED BY <1>2, <2>2, <2>3, <2>4 DEF MintCreated, table, l1, Final
<1> QED BY <1>1, <1>2, MintFrame

-----------------------------------------------------------------------------
(***************************************************************************)
(* What the loop has read, and the rows it has confirmed.                  *)
(***************************************************************************)
(* An L1 chain never gets shorter. *)
LEMMA TipStep ==
  ASSUME TypeOK, [Next]_vars, NEW n \in Network
  PROVE  tip'[n] >= tip[n] /\ tip[n] \in Nat
<1>1. tip[n] \in Nat
  BY DEF TypeOK
<1>2. tip' = tip \/ \E k \in Network : tip' = [tip EXCEPT ![k] = @ + 1]
  BY Zenon DEF Next, Loop, Users, Chains, Withdrawals, ListPending, AssignAddress, ReadUtxos,
     ReadTip, PatchConfirmed, SendMint, PatchMinted, ReceiptSuccess, ReceiptReverted,
     ReceiptError, EndOfList, NextCycle, CreateDeposit, Fund, NewBlock, Execute, Revert,
     SpendByWithdrawal, Tick, Crash, vars, l1
<1> QED BY <1>1, <1>2 DEF TypeOK

(* What was read stays true while the loop works on the same deposit and row. *)
LEMMA ReadKept ==
  ASSUME TypeOK, ControlInv, SnapshotInv, ReadInv, ConfirmedInv, [Next]_vars,
         pc' \in Working, cur' = cur, seenTip' = seenTip, found' = found,
         row'[cur] = row[cur], pc' = pc \/ (pc \in Minting /\ pc' \in Minting)
  PROVE  ReadInv'
<1>0. pc \in Working
  BY DEF Working, Minting
<1>1. /\ cur \in Deposit /\ row[cur].index \in Index /\ row[cur].index # NoIndex
      /\ row[cur].sats \subseteq Coin
  BY <1>0, CurrentRow, IndexFacts DEF Row
<1>2. NetOf[cur] \in Network /\ seenTip \in Nat /\ found \subseteq Coin
  BY <1>1, ConstantsAssumption DEF TypeOK
<1>3. seenTip' <= tip'[NetOf[cur']] /\ Fork[NetOf[cur']] <= seenTip'
  <2>1. seenTip <= tip[NetOf[cur]] /\ Fork[NetOf[cur]] <= seenTip
    BY <1>0 DEF ReadInv
  <2>2. tip'[NetOf[cur]] >= tip[NetOf[cur]] /\ tip[NetOf[cur]] \in Nat
    BY <1>2, TipStep
  <2>3. tip'[NetOf[cur]] \in Nat
    BY <1>2, TypeStep DEF TypeOK
  <2> QED BY <1>2, <2>1, <2>2, <2>3
<1>4. ASSUME pc' # "utxo"
      PROVE  found' # {} /\ \A c \in found' : Final(c, NetOf[cur], row[cur].index)'
  <2>1. found # {} /\ \A c \in found : Final(c, NetOf[cur], row[cur].index)
    BY <1>0, <1>4 DEF ReadInv, Minting
  <2>2. \A c \in found : Final(c, NetOf[cur], row[cur].index)'
    <3> SUFFICES ASSUME NEW c \in found PROVE Final(c, NetOf[cur], row[cur].index)'
      OBVIOUS
    <3>1. PICK d \in Deposit : d = cur
      BY <1>1
    <3>2. Final(c, NetOf[d], row[d].index)'
      BY <1>1, <1>2, <2>1, <3>1, FinalAtRow
    <3> QED BY <3>1, <3>2
  <2> QED BY <2>1, <2>2
<1>5. ASSUME row[cur].status = "confirmed", NEW c \in row[cur].sats
      PROVE  /\ coin'[c].height = coin[c].height
             /\ coin'[c].st = "spent" \/ coin'[c].st = "mined"
             /\ coin[c].st = "spent" => coin'[c].st = "spent"
  <2>1. c \in Coin /\ Final(c, NetOf[cur], row[cur].index)
    BY <1>1, <1>5 DEF ConfirmedInv
  <2>2. PICK d \in Deposit : d = cur
    BY <1>1
  <2>3. /\ Final(c, NetOf[d], row[d].index)'
        /\ coin'[c].height = coin[c].height
        /\ coin[c].st = "spent" => coin'[c].st = "spent"
    BY <1>1, <2>1, <2>2, FinalAtRow
  <2> QED BY <2>3 DEF Final
<1>6. ASSUME pc' = "utxo", row'[cur'].status = "confirmed", NEW c \in row'[cur'].sats
      PROVE  (coin[c].st = "spent" \/ EnoughConfirmations(c, NetOf[cur]))'
  <2>1. pc = "utxo" /\ c \in row[cur].sats /\ row[cur].status = "confirmed"
    BY <1>6 DEF Minting
  <2>2. coin[c].st = "spent" \/ EnoughConfirmations(c, NetOf[cur])
    BY <2>1 DEF ReadInv
  <2> QED BY <1>5, <2>1, <2>2 DEF EnoughConfirmations
<1>7. ASSUME pc' \in Minting
      PROVE  \A c \in row'[cur'].sats \ found' : coin'[c].st = "spent"
  <2>1. pc \in Minting /\ row[cur].status = "confirmed"
    BY <1>7, <1>0, CurrentRow
  <2> QED BY <1>5, <2>1 DEF ReadInv
<1> QED BY <1>3, <1>4, <1>6, <1>7 DEF ReadInv, Working

(* Every step keeps what checkAddressForDeposits has read true of the chain. *)
LEMMA ReadStep ==
  TypeOK /\ ControlInv /\ SnapshotInv /\ ReadInv /\ ConfirmedInv /\ [Next]_vars => ReadInv'
<1> SUFFICES ASSUME TypeOK, ControlInv, SnapshotInv, ReadInv, ConfirmedInv, [Next]_vars
             PROVE  ReadInv'
  OBVIOUS
<1> USE ConstantsAssumption DEF table, l1, fed
<1>1. ASSUME pc' \notin Working PROVE ReadInv'
  BY <1>1 DEF ReadInv, Working, Minting
<1>2. ASSUME NEW d, Finish(d) PROVE ReadInv'
  BY <1>1, <1>2, FinishControl
<1>3. ASSUME UNCHANGED fed, cur \in Deposit => row'[cur] = row[cur] PROVE ReadInv'
  <2>1. CASE pc \in Working
    BY <1>3, <2>1, ReadKept, CurrentRow
  <2> QED BY <1>1, <1>3, <2>1
<1>4. ASSUME NEW o, ListPending(o) PROVE ReadInv'
  BY <1>1, <1>4 DEF ListPending, Working
<1>5. ASSUME NEW d \in Deposit, NEW o, ReadTip(d, o) PROVE ReadInv'
  <2>1. CASE Finish(d)
    BY <1>2, <2>1
  <2>2. CASE ~Finish(d)
    <3>1. /\ pc' = "utxo" /\ cur' = d /\ seenTip' = tip[NetOf[d]]
          /\ seenTip' >= Fork[NetOf[d]] /\ UNCHANGED <<row, tip, coin>>
      BY <1>5, <2>2 DEF ReadTip, TypeOK
    <3>2. tip[NetOf[d]] \in Nat /\ Fork[NetOf[d]] \in Nat
      BY DEF TypeOK
    <3>3. ASSUME row[d].status = "confirmed", NEW c \in row[d].sats
          PROVE  (coin[c].st = "spent" \/ EnoughConfirmations(c, NetOf[cur]))'
      <4>1. Final(c, NetOf[d], row[d].index)
        BY <3>3 DEF ConfirmedInv
      <4> QED BY <4>1, <3>1 DEF Final, EnoughConfirmations
    <3> QED BY <3>1, <3>2, <3>3 DEF ReadInv, Working, Minting
  <2> QED BY <2>1, <2>2
<1>6. ASSUME NEW o, ReadUtxos(o) PROVE ReadInv'
  <2>1. CASE Finish(cur)
    BY <1>2, <2>1
  <2>2. CASE ~Finish(cur)
    <3>1. /\ pc = "utxo" /\ pc' = (IF snap[cur].status = "pending" THEN "confirm" ELSE "mint")
          /\ found' = Confirmed(NetOf[cur], snap[cur].index) /\ found' # {}
          /\ UNCHANGED <<row, tip, coin, cur, seenTip>>
      BY <1>6, <2>2 DEF ReadUtxos
    <3>2. /\ cur \in Deposit /\ row[cur].index = snap[cur].index
          /\ row[cur].status = snap[cur].status /\ row[cur].sats \subseteq Coin
          /\ row[cur].status \in {"pending", "confirmed"}
      BY <3>1, CurrentRow DEF Working, Minting, Row
    <3>3. /\ seenTip <= tip[NetOf[cur]] /\ Fork[NetOf[cur]] <= seenTip
          /\ tip[NetOf[cur]] \in Nat /\ seenTip \in Nat /\ MinConf[NetOf[cur]] \in Nat
      BY <3>1, <3>2 DEF ReadInv, Working, TypeOK
    <3>4. ASSUME NEW c \in found' PROVE Final(c, NetOf[cur], row[cur].index)'
      <4>1. c \in Coin /\ coin[c].height \in Nat
        BY <3>1 DEF Confirmed, TypeOK, CoinState
      <4> QED BY <3>1, <3>2, <3>3, <4>1 DEF Confirmed, EnoughConfirmations, Final
    <3>5. ASSUME pc' \in Minting, NEW c \in row'[cur'].sats \ found' PROVE coin'[c].st = "spent"
      <4>1. row[cur].status = "confirmed" /\ c \in row[cur].sats
        BY <3>1, <3>2, <3>5 DEF Minting
      <4>2. coin[c].st = "spent" \/ EnoughConfirmations(c, NetOf[cur])
        BY <3>1, <4>1 DEF ReadInv
      <4>3. coin[c].addr = Address(NetOf[cur], snap[cur].index)
        BY <3>2, <4>1 DEF ConfirmedInv, Final
      <4>4. c \in Coin /\ c \notin Confirmed(NetOf[cur], snap[cur].index)
        BY <3>1, <3>2, <3>5, <4>1
      <4> QED BY <3>1, <4>2, <4>3, <4>4 DEF Confirmed
    <3> QED BY <3>1, <3>3, <3>4, <3>5 DEF ReadInv, Working, Minting
  <2> QED BY <2>1, <2>2
<1>7. ASSUME NEW o, PatchConfirmed(o) PROVE ReadInv'
  <2>1. CASE o # "ok"
    BY <1>2, <1>7, <2>1 DEF PatchConfirmed
  <2>2. CASE o = "ok"
    <3>1. pc = "confirm" /\ pc' = "mint" /\ UNCHANGED <<cur, seenTip, found, tip, coin>>
      BY <1>7, <2>2 DEF PatchConfirmed
    <3>2. cur \in Deposit /\ row[cur] \in Row
      BY <3>1, CurrentRow DEF Working
    <3>3. row'[cur] = [row[cur] EXCEPT !.status = "confirmed", !.sats = found]
      BY <1>7, <2>2, <3>2 DEF PatchConfirmed, PatchDeposit, TypeOK
    <3>4. row'[cur].sats = found /\ row'[cur].index = row[cur].index
      BY <3>2, <3>3 DEF Row
    <3> QED BY <3>1, <3>4 DEF ReadInv, Working, Minting, Final
  <2> QED BY <2>1, <2>2
<1>8. ASSUME NEW o, SendMint(o) PROVE ReadInv'
  <2>1. CASE Finish(cur)
    BY <1>2, <2>1
  <2>2. CASE ~Finish(cur)
    <3>1. pc = "mint" /\ pc' = "receipt" /\ UNCHANGED <<row, cur, seenTip, found>>
      BY <1>8, <2>2 DEF SendMint
    <3> QED BY <3>1, ReadKept DEF Minting, Working
  <2> QED BY <2>1, <2>2
<1>9. CASE ReceiptSuccess
  BY <1>9, ReadKept DEF ReceiptSuccess, Minting, Working
<1>10. CASE ReceiptReverted \/ ReceiptError
  BY <1>2, <1>10 DEF ReceiptReverted, ReceiptError
<1>11. ASSUME NEW d \in Deposit, NEW o, AssignAddress(d, o) PROVE ReadInv'
  BY <1>2, <1>11 DEF AssignAddress
<1>12. CASE EndOfList \/ NextCycle \/ Crash
  BY <1>1, <1>12 DEF EndOfList, NextCycle, Crash, Working
<1>13. ASSUME NEW d \in Deposit, CreateDeposit(d) PROVE ReadInv'
  <2>1. CASE pc \in Working
    <3>1. cur \in Deposit /\ row[cur].status # "none"
      BY <2>1, CurrentRow
    <3> QED BY <1>3, <1>13, <3>1 DEF CreateDeposit, TypeOK
  <2> QED BY <1>1, <1>13, <2>1 DEF CreateDeposit
<1>14. ASSUME UNCHANGED <<row, fed>> \/ Chains \/ Withdrawals \/ Tick
              \/ \E d \in Deposit, c \in Coin : Fund(d, c)
       PROVE ReadInv'
  <2>1. UNCHANGED <<row, fed>>
    BY <1>14, Zenon DEF Fund, Chains, NewBlock, Execute, Revert, Withdrawals, SpendByWithdrawal, Tick
  <2> QED BY <1>3, <2>1
<1>15. ASSUME NEW o, PatchMinted(o) PROVE ReadInv'
  BY <1>2, <1>15 DEF PatchMinted
<1> QED
  BY <1>4, <1>5, <1>6, <1>7, <1>8, <1>9, <1>10, <1>11, <1>12, <1>13, <1>14, <1>15
  DEF Next, Loop, Users, vars

(* Every step keeps confirmed rows standing on their coins. *)
LEMMA ConfirmedStep ==
  TypeOK /\ ControlInv /\ SnapshotInv /\ ReadInv /\ ConfirmedInv /\ [Next]_vars => ConfirmedInv'
<1> SUFFICES ASSUME TypeOK, ControlInv, SnapshotInv, ReadInv, ConfirmedInv, [Next]_vars,
                    NEW d \in Deposit, row'[d].status \in {"confirmed", "minted"}
             PROVE  /\ row'[d].index # NoIndex
                    /\ row'[d].sats # {}
                    /\ \A c \in row'[d].sats : Final(c, NetOf[d], row[d].index)'
  BY DEF ConfirmedInv
<1> DEFINE Stands == /\ row'[d].index # NoIndex
                     /\ row'[d].sats # {}
                     /\ \A c \in row'[d].sats : Final(c, NetOf[d], row[d].index)'
<1>1. ASSUME row[d].status \in {"confirmed", "minted"}, row'[d].sats = row[d].sats PROVE Stands
  <2>1. /\ row[d].index # NoIndex /\ row[d].sats # {} /\ row[d].sats \subseteq Coin
        /\ \A c \in row[d].sats : Final(c, NetOf[d], row[d].index)
    BY <1>1 DEF ConfirmedInv, TypeOK, Row
  <2>2. row'[d].index = row[d].index
    BY <2>1, RowStep
  <2> QED BY <1>1, <2>1, <2>2, FinalAtRow
<1>2. CASE row'[d] = row[d]
  BY <1>1, <1>2
<1>3. ASSUME NEW e \in Deposit, CreateDeposit(e) PROVE Stands
  <2>1. row'[d] = row[d]
    BY <1>3 DEF CreateDeposit, TypeOK, Row
  <2> QED BY <1>2, <2>1
<1>4. ASSUME NEW e \in Deposit, NEW o, AssignAddress(e, o) PROVE Stands
  <2>1. row' = row \/ row' = [row EXCEPT ![e] = [row[e] EXCEPT !.index = NewIndex]]
    BY <1>4 DEF AssignAddress, PatchDeposit
  <2>2. row'[d].status = row[d].status /\ row'[d].sats = row[d].sats
    BY <2>1 DEF TypeOK, Row
  <2> QED BY <1>1, <2>2
<1>5. ASSUME NEW o, PatchConfirmed(o) PROVE Stands
  <2>1. pc = "confirm" /\ UNCHANGED <<tip, coin>>
    BY <1>5 DEF PatchConfirmed, l1
  <2>2. /\ cur \in Deposit /\ row[cur] \in Row /\ row[cur].index # NoIndex
        /\ found # {} /\ \A c \in found : Final(c, NetOf[cur], row[cur].index)
    BY <2>1, CurrentRow, IndexFacts DEF Working, ReadInv
  <2>3. row' = row \/ row' = [row EXCEPT ![cur] = [row[cur] EXCEPT !.status = "confirmed", !.sats = found]]
    BY <1>5 DEF PatchConfirmed, PatchDeposit
  <2>4. row'[d] = row[d] \/ (d = cur /\ row'[d] = [row[cur] EXCEPT !.status = "confirmed", !.sats = found])
    BY <2>2, <2>3 DEF TypeOK
  <2>5. row'[d] = row[d] \/ (d = cur /\ row'[d].sats = found /\ row'[d].index = row[d].index)
    BY <2>2, <2>4 DEF Row
  <2> QED BY <1>2, <2>1, <2>2, <2>5 DEF Final
<1>6. ASSUME NEW o, PatchMinted(o) PROVE Stands
  <2>1. pc = "record"
    BY <1>6 DEF PatchMinted
  <2>2. cur \in Deposit /\ row[cur] \in Row /\ row[cur].status = "confirmed"
    BY <2>1, CurrentRow DEF Working, Minting
  <2>3. row' = row \/ row' = [row EXCEPT ![cur] = [row[cur] EXCEPT !.status = "minted", !.ecx = found]]
    BY <1>6 DEF PatchMinted, PatchDeposit
  <2>4. row'[d] = row[d] \/ (d = cur /\ row'[d] = [row[cur] EXCEPT !.status = "minted", !.ecx = found])
    BY <2>2, <2>3 DEF TypeOK
  <2>5. row'[d] = row[d] \/ (d = cur /\ row'[d].sats = row[d].sats)
    BY <2>2, <2>4 DEF Row
  <2> QED BY <1>1, <1>2, <2>2, <2>5
<1> QED
  BY <1>2, <1>3, <1>4, <1>5, <1>6, TableFrame

-----------------------------------------------------------------------------
(***************************************************************************)
(* Mint transactions and the loop that tracks them.                        *)
(***************************************************************************)

(* Without a new, lost or awaited transaction, being tracked is preserved. *)
LEMMA TrackedKept ==
  ASSUME TypeOK, ControlInv, SnapshotInv, MintInv, TrackedInv, [Next]_vars,
         NEW m \in MintTx, MintKept(m), Live(m)', ~mintTx'[m].lost, m # hash
  PROVE  row'[mintTx'[m].dep].status = "minted"
<1>1. Live(m) /\ ~mintTx[m].lost /\ mintTx'[m].dep = mintTx[m].dep /\ mintTx[m].st # "free"
  BY DEF MintKept, Live
<1>2. PICK d \in Deposit : d = mintTx[m].dep
  BY <1>1 DEF MintInv
<1>3. row[d].status = "minted"
  BY <1>1, <1>2 DEF TrackedInv
<1> QED BY <1>1, <1>2, <1>3, RowStep

(* Every step keeps track of the mints the loop has not lost. *)
LEMMA TrackedStep ==
  TypeOK /\ ControlInv /\ SnapshotInv /\ MintInv /\ TrackedInv /\ [Next]_vars => TrackedInv'
<1> SUFFICES ASSUME TypeOK, ControlInv, SnapshotInv, MintInv, TrackedInv, [Next]_vars
             PROVE  TrackedInv'
  OBVIOUS
<1> USE ConstantsAssumption DEF table, l1, fed
<1>0. /\ hash # None => hash \in MintTx /\ pc \in {"receipt", "record"}
      /\ pc \in {"receipt", "record"} => hash \in MintTx /\ cur \in Deposit
  BY CurrentRow DEF TypeOK, ControlInv, Working
(* Nothing is awaited before and after, no transaction is created. *)
<1>1. ASSUME hash = None, hash' = None, \A m \in MintTx : MintKept(m) PROVE TrackedInv'
  BY <1>1, TrackedKept DEF TrackedInv
(* The awaited transaction is kept. *)
<1>2. ASSUME UNCHANGED <<pc, cur, found, hash>>, \A m \in MintTx : MintKept(m),
             hash # None => ~mintTx'[hash].lost
      PROVE  TrackedInv'
  <2>1. \A m \in MintTx : Live(m)' /\ ~mintTx'[m].lost
                          => row'[mintTx'[m].dep].status = "minted" \/ m = hash'
    BY <1>2, TrackedKept
  <2>2. ASSUME hash' # None
        PROVE  /\ mintTx'[hash'].dep = cur' /\ mintTx'[hash'].coins = found'
               /\ mintTx'[hash'].st # "free" /\ ~mintTx'[hash'].lost
               /\ pc' = "record" => mintTx'[hash'].st = "success"
    <3>1. hash \in MintTx /\ MintKept(hash)
      BY <1>0, <1>2, <2>2
    <3> QED BY <1>2, <2>2, <3>1 DEF TrackedInv, MintKept
  <2> QED BY <2>1, <2>2 DEF TrackedInv
(* The awaited transaction is dropped: reverted, lost or recorded. *)
<1>3. ASSUME hash \in MintTx, hash' = None, \A m \in MintTx : MintKept(m),
             \/ mintTx'[hash].st \notin {"sent", "success"}
             \/ mintTx'[hash].lost
             \/ row'[mintTx'[hash].dep].status = "minted"
      PROVE  TrackedInv'
  <2> SUFFICES ASSUME NEW m \in MintTx, Live(m)', ~mintTx'[m].lost
               PROVE  row'[mintTx'[m].dep].status = "minted"
    BY <1>3 DEF TrackedInv
  <2>1. CASE m = hash
    BY <1>3, <2>1 DEF Live
  <2>2. CASE m # hash
    BY <1>3, <2>2, TrackedKept
  <2> QED BY <2>1, <2>2
<1>4. ASSUME mintTx' = mintTx PROVE \A m \in MintTx : MintKept(m)
  BY <1>4 DEF MintKept
<1>5. ASSUME NEW m \in MintTx, Lose(m), m = hash
      PROVE  mintTx'[m].lost /\ \A k \in MintTx : MintKept(k)
  BY <1>5 DEF Lose, MintKept, TypeOK, MintState
<1>6. ASSUME NEW o, ListPending(o) PROVE TrackedInv'
  <2>1. hash = None /\ hash' = None /\ mintTx' = mintTx
    BY <1>6, <1>0 DEF ListPending
  <2> QED BY <1>1, <1>4, <2>1
<1>7. ASSUME NEW d \in Deposit, NEW o, AssignAddress(d, o) \/ ReadTip(d, o) PROVE TrackedInv'
  <2>1. hash = None /\ hash' = None /\ mintTx' = mintTx
    BY <1>7, <1>0, FinishControl DEF AssignAddress, ReadTip, Turn
  <2> QED BY <1>1, <1>4, <2>1
<1>8. ASSUME NEW o, ReadUtxos(o) \/ PatchConfirmed(o) PROVE TrackedInv'
  <2>1. hash = None /\ hash' = None /\ mintTx' = mintTx
    BY <1>8, <1>0, FinishControl DEF ReadUtxos, PatchConfirmed
  <2> QED BY <1>1, <1>4, <2>1
<1>9. ASSUME NEW o, SendMint(o) PROVE TrackedInv'
  <2>0. pc = "mint" /\ hash = None
    BY <1>9, <1>0 DEF SendMint
  <2>1. CASE o = "down"
    <3>1. hash' = None /\ mintTx' = mintTx
      BY <1>9, <2>1, FinishControl DEF SendMint
    <3> QED BY <1>1, <1>4, <2>0, <3>1
  <2>2. CASE o # "down"
    <3>1. PICK m \in MintTx :
            /\ mintTx[m].st = "free"
            /\ mintTx' = [mintTx EXCEPT ![m] = [st |-> "sent", dep |-> cur,
                                                coins |-> found, lost |-> o = "lost"]]
            /\ IF o = "lost"
               THEN Finish(cur)
               ELSE pc' = "receipt" /\ hash' = m /\ UNCHANGED <<snap, cur, seenTip, found>>
      BY <1>9, <2>2, Zenon DEF SendMint
    <3>2. /\ mintTx'[m].st = "sent" /\ mintTx'[m].dep = cur /\ mintTx'[m].coins = found
          /\ mintTx'[m].lost <=> o = "lost"
      BY <3>1 DEF TypeOK
    <3>3. \A k \in MintTx : k # m => mintTx'[k] = mintTx[k] /\ MintKept(k)
      BY <3>1 DEF TypeOK, MintKept
    <3>4. \A k \in MintTx : k # m /\ Live(k)' /\ ~mintTx'[k].lost
                            => row'[mintTx'[k].dep].status = "minted"
      BY <2>0, <3>3, TrackedKept
    <3>5. CASE o = "lost"
      <4>1. hash' = None
        BY <3>1, <3>5, FinishControl
      <4> QED BY <3>2, <3>4, <3>5, <4>1 DEF TrackedInv
    <3>6. CASE o # "lost"
      <4>1. hash' = m /\ cur' = cur /\ found' = found /\ pc' = "receipt"
        BY <3>1, <3>6
      <4> QED BY <3>2, <3>4, <3>6, <4>1 DEF TrackedInv
    <3> QED BY <3>5, <3>6
  <2> QED BY <2>1, <2>2
<1>10. CASE ReceiptSuccess
  <2>1. /\ pc' = "record" /\ mintTx[hash].st = "success" /\ hash \in MintTx
        /\ UNCHANGED <<mintTx, cur, found, hash, row>>
    BY <1>10, <1>0 DEF ReceiptSuccess
  <2> QED BY <2>1 DEF TrackedInv, Live
<1>11. CASE ReceiptReverted
  <2>1. hash \in MintTx /\ hash' = None /\ mintTx' = mintTx /\ mintTx[hash].st = "reverted"
    BY <1>11, <1>0, FinishControl DEF ReceiptReverted
  <2> QED BY <1>3, <1>4, <2>1
<1>12. CASE ReceiptError
  <2>1. hash \in MintTx /\ hash' = None /\ Lose(hash)
    BY <1>12, <1>0, FinishControl DEF ReceiptError
  <2> QED BY <1>3, <1>5, <2>1
<1>13. ASSUME NEW o, PatchMinted(o) PROVE TrackedInv'
  <2>1. pc = "record" /\ hash \in MintTx /\ hash' = None /\ cur \in Deposit
    BY <1>13, <1>0, FinishControl DEF PatchMinted
  <2>2. CASE o = "down"
    BY <1>3, <1>5, <1>13, <2>1, <2>2 DEF PatchMinted
  <2>3. CASE o # "down"
    <3>1. mintTx' = mintTx /\ row' = [row EXCEPT ![cur] = [row[cur] EXCEPT !.status = "minted", !.ecx = found]]
      BY <1>13, <2>3 DEF PatchMinted, PatchDeposit
    <3>2. row'[cur].status = "minted"
      BY <2>1, <3>1 DEF TypeOK, Row
    <3>3. mintTx'[hash].dep = cur
      BY <2>1, <3>1 DEF TrackedInv
    <3> QED BY <1>3, <1>4, <2>1, <3>1, <3>2, <3>3
  <2> QED BY <2>2, <2>3
<1>14. CASE EndOfList \/ NextCycle
  <2>1. hash = None /\ hash' = None /\ mintTx' = mintTx
    BY <1>14, <1>0 DEF EndOfList, NextCycle
  <2> QED BY <1>1, <1>4, <2>1
<1>15. ASSUME NEW k \in MintTx, Execute(k) \/ Revert(k) PROVE TrackedInv'
  <2>1. UNCHANGED <<pc, cur, found, hash>>
    BY <1>15 DEF Execute, Revert
  <2>2. \A m \in MintTx : MintKept(m) /\ (mintTx'[m].lost <=> mintTx[m].lost)
    BY <1>15 DEF Execute, Revert, MintKept, TypeOK, MintState
  <2>3. hash # None => ~mintTx'[hash].lost
    BY <1>0, <2>2 DEF TrackedInv
  <2> QED BY <1>2, <2>1, <2>2, <2>3
<1>16. CASE Crash
  <2>1. CASE hash = None
    <3>1. hash' = None /\ mintTx' = mintTx
      BY <1>16, <2>1 DEF Crash
    <3> QED BY <1>1, <1>4, <2>1, <3>1
  <2>2. CASE hash # None
    <3>1. hash \in MintTx /\ hash' = None /\ Lose(hash)
      BY <1>16, <1>0, <2>2 DEF Crash
    <3> QED BY <1>3, <1>5, <3>1
  <2> QED BY <2>1, <2>2
<1>17. ASSUME UNCHANGED <<mintTx, fed>> \/ Users \/ Withdrawals \/ Tick
              \/ \E n \in Network : \E k \in 0 .. ReorgDepth[n] : NewBlock(n, k)
       PROVE TrackedInv'
  <2>1. UNCHANGED <<mintTx, fed>>
    BY <1>17, Zenon DEF Users, CreateDeposit, Fund, NewBlock, Withdrawals, SpendByWithdrawal, Tick
  <2>2. hash # None => ~mintTx'[hash].lost
    BY <2>1 DEF TrackedInv
  <2> QED BY <1>2, <1>4, <2>1, <2>2
<1> QED
  BY <1>6, <1>7, <1>8, <1>9, <1>10, <1>11, <1>12, <1>13, <1>14, <1>15, <1>16, <1>17
  DEF Next, Loop, Chains, vars

(* Every step keeps MintedOnce: a second mint is sent only for a row not recorded as minted. *)
LEMMA MintedOnceStep ==
  /\ TypeOK /\ ControlInv /\ SnapshotInv /\ MintInv /\ TrackedInv /\ MintedOnce /\ [Next]_vars
  => MintedOnce'
<1> SUFFICES ASSUME TypeOK, ControlInv, SnapshotInv, MintInv, TrackedInv, MintedOnce, [Next]_vars,
                    NEW m1 \in MintTx, NEW m2 \in MintTx, m1 # m2,
                    Live(m1)', Live(m2)', mintTx'[m1].dep = mintTx'[m2].dep,
                    ~mintTx'[m1].lost, ~mintTx'[m2].lost
             PROVE  FALSE
  BY DEF MintedOnce
<1>1. ASSUME NEW a \in MintTx, NEW b \in MintTx, a # b, MintCreated(a), Live(b)',
             ~mintTx'[b].lost, mintTx'[a].dep = mintTx'[b].dep
      PROVE  FALSE
  <2>1. pc = "mint" /\ mintTx'[b] = mintTx[b] /\ mintTx'[a].dep = cur
    BY <1>1 DEF MintCreated
  <2>2. hash = None /\ cur \in Deposit /\ row[cur].status = "confirmed"
    BY <2>1, CurrentRow DEF ControlInv, Working, Minting
  <2>3. Live(b) /\ ~mintTx[b].lost /\ mintTx[b].dep = cur
    BY <1>1, <2>1 DEF Live
  <2> QED BY <2>2, <2>3, ConstantsAssumption DEF TrackedInv
<1>2. CASE MintCreated(m1) \/ MintCreated(m2)
  BY <1>1, <1>2
<1>3. CASE MintKept(m1) /\ MintKept(m2)
  BY <1>3 DEF MintKept, Live, MintedOnce
<1> QED BY <1>2, <1>3, MintFrame

(* Every step keeps the rows that say minted true. *)
LEMMA MintedRowsStep ==
  /\ TypeOK /\ ControlInv /\ SnapshotInv /\ ReadInv /\ ConfirmedInv /\ TrackedInv
  /\ MintedRowsAreTrue /\ [Next]_vars
  => MintedRowsAreTrue'
<1> SUFFICES ASSUME TypeOK, ControlInv, SnapshotInv, ReadInv, ConfirmedInv, TrackedInv,
                    MintedRowsAreTrue, [Next]_vars,
                    NEW d \in Deposit, row'[d].status = "minted"
             PROVE  /\ \E m \in MintTx : /\ mintTx'[m].dep = d
                                         /\ mintTx'[m].st = "success"
                                         /\ ~mintTx'[m].lost
                                         /\ mintTx'[m].coins = row'[d].ecx
                    /\ row'[d].sats # {}
                    /\ \A c \in row'[d].sats \ row'[d].ecx : coin'[c].st = "spent"
  BY DEF MintedRowsAreTrue
<1>1. CASE row[d].status = "minted"
  <2>1. row'[d] = row[d] /\ row[d].sats \subseteq Coin /\ row[d].index # NoIndex
    BY <1>1, RowStep DEF TypeOK, Row, ConfirmedInv
  <2>2. PICK m \in MintTx : /\ mintTx[m].dep = d /\ mintTx[m].st = "success"
                            /\ ~mintTx[m].lost /\ mintTx[m].coins = row[d].ecx
    BY <1>1 DEF MintedRowsAreTrue
  <2>3. m # hash
    <3>1. SUFFICES ASSUME m = hash PROVE FALSE
      OBVIOUS
    <3>2. pc \in Working /\ mintTx[hash].dep = cur
      BY <3>1, ConstantsAssumption DEF ControlInv, TrackedInv, Working
    <3>3. row[cur].status # "minted"
      BY <3>2, CurrentRow
    <3> QED BY <1>1, <2>2, <3>1, <3>2, <3>3
  <2>4. MintKept(m)
    BY <2>2, MintFrame DEF MintCreated
  <2>5. mintTx'[m].dep = d /\ mintTx'[m].st = "success" /\ ~mintTx'[m].lost
        /\ mintTx'[m].coins = row'[d].ecx
    BY <2>1, <2>2, <2>3, <2>4 DEF MintKept
  <2>6. \A c \in row[d].sats \ row[d].ecx : coin'[c].st = "spent"
    <3> SUFFICES ASSUME NEW c \in row[d].sats \ row[d].ecx PROVE coin'[c].st = "spent"
      OBVIOUS
    <3>1. c \in Coin /\ coin[c].st = "spent" /\ Final(c, NetOf[d], row[d].index)
      BY <1>1, <2>1 DEF MintedRowsAreTrue, ConfirmedInv
    <3> QED BY <2>1, <3>1, FinalAtRow
  <2> QED BY <1>1, <2>1, <2>5, <2>6 DEF MintedRowsAreTrue
<1>2. CASE row[d].status # "minted"
  <2>1. PICK o \in Outcome : PatchMinted(o)
    <3>1. ASSUME NEW e \in Deposit, CreateDeposit(e) PROVE FALSE
      BY <1>2, <3>1 DEF CreateDeposit, TypeOK, Row
    <3>2. ASSUME NEW e \in Deposit, NEW o, AssignAddress(e, o) PROVE FALSE
      <4>1. row' = row \/ row' = [row EXCEPT ![e] = [row[e] EXCEPT !.index = NewIndex]]
        BY <3>2 DEF AssignAddress, PatchDeposit
      <4> QED BY <1>2, <4>1 DEF TypeOK, Row
    <3>3. ASSUME NEW o, PatchConfirmed(o) PROVE FALSE
      <4>1. row' = row \/ row' = [row EXCEPT ![cur] = [row[cur] EXCEPT !.status = "confirmed", !.sats = found]]
        BY <3>3 DEF PatchConfirmed, PatchDeposit
      <4>2. row'[d] = row[d] \/ row'[d] = [row[d] EXCEPT !.status = "confirmed", !.sats = found]
        BY <4>1 DEF TypeOK
      <4> QED BY <1>2, <4>2 DEF TypeOK, Row
    <3> QED BY <1>2, <3>1, <3>2, <3>3, TableFrame
  <2>2. pc = "record" /\ coin' = coin
    BY <2>1 DEF PatchMinted, l1
  <2>3. /\ cur \in Deposit /\ row[cur] \in Row /\ row[cur].status = "confirmed"
        /\ hash \in MintTx /\ mintTx[hash].dep = cur /\ mintTx[hash].coins = found
        /\ mintTx[hash].st = "success" /\ ~mintTx[hash].lost
    BY <2>2, CurrentRow DEF Working, Minting, ControlInv, TrackedInv, TypeOK
  <2>4. o # "down" /\ d = cur /\ row'[d] = [row[cur] EXCEPT !.status = "minted", !.ecx = found]
    BY <1>2, <2>1, <2>3 DEF PatchMinted, PatchDeposit, TypeOK
  <2>5. row'[d].ecx = found /\ row'[d].sats = row[cur].sats
    BY <2>3, <2>4 DEF Row
  <2>6. mintTx' = mintTx
    BY <2>1, <2>4 DEF PatchMinted
  <2>7. row[cur].sats # {} /\ \A c \in row[cur].sats \ found : coin[c].st = "spent"
    BY <2>2, <2>3 DEF ConfirmedInv, ReadInv, Minting
  <2> QED BY <2>2, <2>3, <2>4, <2>5, <2>6, <2>7
<1> QED BY <1>1, <1>2

-----------------------------------------------------------------------------
(***************************************************************************)
(* The theorems.                                                           *)
(***************************************************************************)
(* The inductive invariant holds initially. *)
LEMMA InitIInv == Init => IInv
<1> SUFFICES ASSUME Init PROVE IInv
  OBVIOUS
<1>1. TypeOK
  BY TypeInit
<1>2. ControlInv /\ SnapshotInv /\ ReadInv /\ ConfirmedInv
  BY ConstantsAssumption
  DEF Init, ControlInv, SnapshotInv, ReadInv, ConfirmedInv, Working, Minting, NoRow
<1>3. MintInv /\ TrackedInv /\ MintedOnce /\ MintsStandOnFinalCoins
  BY DEF Init, MintInv, TrackedInv, MintedOnce, MintsStandOnFinalCoins, Live
<1>4. MintedRowsAreTrue
  BY DEF Init, MintedRowsAreTrue, NoRow
<1> QED BY <1>1, <1>2, <1>3, <1>4 DEF IInv

(* The inductive invariant is preserved by every step. *)
LEMMA StepIInv == IInv /\ [Next]_vars => IInv'
BY TypeStep, ControlStep, SnapshotStep, TrackedStep, ReadStep, ConfirmedStep, MintInvStep,
   MintedOnceStep, MintsStandStep, MintedRowsStep
DEF IInv

(* The inductive invariant of the deposit loop holds in every reachable state. *)
THEOREM Invariance == Spec => []IInv
BY InitIInv, StepIInv, PTL DEF Spec

(* Every reachable state of the deposits table, the chains, the mint        *)
(* transactions and the loop is well typed; in particular a derivation      *)
(* index stays below the modulus of assignDepositAddress.                   *)
THEOREM TypeCorrect == Spec => []TypeOK
<1>1. IInv => TypeOK
  BY DEF IInv
<1> QED BY <1>1, Invariance, PTL

(* processDeposit never mints a deposit twice unless it lost track of one   *)
(* of the two mint transactions.                                            *)
THEOREM MintedOnceHolds == Spec => []MintedOnce
<1>1. IInv => MintedOnce
  BY DEF IInv
<1> QED BY <1>1, Invariance, PTL

(* checkAddressForDeposits never lets a mint stand on a coin that a         *)
(* reorganisation shallower than MIN_CONFIRMATIONS can still remove.        *)
THEOREM MintsStandHolds == Spec => []MintsStandOnFinalCoins
<1>1. IInv => MintsStandOnFinalCoins
  BY DEF IInv
<1> QED BY <1>1, Invariance, PTL

(* A row that says 'minted' (PATCH /v1/fed/deposit/:id) tells the truth.     *)
THEOREM MintedRowsHold == Spec => []MintedRowsAreTrue
<1>1. IInv => MintedRowsAreTrue
  BY DEF IInv
<1> QED BY <1>1, Invariance, PTL

(* Two mints share a coin only after a lost outcome, or when                *)
(* assignDepositAddress gave two deposits the same index.                   *)
THEOREM DoubleCreditHolds == Spec => []DoubleCreditHasACause
<1>1. IInv => DoubleCreditHasACause
  <2> SUFFICES ASSUME IInv, NEW m1 \in MintTx, NEW m2 \in MintTx,
                      Live(m1), Live(m2), m1 # m2,
                      ~mintTx[m1].lost, ~mintTx[m2].lost,
                      NEW c \in mintTx[m1].coins, c \in mintTx[m2].coins
               PROVE  /\ mintTx[m1].dep # mintTx[m2].dep
                      /\ row[mintTx[m1].dep].index = row[mintTx[m2].dep].index
    BY DEF DoubleCreditHasACause
  <2>1. mintTx[m1].dep # mintTx[m2].dep
    BY DEF IInv, MintedOnce
  <2>2. mintTx[m1].st # "free" /\ mintTx[m2].st # "free"
    BY DEF Live
  <2>3. /\ coin[c].addr = <<NetOf[mintTx[m1].dep], row[mintTx[m1].dep].index>>
        /\ coin[c].addr = <<NetOf[mintTx[m2].dep], row[mintTx[m2].dep].index>>
    BY <2>2 DEF IInv, MintsStandOnFinalCoins, Final, Address
  <2> QED BY <2>1, <2>3
<1> QED BY <1>1, Invariance, PTL

(* The unguarded PATCH /v1/fed/deposit/:id never takes a row backwards.     *)
THEOREM RowsGoForwardHolds == Spec => RowsGoForward
<1>1. IInv /\ [Next]_vars =>
        [\A d \in Deposit :
           /\ Rank(row'[d].status) >= Rank(row[d].status)
           /\ row[d].index # NoIndex => row'[d].index = row[d].index
           /\ row[d].status = "minted" => row'[d] = row[d]]_vars
  BY RowStep DEF IInv
<1> QED BY <1>1, Invariance, PTL DEF Spec, RowsGoForward

-----------------------------------------------------------------------------
(***************************************************************************)
(* The deposit loop implements the abstract service (Settlement).          *)
(***************************************************************************)
(* A step that leaves the abstract state of every deposit and its mints alone is a stutter. *)
LEMMA AbstractStutter ==
  ASSUME \A d \in Deposit : /\ OrderState(d)' = OrderState(d)
                            /\ MintsOf(d, FALSE)' = MintsOf(d, FALSE)
                            /\ MintsOf(d, TRUE)' = MintsOf(d, TRUE)
  PROVE  UNCHANGED Orders!v
BY Zenon DEF Orders!v

(* The mints of a deposit are those of the same L2 transactions. *)
LEMMA SameMints ==
  ASSUME \A m \in MintTx : /\ Live(m)' <=> Live(m)
                           /\ mintTx'[m].dep = mintTx[m].dep
                           /\ mintTx'[m].lost = mintTx[m].lost,
         NEW d, NEW b
  PROVE  MintsOf(d, b)' = MintsOf(d, b)
BY DEF MintsOf

(* The abstract state of a deposit depends on the status of its row only, and confirming a *)
(* row does not change it. *)
LEMMA SameState ==
  ASSUME TypeOK, NEW d \in Deposit,
         \/ row'[d].status = row[d].status
         \/ {row[d].status, row'[d].status} \subseteq {"pending", "confirmed"}
  PROVE  OrderState(d)' = OrderState(d)
BY DEF OrderState, TypeOK, Row, Status

(* The loop knows of a mint of a deposit only while that deposit is open or settled; when it *)
(* is settled the mint was executed. *)
LEMMA KnownMints ==
  ASSUME IInv, NEW m \in MintTx, Live(m), ~mintTx[m].lost
  PROVE  /\ mintTx[m].dep \in Deposit
         /\ IF m = hash THEN mintTx[m].dep = cur /\ row[cur].status = "confirmed"
                        ELSE row[mintTx[m].dep].status = "minted" /\ mintTx[m].st = "success"
<1>0. TypeOK /\ ControlInv /\ SnapshotInv /\ TrackedInv
  BY DEF IInv
<1>1. mintTx[m].dep \in Deposit
  BY DEF IInv, MintInv, Live
<1>2. CASE m = hash
  <2>1. pc \in {"receipt", "record"} /\ mintTx[hash].dep = cur
    BY <1>0, <1>2, ConstantsAssumption DEF ControlInv, TrackedInv
  <2>2. row[cur].status = "confirmed"
    BY <1>0, <2>1, CurrentRow DEF Working, Minting
  <2> QED BY <1>1, <1>2, <2>1, <2>2
<1>3. CASE m # hash
  <2>1. row[mintTx[m].dep].status = "minted"
    BY <1>0, <1>3 DEF TrackedInv
  <2>2. PICK k \in MintTx : /\ mintTx[k].dep = mintTx[m].dep
                            /\ mintTx[k].st = "success" /\ ~mintTx[k].lost
    BY <1>1, <2>1 DEF IInv, MintedRowsAreTrue
  <2>3. k = m
    BY <2>2 DEF IInv, MintedOnce, Live
  <2> QED BY <1>1, <1>3, <2>1, <2>2, <2>3
<1> QED BY <1>2, <1>3

(* A mint the loop loses track of is forgotten, for the open deposit it was sent for. *)
LEMMA LoseIsForget ==
  ASSUME IInv, UNCHANGED row, hash \in MintTx, Lose(hash)
  PROVE  [Orders!Next]_(Orders!v)
<1>0. /\ TypeOK /\ TrackedInv /\ mintTx[hash] \in MintState
      /\ ~mintTx[hash].lost /\ mintTx[hash].dep = cur
  BY ConstantsAssumption DEF IInv, TypeOK, TrackedInv
<1> PICK d : d = cur
  OBVIOUS
<1> PICK t \in MintTx : t = hash
  OBVIOUS
<1>1. /\ mintTx'[t].lost = TRUE
      /\ mintTx'[t].st = mintTx[t].st /\ mintTx'[t].dep = d
      /\ \A m \in MintTx : m # t => mintTx'[m] = mintTx[m]
  BY <1>0 DEF Lose, TypeOK, MintState
<1>2. \A e \in Deposit : OrderState(e)' = OrderState(e)
  BY <1>0, SameState
<1>3. CASE Live(t)
  <2>1. d \in Deposit /\ row[d].status = "confirmed"
    BY <1>0, <1>3, KnownMints
  <2>2. t \in MintsOf(d, FALSE)
    BY <1>0, <1>3 DEF MintsOf, TypeOK, MintState
  <2>3. MintsOf(d, FALSE)' = {}
    <3> SUFFICES ASSUME NEW m \in MintTx, m \in MintsOf(d, FALSE)' PROVE FALSE
      BY DEF MintsOf
    <3>1. m # t /\ Live(m) /\ mintTx[m].dep = d /\ ~mintTx[m].lost
      BY <1>1 DEF MintsOf, Live
    <3> QED BY <1>0, <1>3, <3>1 DEF IInv, MintedOnce
  <2>4. MintsOf(d, TRUE)' = MintsOf(d, TRUE) \cup {t}
    BY <1>0, <1>1, <1>3 DEF MintsOf, Live
  <2>5. \A e \in Deposit : e # d => /\ MintsOf(e, FALSE)' = MintsOf(e, FALSE)
                                    /\ MintsOf(e, TRUE)' = MintsOf(e, TRUE)
    BY <1>0, <1>1 DEF MintsOf, Live
  <2>6. OrderState(d) = "open"
    BY <2>1 DEF OrderState
  <2>7. Orders!Forget(d, t)
    BY <1>2, <2>1, <2>2, <2>3, <2>4, <2>5, <2>6 DEF Orders!Forget
  <2> QED BY <2>1, <2>7 DEF Orders!Next
<1>4. CASE ~Live(t)
  <2>1. \A e \in Deposit : /\ MintsOf(e, FALSE)' = MintsOf(e, FALSE)
                           /\ MintsOf(e, TRUE)' = MintsOf(e, TRUE)
    BY <1>1, <1>4 DEF MintsOf, Live
  <2> QED BY <1>2, <2>1, AbstractStutter
<1> QED BY <1>3, <1>4

(* A new mint is sent for an open deposit that has no known mint. *)
LEMMA SendMintIsSend ==
  ASSUME IInv, NEW o, SendMint(o)
  PROVE  [Orders!Next]_(Orders!v)
<1>0. /\ TypeOK /\ ControlInv /\ SnapshotInv /\ TrackedInv
      /\ pc = "mint" /\ UNCHANGED row
  BY DEF IInv, SendMint, table
<1>1. \A e \in Deposit : OrderState(e)' = OrderState(e)
  BY <1>0, SameState
<1>2. CASE o = "down"
  <2>1. UNCHANGED mintTx
    BY <1>2 DEF SendMint
  <2> QED BY <1>1, <2>1, AbstractStutter DEF MintsOf, Live
<1>3. CASE o # "down"
  <2>1. PICK t \in MintTx :
          /\ mintTx[t].st = "free"
          /\ mintTx' = [mintTx EXCEPT ![t] = [st |-> "sent", dep |-> cur,
                                              coins |-> found, lost |-> o = "lost"]]
    BY <1>3, Zenon DEF SendMint
  <2> PICK d \in Deposit : d = cur
    BY <1>0, CurrentRow DEF Working
  <2>2. row[d].status = "confirmed" /\ hash = None
    BY <1>0, CurrentRow DEF Working, Minting, ControlInv
  <2>3. OrderState(d) = "open"
    BY <2>2 DEF OrderState
  <2>4. MintsOf(d, FALSE) = {}
    <3> SUFFICES ASSUME NEW m \in MintTx, m \in MintsOf(d, FALSE) PROVE FALSE
      BY DEF MintsOf
    <3>1. Live(m) /\ ~mintTx[m].lost /\ mintTx[m].dep = d
      BY DEF MintsOf
    <3>2. m # hash
      BY <2>2, ConstantsAssumption
    <3> QED BY <2>2, <3>1, <3>2, KnownMints
  <2>5. \A e \in Deposit : t \notin MintsOf(e, FALSE) \cup MintsOf(e, TRUE)
    BY <2>1 DEF MintsOf, Live
  <2>6. /\ mintTx'[t].st = "sent" /\ mintTx'[t].dep = d
        /\ mintTx'[t].lost = (o = "lost")
        /\ \A m \in MintTx : m # t => mintTx'[m] = mintTx[m]
    BY <1>0, <2>1 DEF TypeOK
  <2>7. \A e \in Deposit : e # d => /\ MintsOf(e, FALSE)' = MintsOf(e, FALSE)
                                    /\ MintsOf(e, TRUE)' = MintsOf(e, TRUE)
    BY <2>5, <2>6 DEF MintsOf, Live
  <2>8. CASE o = "lost"
    <3>1. /\ MintsOf(d, FALSE)' = MintsOf(d, FALSE)
          /\ MintsOf(d, TRUE)' = MintsOf(d, TRUE) \cup {t}
      BY <2>5, <2>6, <2>8 DEF MintsOf, Live
    <3>2. Orders!Send(d, t)
      BY <1>1, <2>3, <2>4, <2>5, <2>7, <3>1 DEF Orders!Send, Orders!Fresh
    <3> QED BY <3>2 DEF Orders!Next
  <2>9. CASE o # "lost"
    <3>0. mintTx'[t].lost = FALSE
      BY <2>6, <2>9
    <3>1. /\ MintsOf(d, FALSE)' = {t}
          /\ MintsOf(d, TRUE)' = MintsOf(d, TRUE)
      <4>1. MintsOf(d, FALSE)' = {t}
        BY <2>4, <2>5, <2>6, <3>0 DEF MintsOf, Live
      <4>2. MintsOf(d, TRUE)' = MintsOf(d, TRUE)
        BY <2>5, <2>6, <3>0 DEF MintsOf, Live
      <4> QED BY <4>1, <4>2
    <3>2. Orders!Send(d, t)
      BY <1>1, <2>3, <2>4, <2>5, <2>7, <3>1 DEF Orders!Send, Orders!Fresh
    <3> QED BY <3>2 DEF Orders!Next
  <2> QED BY <2>8, <2>9
<1> QED BY <1>2, <1>3

(* A reverted mint has had no effect; the deposit of one the loop knows of is open. *)
LEMMA RevertIsVoid ==
  ASSUME IInv, NEW t \in MintTx, Revert(t)
  PROVE  [Orders!Next]_(Orders!v)
<1>0. /\ TypeOK /\ UNCHANGED row /\ mintTx[t] \in MintState /\ mintTx[t].st = "sent"
  BY DEF IInv, Revert, table, TypeOK
<1>1. /\ mintTx'[t].st = "reverted"
      /\ \A m \in MintTx : m # t => mintTx'[m] = mintTx[m]
  BY <1>0 DEF Revert, TypeOK, MintState
<1>2. \A e \in Deposit : OrderState(e)' = OrderState(e)
  BY <1>0, SameState
<1> PICK d \in Deposit : d = mintTx[t].dep
  BY <1>0 DEF IInv, MintInv
<1>3. t \in MintsOf(d, FALSE) \cup MintsOf(d, TRUE)
  BY <1>0 DEF MintsOf, Live, MintState
<1>4. /\ MintsOf(d, FALSE)' = MintsOf(d, FALSE) \ {t}
      /\ MintsOf(d, TRUE)' = MintsOf(d, TRUE) \ {t}
  BY <1>1 DEF MintsOf, Live
<1>5. \A e \in Deposit : e # d => /\ MintsOf(e, FALSE)' = MintsOf(e, FALSE)
                                  /\ MintsOf(e, TRUE)' = MintsOf(e, TRUE)
  BY <1>1 DEF MintsOf, Live
<1>6. t \in MintsOf(d, FALSE) => OrderState(d) = "open"
  <2> SUFFICES ASSUME t \in MintsOf(d, FALSE) PROVE OrderState(d) = "open"
    OBVIOUS
  <2>1. Live(t) /\ ~mintTx[t].lost
    BY DEF MintsOf
  <2>2. row[d].status = "confirmed"
    BY <1>0, <2>1, KnownMints
  <2> QED BY <2>2 DEF OrderState
<1>7. Orders!Void(d, t)
  BY <1>2, <1>3, <1>4, <1>5, <1>6 DEF Orders!Void
<1> QED BY <1>7 DEF Orders!Next

(* PATCH 'minted' settles the deposit with the mint the loop knows of. *)
LEMMA PatchMintedIsSettle ==
  ASSUME IInv, NEW o, PatchMinted(o)
  PROVE  [Orders!Next]_(Orders!v)
<1>0. /\ TypeOK /\ ControlInv /\ SnapshotInv /\ TrackedInv /\ pc = "record" /\ hash \in MintTx
  BY DEF IInv, PatchMinted, ControlInv, TypeOK
<1>1. CASE o = "down"
  BY <1>0, <1>1, LoseIsForget DEF PatchMinted, PatchDeposit
<1>2. CASE o # "down"
  <2> PICK d \in Deposit : d = cur
    BY <1>0, CurrentRow DEF Working
  <2>1. /\ row' = [row EXCEPT ![d] = [row[d] EXCEPT !.status = "minted", !.ecx = found]]
        /\ UNCHANGED mintTx
    BY <1>2 DEF PatchMinted, PatchDeposit
  <2>2. /\ row[d].status = "confirmed" /\ row[d] \in Row
    BY <1>0, CurrentRow DEF Working, Minting
  <2>3. row'[d].status = "minted" /\ \A e \in Deposit : e # d => row'[e] = row[e]
    BY <1>0, <2>1, <2>2 DEF TypeOK, Row
  <2>4. \A e \in Deposit : e # d => OrderState(e)' = OrderState(e)
    BY <1>0, <2>3, SameState
  <2>5. OrderState(d) = "open" /\ OrderState(d)' = "settled"
    BY <2>2, <2>3 DEF OrderState
  <2>6. hash \in MintsOf(d, FALSE)
    BY <1>0, ConstantsAssumption DEF TrackedInv, MintsOf, Live, TypeOK, MintState
  <2>7. \A e \in Deposit : /\ MintsOf(e, FALSE)' = MintsOf(e, FALSE)
                           /\ MintsOf(e, TRUE)' = MintsOf(e, TRUE)
    BY <2>1 DEF MintsOf, Live
  <2>8. Orders!Settle(d)
    BY <2>4, <2>5, <2>6, <2>7 DEF Orders!Settle
  <2> QED BY <2>8 DEF Orders!Next
<1> QED BY <1>1, <1>2

(* POST /v1/bridge/deposit submits an order; the other writes to the table change no order. *)
LEMMA OtherWrites ==
  ASSUME IInv, UNCHANGED mintTx,
         \/ \E d \in Deposit : CreateDeposit(d)
         \/ \E d \in Deposit, o \in Outcome : AssignAddress(d, o)
         \/ \E o \in Outcome : PatchConfirmed(o)
  PROVE  [Orders!Next]_(Orders!v)
<1>0. TypeOK /\ ControlInv /\ SnapshotInv
  BY DEF IInv
<1>1. \A e \in Deposit : /\ MintsOf(e, FALSE)' = MintsOf(e, FALSE)
                         /\ MintsOf(e, TRUE)' = MintsOf(e, TRUE)
  BY DEF MintsOf, Live
<1>2. ASSUME NEW d \in Deposit, CreateDeposit(d) PROVE [Orders!Next]_(Orders!v)
  <2>1. /\ row[d].status = "none" /\ row'[d].status = "pending"
        /\ \A e \in Deposit : e # d => row'[e] = row[e]
    BY <1>0, <1>2 DEF CreateDeposit, TypeOK, Row
  <2>2. \A e \in Deposit : e # d => OrderState(e)' = OrderState(e)
    BY <1>0, <2>1, SameState
  <2>3. OrderState(d) = "none" /\ OrderState(d)' = "open"
    BY <2>1 DEF OrderState
  <2>4. Orders!Submit(d)
    BY <1>1, <2>2, <2>3 DEF Orders!Submit
  <2> QED BY <2>4 DEF Orders!Next
<1>3. ASSUME NEW d \in Deposit, NEW o, AssignAddress(d, o) PROVE [Orders!Next]_(Orders!v)
  <2>1. row' = row \/ row' = [row EXCEPT ![d] = [row[d] EXCEPT !.index = NewIndex]]
    BY <1>3 DEF AssignAddress, PatchDeposit
  <2>2. \A e \in Deposit : row'[e].status = row[e].status
    BY <1>0, <2>1 DEF TypeOK, Row
  <2> QED BY <1>0, <1>1, <2>2, SameState, AbstractStutter
<1>4. ASSUME NEW o, PatchConfirmed(o) PROVE [Orders!Next]_(Orders!v)
  <2>1. row' = row \/ row' = [row EXCEPT ![cur] = [row[cur] EXCEPT !.status = "confirmed", !.sats = found]]
    BY <1>4 DEF PatchConfirmed, PatchDeposit
  <2>2. cur \in Deposit /\ row[cur].status \in {"pending", "confirmed"}
    BY <1>0, <1>4, CurrentRow DEF PatchConfirmed, Working
  <2>3. \A e \in Deposit : \/ row'[e].status = row[e].status
                           \/ {row[e].status, row'[e].status} \subseteq {"pending", "confirmed"}
    BY <1>0, <2>1, <2>2 DEF TypeOK, Row
  <2> QED BY <1>0, <1>1, <2>3, SameState, AbstractStutter
<1> QED BY <1>2, <1>3, <1>4

(* Every step of the deposit loop, its users and its chains is a step of the abstract service, *)
(* or no step of it. *)
LEMMA DepositStepRefines == IInv /\ [Next]_vars => [Orders!Next]_(Orders!v)
<1> SUFFICES ASSUME IInv, [Next]_vars PROVE [Orders!Next]_(Orders!v)
  OBVIOUS
<1>0. TypeOK /\ (pc \in {"receipt", "record"} => hash \in MintTx) /\ hash \in MintTx \cup {None}
  BY DEF IInv, ControlInv, TypeOK
<1>1. CASE UNCHANGED <<row, mintTx>>
  <2>1. \A e \in Deposit : OrderState(e)' = OrderState(e)
    BY <1>0, <1>1, SameState
  <2> QED BY <1>1, <2>1, AbstractStutter DEF MintsOf, Live
<1>2. ASSUME NEW m \in MintTx, Execute(m) PROVE [Orders!Next]_(Orders!v)
  <2>1. UNCHANGED row
    BY <1>2 DEF Execute, table
  <2>2. \A e \in Deposit : OrderState(e)' = OrderState(e)
    BY <1>0, <2>1, SameState
  <2>3. \A k \in MintTx : /\ Live(k)' <=> Live(k)
                          /\ mintTx'[k].dep = mintTx[k].dep
                          /\ mintTx'[k].lost = mintTx[k].lost
    BY <1>0, <1>2 DEF Execute, TypeOK, MintState, Live
  <2> QED BY <2>2, <2>3, SameMints, AbstractStutter
<1>3. CASE ReceiptError
  BY <1>0, <1>3, LoseIsForget DEF ReceiptError, table
<1>4. CASE Crash
  <2>1. CASE hash = None
    BY <1>4, <2>1, <1>1 DEF Crash, table
  <2>2. CASE hash # None
    BY <1>0, <1>4, <2>2, LoseIsForget DEF Crash, table
  <2> QED BY <2>1, <2>2
<1>5. CASE \/ \E d \in Deposit : CreateDeposit(d)
           \/ \E d \in Deposit, o \in Outcome : AssignAddress(d, o)
           \/ \E o \in Outcome : PatchConfirmed(o)
  <2>1. UNCHANGED mintTx
    BY <1>5, Zenon DEF CreateDeposit, AssignAddress, PatchConfirmed
  <2> QED BY <1>5, <2>1, OtherWrites
<1>6. \/ UNCHANGED <<row, mintTx>>
      \/ \E m \in MintTx : Execute(m) \/ Revert(m)
      \/ \E o \in Outcome : SendMint(o) \/ PatchMinted(o)
      \/ ReceiptError \/ Crash
      \/ \E d \in Deposit : CreateDeposit(d)
      \/ \E d \in Deposit, o \in Outcome : AssignAddress(d, o)
      \/ \E o \in Outcome : PatchConfirmed(o)
  BY Zenon DEF Next, Loop, Users, Chains, Withdrawals, ListPending, ReadUtxos,
     ReadTip, ReceiptSuccess, ReceiptReverted,
     EndOfList, NextCycle, Fund, NewBlock, SpendByWithdrawal, Tick, vars, table
<1> QED BY <1>1, <1>2, <1>3, <1>4, <1>5, <1>6, RevertIsVoid, SendMintIsSend, PatchMintedIsSettle

(* The deposit half of the federation implements the abstract service: a mint settles a deposit *)
(* and, while processDeposit knows of a mint that may be executed, it sends no other. *)
THEOREM SettlesDepositsHolds == Spec => SettlesDeposits
<1>1. Init => Orders!Init
  <2> SUFFICES ASSUME Init PROVE Orders!Init
    OBVIOUS
  <2>1. \A d \in Deposit : /\ OrderState(d) = "none"
                           /\ MintsOf(d, FALSE) = {} /\ MintsOf(d, TRUE) = {}
    BY DEF Init, NoRow, OrderState, MintsOf, Live
  <2> QED BY <2>1, Zenon DEF Orders!Init
<1> QED BY <1>1, DepositStepRefines, Invariance, PTL DEF Spec, SettlesDeposits, Orders!Spec
=============================================================================
