-------------------------- MODULE WithdrawFlowProofs --------------------------
(***************************************************************************)
(* Proofs about WithdrawFlow.  The invariant IInv is inductive; the safety *)
(* properties and the action property follow from it.                      *)
(***************************************************************************)
EXTENDS WithdrawFlow, TLAPS

(* A change index taken from the clock (processWithdrawal) is an index. *)
LEMMA IndexFacts ==
  ASSUME TypeOK PROVE clock % IndexSpace \in Index /\ 0 \in Index
BY WithdrawAssumption DEF TypeOK, Index

(* Counting a fault keeps the counter within its bound. *)
LEMMA FaultsType ==
  ASSUME TypeOK, NEW o, Counted(o)
  PROVE  faults' \in 0 .. MaxFaults
BY WithdrawAssumption DEF TypeOK, Counted

(* PATCH /v1/fed/withdraw/:id changes the status of one row and nothing else. *)
LEMMA RowUpdate ==
  ASSUME NEW r \in WRow, NEW s \in {"completed", "failed"}
  PROVE  /\ [r EXCEPT !.status = s] \in WRow
         /\ [r EXCEPT !.status = s].status = s
         /\ [r EXCEPT !.status = s].burn = r.burn
BY DEF WRow

(* Losing track of a payout sets its flag and leaves every other one alone. *)
LEMMA LoseUpdate ==
  ASSUME TypeOK, NEW p \in PayTx, Lose(p)
  PROVE  /\ payTx' \in [PayTx -> PayState]
         /\ payTx'[p].lost
         /\ \A q \in PayTx : /\ payTx'[q].st = payTx[q].st /\ payTx'[q].w = payTx[q].w
                             /\ q # p => payTx'[q] = payTx[q]
                             /\ payTx[q].lost => payTx'[q].lost
<1>1. payTx \in [PayTx -> PayState] /\ payTx' = [payTx EXCEPT ![p].lost = TRUE]
  BY DEF TypeOK, Lose
<1>2. [payTx[p] EXCEPT !.lost = TRUE] \in PayState
  BY <1>1 DEF PayState
<1>3. payTx' = [payTx EXCEPT ![p] = [payTx[p] EXCEPT !.lost = TRUE]]
  BY <1>1
<1>4. /\ [payTx[p] EXCEPT !.lost = TRUE].st = payTx[p].st
      /\ [payTx[p] EXCEPT !.lost = TRUE].w = payTx[p].w
      /\ [payTx[p] EXCEPT !.lost = TRUE].lost
  BY <1>1 DEF PayState
<1> HIDE DEF PayState
<1> QED BY <1>1, <1>2, <1>3, <1>4

(* What an action that ends a withdrawal's turn leaves behind. *)
LEMMA FinishFacts ==
  ASSUME TypeOK, NEW w \in Withdrawal, Finish(w)
  PROVE  /\ pc' = "each" /\ cur' = None /\ hash' = None /\ now' = now
         /\ rows' = {} /\ inputs' = {} /\ change' = NoChange
         /\ snap' \in [Withdrawal -> WRow]
         /\ snap'[w] = NoWRow
         /\ \A v \in Withdrawal : v # w => snap'[v] = snap[v]
<1>1. NoWRow \in WRow
  BY DEF NoWRow, WRow
<1> QED BY <1>1 DEF Finish, TypeOK

(* ... and that it is well typed. *)
LEMMA FinishType ==
  ASSUME TypeOK, NEW w \in Withdrawal, Finish(w)
  PROVE  /\ pc' \in PCs /\ snap' \in [Withdrawal -> WRow] /\ now' \in Nat
         /\ cur' \in Withdrawal \cup {None} /\ rows' \in SUBSET Dep
         /\ inputs' \in SUBSET (Coin \X Dep)
         /\ change' \in [value : Nat, index : Index] /\ hash' \in PayTx \cup {None}
BY FinishFacts, IndexFacts DEF TypeOK, PCs, NoChange

(* A new name is one that is not in use. *)
LEMMA NextOfFacts == ASSUME NEW S, NEW x \in NextOf(S) PROVE x \in S
BY Zenon DEF NextOf

(* The empty tables and pool are well typed. *)
LEMMA TypeInit == Init => TypeOK
BY WithdrawAssumption
DEF Init, TypeOK, NoWRow, WRow, NoCoin, CoinState, NoPay, PayState, NoChange, Index, PCs

(* An accepted payout is for the current request, spends its inputs and may *)
(* create one output.                                                       *)
LEMMA PayFacts ==
  ASSUME TypeOK, NEW p \in PayTx, NEW o, Pay(p, o), cur \in Withdrawal
  PROVE  /\ payTx' \in [PayTx -> PayState] /\ coin' \in [Coin -> CoinState]
         /\ payTx[p].st = "free"
         /\ payTx'[p].st = "sent" /\ payTx'[p].w = cur /\ (payTx'[p].lost <=> o = "lost")
         /\ \A q \in PayTx : q # p => payTx'[q] = payTx[q]
<1> DEFINE spent == {x[1] : x \in inputs}
           new   == [st |-> "sent", w |-> cur, coins |-> spent, lost |-> o = "lost"]
<1>1. spent \in SUBSET Coin
  BY DEF TypeOK
<1>2. new \in PayState /\ new.st = "sent" /\ new.w = cur /\ (new.lost <=> o = "lost")
  BY <1>1 DEF PayState
<1>3. payTx[p].st = "free" /\ payTx' = [payTx EXCEPT ![p] = new]
  BY NextOfFacts DEF Pay, Free
<1>4. coin' \in [Coin -> CoinState]
  <2>1. PICK c \in Coin :
          coin' = [x \in Coin |->
                     IF x \in spent THEN [coin[x] EXCEPT !.st = "spent"]
                     ELSE IF x = c /\ change.value > 0
                          THEN [st |-> "unspent", index |-> change.index, value |-> change.value]
                          ELSE coin[x]]
    BY Zenon DEF Pay
  <2>2. \A x \in Coin : coin[x] \in CoinState /\ [coin[x] EXCEPT !.st = "spent"] \in CoinState
    BY DEF TypeOK, CoinState
  <2>3. [st |-> "unspent", index |-> change.index, value |-> change.value] \in CoinState
    BY DEF TypeOK, CoinState
  <2> HIDE DEF spent
  <2> QED BY <2>1, <2>2, <2>3
<1> HIDE DEF spent, new, PayState
<1> QED BY <1>2, <1>3, <1>4 DEF TypeOK

(* The rows that are asked for and the change address are well typed. *)
LEMMA FundedType ==
  ASSUME TypeOK, ControlInv, NEW o, FetchFunded(o)
  PROVE  TypeOK'
<1>1. cur \in Withdrawal
  BY DEF FetchFunded, ControlInv, Working, TypeOK
<1>2. CASE Finish(cur)
  BY <1>1, <1>2, FinishType, FaultsType DEF FetchFunded, TypeOK, world
<1>3. CASE ~Finish(cur)
  <2>1. /\ pc' = "collect" /\ rows' = funded
        /\ change' = [NoChange EXCEPT !.index = ChangeIndex]
        /\ inputs' = {}
        /\ UNCHANGED <<snap, now, cur, hash>>
        /\ UNCHANGED <<clock, world>>
        /\ Counted(o)
    BY <1>3, Zenon DEF FetchFunded
  <2>2. change' \in [value : Nat, index : Index]
    BY <2>1, IndexFacts DEF ChangeIndex, NoChange
  <2> QED BY <2>1, <2>2, FaultsType DEF TypeOK, PCs, world
<1> QED BY <1>2, <1>3

(* Selecting, signing and choosing change is well typed. *)
LEMMA BuildType ==
  ASSUME TypeOK, ControlInv, BuildPayout
  PROVE  TypeOK'
<1>1. cur \in Withdrawal
  BY DEF BuildPayout, ControlInv, Working, TypeOK
<1>2. CASE Finish(cur)
  BY <1>1, <1>2, FinishType DEF BuildPayout, TypeOK, world
<1>3. CASE ~Finish(cur)
  <2>1. /\ \E S \in Selections(inputs, Amount[cur] + Fee) : \E v \in 0 .. Total(S) :
             inputs' = S /\ change' = [change EXCEPT !.value = ChangeSats(v)]
        /\ pc' = "broadcast"
        /\ UNCHANGED <<snap, now, cur, rows, hash>>
        /\ UNCHANGED <<clock, world, faults>>
    BY <1>3, Zenon DEF BuildPayout
  <2>2. PICK S \in Selections(inputs, Amount[cur] + Fee) : \E v \in 0 .. Total(S) :
          inputs' = S /\ change' = [change EXCEPT !.value = ChangeSats(v)]
    BY <2>1
  <2>3. PICK v \in 0 .. Total(S) :
          inputs' = S /\ change' = [change EXCEPT !.value = ChangeSats(v)]
    BY <2>2
  <2>4. S \in SUBSET (Coin \X Dep)
    BY <2>2 DEF Selections, TypeOK
  <2>5. ChangeSats(v) \in Nat
    BY <2>3, WithdrawAssumption DEF ChangeSats
  <2>6. change' \in [value : Nat, index : Index]
    BY <2>3, <2>5 DEF TypeOK
  <2> QED BY <2>1, <2>3, <2>4, <2>6 DEF TypeOK, PCs, world
<1> QED BY <1>2, <1>3

(* Every step of the loop and of the users keeps the types. *)
LEMMA TypeStep == ControlInv /\ TypeOK /\ [Next]_vars => TypeOK'
<1> SUFFICES ASSUME ControlInv, TypeOK, [Next]_vars PROVE TypeOK'
  OBVIOUS
<1> USE WithdrawAssumption
<1> USE DEF world, local
<1>1. ASSUME NEW o, ListPending(o) PROVE TypeOK'
  BY <1>1, FaultsType DEF ListPending, TypeOK, PCs, NoWRow, WRow
<1>2. ASSUME NEW w \in Withdrawal, NEW o, VerifyBurn(w, o) PROVE TypeOK'
  BY <1>2, FaultsType, FinishType DEF VerifyBurn, TypeOK, PCs
<1>3. CASE BuildPayout
  BY <1>3, BuildType
<1>a. ASSUME NEW o, FetchFunded(o) PROVE TypeOK'
  BY <1>a, FundedType
<1>b. ASSUME NEW d \in Dep, NEW o, FetchUtxos(d, o) PROVE TypeOK'
  BY <1>b, FaultsType DEF FetchUtxos, Collected, TypeOK
<1>4. ASSUME NEW w \in Withdrawal, NEW o, ExpireWithdrawal(w, o) PROVE TypeOK'
  <2>1. wrow' \in [Withdrawal -> WRow]
    BY <1>4, RowUpdate DEF ExpireWithdrawal, PatchWithdrawal, TypeOK
  <2> QED BY <1>4, <2>1, FaultsType, FinishType DEF ExpireWithdrawal, PatchWithdrawal, TypeOK
<1>5. ASSUME NEW o, Broadcast(o) PROVE TypeOK'
  <2>1. cur \in Withdrawal
    BY <1>5 DEF Broadcast, ControlInv, Working, TypeOK
  <2>2. payTx' \in [PayTx -> PayState] /\ coin' \in [Coin -> CoinState]
    BY <1>5, <2>1, PayFacts DEF Broadcast, TypeOK
  <2> QED BY <1>5, <2>1, <2>2, FaultsType, FinishType DEF Broadcast, TypeOK, PCs
<1>6. ASSUME NEW o, PatchCompleted(o) PROVE TypeOK'
  <2>1. cur \in Withdrawal /\ hash \in PayTx
    BY <1>6 DEF PatchCompleted, ControlInv, Working, TypeOK
  <2>2. wrow' \in [Withdrawal -> WRow]
    BY <1>6, <2>1, RowUpdate DEF PatchCompleted, PatchWithdrawal, TypeOK
  <2>3. payTx' \in [PayTx -> PayState]
    BY <1>6, <2>1, LoseUpdate DEF PatchCompleted, TypeOK
  <2> QED BY <1>6, <2>1, <2>2, <2>3, FaultsType, FinishType DEF PatchCompleted, PatchWithdrawal, TypeOK
<1>7. ASSUME NEW w \in Withdrawal, SkipWithdrawal(w) PROVE TypeOK'
  BY <1>7, FinishType DEF SkipWithdrawal, TypeOK
<1>8. CASE EndOfList \/ NextCycle
  BY <1>8 DEF EndOfList, NextCycle, TypeOK, PCs
<1>9. ASSUME NEW d \in Dep, NEW c \in Coin, Deposited(d, c) PROVE TypeOK'
  <2>1. [st |-> "unspent", index |-> DepIndex[d], value |-> DepValue[d]] \in CoinState
    BY DEF CoinState, Index
  <2> HIDE DEF CoinState
  <2> QED BY <1>9, <2>1 DEF Deposited, TypeOK
<1>10. ASSUME NEW b \in BurnTx, NEW a \in BurnAmount, Burn(b, a) PROVE TypeOK'
  BY <1>10 DEF Burn, TypeOK, L2Tx
<1>c. ASSUME NEW t \in OtherTx, Transact(t) PROVE TypeOK'
  BY <1>c DEF Transact, TypeOK, L2Tx
<1>11. ASSUME NEW w \in Withdrawal, NEW b \in L2Tx \cup {None}, SubmitWithdrawal(w, b) PROVE TypeOK'
  <2>1. [status |-> "pending", burn |-> b, created |-> clock] \in WRow
    BY DEF WRow, TypeOK
  <2> QED BY <1>11, <2>1 DEF SubmitWithdrawal, TypeOK
<1>12. CASE Tick
  BY <1>12 DEF Tick, TypeOK
<1>13. CASE Crash
  <2>1. payTx' \in [PayTx -> PayState]
    BY <1>13, LoseUpdate DEF Crash, TypeOK
  <2> QED BY <1>13, <2>1, FaultsType, IndexFacts DEF Crash, TypeOK, PCs, NoWRow, WRow, NoChange
<1>14. CASE UNCHANGED vars
  BY <1>14 DEF vars, TypeOK
<1> QED
  BY <1>1, <1>2, <1>3, <1>4, <1>5, <1>6, <1>7, <1>8, <1>9, <1>10, <1>11, <1>12, <1>13, <1>14,
     <1>a, <1>b, <1>c
  DEF Next, Loop, Users

-----------------------------------------------------------------------------
(***************************************************************************)
(* Control, rows and the snapshot.                                         *)
(***************************************************************************)

(* While the loop works on a withdrawal, it is a pending row that names a     *)
(* transaction of the L2.                                                     *)
LEMMA Current ==
  ASSUME TypeOK, ControlInv, SnapshotInv, pc \in Working
  PROVE  /\ cur \in Withdrawal /\ snap[cur] = wrow[cur] /\ wrow[cur] \in WRow
         /\ wrow[cur].status = "pending" /\ wrow[cur].burn \in onL2
<1>1. cur \in Withdrawal /\ snap[cur].status = "pending" /\ snap[cur].burn \in onL2
  BY DEF ControlInv, TypeOK
<1>2. snap[cur] = wrow[cur]
  BY <1>1 DEF SnapshotInv
<1> QED BY <1>1, <1>2 DEF TypeOK, WRow

(* The L2 forgets no transaction. *)
LEMMA L2Step ==
  ASSUME [Next]_vars
  PROVE  onL2 \subseteq onL2'
<1>1. ASSUME NEW b, NEW a, Burn(b, a) PROVE onL2 \subseteq onL2'
  BY <1>1 DEF Burn
<1>2. ASSUME NEW t, Transact(t) PROVE onL2 \subseteq onL2'
  BY <1>2 DEF Transact
<1>3. ASSUME ~ \E b \in BurnTx, a \in BurnAmount : Burn(b, a), ~ \E t \in OtherTx : Transact(t)
      PROVE  onL2' = onL2
  BY <1>3, Zenon DEF Next, Loop, Users, ListPending, VerifyBurn, FetchFunded, FetchUtxos,
     BuildPayout, ExpireWithdrawal, Broadcast, PatchCompleted, SkipWithdrawal, EndOfList,
     NextCycle, Deposited, SubmitWithdrawal, Tick, Crash, vars, world
<1> QED BY <1>1, <1>2, <1>3

(* Every step keeps the program counter and the local variables in agreement. *)
LEMMA ControlStep == TypeOK /\ ControlInv /\ [Next]_vars => ControlInv'
<1> SUFFICES ASSUME TypeOK, ControlInv, [Next]_vars PROVE ControlInv'
  OBVIOUS
<1> USE WithdrawAssumption DEF world, local, Working
<1>0. pc \in Working => cur \in Withdrawal
  BY DEF ControlInv, TypeOK
<1>a. ASSUME NEW w \in Withdrawal, Finish(w) PROVE ControlInv'
  BY <1>a, FinishFacts DEF ControlInv
<1>b. ASSUME cur' = cur, cur # None, snap' = snap, cur \in Withdrawal
      PROVE  snap'[cur'].status = "pending" /\ snap'[cur'].burn \in onL2'
  BY <1>b, L2Step DEF ControlInv
<1>1. ASSUME NEW o, ListPending(o) PROVE ControlInv'
  BY <1>1 DEF ListPending, ControlInv
<1>2. ASSUME NEW w \in Withdrawal, NEW o, VerifyBurn(w, o) PROVE ControlInv'
  BY <1>2, <1>a DEF VerifyBurn, ControlInv, Turn
<1>3. CASE BuildPayout
  <2>1. pc = "collect" /\ cur \in Withdrawal
    BY <1>3, <1>0 DEF BuildPayout
  <2>2. Finish(cur) \/ (pc' = "broadcast" /\ UNCHANGED <<snap, cur, hash>>)
    BY <1>3, Zenon DEF BuildPayout
  <2> QED BY <1>a, <1>b, <2>1, <2>2 DEF ControlInv
<1>c. ASSUME NEW o, FetchFunded(o) PROVE ControlInv'
  <2>1. pc = "funded" /\ cur \in Withdrawal
    BY <1>c, <1>0 DEF FetchFunded
  <2>2. Finish(cur) \/ (pc' = "collect" /\ UNCHANGED <<snap, cur, hash>>)
    BY <1>c, Zenon DEF FetchFunded
  <2> QED BY <1>a, <1>b, <2>1, <2>2 DEF ControlInv
<1>d. ASSUME NEW d, NEW o, FetchUtxos(d, o) PROVE ControlInv'
  BY <1>d, <1>0, <1>b DEF FetchUtxos, ControlInv
<1>4. ASSUME NEW w \in Withdrawal, NEW o, ExpireWithdrawal(w, o) PROVE ControlInv'
  BY <1>4, <1>a DEF ExpireWithdrawal
<1>5. ASSUME NEW o, Broadcast(o) PROVE ControlInv'
  <2>1. pc = "broadcast" /\ cur \in Withdrawal
    BY <1>5, <1>0 DEF Broadcast
  <2>2. \/ Finish(cur)
        \/ pc' = "record" /\ hash' \in PayTx /\ UNCHANGED <<snap, cur>>
    BY <1>5, Zenon DEF Broadcast
  <2> QED BY <1>a, <1>b, <2>1, <2>2 DEF ControlInv
<1>6. ASSUME NEW o, PatchCompleted(o) PROVE ControlInv'
  BY <1>6, <1>0, <1>a DEF PatchCompleted
<1>7. ASSUME NEW w \in Withdrawal, SkipWithdrawal(w) PROVE ControlInv'
  BY <1>7, <1>a DEF SkipWithdrawal
<1>8. CASE EndOfList \/ NextCycle
  BY <1>8 DEF EndOfList, NextCycle, ControlInv
<1>9. CASE Users \/ Tick \/ UNCHANGED vars
  <2>1. UNCHANGED <<pc, local>>
    BY <1>9, Zenon DEF Users, Deposited, Burn, Transact, SubmitWithdrawal, Tick, vars
  <2> QED BY <1>0, <1>b, <2>1 DEF ControlInv
<1>10. CASE Crash
  BY <1>10 DEF Crash, ControlInv
<1> QED
  BY <1>1, <1>2, <1>3, <1>4, <1>5, <1>6, <1>7, <1>8, <1>9, <1>10, <1>c, <1>d DEF Next, Loop

(* What any step may do to a row: a request is made, paid or failed. *)
LEMMA RowStep ==
  ASSUME TypeOK, ControlInv, SnapshotInv, [Next]_vars, NEW w \in Withdrawal
  PROVE  \/ wrow'[w] = wrow[w]
         \/ wrow[w].status = "none" /\ wrow'[w].status = "pending"
         \/ /\ wrow[w].status = "pending" /\ wrow'[w].burn = wrow[w].burn
            /\ \/ /\ wrow'[w].status = "completed" /\ w = cur
                  /\ \E o \in Outcome : o # "down" /\ PatchCompleted(o)
               \/ /\ wrow'[w].status = "failed"
                  /\ \E o \in Outcome : ExpireWithdrawal(w, o)
<1>1. ASSUME NEW v \in Withdrawal, NEW b \in L2Tx \cup {None}, SubmitWithdrawal(v, b)
      PROVE  \/ wrow'[w] = wrow[w]
             \/ wrow[w].status = "none" /\ wrow'[w].status = "pending"
  <2> DEFINE r == [status |-> "pending", burn |-> b, created |-> clock]
  <2>1. wrow[v].status = "none" /\ wrow' = [wrow EXCEPT ![v] = r]
    BY <1>1 DEF SubmitWithdrawal
  <2>2. r.status = "pending"
    OBVIOUS
  <2> HIDE DEF r
  <2>3. wrow' = [u \in Withdrawal |-> IF u = v THEN r ELSE wrow[u]]
    BY <2>1 DEF TypeOK
  <2> QED BY <2>1, <2>2, <2>3
<1>2. ASSUME NEW v \in Withdrawal, NEW o \in Outcome, ExpireWithdrawal(v, o), wrow'[w] # wrow[w]
      PROVE  /\ w = v /\ wrow[w].status = "pending" /\ wrow'[w].burn = wrow[w].burn
             /\ wrow'[w].status = "failed"
  <2>1. wrow' = [wrow EXCEPT ![v] = [wrow[v] EXCEPT !.status = "failed"]]
    BY <1>2 DEF ExpireWithdrawal, PatchWithdrawal
  <2>2. wrow[v] \in WRow /\ wrow[v].status = "pending"
    BY <1>2 DEF ExpireWithdrawal, Turn, SnapshotInv, TypeOK
  <2> QED BY <1>2, <2>1, <2>2, RowUpdate DEF TypeOK
<1>3. ASSUME NEW o \in Outcome, PatchCompleted(o), wrow'[w] # wrow[w]
      PROVE  /\ w = cur /\ wrow[w].status = "pending" /\ wrow'[w].burn = wrow[w].burn
             /\ wrow'[w].status = "completed" /\ o # "down"
  <2>1. o # "down" /\ wrow' = [wrow EXCEPT ![cur] = [wrow[cur] EXCEPT !.status = "completed"]]
    BY <1>3 DEF PatchCompleted, PatchWithdrawal
  <2>2. cur \in Withdrawal /\ wrow[cur] \in WRow /\ wrow[cur].status = "pending"
    BY <1>3, Current DEF PatchCompleted, Working
  <2> QED BY <1>3, <2>1, <2>2, RowUpdate DEF TypeOK
<1>4. \/ wrow' = wrow
      \/ \E v \in Withdrawal, b \in L2Tx \cup {None} : SubmitWithdrawal(v, b)
      \/ \E v \in Withdrawal, o \in Outcome : ExpireWithdrawal(v, o)
      \/ \E o \in Outcome : PatchCompleted(o)
  BY Zenon DEF Next, Loop, Users, ListPending, VerifyBurn, FetchFunded, FetchUtxos, BuildPayout,
     Broadcast, SkipWithdrawal, EndOfList, NextCycle, Deposited, Burn, Transact,
     Tick, Crash, vars, world
<1> QED BY <1>1, <1>2, <1>3, <1>4

(* Every step keeps the snapshot of GET /v1/fed/withdrawals/pending true. *)
LEMMA SnapshotStep == TypeOK /\ ControlInv /\ SnapshotInv /\ [Next]_vars => SnapshotInv'
<1> SUFFICES ASSUME TypeOK, ControlInv, SnapshotInv, [Next]_vars PROVE SnapshotInv'
  OBVIOUS
<1> USE DEF world, local
<1>a. ASSUME NEW w \in Withdrawal, Finish(w),
             \A v \in Withdrawal : v # w => wrow'[v] = wrow[v]
      PROVE  SnapshotInv'
  BY <1>a, FinishFacts DEF SnapshotInv, NoWRow
<1>b. ASSUME snap' = snap, \A v \in Withdrawal : snap[v].status # "none" => wrow'[v] = wrow[v]
      PROVE  SnapshotInv'
  BY <1>b DEF SnapshotInv
<1>0. pc \in Working => cur \in Withdrawal
  BY DEF ControlInv, TypeOK
<1>1. ASSUME NEW o, ListPending(o) PROVE SnapshotInv'
  BY <1>1, <1>b DEF ListPending, Pending, SnapshotInv, NoWRow
<1>2. ASSUME NEW w \in Withdrawal, NEW o, VerifyBurn(w, o) PROVE SnapshotInv'
  BY <1>2, <1>a, <1>b DEF VerifyBurn
<1>c. ASSUME NEW o, FetchFunded(o) PROVE SnapshotInv'
  <2>1. cur \in Withdrawal /\ wrow' = wrow
    BY <1>c, <1>0 DEF FetchFunded, Working
  <2>2. Finish(cur) \/ snap' = snap
    BY <1>c, Zenon DEF FetchFunded
  <2> QED BY <1>a, <1>b, <2>1, <2>2
<1>d. ASSUME NEW d, NEW o, FetchUtxos(d, o) PROVE SnapshotInv'
  BY <1>d, <1>b DEF FetchUtxos
<1>3. CASE BuildPayout
  <2>1. cur \in Withdrawal /\ wrow' = wrow
    BY <1>3, <1>0 DEF BuildPayout, Working
  <2>2. Finish(cur) \/ snap' = snap
    BY <1>3, Zenon DEF BuildPayout
  <2> QED BY <1>a, <1>b, <2>1, <2>2
<1>4. ASSUME NEW w \in Withdrawal, NEW o, ExpireWithdrawal(w, o) PROVE SnapshotInv'
  BY <1>4, <1>a DEF ExpireWithdrawal, PatchWithdrawal, TypeOK
<1>5. ASSUME NEW o, Broadcast(o) PROVE SnapshotInv'
  <2>1. cur \in Withdrawal /\ wrow' = wrow
    BY <1>5, <1>0 DEF Broadcast, Working
  <2>2. Finish(cur) \/ snap' = snap
    BY <1>5, Zenon DEF Broadcast
  <2> QED BY <1>a, <1>b, <2>1, <2>2
<1>6. ASSUME NEW o, PatchCompleted(o) PROVE SnapshotInv'
  BY <1>6, <1>0, <1>a DEF PatchCompleted, PatchWithdrawal, Working, TypeOK
<1>7. ASSUME NEW w \in Withdrawal, SkipWithdrawal(w) PROVE SnapshotInv'
  BY <1>7, <1>a DEF SkipWithdrawal
<1>8. ASSUME NEW w \in Withdrawal, NEW b, SubmitWithdrawal(w, b) PROVE SnapshotInv'
  <2>1. snap[w].status = "none"
    BY <1>8 DEF SubmitWithdrawal, SnapshotInv
  <2> QED BY <1>8, <1>b, <2>1 DEF SubmitWithdrawal, TypeOK
<1>9. ASSUME UNCHANGED <<wrow, snap>> PROVE SnapshotInv'
  BY <1>9 DEF SnapshotInv
<1>10. CASE Crash
  BY <1>10 DEF Crash, SnapshotInv, NoWRow
<1>11. ASSUME EndOfList \/ NextCycle \/ Tick \/ UNCHANGED vars
              \/ (\E d \in Dep, c \in Coin : Deposited(d, c))
              \/ (\E b \in BurnTx, a \in BurnAmount : Burn(b, a))
              \/ (\E t \in OtherTx : Transact(t))
       PROVE  UNCHANGED <<wrow, snap>>
  BY <1>11, Zenon DEF EndOfList, NextCycle, Tick, vars, Deposited, Burn, Transact
<1> QED
  BY <1>1, <1>2, <1>3, <1>4, <1>5, <1>6, <1>7, <1>8, <1>9, <1>10, <1>11, <1>c, <1>d
  DEF Next, Loop, Users

-----------------------------------------------------------------------------
(***************************************************************************)
(* Payouts and the loop that tracks them.                                  *)
(***************************************************************************)
PayKept(p) ==
  /\ payTx'[p].st = payTx[p].st /\ payTx'[p].w = payTx[p].w
  /\ payTx[p].lost => payTx'[p].lost

PayCreated(p) ==
  /\ pc = "broadcast" /\ cur \in Withdrawal
  /\ payTx[p].st = "free" /\ payTx'[p].st = "sent" /\ payTx'[p].w = cur
  /\ payTx'[p].lost \/ hash' = p
  /\ \A q \in PayTx : q # p => payTx'[q] = payTx[q]

(* Only broadcastTx starts a payout; whom it is for never changes. *)
LEMMA PayFrame ==
  ASSUME TypeOK, ControlInv, [Next]_vars
  PROVE  \/ \A p \in PayTx : PayKept(p)
         \/ \E p \in PayTx : PayCreated(p)
<1>1. ASSUME NEW o, Broadcast(o)
      PROVE  payTx' = payTx \/ \E p \in PayTx : PayCreated(p)
  <2>1. pc = "broadcast" /\ cur \in Withdrawal
    BY <1>1 DEF Broadcast, ControlInv, Working, TypeOK
  <2>2. \/ payTx' = payTx
        \/ \E p \in PayTx : Pay(p, o) /\ (o = "lost" \/ hash' = p)
    BY <1>1, Zenon DEF Broadcast
  <2>3. ASSUME NEW p \in PayTx, Pay(p, o), o = "lost" \/ hash' = p PROVE PayCreated(p)
    BY <2>1, <2>3, PayFacts DEF PayCreated
  <2> QED BY <2>2, <2>3
<1>2. ASSUME NEW p \in PayTx, Lose(p) PROVE \A q \in PayTx : PayKept(q)
  BY <1>2, LoseUpdate DEF PayKept
<1>3. ASSUME NEW o, PatchCompleted(o) PROVE \A q \in PayTx : PayKept(q)
  <2>1. hash \in PayTx
    BY <1>3 DEF PatchCompleted, ControlInv, TypeOK
  <2> QED BY <1>2, <1>3, <2>1 DEF PatchCompleted, PayKept
<1>4. CASE Crash
  BY <1>2, <1>4 DEF Crash, PayKept, TypeOK
<1>5. ASSUME payTx' = payTx PROVE \A q \in PayTx : PayKept(q)
  BY <1>5 DEF PayKept
<1>6. \/ payTx' = payTx
      \/ \E o \in Outcome : Broadcast(o) \/ PatchCompleted(o)
      \/ Crash
  BY Zenon DEF Next, Loop, Users, ListPending, VerifyBurn, FetchFunded, FetchUtxos, BuildPayout, ExpireWithdrawal,
     SkipWithdrawal, EndOfList, NextCycle, Deposited, Burn, Transact, SubmitWithdrawal, Tick, vars, world
<1> QED BY <1>1, <1>3, <1>4, <1>5, <1>6

(* Every payout stays one for a request that was made. *)
LEMMA PayInvStep ==
  TypeOK /\ ControlInv /\ SnapshotInv /\ PayInv /\ [Next]_vars => PayInv'
<1> SUFFICES ASSUME TypeOK, ControlInv, SnapshotInv, PayInv, [Next]_vars, NEW p \in PayTx
             PROVE  /\ payTx'[p].st = "free" => payTx'[p].w = None
                    /\ payTx'[p].st = "sent" =>
                         payTx'[p].w \in Withdrawal /\ wrow'[payTx'[p].w].status # "none"
  BY DEF PayInv
<1>1. \A w \in Withdrawal : wrow[w].status # "none" => wrow'[w].status # "none"
  BY RowStep
<1>2. CASE PayKept(p)
  BY <1>1, <1>2 DEF PayInv, PayKept
<1>3. CASE PayCreated(p)
  <2>1. cur \in Withdrawal /\ wrow[cur].status # "none"
    BY <1>3, Current DEF PayCreated, Working
  <2> QED BY <1>1, <1>3, <2>1 DEF PayCreated
<1>4. CASE payTx'[p] = payTx[p]
  BY <1>1, <1>4 DEF PayInv
<1> QED BY <1>2, <1>3, <1>4, PayFrame DEF PayCreated

(* When the loop records or loses the payout it holds, and only then, it *)
(* lets go of it.                                                         *)
LEMMA HashStep ==
  ASSUME TypeOK, ControlInv, SnapshotInv, TrackedInv, [Next]_vars, hash # None
  PROVE  \/ UNCHANGED <<hash, cur, payTx>>
         \/ hash' = None /\ payTx'[hash].lost
         \/ hash' = None /\ payTx' = payTx /\ wrow'[cur].status = "completed"
<1>0. pc = "record" /\ hash \in PayTx /\ cur \in Withdrawal /\ wrow[cur] \in WRow
  BY Current DEF ControlInv, TypeOK, Working
<1>1. ASSUME NEW o, PatchCompleted(o)
      PROVE  \/ hash' = None /\ payTx'[hash].lost
             \/ hash' = None /\ payTx' = payTx /\ wrow'[cur].status = "completed"
  <2>1. hash' = None
    BY <1>0, <1>1, FinishFacts DEF PatchCompleted
  <2>2. CASE o = "down"
    BY <1>0, <1>1, <2>1, <2>2, LoseUpdate DEF PatchCompleted
  <2>3. CASE o # "down"
    <3>1. payTx' = payTx /\ wrow' = [wrow EXCEPT ![cur] = [wrow[cur] EXCEPT !.status = "completed"]]
      BY <1>1, <2>3 DEF PatchCompleted, PatchWithdrawal
    <3> QED BY <1>0, <2>1, <3>1, RowUpdate DEF TypeOK
  <2> QED BY <2>2, <2>3
<1>2. CASE Crash
  BY <1>0, <1>2, LoseUpdate DEF Crash
<1>3. \/ UNCHANGED <<hash, cur, payTx>>
      \/ \E o \in Outcome : PatchCompleted(o)
      \/ Crash
  BY <1>0, Zenon DEF Next, Loop, Users, ListPending, VerifyBurn, FetchFunded, FetchUtxos, BuildPayout, ExpireWithdrawal,
     Turn, Broadcast, SkipWithdrawal, EndOfList, NextCycle, Deposited, Burn, Transact, SubmitWithdrawal,
     Tick, vars, world, local
<1> QED BY <1>1, <1>2, <1>3

(* Without a payout in hand the loop can only take up one it just made. *)
LEMMA NoHashStep ==
  ASSUME TypeOK, ControlInv, [Next]_vars, hash = None
  PROVE  hash' = None \/ (hash' \in PayTx /\ PayCreated(hash') /\ cur' = cur
                          /\ ~payTx'[hash'].lost)
<1>0. pc # "record" /\ (pc \in Working => cur \in Withdrawal)
  BY DEF ControlInv, TypeOK
<1>a. ASSUME NEW w \in Withdrawal, Finish(w) PROVE hash' = None
  BY <1>a, FinishFacts
<1>1. ASSUME NEW o, Broadcast(o)
      PROVE  hash' = None \/ (hash' \in PayTx /\ PayCreated(hash') /\ cur' = cur
                              /\ ~payTx'[hash'].lost)
  <2>1. pc = "broadcast" /\ cur \in Withdrawal
    BY <1>0, <1>1 DEF Broadcast, Working
  <2>2. \/ Finish(cur)
        \/ \E p \in PayTx : Pay(p, o) /\ o # "lost" /\ hash' = p /\ cur' = cur
    BY <1>1, Zenon DEF Broadcast
  <2>3. ASSUME NEW p \in PayTx, Pay(p, o), o # "lost", hash' = p, cur' = cur
        PROVE  hash' \in PayTx /\ PayCreated(hash') /\ cur' = cur /\ ~payTx'[hash'].lost
    BY <2>1, <2>3, PayFacts DEF PayCreated
  <2> QED BY <1>a, <2>1, <2>2, <2>3
<1>2. ASSUME NEW w \in Withdrawal, NEW o, VerifyBurn(w, o) \/ ExpireWithdrawal(w, o) \/ SkipWithdrawal(w)
      PROVE hash' = None
  BY <1>2, <1>a DEF VerifyBurn, ExpireWithdrawal, SkipWithdrawal
<1>3. ASSUME NEW o, BuildPayout \/ FetchFunded(o) PROVE hash' = None
  <2>1. cur \in Withdrawal
    BY <1>0, <1>3 DEF BuildPayout, FetchFunded, Working
  <2>2. Finish(cur) \/ hash' = hash
    BY <1>3, Zenon DEF BuildPayout, FetchFunded
  <2> QED BY <1>a, <2>1, <2>2
<1>4. ASSUME ~ \E o \in Outcome : \/ Broadcast(o) \/ BuildPayout \/ FetchFunded(o)
                                  \/ \E w \in Withdrawal : \/ VerifyBurn(w, o)
                                                            \/ ExpireWithdrawal(w, o)
                                                            \/ SkipWithdrawal(w)
      PROVE  hash' = hash \/ hash' = None
  BY <1>0, <1>4, Zenon DEF Next, Loop, Users, ListPending, FetchUtxos, PatchCompleted, EndOfList,
     NextCycle, Deposited, Burn, Transact, SubmitWithdrawal, Tick, Crash, vars, local, Outcome
<1> QED BY <1>1, <1>2, <1>3, <1>4

(* Every step keeps track of the payouts the loop has not lost. *)
LEMMA TrackedStep ==
  TypeOK /\ ControlInv /\ SnapshotInv /\ PayInv /\ TrackedInv /\ [Next]_vars => TrackedInv'
<1> SUFFICES ASSUME TypeOK, ControlInv, SnapshotInv, PayInv, TrackedInv, [Next]_vars
             PROVE  TrackedInv'
  OBVIOUS
<1> USE WithdrawAssumption
<1>1. ASSUME NEW p \in PayTx, payTx'[p].st = "sent", ~payTx'[p].lost,
             PayKept(p), p # hash
      PROVE  wrow'[payTx'[p].w].status = "completed"
  <2>1. /\ payTx[p].st = "sent" /\ ~payTx[p].lost /\ payTx'[p].w = payTx[p].w
        /\ payTx[p].w \in Withdrawal
    BY <1>1 DEF PayKept, PayInv
  <2>2. wrow[payTx[p].w].status = "completed"
    BY <1>1, <2>1 DEF TrackedInv
  <2> QED BY <2>1, <2>2, RowStep
<1>2. CASE hash # None
  <2>0. hash \in PayTx /\ pc = "record"
    BY <1>2 DEF TypeOK, ControlInv
  <2>1. \A p \in PayTx : PayKept(p)
    BY <2>0, PayFrame DEF PayCreated
  <2>2. /\ payTx[hash].st = "sent" /\ ~payTx[hash].lost /\ payTx[hash].w = cur
    BY <1>2 DEF TrackedInv
  <2>3. CASE UNCHANGED <<hash, cur, payTx>>
    BY <1>1, <2>1, <2>2, <2>3 DEF TrackedInv
  <2>4. CASE hash' = None /\ payTx'[hash].lost
    BY <1>1, <2>1, <2>4 DEF TrackedInv
  <2>5. CASE hash' = None /\ payTx' = payTx /\ wrow'[cur].status = "completed"
    BY <1>1, <2>1, <2>2, <2>5 DEF TrackedInv
  <2> QED BY <1>2, <2>3, <2>4, <2>5, HashStep
<1>3. CASE hash = None
  <2>0. \A p \in PayTx : p # hash
    BY <1>3
  <2>1. CASE \A p \in PayTx : PayKept(p)
    <3>1. hash' = None
      BY <1>3, <2>1, NoHashStep DEF PayKept, PayCreated
    <3> QED BY <1>1, <2>0, <2>1, <3>1 DEF TrackedInv
  <2>2. CASE \E p \in PayTx : PayCreated(p)
    <3>1. PICK p \in PayTx : PayCreated(p)
      BY <2>2
    <3>2. \A q \in PayTx : q # p => PayKept(q)
      BY <3>1 DEF PayCreated, PayKept
    <3>3. \A q \in PayTx : q # p /\ payTx'[q].st = "sent" /\ ~payTx'[q].lost
                           => wrow'[payTx'[q].w].status = "completed"
      BY <1>1, <2>0, <3>2
    <3>4. CASE hash' = None
      BY <3>1, <3>3, <3>4 DEF TrackedInv, PayCreated
    <3>5. CASE hash' # None
      <4>1. hash' \in PayTx /\ PayCreated(hash') /\ cur' = cur /\ ~payTx'[hash'].lost
        BY <1>3, <3>5, NoHashStep
      <4>2. hash' = p
        BY <3>1, <4>1 DEF PayCreated
      <4>3. payTx'[p].st = "sent" /\ payTx'[p].w = cur /\ ~payTx'[p].lost
        BY <3>1, <4>1, <4>2 DEF PayCreated
      <4> QED BY <3>3, <4>1, <4>2, <4>3 DEF TrackedInv
    <3> QED BY <3>4, <3>5
  <2> QED BY <2>1, <2>2, PayFrame
<1> QED BY <1>2, <1>3

(* From the list of the rows to the broadcast nothing changes what was listed. *)
LEMMA InputsStep == TypeOK /\ ControlInv /\ InputsInv /\ [Next]_vars => InputsInv'
<1> SUFFICES ASSUME TypeOK, ControlInv, InputsInv, [Next]_vars PROVE InputsInv'
  OBVIOUS
<1> USE DEF world, local
<1> DEFINE Listing == {"collect", "broadcast"}
<1>a. ASSUME NEW w \in Withdrawal, Finish(w) PROVE InputsInv'
  BY <1>a, FinishFacts DEF InputsInv
<1>b. ASSUME UNCHANGED <<rows, inputs>>, UNCHANGED <<funded, coin>>, pc' \in Listing => pc \in Listing
      PROVE  InputsInv'
  BY <1>b DEF InputsInv
<1>c. ASSUME rows' \subseteq funded', pc' \notin Listing PROVE InputsInv'
  BY <1>c DEF InputsInv
<1>0. pc \in Working => cur \in Withdrawal
  BY DEF ControlInv, TypeOK
<1>1. CASE BuildPayout
  <2>1. cur \in Withdrawal /\ pc = "collect" /\ UNCHANGED <<funded, coin>>
    BY <1>0, <1>1 DEF BuildPayout, Working
  <2>2. \/ Finish(cur)
        \/ rows' = rows /\ \E S \in Selections(inputs, Amount[cur] + Fee) : inputs' = S
    BY <1>1, Zenon DEF BuildPayout
  <2>3. ASSUME NEW S \in Selections(inputs, Amount[cur] + Fee), inputs' = S, rows' = rows
        PROVE  InputsInv'
    BY <2>1, <2>3 DEF InputsInv, Selections
  <2> QED BY <1>a, <2>1, <2>2, <2>3
<1>2. ASSUME NEW o, FetchFunded(o) PROVE InputsInv'
  <2>1. cur \in Withdrawal /\ pc = "funded" /\ UNCHANGED <<funded, coin>>
    BY <1>0, <1>2 DEF FetchFunded, Working
  <2>2. Finish(cur) \/ (rows' = funded /\ inputs' = {})
    BY <1>2, Zenon DEF FetchFunded
  <2> QED BY <1>a, <2>1, <2>2 DEF InputsInv
<1>3. ASSUME NEW d \in Dep, NEW o, FetchUtxos(d, o) PROVE InputsInv'
  <2>1. pc = "collect" /\ d \in funded /\ UNCHANGED <<funded, coin, pc>>
    BY <1>3 DEF FetchUtxos, InputsInv
  <2>2. rows' \subseteq funded
    BY <1>3 DEF FetchUtxos, InputsInv
  <2>3. ASSUME NEW x \in Collected({d})
        PROVE  x[2] \in funded /\ coin[x[1]].st = "unspent" /\ coin[x[1]].index = DepIndex[x[2]]
    BY <2>1 DEF Collected
  <2>4. inputs' \subseteq inputs \cup Collected({d})
    BY <1>3 DEF FetchUtxos
  <2> QED BY <2>1, <2>2, <2>3, <2>4 DEF InputsInv
<1>4. ASSUME NEW o, Broadcast(o) PROVE InputsInv'
  <2>1. cur \in Withdrawal /\ funded' = funded
    BY <1>0, <1>4 DEF Broadcast, Working
  <2>2. Finish(cur) \/ (pc' = "record" /\ rows' = rows)
    BY <1>4, Zenon DEF Broadcast
  <2> QED BY <1>a, <1>c, <2>1, <2>2 DEF InputsInv
<1>5. ASSUME NEW o, PatchCompleted(o) PROVE InputsInv'
  BY <1>0, <1>5, <1>a DEF PatchCompleted, Working
<1>6. ASSUME NEW w \in Withdrawal, NEW o, ExpireWithdrawal(w, o) \/ SkipWithdrawal(w)
      PROVE  InputsInv'
  BY <1>6, <1>a DEF ExpireWithdrawal, SkipWithdrawal
<1>7. ASSUME NEW w \in Withdrawal, NEW o, VerifyBurn(w, o) PROVE InputsInv'
  <2>1. funded' = funded /\ (Finish(w) \/ (pc' = "funded" /\ rows' = rows))
    BY <1>7, Zenon DEF VerifyBurn
  <2> QED BY <1>a, <1>c, <2>1 DEF InputsInv
<1>8. ASSUME NEW o, ListPending(o) PROVE InputsInv'
  BY <1>8, <1>b DEF ListPending
<1>9. CASE EndOfList \/ NextCycle
  BY <1>9, <1>b DEF EndOfList, NextCycle
<1>10. CASE Crash
  BY <1>10 DEF Crash, InputsInv
<1>11. ASSUME NEW d \in Dep, NEW c \in Coin, Deposited(d, c) PROVE InputsInv'
  BY <1>11, <1>c DEF Deposited, InputsInv
<1>12. ASSUME \/ Tick \/ UNCHANGED vars
              \/ \E b \in BurnTx, a \in BurnAmount : Burn(b, a)
              \/ \E t \in OtherTx : Transact(t)
              \/ \E w \in Withdrawal, t \in L2Tx \cup {None} : SubmitWithdrawal(w, t)
       PROVE  InputsInv'
  <2>1. UNCHANGED <<rows, inputs>> /\ UNCHANGED <<funded, coin>> /\ pc' = pc
    BY <1>12, Zenon DEF Tick, vars, Burn, Transact, SubmitWithdrawal
  <2> QED BY <1>b, <2>1
<1> QED
  BY <1>1, <1>2, <1>3, <1>4, <1>5, <1>6, <1>7, <1>8, <1>9, <1>10, <1>11, <1>12
  DEF Next, Loop, Users

(* Every step keeps PaidOnce: a payout is made only for a pending row. *)
LEMMA PaidOnceStep ==
  /\ TypeOK /\ ControlInv /\ SnapshotInv /\ PayInv /\ TrackedInv /\ PaidOnce /\ [Next]_vars
  => PaidOnce'
<1> SUFFICES ASSUME TypeOK, ControlInv, SnapshotInv, PayInv, TrackedInv, PaidOnce, [Next]_vars,
                    NEW p \in PayTx, NEW q \in PayTx, p # q,
                    payTx'[p].st = "sent", payTx'[q].st = "sent", payTx'[p].w = payTx'[q].w,
                    ~payTx'[p].lost, ~payTx'[q].lost
             PROVE  FALSE
  BY DEF PaidOnce
<1>1. ASSUME NEW a \in PayTx, NEW b \in PayTx, a # b, PayCreated(a), payTx'[b].st = "sent",
             ~payTx'[b].lost, payTx'[a].w = payTx'[b].w
      PROVE  FALSE
  <2>1. pc = "broadcast" /\ payTx'[b] = payTx[b] /\ payTx'[a].w = cur
    BY <1>1 DEF PayCreated
  <2>2. hash = None /\ wrow[cur].status = "pending"
    BY <2>1, Current DEF ControlInv, Working
  <2> QED BY <1>1, <2>1, <2>2, WithdrawAssumption DEF TrackedInv
<1>2. CASE \E a \in PayTx : PayCreated(a)
  <2>1. PICK a \in PayTx : PayCreated(a)
    BY <1>2
  <2>2. a = p \/ a = q \/ (payTx'[p] = payTx[p] /\ payTx'[q] = payTx[q])
    BY <2>1 DEF PayCreated
  <2> QED BY <1>1, <2>1, <2>2 DEF PaidOnce
<1>3. CASE \A a \in PayTx : PayKept(a)
  BY <1>3 DEF PayKept, PaidOnce
<1> QED BY <1>2, <1>3, PayFrame

(* Every step keeps the final statuses true. *)
LEMMA FinalStatusStep ==
  /\ TypeOK /\ ControlInv /\ SnapshotInv /\ PayInv /\ TrackedInv /\ FinalStatusIsTrue /\ [Next]_vars
  => FinalStatusIsTrue'
<1> SUFFICES ASSUME TypeOK, ControlInv, SnapshotInv, PayInv, TrackedInv, FinalStatusIsTrue,
                    [Next]_vars, NEW w \in Withdrawal
             PROVE  /\ wrow'[w].status = "completed" =>
                         \E p \in PayTx : payTx'[p].st = "sent" /\ payTx'[p].w = w /\ ~payTx'[p].lost
                    /\ wrow'[w].status = "failed" =>
                         \A p \in PayTx : payTx'[p].w = w => payTx'[p].lost
  BY DEF FinalStatusIsTrue
<1> USE WithdrawAssumption
(* A payout of a finished row is neither made nor lost by a step. *)
<1>1. ASSUME NEW p \in PayTx, wrow[w].status \in {"completed", "failed"}
      PROVE  /\ payTx'[p].w = w => payTx[p].w = w /\ (payTx[p].lost => payTx'[p].lost)
             /\ payTx[p].w = w /\ payTx[p].st = "sent" /\ ~payTx[p].lost
                => payTx'[p].w = w /\ payTx'[p].st = "sent" /\ ~payTx'[p].lost
  <2>1. CASE \E a \in PayTx : PayCreated(a)
    <3>1. PICK a \in PayTx : PayCreated(a)
      BY <2>1
    <3>2. wrow[cur].status = "pending" /\ payTx[a].st = "free" /\ payTx'[a].w = cur
      BY <3>1, Current DEF PayCreated, Working
    <3> QED BY <1>1, <3>1, <3>2 DEF PayCreated
  <2>2. CASE \A a \in PayTx : PayKept(a)
    <3>1. ASSUME payTx[p].w = w, payTx[p].st = "sent", ~payTx[p].lost PROVE ~payTx'[p].lost
      <4>1. CASE p = hash
        <5>1. cur = w /\ hash # None
          BY <3>1, <4>1 DEF TrackedInv, TypeOK
        <5> QED BY <1>1, <5>1, Current DEF ControlInv
      <4>2. CASE p # hash
        <5>1. payTx' = payTx \/ (hash \in PayTx /\ Lose(hash)) \/ \E a \in PayTx : payTx[a].st = "free" /\ payTx'[a].st = "sent"
          <6>1. hash # None => hash \in PayTx
            BY DEF TypeOK
          <6>2. pc = "record" => hash # None
            BY DEF ControlInv
          <6>3. ASSUME NEW o, Broadcast(o)
                PROVE  payTx' = payTx \/ \E a \in PayTx : payTx[a].st = "free" /\ payTx'[a].st = "sent"
            <7>1. cur \in Withdrawal
              BY <6>3 DEF Broadcast, ControlInv, Working, TypeOK
            <7>2. payTx' = payTx \/ \E a \in PayTx : Pay(a, o)
              BY <6>3, Zenon DEF Broadcast
            <7> QED BY <7>1, <7>2, PayFacts
          <6>4. ASSUME ~ \E o \in Outcome : Broadcast(o)
                PROVE  payTx' = payTx \/ (hash \in PayTx /\ Lose(hash))
            BY <6>1, <6>2, <6>4, Zenon DEF Next, Loop, Users, ListPending, VerifyBurn, FetchFunded, FetchUtxos, BuildPayout,
               ExpireWithdrawal, SkipWithdrawal, PatchCompleted, EndOfList, NextCycle, Deposited,
               Burn, Transact, SubmitWithdrawal, Tick, Crash, vars, world
          <6> QED BY <6>3, <6>4
        <5>2. ~ \E a \in PayTx : payTx[a].st = "free" /\ payTx'[a].st = "sent"
          BY <2>2 DEF PayKept
        <5> QED BY <3>1, <4>2, <5>1, <5>2, LoseUpdate
      <4> QED BY <4>1, <4>2
    <3> QED BY <2>2, <3>1 DEF PayKept
  <2> QED BY <2>1, <2>2, PayFrame
<1>2. CASE wrow[w].status \in {"completed", "failed"}
  <2>1. wrow'[w] = wrow[w]
    BY <1>2, RowStep
  <2> QED BY <1>1, <1>2, <2>1 DEF FinalStatusIsTrue
<1>3. CASE wrow[w].status \notin {"completed", "failed"}
  <2>1. ASSUME wrow'[w].status = "completed"
        PROVE  \E p \in PayTx : payTx'[p].st = "sent" /\ payTx'[p].w = w /\ ~payTx'[p].lost
    <3>1. w = cur /\ \E o \in Outcome : o # "down" /\ PatchCompleted(o)
      BY <1>3, <2>1, RowStep
    <3>2. pc = "record" /\ payTx' = payTx
      BY <3>1 DEF PatchCompleted
    <3>3. hash \in PayTx /\ payTx[hash].st = "sent" /\ ~payTx[hash].lost /\ payTx[hash].w = cur
      BY <3>2 DEF ControlInv, TrackedInv, TypeOK
    <3> QED BY <3>1, <3>2, <3>3
  <2>2. ASSUME wrow'[w].status = "failed", NEW p \in PayTx, payTx'[p].w = w
        PROVE  payTx'[p].lost
    <3>1. \E o \in Outcome : ExpireWithdrawal(w, o)
      BY <1>3, <2>2, RowStep
    <3>2. payTx' = payTx /\ pc = "each" /\ hash = None
      BY <3>1 DEF ExpireWithdrawal, Turn, ControlInv
    <3>3. payTx[p].st = "sent"
      BY <2>2, <3>2 DEF PayInv, TypeOK, PayState
    <3> QED BY <1>3, <2>2, <3>2, <3>3 DEF TrackedInv
  <2> QED BY <2>1, <2>2
<1> QED BY <1>2, <1>3

(* Every step keeps PaidForAnL2Transaction: only a verified request is paid. *)
LEMMA PaidForAnL2TransactionStep ==
  /\ TypeOK /\ ControlInv /\ SnapshotInv /\ PayInv /\ PaidForAnL2Transaction /\ [Next]_vars
  => PaidForAnL2Transaction'
<1> SUFFICES ASSUME TypeOK, ControlInv, SnapshotInv, PayInv, PaidForAnL2Transaction, [Next]_vars,
                    NEW p \in PayTx, payTx'[p].st = "sent"
             PROVE  wrow'[payTx'[p].w].burn \in onL2'
  BY DEF PaidForAnL2Transaction
<1>1. ASSUME NEW w \in Withdrawal, wrow[w].status # "none", wrow[w].burn \in onL2
      PROVE  wrow'[w].burn \in onL2'
  <2>1. wrow'[w].burn = wrow[w].burn
    BY <1>1, RowStep
  <2> QED BY <1>1, <2>1, L2Step
<1>2. CASE PayKept(p) \/ payTx'[p] = payTx[p]
  BY <1>1, <1>2 DEF PayKept, PayInv, PaidForAnL2Transaction
<1>3. CASE PayCreated(p)
  <2>1. /\ payTx'[p].w = cur /\ cur \in Withdrawal /\ wrow[cur].status = "pending"
        /\ wrow[cur].burn \in onL2
    BY <1>3, Current DEF PayCreated, Working
  <2> QED BY <1>1, <2>1
<1> QED BY <1>2, <1>3, PayFrame DEF PayCreated

-----------------------------------------------------------------------------
(***************************************************************************)
(* The theorems.                                                           *)
(***************************************************************************)
(* The inductive invariant holds initially. *)
LEMMA InitIInv == Init => IInv
<1> SUFFICES ASSUME Init PROVE IInv
  OBVIOUS
<1>1. TypeOK
  BY TypeInit
<1>2. ControlInv /\ SnapshotInv /\ InputsInv
  BY WithdrawAssumption DEF Init, ControlInv, SnapshotInv, InputsInv, Working, NoWRow
<1>3. TrackedInv /\ PayInv /\ PaidOnce /\ PaidForAnL2Transaction
  BY DEF Init, TrackedInv, PayInv, PaidOnce, PaidForAnL2Transaction, NoPay
<1>4. FinalStatusIsTrue
  BY DEF Init, FinalStatusIsTrue, NoWRow
<1> QED BY <1>1, <1>2, <1>3, <1>4 DEF IInv

(* The inductive invariant is preserved by every step. *)
LEMMA StepIInv == IInv /\ [Next]_vars => IInv'
BY TypeStep, ControlStep, SnapshotStep, TrackedStep, PayInvStep, InputsStep, PaidOnceStep,
   FinalStatusStep, PaidForAnL2TransactionStep
DEF IInv

(* The inductive invariant of the withdrawal loop holds in every reachable state. *)
THEOREM Invariance == Spec => []IInv
BY InitIInv, StepIInv, PTL DEF Spec

(* Every reachable state of the withdrawals table, the pool, the payouts and *)
(* the loop is well typed; the change index stays below its modulus.         *)
THEOREM TypeCorrect == Spec => []TypeOK
<1>1. IInv => TypeOK
  BY DEF IInv
<1> QED BY <1>1, Invariance, PTL

(* processWithdrawal never pays a request twice unless it lost track of one *)
(* of the two payouts.                                                      *)
THEOREM PaidOnceHolds == Spec => []PaidOnce
<1>1. IInv => PaidOnce
  BY DEF IInv
<1> QED BY <1>1, Invariance, PTL

(* 'completed' and 'failed' (PATCH /v1/fed/withdraw/:id) tell the truth. *)
THEOREM FinalStatusHolds == Spec => []FinalStatusIsTrue
<1>1. IInv => FinalStatusIsTrue
  BY DEF IInv
<1> QED BY <1>1, Invariance, PTL

(* verifyBurnTx sees to it that nothing is paid but for a transaction of the L2, whatever   *)
(* hashes and amounts clients submit and however often a payout is lost and repeated.       *)
THEOREM PaidForAnL2TransactionHolds == Spec => []PaidForAnL2Transaction
<1>1. IInv => PaidForAnL2Transaction
  BY DEF IInv
<1> QED BY <1>1, Invariance, PTL

(* buildSignAndBroadcastWithdrawal signs what the L1 accepts, unless two    *)
(* funded rows share a derivation index.                                    *)
THEOREM PayoutsAcceptable == Spec => []PayoutsAreAcceptable
<1>1. IInv => PayoutsAreAcceptable
  <2> SUFFICES ASSUME IInv, pc = "broadcast",
                      \A d, e \in funded : DepIndex[d] = DepIndex[e] => d = e
               PROVE  Acceptable(inputs)
    BY DEF PayoutsAreAcceptable
  <2>1. \A x \in inputs : coin[x[1]].st = "unspent"
    BY DEF IInv, InputsInv
  <2>2. ASSUME NEW x \in inputs, NEW y \in inputs, x[1] = y[1] PROVE x = y
    <3>1. x[2] \in funded /\ y[2] \in funded /\ DepIndex[x[2]] = DepIndex[y[2]]
      BY <2>2 DEF IInv, InputsInv
    <3>2. x[2] = y[2]
      BY <3>1
    <3>3. x \in Coin \X Dep /\ y \in Coin \X Dep
      BY DEF IInv, TypeOK
    <3> QED BY <2>2, <3>2, <3>3
  <2> QED BY <2>1, <2>2 DEF Acceptable
<1> QED BY <1>1, Invariance, PTL

(* The unguarded PATCH /v1/fed/withdraw/:id never reopens a finished row. *)
THEOREM FinalStatusIsFinalHolds == Spec => FinalStatusIsFinal
<1>1. IInv /\ [Next]_vars =>
        [\A w \in Withdrawal :
           /\ wrow[w].status \in {"completed", "failed"} => wrow'[w] = wrow[w]
           /\ wrow[w].status # "none" => wrow'[w].burn = wrow[w].burn]_vars
  BY RowStep DEF IInv
<1> QED BY <1>1, Invariance, PTL DEF Spec, FinalStatusIsFinal

-----------------------------------------------------------------------------
(***************************************************************************)
(* The withdrawal loop implements the abstract service (Settlement).       *)
(***************************************************************************)

(* A step that leaves the abstract state of every request and its payouts alone is a stutter. *)
LEMMA AbstractStutter ==
  ASSUME \A w \in Withdrawal : /\ OrderState(w)' = OrderState(w)
                               /\ PayoutsOf(w, FALSE)' = PayoutsOf(w, FALSE)
                               /\ PayoutsOf(w, TRUE)' = PayoutsOf(w, TRUE)
  PROVE  UNCHANGED Orders!v
BY Zenon DEF Orders!v

(* An unchanged table or an unchanged L1 leaves its part of the abstract state alone. *)
LEMMA AbstractFrame ==
  /\ wrow' = wrow => \A w \in Withdrawal : OrderState(w)' = OrderState(w)
  /\ payTx' = payTx => \A w \in Withdrawal : /\ PayoutsOf(w, FALSE)' = PayoutsOf(w, FALSE)
                                             /\ PayoutsOf(w, TRUE)' = PayoutsOf(w, TRUE)
BY DEF OrderState, PayoutsOf

(* The loop has no known payout for a pending request, but the one it is recording. *)
LEMMA KnownPayouts ==
  ASSUME IInv, NEW w \in Withdrawal, wrow[w].status = "pending",
         NEW p \in PayTx, p \in PayoutsOf(w, FALSE)
  PROVE  p = hash /\ w = cur
<1>1. payTx[p].st = "sent" /\ payTx[p].w = w /\ ~payTx[p].lost
  BY DEF PayoutsOf
<1>2. p = hash
  BY <1>1 DEF IInv, TrackedInv
<1>3. hash # None
  BY <1>2, WithdrawAssumption
<1> QED BY <1>1, <1>2, <1>3 DEF IInv, TrackedInv

(* A payout the loop loses track of is forgotten, for the open request it was made for. *)
LEMMA LoseIsForget ==
  ASSUME IInv, UNCHANGED wrow, hash \in PayTx, Lose(hash)
  PROVE  [Orders!Next]_(Orders!v)
<1>0. /\ TypeOK /\ ControlInv /\ SnapshotInv /\ pc = "record"
      /\ payTx[hash].st = "sent" /\ ~payTx[hash].lost /\ payTx[hash].w = cur
      /\ payTx[hash] \in PayState
  BY WithdrawAssumption DEF IInv, TypeOK, TrackedInv, ControlInv
<1> PICK w \in Withdrawal : w = cur
  BY <1>0, Current DEF Working
<1> PICK t \in PayTx : t = hash
  OBVIOUS
<1>1. /\ payTx'[t].lost = TRUE
      /\ \A q \in PayTx : /\ payTx'[q].st = payTx[q].st /\ payTx'[q].w = payTx[q].w
                          /\ q # t => payTx'[q] = payTx[q]
  BY <1>0, LoseUpdate DEF Lose, TypeOK, PayState
<1>2. wrow[w].status = "pending" /\ OrderState(w) = "open"
  BY <1>0, Current DEF Working, OrderState
<1>3. t \in PayoutsOf(w, FALSE)
  BY <1>0 DEF PayoutsOf, PayState
<1>4. PayoutsOf(w, FALSE)' = {}
  <2> SUFFICES ASSUME NEW p \in PayTx, p \in PayoutsOf(w, FALSE)' PROVE FALSE
    BY DEF PayoutsOf
  <2>1. p # t /\ p \in PayoutsOf(w, FALSE)
    BY <1>1 DEF PayoutsOf
  <2> QED BY <1>2, <2>1, KnownPayouts
<1>5. PayoutsOf(w, TRUE)' = PayoutsOf(w, TRUE) \cup {t}
  BY <1>0, <1>1 DEF PayoutsOf
<1>6. \A v \in Withdrawal : v # w => /\ PayoutsOf(v, FALSE)' = PayoutsOf(v, FALSE)
                                     /\ PayoutsOf(v, TRUE)' = PayoutsOf(v, TRUE)
  BY <1>0, <1>1 DEF PayoutsOf
<1>7. Orders!Forget(w, t)
  BY <1>2, <1>3, <1>4, <1>5, <1>6, AbstractFrame DEF Orders!Forget
<1> QED BY <1>7 DEF Orders!Next

(* broadcastTx sends a payout for an open request that has no known one. *)
LEMMA BroadcastIsSend ==
  ASSUME IInv, NEW o, Broadcast(o)
  PROVE  [Orders!Next]_(Orders!v)
<1>0. /\ TypeOK /\ ControlInv /\ SnapshotInv
      /\ pc = "broadcast" /\ hash = None /\ UNCHANGED wrow
  BY DEF IInv, Broadcast, ControlInv
<1> PICK w \in Withdrawal : w = cur
  BY <1>0, Current DEF Working
<1>1. wrow[w].status = "pending" /\ OrderState(w) = "open"
  BY <1>0, Current DEF Working, OrderState
<1>2. PayoutsOf(w, FALSE) = {}
  <2> SUFFICES ASSUME NEW p \in PayTx, p \in PayoutsOf(w, FALSE) PROVE FALSE
    BY DEF PayoutsOf
  <2> QED BY <1>0, <1>1, KnownPayouts, WithdrawAssumption
<1>3. ASSUME NEW t \in PayTx, Pay(t, o) PROVE Orders!Send(w, t)
  <2>1. /\ payTx[t].st = "free"
        /\ payTx'[t].st = "sent" /\ payTx'[t].w = w /\ (payTx'[t].lost <=> o = "lost")
        /\ \A q \in PayTx : q # t => payTx'[q] = payTx[q]
        /\ payTx' \in [PayTx -> PayState]
    BY <1>0, <1>3, PayFacts
  <2>2. payTx'[t].lost \in BOOLEAN
    BY <2>1 DEF PayState
  <2>3. \A v \in Withdrawal : t \notin PayoutsOf(v, FALSE) \cup PayoutsOf(v, TRUE)
    BY <2>1 DEF PayoutsOf
  <2>4. \A v \in Withdrawal : v # w => /\ PayoutsOf(v, FALSE)' = PayoutsOf(v, FALSE)
                                       /\ PayoutsOf(v, TRUE)' = PayoutsOf(v, TRUE)
    BY <2>1, <2>3 DEF PayoutsOf
  <2>5. CASE o = "lost"
    <3>1. /\ PayoutsOf(w, FALSE)' = PayoutsOf(w, FALSE)
          /\ PayoutsOf(w, TRUE)' = PayoutsOf(w, TRUE) \cup {t}
      BY <2>1, <2>2, <2>3, <2>5 DEF PayoutsOf
    <3> QED BY <1>0, <1>1, <1>2, <2>3, <2>4, <3>1, AbstractFrame DEF Orders!Send, Orders!Fresh
  <2>6. CASE o # "lost"
    <3>1. /\ PayoutsOf(w, FALSE)' = {t}
          /\ PayoutsOf(w, TRUE)' = PayoutsOf(w, TRUE)
      BY <1>2, <2>1, <2>2, <2>3, <2>6 DEF PayoutsOf
    <3> QED BY <1>0, <1>1, <1>2, <2>3, <2>4, <3>1, AbstractFrame DEF Orders!Send, Orders!Fresh
  <2> QED BY <2>5, <2>6
<1>4. payTx' = payTx \/ \E t \in PayTx : Pay(t, o)
  BY Zenon DEF Broadcast
<1>5. CASE payTx' = payTx
  BY <1>0, <1>5, AbstractFrame, AbstractStutter
<1> QED BY <1>3, <1>4, <1>5 DEF Orders!Next

(* A PATCH of one row changes the abstract state of its request only. *)
LEMMA PatchState ==
  ASSUME TypeOK, NEW w \in Withdrawal, NEW s \in {"completed", "failed"},
         wrow' = [wrow EXCEPT ![w].status = s]
  PROVE  /\ OrderState(w)' = IF s = "completed" THEN "settled" ELSE "dropped"
         /\ \A v \in Withdrawal : v # w => OrderState(v)' = OrderState(v)
<1>1. wrow' = [wrow EXCEPT ![w] = [wrow[w] EXCEPT !.status = s]] /\ wrow[w] \in WRow
  BY DEF TypeOK
<1>2. wrow'[w].status = s /\ \A v \in Withdrawal : v # w => wrow'[v] = wrow[v]
  BY <1>1, RowUpdate DEF TypeOK
<1> QED BY <1>2 DEF OrderState

(* PATCH 'completed' settles the request with the payout the loop knows of. *)
LEMMA PatchCompletedIsSettle ==
  ASSUME IInv, NEW o, PatchCompleted(o)
  PROVE  [Orders!Next]_(Orders!v)
<1>0. /\ TypeOK /\ ControlInv /\ SnapshotInv /\ TrackedInv /\ pc = "record"
      /\ hash \in PayTx /\ hash # None /\ payTx[hash] \in PayState
  BY WithdrawAssumption DEF IInv, PatchCompleted, ControlInv, TypeOK
<1>1. CASE o = "down"
  BY <1>0, <1>1, LoseIsForget DEF PatchCompleted, PatchWithdrawal
<1>2. CASE o # "down"
  <2> PICK w \in Withdrawal : w = cur
    BY <1>0, Current DEF Working
  <2>1. wrow' = [wrow EXCEPT ![w].status = "completed"] /\ payTx' = payTx
    BY <1>2 DEF PatchCompleted, PatchWithdrawal
  <2>2. OrderState(w) = "open"
    BY <1>0, Current DEF Working, OrderState
  <2>3. hash \in PayoutsOf(w, FALSE)
    BY <1>0 DEF TrackedInv, PayoutsOf, PayState
  <2>4. /\ OrderState(w)' = "settled"
        /\ \A v \in Withdrawal : v # w => OrderState(v)' = OrderState(v)
    BY <1>0, <2>1, PatchState
  <2>5. Orders!Settle(w)
    BY <2>1, <2>2, <2>3, <2>4, AbstractFrame DEF Orders!Settle
  <2> QED BY <2>5 DEF Orders!Next
<1> QED BY <1>1, <1>2

(* The time-out drops a request for which the loop knows of no payout. *)
LEMMA ExpireIsDrop ==
  ASSUME IInv, NEW w \in Withdrawal, NEW o, ExpireWithdrawal(w, o)
  PROVE  [Orders!Next]_(Orders!v)
<1>0. /\ TypeOK /\ ControlInv /\ pc = "each" /\ hash = None
      /\ wrow[w].status = "pending" /\ payTx' = payTx
  BY DEF IInv, ExpireWithdrawal, Turn, ControlInv, SnapshotInv
<1>1. CASE wrow' = wrow
  BY <1>0, <1>1, AbstractFrame, AbstractStutter
<1>2. CASE wrow' # wrow
  <2>1. wrow' = [wrow EXCEPT ![w].status = "failed"]
    BY <1>2 DEF ExpireWithdrawal, PatchWithdrawal
  <2>2. OrderState(w) = "open"
    BY <1>0 DEF OrderState
  <2>3. PayoutsOf(w, FALSE) = {}
    <3> SUFFICES ASSUME NEW p \in PayTx, p \in PayoutsOf(w, FALSE) PROVE FALSE
      BY DEF PayoutsOf
    <3> QED BY <1>0, KnownPayouts, WithdrawAssumption
  <2>4. /\ OrderState(w)' = "dropped"
        /\ \A v \in Withdrawal : v # w => OrderState(v)' = OrderState(v)
    BY <1>0, <2>1, PatchState
  <2>5. Orders!Drop(w)
    BY <1>0, <2>2, <2>3, <2>4, AbstractFrame DEF Orders!Drop
  <2> QED BY <2>5 DEF Orders!Next
<1> QED BY <1>1, <1>2

(* POST /v1/bridge/withdraw submits an order. *)
LEMMA SubmitIsSubmit ==
  ASSUME TypeOK, NEW w \in Withdrawal, NEW b, SubmitWithdrawal(w, b)
  PROVE  [Orders!Next]_(Orders!v)
<1>1. /\ wrow[w].status = "none" /\ wrow'[w].status = "pending"
      /\ \A v \in Withdrawal : v # w => wrow'[v] = wrow[v]
      /\ payTx' = payTx
  BY DEF SubmitWithdrawal, TypeOK
<1>2. /\ OrderState(w) = "none" /\ OrderState(w)' = "open"
      /\ \A v \in Withdrawal : v # w => OrderState(v)' = OrderState(v)
  BY <1>1 DEF OrderState
<1>3. Orders!Submit(w)
  BY <1>1, <1>2, AbstractFrame DEF Orders!Submit
<1> QED BY <1>3 DEF Orders!Next

(* Every step of the withdrawal loop, its users and its chains is a step of the abstract *)
(* service, or no step of it. *)
LEMMA WithdrawStepRefines == IInv /\ [Next]_vars => [Orders!Next]_(Orders!v)
<1> SUFFICES ASSUME IInv, [Next]_vars PROVE [Orders!Next]_(Orders!v)
  OBVIOUS
<1>0. TypeOK
  BY DEF IInv
<1>1. CASE UNCHANGED <<wrow, payTx>>
  BY <1>1, AbstractFrame, AbstractStutter
<1>2. CASE Crash
  <2>1. CASE hash = None
    BY <1>1, <1>2, <2>1 DEF Crash
  <2>2. CASE hash # None
    BY <1>0, <1>2, <2>2, LoseIsForget DEF Crash, TypeOK
  <2> QED BY <2>1, <2>2
<1>3. \/ UNCHANGED <<wrow, payTx>>
      \/ \E o \in Outcome : \/ Broadcast(o) \/ PatchCompleted(o)
                            \/ \E w \in Withdrawal : ExpireWithdrawal(w, o)
      \/ \E w \in Withdrawal, b \in L2Tx \cup {None} : SubmitWithdrawal(w, b)
      \/ Crash
  BY Zenon DEF Next, Loop, Users, ListPending, VerifyBurn, FetchFunded, FetchUtxos, BuildPayout,
     SkipWithdrawal, EndOfList, NextCycle, Deposited, Burn, Transact, Tick, vars, world
<1> QED BY <1>0, <1>1, <1>2, <1>3, BroadcastIsSend, PatchCompletedIsSettle, ExpireIsDrop,
           SubmitIsSubmit

(* The withdrawal half of the federation implements the abstract service: a payout settles a  *)
(* request or the time-out drops it and, while processWithdrawal knows of a payout, it sends  *)
(* no other.                                                                                  *)
THEOREM SettlesWithdrawalsHolds == Spec => SettlesWithdrawals
<1>1. Init => Orders!Init
  <2> SUFFICES ASSUME Init PROVE Orders!Init
    OBVIOUS
  <2>1. \A w \in Withdrawal : /\ OrderState(w) = "none"
                              /\ PayoutsOf(w, FALSE) = {} /\ PayoutsOf(w, TRUE) = {}
    BY DEF Init, NoWRow, NoPay, OrderState, PayoutsOf
  <2> QED BY <2>1, Zenon DEF Orders!Init
<1> QED BY <1>1, WithdrawStepRefines, Invariance, PTL DEF Spec, SettlesWithdrawals, Orders!Spec
=============================================================================
