---------------------------- MODULE MCDepositFlow ----------------------------
(* Small instances of DepositFlow for TLC. *)
EXTENDS DepositFlow, TLC

CONSTANTS d1, d2, c1, c2, m1, m2, m3, m4, signet, mainnet

OneNetwork   == [d \in Deposit |-> signet]
TwoNetworks  == [d \in Deposit |-> IF d = d1 THEN signet ELSE mainnet]

OneConf      == [n \in Network |-> 1]
TwoConfs     == [n \in Network |-> 2]
SignetMain   == [n \in Network |-> IF n = signet THEN 1 ELSE 2]

NoFork       == [n \in Network |-> 0]
ForkAtThree  == [n \in Network |-> IF n = signet THEN 0 ELSE 3]

NoReorg      == [n \in Network |-> 0]
ReorgOfOne   == [n \in Network |-> 1]
ReorgMain    == [n \in Network |-> IF n = signet THEN 0 ELSE 1]

Symmetry     == Permutations(Coin) \cup Permutations(MintTx)
=============================================================================
