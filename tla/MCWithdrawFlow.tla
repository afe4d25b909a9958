---------------------------- MODULE MCWithdrawFlow ----------------------------
(* Small instances of WithdrawFlow for TLC. *)
EXTENDS WithdrawFlow

CONSTANTS w1, w2, d1, d2, c1, c2, c3, c4, p1, p2, p3, b1, b2

\* Amounts in units in which Fee = 2 and Dust = 1.
AmountsTwoThree == [w \in Withdrawal |-> IF w = w1 THEN 2 ELSE 3]
AmountsEqual    == [w \in Withdrawal |-> 2]
AmountsAll      == [w \in Withdrawal |-> 7]
Values          == [d \in Dep |-> IF d = d1 THEN 7 ELSE 5]
OwnIndices      == [d \in Dep |-> IF d = d1 THEN 0 ELSE 1]
=============================================================================
