---------------------------- MODULE MCWithdrawal ----------------------------
(* Instances of Withdrawal for TLC: withdrawals with a fee of 1.  The      *)
(* first waits for a review, the second is automatic but more than the     *)
(* sender sends by itself, the third is automatic.                         *)
EXTENDS Withdrawal

CONSTANTS w1, w2, w3, a1, a2

FirstW == {w1}
ThreeW == {w1, w2, w3}

Amounts == [w \in W |-> CASE w = w1 -> 4 [] w = w2 -> 3 [] OTHER -> 2]

OneAdmin  == {a1}
TwoAdmins == {a1, a2}
=============================================================================
