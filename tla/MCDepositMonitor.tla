-------------------------- MODULE MCDepositMonitor --------------------------
(* Instances of DepositMonitor for TLC: two transfers to one user, one in  *)
(* each on-chain currency, or one transfer when the run is about time.     *)
EXTENDS DepositMonitor

CONSTANTS t1, t2, u1

TwoTx == {t1, t2}
OneTx == {t1}
OneUser == {u1}

ToUser == [t \in Tx |-> u1]

\* The first transfer is USDT, the second TRX.
FirstUSDT == [t \in Tx |-> IF t = t1 THEN "USDT" ELSE "TRX"]
AllTRX    == [t \in Tx |-> "TRX"]
=============================================================================
