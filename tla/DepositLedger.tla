---------------------------- MODULE DepositLedger ----------------------------
(***************************************************************************)
(* What the deposit pipeline promises, with no monitor, no statements and  *)
(* no failures: a transfer is recorded once, its amount is paid to the     *)
(* user at most once and only after it was recorded, and its record is     *)
(* closed (已到账, credited) only after it was paid.                       *)
(***************************************************************************)
EXTENDS Naturals

CONSTANT Tx

VARIABLES record,   \* none, open or closed
          paid      \* how often the amount was added to a balance

ledgerVars == <<record, paid>>

Init ==
  /\ record = [t \in Tx |-> "none"]
  /\ paid = [t \in Tx |-> 0]

Open(t) ==
  /\ record[t] = "none"
  /\ record' = [record EXCEPT ![t] = "open"]
  /\ UNCHANGED paid

Pay(t) ==
  /\ record[t] = "open"
  /\ paid[t] = 0
  /\ paid' = [paid EXCEPT ![t] = 1]
  /\ UNCHANGED record

Close(t) ==
  /\ record[t] = "open"
  /\ paid[t] = 1
  /\ record' = [record EXCEPT ![t] = "closed"]
  /\ UNCHANGED paid

Next == \E t \in Tx : Open(t) \/ Pay(t) \/ Close(t)

Spec == Init /\ [][Next]_ledgerVars
=============================================================================
