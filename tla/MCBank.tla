-------------------------------- MODULE MCBank --------------------------------
EXTENDS Bank, TLC

CONSTANTS u1, u2, q1, i1, c1, c2

Balances == [w \in User \X Currency |-> IF w[2] = "USDT" THEN 2 ELSE 0]

Rates == <<"USDT", "TRX">> :> 2

Requests == {[payer |-> u1, payee |-> u2, amount |-> 1, currency |-> "USDT"]}

Buttons == {[sender |-> u1, amount |-> 2, currency |-> "USDT"]}

Adjustments == {-1}

MCUse == {{"transfer", "request", "admin"}, {"transfer", "exchange"}, {"request", "freeze", "exchange"}, {"finance"}}

\* What the runs that end in a counterexample do.
MCTransfers == {{"transfer", "request"}}
===============================================================================
