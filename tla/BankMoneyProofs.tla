--------------------------- MODULE BankMoneyProofs ---------------------------
(***************************************************************************)
(* More proofs about Bank, for any number of users, currencies, slots,     *)
(* investments and days: that money only moves, and that an investment     *)
(* shows what it earned and earns at most once more after it was taken     *)
(* out.                                                                    *)
(***************************************************************************)
EXTENDS BankProofs, SumLemmas

Finance == {"invest", "withdraw", "interest"}

Held(i) == investment[i] # None /\ investment[i].status = "Holding"

\* What the copy of an investment says, and what its transaction moves.
Shaped(t) ==
  /\ t.kind \in {"transfer", "pay"} =>
       \E v, w \in Wallet, a \in Nat : t.delta = [x \in Wallet |-> Adds(w, a)[x] - Adds(v, a)[x]]
  /\ t.kind \in Finance => t.ref \in Range(t.rows)
  /\ t.kind = "invest" =>
       /\ investment[t.ref] = None
       /\ t.copy.status = "Holding" /\ t.copy.profit = 0
       /\ \E w \in Wallet : t.delta = Adds(w, -t.copy.amount)
  /\ t.kind = "withdraw" =>
       /\ investment[t.ref] # None
       /\ t.rows[1] = t.ref
       /\ t.copy.status = "Withdrawn"
       /\ \E w \in Wallet : t.delta = Adds(w, t.copy.amount)
       /\ ~t.stale => Held(t.ref) /\ investment[t.ref].amount = t.copy.amount
  /\ t.kind = "interest" => (Held(t.ref) => investment[t.ref].profit = t.copy.profit)

AllShaped == \A c \in Slot : tx[c] # None => Shaped(tx[c])

\* Who inserts a row is alone with it.
InvestAlone ==
  \A c, d \in Slot : /\ c # d /\ tx[c] # None /\ tx[d] # None
                     /\ tx[c].kind = "invest" /\ tx[d].kind \in Finance
                     => tx[c].ref # tx[d].ref

\* The list has the profit of what is still held.
ListIsFresh ==
  run # None /\ run.todo # None =>
    \A i \in ToPay : Held(i) => run.todo[i].profit = investment[i].profit

Statuses == {"Holding", "Withdrawn"}

InterestRows == IsFiniteSet(interest) /\ interest \subseteq Investment \X Nat \X Statuses

Unpaid == \A i \in Investment : investment[i] = None => InterestOf(i) = {}

\* An investment that earned after it was taken out is off the list.
LateInterest ==
  \A x \in interest : x[3] = "Withdrawn" =>
    /\ investment[x[1]] # None /\ investment[x[1]].status = "Withdrawn"
    /\ run # None /\ run.todo # None => x[1] \notin ToPay
    /\ tx[Task] # None => tx[Task].ref # x[1]
    /\ \A y \in interest : y[1] = x[1] /\ y[3] = "Withdrawn" => y = x

MoneyInv ==
  /\ AllShaped /\ InvestAlone
  /\ ListIsFresh
  /\ InterestRows /\ Unpaid /\ LateInterest
  /\ ShowsWhatItEarned

\* What a step may do to the run but list it.
RunGoesOn ==
  run' # None /\ run'.todo # None =>
    /\ run # None /\ run.todo # None
    /\ \A i \in Investment : run'.todo[i] # None => run'.todo[i] = run.todo[i]

-----------------------------------------------------------------------------
(* Transactions go on or end, and no investment is written. *)

LEMMA ShapeKeeps ==
  ASSUME AllShaped, GoOn, investment' = investment
  PROVE  AllShaped'
<1> SUFFICES ASSUME NEW c \in Slot, tx'[c] # None PROVE Shaped(tx[c])'
  BY DEF AllShaped
<1>1. GoesOn(c) /\ Shaped(tx[c])
  BY DEF GoOn, AllShaped, GoesOn
<1> QED
  BY <1>1 DEF GoesOn, Shaped, Held

LEMMA AloneKeeps ==
  ASSUME InvestAlone, GoOn
  PROVE  InvestAlone'
<1> SUFFICES ASSUME NEW c \in Slot, NEW d \in Slot, c # d, tx'[c] # None, tx'[d] # None,
                    tx'[c].kind = "invest", tx'[d].kind \in Finance
             PROVE  tx'[c].ref # tx'[d].ref
  BY DEF InvestAlone
<1>1. GoesOn(c) /\ GoesOn(d)
  BY DEF GoOn
<1> QED
  BY <1>1 DEF GoesOn, InvestAlone

LEMMA ListKeeps ==
  ASSUME ListIsFresh, RunGoesOn, investment' = investment
  PROVE  ListIsFresh'
  BY DEF ListIsFresh, RunGoesOn, ToPay, Held

LEMMA LateKeeps ==
  ASSUME LateInterest, RunGoesOn, UNCHANGED <<investment, interest>>, interest \subseteq Investment \X Nat \X Statuses,
         tx'[Task] # None => /\ tx[Task] # None => tx'[Task].ref = tx[Task].ref
                             /\ tx[Task] = None => \A x \in interest : x[3] = "Withdrawn" => x[1] # tx'[Task].ref
  PROVE  LateInterest'
<1> SUFFICES ASSUME NEW x \in interest, x[3] = "Withdrawn"
             PROVE  /\ investment[x[1]] # None /\ investment[x[1]].status = "Withdrawn"
                    /\ run' # None /\ run'.todo # None => x[1] \notin ToPay'
                    /\ tx'[Task] # None => tx'[Task].ref # x[1]
                    /\ \A y \in interest : y[1] = x[1] /\ y[3] = "Withdrawn" => y = x
  BY DEF LateInterest
<1>1. x[1] \in Investment
  OBVIOUS
<1>2. run' # None /\ run'.todo # None => x[1] \notin ToPay'
  BY <1>1 DEF LateInterest, RunGoesOn, ToPay
<1> QED
  BY <1>2 DEF LateInterest

LEMMA EarnedKeeps ==
  ASSUME InterestRows, Unpaid, ShowsWhatItEarned, UNCHANGED <<investment, interest>>
  PROVE  (InterestRows /\ Unpaid /\ ShowsWhatItEarned)'
  BY DEF InterestRows, Unpaid, ShowsWhatItEarned, InterestOf, Active

LEMMA QuietKeeps ==
  ASSUME MoneyInv, GoOn, RunGoesOn, UNCHANGED <<investment, interest>>
  PROVE  MoneyInv'
<1>1. tx'[Task] # None => tx[Task] # None /\ tx'[Task].ref = tx[Task].ref
  BY DEF GoOn, GoesOn, Slot
<1> QED
  BY <1>1, ShapeKeeps, AloneKeeps, ListKeeps, LateKeeps, EarnedKeeps DEF MoneyInv, InterestRows

\* Transactions that stay as they are go on.
LEMMA SameGoOn ==
  ASSUME BankInv, tx' = tx
  PROVE  GoOn
  BY DEF GoOn, GoesOn, BankInv, BankTypeOK, AllFit, Fits

LEMMA ListAllActiveKeepsMoney ==
  ASSUME BankInv, MoneyInv, ListAllActive
  PROVE  MoneyInv'
<1>1. PICK due \in SUBSET Active :
        /\ run # None /\ run.todo = None
        /\ run' = [run EXCEPT !.todo =
                    [i \in Investment |-> IF i \in due THEN investment[i] ELSE None]]
        /\ UNCHANGED <<accountVars, tx>>
  BY DEF ListAllActive, Active
<1>2. /\ run'.todo = [i \in Investment |-> IF i \in due THEN investment[i] ELSE None]
      /\ UNCHANGED <<investment, interest>> /\ tx' = tx
  BY <1>1 DEF BankInv, BankTypeOK, Distribution, accountVars
<1>3. \A i \in Investment : run'.todo[i] # None => i \in Active /\ run'.todo[i] = investment[i]
  BY <1>1, <1>2
<1>4. ListIsFresh'
  BY <1>2, <1>3 DEF ListIsFresh, ToPay, Held
<1>5. LateInterest'
  BY <1>2, <1>3 DEF LateInterest, ToPay, Active, MoneyInv
<1> QED
  BY <1>2, <1>4, <1>5, SameGoOn, ShapeKeeps, AloneKeeps, EarnedKeeps DEF MoneyInv

-----------------------------------------------------------------------------
(* A transaction begins. *)

LEMMA BeginKeepsMoney ==
  ASSUME BankInv, MoneyInv, NEW c \in Slot, NEW t \in Transaction, Begin(c, t), Shaped(t), RunGoesOn,
         t.kind = "invest" => \A d \in Slot : tx[d] # None => tx[d].ref # t.ref,
         t.kind \in {"withdraw", "interest"} => investment[t.ref] # None,
         c = Task => \A x \in interest : x[3] = "Withdrawn" => x[1] # t.ref
  PROVE  MoneyInv'
<1>1. /\ tx' \in [Slot -> Transaction \union {None}]
      /\ tx[c] = None /\ tx'[c] = t /\ \A d \in Slot \ {c} : tx'[d] = tx[d]
      /\ UNCHANGED <<investment, interest>>
  BY DEF Begin, BankInv, BankTypeOK, accountVars
<1>2. AllShaped'
  <2> SUFFICES ASSUME NEW d \in Slot, tx'[d] # None PROVE Shaped(tx[d])'
    BY DEF AllShaped
  <2>1. Shaped(tx'[d])
    BY <1>1 DEF MoneyInv, AllShaped
  <2> QED
    BY <1>1, <2>1 DEF Shaped, Held
<1>3. InvestAlone'
  <2> SUFFICES ASSUME NEW e \in Slot, NEW d \in Slot, e # d, tx'[e] # None, tx'[d] # None,
                      tx'[e].kind = "invest", tx'[d].kind \in Finance
               PROVE  tx'[e].ref # tx'[d].ref
    BY DEF InvestAlone
  <2>1. CASE e # c /\ d # c
    BY <1>1, <2>1 DEF MoneyInv, InvestAlone
  <2>2. CASE e = c
    BY <1>1, <2>2
  <2>3. CASE d = c
    <3>1. tx[e] # None /\ tx'[e] = tx[e]
      BY <1>1, <2>3
    <3>2. investment[tx[e].ref] = None
      BY <3>1 DEF MoneyInv, AllShaped, Shaped
    <3>3. t.kind \in Finance
      BY <1>1, <2>3
    <3> QED
      BY <1>1, <2>3, <3>1, <3>2, <3>3 DEF Finance
  <2> QED
    BY <2>1, <2>2, <2>3
<1>4. tx'[Task] # None => /\ tx[Task] # None => tx'[Task].ref = tx[Task].ref
                          /\ tx[Task] = None => \A x \in interest : x[3] = "Withdrawn" => x[1] # tx'[Task].ref
  BY <1>1 DEF Slot
<1> QED
  BY <1>1, <1>2, <1>3, <1>4, ListKeeps, LateKeeps, EarnedKeeps DEF MoneyInv, InterestRows

Typed(kind, rows, delta, ref, copy) ==
  /\ kind \in {"transfer", "pay", "exchange", "invest", "withdraw", "adjust", "interest"}
  /\ rows \in Seq(Row) \ {<<>>} /\ delta \in [Wallet -> Int]
  /\ ref \in Request \union Investment \union {None} /\ copy \in Bought \union {None}

LEMMA TxBegins ==
  ASSUME NEW kind, NEW rows, NEW delta, NEW ref, NEW copy, Typed(kind, rows, delta, ref, copy),
         NEW c, Begin(c, Tx(kind, rows, delta, ref, copy))
  PROVE  \E t : /\ t \in Transaction /\ Begin(c, t) /\ ~t.stale
               /\ t.kind = kind /\ t.rows = rows /\ t.delta = delta
               /\ t.ref = ref /\ t.copy = copy
<1>1. PICK t : t = Tx(kind, rows, delta, ref, copy)
  OBVIOUS
<1>2. /\ t.kind = kind /\ t.rows = rows /\ t.taken = 0 /\ t.delta = delta
      /\ t.ref = ref /\ t.copy = copy /\ t.stale = FALSE
      /\ t \in Transaction
  BY <1>1 DEF Tx, Transaction, Typed
<1> QED
  BY <1>1, <1>2

LEMMA MoveKeepsMoney ==
  ASSUME BankInv, MoneyInv, NEW c \in Call,
         NEW kind \in {"transfer", "pay", "exchange"}, NEW from \in Wallet, NEW to \in Wallet,
         NEW a \in Nat, NEW b \in Nat, kind # "exchange" => a = b, NEW ref \in Request \union {None},
         Begin(c, Move(kind, from, to, a, b, ref)), UNCHANGED run
  PROVE  MoneyInv'
<1>1. PICK rows, delta : rows = <<from, to>> /\ delta = [w \in Wallet |-> Adds(to, b)[w] - Adds(from, a)[w]]
  OBVIOUS
<1>2. rows \in Seq(Row) \ {<<>>}
  BY <1>1, Pair DEF Row
<1>3. \A w \in Wallet : Adds(to, b)[w] \in Int /\ Adds(from, a)[w] \in Int
  BY DEF Adds
<1>4. delta \in [Wallet -> Int]
  BY <1>1, <1>3
<1>5. PICK t : /\ t \in Transaction /\ Begin(c, t) /\ ~t.stale
               /\ t.kind = kind /\ t.rows = rows /\ t.delta = delta
               /\ t.ref = ref /\ t.copy = None
  <2>1. Typed(kind, rows, delta, ref, None)
    BY <1>2, <1>4 DEF Typed
  <2>2. Begin(c, Tx(kind, rows, delta, ref, None))
    BY <1>1 DEF Move
  <2> QED
    BY <2>1, <2>2, TxBegins
<1>7. Shaped(t)
  <2>1. t.kind \notin {"invest", "withdraw", "interest"}
    BY <1>5
  <2>2. ASSUME kind # "exchange"
        PROVE  \E v, w \in Wallet, n \in Nat : delta = [x \in Wallet |-> Adds(w, n)[x] - Adds(v, n)[x]]
    BY <1>1, <2>2
  <2>3. t.kind \in {"transfer", "pay"} => kind # "exchange"
    BY <1>5
  <2> QED
    BY <1>5, <2>1, <2>2, <2>3 DEF Shaped, Finance
<1>8. RunGoesOn
  BY DEF RunGoesOn
<1>9. c \in Slot /\ c # Task
  BY BankAssumption DEF Slot
<1> QED
  BY <1>5, <1>7, <1>8, <1>9, BeginKeepsMoney

LEMMA TransfersKeepMoney ==
  ASSUME BankInv, MoneyInv, NEW c \in Call,
         Transfer(c) \/ HandleInlineTransferCallback(c) \/ ExecuteReceivePayment(c)
  PROVE  MoneyInv'
<1> USE BankAssumption
<1>1. CASE Transfer(c)
  <2>1. PICK u \in User, v \in User, k \in Currency, a \in Amount :
          ExecuteTransfer(c, "transfer", u, v, k, a, None)
    BY <1>1 DEF Transfer
  <2>2. /\ <<u, k>> \in Wallet /\ <<v, k>> \in Wallet /\ a \in Nat /\ run' = run
        /\ Begin(c, Move("transfer", <<u, k>>, <<v, k>>, a, a, None))
    BY <2>1 DEF ExecuteTransfer, Wallet, taskVars
  <2> QED
    BY <2>2, MoveKeepsMoney
<1>2. CASE HandleInlineTransferCallback(c)
  <2>1. PICK b \in Button, v \in User :
          ExecuteTransfer(c, "transfer", b.sender, v, b.currency, b.amount, None)
    BY <1>2 DEF HandleInlineTransferCallback
  <2>2. /\ <<b.sender, b.currency>> \in Wallet /\ <<v, b.currency>> \in Wallet /\ b.amount \in Nat
        /\ run' = run
        /\ Begin(c, Move("transfer", <<b.sender, b.currency>>, <<v, b.currency>>, b.amount, b.amount, None))
    BY <2>1 DEF ExecuteTransfer, Wallet, taskVars
  <2> QED
    BY <2>2, MoveKeepsMoney
<1>3. CASE ExecuteReceivePayment(c)
  <2>1. PICK q \in Request :
          ExecuteTransfer(c, "pay", q.payer, q.payee, q.currency, q.amount, q)
    BY <1>3 DEF ExecuteReceivePayment
  <2>2. /\ <<q.payer, q.currency>> \in Wallet /\ <<q.payee, q.currency>> \in Wallet /\ q.amount \in Nat
        /\ run' = run
        /\ Begin(c, Move("pay", <<q.payer, q.currency>>, <<q.payee, q.currency>>, q.amount, q.amount, q))
    BY <2>1 DEF ExecuteTransfer, Wallet, taskVars
  <2> QED
    BY <2>2, MoveKeepsMoney
<1> QED
  BY <1>1, <1>2, <1>3

LEMMA ExchangeKeepsMoney ==
  ASSUME BankInv, MoneyInv, NEW c \in Call, ExecuteExchange(c)
  PROVE  MoneyInv'
<1> USE BankAssumption
<1>1. PICK u \in User, d \in DOMAIN Rate, a \in Amount :
        Begin(c, Move("exchange", <<u, d[1]>>, <<u, d[2]>>, a, a * Rate[d], None))
  BY DEF ExecuteExchange
<1>2. d \in Currency \X Currency /\ Rate[d] \in Nat /\ a \in Nat /\ run' = run
  BY DEF ExecuteExchange, taskVars
<1>3. <<u, d[1]>> \in Wallet /\ <<u, d[2]>> \in Wallet
  BY <1>2 DEF Wallet
<1>4. PICK b \in Nat : b = a * Rate[d]
  BY <1>2
<1> QED
  BY <1>1, <1>2, <1>3, <1>4, MoveKeepsMoney

LEMMA InvestKeepsMoney ==
  ASSUME BankInv, MoneyInv, NEW c \in Call, Invest(c)
  PROVE  MoneyInv'
<1>1. PICK u \in User, i \in Investment, a \in Amount :
        /\ investment[i] = None
        /\ \A d \in Slot : tx[d] # None => tx[d].ref # i
        /\ Begin(c, Tx("invest", <<<<u, "USDT">>, i>>, Adds(<<u, "USDT">>, -a), i, Holding(u, a)))
  BY DEF Invest
<1>2. PICK w, rows, delta, r : /\ w = <<u, "USDT">> /\ rows = <<<<u, "USDT">>, i>>
                               /\ delta = Adds(<<u, "USDT">>, -a) /\ r = Holding(u, a)
  OBVIOUS
<1>3. w \in Wallet /\ w \in Row /\ i \in Row /\ -a \in Int /\ a \in Nat
  BY <1>2, BankAssumption DEF Wallet, Row
<1>4. rows \in Seq(Row) \ {<<>>} /\ Range(rows) = {w, i}
  BY <1>2, <1>3, Pair
<1>5. r \in Bought /\ r.status = "Holding" /\ r.profit = 0 /\ r.amount = a
  BY <1>2, <1>3 DEF Holding, Bought, BankInv, BankTypeOK
<1>6. delta \in [Wallet -> Int] /\ delta = Adds(w, -a)
  BY <1>2, <1>3, AddsIsTyped
<1>7. Typed("invest", rows, delta, i, r)
  BY <1>4, <1>5, <1>6 DEF Typed
<1>8. Begin(c, Tx("invest", rows, delta, i, r))
  BY <1>1, <1>2
<1>9. PICK t : /\ t \in Transaction /\ Begin(c, t) /\ ~t.stale
               /\ t.kind = "invest" /\ t.rows = rows /\ t.delta = delta
               /\ t.ref = i /\ t.copy = r
  BY <1>7, <1>8, TxBegins
<1>10. Shaped(t)
  <2>1. t.delta = Adds(w, -t.copy.amount)
    BY <1>5, <1>6, <1>9
  <2> QED
    BY <1>1, <1>3, <1>4, <1>5, <1>9, <2>1 DEF Shaped
<1>11. c \in Slot /\ c # Task /\ run' = run
  BY BankAssumption DEF Slot, Invest, taskVars
<1>12. RunGoesOn
  BY <1>11 DEF RunGoesOn
<1> QED
  BY <1>1, <1>9, <1>10, <1>11, <1>12, BeginKeepsMoney

LEMMA WithdrawKeepsMoney ==
  ASSUME BankInv, MoneyInv, NEW c \in Call, Withdraw(c)
  PROVE  MoneyInv'
<1>1. PICK i \in Investment :
        /\ investment[i] # None /\ investment[i].status = "Holding"
        /\ Begin(c, LET row == investment[i]
                        w   == <<row.user, "USDT">>
                    IN  Tx("withdraw", <<i, w>>, Adds(w, row.amount), i,
                           [row EXCEPT !.status = "Withdrawn"]))
  BY DEF Withdraw
<1>2. PICK w, r, a : /\ w = <<investment[i].user, "USDT">>
                     /\ r = [investment[i] EXCEPT !.status = "Withdrawn"]
                     /\ a = investment[i].amount
  OBVIOUS
<1>3. PICK rows, delta : rows = <<i, w>> /\ delta = Adds(w, a)
  OBVIOUS
<1>4. investment[i] \in Bought
  BY <1>1 DEF BankInv, BankTypeOK
<1>5. a \in Int /\ r \in Bought /\ w \in Wallet /\ r.status = "Withdrawn" /\ r.amount = a
  BY <1>2, <1>4, BankAssumption DEF Bought, Wallet
<1>6. w \in Row /\ i \in Row
  BY <1>5 DEF Row
<1>7. rows \in Seq(Row) \ {<<>>} /\ Range(rows) = {i, w} /\ rows[1] = i
  BY <1>3, <1>6, Pair
<1>8. delta \in [Wallet -> Int]
  BY <1>3, <1>5, AddsIsTyped
<1>9. Typed("withdraw", rows, delta, i, r)
  BY <1>5, <1>7, <1>8 DEF Typed
<1>10. Begin(c, Tx("withdraw", rows, delta, i, r))
  BY <1>1, <1>2, <1>3
<1>11. PICK t : /\ t \in Transaction /\ Begin(c, t) /\ ~t.stale
                /\ t.kind = "withdraw" /\ t.rows = rows /\ t.delta = delta
                /\ t.ref = i /\ t.copy = r
  BY <1>9, <1>10, TxBegins
<1>12. Shaped(t)
  <2>1. t.delta = Adds(w, t.copy.amount)
    BY <1>3, <1>5, <1>11
  <2> QED
    BY <1>1, <1>2, <1>5, <1>7, <1>11, <2>1 DEF Shaped, Held
<1>13. c \in Slot /\ c # Task /\ run' = run
  BY BankAssumption DEF Slot, Withdraw, taskVars
<1>14. RunGoesOn
  BY <1>13 DEF RunGoesOn
<1> QED
  BY <1>1, <1>11, <1>12, <1>13, <1>14, BeginKeepsMoney

LEMMA AdjustKeepsMoney ==
  ASSUME BankInv, MoneyInv, NEW c \in Call, AdjustUserBalance(c)
  PROVE  MoneyInv'
<1>1. PICK w \in Wallet, a \in Adjustment : Begin(c, Tx("adjust", <<w>>, Adds(w, a), None, None))
  BY DEF AdjustUserBalance
<1>2. PICK rows, delta : rows = <<w>> /\ delta = Adds(w, a)
  OBVIOUS
<1>3. a \in Int /\ w \in Row
  BY BankAssumption DEF Row
<1>4. rows \in Seq(Row) \ {<<>>}
  BY <1>2, <1>3, Pair
<1>5. delta \in [Wallet -> Int]
  BY <1>2, <1>3, AddsIsTyped
<1>6. Typed("adjust", rows, delta, None, None)
  BY <1>4, <1>5 DEF Typed
<1>7. Begin(c, Tx("adjust", rows, delta, None, None))
  BY <1>1, <1>2
<1>8. PICK t : /\ t \in Transaction /\ Begin(c, t) /\ ~t.stale
               /\ t.kind = "adjust" /\ t.rows = rows /\ t.delta = delta
               /\ t.ref = None /\ t.copy = None
  BY <1>6, <1>7, TxBegins
<1>9. Shaped(t)
  BY <1>8 DEF Shaped, Finance
<1>10. c \in Slot /\ c # Task /\ run' = run
  BY BankAssumption DEF Slot, AdjustUserBalance, taskVars
<1>11. RunGoesOn
  BY <1>10 DEF RunGoesOn
<1> QED
  BY <1>8, <1>9, <1>10, <1>11, BeginKeepsMoney

\* What is on the list is held as it was read, or was taken out and has
\* not earned since.
LEMMA DistributeKeepsMoney ==
  ASSUME BankInv, MoneyInv, DistributeSingleProfit
  PROVE  MoneyInv'
<1> USE BankAssumption
<1>0. BankTypeOK /\ AllFit
  BY DEF BankInv
<1>1. PICK i \in ToPay :
        /\ run # None /\ run.todo # None
        /\ LET row == run.todo[i]
               w   == <<row.user, "USDT">>
           IN  /\ Begin(Task, Tx("interest", <<w, i>>, Adds(w, 1), i, row))
               /\ run' = [run EXCEPT !.todo[i] = None]
  BY DEF DistributeSingleProfit
<1>2. PICK r : r = run.todo[i]
  OBVIOUS
<1>3. PICK w : w = <<r.user, "USDT">>
  OBVIOUS
<1>4. PICK rows, delta : rows = <<w, i>> /\ delta = Adds(w, 1)
  OBVIOUS
<1>5. i \in Investment /\ r \in Bought
  BY <1>0, <1>1, <1>2 DEF BankTypeOK, ToPay, List, Distribution
<1>6. w \in Wallet
  BY <1>3, <1>5 DEF Bought, Wallet
<1>7. rows \in Seq(Row) \ {<<>>} /\ Range(rows) = {w, i}
  BY <1>4, <1>5, <1>6, Pair DEF Row
<1>8. delta \in [Wallet -> Int]
  BY <1>4, <1>6 DEF Adds
<1>9. investment[i] # None
  BY <1>0, <1>1 DEF AllFit
<1>10. Typed("interest", rows, delta, i, r)
  BY <1>5, <1>7, <1>8 DEF Typed
<1>11. Begin(Task, Tx("interest", rows, delta, i, r))
  BY <1>1, <1>2, <1>3, <1>4
<1>12. PICK t : /\ t \in Transaction /\ Begin(Task, t) /\ ~t.stale
                /\ t.kind = "interest" /\ t.rows = rows /\ t.delta = delta
                /\ t.ref = i /\ t.copy = r
  BY <1>10, <1>11, TxBegins
<1>13. Shaped(t)
  <2>1. Held(i) => investment[i].profit = r.profit
    BY <1>1, <1>2 DEF MoneyInv, ListIsFresh
  <2> QED
    BY <1>7, <1>12, <2>1 DEF Shaped
<1>14. RunGoesOn
  BY <1>0, <1>1, TodoShrinks DEF RunGoesOn
<1>15. \A x \in interest : x[3] = "Withdrawn" => x[1] # t.ref
  BY <1>1, <1>12 DEF MoneyInv, LateInterest
<1>16. Task \in Slot /\ t.kind \in {"withdraw", "interest"} /\ t.kind # "invest"
  BY <1>12 DEF Slot
<1> QED
  BY <1>9, <1>12, <1>13, <1>14, <1>15, <1>16, BeginKeepsMoney

-----------------------------------------------------------------------------
(* Steps that write no investment and begin nothing. *)

LEMMA QuietStepsKeepMoney ==
  ASSUME BankInv, MoneyInv,
         \/ UNCHANGED bankVars \/ RejectReceiveRequest \/ FreezeBalance \/ UnfreezeBalance
         \/ DeadlockVictim \/ TakeDayLock \/ ListingFails \/ EndRun \/ Crash \/ NextDay
         \/ \E c \in Slot : TakeRow(c) \/ RollBack(c)
  PROVE  MoneyInv'
<1>1. UNCHANGED <<investment, interest>>
  BY DEF bankVars, accountVars, RejectReceiveRequest, FreezeBalance, UnfreezeBalance,
         DeadlockVictim, RollBack, TakeDayLock, ListingFails, EndRun, Crash, NextDay, TakeRow
<1>2. RunGoesOn
  <2>1. CASE TakeDayLock
    BY <2>1 DEF TakeDayLock, RunGoesOn
  <2>2. CASE run' = None
    BY <2>2 DEF RunGoesOn
  <2>3. CASE run' = run
    BY <2>3 DEF RunGoesOn
  <2> QED
    BY <2>1, <2>2, <2>3 DEF bankVars, taskVars, RejectReceiveRequest, FreezeBalance,
       UnfreezeBalance, DeadlockVictim, RollBack, ListingFails, EndRun, Crash, NextDay, TakeRow
<1>3. GoOn
  <2>1. CASE tx' = tx
    BY <2>1, SameGoOn
  <2>2. CASE Crash
    BY <2>2 DEF Crash, GoOn
  <2>3. CASE ~Crash /\ tx' # tx
    BY <2>3, RollBackKeeps, TakeRowKeeps, FreezeKeeps, UnfreezeKeeps
       DEF bankVars, RejectReceiveRequest, DeadlockVictim, TakeDayLock, ListingFails, EndRun, NextDay
  <2> QED
    BY <2>1, <2>2, <2>3
<1> QED
  BY <1>1, <1>2, <1>3, QuietKeeps

-----------------------------------------------------------------------------
(* A commit. *)

\* What all commits have in common.
LEMMA CommitFacts ==
  ASSUME BankInv, MoneyInv, NEW c \in Slot, Commit(c)
  PROVE  /\ tx[c] # None /\ tx[c] \in Transaction /\ Fits(tx[c]) /\ Shaped(tx[c])
         /\ tx[c].kind = "interest" <=> c = Task
         /\ GoOn /\ tx'[c] = None /\ run' = run /\ RunGoesOn /\ InvestAlone'
         /\ investment \in [Investment -> Bought \union {None}]
         /\ \A d \in Slot : tx'[d] # None /\ ~tx'[d].stale => tx[d].rows[1] \notin Range(tx[c].rows)
<1>1. tx[c] # None /\ Ends(c) /\ run' = run
  BY DEF Commit, Whole, taskVars
<1>2. GoOn /\ tx'[c] = None
  BY <1>1, OthersGoOn
<1>3. \A d \in Slot : tx'[d] # None /\ ~tx'[d].stale => tx[d].rows[1] \notin Range(tx[c].rows)
  BY <1>1, OthersGoOn
<1>4. InvestAlone'
  BY <1>2, AloneKeeps DEF MoneyInv
<1> QED
  BY <1>1, <1>2, <1>3, <1>4 DEF BankInv, BankTypeOK, AllFit, Fits, MoneyInv, AllShaped, RunGoesOn

LEMMA CommitMoveKeepsMoney ==
  ASSUME BankInv, MoneyInv, NEW c \in Slot, Commit(c), tx[c].kind \notin Finance
  PROVE  MoneyInv'
<1>1. investment' = investment /\ interest' = interest
  BY DEF Commit, Finance
<1> QED
  BY <1>1, CommitFacts, QuietKeeps

LEMMA CommitInvestKeepsMoney ==
  ASSUME BankInv, MoneyInv, NEW c \in Slot, Commit(c), tx[c].kind = "invest"
  PROVE  MoneyInv'
<1>1. PICK t : t = tx[c]
  OBVIOUS
<1>2. PICK i : i = t.ref
  OBVIOUS
<1>3. /\ tx[c] # None /\ GoOn /\ tx'[c] = None /\ run' = run /\ InvestAlone'
      /\ Fits(t) /\ Shaped(t) /\ c # Task /\ investment \in [Investment -> Bought \union {None}]
  BY <1>1, CommitFacts
<1>4. i \in Investment /\ t.copy \in Bought /\ investment[i] = None
      /\ t.copy.status = "Holding" /\ t.copy.profit = 0
  BY <1>1, <1>2, <1>3 DEF Fits, Shaped
<1>5. investment' = [investment EXCEPT ![i] = t.copy] /\ interest' = interest
  BY <1>1, <1>2 DEF Commit
<1>6. investment'[i] = t.copy /\ \A j \in Investment \ {i} : investment'[j] = investment[j]
  BY <1>3, <1>4, <1>5
<1>7. AllShaped'
  <2> SUFFICES ASSUME NEW d \in Slot, tx'[d] # None PROVE Shaped(tx[d])'
    BY DEF AllShaped
  <2>1. d # c /\ GoesOn(d) /\ tx[d] # None /\ Shaped(tx[d]) /\ Fits(tx[d])
    BY <1>3 DEF GoOn, GoesOn, MoneyInv, AllShaped, BankInv, AllFit
  <2>2. tx[d].kind \in Finance => tx[d].ref \in Investment \ {i}
    BY <1>1, <1>2, <1>3, <2>1 DEF MoneyInv, InvestAlone, Fits, Finance
  <2> QED
    BY <1>6, <2>1, <2>2 DEF GoesOn, Shaped, Held, Finance
<1>8. ListIsFresh'
  <2>1. run # None /\ run.todo # None => i \notin ToPay
    BY <1>4 DEF BankInv, AllFit
  <2> QED
    BY <1>3, <1>6, <2>1 DEF MoneyInv, ListIsFresh, ToPay, Held
<1>9. LateInterest'
  <2>1. \A x \in interest : x[1] \in Investment
    BY DEF MoneyInv, InterestRows
  <2>2. tx'[Task] # None => tx[Task] # None /\ tx'[Task].ref = tx[Task].ref
    BY <1>3 DEF GoOn, GoesOn, Slot
  <2>3. ToPay' = ToPay
    BY <1>3 DEF ToPay
  <2> QED
    BY <1>3, <1>4, <1>5, <1>6, <2>1, <2>2, <2>3 DEF MoneyInv, LateInterest
<1>10. InterestRows' /\ Unpaid'
  BY <1>4, <1>5, <1>6, BankAssumption DEF MoneyInv, InterestRows, Unpaid, InterestOf
<1>11. ShowsWhatItEarned'
  <2> SUFFICES ASSUME NEW j \in Active' PROVE investment'[j].profit = Cardinality(InterestOf(j))
    BY <1>5 DEF ShowsWhatItEarned, InterestOf
  <2>1. CASE j = i
    <3>1. InterestOf(i) = {}
      BY <1>4 DEF MoneyInv, Unpaid
    <3> QED
      BY <1>4, <1>6, <2>1, <3>1, FS_EmptySet
  <2>2. CASE j # i
    BY <1>6, <2>2 DEF Active, MoneyInv, ShowsWhatItEarned
  <2> QED
    BY <2>1, <2>2
<1> QED
  BY <1>3, <1>7, <1>8, <1>9, <1>10, <1>11 DEF MoneyInv

\* The row that is saved is taken out, whoever saved it before.
LEMMA CommitWithdrawKeepsMoney ==
  ASSUME BankInv, MoneyInv, NEW c \in Slot, Commit(c), tx[c].kind = "withdraw"
  PROVE  MoneyInv'
<1>1. PICK t : t = tx[c]
  OBVIOUS
<1>2. PICK i : i = t.ref
  OBVIOUS
<1>3. /\ tx[c] # None /\ GoOn /\ tx'[c] = None /\ run' = run /\ InvestAlone'
      /\ Fits(t) /\ Shaped(t) /\ c # Task /\ investment \in [Investment -> Bought \union {None}]
      /\ \A d \in Slot : tx'[d] # None /\ ~tx'[d].stale => tx[d].rows[1] \notin Range(t.rows)
  BY <1>1, CommitFacts
<1>4. i \in Investment /\ t.copy \in Bought /\ investment[i] # None
      /\ t.copy.status = "Withdrawn" /\ i \in Range(t.rows)
  BY <1>1, <1>2, <1>3 DEF Fits, Shaped, Finance
<1>5. investment' = [investment EXCEPT ![i] = t.copy] /\ interest' = interest
  BY <1>1, <1>2 DEF Commit
<1>6. /\ investment'[i] = t.copy /\ t.copy # None
      /\ \A j \in Investment \ {i} : investment'[j] = investment[j]
  BY <1>3, <1>4, <1>5, BankAssumption
<1>7. AllShaped'
  <2> SUFFICES ASSUME NEW d \in Slot, tx'[d] # None PROVE Shaped(tx[d])'
    BY DEF AllShaped
  <2>1. d # c /\ GoesOn(d) /\ tx[d] # None /\ Shaped(tx[d]) /\ Fits(tx[d])
    BY <1>3 DEF GoOn, GoesOn, MoneyInv, AllShaped, BankInv, AllFit
  <2>2. tx[d].kind \in Finance => tx[d].ref \in Investment
    BY <2>1 DEF Fits, Finance
  <2>3. tx[d].kind = "invest" => tx[d].ref # i
    BY <1>1, <1>2, <1>3, <2>1 DEF MoneyInv, InvestAlone, Finance
  <2>4. tx[d].kind = "withdraw" /\ ~tx'[d].stale => tx[d].ref # i
    BY <1>3, <1>4, <2>1 DEF Shaped
  <2> QED
    BY <1>4, <1>6, <2>1, <2>2, <2>3, <2>4 DEF GoesOn, Shaped, Held, Finance
<1>8. ListIsFresh'
  BY <1>3, <1>4, <1>6 DEF MoneyInv, ListIsFresh, ToPay, Held
<1>9. LateInterest'
  <2>1. \A x \in interest : x[1] \in Investment
    BY DEF MoneyInv, InterestRows
  <2>2. tx'[Task] # None => tx[Task] # None /\ tx'[Task].ref = tx[Task].ref
    BY <1>3 DEF GoOn, GoesOn, Slot
  <2>3. ToPay' = ToPay
    BY <1>3 DEF ToPay
  <2>4. \A j \in Investment : investment[j] # None /\ investment[j].status = "Withdrawn"
          => investment'[j] # None /\ investment'[j].status = "Withdrawn"
    BY <1>4, <1>6
  <2> QED
    BY <1>3, <1>5, <2>1, <2>2, <2>3, <2>4 DEF MoneyInv, LateInterest
<1>10. InterestRows' /\ Unpaid'
  BY <1>4, <1>5, <1>6 DEF MoneyInv, InterestRows, Unpaid, InterestOf
<1>11. ShowsWhatItEarned'
  BY <1>4, <1>5, <1>6 DEF Active, MoneyInv, ShowsWhatItEarned, InterestOf
<1> QED
  BY <1>3, <1>7, <1>8, <1>9, <1>10, <1>11 DEF MoneyInv

\* The interest is of a day the investment has not earned for, and the sum
\* is of the profit it shows when it is still held.
LEMMA CommitInterestKeepsMoney ==
  ASSUME BankInv, MoneyInv, NEW c \in Slot, Commit(c), tx[c].kind = "interest"
  PROVE  MoneyInv'
<1>1. PICK t : t = tx[c]
  OBVIOUS
<1>2. PICK i : i = t.ref
  OBVIOUS
<1>3. /\ tx[c] # None /\ GoOn /\ tx'[c] = None /\ run' = run /\ InvestAlone'
      /\ Fits(t) /\ Shaped(t) /\ c = Task /\ investment \in [Investment -> Bought \union {None}]
  BY <1>1, CommitFacts
<1>4. i \in Investment /\ t.copy \in Bought /\ investment[i] # None
      /\ (Held(i) => investment[i].profit = t.copy.profit)
  BY <1>1, <1>2, <1>3 DEF Fits, Shaped
<1>5. /\ run # None /\ run.todo # None /\ i \notin ToPay /\ ~Earned(i, run.day)
      /\ run.day \in Nat
  BY <1>1, <1>2, <1>3 DEF BankInv, BankTypeOK, DaysAreKept, Distribution
<1>6. PICK p \in Nat : p = t.copy.profit + 1
  BY <1>4 DEF Bought
<1>7. PICK r, x : /\ r = [investment[i] EXCEPT !.profit = p]
                  /\ x = <<i, run.day, investment[i].status>>
  OBVIOUS
<1>8. /\ investment' = [investment EXCEPT ![i] = r] /\ interest' = interest \union {x}
  BY <1>1, <1>2, <1>6, <1>7 DEF Commit
<1>9. /\ investment[i] \in Bought /\ r \in Bought /\ r # None
      /\ r.status = investment[i].status /\ r.amount = investment[i].amount /\ r.profit = p
  BY <1>3, <1>4, <1>6, <1>7, BankAssumption DEF Bought
<1>10. /\ investment'[i] = r /\ \A j \in Investment \ {i} : investment'[j] = investment[j]
  BY <1>3, <1>4, <1>8
<1>11. /\ x[1] = i /\ x[2] = run.day /\ x[3] = investment[i].status
       /\ x \in Investment \X Nat \X Statuses /\ x \notin InterestOf(i)
  BY <1>4, <1>5, <1>7, <1>9 DEF Bought, Statuses, InterestOf, Earned
<1>12. AllShaped'
  <2> SUFFICES ASSUME NEW d \in Slot, tx'[d] # None PROVE Shaped(tx[d])'
    BY DEF AllShaped
  <2>1. d # c /\ GoesOn(d) /\ tx[d] # None /\ Shaped(tx[d]) /\ Fits(tx[d])
    BY <1>3 DEF GoOn, GoesOn, MoneyInv, AllShaped, BankInv, AllFit
  <2>2. tx[d].kind # "interest"
    BY <1>3, <2>1 DEF BankInv, AllFit
  <2>3. tx[d].kind \in Finance => tx[d].ref \in Investment
    BY <2>1 DEF Fits, Finance
  <2>4. \A j \in Investment : /\ investment'[j] = None <=> investment[j] = None
                             /\ investment'[j].status = investment[j].status
                             /\ investment'[j].amount = investment[j].amount
    BY <1>4, <1>9, <1>10
  <2> QED
    BY <2>1, <2>2, <2>3, <2>4 DEF GoesOn, Shaped, Held, Finance
<1>13. ListIsFresh'
  BY <1>3, <1>5, <1>10 DEF MoneyInv, ListIsFresh, ToPay, Held
<1>14. LateInterest'
  <2>1. \A y \in interest : y[1] \in Investment /\ (y[3] = "Withdrawn" => y[1] # i)
    BY <1>1, <1>2, <1>3 DEF MoneyInv, InterestRows, LateInterest
  <2>2. ToPay' = ToPay
    BY <1>3 DEF ToPay
  <2> QED
    BY <1>3, <1>4, <1>5, <1>8, <1>9, <1>10, <1>11, <2>1, <2>2 DEF MoneyInv, LateInterest
<1>15. InterestRows'
  BY <1>8, <1>11, FS_AddElement DEF MoneyInv, InterestRows
<1>16. Unpaid'
  BY <1>8, <1>9, <1>10, <1>11 DEF MoneyInv, Unpaid, InterestOf
<1>17. ShowsWhatItEarned'
  <2> SUFFICES ASSUME NEW j \in Active' PROVE investment'[j].profit = Cardinality(InterestOf(j)')
    BY DEF ShowsWhatItEarned
  <2>1. CASE j = i
    <3>1. i \in Active /\ Held(i)
      BY <1>4, <1>9, <1>10, <2>1 DEF Active, Held
    <3>2. investment[i].profit = Cardinality(InterestOf(i))
      BY <3>1 DEF MoneyInv, ShowsWhatItEarned
    <3>3. IsFiniteSet(InterestOf(i))
      BY FS_Subset DEF MoneyInv, InterestRows, InterestOf
    <3>4. InterestOf(i)' = InterestOf(i) \union {x}
      BY <1>8, <1>11 DEF InterestOf
    <3>5. Cardinality(InterestOf(i) \union {x}) = Cardinality(InterestOf(i)) + 1
      BY <1>11, <3>3, FS_AddElement
    <3> QED
      BY <1>4, <1>6, <1>9, <1>10, <2>1, <3>1, <3>2, <3>4, <3>5
  <2>2. CASE j # i
    <3>1. InterestOf(j)' = InterestOf(j)
      BY <1>8, <1>11, <2>2 DEF InterestOf
    <3> QED
      BY <1>10, <2>2, <3>1 DEF Active, MoneyInv, ShowsWhatItEarned
  <2> QED
    BY <2>1, <2>2
<1> QED
  BY <1>3, <1>12, <1>13, <1>14, <1>15, <1>16, <1>17 DEF MoneyInv

-----------------------------------------------------------------------------
LEMMA MoneyInitKeeps ==
  ASSUME BankInit
  PROVE  MoneyInv
<1> USE BankAssumption
<1>1. /\ investment = [i \in Investment |-> None] /\ tx = [c \in Slot |-> None]
      /\ run = None /\ interest = {}
  BY DEF BankInit
<1>2. \A c \in Slot : tx[c] = None
  BY <1>1
<1>3. AllShaped /\ InvestAlone
  BY <1>2 DEF AllShaped, InvestAlone
<1>4. Active = {}
  BY <1>1 DEF Active
<1> QED
  BY <1>1, <1>3, <1>4, FS_EmptySet
     DEF MoneyInv, ListIsFresh, InterestRows, Unpaid, LateInterest, ShowsWhatItEarned, InterestOf

LEMMA MoneyNextKeeps ==
  ASSUME BankInv, MoneyInv, [BankNext]_bankVars
  PROVE  MoneyInv'
<1>1. ASSUME NEW c \in Call,
             \/ Transfer(c) \/ HandleInlineTransferCallback(c) \/ ExecuteReceivePayment(c)
             \/ ExecuteExchange(c) \/ Invest(c) \/ Withdraw(c) \/ AdjustUserBalance(c)
      PROVE  MoneyInv'
  BY <1>1, TransfersKeepMoney, ExchangeKeepsMoney, InvestKeepsMoney, WithdrawKeepsMoney, AdjustKeepsMoney
<1>2. ASSUME NEW c \in Slot, Commit(c) PROVE MoneyInv'
  BY <1>2, CommitMoveKeepsMoney, CommitInvestKeepsMoney, CommitWithdrawKeepsMoney,
     CommitInterestKeepsMoney DEF Finance
<1>3. CASE Service
  BY <1>1, <1>3, QuietStepsKeepMoney DEF Service
<1>4. CASE Database
  BY <1>2, <1>4, QuietStepsKeepMoney DEF Database
<1> QED
  BY <1>3, <1>4, DistributeKeepsMoney, ListAllActiveKeepsMoney, QuietStepsKeepMoney
     DEF BankNext, ProfitTask

LEMMA MoneyInvHolds == BankSpec => [](BankInv /\ MoneyInv)
<1>1. BankInit => BankInv /\ MoneyInv
  BY BankInitKeeps, MoneyInitKeeps
<1>2. BankInv /\ MoneyInv /\ [BankNext]_bankVars => (BankInv /\ MoneyInv)'
  BY BankNextKeeps, MoneyNextKeeps
<1> QED
  BY <1>1, <1>2, PTL DEF BankSpec

(* The profit an investment shows is the interest that was paid for it,    *)
(* for as long as it is held, whatever overlaps with the distribution.     *)
THEOREM BankShowsWhatItEarned == BankSpec => []ShowsWhatItEarned
<1>1. MoneyInv => ShowsWhatItEarned
  BY DEF MoneyInv
<1> QED
  BY <1>1, MoneyInvHolds, PTL

(* An investment that is taken out while a distribution works from its     *)
(* list earns once more at most, on however many days and from however     *)
(* many distributions.                                                     *)
THEOREM BankEarnsAtMostOnceMore == BankSpec => []EarnsAtMostOnceMore
<1>1. MoneyInv => EarnsAtMostOnceMore
  <2> SUFFICES ASSUME MoneyInv, NEW i \in Investment
               PROVE  Cardinality({x \in InterestOf(i) : x[3] = "Withdrawn"}) <= 1
    BY DEF EarnsAtMostOnceMore
  <2>1. PICK S : S = {x \in InterestOf(i) : x[3] = "Withdrawn"}
    OBVIOUS
  <2>2. CASE S = {}
    BY <2>1, <2>2, FS_EmptySet
  <2>3. CASE S # {}
    <3>1. PICK x : x \in S
      BY <2>3
    <3>2. S = {x}
      BY <2>1, <3>1 DEF MoneyInv, LateInterest, InterestOf
    <3>3. Cardinality({x}) = 1
      BY FS_Singleton
    <3> QED
      BY <2>1, <3>2, <3>3
  <2> QED
    BY <2>2, <2>3
<1> QED
  BY <1>1, MoneyInvHolds, PTL

-----------------------------------------------------------------------------
(* What a commit does to all the money there is. *)

LEMMA WalletsAreFinite == IsFiniteSet(Wallet)
BY FS_Product, BankAssumption DEF Wallet

\* What is added to one wallet is added to the sum.
LEMMA SumAdds ==
  ASSUME NEW f, \A x \in Wallet : f[x] \in Int, NEW w \in Wallet, NEW a \in Int,
         NEW g, \A x \in Wallet : g[x] = f[x] + Adds(w, a)[x]
  PROVE  SumFunctionOnSet(g, Wallet) = SumFunctionOnSet(f, Wallet) + a
<1>1. g[w] = f[w] + a /\ g[w] \in Int /\ \A x \in Wallet : x # w => g[x] = f[x]
  BY DEF Adds
<1>2. SumFunctionOnSet(g, Wallet) = SumFunctionOnSet(f, Wallet) - f[w] + g[w]
  BY <1>1, WalletsAreFinite, SumUpdate
<1>3. SumFunctionOnSet(f, Wallet) \in Int
  BY WalletsAreFinite, SumType
<1> QED
  BY <1>1, <1>2, <1>3

LEMMA TransferIsWorthNothing ==
  ASSUME BankInv, NEW v \in Wallet, NEW w \in Wallet, NEW a \in Nat,
         \A x \in Wallet : balance'[x] = balance[x] + (Adds(w, a)[x] - Adds(v, a)[x])
  PROVE  SumFunctionOnSet(balance', Wallet) = SumFunctionOnSet(balance, Wallet)
<1>1. PICK g : g = [x \in Wallet |-> balance[x] + Adds(w, a)[x]]
  OBVIOUS
<1>2. \A x \in Wallet : /\ balance[x] \in Int /\ Adds(w, a)[x] \in Int
                       /\ Adds(v, a)[x] = -Adds(v, -a)[x] /\ Adds(v, -a)[x] \in Int
  BY DEF BankInv, BankTypeOK, Adds
<1>3. \A x \in Wallet : g[x] = balance[x] + Adds(w, a)[x] /\ g[x] \in Int
  BY <1>1, <1>2
<1>4. \A x \in Wallet : balance'[x] = g[x] + Adds(v, -a)[x]
  BY <1>2, <1>3
<1>5. SumFunctionOnSet(g, Wallet) = SumFunctionOnSet(balance, Wallet) + a
  BY <1>2, <1>3, SumAdds
<1>6. -a \in Int
  OBVIOUS
<1>7. SumFunctionOnSet(balance', Wallet) = SumFunctionOnSet(g, Wallet) + (-a)
  BY <1>3, <1>4, <1>6, SumAdds
<1>8. SumFunctionOnSet(balance, Wallet) \in Int
  BY <1>2, WalletsAreFinite, SumType
<1> QED
  BY <1>5, <1>7, <1>8

\* Principal moves with the status of its investment.
LEMMA PrincipalMoves ==
  ASSUME BankInv, NEW i \in Investment, NEW r \in Bought,
         investment' = [investment EXCEPT ![i] = r]
  PROVE  /\ Principal[i] \in Int /\ SumFunctionOnSet(Principal, Investment) \in Int
         /\ SumFunctionOnSet(Principal', Investment) =
              SumFunctionOnSet(Principal, Investment) - Principal[i]
                + (IF r.status = "Holding" THEN r.amount ELSE 0)
<1>1. /\ investment \in [Investment -> Bought \union {None}] /\ r # None
  BY BankAssumption DEF BankInv, BankTypeOK
<1>2. \A j \in Investment : Principal[j] \in Int
  BY <1>1 DEF Principal, Active, Bought
<1>3. /\ \A j \in Investment : j # i => Principal'[j] = Principal[j]
      /\ Principal'[i] = IF r.status = "Holding" THEN r.amount ELSE 0
  BY <1>1 DEF Principal, Active
<1>4. Principal'[i] \in Int
  BY <1>3 DEF Bought
<1>5. IsFiniteSet(Investment)
  BY BankAssumption
<1>6. SumFunctionOnSet(Principal', Investment) =
        SumFunctionOnSet(Principal, Investment) - Principal[i] + Principal'[i]
  BY <1>2, <1>3, <1>4, <1>5, SumUpdate
<1>7. SumFunctionOnSet(Principal, Investment) \in Int
  BY <1>2, <1>5, SumType
<1> QED
  BY <1>2, <1>3, <1>6, <1>7

\* Whatever else a commit is of, it moves money without a change of its worth.
LEMMA CommitKeepsWorth ==
  ASSUME BankInv, MoneyInv, NEW c \in Slot, Commit(c),
         tx[c].kind \notin {"exchange", "adjust", "interest"},
         tx[c].kind = "withdraw" => ~tx[c].stale
  PROVE  Worth' = Worth
<1>1. PICK t : t = tx[c]
  OBVIOUS
<1>2. t \in Transaction /\ Fits(t) /\ Shaped(t)
      /\ investment \in [Investment -> Bought \union {None}]
  BY <1>1, CommitFacts
<1>3. balance' = [x \in Wallet |-> balance[x] + t.delta[x]] /\ balance \in [Wallet -> Int]
  BY <1>1 DEF Commit, BankInv, BankTypeOK
<1>4. SumFunctionOnSet(balance, Wallet) \in Int
  BY <1>3, WalletsAreFinite, SumType
<1>5. CASE t.kind \in {"transfer", "pay"}
  <2>1. PICK v \in Wallet, w \in Wallet, a \in Nat :
          t.delta = [x \in Wallet |-> Adds(w, a)[x] - Adds(v, a)[x]]
    BY <1>2, <1>5 DEF Shaped
  <2>2. \A x \in Wallet : balance'[x] = balance[x] + (Adds(w, a)[x] - Adds(v, a)[x])
    BY <1>3, <2>1
  <2>3. SumFunctionOnSet(balance', Wallet) = SumFunctionOnSet(balance, Wallet)
    BY <2>2, TransferIsWorthNothing
  <2>4. investment' = investment
    BY <1>1, <1>5 DEF Commit
  <2> QED
    BY <2>3, <2>4 DEF Worth, Principal, Active
<1>6. CASE t.kind \in {"invest", "withdraw"}
  <2>1. t.ref \in Investment /\ t.copy \in Bought
    BY <1>2, <1>6 DEF Fits
  <2>2. PICK i, r, n : i = t.ref /\ r = t.copy /\ n = r.amount
    OBVIOUS
  <2>3. i \in Investment /\ r \in Bought /\ n \in Nat
    BY <2>1, <2>2 DEF Bought
  <2>4. investment' = [investment EXCEPT ![i] = r]
    BY <1>1, <1>6, <2>2 DEF Commit
  <2>5. /\ Principal[i] \in Int /\ SumFunctionOnSet(Principal, Investment) \in Int
        /\ SumFunctionOnSet(Principal', Investment) =
             SumFunctionOnSet(Principal, Investment) - Principal[i]
               + (IF r.status = "Holding" THEN r.amount ELSE 0)
    BY <2>3, <2>4, PrincipalMoves
  <2>6. CASE t.kind = "invest"
    <3>1. PICK w \in Wallet : t.delta = Adds(w, -n)
      BY <1>2, <2>2, <2>6 DEF Shaped
    <3>2. -n \in Int /\ \A x \in Wallet : balance'[x] = balance[x] + Adds(w, -n)[x]
      BY <1>3, <2>3, <3>1
    <3>3. SumFunctionOnSet(balance', Wallet) = SumFunctionOnSet(balance, Wallet) + (-n)
      BY <1>3, <3>2, SumAdds
    <3>4. Principal[i] = 0 /\ r.status = "Holding"
      BY <1>2, <2>2, <2>3, <2>6 DEF Shaped, Principal, Active
    <3> QED
      BY <1>4, <2>2, <2>3, <2>5, <3>3, <3>4 DEF Worth
  <2>7. CASE t.kind = "withdraw"
    <3>1. PICK w \in Wallet : t.delta = Adds(w, n)
      BY <1>2, <2>2, <2>7 DEF Shaped
    <3>2. n \in Int /\ \A x \in Wallet : balance'[x] = balance[x] + Adds(w, n)[x]
      BY <1>3, <2>3, <3>1
    <3>3. SumFunctionOnSet(balance', Wallet) = SumFunctionOnSet(balance, Wallet) + n
      BY <1>3, <3>2, SumAdds
    <3>4. Principal[i] = n /\ r.status = "Withdrawn"
      BY <1>1, <1>2, <2>2, <2>3, <2>7 DEF Shaped, Held, Principal, Active
    <3> QED
      BY <1>4, <2>2, <2>3, <2>5, <3>3, <3>4 DEF Worth
  <2> QED
    BY <1>6, <2>6, <2>7
<1> QED
  BY <1>1, <1>2, <1>5, <1>6 DEF Transaction

\* No other step changes a balance or an investment.
LEMMA OnlyCommitsMoveMoney ==
  ASSUME BankInv, [BankNext]_bankVars, Worth' # Worth
  PROVE  \E c \in Slot : Commit(c) /\ Commits(c)
<1>1. ~UNCHANGED <<balance, investment>>
  BY DEF Worth, Principal, Active
<1>2. \A d, t : ~Begin(d, t)
  BY <1>1 DEF Begin, accountVars
<1>3. ~Service
  BY <1>1, <1>2 DEF Service, Transfer, HandleInlineTransferCallback, ExecuteReceivePayment,
     ExecuteTransfer, ExecuteExchange, Invest, Withdraw, AdjustUserBalance, RejectReceiveRequest,
     FreezeBalance, UnfreezeBalance
<1>4. ~ProfitTask /\ ~Crash /\ ~NextDay
  BY <1>1, <1>2 DEF ProfitTask, TakeDayLock, ListAllActive, ListingFails, DistributeSingleProfit,
     EndRun, Crash, NextDay, accountVars
<1>5. \A c \in Slot : ~TakeRow(c) /\ ~RollBack(c)
  BY <1>1 DEF TakeRow, RollBack, accountVars
<1>6. PICK c \in Slot : Commit(c)
  BY <1>1, <1>3, <1>4, <1>5 DEF BankNext, Database, DeadlockVictim, bankVars, accountVars
<1>7. Commits(c)
  <2>1. tx'[c] = None /\ Whole(c)
    BY <1>6, OthersGoOn DEF Commit, Whole
  <2> QED
    BY <1>1, <2>1 DEF Commits, accountVars
<1> QED
  BY <1>6, <1>7

(* Whatever overlaps, fails or dies half-way, and for any number of        *)
(* wallets and investments, the wallets and the principal of the           *)
(* investments together change only by an exchange, an adjustment, a day's *)
(* interest or the second of two withdrawals that overlap.                 *)
THEOREM BankMoneyOnlyMoves == BankSpec => MoneyOnlyMoves
<1>1. BankInv /\ MoneyInv /\ [BankNext]_bankVars =>
        [Worth' # Worth =>
           \E c \in Slot : /\ Commits(c)
                           /\ \/ tx[c].kind \in {"exchange", "adjust", "interest"}
                              \/ tx[c].kind = "withdraw" /\ tx[c].stale]_bankVars
  <2> SUFFICES ASSUME BankInv, MoneyInv, [BankNext]_bankVars, Worth' # Worth
               PROVE  \E c \in Slot : /\ Commits(c)
                                     /\ \/ tx[c].kind \in {"exchange", "adjust", "interest"}
                                        \/ tx[c].kind = "withdraw" /\ tx[c].stale
    OBVIOUS
  <2>1. PICK c \in Slot : Commit(c) /\ Commits(c)
    BY OnlyCommitsMoveMoney
  <2> QED
    BY <2>1, CommitKeepsWorth
<1> QED
  BY <1>1, MoneyInvHolds, PTL DEF BankSpec, MoneyOnlyMoves
==============================================================================
