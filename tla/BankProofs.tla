------------------------------ MODULE BankProofs ------------------------------
(***************************************************************************)
(* Proofs about Bank, for any number of users, currencies, slots, amounts, *)
(* investments and days: its types, that interest is paid once a day, and  *)
(* that a transaction spends what was there when nobody changed the wallet *)
(* it looked at.                                                           *)
(***************************************************************************)
EXTENDS Bank, TLAPS

\* The rows a transaction of finance saves are rows of its investment.
Fits(t) ==
  /\ t \in Transaction
  /\ t.taken <= Len(t.rows)
  /\ t.kind \in {"invest", "withdraw", "interest"} => t.ref \in Investment /\ t.copy \in Bought
  /\ t.kind = "interest" => investment[t.ref] # None
  /\ \A w \in Wallet : t.delta[w] # 0 => w \in Range(t.rows)

\* Only the task pays interest.
AllFit ==
  /\ \A c \in Slot : tx[c] # None => Fits(tx[c]) /\ (tx[c].kind = "interest" <=> c = Task)
  /\ run # None /\ run.todo # None => \A i \in ToPay : investment[i] # None

\* What is spent is there, with what is frozen on top.
Covered(t) ==
  t.kind \in Overdrawing =>
    /\ t.rows[1] \in Wallet
    /\ balance[t.rows[1]] + t.delta[t.rows[1]] >= frozen[t.rows[1]]

FreshAreCovered ==
  \A c \in Slot : tx[c] # None /\ ~tx[c].stale => Covered(tx[c])

Earned(i, d) == \E x \in interest : x[1] = i /\ x[2] = d

\* A day that earned has its key; what is still to be paid was not.
DaysAreKept ==
  /\ \A x \in interest : x[2] \in dayLock
  /\ run # None /\ run.todo = None => \A x \in interest : x[2] # run.day
  /\ run # None /\ run.todo # None => \A i \in ToPay : ~Earned(i, run.day)
  /\ tx[Task] # None =>
       /\ run # None /\ run.todo # None
       /\ tx[Task].ref \notin ToPay
       /\ ~Earned(tx[Task].ref, run.day)

BankInv == BankTypeOK /\ AllFit /\ FreshAreCovered /\ DaysAreKept

-----------------------------------------------------------------------------
\* The copies of a transaction the database makes.
LEMMA StaleCopy ==
  ASSUME NEW t \in Transaction
  PROVE  LET s == [t EXCEPT !.stale = TRUE]
         IN  /\ s \in Transaction /\ s.stale
             /\ s.kind = t.kind /\ s.rows = t.rows /\ s.taken = t.taken
             /\ s.delta = t.delta /\ s.ref = t.ref /\ s.copy = t.copy
BY DEF Transaction

LEMMA TakenCopy ==
  ASSUME NEW t \in Transaction
  PROVE  LET s == [t EXCEPT !.taken = @ + 1]
         IN  /\ s \in Transaction /\ s.stale = t.stale
             /\ s.kind = t.kind /\ s.rows = t.rows /\ s.taken = t.taken + 1
             /\ s.delta = t.delta /\ s.ref = t.ref /\ s.copy = t.copy
BY DEF Transaction

\* A new transaction that relies on what it read.
Begins(c, t) ==
  /\ Begin(c, t)
  /\ Fits(t) /\ t.taken = 0 /\ ~t.stale /\ Covered(t)

\* What a service hands to the constructor of transactions.
Sane(kind, rows, delta, ref, copy) ==
  /\ kind \in {"transfer", "pay", "exchange", "invest", "withdraw", "adjust", "interest"}
  /\ rows \in Seq(Row) \ {<<>>}
  /\ delta \in [Wallet -> Int]
  /\ ref \in Request \union Investment \union {None}
  /\ copy \in Bought \union {None}
  /\ kind \in {"invest", "withdraw", "interest"} => ref \in Investment /\ copy \in Bought
  /\ kind = "interest" => investment[ref] # None
  /\ \A w \in Wallet : delta[w] # 0 => w \in Range(rows)
  /\ kind \in Overdrawing => /\ rows[1] \in Wallet
                             /\ balance[rows[1]] + delta[rows[1]] >= frozen[rows[1]]

LEMMA TxFits ==
  ASSUME NEW kind, NEW rows, NEW delta, NEW ref, NEW copy, Sane(kind, rows, delta, ref, copy),
         NEW c, Begin(c, Tx(kind, rows, delta, ref, copy))
  PROVE  \E t : Begins(c, t) /\ t.kind = kind /\ t.ref = ref
<1>1. PICK t : t = Tx(kind, rows, delta, ref, copy)
  OBVIOUS
<1>2. /\ t.kind = kind /\ t.rows = rows /\ t.taken = 0 /\ t.delta = delta
      /\ t.ref = ref /\ t.copy = copy /\ t.stale = FALSE
      /\ t \in Transaction
  BY <1>1 DEF Tx, Transaction, Sane
<1>3. t.taken <= Len(t.rows)
  BY <1>2 DEF Sane
<1>4. Begins(c, t)
  BY <1>1, <1>2, <1>3 DEF Begins, Fits, Covered, Sane
<1> QED
  BY <1>2, <1>4

\* Two rows, one row: what Range and the first element are.
LEMMA Pair ==
  ASSUME NEW a \in Row, NEW b \in Row
  PROVE  /\ <<a, b>> \in Seq(Row) \ {<<>>} /\ Range(<<a, b>>) = {a, b} /\ <<a, b>>[1] = a
         /\ <<a>> \in Seq(Row) \ {<<>>} /\ Range(<<a>>) = {a}
<1>1. DOMAIN <<a, b>> = {1, 2} /\ DOMAIN <<a>> = {1}
  OBVIOUS
<1>2. <<a, b>>[1] = a /\ <<a, b>>[2] = b /\ <<a>>[1] = a
  OBVIOUS
<1>3. <<a, b>> \in Seq(Row) /\ <<a>> \in Seq(Row)
  OBVIOUS
<1>4. <<a, b>> # <<>> /\ <<a>> # <<>>
  OBVIOUS
<1>5. Range(<<a, b>>) = {a, b} /\ Range(<<a>>) = {a}
  BY <1>1, <1>2 DEF Range
<1> QED
  BY <1>2, <1>3, <1>4, <1>5

-----------------------------------------------------------------------------
(* What each service begins. *)

LEMMA MoveBegins ==
  ASSUME BankTypeOK,
         NEW kind \in {"transfer", "pay", "exchange"}, NEW from \in Wallet, NEW to \in Wallet,
         NEW a \in Nat, NEW b \in Nat, NEW ref \in Request \union {None},
         HasSufficientBalance(from, a), NEW c, Begin(c, Move(kind, from, to, a, b, ref))
  PROVE  \E t : Begins(c, t) /\ t.kind = kind /\ t.ref = ref
<1>1. PICK rows : rows = <<from, to>>
  OBVIOUS
<1>2. rows \in Seq(Row) \ {<<>>} /\ Range(rows) = {from, to} /\ rows[1] = from
  BY <1>1, Pair DEF Row
<1>3. PICK delta : delta = [w \in Wallet |-> Adds(to, b)[w] - Adds(from, a)[w]]
  OBVIOUS
<1>4. \A w \in Wallet : delta[w] = (IF w = to THEN b ELSE 0) - (IF w = from THEN a ELSE 0)
  BY <1>3 DEF Adds
<1>5. delta \in [Wallet -> Int] /\ delta[from] >= -a
      /\ \A w \in Wallet : delta[w] # 0 => w \in Range(rows)
  <2>1. \A w \in Wallet : delta[w] \in Int
    BY <1>4
  <2> QED
    BY <1>2, <1>3, <1>4, <2>1
<1>6. balance[rows[1]] + delta[rows[1]] >= frozen[rows[1]]
  BY <1>2, <1>5 DEF HasSufficientBalance, BankTypeOK
<1>7. Begin(c, Tx(kind, rows, delta, ref, None))
  BY <1>1, <1>3 DEF Move
<1>8. Sane(kind, rows, delta, ref, None)
  BY <1>2, <1>5, <1>6 DEF Sane
<1> QED
  BY <1>7, <1>8, TxFits

LEMMA AddsIsTyped ==
  ASSUME NEW v \in Wallet, NEW a \in Int
  PROVE  /\ Adds(v, a) \in [Wallet -> Int] /\ Adds(v, a)[v] = a
         /\ \A w \in Wallet : Adds(v, a)[w] # 0 => w = v
BY DEF Adds

\* Transfers, from whatever they are made.
LEMMA TransfersBegin ==
  ASSUME BankTypeOK, NEW c \in Call,
         \/ Transfer(c) \/ HandleInlineTransferCallback(c) \/ ExecuteReceivePayment(c)
  PROVE  \E t : Begins(c, t) /\ t.kind # "interest"
<1> USE BankAssumption
<1>1. CASE Transfer(c)
  <2>1. PICK u \in User, v \in User, k \in Currency, a \in Amount :
          ExecuteTransfer(c, "transfer", u, v, k, a, None)
    BY <1>1 DEF Transfer
  <2>2. /\ <<u, k>> \in Wallet /\ <<v, k>> \in Wallet /\ a \in Nat
        /\ HasSufficientBalance(<<u, k>>, a)
        /\ Begin(c, Move("transfer", <<u, k>>, <<v, k>>, a, a, None))
    BY <2>1 DEF ExecuteTransfer, Wallet
  <2> QED
    BY <2>2, MoveBegins
<1>2. CASE HandleInlineTransferCallback(c)
  <2>1. PICK b \in Button, v \in User :
          ExecuteTransfer(c, "transfer", b.sender, v, b.currency, b.amount, None)
    BY <1>2 DEF HandleInlineTransferCallback
  <2>2. /\ <<b.sender, b.currency>> \in Wallet /\ <<v, b.currency>> \in Wallet /\ b.amount \in Nat
        /\ HasSufficientBalance(<<b.sender, b.currency>>, b.amount)
        /\ Begin(c, Move("transfer", <<b.sender, b.currency>>, <<v, b.currency>>, b.amount, b.amount, None))
    BY <2>1 DEF ExecuteTransfer, Wallet
  <2> QED
    BY <2>2, MoveBegins
<1>3. CASE ExecuteReceivePayment(c)
  <2>1. PICK q \in Request :
          ExecuteTransfer(c, "pay", q.payer, q.payee, q.currency, q.amount, q)
    BY <1>3 DEF ExecuteReceivePayment
  <2>2. /\ <<q.payer, q.currency>> \in Wallet /\ <<q.payee, q.currency>> \in Wallet /\ q.amount \in Nat
        /\ HasSufficientBalance(<<q.payer, q.currency>>, q.amount)
        /\ Begin(c, Move("pay", <<q.payer, q.currency>>, <<q.payee, q.currency>>, q.amount, q.amount, q))
    BY <2>1 DEF ExecuteTransfer, Wallet
  <2> QED
    BY <2>2, MoveBegins
<1> QED
  BY <1>1, <1>2, <1>3

LEMMA ExchangeBegins ==
  ASSUME BankTypeOK, NEW c \in Call, ExecuteExchange(c)
  PROVE  \E t : Begins(c, t) /\ t.kind # "interest"
<1> USE BankAssumption
<1>1. PICK u \in User, d \in DOMAIN Rate, a \in Amount :
        /\ HasSufficientBalance(<<u, d[1]>>, a)
        /\ Begin(c, Move("exchange", <<u, d[1]>>, <<u, d[2]>>, a, a * Rate[d], None))
  BY DEF ExecuteExchange
<1>2. d \in Currency \X Currency /\ Rate[d] \in Nat /\ a \in Nat
  OBVIOUS
<1>3. d[1] \in Currency /\ d[2] \in Currency
  BY <1>2
<1>4. <<u, d[1]>> \in Wallet /\ <<u, d[2]>> \in Wallet
  BY <1>3 DEF Wallet
<1>5. PICK b \in Nat : b = a * Rate[d]
  BY <1>2
<1> QED
  BY <1>1, <1>2, <1>4, <1>5, MoveBegins

LEMMA FinanceBegins ==
  ASSUME BankTypeOK, NEW c \in Call, Invest(c) \/ Withdraw(c)
  PROVE  \E t : Begins(c, t) /\ t.kind # "interest"
<1> USE BankAssumption
<1>1. CASE Invest(c)
  <2>1. PICK u \in User, i \in Investment, a \in Amount :
          /\ HasSufficientBalance(<<u, "USDT">>, a)
          /\ Begin(c, Tx("invest", <<<<u, "USDT">>, i>>, Adds(<<u, "USDT">>, -a), i, Holding(u, a)))
    BY <1>1 DEF Invest
  <2>2. PICK w, rows, delta, r : /\ w = <<u, "USDT">> /\ rows = <<<<u, "USDT">>, i>>
                                 /\ delta = Adds(<<u, "USDT">>, -a) /\ r = Holding(u, a)
    OBVIOUS
  <2>3. w \in Wallet /\ w \in Row /\ i \in Row /\ -a \in Int /\ a \in Nat
    BY <2>2 DEF Wallet, Row
  <2>4. rows \in Seq(Row) \ {<<>>} /\ Range(rows) = {w, i} /\ rows[1] = w
    BY <2>2, <2>3, Pair
  <2>5. r \in Bought
    BY <2>2, <2>3 DEF Holding, Bought, BankTypeOK
  <2>6. delta \in [Wallet -> Int] /\ delta[w] = -a /\ \A v \in Wallet : delta[v] # 0 => v = w
    BY <2>2, <2>3 DEF Adds
  <2>7. balance[w] + delta[w] >= frozen[w]
    BY <2>1, <2>2, <2>3, <2>6 DEF HasSufficientBalance, BankTypeOK
  <2>8. Sane("invest", rows, delta, i, r)
    BY <2>3, <2>4, <2>5, <2>6, <2>7 DEF Sane
  <2>9. Begin(c, Tx("invest", rows, delta, i, r))
    BY <2>1, <2>2
  <2>10. \E t : Begins(c, t) /\ t.kind = "invest" /\ t.ref = i
    BY <2>8, <2>9, TxFits
  <2> QED
    BY <2>10
<1>2. CASE Withdraw(c)
  <2>1. PICK i \in Investment :
          /\ investment[i] # None
          /\ Begin(c, LET row == investment[i]
                          w   == <<row.user, "USDT">>
                      IN  Tx("withdraw", <<i, w>>, Adds(w, row.amount), i,
                             [row EXCEPT !.status = "Withdrawn"]))
    BY <1>2 DEF Withdraw
  <2>2. PICK w : w = <<investment[i].user, "USDT">>
    OBVIOUS
  <2>3. PICK r, a : r = [investment[i] EXCEPT !.status = "Withdrawn"] /\ a = investment[i].amount
    OBVIOUS
  <2>4. PICK rows, delta : rows = <<i, w>> /\ delta = Adds(w, a)
    OBVIOUS
  <2>5. investment[i] \in Bought
    BY <2>1 DEF BankTypeOK
  <2>6. a \in Int /\ r \in Bought /\ w \in Wallet
    BY <2>2, <2>3, <2>5 DEF Bought, Wallet
  <2>7. w \in Row /\ i \in Row
    BY <2>6 DEF Row
  <2>8. rows \in Seq(Row) \ {<<>>} /\ Range(rows) = {i, w}
    BY <2>4, <2>7, Pair
  <2>9. delta \in [Wallet -> Int] /\ \A v \in Wallet : delta[v] # 0 => v = w
    BY <2>4, <2>6, AddsIsTyped
  <2>10. Sane("withdraw", rows, delta, i, r)
    BY <2>6, <2>8, <2>9 DEF Sane, Overdrawing
  <2>11. Begin(c, Tx("withdraw", rows, delta, i, r))
    BY <2>1, <2>2, <2>3, <2>4
  <2>12. \E t : Begins(c, t) /\ t.kind = "withdraw" /\ t.ref = i
    BY <2>10, <2>11, TxFits
  <2> QED
    BY <2>12
<1> QED
  BY <1>1, <1>2

LEMMA AdjustBegins ==
  ASSUME BankTypeOK, NEW c \in Call, AdjustUserBalance(c)
  PROVE  \E t : Begins(c, t) /\ t.kind # "interest"
<1>1. PICK w \in Wallet, a \in Adjustment : Begin(c, Tx("adjust", <<w>>, Adds(w, a), None, None))
  BY DEF AdjustUserBalance
<1>2. PICK rows, delta : rows = <<w>> /\ delta = Adds(w, a)
  OBVIOUS
<1>3. a \in Int /\ w \in Row
  BY BankAssumption DEF Row
<1>4. rows \in Seq(Row) \ {<<>>} /\ Range(rows) = {w}
  BY <1>2, <1>3, Pair
<1>5. delta \in [Wallet -> Int] /\ \A v \in Wallet : delta[v] # 0 => v = w
  BY <1>2, <1>3, AddsIsTyped
<1>6. Sane("adjust", rows, delta, None, None)
  BY <1>4, <1>5 DEF Sane, Overdrawing
<1>7. Begin(c, Tx("adjust", rows, delta, None, None))
  BY <1>1, <1>2
<1>8. \E t : Begins(c, t) /\ t.kind = "adjust" /\ t.ref = None
  BY <1>6, <1>7, TxFits
<1> QED
  BY <1>8

LEMMA InterestBegins ==
  ASSUME BankTypeOK, AllFit, DistributeSingleProfit
  PROVE  \E i \in ToPay : /\ \E t : Begins(Task, t) /\ t.kind = "interest" /\ t.ref = i
                          /\ run # None /\ run.todo # None
                          /\ run' = [run EXCEPT !.todo[i] = None]
<1> USE BankAssumption
<1>1. PICK i \in ToPay :
        /\ run # None /\ run.todo # None
        /\ LET row == run.todo[i]
               w   == <<row.user, "USDT">>
           IN  /\ Begin(Task, Tx("interest", <<w, i>>, Adds(w, 1), i, row))
               /\ run' = [run EXCEPT !.todo[i] = None]
  BY DEF DistributeSingleProfit
<1>2. PICK r : r = run.todo[i]
  OBVIOUS
<1>3. PICK w : w = <<r.user, "USDT">>
  OBVIOUS
<1>4. PICK rows, delta : rows = <<w, i>> /\ delta = Adds(w, 1)
  OBVIOUS
<1>5. i \in Investment /\ r \in Bought
  BY <1>1, <1>2 DEF BankTypeOK, ToPay, List, Distribution
<1>6. w \in Wallet
  BY <1>3, <1>5 DEF Bought, Wallet
<1>7. rows \in Seq(Row) \ {<<>>} /\ Range(rows) = {w, i}
  BY <1>4, <1>5, <1>6, Pair DEF Row
<1>8. delta \in [Wallet -> Int] /\ \A v \in Wallet : delta[v] # 0 => v = w
  BY <1>4, <1>6 DEF Adds
<1>9. investment[i] # None
  BY <1>1 DEF AllFit
<1>10. Sane("interest", rows, delta, i, r)
  BY <1>5, <1>7, <1>8, <1>9 DEF Sane, Overdrawing
<1>11. Begin(Task, Tx("interest", rows, delta, i, r))
  BY <1>1, <1>2, <1>3, <1>4
<1>12. \E t : Begins(Task, t) /\ t.kind = "interest" /\ t.ref = i
  BY <1>10, <1>11, TxFits
<1> QED
  BY <1>1, <1>12

-----------------------------------------------------------------------------
(* A transaction that goes on is the same but for the locks it took and    *)
(* for its being stale.                                                    *)

GoesOn(c) ==
  /\ tx[c] # None /\ tx'[c] # None
  /\ tx'[c].kind = tx[c].kind /\ tx'[c].rows = tx[c].rows
  /\ tx'[c].delta = tx[c].delta /\ tx'[c].ref = tx[c].ref /\ tx'[c].copy = tx[c].copy
  /\ tx'[c].taken \in {tx[c].taken, tx[c].taken + 1} /\ tx'[c].taken <= Len(tx'[c].rows)
  /\ tx[c].stale => tx'[c].stale

\* No step but a Begin does more to the transactions.
GoOn ==
  /\ tx' \in [Slot -> Transaction \union {None}]
  /\ \A c \in Slot : tx'[c] = None \/ GoesOn(c)

\* The rows whose locks a transaction took.
LEMMA TookRows ==
  ASSUME NEW t \in Transaction, t.taken <= Len(t.rows)
  PROVE  Range(SubSeq(t.rows, 1, t.taken)) = {t.rows[k] : k \in 1 .. t.taken}
<1>1. t.rows \in Seq(Row) /\ t.taken \in Nat
  BY DEF Transaction
<1>2. PICK s : s = SubSeq(t.rows, 1, t.taken)
  OBVIOUS
<1>3. DOMAIN s = 1 .. t.taken /\ \A k \in 1 .. t.taken : s[k] = t.rows[k]
  BY <1>1, <1>2
<1> QED
  BY <1>2, <1>3 DEF Range

\* Transactions that only go on stay what they were.
LEMMA FitKeeps ==
  ASSUME BankTypeOK, AllFit, GoOn,
         \A i \in Investment : investment[i] # None => investment'[i] # None
  PROVE  \A c \in Slot : tx'[c] # None => Fits(tx[c])' /\ (tx'[c].kind = "interest" <=> c = Task)
<1> SUFFICES ASSUME NEW c \in Slot, tx'[c] # None
             PROVE  Fits(tx[c])' /\ (tx'[c].kind = "interest" <=> c = Task)
  OBVIOUS
<1>1. GoesOn(c) /\ tx[c] # None /\ tx'[c] \in Transaction
  BY DEF GoOn, GoesOn
<1>2. Fits(tx[c]) /\ (tx[c].kind = "interest" <=> c = Task)
  BY <1>1 DEF AllFit
<1> QED
  BY <1>1, <1>2 DEF Fits, GoesOn

\* The wallets that nobody changed behind a transaction still cover it.
LEMMA CoverKeeps ==
  ASSUME BankTypeOK, FreshAreCovered, GoOn, frozen' \in [Wallet -> Nat],
         \A c \in Slot : tx'[c] # None /\ ~tx'[c].stale /\ tx[c].rows[1] \in Wallet =>
            /\ balance'[tx[c].rows[1]] = balance[tx[c].rows[1]]
            /\ frozen'[tx[c].rows[1]] <= frozen[tx[c].rows[1]]
  PROVE  FreshAreCovered'
<1> SUFFICES ASSUME NEW c \in Slot, tx'[c] # None, ~tx'[c].stale, tx'[c].kind \in Overdrawing
             PROVE  /\ tx'[c].rows[1] \in Wallet
                    /\ balance'[tx'[c].rows[1]] + tx'[c].delta[tx'[c].rows[1]] >= frozen'[tx'[c].rows[1]]
  BY DEF FreshAreCovered, Covered
<1>1. GoesOn(c) /\ tx[c] \in Transaction
  BY DEF GoOn, GoesOn, BankTypeOK
<1>2. Covered(tx[c]) /\ tx[c].kind \in Overdrawing /\ tx'[c].rows = tx[c].rows /\ tx'[c].delta = tx[c].delta
  BY <1>1 DEF FreshAreCovered, GoesOn
<1>3. PICK w : w = tx[c].rows[1]
  OBVIOUS
<1>4. /\ w \in Wallet /\ balance[w] \in Int /\ frozen[w] \in Nat /\ tx[c].delta[w] \in Int
      /\ balance[w] + tx[c].delta[w] >= frozen[w]
  BY <1>1, <1>2, <1>3 DEF Covered, BankTypeOK, Transaction
<1>5. balance'[w] = balance[w] /\ frozen'[w] <= frozen[w] /\ frozen'[w] \in Nat
  BY <1>3, <1>4
<1> QED
  BY <1>2, <1>3, <1>4, <1>5

-----------------------------------------------------------------------------
(* A service, or the task, begins a transaction. *)

\* An investment that is taken from the list.
LEMMA TodoShrinks ==
  ASSUME BankTypeOK, run # None, run.todo # None, NEW i \in ToPay,
         run' = [run EXCEPT !.todo[i] = None]
  PROVE  /\ run' \in Distribution /\ run'.day = run.day
         /\ run' # None /\ run'.todo # None /\ ToPay' = ToPay \ {i}
         /\ \A j \in Investment : run'.todo[j] # None => run'.todo[j] = run.todo[j]
<1>1. run \in Distribution /\ run.todo \in List /\ i \in Investment
  BY DEF BankTypeOK, Distribution, ToPay
<1>2. PICK l : l = [run.todo EXCEPT ![i] = None]
  OBVIOUS
<1>3. l \in List /\ \A j \in Investment : l[j] = IF j = i THEN None ELSE run.todo[j]
  BY <1>1, <1>2 DEF List
<1>4. run' = [run EXCEPT !.todo = l]
  BY <1>1, <1>2 DEF Distribution
<1>5. run' \in Distribution /\ run'.day = run.day /\ run'.todo = l
  BY <1>1, <1>3, <1>4 DEF Distribution
<1>6. ToPay' = ToPay \ {i}
  BY <1>3, <1>5 DEF ToPay
<1> QED
  BY <1>3, <1>5, <1>6, BankAssumption

LEMMA BeginKeeps ==
  ASSUME BankInv, NEW c \in Slot, NEW t, Begins(c, t), t.kind = "interest" <=> c = Task,
         day' = day, dayLock' = dayLock,
         \/ run' = run /\ t.kind # "interest"
         \/ /\ t.kind = "interest" /\ run # None /\ run.todo # None /\ t.ref \in ToPay
            /\ run' = [run EXCEPT !.todo[t.ref] = None]
  PROVE  BankInv'
<1>0. BankTypeOK /\ AllFit /\ FreshAreCovered /\ DaysAreKept
  BY DEF BankInv
<1>1. /\ tx[c] = None /\ tx'[c] = t /\ t # None /\ t \in Transaction
      /\ tx' \in [Slot -> Transaction \union {None}]
      /\ \A d \in Slot \ {c} : tx'[d] = tx[d]
      /\ UNCHANGED <<balance, frozen, investment, request, interest, lock>>
  BY <1>0, BankAssumption DEF Begins, Begin, Fits, BankTypeOK, accountVars
<1>2. Fits(t) /\ Covered(t)
  BY DEF Begins
<1>3. \/ run' = run /\ c # Task
      \/ /\ c = Task /\ run # None /\ run.todo # None /\ t.ref \in ToPay
         /\ run' \in Distribution /\ run'.day = run.day
         /\ run' # None /\ run'.todo # None /\ ToPay' = ToPay \ {t.ref}
  BY <1>0, TodoShrinks
<1>4. BankTypeOK'
  <2>1. run' \in Distribution \union {None} /\ (run' # None => run'.day \in dayLock')
    BY <1>0, <1>3 DEF BankTypeOK
  <2>2. ASSUME NEW r \in Row, NEW d \in Slot, lock'[r] = d
        PROVE  tx'[d] # None /\ r \in Range(Took(d))'
    <3>1. lock[r] = d
      BY <1>1, <2>2
    <3>2. tx[d] # None /\ r \in Range(Took(d))
      BY <1>0, <3>1 DEF BankTypeOK
    <3>3. tx'[d] = tx[d]
      BY <1>1, <3>2
    <3> QED
      BY <3>2, <3>3 DEF Took
  <2> QED
    BY <1>0, <1>1, <2>1, <2>2 DEF BankTypeOK
<1>5. AllFit'
  <2>1. ASSUME NEW d \in Slot, tx'[d] # None
        PROVE  Fits(tx[d])' /\ (tx'[d].kind = "interest" <=> d = Task)
    <3>1. CASE d = c
      BY <1>1, <1>2, <3>1 DEF Fits
    <3>2. CASE d # c
      BY <1>0, <1>1, <2>1, <3>2 DEF AllFit, Fits
    <3> QED
      BY <3>1, <3>2
  <2>2. run' # None /\ run'.todo # None => \A i \in ToPay' : investment'[i] # None
    BY <1>0, <1>1, <1>3 DEF AllFit, ToPay
  <2> QED
    BY <2>1, <2>2 DEF AllFit
<1>6. FreshAreCovered'
  <2> SUFFICES ASSUME NEW d \in Slot, tx'[d] # None, ~tx'[d].stale
               PROVE  Covered(tx[d])'
    BY DEF FreshAreCovered
  <2>1. CASE d = c
    BY <1>1, <1>2, <2>1 DEF Covered
  <2>2. CASE d # c
    BY <1>0, <1>1, <2>2 DEF FreshAreCovered, Covered
  <2> QED
    BY <2>1, <2>2
<1>7. DaysAreKept'
  <2>1. CASE run' = run /\ c # Task
    <3>1. tx'[Task] = tx[Task] /\ ToPay' = ToPay /\ interest' = interest
      BY <1>1, <2>1 DEF Slot, ToPay
    <3> QED
      BY <1>0, <2>1, <3>1 DEF DaysAreKept, Earned
  <2>2. CASE /\ c = Task /\ run # None /\ run.todo # None /\ t.ref \in ToPay
             /\ run' \in Distribution /\ run'.day = run.day
             /\ run' # None /\ run'.todo # None /\ ToPay' = ToPay \ {t.ref}
    <3>1. /\ \A x \in interest : x[2] \in dayLock
          /\ \A i \in ToPay : ~Earned(i, run.day)
      BY <1>0, <2>2 DEF DaysAreKept
    <3>2. interest' = interest /\ tx'[Task].ref = t.ref
      BY <1>1, <2>2
    <3> QED
      BY <2>2, <3>1, <3>2 DEF DaysAreKept, Earned
  <2> QED
    BY <1>3, <2>1, <2>2
<1> QED
  BY <1>4, <1>5, <1>6, <1>7 DEF BankInv

-----------------------------------------------------------------------------
(* The steps that leave transactions and locks alone. *)

LEMMA StutterKeeps ==
  ASSUME BankInv, UNCHANGED <<balance, frozen, investment, interest, tx, lock, day, dayLock, run>>
  PROVE  BankInv'
<1>1. \A c \in Slot : tx[c] # None => Fits(tx[c])' = Fits(tx[c]) /\ Covered(tx[c])' = Covered(tx[c])
  BY DEF Fits, Covered
<1>2. BankTypeOK'
  BY DEF BankInv, BankTypeOK, Took
<1>3. AllFit'
  BY <1>1 DEF BankInv, AllFit, ToPay
<1>4. FreshAreCovered'
  BY <1>1 DEF BankInv, FreshAreCovered
<1>5. DaysAreKept'
  BY DEF BankInv, DaysAreKept, ToPay, Earned
<1> QED
  BY <1>2, <1>3, <1>4, <1>5 DEF BankInv

\* Steps of the task that change its run, the day or the key.
LEMMA TaskKeeps ==
  ASSUME BankInv, UNCHANGED <<accountVars, tx, lock>>,
         day <= day', day' \in Nat, dayLock' \subseteq 1 .. day',
         run' \in Distribution \union {None}, run' # None => run'.day \in dayLock',
         run' # None /\ run'.todo # None => \A i \in ToPay' : investment[i] # None,
         DaysAreKept'
  PROVE  BankInv'
<1>1. UNCHANGED <<balance, frozen, investment, interest, tx, lock>>
  BY DEF accountVars
<1>2. BankTypeOK'
  BY <1>1 DEF BankInv, BankTypeOK, Took
<1>3. \A c \in Slot : tx[c] # None => Fits(tx[c])' = Fits(tx[c]) /\ Covered(tx[c])' = Covered(tx[c])
  BY <1>1 DEF Fits, Covered
<1>4. AllFit' /\ FreshAreCovered'
  BY <1>1, <1>3 DEF BankInv, AllFit, FreshAreCovered
<1> QED
  BY <1>2, <1>4 DEF BankInv

LEMMA TakeDayLockKeeps ==
  ASSUME BankInv, TakeDayLock
  PROVE  BankInv'
<1>1. /\ run = None /\ day \notin dayLock /\ dayLock' = dayLock \union {day}
      /\ run' = [day |-> day, todo |-> None] /\ day' = day
      /\ UNCHANGED <<accountVars, tx, lock>> /\ interest' = interest
  BY DEF TakeDayLock, accountVars
<1>2. run' \in Distribution /\ run'.day = day /\ run'.todo = None
  BY <1>1 DEF BankInv, BankTypeOK, Distribution
<1>3. day \in Nat /\ dayLock \subseteq 1 .. day /\ day \in 1 .. day
  BY DEF BankInv, BankTypeOK
<1>4. tx[Task] = None /\ \A x \in interest : x[2] \in dayLock
  BY <1>1 DEF BankInv, DaysAreKept
<1>5. DaysAreKept'
  BY <1>1, <1>2, <1>4 DEF DaysAreKept
<1> QED
  BY <1>1, <1>2, <1>3, <1>5, TaskKeeps

LEMMA ListAllActiveKeeps ==
  ASSUME BankInv, ListAllActive
  PROVE  BankInv'
<1>1. PICK due \in SUBSET Active :
        /\ run # None /\ run.todo = None
        /\ run' = [run EXCEPT !.todo =
                    [i \in Investment |-> IF i \in due THEN investment[i] ELSE None]]
        /\ UNCHANGED <<accountVars, tx, lock, day, dayLock>>
  BY DEF ListAllActive, Active
<1>2. PICK l : l = [i \in Investment |-> IF i \in due THEN investment[i] ELSE None]
  OBVIOUS
<1>3. l \in List /\ \A i \in Investment : l[i] # None => investment[i] # None
  BY <1>2 DEF BankInv, BankTypeOK, List
<1>4. run \in Distribution /\ run' = [run EXCEPT !.todo = l]
  BY <1>1, <1>2 DEF BankInv, BankTypeOK
<1>5. run' \in Distribution /\ run'.day = run.day /\ run'.todo = l
  BY <1>3, <1>4 DEF Distribution
<1>6. run' # None /\ run'.todo # None
  BY <1>3, <1>5, BankAssumption
<1>7. \A i \in ToPay' : investment[i] # None
  BY <1>3, <1>5 DEF ToPay
<1>8. interest' = interest /\ dayLock' = dayLock /\ day' = day /\ tx' = tx
  BY <1>1 DEF accountVars
<1>9. /\ \A x \in interest : x[2] \in dayLock /\ x[2] # run.day
      /\ tx[Task] = None
  BY <1>1 DEF BankInv, DaysAreKept
<1>10. DaysAreKept'
  BY <1>5, <1>6, <1>8, <1>9 DEF DaysAreKept, Earned
<1>11. day \in Nat /\ dayLock \subseteq 1 .. day /\ run.day \in dayLock
  BY <1>1 DEF BankInv, BankTypeOK
<1> QED
  BY <1>1, <1>5, <1>7, <1>8, <1>10, <1>11, TaskKeeps

\* The run is over: nothing is under way.
LEMMA RunEnds ==
  ASSUME BankInv, run # None, run' = None, UNCHANGED <<accountVars, tx, lock, day>>, tx[Task] = None,
         \/ dayLock' = dayLock
         \/ run.todo = None /\ dayLock' = dayLock \ {run.day}
  PROVE  BankInv'
<1>1. interest' = interest /\ day' = day /\ tx' = tx
  BY DEF accountVars
<1>2. day \in Nat /\ dayLock' \subseteq 1 .. day
  BY DEF BankInv, BankTypeOK
<1>3. \A x \in interest : x[2] \in dayLock'
  BY DEF BankInv, DaysAreKept
<1>4. DaysAreKept'
  BY <1>1, <1>3 DEF DaysAreKept
<1> QED
  BY <1>1, <1>2, <1>4, TaskKeeps

LEMMA NextDayKeeps ==
  ASSUME BankInv, NextDay
  PROVE  BankInv'
<1>1. /\ day' = day + 1 /\ UNCHANGED <<accountVars, tx, lock, dayLock, run>> /\ interest' = interest
      /\ tx' = tx
  BY DEF NextDay, accountVars
<1>2. /\ day \in Nat /\ dayLock \subseteq 1 .. day /\ run \in Distribution \union {None}
      /\ run # None => run.day \in dayLock
      /\ run # None /\ run.todo # None => \A i \in ToPay : investment[i] # None
      /\ DaysAreKept
  BY DEF BankInv, BankTypeOK, AllFit
<1>3. ToPay' = ToPay /\ DaysAreKept'
  BY <1>1, <1>2 DEF DaysAreKept, Earned, ToPay
<1>4. dayLock' \subseteq 1 .. day' /\ day' \in Nat /\ day <= day'
  BY <1>1, <1>2
<1> QED
  BY <1>1, <1>2, <1>3, <1>4, TaskKeeps

-----------------------------------------------------------------------------
(* The steps of the database. *)

\* A lock is held by a transaction that took it.
LEMMA LocksKeep ==
  ASSUME BankTypeOK, AllFit, GoOn,
         NEW r \in Row, NEW c \in Slot, tx'[c] # None,
         lock[r] = c \/ (tx'[c].taken > tx[c].taken /\ r = tx'[c].rows[tx'[c].taken])
  PROVE  r \in Range(Took(c))'
<1>1. GoesOn(c) /\ tx[c] \in Transaction /\ tx'[c] \in Transaction
  BY DEF GoOn, GoesOn, BankTypeOK
<1>2. tx[c].taken <= Len(tx[c].rows) /\ tx'[c].taken <= Len(tx'[c].rows)
      /\ tx[c].taken \in Nat /\ tx'[c].taken \in Nat
  BY <1>1 DEF AllFit, Fits, GoesOn, Transaction
<1>3. Range(Took(c))' = {tx'[c].rows[k] : k \in 1 .. tx'[c].taken}
  BY <1>1, <1>2, TookRows DEF Took
<1>4. CASE lock[r] = c
  <2>1. r \in Range(Took(c))
    BY <1>4 DEF BankTypeOK
  <2>2. Range(Took(c)) = {tx[c].rows[k] : k \in 1 .. tx[c].taken}
    BY <1>1, <1>2, TookRows DEF Took
  <2>3. tx'[c].rows = tx[c].rows /\ tx[c].taken <= tx'[c].taken
    BY <1>1, <1>2 DEF GoesOn
  <2> QED
    BY <1>2, <1>3, <2>1, <2>2, <2>3
<1>5. CASE tx'[c].taken > tx[c].taken /\ r = tx'[c].rows[tx'[c].taken]
  BY <1>2, <1>3, <1>5
<1> QED
  BY <1>4, <1>5

\* Transactions go on or end; money, investments and interest stay.
LEMMA GoOnKeeps ==
  ASSUME BankInv, GoOn, UNCHANGED <<balance, investment, interest, taskVars>>,
         frozen' \in [Wallet -> Nat], lock' \in [Row -> Slot \union {None}],
         \A c \in Slot, w \in Wallet :
            tx'[c] # None /\ ~tx'[c].stale /\ w = tx[c].rows[1] => frozen'[w] <= frozen[w],
         \A r \in Row, c \in Slot : lock'[r] = c =>
            /\ tx'[c] # None
            /\ lock[r] = c \/ (tx'[c].taken > tx[c].taken /\ r = tx'[c].rows[tx'[c].taken])
  PROVE  BankInv'
<1>0. /\ BankTypeOK /\ AllFit /\ FreshAreCovered /\ DaysAreKept
      /\ UNCHANGED <<day, dayLock, run>>
  BY DEF BankInv, taskVars
<1>1. ASSUME NEW r \in Row, NEW c \in Slot, lock'[r] = c PROVE r \in Range(Took(c))'
  BY <1>0, <1>1, LocksKeep
<1>2. BankTypeOK'
  BY <1>0, <1>1 DEF BankTypeOK, GoOn
<1>3. AllFit'
  <2>1. ToPay' = ToPay /\ investment' = investment
    BY <1>0 DEF ToPay
  <2>2. \A c \in Slot : tx'[c] # None => Fits(tx[c])' /\ (tx'[c].kind = "interest" <=> c = Task)
    BY <1>0, <2>1, FitKeeps
  <2> QED
    BY <1>0, <2>1, <2>2 DEF AllFit
<1>4. FreshAreCovered'
  BY <1>0, CoverKeeps
<1>5. DaysAreKept'
  <2>1. tx'[Task] # None => tx[Task] # None /\ tx'[Task].ref = tx[Task].ref
    BY DEF GoOn, GoesOn, Slot
  <2> QED
    BY <1>0, <2>1 DEF DaysAreKept, ToPay, Earned
<1> QED
  BY <1>2, <1>3, <1>4, <1>5 DEF BankInv

LEMMA UnlockIsTyped ==
  ASSUME BankTypeOK, NEW c \in Slot
  PROVE  /\ Unlock(c) \in [Row -> Slot \union {None}]
         /\ \A r \in Row, d \in Slot : Unlock(c)[r] = d => lock[r] = d /\ d # c
BY BankAssumption DEF BankTypeOK, Unlock

LEMMA UnfreezeKeeps ==
  ASSUME BankInv, UnfreezeBalance
  PROVE  BankInv' /\ GoOn
<1>1. PICK w \in Wallet, a \in Amount : frozen[w] >= a /\ frozen' = [frozen EXCEPT ![w] = @ - a]
  BY DEF UnfreezeBalance
<1>2. /\ frozen' \in [Wallet -> Nat] /\ \A v \in Wallet : frozen'[v] <= frozen[v]
  BY <1>1, BankAssumption DEF BankInv, BankTypeOK
<1>3. UNCHANGED <<balance, investment, interest, taskVars>> /\ tx' = tx /\ lock' = lock
  BY DEF UnfreezeBalance
<1>4. GoOn
  BY <1>3 DEF GoOn, GoesOn, BankInv, BankTypeOK, AllFit, Fits
<1>5. ASSUME NEW r \in Row, NEW c \in Slot, lock'[r] = c
      PROVE  /\ tx'[c] # None
             /\ lock[r] = c \/ (tx'[c].taken > tx[c].taken /\ r = tx'[c].rows[tx'[c].taken])
  BY <1>3, <1>5 DEF BankInv, BankTypeOK
<1>6. lock' \in [Row -> Slot \union {None}]
  BY <1>3 DEF BankInv, BankTypeOK
<1>7. ASSUME NEW c \in Slot, NEW v \in Wallet, tx'[c] # None, ~tx'[c].stale, v = tx[c].rows[1]
      PROVE  frozen'[v] <= frozen[v]
  BY <1>2
<1> QED
  BY <1>2, <1>3, <1>4, <1>5, <1>6, <1>7, GoOnKeeps

LEMMA FreezeKeeps ==
  ASSUME BankInv, FreezeBalance
  PROVE  BankInv' /\ GoOn
<1>1. PICK w \in Wallet, a \in Amount :
        /\ frozen' = [frozen EXCEPT ![w] = @ + a]
        /\ tx' = [c \in Slot |->
                   IF tx[c] # None /\ w \in Range(tx[c].rows)
                     THEN [tx[c] EXCEPT !.stale = TRUE] ELSE tx[c]]
  BY DEF FreezeBalance
<1>2. /\ frozen' \in [Wallet -> Nat] /\ \A v \in Wallet : v # w => frozen'[v] = frozen[v]
      /\ \A v \in Wallet : frozen[v] \in Nat
  BY <1>1, BankAssumption DEF BankInv, BankTypeOK
<1>3. UNCHANGED <<balance, investment, interest, taskVars>> /\ lock' = lock
  BY DEF FreezeBalance
<1>4. ASSUME NEW c \in Slot
      PROVE  /\ tx[c] = None => tx'[c] = None
             /\ tx[c] # None => GoesOn(c) /\ tx'[c] \in Transaction
             /\ tx'[c] # None /\ ~tx'[c].stale => w \notin Range(tx[c].rows)
  <2>1. CASE tx[c] # None /\ w \in Range(tx[c].rows)
    <3>1. PICK s : s = [tx[c] EXCEPT !.stale = TRUE]
      OBVIOUS
    <3>2. tx[c] \in Transaction /\ tx[c].taken <= Len(tx[c].rows)
      BY <2>1 DEF BankInv, BankTypeOK, AllFit, Fits
    <3>3. /\ s \in Transaction /\ s.stale
          /\ s.kind = tx[c].kind /\ s.rows = tx[c].rows /\ s.taken = tx[c].taken
          /\ s.delta = tx[c].delta /\ s.ref = tx[c].ref /\ s.copy = tx[c].copy
      BY <3>1, <3>2, StaleCopy
    <3>4. tx'[c] = s /\ s # None
      BY <1>1, <2>1, <3>1, <3>3, BankAssumption
    <3> QED
      BY <2>1, <3>2, <3>3, <3>4 DEF GoesOn
  <2>2. CASE ~(tx[c] # None /\ w \in Range(tx[c].rows))
    <3>1. tx'[c] = tx[c]
      BY <1>1, <2>2
    <3>2. tx[c] # None => tx[c] \in Transaction /\ tx[c].taken <= Len(tx[c].rows)
      BY DEF BankInv, BankTypeOK, AllFit, Fits
    <3> QED
      BY <2>2, <3>1, <3>2 DEF GoesOn
  <2> QED
    BY <2>1, <2>2
<1>5. GoOn
  BY <1>1, <1>4 DEF GoOn
<1>6. ASSUME NEW c \in Slot, NEW v \in Wallet, tx'[c] # None, ~tx'[c].stale, v = tx[c].rows[1]
      PROVE  frozen'[v] <= frozen[v]
  <2>1. tx[c] \in Transaction
    BY <1>4, <1>6 DEF BankInv, BankTypeOK
  <2>2. tx[c].rows \in Seq(Row) /\ tx[c].rows # <<>>
    BY <2>1 DEF Transaction
  <2>3. 1 \in DOMAIN tx[c].rows
    BY <2>2
  <2>4. v \in Range(tx[c].rows)
    BY <1>6, <2>3 DEF Range
  <2> QED
    BY <1>2, <1>4, <1>6, <2>4
<1>7. ASSUME NEW r \in Row, NEW c \in Slot, lock'[r] = c
      PROVE  /\ tx'[c] # None
             /\ lock[r] = c \/ (tx'[c].taken > tx[c].taken /\ r = tx'[c].rows[tx'[c].taken])
  BY <1>3, <1>4, <1>7 DEF BankInv, BankTypeOK, GoesOn
<1>8. lock' \in [Row -> Slot \union {None}]
  BY <1>3 DEF BankInv, BankTypeOK
<1> QED
  BY <1>2, <1>3, <1>5, <1>6, <1>7, <1>8, GoOnKeeps

LEMMA TakeRowKeeps ==
  ASSUME BankInv, NEW c \in Slot, TakeRow(c)
  PROVE  BankInv' /\ GoOn
<1>1. /\ tx[c] # None /\ tx[c].taken # Len(tx[c].rows)
      /\ lock[NextRow(c)] = None /\ lock' = [lock EXCEPT ![NextRow(c)] = c]
      /\ tx' = [tx EXCEPT ![c].taken = @ + 1]
      /\ UNCHANGED <<balance, investment, interest, taskVars>> /\ frozen' = frozen
  BY DEF TakeRow, Whole, accountVars
<1>2. tx[c] \in Transaction /\ tx[c].taken <= Len(tx[c].rows) /\ tx[c].taken \in Nat
      /\ Len(tx[c].rows) \in Nat
  BY <1>1 DEF BankInv, BankTypeOK, AllFit, Fits, Transaction
<1>3. PICK s : s = [tx[c] EXCEPT !.taken = @ + 1]
  OBVIOUS
<1>4. /\ s \in Transaction /\ s.stale = tx[c].stale
      /\ s.kind = tx[c].kind /\ s.rows = tx[c].rows /\ s.taken = tx[c].taken + 1
      /\ s.delta = tx[c].delta /\ s.ref = tx[c].ref /\ s.copy = tx[c].copy
  BY <1>2, <1>3, TakenCopy
<1>5. tx' = [tx EXCEPT ![c] = s] /\ s # None
  BY <1>1, <1>3, <1>4, BankAssumption
<1>6. tx'[c] = s /\ tx' \in [Slot -> Transaction \union {None}] /\ \A d \in Slot \ {c} : tx'[d] = tx[d]
  BY <1>4, <1>5 DEF BankInv, BankTypeOK
<1>7. GoesOn(c)
  BY <1>1, <1>2, <1>4, <1>5, <1>6 DEF GoesOn
<1>8. \A d \in Slot \ {c} : tx[d] # None => GoesOn(d)
  BY <1>6 DEF GoesOn, BankInv, AllFit, Fits, BankTypeOK, Transaction
<1>9. GoOn
  BY <1>6, <1>7, <1>8 DEF GoOn
<1>10. NextRow(c) = s.rows[s.taken] /\ s.taken > tx[c].taken
  BY <1>2, <1>4 DEF NextRow
<1>11. ASSUME NEW r \in Row, NEW d \in Slot, lock'[r] = d
       PROVE  /\ tx'[d] # None
              /\ lock[r] = d \/ (tx'[d].taken > tx[d].taken /\ r = tx'[d].rows[tx'[d].taken])
  <2>1. CASE r = NextRow(c)
    BY <1>1, <1>5, <1>6, <1>10, <1>11, <2>1 DEF BankInv, BankTypeOK
  <2>2. CASE r # NextRow(c)
    <3>1. lock[r] = d
      BY <1>1, <1>11, <2>2 DEF BankInv, BankTypeOK
    <3>2. tx[d] # None
      BY <3>1 DEF BankInv, BankTypeOK
    <3> QED
      BY <1>5, <1>6, <3>1, <3>2
  <2> QED
    BY <2>1, <2>2
<1>12. lock' \in [Row -> Slot \union {None}] /\ frozen' \in [Wallet -> Nat]
  BY <1>1 DEF BankInv, BankTypeOK
<1>13. ASSUME NEW d \in Slot, NEW v \in Wallet, tx'[d] # None, ~tx'[d].stale, v = tx[d].rows[1]
       PROVE  frozen'[v] <= frozen[v]
  BY <1>1, <1>12
<1> QED
  BY <1>1, <1>9, <1>11, <1>12, <1>13, GoOnKeeps

LEMMA RollBackKeeps ==
  ASSUME BankInv, NEW c \in Slot, RollBack(c)
  PROVE  BankInv' /\ GoOn
<1>1. /\ tx' = [tx EXCEPT ![c] = None] /\ lock' = Unlock(c)
      /\ UNCHANGED <<balance, investment, interest, taskVars>> /\ frozen' = frozen
  BY DEF RollBack, accountVars
<1>2. /\ tx'[c] = None /\ tx' \in [Slot -> Transaction \union {None}]
      /\ \A d \in Slot \ {c} : tx'[d] = tx[d]
  BY <1>1 DEF BankInv, BankTypeOK
<1>3. \A d \in Slot \ {c} : tx[d] # None => GoesOn(d)
  BY <1>2 DEF GoesOn, BankInv, AllFit, Fits, BankTypeOK, Transaction
<1>4. GoOn
  BY <1>2, <1>3 DEF GoOn
<1>5. lock' \in [Row -> Slot \union {None}] /\ frozen \in [Wallet -> Nat] /\ frozen' \in [Wallet -> Nat]
  BY <1>1, UnlockIsTyped DEF BankInv, BankTypeOK
<1>6. ASSUME NEW r \in Row, NEW d \in Slot, lock'[r] = d
      PROVE  /\ tx'[d] # None
             /\ lock[r] = d \/ (tx'[d].taken > tx[d].taken /\ r = tx'[d].rows[tx'[d].taken])
  <2>1. lock[r] = d /\ d # c
    BY <1>1, <1>6, UnlockIsTyped DEF BankInv
  <2>2. tx[d] # None
    BY <2>1 DEF BankInv, BankTypeOK
  <2> QED
    BY <1>2, <2>1, <2>2
<1>7. ASSUME NEW d \in Slot, NEW v \in Wallet, tx'[d] # None, ~tx'[d].stale, v = tx[d].rows[1]
      PROVE  frozen'[v] <= frozen[v]
  BY <1>1, <1>5
<1> QED
  BY <1>1, <1>4, <1>5, <1>6, <1>7, GoOnKeeps

LEMMA CrashKeeps ==
  ASSUME BankInv, Crash
  PROVE  BankInv'
<1>1. /\ run' = None /\ tx' = [c \in Slot |-> None] /\ lock' = [r \in Row |-> None]
      /\ UNCHANGED <<balance, frozen, investment, interest, day, dayLock>>
  BY DEF Crash, accountVars
<1>2. \A c \in Slot : tx'[c] = None
  BY <1>1
<1>3. BankTypeOK'
  BY <1>1, BankAssumption DEF BankInv, BankTypeOK
<1>4. AllFit' /\ FreshAreCovered'
  BY <1>1, <1>2 DEF AllFit, FreshAreCovered
<1>5. DaysAreKept'
  BY <1>1, <1>2 DEF BankInv, DaysAreKept, Slot
<1> QED
  BY <1>3, <1>4, <1>5 DEF BankInv

-----------------------------------------------------------------------------
(* A commit. *)

\* The others go on; those whose wallet or row was written are stale.
LEMMA OthersGoOn ==
  ASSUME BankInv, NEW c \in Slot, tx[c] # None, Ends(c)
  PROVE  /\ GoOn /\ tx'[c] = None
         /\ \A d \in Slot \ {c} : tx[d] # None => tx'[d] # None
         /\ \A d \in Slot : tx'[d] # None /\ ~tx'[d].stale => tx[d].rows[1] \notin Range(tx[c].rows)
<1>1. tx' = [d \in Slot |->
              IF d = c THEN None
              ELSE IF tx[d] # None /\ MakesStale(c, d) THEN [tx[d] EXCEPT !.stale = TRUE]
              ELSE tx[d]]
  BY DEF Ends
<1>2. ASSUME NEW d \in Slot, d # c
      PROVE  /\ tx[d] = None => tx'[d] = None
             /\ tx[d] # None => GoesOn(d) /\ tx'[d] \in Transaction
             /\ tx'[d] # None /\ ~tx'[d].stale => tx[d].rows[1] \notin Range(tx[c].rows)
  <2>0. tx[d] # None => tx[d] \in Transaction /\ tx[d].taken <= Len(tx[d].rows)
    BY DEF BankInv, BankTypeOK, AllFit, Fits
  <2>1. CASE tx[d] # None /\ MakesStale(c, d)
    <3>1. PICK s : s = [tx[d] EXCEPT !.stale = TRUE]
      OBVIOUS
    <3>2. /\ s \in Transaction /\ s.stale
          /\ s.kind = tx[d].kind /\ s.rows = tx[d].rows /\ s.taken = tx[d].taken
          /\ s.delta = tx[d].delta /\ s.ref = tx[d].ref /\ s.copy = tx[d].copy
      BY <2>0, <2>1, <3>1, StaleCopy
    <3>3. tx'[d] = s /\ s # None
      BY <1>1, <1>2, <2>1, <3>1, <3>2, BankAssumption
    <3> QED
      BY <2>0, <2>1, <3>2, <3>3 DEF GoesOn
  <2>2. CASE ~(tx[d] # None /\ MakesStale(c, d))
    <3>1. tx'[d] = tx[d]
      BY <1>1, <1>2, <2>2
    <3> QED
      BY <2>0, <2>2, <3>1 DEF GoesOn, MakesStale
  <2> QED
    BY <2>1, <2>2
<1>3. tx'[c] = None
  BY <1>1
<1>4. GoOn
  BY <1>1, <1>2, <1>3 DEF GoOn
<1> QED
  BY <1>2, <1>3, <1>4 DEF GoesOn

\* What a commit writes has its type, and no investment is forgotten.
LEMMA CommitTypes ==
  ASSUME BankInv, NEW c \in Slot, Commit(c)
  PROVE  /\ balance' \in [Wallet -> Int] /\ investment' \in [Investment -> Bought \union {None}]
         /\ \A i \in Investment : investment[i] # None => investment'[i] # None
         /\ \A w \in Wallet : w \notin Range(tx[c].rows) => balance'[w] = balance[w]
<1>1. tx[c] # None /\ tx[c] \in Transaction /\ Fits(tx[c])
  BY DEF Commit, Whole, BankInv, BankTypeOK, AllFit
<1>2. PICK t : t = tx[c]
  OBVIOUS
<1>3. balance' = [w \in Wallet |-> balance[w] + t.delta[w]] /\ t.delta \in [Wallet -> Int]
  BY <1>1, <1>2 DEF Commit, Transaction
<1>4. /\ balance' \in [Wallet -> Int]
      /\ \A w \in Wallet : w \notin Range(tx[c].rows) => balance'[w] = balance[w]
  BY <1>1, <1>2, <1>3 DEF Fits, BankInv, BankTypeOK
<1>5. investment \in [Investment -> Bought \union {None}]
  BY DEF BankInv, BankTypeOK
<1>6. CASE t.kind \in {"invest", "withdraw"}
  <2>1. investment' = [investment EXCEPT ![t.ref] = t.copy]
    BY <1>2, <1>6 DEF Commit
  <2>2. t.ref \in Investment /\ t.copy \in Bought /\ t.copy # None
    BY <1>1, <1>2, <1>6, BankAssumption DEF Fits
  <2> QED
    BY <1>4, <1>5, <2>1, <2>2
<1>7. CASE t.kind = "interest"
  <2>1. investment' = [investment EXCEPT ![t.ref].profit = t.copy.profit + 1]
    BY <1>2, <1>7 DEF Commit
  <2>2. t.ref \in Investment /\ t.copy \in Bought /\ investment[t.ref] # None
    BY <1>1, <1>2, <1>7 DEF Fits
  <2>3. PICK p \in Nat : p = t.copy.profit + 1
    BY <2>2 DEF Bought
  <2>4. PICK r : r = [investment[t.ref] EXCEPT !.profit = p]
    OBVIOUS
  <2>5. r \in Bought /\ r # None
    BY <1>5, <2>2, <2>4, BankAssumption DEF Bought
  <2>6. investment' = [investment EXCEPT ![t.ref] = r]
    BY <2>1, <2>3, <2>4
  <2> QED
    BY <1>4, <1>5, <2>2, <2>5, <2>6
<1>8. CASE t.kind \notin {"invest", "withdraw", "interest"}
  <2>1. investment' = investment
    BY <1>2, <1>8 DEF Commit
  <2> QED
    BY <1>4, <1>5, <2>1
<1> QED
  BY <1>6, <1>7, <1>8

LEMMA CommitKeeps ==
  ASSUME BankInv, NEW c \in Slot, Commit(c)
  PROVE  BankInv'
<1>0. /\ BankTypeOK /\ AllFit /\ FreshAreCovered /\ DaysAreKept
      /\ UNCHANGED <<day, dayLock, run, frozen>> /\ tx[c] # None /\ Ends(c)
      /\ lock' = Unlock(c)
  BY DEF BankInv, Commit, Whole, taskVars, Ends
<1>1. /\ GoOn /\ tx'[c] = None
      /\ \A d \in Slot \ {c} : tx[d] # None => tx'[d] # None
      /\ \A d \in Slot : tx'[d] # None /\ ~tx'[d].stale => tx[d].rows[1] \notin Range(tx[c].rows)
  BY <1>0, OthersGoOn
<1>2. /\ balance' \in [Wallet -> Int] /\ investment' \in [Investment -> Bought \union {None}]
      /\ \A i \in Investment : investment[i] # None => investment'[i] # None
      /\ \A w \in Wallet : w \notin Range(tx[c].rows) => balance'[w] = balance[w]
  BY CommitTypes
<1>3. BankTypeOK'
  <2>1. lock' \in [Row -> Slot \union {None}]
    BY <1>0, UnlockIsTyped
  <2>2. ASSUME NEW r \in Row, NEW d \in Slot, lock'[r] = d
        PROVE  tx'[d] # None /\ r \in Range(Took(d))'
    <3>1. lock[r] = d /\ d # c
      BY <1>0, <2>2, UnlockIsTyped
    <3>2. tx'[d] # None
      BY <1>0, <1>1, <3>1 DEF BankTypeOK
    <3> QED
      BY <1>0, <1>1, <3>1, <3>2, LocksKeep
  <2> QED
    BY <1>0, <1>1, <1>2, <2>1, <2>2 DEF BankTypeOK, GoOn
<1>4. AllFit'
  <2>1. \A d \in Slot : tx'[d] # None => Fits(tx[d])' /\ (tx'[d].kind = "interest" <=> d = Task)
    BY <1>0, <1>1, <1>2, FitKeeps
  <2>2. run' # None /\ run'.todo # None => \A i \in ToPay' : investment'[i] # None
    BY <1>0, <1>2 DEF AllFit, ToPay
  <2> QED
    BY <2>1, <2>2 DEF AllFit
<1>5. FreshAreCovered'
  <2>1. ASSUME NEW d \in Slot, tx'[d] # None, ~tx'[d].stale, tx[d].rows[1] \in Wallet
        PROVE  /\ balance'[tx[d].rows[1]] = balance[tx[d].rows[1]]
               /\ frozen'[tx[d].rows[1]] <= frozen[tx[d].rows[1]]
    BY <1>0, <1>1, <1>2, <2>1 DEF BankTypeOK
  <2>2. frozen' \in [Wallet -> Nat]
    BY <1>0 DEF BankTypeOK
  <2> QED
    BY <1>0, <1>1, <2>1, <2>2, CoverKeeps
<1>6. DaysAreKept'
  <2>1. ToPay' = ToPay
    BY <1>0 DEF ToPay
  <2>2. CASE tx[c].kind = "interest"
    <3>1. c = Task
      BY <1>0, <2>2 DEF AllFit
    <3>2. interest' = interest \union {<<tx[c].ref, run.day, investment[tx[c].ref].status>>}
      BY <2>2 DEF Commit
    <3>3. /\ run # None /\ run.todo # None /\ tx[c].ref \notin ToPay /\ run.day \in dayLock
          /\ \A x \in interest : x[2] \in dayLock
          /\ \A i \in ToPay : ~Earned(i, run.day)
      BY <1>0, <3>1 DEF DaysAreKept, BankTypeOK
    <3>4. \A x \in interest' : x \in interest \/ (x[1] = tx[c].ref /\ x[2] = run.day)
      BY <3>2
    <3> QED
      BY <1>0, <1>1, <2>1, <3>1, <3>3, <3>4 DEF DaysAreKept, Earned
  <2>3. CASE tx[c].kind # "interest"
    <3>1. interest' = interest
      BY <2>3 DEF Commit
    <3>2. tx'[Task] # None => tx[Task] # None /\ tx'[Task].ref = tx[Task].ref
      BY <1>1 DEF GoOn, GoesOn, Slot
    <3> QED
      BY <1>0, <2>1, <3>1, <3>2 DEF DaysAreKept, Earned
  <2> QED
    BY <2>2, <2>3
<1> QED
  BY <1>3, <1>4, <1>5, <1>6 DEF BankInv

-----------------------------------------------------------------------------
LEMMA BankInitKeeps ==
  ASSUME BankInit
  PROVE  BankInv
<1> USE BankAssumption
<1>1. /\ balance \in [Wallet -> Nat] /\ frozen = [w \in Wallet |-> 0]
      /\ investment = [i \in Investment |-> None] /\ tx = [c \in Slot |-> None]
      /\ lock = [r \in Row |-> None] /\ day = 1 /\ dayLock = {} /\ run = None /\ interest = {}
  BY DEF BankInit
<1>2. \A c \in Slot : tx[c] = None
  BY <1>1
<1>3. BankTypeOK
  BY <1>1 DEF BankTypeOK
<1>4. AllFit /\ FreshAreCovered
  BY <1>1, <1>2 DEF AllFit, FreshAreCovered
<1>5. DaysAreKept
  BY <1>1, <1>2 DEF DaysAreKept, Slot
<1> QED
  BY <1>3, <1>4, <1>5 DEF BankInv

LEMMA BankNextKeeps ==
  ASSUME BankInv, [BankNext]_bankVars
  PROVE  BankInv'
<1>0. BankTypeOK /\ AllFit /\ DaysAreKept
  BY DEF BankInv
<1>1. CASE UNCHANGED bankVars
  BY <1>1, StutterKeeps DEF bankVars, accountVars, taskVars
<1>2. ASSUME NEW c \in Call,
             \/ Transfer(c) \/ HandleInlineTransferCallback(c) \/ ExecuteReceivePayment(c)
             \/ ExecuteExchange(c) \/ Invest(c) \/ Withdraw(c) \/ AdjustUserBalance(c)
      PROVE  BankInv'
  <2>1. PICK t : Begins(c, t) /\ t.kind # "interest"
    BY <1>0, <1>2, TransfersBegin, ExchangeBegins, FinanceBegins, AdjustBegins
  <2>2. c \in Slot /\ c # Task
    BY BankAssumption DEF Slot
  <2>3. UNCHANGED <<day, dayLock, run>>
    BY <1>2 DEF Transfer, HandleInlineTransferCallback, ExecuteReceivePayment, ExecuteTransfer,
                ExecuteExchange, Invest, Withdraw, AdjustUserBalance, taskVars
  <2> QED
    BY <2>1, <2>2, <2>3, BeginKeeps
<1>3. CASE RejectReceiveRequest
  BY <1>3, StutterKeeps DEF RejectReceiveRequest, taskVars
<1>4. CASE DistributeSingleProfit
  <2>1. PICK i \in ToPay : /\ \E t : Begins(Task, t) /\ t.kind = "interest" /\ t.ref = i
                          /\ run # None /\ run.todo # None
                          /\ run' = [run EXCEPT !.todo[i] = None]
    BY <1>0, <1>4, InterestBegins
  <2>2. day' = day /\ dayLock' = dayLock /\ Task \in Slot
    BY <1>4 DEF DistributeSingleProfit, Slot
  <2> QED
    BY <2>1, <2>2, BeginKeeps
<1>5. CASE ListingFails
  <2>1. /\ run # None /\ run.todo = None /\ run' = None
        /\ dayLock' = dayLock \/ dayLock' = dayLock \ {run.day}
        /\ UNCHANGED <<accountVars, tx, lock, day>>
    BY <1>5 DEF ListingFails
  <2>2. tx[Task] = None
    BY <1>0, <2>1 DEF DaysAreKept
  <2> QED
    BY <2>1, <2>2, RunEnds
<1>6. CASE EndRun
  BY <1>6, RunEnds DEF EndRun
<1>7. CASE DeadlockVictim
  BY <1>7, RollBackKeeps DEF DeadlockVictim
<1>8. CASE Database
  BY <1>7, <1>8, TakeRowKeeps, CommitKeeps, RollBackKeeps DEF Database
<1> QED
  BY <1>1, <1>2, <1>3, <1>4, <1>5, <1>6, <1>8, UnfreezeKeeps, FreezeKeeps, TakeDayLockKeeps,
     ListAllActiveKeeps, CrashKeeps, NextDayKeeps
     DEF BankNext, Service, ProfitTask

\* What stays true of the bank, and each part of it follows.
LEMMA BankInvHolds == BankSpec => []BankInv
<1>1. BankInit => BankInv
  BY BankInitKeeps
<1>2. BankInv /\ [BankNext]_bankVars => BankInv'
  BY BankNextKeeps
<1> QED
  BY <1>1, <1>2, PTL DEF BankSpec

\* Only a commit ends a transaction and changes an account.
LEMMA CommitsIsCommit ==
  ASSUME BankInv, [BankNext]_bankVars, NEW c \in Slot, Commits(c)
  PROVE  Commit(c)
<1>1. tx[c] # None /\ tx'[c] = None /\ accountVars' # accountVars
  BY DEF Commits, Whole
<1>2. ASSUME NEW d, NEW t, Begin(d, t) PROVE FALSE
  BY <1>1, <1>2 DEF Begin
<1>3. ~UNCHANGED accountVars /\ tx' # tx
  BY <1>1
<1>4. ASSUME FreezeBalance PROVE FALSE
  <2>1. PICK w \in Wallet :
        tx' = [d \in Slot |->
                   IF tx[d] # None /\ w \in Range(tx[d].rows)
                     THEN [tx[d] EXCEPT !.stale = TRUE] ELSE tx[d]]
    BY <1>4 DEF FreezeBalance
  <2>2. PICK s : s = [tx[c] EXCEPT !.stale = TRUE]
    OBVIOUS
  <2>3. s # None
    BY <1>1, <2>2, StaleCopy, BankAssumption DEF BankInv, BankTypeOK
  <2> QED
    BY <1>1, <2>1, <2>2, <2>3
<1>5. ASSUME NEW d \in Slot, Commit(d), d # c PROVE FALSE
  <2>1. tx[d] # None /\ Ends(d)
    BY <1>5 DEF Commit, Whole
  <2> QED
    BY <1>1, <1>5, <2>1, OthersGoOn
<1>6. ~Service
  BY <1>2, <1>3, <1>4 DEF Service, Transfer, HandleInlineTransferCallback, ExecuteReceivePayment,
     ExecuteTransfer, ExecuteExchange, Invest, Withdraw, AdjustUserBalance, RejectReceiveRequest,
     UnfreezeBalance
<1>7. ~ProfitTask /\ ~Crash /\ ~NextDay
  BY <1>2, <1>3 DEF ProfitTask, TakeDayLock, ListAllActive, ListingFails, DistributeSingleProfit,
     EndRun, Crash, NextDay
<1>8. Database
  BY <1>1, <1>3, <1>6, <1>7 DEF BankNext, bankVars
<1>9. \A d \in Slot : ~TakeRow(d) /\ ~RollBack(d)
  BY <1>3 DEF TakeRow, RollBack
<1> QED
  BY <1>5, <1>8, <1>9 DEF Database, DeadlockVictim

(* Every account, transaction, lock and run has its type, and a lock is    *)
(* held only by a transaction that took it and is still under way: nothing *)
(* that dies, fails or is a deadlock's victim leaves a row locked.         *)
THEOREM BankTypeCorrect == BankSpec => []BankTypeOK
<1>1. BankInv => BankTypeOK
  BY DEF BankInv
<1> QED
  BY <1>1, BankInvHolds, PTL

(* For any number of investments, days and slots, no investment earns      *)
(* twice for a day, whatever fails and whenever the bot dies.              *)
THEOREM BankInterestOncePerDay == BankSpec => InterestOncePerDay
<1>1. BankInv /\ [BankNext]_bankVars =>
        [\A c \in Slot : Commits(c) /\ tx[c].kind = "interest" =>
           \A x \in interest : ~(x[1] = tx[c].ref /\ x[2] = run.day)]_bankVars
  <2> SUFFICES ASSUME BankInv, NEW c \in Slot, Commits(c), tx[c].kind = "interest",
                      NEW x \in interest
               PROVE  ~(x[1] = tx[c].ref /\ x[2] = run.day)
    OBVIOUS
  <2>1. tx[c] # None
    BY DEF Commits, Whole
  <2>2. c = Task
    BY <2>1 DEF BankInv, AllFit
  <2> QED
    BY <2>1, <2>2 DEF BankInv, DaysAreKept, Earned
<1> QED
  BY <1>1, BankInvHolds, PTL DEF BankSpec, InterestOncePerDay

(* However transactions overlap, one whose wallet nobody changed since it  *)
(* looked leaves the frozen part of the wallet untouched: an overdraft     *)
(* takes a row that was read without a lock.                               *)
THEOREM BankFreshReadsNeverOverdraw == BankSpec => FreshReadsNeverOverdraw
<1>1. BankInv /\ [BankNext]_bankVars =>
        [\A c \in Slot :
           Commits(c) /\ ~tx[c].stale /\ tx[c].kind \in Overdrawing =>
             balance'[tx[c].rows[1]] >= frozen'[tx[c].rows[1]]]_bankVars
  <2> SUFFICES ASSUME BankInv, [BankNext]_bankVars, NEW c \in Slot, Commits(c), ~tx[c].stale,
                      tx[c].kind \in Overdrawing
               PROVE  balance'[tx[c].rows[1]] >= frozen'[tx[c].rows[1]]
    OBVIOUS
  <2>1. Commit(c) /\ tx[c] # None
    BY CommitsIsCommit DEF Commits, Whole
  <2>2. PICK w : w = tx[c].rows[1]
    OBVIOUS
  <2>3. w \in Wallet /\ balance[w] + tx[c].delta[w] >= frozen[w]
    BY <2>1, <2>2 DEF BankInv, FreshAreCovered, Covered
  <2>4. balance'[w] = balance[w] + tx[c].delta[w] /\ frozen' = frozen
    BY <2>1, <2>3 DEF Commit
  <2> QED
    BY <2>2, <2>3, <2>4
<1> QED
  BY <1>1, BankInvHolds, PTL DEF BankSpec, FreshReadsNeverOverdraw

===============================================================================
