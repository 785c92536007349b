--------------------------------- MODULE Bank ---------------------------------
(***************************************************************************)
(* Money that moves inside the bot: transfers, payments of requests, the   *)
(* transfers taken from an inline message, exchanges, investments and      *)
(* their daily interest, and the balances the admin API adjusts.           *)
(*                                                                         *)
(* Each is one transaction of MySQL.  It reads the wallet first; GORM v2   *)
(* ignores the option that was to lock the row, so the check of the        *)
(* balance is about a row other transactions may still change.  A row is   *)
(* locked when the transaction updates it, in the order of the statements, *)
(* until all of it is committed or rolled back; nobody sees it before.     *)
(***************************************************************************)
EXTENDS Integers, Sequences, FiniteSets, FiniteSetsExt

CONSTANTS User, Currency,
          None,          \* no transaction, no copy of a row
          Call,          \* slots of the handlers
          Task,          \* the slot of FinanceProfitTask
          InitialBalance,
          Amount,        \* amounts of transfers, exchanges and investments
          Rate,          \* toAmount for a unit of fromAmount, by direction
          Request,       \* records [payer, payee, amount, currency]
          Button,        \* inline messages: records [sender, amount, currency]
          Investment,    \* ids of finance_investments
          Adjustment,    \* bound: amounts an administrator adds
          MaxDay,        \* bound on the days
          Use,           \* bound: which services are called in one behaviour
          Faults         \* TRUE: a statement may fail and the bot may die

Slot   == Call \union {Task}
Wallet == User \X Currency
Row    == Wallet \union Investment

\* The rows of finance_investments.
Bought == [user : User, amount : Nat, status : {"Holding", "Withdrawn"},
           profit : Nat, bought : Nat]

\* The transactions that services begin; List is what the task works from.
Transaction ==
  [kind  : {"transfer", "pay", "exchange", "invest", "withdraw", "adjust", "interest"},
   rows  : Seq(Row) \ {<<>>},
   taken : Nat,
   delta : [Wallet -> Int],
   ref   : Request \union Investment \union {None},
   copy  : Bought \union {None},
   stale : BOOLEAN]

List == [Investment -> Bought \union {None}]

Distribution == [day : Nat, todo : List \union {None}]

ASSUME BankAssumption ==
  /\ IsFiniteSet(User) /\ IsFiniteSet(Currency) /\ IsFiniteSet(Investment)
  /\ Task \notin Call
  /\ "USDT" \in Currency
  /\ InitialBalance \in [Wallet -> Nat]
  /\ Amount \subseteq Nat \ {0}
  /\ Adjustment \subseteq Int
  /\ DOMAIN Rate \subseteq Currency \X Currency /\ Rate \in [DOMAIN Rate -> Nat]
  /\ Request \subseteq [payer : User, payee : User, amount : Nat \ {0}, currency : Currency]
  /\ Button \subseteq [sender : User, amount : Nat \ {0}, currency : Currency]
  /\ MaxDay \in Nat
  /\ Use \subseteq SUBSET {"transfer", "request", "exchange", "finance", "admin", "freeze"}
  /\ Faults \in BOOLEAN
  /\ None \notin Slot \union Bought \union Transaction \union List \union Distribution

VARIABLES balance,     \* wallets.balance
          frozen,      \* wallets.frozen_balance
          investment,  \* the finance_investments rows
          request,     \* transfers.status of the requests
          tx,          \* the transaction of each slot
          lock,        \* who holds a row's lock
          day,         \* today
          dayLock,     \* the days whose key finance:profit:lock is set
          run,         \* the distribution under way
          interest,    \* <<id, day, status>>: the interest that was paid
          using        \* the services of this behaviour

accountVars == <<balance, frozen, investment, request, interest>>
taskVars    == <<day, dayLock, run, using>>
bankVars    == <<accountVars, tx, lock, taskVars>>

BankInit ==
  /\ balance = InitialBalance
  /\ frozen = [w \in Wallet |-> 0]
  /\ investment = [i \in Investment |-> None]
  /\ request = [q \in Request |-> "Pending"]
  /\ tx = [c \in Slot |-> None]
  /\ lock = [r \in Row |-> None]
  /\ day = 1
  /\ dayLock = {}
  /\ run = None
  /\ interest = {}
  /\ using \in Use

-----------------------------------------------------------------------------
(* A transaction: the rows it updates, in this order; what it adds to the  *)
(* balances; the request or investment it is about, and the row of that    *)
(* as it was read.  It is stale once one of these rows has changed since   *)
(* it was read.                                                            *)

Tx(kind, rows, delta, ref, copy) ==
  [kind |-> kind, rows |-> rows, taken |-> 0, delta |-> delta,
   ref |-> ref, copy |-> copy, stale |-> FALSE]

Begin(c, t) ==
  /\ tx[c] = None
  /\ tx' = [tx EXCEPT ![c] = t]
  /\ UNCHANGED <<accountVars, lock>>

\* Faulty variant: what is frozen for withdrawals is spent.
SufficientWithFrozen(w, a) == balance[w] >= a

HasSufficientBalance(w, a) == balance[w] - frozen[w] >= a

Adds(wallet, a) == [w \in Wallet |-> IF w = wallet THEN a ELSE 0]

\* Money from one wallet to another.
Move(kind, from, to, a, b, ref) ==
  Tx(kind, <<from, to>>, [w \in Wallet |-> Adds(to, b)[w] - Adds(from, a)[w]], ref, None)

-----------------------------------------------------------------------------
(* Transfers. *)

ExecuteTransfer(c, kind, from, to, currency, a, ref) ==
  /\ HasSufficientBalance(<<from, currency>>, a)
  /\ Begin(c, Move(kind, <<from, currency>>, <<to, currency>>, a, a, ref))
  /\ UNCHANGED taskVars

Transfer(c) ==
  \E u, v \in User, currency \in Currency, a \in Amount :
    u # v /\ ExecuteTransfer(c, "transfer", u, v, currency, a, None)

(* The button of an inline message carries sender, amount and currency;    *)
(* there is no record of it, so that nothing tells a second press from     *)
(* the first.                                                              *)
HandleInlineTransferCallback(c) ==
  \E b \in Button, v \in User :
    v # b.sender /\ ExecuteTransfer(c, "transfer", b.sender, v, b.currency, b.amount, None)

\* The status is read before the transaction, which does not write it.
ExecuteReceivePayment(c) ==
  \E q \in Request :
    /\ request[q] = "Pending"
    /\ ExecuteTransfer(c, "pay", q.payer, q.payee, q.currency, q.amount, q)

\* RejectReceiveRequest, which finds the row and saves it.
RejectReceiveRequest ==
  \E q \in Request :
    /\ request[q] = "Pending"
    /\ request' = [request EXCEPT ![q] = "Rejected"]
    /\ UNCHANGED <<balance, frozen, investment, interest, tx, lock, taskVars>>

-----------------------------------------------------------------------------
(* Exchanges and investments. *)

ExecuteExchange(c) ==
  \E u \in User, d \in DOMAIN Rate, a \in Amount :
    /\ HasSufficientBalance(<<u, d[1]>>, a)
    /\ Begin(c, Move("exchange", <<u, d[1]>>, <<u, d[2]>>, a, a * Rate[d], None))
    /\ UNCHANGED taskVars

Holding(u, a) ==
  [user |-> u, amount |-> a, status |-> "Holding", profit |-> 0, bought |-> day]

\* The row is inserted after the wallet was updated.
Invest(c) ==
  \E u \in User, i \in Investment, a \in Amount :
    /\ investment[i] = None /\ lock[i] = None
    /\ \A d \in Slot : tx[d] # None => tx[d].ref # i
    /\ HasSufficientBalance(<<u, "USDT">>, a)
    /\ Begin(c, Tx("invest", <<<<u, "USDT">>, i>>, Adds(<<u, "USDT">>, -a), i, Holding(u, a)))
    /\ UNCHANGED taskVars

(* Withdraw reads the investment before the transaction; the transaction   *)
(* saves the whole row, then updates the wallet.                           *)
Withdraw(c) ==
  \E i \in Investment :
    /\ investment[i] # None
    /\ investment[i].status = "Holding"
    /\ Begin(c, LET row == investment[i]
                    w   == <<row.user, "USDT">>
                IN  Tx("withdraw", <<i, w>>, Adds(w, row.amount), i,
                       [row EXCEPT !.status = "Withdrawn"]))
    /\ UNCHANGED taskVars

(* AdjustUserBalance checks against the balance, the frozen part included, *)
(* and writes no journal.                                                  *)
AdjustUserBalance(c) ==
  \E w \in Wallet, a \in Adjustment :
    /\ balance[w] + a >= 0
    /\ Begin(c, Tx("adjust", <<w>>, Adds(w, a), None, None))
    /\ UNCHANGED taskVars

\* FreezeBalance: one statement that checks what it changes.
FreezeBalance ==
  \E w \in Wallet, a \in Amount :
    /\ lock[w] = None
    /\ balance[w] >= frozen[w] + a
    /\ frozen' = [frozen EXCEPT ![w] = @ + a]
    /\ tx' = [c \in Slot |->
                IF tx[c] # None /\ w \in Range(tx[c].rows)
                  THEN [tx[c] EXCEPT !.stale = TRUE] ELSE tx[c]]
    /\ UNCHANGED <<balance, investment, request, interest, lock, taskVars>>

UnfreezeBalance ==
  \E w \in Wallet, a \in Amount :
    /\ lock[w] = None
    /\ frozen[w] >= a
    /\ frozen' = [frozen EXCEPT ![w] = @ - a]
    /\ UNCHANGED <<balance, investment, request, interest, tx, lock, taskVars>>

-----------------------------------------------------------------------------
(* What becomes of a transaction. *)

NextRow(c)  == tx[c].rows[tx[c].taken + 1]
Took(c)   == SubSeq(tx[c].rows, 1, tx[c].taken)
Whole(c)  == tx[c] # None /\ tx[c].taken = Len(tx[c].rows)
Unlock(c) == [r \in Row |-> IF lock[r] = c THEN None ELSE lock[r]]

\* An UPDATE takes the lock of its row.
TakeRow(c) ==
  /\ tx[c] # None /\ ~Whole(c)
  /\ lock[NextRow(c)] = None
  /\ lock' = [lock EXCEPT ![NextRow(c)] = c]
  /\ tx' = [tx EXCEPT ![c].taken = @ + 1]
  /\ UNCHANGED <<accountVars, taskVars>>

\* The row a transaction read and relies on is the one it updates first.
MakesStale(c, d) == tx[d].rows[1] \in Range(tx[c].rows)

Ends(c) ==
  /\ tx' = [d \in Slot |->
              IF d = c THEN None
              ELSE IF tx[d] # None /\ MakesStale(c, d) THEN [tx[d] EXCEPT !.stale = TRUE]
              ELSE tx[d]]
  /\ lock' = Unlock(c)

\* Nothing before is seen by the others.
Commit(c) ==
  LET t == tx[c]
  IN  /\ Whole(c)
      /\ Ends(c)
      /\ balance' = [w \in Wallet |-> balance[w] + t.delta[w]]
      /\ investment' =
           CASE t.kind \in {"invest", "withdraw"} -> [investment EXCEPT ![t.ref] = t.copy]
             [] t.kind = "interest" ->
                  [investment EXCEPT ![t.ref].profit = t.copy.profit + 1]
             [] OTHER -> investment
      /\ interest' = IF t.kind = "interest"
                       THEN interest \union {<<t.ref, run.day, investment[t.ref].status>>}
                       ELSE interest
      /\ UNCHANGED <<frozen, request, taskVars>>

\* Faulty variant: the locks outlive the transaction.
RollBackKeepsLocks(c) ==
  /\ tx[c] # None
  /\ tx' = [tx EXCEPT ![c] = None]
  /\ UNCHANGED <<accountVars, lock, taskVars>>

\* Faulty variant: the balances are not updated in the transaction.
RollBackKeepsUpdates(c) ==
  /\ tx[c] # None
  /\ balance' = [w \in Wallet |-> IF w \in Range(Took(c)) THEN balance[w] + tx[c].delta[w]
                                                         ELSE balance[w]]
  /\ tx' = [tx EXCEPT ![c] = None]
  /\ lock' = Unlock(c)
  /\ UNCHANGED <<frozen, investment, request, interest, taskVars>>

\* A statement fails, or MySQL chooses this one of a circle.
RollBack(c) ==
  /\ tx[c] # None
  /\ tx' = [tx EXCEPT ![c] = None]
  /\ lock' = Unlock(c)
  /\ UNCHANGED <<accountVars, taskVars>>

Circle(S) ==
  /\ \A c \in S : tx[c] # None /\ ~Whole(c)
  /\ {lock[NextRow(c)] : c \in S} = S

DeadlockVictim ==
  \E S \in SUBSET Slot \ {{}} :
    /\ Circle(S)
    /\ \E c \in S : RollBack(c)

-----------------------------------------------------------------------------
(* FinanceProfitTask.  A run has the day it took the lock of and, once     *)
(* they are listed, the investments still to be paid, as they were read.   *)

\* Faulty variant: the key of the day is looked at, but not set.
TakeDayLockOnlyLooks ==
  /\ run = None
  /\ day \notin dayLock
  /\ run' = [day |-> day, todo |-> None]
  /\ UNCHANGED <<accountVars, tx, lock, day, dayLock, using>>

TakeDayLock ==
  /\ run = None
  /\ day \notin dayLock
  /\ dayLock' = dayLock \union {day}
  /\ run' = [day |-> day, todo |-> None]
  /\ UNCHANGED <<accountVars, tx, lock, day, using>>

\* Faulty variant: investments that were taken out are listed too.
ActiveOrNot == {i \in Investment : investment[i] # None}

Active == {i \in Investment : investment[i] # None /\ investment[i].status = "Holding"}

(* An investment of yesterday earns when 24 hours have passed, which     *)
(* depends on the hour of the run.                                         *)
ListAllActive ==
  /\ run # None /\ run.todo = None
  /\ \E due \in SUBSET {i \in Active : investment[i].bought < run.day} :
       /\ \A i \in Active : investment[i].bought < run.day - 1 => i \in due
       /\ run' = [run EXCEPT !.todo =
                    [i \in Investment |-> IF i \in due THEN investment[i] ELSE None]]
  /\ UNCHANGED <<accountVars, tx, lock, day, dayLock, using>>

ToPay == {i \in Investment : run.todo[i] # None}

\* Listing is the only failure that gives the day back, if Redis does.
ListingFails ==
  /\ Faults
  /\ run # None /\ run.todo = None
  /\ dayLock' \in {dayLock, dayLock \ {run.day}}
  /\ run' = None
  /\ UNCHANGED <<accountVars, tx, lock, day, using>>

\* Faulty variant: the sum is computed without the profit so far.
DistributeFromZero ==
  /\ run # None /\ run.todo # None
  /\ \E i \in ToPay :
       LET row == run.todo[i]
           w   == <<row.user, "USDT">>
       IN  /\ Begin(Task, Tx("interest", <<w, i>>, Adds(w, 1), i, [row EXCEPT !.profit = 0]))
           /\ run' = [run EXCEPT !.todo[i] = None]
  /\ UNCHANGED <<day, dayLock, using>>

\* The next of the list, whatever became of the one before.
DistributeSingleProfit ==
  /\ run # None /\ run.todo # None
  /\ \E i \in ToPay :
       LET row == run.todo[i]
           w   == <<row.user, "USDT">>
       IN  /\ Begin(Task, Tx("interest", <<w, i>>, Adds(w, 1), i, row))
           /\ run' = [run EXCEPT !.todo[i] = None]
  /\ UNCHANGED <<day, dayLock, using>>

\* Faulty variant: the key of the day is deleted when the work is done.
EndRunGivesDayBack ==
  /\ run # None /\ run.todo # None
  /\ ToPay = {}
  /\ tx[Task] = None
  /\ dayLock' = dayLock \ {run.day}
  /\ run' = None
  /\ UNCHANGED <<accountVars, tx, lock, day, using>>

EndRun ==
  /\ run # None /\ run.todo # None
  /\ ToPay = {}
  /\ tx[Task] = None
  /\ run' = None
  /\ UNCHANGED <<accountVars, tx, lock, day, dayLock, using>>

\* The bot dies: its transactions are rolled back, the day's key stays.
Crash ==
  /\ Faults
  /\ run # None
  /\ run' = None
  /\ tx' = [c \in Slot |-> None]
  /\ lock' = [r \in Row |-> None]
  /\ UNCHANGED <<accountVars, day, dayLock, using>>

NextDay ==
  /\ "finance" \in using
  /\ day < MaxDay
  /\ day' = day + 1
  /\ UNCHANGED <<accountVars, tx, lock, dayLock, run, using>>

-----------------------------------------------------------------------------
Service ==
  \/ \E c \in Call :
       \/ "transfer" \in using /\ (Transfer(c) \/ HandleInlineTransferCallback(c))
       \/ "request" \in using /\ ExecuteReceivePayment(c)
       \/ "exchange" \in using /\ ExecuteExchange(c)
       \/ "finance" \in using /\ (Invest(c) \/ Withdraw(c))
       \/ "admin" \in using /\ AdjustUserBalance(c)
  \/ "request" \in using /\ RejectReceiveRequest
  \/ "freeze" \in using /\ (FreezeBalance \/ UnfreezeBalance)

Database ==
  \/ \E c \in Slot : \/ TakeRow(c)
                     \/ Commit(c)
                     \/ Faults /\ RollBack(c)
  \/ DeadlockVictim

ProfitTask ==
  \/ "finance" \in using /\ TakeDayLock
  \/ ListAllActive
  \/ ListingFails
  \/ DistributeSingleProfit
  \/ EndRun

BankNext == Service \/ Database \/ ProfitTask \/ Crash \/ NextDay

BankSpec == BankInit /\ [][BankNext]_bankVars

(* A transaction that can go on does, the database resolves circles, and   *)
(* the distribution goes on until its list is empty.  Nobody has to start  *)
(* anything.                                                               *)
BankFairSpec ==
  /\ BankSpec
  /\ \A c \in Slot : SF_bankVars(TakeRow(c)) /\ WF_bankVars(Commit(c))
  /\ WF_bankVars(DeadlockVictim)
  /\ WF_bankVars(ListAllActive \/ ListingFails)
  /\ WF_bankVars(DistributeSingleProfit)
  /\ WF_bankVars(EndRun)

-----------------------------------------------------------------------------
BankTypeOK ==
  /\ balance \in [Wallet -> Int] /\ frozen \in [Wallet -> Nat]
  /\ investment \in [Investment -> Bought \union {None}]
  /\ tx \in [Slot -> Transaction \union {None}]
  /\ lock \in [Row -> Slot \union {None}]
  /\ day \in Nat \ {0} /\ dayLock \subseteq 1 .. day
  /\ run \in Distribution \union {None} /\ (run # None => run.day \in dayLock)
  /\ \A r \in Row, c \in Slot : lock[r] = c => tx[c] # None /\ r \in Range(Took(c))

Commits(c) == Whole(c) /\ tx'[c] = None /\ accountVars' # accountVars

Overdrawing == {"transfer", "pay", "exchange", "invest"}

(* What is spent was there: a transaction whose wallet nobody changed      *)
(* since it looked leaves what is frozen for withdrawals untouched.  (One  *)
(* that is stale may take the balance below zero.)                         *)
FreshReadsNeverOverdraw ==
  [][\A c \in Slot :
       Commits(c) /\ ~tx[c].stale /\ tx[c].kind \in Overdrawing =>
         balance'[tx[c].rows[1]] >= frozen'[tx[c].rows[1]]]_bankVars

(* The same without the excuse, as the comments of the transactions say:   *)
(* the wallet is read and locked, then its balance is checked.             *)
NoOverdraft ==
  [][\A c \in Slot :
       Commits(c) /\ tx[c].kind \in Overdrawing => balance'[tx[c].rows[1]] >= 0]_bankVars

Principal == [i \in Investment |-> IF i \in Active THEN investment[i].amount ELSE 0]

Worth == SumFunctionOnSet(balance, Wallet) + SumFunctionOnSet(Principal, Investment)

(* Money only moves: whatever fails or dies half-way, the wallets and the  *)
(* principal of the investments together change by an exchange, an         *)
(* adjustment or a day's interest; only two withdrawals of an investment   *)
(* that overlap pay the principal back twice.                              *)
MoneyOnlyMoves ==
  [][Worth' # Worth =>
       \E c \in Slot : /\ Commits(c)
                       /\ \/ tx[c].kind \in {"exchange", "adjust", "interest"}
                          \/ tx[c].kind = "withdraw" /\ tx[c].stale]_bankVars

(* No investment earns twice for a day, though the bot may die and start   *)
(* again within it and a failed listing gives the day back.                *)
InterestOncePerDay ==
  [][\A c \in Slot : Commits(c) /\ tx[c].kind = "interest" =>
       \A x \in interest : ~(x[1] = tx[c].ref /\ x[2] = run.day)]_bankVars

InterestOf(i) == {x \in interest : x[1] = i}

(* Interest is paid from the list the run began with; an investment that   *)
(* was taken out meanwhile earns once more, and never again.               *)
EarnsAtMostOnceMore ==
  \A i \in Investment : Cardinality({x \in InterestOf(i) : x[3] = "Withdrawn"}) <= 1

(* The profit an investment shows is the interest that was paid for it, as *)
(* long as it is held: the update writes the sum it computed from the list *)
(* and Withdraw saves the whole row it read.                               *)
ShowsWhatItEarned ==
  \A i \in Active : investment[i].profit = Cardinality(InterestOf(i))

(* Transfers in both directions, and interest beside a withdrawal, lock    *)
(* rows in opposite orders; still every transaction ends, and so does      *)
(* every distribution.                                                     *)
EverythingEnds ==
  /\ \A c \in Slot : tx[c] # None ~> tx[c] = None
  /\ run # None ~> run = None
===============================================================================
