# TLA+ models of the TG wallet bot

The repository is a custodial wallet in Telegram, written in Go. Users deposit
USDT and TRX on the TRON chain, withdraw them, pay each other with transfers,
receive requests and red packets, exchange currencies and buy a product that
earns daily interest; merchants keep API keys; an administration API reviews
withdrawals, users, merchants and rates. This directory holds TLA+ models of
these parts, the TLC configurations that check them on small instances, and
proofs of their main properties for every instance.

## The system

Two processes share one MySQL database (through GORM v2) and one Redis:

- the **bot** (`src/cmd/bot/main.go`): every Telegram update is handled in a
  goroutine of its own. Beside them run the deposit monitor, the exchange-rate
  updater (5 min), the interest task (1 h), the red packet expiry task (1 min),
  and goroutines that handlers start: `assignDepositAddress` for a new user
  and `processAutoWithdrawal` for a small withdrawal;
- the **admin API** (`src/cmd/api/main.go`): gin handlers on the same tables.

Nothing in memory is shared but the monitor's address cache; components meet
in rows of MySQL and in keys of Redis. Four habits of the code make the hard
behaviours:

- a row is read, judged, and written later, and the "row lock" of the
  transaction helpers (`transfer_service.go:257`) is a GORM v1 option that
  GORM v2 ignores: another actor comes between a reading and the write that
  rests on it;
- some sequences of statements are no transaction: a process stops, or a call
  fails or loses its answer, between two of them;
- small rows are written with `Save`, which writes every column of the copy:
  a call that overlaps takes back what another wrote to a different column;
- a dialogue keeps its parameters in a session that all dialogues of the user
  share, and a button works as long as its message exists; each write of the
  session is a GET of the whole JSON and a SET of the whole, without a lock,
  and the handlers of two updates run side by side.

### Inventory

| component | state | operations | hard behaviour | correct when |
|---|---|---|---|---|
| Deposit addresses (`app/user_usecase.go`, `service/user_service.go`) | users, wallets, wallet_keys; goroutine per new user | RegisterOrGet, assignDepositAddress | dies with the process, statements outside a transaction | a running assignment ends with an address; the monitor learns of it |
| Deposit monitor (`tron/monitor.go`) | last block in memory and in Redis, address cache, one scan | Start, scanNewBlocks (sequential, batch), processBlockData, handleDeposit, refreshes | restarts anywhere, missing blocks, backlog, stale cache | progress never passes a block unknowingly |
| Deposit service (`service/deposit_service.go`, `app/deposit_usecase.go`) | deposits, wallets, transactions | ProcessDeposit, updateConfirmations, creditDeposit, notification | eight statements, each may fail or lose its answer; rescans | paid at most once, status tells the truth, status only advances |
| Withdrawals (`service/withdrawal_service.go`, `app/withdrawal_usecase.go`, `tron/sender.go`) | withdrawals, wallet balance and frozen balance | Submit, Approve, Send, Complete, Fail | goroutine per withdrawal, lost broadcast answers, freeze and deduct in separate statements | status tells what was sent and deducted; settled stays settled |
| Withdrawal review (`app/admin_usecase.go`) | same rows, other process | approve, reject, complete by hand | judged before the transaction | same |
| TRON HTTP client (`tron/client.go`) | none | broadcast | answer lost after it took effect | |
| Red packets (`service/redpacket_service.go`, `task/redpacket_expiry.go`) | red_packets, red_packet_claims, wallets, Redis lock | create, claim, expire, close | lock that times out and has no owner; refunds without the lock; absolute writes from a copy | nobody is paid twice, a cent for every share, nothing is paid beyond the total |
| Transfers and receive requests (`service/transfer_service.go`, `app/transfer_usecase.go`, `handler/inline_query.go`) | wallets, transfers | ExecuteTransfer, CreateReceiveRequest, RejectReceiveRequest, ExecuteReceivePayment, claim of an inline transfer | balance judged on an unlocked row; row locks in opposite orders; a request keeps its status | money only moves; what is spent was there; every transaction ends |
| Exchange (`service/exchange_service.go`) | wallets, rate cache in Redis | Exchange, GetQuote | two wallets in one transaction; cached quotes | both legs or none; a stale quote is not used for ever |
| Exchange rate updater (`exchange/updater.go`) | exchange_rates, cache | refresh | writes and clears while handlers fill the cache | same |
| Finance products (`service/finance_service.go`, `task/finance_profit.go`) | finance_investments, wallets, Redis day lock | Invest, Withdraw, DistributeDailyProfits | day lock taken before the work; interest from a snapshot; status judged outside the transaction | interest once a day; shown profit is paid profit |
| Session store (`pkg/telegram/session.go`) | session JSON in Redis | Get, SetData, SetStep, SetStepWithData, Clear, expiry | GET and SET of the whole without a lock, handlers side by side, lost writes | a step finds its data as long as handlers do not meet |
| PIN pad (`handler/pin.go`, `service/user_service.go`) | digits in the session, PIN and limits in rows | set and verify key by key, lock-out, free limit | other dialogues, and other handlers, between question and answer | the steps behind the keypad are reached through it |
| Transfer and receive, withdrawal, exchange, finance and profile, red packet and merchant dialogues (`adapter/telegram/handler`) | session | steps, buttons, confirmations | old pages, shared keys, handlers that read the session again after they judged it | no money moves without the PIN, what a page showed is what is ordered |
| Menu and router (`adapter/telegram/router.go`, `handler/menu.go`) | session | dispatch, clearing | | |
| Rate limit and authentication of updates (`adapter/telegram/middleware.go`) | counter in Redis, users row | count, save a changed name | two commands, whole-row save | a blocked user is served again |
| Rows saved as a whole (`service/user_service.go`, `merchant_service.go`, `admin_service.go`, `profile_service.go`) | users, merchants, admin_users, user_settings | PIN counter, status, secret, password, limit | overlapping saves | what was decided last counts |
| Administration of balances and users (`app/admin_usecase.go`) | wallets, users | AdjustUserBalance, UpdateUserStatus, ResetUserPIN | adjustment judged on a stale row | same |
| HTTP API, configuration, start-up; front end | none of their own | wiring and parsing | | |

`PROJECT.json` lists the same components with what is modelled of each, and
every hazard at its line with the properties that would notice it.

## Modules

| module | what it models |
|---|---|
| `AddressCache` | registration, `assignDepositAddress`, the monitor's cache: queries, full or incremental, and the stamps that follow them, process start and death |
| `DepositService` | `ProcessDeposit`, one action per MySQL statement; EXTENDS `AddressCache` |
| `DepositMonitor` | chain, polling, scans, progress, restarts; EXTENDS `DepositService`, so it composes all three |
| `DepositLedger` | the abstract promise of the deposit pipeline: record once, pay at most once after recording, close after paying |
| `Withdrawal` | submission, automatic goroutine, administrators |
| `RedPacket` | one red packet, its claims, lock, expiry and closing |
| `Bank` | transactions of transfers, requests, inline transfers, exchange, finance and balance adjustment: reading, row locks, commit, rollback, deadlock; the interest task with its day lock |
| `Session` | one user's session, the handlers at work on it access by access, the orders under way and the pages shown |
| `PinPad` | setting and verifying a PIN, the lock, the free limit; EXTENDS `Session` |
| `TransferDialogue`, `WithdrawDialogue`, `ExchangeDialogue`, `FinanceDialogue`, `RedPacketDialogue`, `ShopDialogue` | the handlers of each dialogue; each EXTENDS `PinPad` |
| `Bot` | the dialogues together: updates, menu, router, expiry of the session, lost writes |
| `Records` | the rows of users, merchants, administrators and settings under whole-row saves |
| `ExchangeRates` | one currency pair's row and its cache entry |
| `RateLimit` | the counter of updates |
| `Upkeep` | `Records`, `ExchangeRates` and `RateLimit` together |
| `MCDepositMonitor`, `MCWithdrawal`, `MCRedPacket`, `MCBot`, `MCBank`, `MCUpkeep` | constants for TLC |
| `DepositProofs`, `WithdrawalProofs`, `RedPacketProofs`, `BankProofs`, `BankMoneyProofs`, `BotProofs`, `UpkeepProofs` | theorems |
| `SumLemmas` | lemmas about the sum of a function over a finite set, for the theorems about money |

Definitions keep the names of the code (`FindByTxHash`, `FreezeBalance`,
`SetNX`, `StartWithdraw`); `PROJECT.json` maps each to its lines. Common
conventions:

- **One action per statement** where the code is outside a transaction. Inside
  a transaction, one action where only the outcome matters (`RedPacket`), one
  per updated row where locks do (`Bank`).
- **`Faults`**: when TRUE any call to MySQL, Redis or the node may fail, in the
  deposit, withdrawal and red packet models also *after it took effect*, and
  the process may die. `Withdrawal` chooses in its initial state from `Faulty`,
  `RedPacket` chooses what may overlap from `Scene`: one run covers each
  choice, and a property that needs a choice says so.
- **`Use`** (`Bot`, `Bank`, `Upkeep`): the parts that move in one behaviour,
  chosen in the initial state. It bounds the state space; each choice is a
  subset of what the system may do, and the sets are picked so that every two
  parts that write the same state meet.
- **Counters instead of sums** for deposits and withdrawals (`credits`,
  `journal`, `sent`, `deducted`): "twice" is visible whatever the amounts are.
  Balances are sums where a guard compares them (withdrawals, red packets, the
  bank).
- **Ghost variables**, read by properties only: `skipped` and `unwatched` (what
  the monitor passes over knowingly), `visited`, `credits`, `creditedTo`,
  `sent`, `interest`, the field `stale` of a transaction, `page`,
  `approval`, `torn` and the keypad's `passed` of a conversation, the users
  that a stamp `passed` by in `AddressCache`, `met` of the withdrawals,
  `shaken`, `decided`, `newest` and `tries` of the rows.
- **Conditions.** Where the code keeps a promise only as long as certain actors
  do not overlap, the property names the condition, and a ghost says exactly
  when it is broken: `scene` (red packets), `met` (withdrawals), `stale` (a
  transaction of the bank), `shaken` (rows), `torn` (conversations). What then
  goes wrong is shown by a violated run where a comment of the code promises
  it, and listed under "Divergences".
- A definition whose comment begins with "Faulty variant" is part of no
  specification. It is a plausible mistake in the definition below it; put in
  its place it must violate the property that `PROJECT.json` "mutants" names.
  That shows that every property depends on the code.

### Deposits

`Start`, `ReadProgress`, `StampCache`, `ScanNewBlocks`, `OpenBlock`,
`FetchFails`, `IgnoreTransfer`, `HandleDeposit`, `RunDeposit`, `CloseBlock`,
`EndScan` follow the start and one poll of the
monitor. The monitor is one goroutine, so a `ProcessDeposit` call (`call`)
blocks it; registrations, the chain and a stop interleave anywhere. A rescan
comes from a restart with an older saved block. `Confirmations` is what the
receipt yields: distance to the head, or 3 when it yields nothing.

A refresh of the address cache is a query (`IncrementalRefresh`, `Start`) and,
later, the stamp `time.Now()` (`EndRefresh`, `StampCache`); wallets may be
created and addresses assigned in between. `newer` are the wallets created
since the stamp and `passed` the users whose wallets a stamp has made older
than itself although the query did not return their address: nothing but a
restart finds them again. `AssignedIsWatched` promises the others; the code
does not watch everybody.

Passing over is made explicit rather than forbidden: the cut of a backlog, the
first start at the head, a block without data, and an address outside the cache
are decisions of the code. `ProgressCovered` and `EveryTransferAnswered` say
that nothing else is lost.

`DepositMonitor!Ledger` maps a deposit row to the abstract record (Credited is
closed) and `credits` to `paid`; `ImplementsLedger` is checked and proved.

### Withdrawals

`task[w]` is the next statement of the bot for withdrawal `w`: submission
(`FindWallet` ... `UndoFreeze`) and then, below the threshold, the goroutine
(`FindPending` ... `SetCompleted`). An administrator reads (`AdminReads`) and
then acts in one transaction on what he read. Any number of administrators
may have a call on any withdrawal, automatic ones included, at any time.

`met` collects the withdrawals on which two actors have met: an administrator
reads a row while the goroutine still has statements to execute for it, while another
administrator's call on it is open, or after the bot has died between the
deduction and the status that would have told of it. From then on the statements
that write a status without looking at it (`withdrawal_service.go:288`,
`admin_usecase.go:559`) act on readings that need not hold. The properties say
what holds of a withdrawal until then, and what holds in any case (it is sent
at most once, and journalled at most as often as it is deducted). What happens
afterwards is shown by the violated run `withdrawal_twice`, and listed under
"Divergences".

### Red packets

`call[c]` is a running claim with its copy of the row, `task` the expiry task's
copy, `closing` the sender's. `scene` says what may happen: whether the lock
may expire under a claim and refunds may run between a claim's reading and its
write, or neither. Amounts are integers in units of 10^-8; `Cent` is 0.01 in
them, and totals that are no whole number of cents exercise the truncation.
`ClaimAmount` is the set of amounts `calculateClaimAmount` may return.
`UpdateSentStatus` has no caller, so Sent comes from the first claim only.

### Conversations

`session` is the JSON value of one user: module, step and a map of data keys
that several dialogues share (`amount` and `currency` are written by four of
them). The library handles each update in a goroutine of its own, so
`task[t]` is a handler at work, as a list of accesses that are left (`todo`):
`Get` is one round trip, a write two (`Fetches`, then `Stores` of the whole
session with what the write changes), `Clear` one, `Show` and `Submit` are a
page and an order at a service. What a handler decides between accesses is a
part of it (`Do`): `WithdrawNeedsPIN` looks at the session once and says which
accesses follow. Between any two of these steps other handlers take theirs,
so a handler overwrites what another stored, finds the session cleared, or
orders what it read after another changed it. `Expires` empties the session at
any time, which also stands for a Get that Redis does not answer; `Loses`
drops a write, as every handler ignores its error.

A callback is enabled whatever the session says unless the handler looks at
it, because an old message keeps its buttons; a text goes through the keypad
and `Dispatch` to the module that the session names, whose handler reads the
step again.

`page` remembers the last confirmation page of each kind and `approval` the
order for which the PIN was asked, and whether it was given. `passed` are the
steps the keypad went back to after a right PIN. `NeedPIN` is the code's
comparison with the free limit, which it makes for each amount alone.

The properties are of two sorts. `BehindKeypad` and `BotTypeOK` hold whatever
meets and whatever is lost: a session whose module and step are one of those
behind the keypad is there because the keypad took a right PIN and went back to
this step. It is about Transfer, Exchange, Finance, RedPacket, Shop and the
limit, which write that step nowhere else; the withdrawal and the payment of a
request write theirs before the PIN is known to be needed, which `bot_withdraw`
shows to go wrong. What the PIN was given *for*, what a page showed,
and that a step has its data, are not kept when handlers meet: the order is read
again after the PIN was judged, `transfer.go:269` and `:272` are two writes.
`PinGuardsMoney`, `ConfirmedAsShown`, `StepHasItsData` and `PinIsKept` are
therefore about a session that is not `torn`: since it was last empty with no
handler at work, no two handlers were at work at the same time (other than
waiting for a service), no write was lost and the key did not expire under one.
One handler at a time still means every button of every old page, in any order,
between any two steps of a dialogue.

### The bank

A transaction `tx[c]` holds the rows it will update in the order of its
statements, how many locks it has (`taken`), what it adds to each wallet and
the investment row it writes (`copy`). A service begins one when its checks
pass on the rows as they are (`Begin`); `TakeRow` takes the next lock if it is
free; `Commit` writes everything and marks the others that read one of these
rows `stale`; `RollBack` and `DeadlockVictim` write nothing. `FreezeBalance`
and `UnfreezeBalance` are single updates made for a withdrawal, which only this
module's frozen balances need to know. The interest task takes the day's key in
Redis, lists the active investments, and pays each in a transaction of its own;
a listing that fails returns the key, a bot that dies does not.

### Rows saved as a whole

A call reads a row (`Find`) and holds the changed copy in `work[c]`; `Update`
writes all of it. `shaken` collects the tables on which two calls overlapped or
a save failed: there the code promises nothing, and the first overlap undoes
whatever the other call did (a freeze, a PIN, a wrong try, a secret).
`version` stands for a secret, a password or a free limit: a value that must
not come back once it was replaced.

## Runs

| run | shows | bounds |
|---|---|---|
| `deposit_faults` | at most one credit, truthful and advancing status, no stale call, progress covered, cache sound and growing, implements the ledger; every call failing, one restart | 2 transfers (USDT, TRX), 1 user, 3 blocks, polls of at most 2 blocks, batch above 1, 2 of 4 confirmations required |
| `deposit_fair` | recorded when visited; every transfer answered; Confirmed is credited; an assignment ends and its user is watched, unless a stamp passed him by | 2 transfers, 1 user, no failing call, 1 restart, 5 blocks, 3 confirmations required |
| `deposit_currency` | violated: credited in its currency | 1 TRX transfer |
| `withdrawal` | status tells what happened to the money and settled stays settled, until two actors meet; never sent twice; without failures frozen is what open withdrawals hold and each automatic one is answered | 3 withdrawals: reviewed, left to a person by the sender, automatic; 1 administrator on any of them; behaviours in which every call may fail and the bot die, and behaviours without |
| `withdrawal_twice` | violated: a withdrawal that was rejected is not completed | 1 withdrawal, 2 administrators, no failures |
| `redpacket` | paid once, enough for the rest, expired is closed, whatever overlaps and fails; money is kept and closed stays closed when claims and refunds do not overlap | scene 1: 2 users, 3 claims (one user twice), 1 closing call, total 7 in half cents, 2 shares; scene 2: 3 users, 4 claims, totals 7 and 9, 1 to 3 shares; 11 is refused |
| `bot` | a step has its data, the PIN guards money and is kept, pages are what is ordered | 1 handler at a time, 2 PINs of 2 digits, 2 amounts, 2 currencies, 6 sets of one or two dialogues |
| `bot_overlap` | type, steps behind the keypad, whatever two handlers do to each other | 2 handlers, expiry and lost writes at any access, PINs of 1 digit, 1 amount above the limit, a request below it, 6 dialogues |
| `bot_withdraw` | violated: a withdrawal above the limit is executed after a PIN | as `bot_overlap`, withdrawals |
| `bank` | money only moves; no fresh overdraft; interest once a day and once more at most; shown profit is paid profit; everything ends | 2 users, amount 2 on a balance of 2, 1 request, 1 button, 1 investment, 2 handlers and the task, 3 days; 4 choices of services; every statement failing |
| `bank_overdraft` | violated: a checked balance is not overdrawn | transfers and requests |
| `upkeep` | what was decided counts where calls do not overlap; time heals | 2 calls, lock after 2 wrong PINs, 3 tries, 2 versions, 2 of 4 updates served, 2 prices, 2 spreads; 6 choices of parts |

**Why the bounds suffice.** `MaxBlocksPerPoll = 2` and `BatchThreshold = 1`
(100 and 5 in the code) make three blocks enough for the cut, a batch, a
partial batch and a sequential scan. One restart gives a rescan of recorded
deposits in every state; two transfers give two per block and one per block.
`MaxConf`, `MaxBlock`, `MaxRestarts` bound the state space only; `NoticeCap`
stops counting notifications. Five blocks with three confirmations let a
deposit be seen below, at and above the limit. One user is enough for the
address cache there: a stamp passes him by or not, whatever others do. Two claims of one user are needed for
the unique key, a second user for the copies of two claims to differ.

In the bot the amounts 1 and 2 lie on both sides of the free limit of USDT (1)
and above the one of TRX (0), so each dialogue goes with the PIN and without it
(a transfer or an exchange by its currency; a request is paid with the PIN in `bot` and without
it in `bot_overlap`); two PINs give a right and a wrong one; `PinLength = 2` (4
in the code, `pin.go:19`) gives an empty, a partial and a full keypad. `MCUse`
puts the dialogues together that share data keys (`amount` and `currency`:
Transfer with Receive, Exchange with a packet; the prompt for a remark beside a
packet), that both start the keypad and show a page (Receive with the
withdrawal), or that share the free limit (Profile with Finance, where the limit
is raised). Shop shares no key with another dialogue but those of the keypad.
`Paged` names the kinds whose pages are remembered.

In `bot_overlap` and `bot_withdraw` two handlers are at work. `Once` bounds
them: as soon as handlers have met, or Redis has failed (`torn`), an update or a
mishap begins only when no handler is at work, until the session is empty with
nobody at work, where a new conversation begins. So at most two handlers meet at
a time, once in a conversation, on everything that handlers one by one could
have led to; and from what they leave behind handlers go on one by one. Two are
enough for each of the hazards: one brings back what the other removed, reads
between two writes of the other, or is cleared between them. `Steady` is FALSE
there, so writes are lost and the key expires under a handler. Each behaviour
has one dialogue, beside the keypad and the menu, which all of them share. The
proofs have none of these bounds.

PINs and handlers are interchangeable, so `Symmetry` permutes them; no bot run
has a liveness property.

In the bank an amount of 2 on a balance of 2 can be spent once: two
transactions that both passed the check overdraw. Two users give the transfers
in opposite directions that deadlock; one investment beside the task gives
every order of interest and withdrawal; three days let a list of yesterday meet
today. `Use` keeps services apart that share no row and no check.

In `upkeep` two calls are the fewest that overlap; `MaxFail = 2` (5 in the code)
with three tries reaches the lock and goes past it; two versions are an old and
a new one. The parts share no variable, so each is explored alone.

In `withdrawal` three withdrawals, one of each kind, share one wallet and one
daily limit of 6: any one of the amounts 2, 3, 4 with the fee of 1 is accepted,
all three may be validated before one is frozen, and together they are too
much, so both the race and the refusal occur. One administrator meets the
goroutine on either of the automatic ones. Two who meet each other are in
`withdrawal_twice`; the theorems have any number of both.

**Deadlock** is checked in the deposit, red packet and bot runs. It is not
where nothing may be left to do: each withdrawal is submitted once, and the
days of the bank and the versions and tries of the rows are bounded. That no
transaction of the bank waits for ever is `EverythingEnds`.

**Fairness.** A goroutine of a running process keeps taking steps: weak fairness
of the monitor, of a running assignment, of a started submission, goroutine or
claim; the ticker gives weak fairness of `ListExpired`; Redis
drops keys in time (`LockExpires`, `CacheExpires`, `WindowEnds`); the time a PIN
is locked ends (`LockEnds`); a command that was sent is carried out or lost
(`SetExpiry` or `ExpiryIsLost`); a stopped bot is started again (`Start`). Users, administrators and the chain owe nothing, and no submission
has to be started.

Strong fairness is stated three times. `RefreshCache`: Go's `select` draws
among the tickers that are ready, so that of the cache is drawn again and again
although polls come in between. `RefundExpired`: the expiry task repeats it
every minute, and a transaction that is tried again and again does not fail for
ever. `TakeRow` of a transaction: MySQL hands a row lock to the waiting
transactions in turn, so one that waits is not passed over for ever.
`DeadlockVictim` is weakly fair since InnoDB looks for circles. The steps of a
run of the interest task are weakly fair, its start and the passing of days are
not. `ConfirmedIsCredited` allows for a restart, because the code does not take
up a Confirmed deposit again unless its confirmations grew.

## Divergences

Shown by a violated run, each with the line that says otherwise in
`PROJECT.json`:

1. `deposit_currency`: USDT and TRX wallets share an address and the lookup
   takes the first, so TRX is added to USDT.
2. `withdrawal_twice`: of two administrators who read a pending withdrawal, one
   rejects it and the other completes it.
3. `bot_withdraw`: `withdraw_need_pin` says "verified" before the step moves to
   the keypad, so the second tap of two executes the withdrawal without a PIN.
4. `bank_overdraft`: two transactions that read a wallet before either writes
   it both pass the check.

Met while modelling, contained in the models, with no run of their own:

- Nothing calls `AddAddress` (`monitor.go:533`, "新用户注册时调用，避免等待缓存刷新"),
  so a user whom the stamp of a refresh passed by is not watched until a restart.
- Rejecting a withdrawal adds the amount to `balance` (`admin_usecase.go:534`,
  "退回冻结金额到可用余额"), which still contained it.
- A processing withdrawal may be completed by hand (`admin_usecase.go:556`)
  although the bot, before it died, had sent and deducted it.
- The step `execute_pay` is written before the keypad is entered
  (`receive.go:328`, "PIN 验证完成后执行付款" at `:108`), so a text that is handled
  in between pays a request above the free limit without a PIN.
- No statement after a payment changes the receive request
  (`transfer_usecase.go:150`), so it is still pending and is paid again.
- A deposit recorded below the required confirmations is visited again only by
  a rescan, which normal operation never does.
- Completing a withdrawal unfreezes before it deducts; a submission in between
  may freeze the same money, and the available balance becomes negative.
- Closing a red packet judges a copy; a packet that was claimed from or expired
  meanwhile is refunded on top.
- The daily free limit is never used up: nothing writes `DailySpent`, so
  `NeedPINForAmount` compares each amount alone.
- The branch of the keypad that tells how many tries are left is never reached:
  `VerifyPIN` returns an error with every wrong PIN, so the handler clears the
  session and says that the account is locked.
- The button "继续操作" after a PIN sends `Transfer--pin_verified`,
  `Receive--execute_pay`, `Exchange--pin_verified` or
  `Profile--adjust_limit_pin`, which the callback handlers of these modules do
  not know. The order goes on when the user sends any text: the text handlers
  know these steps.
- The buttons that leave the prompt for a remark or for a merchant's field
  leave the step as it was: the next text still answers the prompt. A chosen
  cover stays in the session for the next packet.
- Transfers, exchanges and investments judge whether a PIN is needed for one
  reading of the session and order what a later reading says; a handler that
  meets them in between changes the order (`torn`).
- Two administrators, or one and the goroutine, who meet on a withdrawal both
  act: it is deducted twice, or its amount released twice (`met`).
- Transfer pages and orders are read from keys that other dialogues write;
  without a PIN, the transfer that is sent may differ from the page that was
  confirmed. `ConfirmedAsShown` therefore names the kinds for which it holds.
- An inline transfer leaves no record before it is taken and may be taken
  repeatedly. The deep link that should start a payment (`/start pay--...`)
  never reaches `inline_pay.go`, because the router registers `/start` as an
  exact match.
- An investment that is withdrawn while the task works on its list earns once
  more; two overlapping withdrawals pay the principal twice. The loser of a
  row-lock deadlock with the task is not paid that day.
- A save that overlaps with another undoes a freeze, a PIN reset, a wrong try, a
  secret, a password or a limit (`shaken`).
- The key of the rate limit has no expiry when the second command is lost; the
  user stays blocked.
- An administrator cannot switch a currency pair off: the column has a default
  of true, which GORM writes instead of false.
- `AdjustUserBalance` looks at `balance` without what is frozen and writes no
  journal row.

## Proofs

TLAPS proves, for all values of the constants that satisfy the modules'
assumptions, the properties below. A property that holds only while certain
actors do not overlap carries its condition in its statement, and the theorem
says no more than that: `scene` in `MoneyIsKept` and `ClosedStaysClosed`, `met`
(and no faults) in `TellsMoney`, `FinalIsFinal` and `FrozenIsHeld`, the field
`stale` in `FreshReadsNeverOverdraw`, `shaken` in `KeptUnlessShaken`, `faults`
in `VisitedMeansRecorded`. The two theorems about conversations carry none.

**`DepositProofs`.** `TypeCorrect`; `CreditedAtMostOnce`, `StatusIsTruthful`,
`CallIsNeverStale`, `RecordsOnlyAdvance`, `PipelineImplementsLedger`,
`ProgressIsCovered`, `VisitedIsRecorded`; for the address cache on its own
`CacheIsSound` and `CacheKeepsAddresses`, and `MonitorKeepsCache` for the whole
pipeline, which implements it (`MonitorImplementsCache`). The argument:

- `TypeInv` adds to the type that no transfer lies above the head, which makes
  a reported number of confirmations natural.
- The money properties are not inductive one by one. `BooksInv` joins them
  with `CallAgreesWithRow`, which ties the next statement of the call to the
  row and the counters, and with `AbsentRows`. Since only the one call
  writes, each statement finds what the previous one left; a lost answer or a
  stop ends the call and leaves a row whose status blocks a second payment.
- `RecordsOnlyAdvance` and `PipelineImplementsLedger` are step lemmas under
  this invariant.
- `ScanInv` says that the blocks between the progress and the current scan
  position are visited or skipped, in each mode; `ProgressIsCovered` follows.
- `VisitedIsRecorded` needs `LookInv`: no block looked at, or still to look at,
  lies above the head, so the chain adds no transfer to it later; and while a
  block is open and no call fails, each of its transfers is still on the list,
  answered, or in the one call whose next statements write its record. A block
  is closed only between two calls, and a stop leaves it open.

**`WithdrawalProofs`.** `WTypeCorrect`, `WithdrawalStatusIsTruthful`,
`WithdrawalFinalIsFinal` and `FrozenIsHeldHolds`, with any number of
withdrawals and administrators, whichever rows they read and whenever. `Books`
gives for each next statement of the bot the status and counters it finds, and
for an administrator's open call that what he read still holds, as long as
nobody has met on the withdrawal; so a statement that writes a status without
looking at it does not meet a settled one. The part about `sent` and `journal`
needs no such condition, since only the goroutine sends.
`FrozenIsHeldHolds` adds `FrozenInv`: without faults nothing is ever undone
after an insert, and until two actors meet the frozen balance is the sum of
what the withdrawals hold. Each step keeps what is held, takes one amount or
gives one back, and the sum changes by that one term (`SumAdd`, `SumRemove`);
so the balance never goes below what a withdrawal is about to release.

**`RedPacketProofs`.** `RTypeCorrect`, `EnoughForTheRestHolds` and
`ClaimIsPaidHolds`, whatever claims, expiry and closings overlap, fail or
outlive their lock; `MoneyIsKeptHolds` and `ClosedStaysClosedHolds` for the
scenes in which they keep apart, which is part of these properties (without it
they are false). Any number of users, calls and closings, any totals and
counts from 1 to 100, any `Cent`.

- The lemmas about `ClaimAmount` come first: a share of a random packet is at
  least a cent and leaves a cent for each of the others (`RandomShare`), and so
  is a share of an equal one.
- `RInv` carries this over the concurrent copies. It says of every copy that is
  held, and not only of the row, that it has a cent for each share that is left
  and has the terms the packet was made with. Since a claim computes from its
  copy and writes absolute values, the row then has it too, however stale the
  copy is.
- `AInv` is for claims and refunds that keep apart. `KeptApart`: the lock is
  held while a claim runs, so at most one runs; a refund excludes claims that
  hold a copy and other refunds; every copy is still the row. `Ledger`: balance
  and claimed amount add up to what was there, and the claimed amount is the
  sum of what was paid.

**`BankProofs`.** `BankTypeCorrect`, `BankInterestOncePerDay` and
`BankFreshReadsNeverOverdraw`, with any number of users, slots, investments
and days, statements that fail and a bot that dies at any moment. The invariant
`BankInv` has four parts:

- `BankTypeOK`, which includes that a row's lock is held only by a transaction
  under way that took it;
- `AllFit`: a transaction adds only to wallets among its rows, and interest is
  paid by the task alone, for an investment that exists;
- `FreshAreCovered`: for a transaction that is not stale the check of the
  balance it made when it began is still true. Money that others add or freeze
  does not go behind its back: a commit or a freeze on its wallet makes it
  stale;
- `DaysAreKept`: a day for which interest was paid has its key in Redis, what
  the running distribution has still to pay has not earned for its day, and
  what it is paying is no longer to be paid.

`Begins` says once how a service starts a transaction and `GoesOn` how one
continues, so each action needs only a lemma that it is of one of these kinds
or commits. `CommitsIsCommit` then reduces the action properties to `Commit`.

**`BankMoneyProofs`.** `BankMoneyOnlyMoves`, `BankShowsWhatItEarned` and
`BankEarnsAtMostOnceMore`, on top of `BankInv`. `MoneyInv` has these parts:

- `AllShaped`: what a transaction is going to add to the wallets is worth
  nothing (transfers, payments) or exactly the principal its copy of the
  investment says (investing, withdrawing), the copy of a withdrawal that is
  not stale still has the row's amount, and the copy of an interest payment has
  the row's profit as long as the row is held;
- `InvestAlone`: an inserted investment is known to its transaction alone;
- `ListIsFresh`: the distribution's list has the profit of every investment
  that is still held, since only the task pays interest;
- `Unpaid`, `LateInterest`: interest belongs to an investment that exists, and
  one that earned after it was taken out is off the list and not being paid,
  so it cannot earn a third time;
- `ShowsWhatItEarned` itself.

A commit then changes `Worth` by the sum of its `delta` and by one term of the
principal; `SumUpdate` and `SumAdds` evaluate both.

**`BotProofs`.** `BotTypeCorrect` and `BotBehindKeypad`, for any number of
handlers at work, any dialogues, amounts, currencies, PINs and PIN lengths,
whatever overlaps, is lost or expires. A session that is stored is a mixture of
an old copy and a new write, so an invariant about `session` alone is not
inductive. `BotIInv` says the same of all three places where a session may be:

- `Core(passed)`: of `session` itself and of the copy that a handler holds
  between fetching and storing, that it has its keys, a possible number of
  digits, and that a step behind the keypad is among the `passed` ones
  (`SessionOK`); of the accesses that a handler has left (`TaskOK`, `TodoOK`,
  `EntryOK`), that each write of a module and step keeps to that (`DataOK`), and
  that the part which follows the keypad, `pin_return`, is there after a right
  PIN only. While a handler waits for a service only what may then follow is
  left (`Patient`).
- `PageOK` and `RowOK`: a page is of its own kind, and the types of the PIN,
  the lock, the limits and the requests.

`Fresh` empties `passed`: then the session is empty and no handler holds a copy,
so nothing of the old conversation can come back. There is one lemma per kind of
access and one per part of a handler.

**`UpkeepProofs`.** `UpkeepTypeCorrect`, and `RowsAreKept` for
`KeptUnlessShaken`, with any number of calls, PINs, versions and tries. That
alone is not inductive, because what counts is in a copy while a call is
between its reading and its save. `Kept` adds, for a table that was not
shaken, that at most one call holds a row of it (`OnlyOne`); that the number of
tries belongs to the count in the row, or to the one in the copy while a call
holds one (`PinRight`); that a copy carries the decided status unless it is
the one that decides; and that a version is at most the ones issued, and a new
one newer than what was saved. `Opens` states how a call begins, and each
call of the code is shown to begin so.

**`SumLemmas`.** Adding an element to a set, removing one, and changing one
value of a function change a sum by one term. The library's induction over
finite sets cannot be used here, because it takes an operator as its parameter;
the lemmas are proved by the smallest counterexample instead (`SumsAgree`,
`SumsExist`).

**Assumptions.** The named assumptions of the modules only say what kind of
value a constant is, that the sets that are summed over are finite, that the
keys of a dialogue are among the keys of the session, and that values that
stand for "nothing" are none of the others; `MaxConf >= DefaultConf` and
`MaxConf >= MaxBlock` keep a bound of the model away from the numbers the
monitor reports. None is about behaviour.

**Model-checked only**: liveness under fairness (`EveryTransferAnswered`,
`ConfirmedIsCredited`, `AssignedIsWatched`, `AutoIsAnswered`,
`ExpiredIsRefunded`, `EverythingEnds`, `TimeHeals`), which is beyond the prover; and of the conversations `StepHasItsData`, `PinGuardsMoney`,
`ConfirmedAsShown` and `PinIsKept`, whose proof for sessions that are not `torn`
is next in the plan. Every other invariant and action property that a passing
run checks is also a theorem.

## Not modelled

Encoding, signing and the gRPC/HTTP clients beyond "done, failed, or done with
the answer lost"; message texts, keyboards and pages without state (lists,
bills, histories, receipts); recovery and logging of the middleware;
configuration, wiring, and the authentication of API requests; the front end;
statistics. The audit log is an insert nothing reads back; it may be lost when
the request is cancelled. A chain reorganisation is not modelled: the monitor
does not handle one.

These operations have no caller in `src/` and are left out: approval and
rejection of a merchant by an administrator, `ResetAPIKey`, the change of a PIN,
`UpdateSentStatus`, `RejectWithdrawal` of the service, `AddAddress` of the
monitor; and the dialogue of `inline_pay.go`, which is not reached.

A half-written registration is not followed further: the user is known and
every service answers him with an error. The daily limit of withdrawals
is checked before the row that counts against it exists; the model contains
that race and states no property of it, since the code does not keep the limit.
The balances of `Withdrawal`, `RedPacket` and `Bank` are separate variables:
each models the others' effect on a wallet, where it matters, by a step of its
own (freezing in `Bank`).

## Plan

1. `PinGuardsMoney`, `StepHasItsData`, `ConfirmedAsShown` and `PinIsKept` as
   theorems about sessions that are not `torn`: while that holds at most one
   handler is at work, so what it has read is still what the session says, and
   the invariant ties its list of accesses to the order the PIN was asked for.
2. An abstract red packet (created, shares taken one at a time, closed once)
   and a proof that `RedPacket` implements it in the scenes that keep apart.
3. An abstract conversation for `Bot` (asked, confirmed, approved, executed) and
   the refinement, of which `PinGuardsMoney` is a part.
