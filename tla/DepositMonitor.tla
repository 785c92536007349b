--------------------------- MODULE DepositMonitor ---------------------------
(***************************************************************************)
(* tron.DepositMonitor: the goroutine that scans the TRON chain for        *)
(* transfers to deposit addresses and hands each one to ProcessDeposit.    *)
(*                                                                         *)
(* Every poll it compares the chain head with the last processed block,    *)
(* which it keeps in memory (lastBlock) and in Redis (savedBlock).  A few  *)
(* blocks behind it fetches them one by one and saves after each; further  *)
(* behind it fetches them in one call and saves once at the end; too far   *)
(* behind it skips blocks.  It survives failures of every call and         *)
(* restarts at any point.                                                  *)
(***************************************************************************)
EXTENDS DepositService

CONSTANTS MaxBlocksPerPoll,  \* maxBlocksPerPoll (100 in the code)
          BatchThreshold,    \* batchThreshold (5 in the code)
          MaxBlock,          \* bound: height of the chain
          MaxRestarts        \* bound: how often the process stops

ASSUME MonitorAssumption ==
  /\ MaxBlocksPerPoll \in Nat \ {0}
  /\ BatchThreshold \in Nat
  /\ MaxBlock \in Nat \ {0}
  /\ MaxRestarts \in Nat

\* The confirmations handleDeposit assumes when the receipt reports none.
DefaultConf == 3

ASSUME ConfAssumption == MaxConf >= DefaultConf /\ MaxConf >= MaxBlock

VARIABLES head,        \* height of the chain
          block,       \* the block a transfer is in, 0 before it is sent
          lastBlock,   \* local variable of Start: last processed block
          savedBlock,  \* Redis tron:monitor:last_block, 0 when absent
          scan,        \* the running scanNewBlocks call
          visited,     \* blocks whose transactions were all looked at
          skipped,     \* blocks passed over: backlog, first start, no data
          unwatched,   \* transfers passed over: address not in the cache
          restarts     \* how often the process stopped

monitorVars == <<head, block, lastBlock, savedBlock, scan, visited, skipped,
                 unwatched, restarts>>

vars == <<addrVars, depositVars, monitorVars>>

(* mode: starting, sequential or batch; left: the blocks still to process; *)
(* current: the open block, 0 if none; txs: its transfers still to look    *)
(* at; latest: the last block processed by this call, 0 if none.           *)
NoScan == [mode |-> "idle", left |-> {}, current |-> 0, txs |-> {}, latest |-> 0]

Height == 0 .. MaxBlock

TypeOK ==
  /\ AddrTypeOK
  /\ DepositTypeOK
  /\ head \in Height
  /\ block \in [Tx -> Height]
  /\ lastBlock \in Height
  /\ savedBlock \in Height
  /\ scan \in [mode : {"idle", "starting", "sequential", "batch"}, left : SUBSET Height,
               current : Height, txs : SUBSET Tx, latest : Height]
  /\ visited \subseteq Height
  /\ skipped \subseteq Height
  /\ unwatched \subseteq Tx
  /\ restarts \in 0 .. MaxRestarts

Init ==
  /\ AddrInit
  /\ DepositInit
  /\ head = 1
  /\ block = [t \in Tx |-> 0]
  /\ lastBlock = 0
  /\ savedBlock = 0
  /\ scan = NoScan
  /\ visited = {}
  /\ skipped = {}
  /\ unwatched = {}
  /\ restarts = 0

-----------------------------------------------------------------------------
(* The chain (external): blocks are appended, a block holds transfers of   *)
(* users who were given an address.                                        *)
NewBlock(ts) ==
  /\ head < MaxBlock
  /\ \A t \in ts : block[t] = 0 /\ account[To[t]] = "assigned"
  /\ head' = head + 1
  /\ block' = [t \in Tx |-> IF t \in ts THEN head + 1 ELSE block[t]]
  /\ UNCHANGED <<addrVars, depositVars, lastBlock, savedBlock, scan, visited,
                 skipped, unwatched, restarts>>

(* Registration goes on beside the monitor. *)
EnrolUser(u) ==
  /\ Enrol(u)
  /\ UNCHANGED <<depositVars, monitorVars>>

-----------------------------------------------------------------------------
(* saveLastProcessedBlock only logs an error. *)
Save(n) == savedBlock' = n \/ (Faults /\ UNCHANGED savedBlock)

(* Start asks for the addresses first ...                                  *)
Start ==
  /\ AddrUp
  /\ scan' = [NoScan EXCEPT !.mode = "starting"]
  /\ UNCHANGED <<depositVars, head, block, lastBlock, savedBlock, visited, skipped,
                 unwatched, restarts>>

(* ... then it continues behind the saved block, or, with none saved,      *)
(* behind the current head.                                                *)
ReadProgress ==
  /\ up
  /\ scan.mode = "starting"
  /\ query = "none"
  /\ scan' = NoScan
  /\ \/ /\ savedBlock # 0
        /\ lastBlock' = savedBlock
        /\ UNCHANGED <<savedBlock, skipped>>
     \/ /\ savedBlock = 0
        /\ lastBlock' = head
        /\ Save(head)
        /\ skipped' = skipped \union ((1 .. head) \ visited)
     \/ /\ Faults   \* Redis cannot be read, or neither can the head
        /\ \/ /\ lastBlock' = 0
              /\ UNCHANGED <<savedBlock, skipped>>
           \/ /\ lastBlock' = head
              /\ Save(head)
              /\ skipped' = skipped \union ((1 .. head) \ visited)
  /\ UNCHANGED <<addrVars, depositVars, head, block, visited, unwatched, restarts>>

Idle == up /\ scan.mode = "idle" /\ query = "none" /\ ~Calling

(* The cache ticker; the select loop runs it only between two polls.       *)
RefreshCache ==
  /\ Idle
  /\ IncrementalRefresh
  /\ UNCHANGED <<depositVars, monitorVars>>

\* The running refresh ends; until then the goroutine does nothing else.
StampCache ==
  /\ EndRefresh
  /\ UNCHANGED <<depositVars, monitorVars>>

\* Faulty variant: the block after the last processed one is left out.
ScanNewBlocksOneOff ==
  /\ Idle
  /\ head > lastBlock
  /\ scan' = [NoScan EXCEPT !.mode = "sequential", !.left = (lastBlock + 2) .. head]
  /\ UNCHANGED <<addrVars, depositVars, head, block, lastBlock, savedBlock,
                 visited, skipped, unwatched, restarts>>

(* scanNewBlocks: nothing when the head is not ahead; a backlog above      *)
(* MaxBlocksPerPoll is cut to the newest blocks; the rest is fetched in    *)
(* one call when it is longer than BatchThreshold.  A failed range fetch   *)
(* falls back to one by one; a range may come back with blocks missing.    *)
ScanNewBlocks ==
  /\ Idle
  /\ head > lastBlock
  /\ LET first == IF head - lastBlock > MaxBlocksPerPoll
                    THEN (head + 1) - MaxBlocksPerPoll ELSE lastBlock + 1
         range == first .. head
         Run(mode, blocks) ==
           scan' = [NoScan EXCEPT !.mode = mode, !.left = blocks]
     IN  /\ skipped' = skipped \union (((lastBlock + 1) .. (first - 1)) \ visited)
         /\ IF (head - first) + 1 > BatchThreshold
              THEN \/ Run("batch", range)
                   \/ Faults /\ \E got \in SUBSET range : Run("batch", got)
                   \/ Faults /\ Run("sequential", range)
              ELSE Run("sequential", range)
  /\ UNCHANGED <<addrVars, depositVars, head, block, lastBlock, savedBlock,
                 visited, unwatched, restarts>>

Scanning == up /\ scan.mode \in {"sequential", "batch"} /\ ~Calling

BetweenBlocks == Scanning /\ scan.current = 0

\* Blocks are taken in ascending order.
IsNext(n) == n \in scan.left /\ \A m \in scan.left : n <= m

(* The next block of the scan is at hand: processBlockData begins.         *)
OpenBlock(n) ==
  /\ BetweenBlocks
  /\ IsNext(n)
  /\ scan' = [scan EXCEPT !.current = n, !.txs = {t \in Tx : block[t] = n}]
  /\ UNCHANGED <<addrVars, depositVars, head, block, lastBlock, savedBlock,
                 visited, skipped, unwatched, restarts>>

(* One by one: a block that cannot be fetched ends the scan, to be tried   *)
(* again by the next poll; one that comes back without data is passed.     *)
FetchFails(n) ==
  /\ Faults
  /\ BetweenBlocks
  /\ scan.mode = "sequential"
  /\ IsNext(n)
  /\ \/ /\ scan' = NoScan
        /\ UNCHANGED <<lastBlock, savedBlock, skipped>>
     \/ /\ scan' = [scan EXCEPT !.left = @ \ {n}]
        /\ lastBlock' = n
        /\ Save(n)
        /\ skipped' = skipped \union ({n} \ visited)
  /\ UNCHANGED <<addrVars, depositVars, head, block, visited, unwatched, restarts>>

(* processTRXFromData and processTRC20FromData: a transfer to an address   *)
(* outside the cache is passed over.                                       *)
IgnoreTransfer(t) ==
  /\ Scanning
  /\ t \in scan.txs
  /\ To[t] \notin addrCache
  /\ scan' = [scan EXCEPT !.txs = @ \ {t}]
  /\ unwatched' = unwatched \union {t}
  /\ UNCHANGED <<addrVars, depositVars, head, block, lastBlock, savedBlock,
                 visited, skipped, restarts>>

(* handleDeposit: the confirmations are the receipt's, the distance of the *)
(* block to the head; DefaultConf when there is no receipt or no distance. *)
Confirmations(t) == {DefaultConf} \union ({head - block[t]} \ {0})

HandleDeposit(t) ==
  /\ Scanning
  /\ t \in scan.txs
  /\ To[t] \in addrCache
  /\ \E conf \in Confirmations(t) : Begin(t, conf)
  /\ scan' = [scan EXCEPT !.txs = @ \ {t}]
  /\ UNCHANGED <<addrVars, deposits, credits, creditedTo, journal, notices, head,
                 block, lastBlock, savedBlock, visited, skipped, unwatched, restarts>>

RunDeposit ==
  /\ up
  /\ ProcessDeposit
  /\ UNCHANGED <<addrVars, monitorVars>>

\* Faulty variant: the block is closed with transfers still to look at.
CloseBlockEarly ==
  /\ Scanning
  /\ scan.current # 0
  /\ scan' = [scan EXCEPT !.left = @ \ {scan.current}, !.current = 0,
                          !.txs = {}, !.latest = scan.current]
  /\ visited' = visited \union {scan.current}
  /\ IF scan.mode = "sequential"
       THEN lastBlock' = scan.current /\ Save(scan.current)
       ELSE UNCHANGED <<lastBlock, savedBlock>>
  /\ UNCHANGED <<addrVars, depositVars, head, block, skipped, unwatched, restarts>>

(* All transfers of the block were looked at, whatever became of them.  In *)
(* sequential mode the progress moves and is saved at once.                *)
CloseBlock ==
  /\ Scanning
  /\ scan.current # 0
  /\ scan.txs = {}
  /\ scan' = [scan EXCEPT !.left = @ \ {scan.current}, !.current = 0,
                          !.latest = scan.current]
  /\ visited' = visited \union {scan.current}
  /\ IF scan.mode = "sequential"
       THEN lastBlock' = scan.current /\ Save(scan.current)
       ELSE UNCHANGED <<lastBlock, savedBlock>>
  /\ UNCHANGED <<addrVars, depositVars, head, block, skipped, unwatched, restarts>>

\* Faulty variant: the progress is one block too far.
BatchProgressTooFar ==
  /\ lastBlock' = scan.latest + 1
  /\ Save(scan.latest + 1)
  /\ skipped' = skipped \union (((lastBlock + 1) .. scan.latest) \ visited)

\* Faulty variant: the progress is the head, whatever came back.
BatchProgressToHead ==
  /\ lastBlock' = head
  /\ Save(head)
  /\ skipped' = skipped \union (((lastBlock + 1) .. scan.latest) \ visited)

(* The scan is over.  In batch mode the progress moves only now, to the    *)
(* last block that came back; blocks missing before it are passed.         *)
BatchProgress ==
  /\ lastBlock' = scan.latest
  /\ Save(scan.latest)
  /\ skipped' = skipped \union (((lastBlock + 1) .. scan.latest) \ visited)

EndScan ==
  /\ BetweenBlocks
  /\ scan.left = {}
  /\ scan' = NoScan
  /\ IF scan.mode = "batch" /\ scan.latest > 0
       THEN BatchProgress ELSE UNCHANGED <<lastBlock, savedBlock, skipped>>
  /\ UNCHANGED <<addrVars, depositVars, head, block, visited, unwatched, restarts>>

(* The process stops.  A context cancelled between two blocks of a batch   *)
(* still tries to save the progress; anywhere else, and in a crash, the    *)
(* memory is lost as it is.                                                *)
Stop ==
  /\ restarts < MaxRestarts
  /\ restarts' = restarts + 1
  /\ AddrDown
  /\ DropCall
  /\ scan' = NoScan
  /\ lastBlock' = 0
  /\ \/ UNCHANGED <<savedBlock, skipped>>
     \/ /\ BetweenBlocks
        /\ scan.mode = "batch"
        /\ scan.latest > 0
        /\ savedBlock' = scan.latest
        /\ skipped' = skipped \union (((lastBlock + 1) .. scan.latest) \ visited)
  /\ UNCHANGED <<head, block, visited, unwatched>>

Monitor ==
  \/ ReadProgress
  \/ RefreshCache
  \/ StampCache
  \/ ScanNewBlocks
  \/ \E n \in Height : OpenBlock(n) \/ FetchFails(n)
  \/ \E t \in Tx : IgnoreTransfer(t) \/ HandleDeposit(t)
  \/ RunDeposit
  \/ CloseBlock
  \/ EndScan

Next ==
  \/ \E ts \in SUBSET Tx : NewBlock(ts)
  \/ \E u \in User : EnrolUser(u)
  \/ Start
  \/ Monitor
  \/ Stop

Spec == Init /\ [][Next]_vars

(* The monitor is one goroutine of a running process, so it keeps taking   *)
(* steps, and so does the one that assigns an address; a stopped bot is    *)
(* started again.  Its select draws among the tickers that are ready, so   *)
(* that of the cache is drawn again and again.  Neither users nor the      *)
(* chain owe anybody a step.                                               *)
FairSpec ==
  /\ Spec
  /\ WF_vars(Monitor)
  /\ WF_vars(Start)
  /\ SF_vars(RefreshCache)
  /\ \A u \in User : WF_vars(Assign(u) /\ UNCHANGED <<depositVars, monitorVars>>)

-----------------------------------------------------------------------------
(* Safety. *)

(* However often a block is scanned again after crashes, lost answers and  *)
(* failed statements, the amount of a transfer is added to a balance at    *)
(* most once (ProcessDeposit's duplicate check).                           *)
AtMostOnce == \A t \in Tx : credits[t] <= 1

(* The status column tells the truth about the money: nothing was paid or  *)
(* journalled before Confirmed, and Credited means paid exactly once and   *)
(* journalled exactly once; in between the journal is never ahead of the   *)
(* balance.                                                                *)
StatusTellsMoney ==
  \A t \in Tx :
    /\ deposits[t].status \in {"none", "Pending"} => credits[t] = 0 /\ journal[t] = 0
    /\ deposits[t].status = "Credited" => credits[t] = 1 /\ journal[t] = 1
    /\ journal[t] <= credits[t]

(* Between two statements of a call the row it works on is still as the    *)
(* call left it: what it is about to do is done for the first time.        *)
CallAgreesWithRow ==
  LET row   == deposits[call.tx]
      money == <<credits[call.tx], journal[call.tx]>>
  IN  /\ call.pc \in {"FindWallet", "Create"} => row.status = "none"
      /\ call.pc = "UpdateConfirmations" => /\ row.status \in {"Pending", "Confirmed"}
                                           /\ row.conf < call.conf
      /\ call.pc = "SetConfirmed" => row.status = "Pending"
      /\ call.pc \in {"FindWalletAgain", "UpdateBalance"} =>
           row.status = "Confirmed" /\ money = <<0, 0>>
      /\ call.pc = "CreateTransaction" => row.status = "Confirmed" /\ money = <<1, 0>>
      /\ call.pc = "SetCredited" => row.status = "Confirmed" /\ money = <<1, 1>>

(* Neither the progress in memory nor the one in Redis ever moves past a   *)
(* block that was not looked at, except blocks the code passes over        *)
(* knowingly: the backlog cut, the first start, blocks without data.       *)
ProgressCovered ==
  (1 .. lastBlock) \union (1 .. savedBlock) \subseteq visited \union skipped

(* While no call fails, a block counts as looked at only when each of its  *)
(* transfers to a watched address has a deposit record, restarts or not.   *)
VisitedMeansRecorded ==
  ~Faults => \A t \in Tx : block[t] \in visited =>
                t \in unwatched \/ deposits[t].status # "none"

(* A deposit record only moves forward: Pending, Confirmed, Credited, and  *)
(* its confirmations never shrink, even when a rescan reports fewer.       *)
StatusRank(s) == CASE s = "none" -> 0 [] s = "Pending" -> 1
                   [] s = "Confirmed" -> 2 [] s = "Credited" -> 3

RecordsMoveForward ==
  [][\A t \in Tx : /\ StatusRank(deposits[t].status) <= StatusRank(deposits'[t].status)
                   /\ deposits[t].conf <= deposits'[t].conf]_deposits

(* The pipeline implements the ledger it promises.                         *)
Ledger == INSTANCE DepositLedger WITH
  record <- [t \in Tx |-> CASE deposits[t].status = "none" -> "none"
                            [] deposits[t].status = "Credited" -> "closed"
                            [] OTHER -> "open"],
  paid <- credits

ImplementsLedger == Ledger!Spec

-----------------------------------------------------------------------------
(* Liveness, while no call fails. *)

(* Every transfer that reached the chain is recorded, or was passed over   *)
(* knowingly, also when the process stops in between.                      *)
EveryTransferAnswered ==
  \A t \in Tx : block[t] > 0 ~> \/ deposits[t].status # "none"
                                 \/ t \in unwatched
                                 \/ block[t] \in skipped

(* A confirmed deposit is credited, unless the process is stopped first.   *)
ConfirmedIsCredited ==
  \A t \in Tx : deposits[t].status = "Confirmed"
                  ~> deposits[t].status = "Credited" \/ restarts > 0

-----------------------------------------------------------------------------
(* What comments of the code say and the code does not do.                 *)

(* deposit_service.go:69 "根据充值地址查找对应的钱包": the wallet credited  *)
(* is the one of the currency that was sent.                               *)
CreditedInItsCurrency ==
  \A t \in Tx : creditedTo[t] \subseteq {<<To[t], Currency[t]>>}
=============================================================================
