---------------------------- MODULE DepositProofs ----------------------------
(***************************************************************************)
(* Proofs about the deposit pipeline, for every set of users and transfers,*)
(* every chain height, any number of restarts, and with or without         *)
(* failing calls.                                                          *)
(***************************************************************************)
EXTENDS DepositMonitor, TLAPS

USE DepositAssumption, MonitorAssumption, ConfAssumption
    DEF DepositAssumption, MonitorAssumption, ConfAssumption, DefaultConf

-----------------------------------------------------------------------------
(* FindByDepositAddress answers with a wallet of the address's user.       *)
LEMMA WalletFound ==
  ASSUME NEW u \in User
  PROVE  FindByDepositAddress(u) \in Wallet
<1>1. \A d \in OnChain : WalletRank["USDT"] <= WalletRank[d]
  BY DEF OnChain, WalletRank
<1>2. FirstCurrency \in OnChain
  BY <1>1 DEF FirstCurrency, OnChain
<1>3. QED
  BY <1>2 DEF FindByDepositAddress, Wallet, OnChain

-----------------------------------------------------------------------------
(* Type correctness.  A confirmation number is a distance on the chain, so *)
(* it needs that no transfer is above the head.                            *)
OnTheChain == \A t \in Tx : block[t] <= head

TypeInv == TypeOK /\ OnTheChain

LEMMA TypeInit == Init => TypeInv
<1> SUFFICES ASSUME Init PROVE TypeInv
  OBVIOUS
<1>1. DepositTypeOK
  BY DEF Init, DepositInit, DepositTypeOK, NoRow, NoCall, Status, NoticeCap
<1>2. AddrTypeOK
  BY DEF Init, AddrInit, AddrTypeOK, Account
<1>3. head \in Height
  BY DEF Init, Height
<1>4. QED
  BY <1>1, <1>2, <1>3 DEF Init, TypeInv, TypeOK, OnTheChain, Height, NoScan

CallTypeOK ==
  /\ call \in [pc : Statement \union {"idle"}, tx : Tx \union {NoTx}, conf : 0 .. MaxConf]
  /\ call.pc # "idle" => call.tx \in Tx

(* A call that goes on to a statement, or returns, stays a call. *)
LEMMA CallStep ==
  ASSUME CallTypeOK, Calling,
         Return \/ \E s \in Statement : Proceed(s)
  PROVE  CallTypeOK'
<1>1. CASE Return
  BY <1>1 DEF CallTypeOK, Return, NoCall
<1>2. ASSUME NEW s \in Statement, Proceed(s) PROVE CallTypeOK'
  BY <1>2 DEF CallTypeOK, Calling, Proceed
<1>3. QED
  BY <1>1, <1>2

(* The statements of ProcessDeposit keep the types. *)
LEMMA DepositTypeStep ==
  ASSUME TypeInv, ProcessDeposit
  PROVE  DepositTypeOK'
<1> DEFINE Row == [status : Status, conf : 0 .. MaxConf]
<1>t. /\ deposits \in [Tx -> Row]
      /\ credits \in [Tx -> Nat]
      /\ creditedTo \in [Tx -> SUBSET Wallet]
      /\ journal \in [Tx -> Nat]
      /\ notices \in [Tx -> 0 .. NoticeCap]
      /\ CallTypeOK
  BY DEF TypeInv, TypeOK, DepositTypeOK, CallTypeOK
<1>c. Calling /\ (Return \/ \E s \in Statement : Proceed(s))
  BY DEF ProcessDeposit, FindByTxHash, FindWallet, CreateDeposit,
         UpdateConfirmations, SetConfirmed, UpdateBalance, CreateTransaction,
         SetCredited, Calling, At, Fails, Statement
<1>d. CallTypeOK'
  BY <1>t, <1>c, CallStep
<1>e. call.tx \in Tx /\ call.conf \in 0 .. MaxConf
  BY <1>t, <1>c DEF CallTypeOK, Calling
<1> HIDE DEF Row
<1>f. ASSUME deposits' \in [Tx -> Row],
             credits' \in [Tx -> Nat],
             creditedTo' \in [Tx -> SUBSET Wallet],
             journal' \in [Tx -> Nat],
             notices' \in [Tx -> 0 .. NoticeCap]
      PROVE  DepositTypeOK'
  BY <1>d, <1>f DEF CallTypeOK, DepositTypeOK, Row
<1>n. ASSUME Notify(call.tx) PROVE notices' \in [Tx -> 0 .. NoticeCap]
  BY <1>t, <1>e, <1>n DEF Notify, NoticeCap
<1>1. CASE FindByTxHash
  <2>1. notices' \in [Tx -> 0 .. NoticeCap]
    BY <1>1, <1>n, <1>t DEF FindByTxHash
  <2>2. QED
    BY <1>1, <1>t, <1>f, <2>1 DEF FindByTxHash
<1>2. CASE FindWallet
  BY <1>2, <1>t, <1>f DEF FindWallet
<1>3. CASE CreateDeposit
  <2>1. deposits' \in [Tx -> Row]
    BY <1>3, <1>t, <1>e DEF CreateDeposit, StatusFor, Row, Status
  <2>2. QED
    BY <1>3, <1>t, <1>f, <2>1 DEF CreateDeposit
<1>4. CASE UpdateConfirmations
  <2>1. deposits' \in [Tx -> Row]
    BY <1>4, <1>t, <1>e DEF UpdateConfirmations, Row
  <2>2. QED
    BY <1>4, <1>t, <1>f, <2>1 DEF UpdateConfirmations
<1>5. CASE SetConfirmed
  <2>1. deposits' \in [Tx -> Row]
    BY <1>5, <1>t, <1>e DEF SetConfirmed, Row, Status
  <2>2. QED
    BY <1>5, <1>t, <1>f, <2>1 DEF SetConfirmed
<1>6. CASE UpdateBalance
  <2>1. FindByDepositAddress(To[call.tx]) \in Wallet
    BY <1>e, WalletFound
  <2>2. creditedTo' \in [Tx -> SUBSET Wallet]
    BY <1>6, <1>t, <2>1 DEF UpdateBalance
  <2>3. credits' \in [Tx -> Nat]
    BY <1>6, <1>t DEF UpdateBalance
  <2>4. QED
    BY <1>6, <1>t, <1>f, <2>2, <2>3 DEF UpdateBalance
<1>7. CASE CreateTransaction
  <2>1. journal' \in [Tx -> Nat]
    BY <1>7, <1>t DEF CreateTransaction
  <2>2. QED
    BY <1>7, <1>t, <1>f, <2>1 DEF CreateTransaction
<1>8. CASE SetCredited
  <2>1. deposits' \in [Tx -> Row]
    BY <1>8, <1>t, <1>e DEF SetCredited, Row, Status
  <2>2. notices' \in [Tx -> 0 .. NoticeCap]
    BY <1>8, <1>n, <1>t DEF SetCredited
  <2>3. QED
    BY <1>8, <1>t, <1>f, <2>1, <2>2 DEF SetCredited
<1>9. QED
  BY <1>1, <1>2, <1>3, <1>4, <1>5, <1>6, <1>7, <1>8 DEF ProcessDeposit

-----------------------------------------------------------------------------
(* The address cache, as a component of its own. *)
AddrInv ==
  /\ AddrTypeOK
  /\ CacheSound
  /\ listed \subseteq Assigned
  /\ query = "all" => addrCache \subseteq listed

LEMMA AddrTypeStep ==
  ASSUME AddrTypeOK, [AddrNext]_addrVars
  PROVE  AddrTypeOK'
<1> USE DEF AddrTypeOK, Known, Assigned, Account, Ask, refreshVars
<1>1. ASSUME NEW u \in User, Enrol(u) PROVE AddrTypeOK'
  BY <1>1 DEF Enrol, Assign, RegisterOrGet, StoreWalletKey, SetUserDepositAddress
<1>2. CASE IncrementalRefresh \/ EndRefresh
  BY <1>2 DEF IncrementalRefresh, ListAll, EndRefresh, StampRefresh
<1>3. CASE AddrDown \/ AddrUp
  BY <1>3 DEF AddrDown, AddrUp, ListAll
<1>4. QED
  BY <1>1, <1>2, <1>3 DEF AddrNext, addrVars

LEMMA AddrStep ==
  ASSUME AddrInv, [AddrNext]_addrVars
  PROVE  AddrInv'
<1> USE DEF AddrInv, AddrTypeOK, CacheSound, Known, Assigned, Account, Ask, refreshVars
<1>1. ASSUME NEW u \in User, RegisterOrGet(u) PROVE AddrInv'
  BY <1>1 DEF RegisterOrGet
<1>2. ASSUME NEW u \in User, StoreWalletKey(u) PROVE AddrInv'
  BY <1>2 DEF StoreWalletKey
<1>3. ASSUME NEW u \in User, SetUserDepositAddress(u) PROVE AddrInv'
  BY <1>3 DEF SetUserDepositAddress
<1>4. CASE IncrementalRefresh
  BY <1>4 DEF IncrementalRefresh, ListAll
<1>9. CASE EndRefresh
  BY <1>9 DEF EndRefresh, StampRefresh
<1>5. CASE AddrDown
  BY <1>5 DEF AddrDown
<1>6. CASE AddrUp
  BY <1>6 DEF AddrUp, ListAll
<1>7. CASE UNCHANGED addrVars
  BY <1>7 DEF addrVars
<1>8. QED
  BY <1>1, <1>2, <1>3, <1>4, <1>5, <1>6, <1>7, <1>9 DEF AddrNext, Enrol, Assign

(* The monitor watches only addresses that were given to users, whatever   *)
(* registrations, refreshes, failures and restarts happen.                 *)
THEOREM CacheIsSound == AddrSpec => []CacheSound
<1>1. AddrInit => AddrInv
  BY DEF AddrInit, AddrInv, AddrTypeOK, CacheSound, Assigned, Account, Known
<1>2. AddrInv /\ [AddrNext]_addrVars => AddrInv'
  BY AddrStep
<1>3. AddrInv => CacheSound
  BY DEF AddrInv
<1>4. QED
  BY <1>1, <1>2, <1>3, PTL DEF AddrSpec

(* While the process runs the monitor forgets no address: a full load      *)
(* returns every assigned address, and the cache holds no other.           *)
THEOREM CacheKeepsAddresses == AddrSpec => CacheNeverForgets
<1> DEFINE Keeps == up /\ up' => addrCache \subseteq addrCache'
<1>1. AddrInit => AddrInv
  BY DEF AddrInit, AddrInv, AddrTypeOK, CacheSound, Assigned, Account, Known
<1>2. AddrInv /\ [AddrNext]_addrVars => AddrInv'
  BY AddrStep
<1>3. ASSUME AddrInv, [AddrNext]_addrVars PROVE [Keeps]_addrVars
  <2> SUFFICES ASSUME AddrNext, up, up' PROVE addrCache \subseteq addrCache'
    BY <1>3
  <2>1. CASE \E u \in User : Enrol(u)
    BY <2>1 DEF Enrol, Assign, RegisterOrGet, StoreWalletKey, SetUserDepositAddress, refreshVars
  <2>2. CASE IncrementalRefresh \/ EndRefresh
    BY <1>3, <2>2 DEF IncrementalRefresh, EndRefresh, AddrInv, refreshVars
  <2>3. QED
    BY <2>1, <2>2 DEF AddrNext, AddrDown, AddrUp
<1>4. QED
  BY <1>1, <1>2, <1>3, PTL DEF AddrSpec, CacheNeverForgets

(* Every step of the monitor is a step, or none, of the address component. *)
LEMMA MonitorRefinesAddr == [Next]_vars => [AddrNext]_addrVars
<1> USE DEF addrVars
<1>1. ASSUME NEW ts \in SUBSET Tx, NewBlock(ts) PROVE [AddrNext]_addrVars
  BY <1>1 DEF NewBlock
<1>2. ASSUME NEW u \in User, EnrolUser(u) PROVE [AddrNext]_addrVars
  BY <1>2 DEF EnrolUser, AddrNext
<1>3. CASE Start
  BY <1>3 DEF Start, AddrNext
<1>4. CASE Stop
  BY <1>4 DEF Stop, AddrNext
<1>5. CASE RefreshCache \/ StampCache
  BY <1>5 DEF RefreshCache, StampCache, AddrNext
<1>6. ASSUME Monitor, ~RefreshCache, ~StampCache PROVE UNCHANGED addrVars
  BY <1>6 DEF Monitor, ReadProgress, ScanNewBlocks, OpenBlock, FetchFails, IgnoreTransfer,
              HandleDeposit, RunDeposit, CloseBlock, EndScan
<1>7. QED
  BY <1>1, <1>2, <1>3, <1>4, <1>5, <1>6 DEF Next, vars

(* In the whole pipeline the cache behaves as it does alone, so what is    *)
(* proved of AddressCache holds beside the monitor and its deposits.       *)
THEOREM MonitorImplementsCache == Spec => AddrSpec
<1>1. Init => AddrInit
  BY DEF Init
<1>2. QED
  BY <1>1, MonitorRefinesAddr, PTL DEF Spec, AddrSpec

(* The scanning, stopping monitor watches only addresses that users were   *)
(* given, and forgets none while it runs.                                  *)
THEOREM MonitorKeepsCache == Spec => []CacheSound /\ CacheNeverForgets
  BY MonitorImplementsCache, CacheIsSound, CacheKeepsAddresses, PTL DEF CacheNeverForgets

-----------------------------------------------------------------------------
(* Type correctness of the whole pipeline. *)
ScanRecord == [mode : {"idle", "starting", "sequential", "batch"}, left : SUBSET Height,
               current : Height, txs : SUBSET Tx, latest : Height]

(* The monitor's own variables, and that no transfer is above the head. *)
MonitorTypeOK ==
  /\ head \in Height
  /\ block \in [Tx -> Height]
  /\ lastBlock \in Height
  /\ savedBlock \in Height
  /\ scan \in ScanRecord
  /\ visited \subseteq Height
  /\ skipped \subseteq Height
  /\ unwatched \subseteq Tx
  /\ restarts \in 0 .. MaxRestarts
  /\ OnTheChain

LEMMA TypeParts == TypeInv <=> AddrTypeOK /\ DepositTypeOK /\ MonitorTypeOK
  BY DEF TypeInv, TypeOK, MonitorTypeOK, ScanRecord

LEMMA MonitorTypeStep ==
  ASSUME MonitorTypeOK, Next
  PROVE  MonitorTypeOK'
<1> USE DEF MonitorTypeOK, OnTheChain
<1>s. ASSUME NEW n \in Height, Save(n) PROVE savedBlock' \in Height
  BY <1>s DEF Save
<1>h. 0 \in Height /\ Height \subseteq Nat
  BY DEF Height
<1>i. NoScan \in ScanRecord
  BY <1>h DEF NoScan, ScanRecord
<1>p. ASSUME NEW a \in Int, a > 0, NEW b \in Int, b <= MaxBlock
      PROVE  a .. b \subseteq Height
  BY <1>p DEF Height
<1>r. ASSUME NEW a \in Height, NEW b \in Height
      PROVE  ((a + 1) .. b) \ visited \subseteq Height
  BY <1>r DEF Height
<1>1. ASSUME NEW ts \in SUBSET Tx, NewBlock(ts) PROVE MonitorTypeOK'
  BY <1>1 DEF NewBlock, Height
<1>2. ASSUME NEW u \in User, EnrolUser(u) PROVE MonitorTypeOK'
  BY <1>2 DEF EnrolUser, monitorVars
<1>14. CASE Start
  <2>1. [NoScan EXCEPT !.mode = "starting"] \in ScanRecord
    BY <1>h DEF NoScan, ScanRecord
  <2>2. QED
    BY <1>14, <2>1 DEF Start
<1>3. CASE ReadProgress
  <2>1. savedBlock' \in Height /\ lastBlock' \in Height /\ skipped' \subseteq Height
    <3>1. (1 .. head) \ visited \subseteq Height
      BY DEF Height
    <3>2. lastBlock' \in Height /\ skipped' \subseteq Height
      BY <1>3, <1>h, <3>1 DEF ReadProgress
    <3>3. savedBlock' \in Height
      BY <1>3, <1>s DEF ReadProgress
    <3>4. QED
      BY <3>2, <3>3
  <2>2. QED
    BY <1>3, <1>i, <2>1 DEF ReadProgress
<1>4. CASE RefreshCache \/ StampCache
  BY <1>4 DEF RefreshCache, StampCache, monitorVars
<1>5. CASE ScanNewBlocks
  <2> DEFINE first == IF head - lastBlock > MaxBlocksPerPoll
                        THEN (head + 1) - MaxBlocksPerPoll ELSE lastBlock + 1
  <2>1. first \in Int /\ first > 0 /\ first - 1 <= MaxBlock
    <3>1. head \in 0 .. MaxBlock /\ lastBlock \in 0 .. MaxBlock
      BY DEF Height
    <3>2. CASE head - lastBlock > MaxBlocksPerPoll
      BY <3>1, <3>2
    <3>3. CASE ~(head - lastBlock > MaxBlocksPerPoll)
      BY <3>1, <3>3
    <3>4. QED
      BY <3>2, <3>3
  <2> HIDE DEF first
  <2>2. first .. head \subseteq Height
    BY <2>1, <1>p DEF Height
  <2>3. ((lastBlock + 1) .. (first - 1)) \ visited \subseteq Height
    BY <2>1 DEF Height
  <2>4. \A got \in SUBSET (first .. head), m \in {"batch", "sequential"} :
           [NoScan EXCEPT !.mode = m, !.left = got] \in ScanRecord
    BY <2>2, <1>h DEF NoScan, ScanRecord
  <2>5. /\ \E got \in SUBSET (first .. head), m \in {"batch", "sequential"} :
              scan' = [NoScan EXCEPT !.mode = m, !.left = got]
        /\ skipped' = skipped \union (((lastBlock + 1) .. (first - 1)) \ visited)
    BY <1>5 DEF ScanNewBlocks, first
  <2>6. scan' \in ScanRecord /\ skipped' \subseteq Height
    BY <2>3, <2>4, <2>5
  <2>7. QED
    BY <1>5, <2>6 DEF ScanNewBlocks
<1>6. ASSUME NEW n \in Height, OpenBlock(n) PROVE MonitorTypeOK'
  BY <1>6 DEF OpenBlock, ScanRecord
<1>7. ASSUME NEW n \in Height, FetchFails(n) PROVE MonitorTypeOK'
  <2>1. scan' \in ScanRecord
    BY <1>7, <1>i DEF FetchFails, ScanRecord
  <2>2. savedBlock' \in Height /\ lastBlock' \in Height /\ skipped' \subseteq Height
    BY <1>7, <1>s DEF FetchFails
  <2>3. QED
    BY <1>7, <2>1, <2>2 DEF FetchFails
<1>8. ASSUME NEW t \in Tx, IgnoreTransfer(t) PROVE MonitorTypeOK'
  BY <1>8 DEF IgnoreTransfer, ScanRecord
<1>9. ASSUME NEW t \in Tx, HandleDeposit(t) PROVE MonitorTypeOK'
  BY <1>9 DEF HandleDeposit, ScanRecord
<1>10. CASE RunDeposit
  BY <1>10 DEF RunDeposit, monitorVars
<1>11. CASE CloseBlock
  <2>1. scan' \in ScanRecord /\ scan.current \in Height
    BY <1>11, <1>h DEF CloseBlock, ScanRecord
  <2>2. savedBlock' \in Height /\ lastBlock' \in Height
    BY <1>11, <1>s, <2>1 DEF CloseBlock
  <2>3. QED
    BY <1>11, <2>1, <2>2 DEF CloseBlock
<1>12. CASE EndScan
  <2>1. scan.latest \in Height
    BY DEF ScanRecord
  <2>2. savedBlock' \in Height /\ lastBlock' \in Height /\ skipped' \subseteq Height
    BY <1>12, <1>s, <1>r, <2>1 DEF EndScan, BatchProgress
  <2>3. QED
    BY <1>12, <1>i, <2>2 DEF EndScan
<1>13. CASE Stop
  <2>1. scan.latest \in Height
    BY DEF ScanRecord
  <2>2. savedBlock' \in Height /\ lastBlock' \in Height /\ skipped' \subseteq Height
    BY <1>13, <1>r, <1>h, <2>1 DEF Stop
  <2>3. restarts' \in 0 .. MaxRestarts
    BY <1>13 DEF Stop
  <2>4. QED
    BY <1>13, <1>i, <2>2, <2>3 DEF Stop
<1>15. QED
  BY <1>1, <1>2, <1>3, <1>4, <1>5, <1>6, <1>7, <1>8, <1>9, <1>10, <1>11, <1>12,
     <1>13, <1>14 DEF Next, Monitor

(* A step of the monitor leaves the database of deposits alone, begins a   *)
(* call, drops one, or executes one statement.                             *)
LEMMA DepositSteps ==
  ASSUME TypeInv, [Next]_vars
  PROVE  \/ UNCHANGED depositVars
         \/ ProcessDeposit
         \/ DropCall
         \/ /\ \E t \in Tx, conf \in 0 .. MaxConf : Begin(t, conf)
            /\ UNCHANGED <<deposits, credits, creditedTo, journal, notices>>
<1>1. CASE Stop
  BY <1>1 DEF Stop
<1>2. CASE RunDeposit
  BY <1>2 DEF RunDeposit
<1>3. ASSUME NEW t \in Tx, HandleDeposit(t)
      PROVE  /\ \E conf \in 0 .. MaxConf : Begin(t, conf)
             /\ UNCHANGED <<deposits, credits, creditedTo, journal, notices>>
  <2>1. Confirmations(t) \subseteq 0 .. MaxConf
    BY DEF Confirmations, TypeInv, TypeOK, OnTheChain, Height
  <2>2. QED
    BY <1>3, <2>1 DEF HandleDeposit
<1>4. CASE UNCHANGED vars
  BY <1>4 DEF vars
<1>5. ASSUME Next, ~Stop, ~RunDeposit, \A t \in Tx : ~HandleDeposit(t)
      PROVE  UNCHANGED depositVars
  BY <1>5 DEF Next, NewBlock, EnrolUser, Start, Monitor, ReadProgress, RefreshCache,
              StampCache, ScanNewBlocks, OpenBlock, FetchFails, IgnoreTransfer, CloseBlock,
              EndScan
<1>6. QED
  BY <1>1, <1>2, <1>3, <1>4, <1>5

LEMMA TypeStep == TypeInv /\ [Next]_vars => TypeInv'
<1> SUFFICES ASSUME TypeInv, [Next]_vars PROVE TypeInv'
  OBVIOUS
<1>1. AddrTypeOK'
  <2>1. AddrTypeOK
    BY TypeParts
  <2>2. [AddrNext]_addrVars
    BY MonitorRefinesAddr
  <2>3. QED
    BY <2>1, <2>2, AddrTypeStep
<1>2. MonitorTypeOK'
  <2>1. CASE Next
    BY <2>1, TypeParts, MonitorTypeStep
  <2>2. CASE UNCHANGED vars
    BY <2>2, TypeParts DEF vars, monitorVars, MonitorTypeOK, OnTheChain
  <2>3. QED
    BY <2>1, <2>2
<1>3. DepositTypeOK'
  <2>1. DepositTypeOK
    BY TypeParts
  <2>2. CASE UNCHANGED depositVars
    BY <2>1, <2>2 DEF depositVars, DepositTypeOK
  <2>3. CASE ProcessDeposit
    BY <2>3, DepositTypeStep
  <2>4. CASE DropCall
    BY <2>1, <2>4 DEF DropCall, Return, NoCall, DepositTypeOK
  <2>5. ASSUME NEW t \in Tx, NEW conf \in 0 .. MaxConf, Begin(t, conf),
               UNCHANGED <<deposits, credits, creditedTo, journal, notices>>
        PROVE  DepositTypeOK'
    BY <2>1, <2>5 DEF Begin, DepositTypeOK, Statement
  <2>6. QED
    BY <2>2, <2>3, <2>4, <2>5, DepositSteps
<1>4. QED
  BY <1>1, <1>2, <1>3 DEF TypeInv, TypeOK, MonitorTypeOK, ScanRecord

(* Every variable keeps its type in every behaviour. *)
THEOREM TypeCorrect == Spec => []TypeOK
<1>1. TypeInv => TypeOK
  BY DEF TypeInv
<1>2. QED
  BY <1>1, TypeInit, TypeStep, PTL DEF Spec

-----------------------------------------------------------------------------
(* The money.  StatusTellsMoney and AtMostOnce are not inductive alone: a  *)
(* call between two statements must still find its row as it left it.      *)
AbsentRows == \A t \in Tx : deposits[t].status = "none" => deposits[t].conf = 0

BooksInv == StatusTellsMoney /\ AtMostOnce /\ CallAgreesWithRow /\ AbsentRows

LEMMA BooksInit == Init => BooksInv
  BY DEF Init, DepositInit, NoRow, NoCall, BooksInv, StatusTellsMoney, AtMostOnce,
         CallAgreesWithRow, AbsentRows

LEMMA BooksStatement ==
  ASSUME TypeInv, BooksInv, ProcessDeposit
  PROVE  BooksInv'
<1> USE DEF BooksInv, StatusTellsMoney, AtMostOnce, CallAgreesWithRow, AbsentRows,
            Proceed, Return, Fails, At, NoCall
<1>t. /\ deposits \in [Tx -> [status : Status, conf : 0 .. MaxConf]]
      /\ credits \in [Tx -> Nat]
      /\ journal \in [Tx -> Nat]
      /\ call \in [pc : Statement \union {"idle"}, tx : Tx \union {NoTx}, conf : 0 .. MaxConf]
      /\ call.pc # "idle" => call.tx \in Tx
  BY DEF TypeInv, TypeOK, DepositTypeOK
<1>1. CASE FindByTxHash
  BY <1>1, <1>t DEF FindByTxHash, Status
<1>2. CASE FindWallet
  BY <1>2, <1>t DEF FindWallet
<1>3. CASE CreateDeposit
  <2>1. deposits[call.tx].status = "none" /\ call.tx \in Tx
    BY <1>3, <1>t DEF CreateDeposit
  <2>2. credits[call.tx] = 0 /\ journal[call.tx] = 0 /\ UNCHANGED <<credits, journal>>
    BY <1>3, <2>1, <1>t DEF CreateDeposit
  <2>3. \/ UNCHANGED deposits
        \/ deposits' = [deposits EXCEPT ![call.tx] =
                          [status |-> StatusFor(call.conf), conf |-> call.conf]]
    BY <1>3 DEF CreateDeposit
  <2>4. StatusFor(call.conf) \in {"Pending", "Confirmed"}
    BY DEF StatusFor
  <2>5. \A t \in Tx : \/ deposits'[t] = deposits[t]
                      \/ t = call.tx /\ deposits'[t].status \in {"Pending", "Confirmed"}
    BY <2>1, <2>3, <2>4, <1>t
  <2>6. StatusTellsMoney' /\ AtMostOnce' /\ AbsentRows'
    BY <2>2, <2>5, <1>t
  <2>7. \/ call' = NoCall
        \/ /\ call' = [call EXCEPT !.pc = "UpdateBalance"]
           /\ deposits'[call.tx].status = "Confirmed"
    BY <1>3, <2>1, <1>t DEF CreateDeposit
  <2>8. CallAgreesWithRow'
    BY <2>1, <2>2, <2>7, <1>t
  <2>9. QED
    BY <2>6, <2>8
<1>4. CASE UpdateConfirmations
  <2>1. \A t \in Tx : deposits'[t].status = deposits[t].status
    BY <1>4, <1>t DEF UpdateConfirmations
  <2>2. UNCHANGED <<credits, journal>>
    BY <1>4 DEF UpdateConfirmations
  <2>3. StatusTellsMoney' /\ AtMostOnce'
    BY <2>1, <2>2
  <2>4. call' = NoCall \/ (/\ call' = [call EXCEPT !.pc = "SetConfirmed"]
                           /\ deposits[call.tx].status = "Pending")
    BY <1>4 DEF UpdateConfirmations
  <2>5. CallAgreesWithRow'
    BY <2>1, <2>4, <1>4, <1>t DEF UpdateConfirmations
  <2>6. AbsentRows'
    <3>1. deposits[call.tx].status # "none"
      BY <1>4 DEF UpdateConfirmations
    <3>2. \A t \in Tx \ {call.tx} : deposits'[t] = deposits[t]
      BY <1>4, <1>t DEF UpdateConfirmations
    <3>3. QED
      BY <2>1, <3>1, <3>2
  <2>7. QED
    BY <2>3, <2>5, <2>6
<1>5. CASE SetConfirmed
  <2>1. \A t \in Tx : \/ deposits'[t].status = deposits[t].status
                      \/ t = call.tx /\ deposits'[t].status = "Confirmed"
    BY <1>5, <1>t DEF SetConfirmed
  <2>2. UNCHANGED <<credits, journal>> /\ credits[call.tx] = 0 /\ journal[call.tx] = 0
    BY <1>5, <1>t DEF SetConfirmed
  <2>3. StatusTellsMoney' /\ AtMostOnce'
    BY <2>1, <2>2
  <2>4. \/ call' = NoCall
        \/ /\ call' = [call EXCEPT !.pc = "FindWalletAgain"]
           /\ deposits'[call.tx].status = "Confirmed"
    BY <1>5, <1>t DEF SetConfirmed
  <2>5. CallAgreesWithRow'
    BY <2>2, <2>4, <1>5, <1>t
  <2>6. AbsentRows'
    <3>1. \A t \in Tx \ {call.tx} : deposits'[t] = deposits[t]
      BY <1>5, <1>t DEF SetConfirmed
    <3>2. deposits[call.tx].status = "Pending"
      BY <1>5 DEF SetConfirmed
    <3>3. QED
      BY <2>1, <3>1, <3>2
  <2>7. QED
    BY <2>3, <2>5, <2>6
<1>6. CASE UpdateBalance
  <2>1. /\ call.tx \in Tx /\ deposits[call.tx].status = "Confirmed"
        /\ credits[call.tx] = 0 /\ journal[call.tx] = 0
        /\ UNCHANGED <<deposits, journal>>
    BY <1>6, <1>t DEF UpdateBalance
  <2>2. \A t \in Tx : \/ credits'[t] = credits[t]
                      \/ t = call.tx /\ credits'[t] = 1
    BY <1>6, <2>1, <1>t DEF UpdateBalance
  <2>3. StatusTellsMoney' /\ AtMostOnce' /\ AbsentRows'
    <3> SUFFICES ASSUME NEW t \in Tx
                 PROVE  /\ (deposits[t].status \in {"none", "Pending"} =>
                               credits'[t] = 0 /\ journal[t] = 0)
                        /\ (deposits[t].status = "Credited" =>
                               credits'[t] = 1 /\ journal[t] = 1)
                        /\ journal[t] <= credits'[t]
                        /\ credits'[t] <= 1
      BY <2>1
    <3>1. CASE t = call.tx
      BY <3>1, <2>1, <2>2, <1>t
    <3>2. CASE t # call.tx
      BY <3>2, <2>2
    <3>3. QED
      BY <3>1, <3>2
  <2>4. \/ call' = NoCall
        \/ /\ call' = [call EXCEPT !.pc = "CreateTransaction"]
           /\ credits'[call.tx] = 1
    BY <1>6, <2>1, <1>t DEF UpdateBalance
  <2>5. CallAgreesWithRow'
    BY <2>1, <2>4, <1>t
  <2>6. QED
    BY <2>3, <2>5
<1>7. CASE CreateTransaction
  BY <1>7, <1>t DEF CreateTransaction
<1>8. CASE SetCredited
  <2>1. /\ call.tx \in Tx /\ deposits[call.tx].status = "Confirmed"
        /\ credits[call.tx] = 1 /\ journal[call.tx] = 1
        /\ UNCHANGED <<credits, journal>>
    BY <1>8, <1>t DEF SetCredited
  <2>2. \A t \in Tx : \/ deposits'[t] = deposits[t]
                      \/ t = call.tx /\ deposits'[t].status = "Credited"
    BY <1>8, <1>t DEF SetCredited
  <2>3. StatusTellsMoney' /\ AtMostOnce' /\ AbsentRows'
    BY <2>1, <2>2
  <2>4. call' = NoCall
    BY <1>8, <1>t DEF SetCredited
  <2>5. CallAgreesWithRow'
    BY <2>4
  <2>6. QED
    BY <2>3, <2>5
<1>9. QED
  BY <1>1, <1>2, <1>3, <1>4, <1>5, <1>6, <1>7, <1>8 DEF ProcessDeposit

LEMMA BooksStep == TypeInv /\ BooksInv /\ [Next]_vars => BooksInv'
<1> SUFFICES ASSUME TypeInv, BooksInv, [Next]_vars PROVE BooksInv'
  OBVIOUS
<1> USE DEF BooksInv, StatusTellsMoney, AtMostOnce, CallAgreesWithRow, AbsentRows
<1>1. CASE UNCHANGED depositVars
  BY <1>1 DEF depositVars
<1>2. CASE ProcessDeposit
  BY <1>2, BooksStatement
<1>3. CASE DropCall
  BY <1>3 DEF DropCall, Return, NoCall
<1>4. ASSUME NEW t \in Tx, NEW conf \in 0 .. MaxConf, Begin(t, conf),
             UNCHANGED <<deposits, credits, creditedTo, journal, notices>>
      PROVE  BooksInv'
  BY <1>4 DEF Begin
<1>5. QED
  BY <1>1, <1>2, <1>3, <1>4, DepositSteps

LEMMA BooksHold == Spec => [](TypeInv /\ BooksInv)
  BY TypeInit, TypeStep, BooksInit, BooksStep, PTL DEF Spec

(* No transfer is ever added to a balance twice, whatever crashes, lost    *)
(* answers and rescans happen in between.                                  *)
THEOREM CreditedAtMostOnce == Spec => []AtMostOnce
<1>1. BooksInv => AtMostOnce
  BY DEF BooksInv
<1>2. QED
  BY <1>1, BooksHold, PTL

(* The status of a deposit always tells the truth about the money.         *)
THEOREM StatusIsTruthful == Spec => []StatusTellsMoney
<1>1. BooksInv => StatusTellsMoney
  BY DEF BooksInv
<1>2. QED
  BY <1>1, BooksHold, PTL

(* What a call is about to do to its row is always done for the first time.*)
THEOREM CallIsNeverStale == Spec => []CallAgreesWithRow
<1>1. BooksInv => CallAgreesWithRow
  BY DEF BooksInv
<1>2. QED
  BY <1>1, BooksHold, PTL

-----------------------------------------------------------------------------
(* A deposit record only moves forward, even when a rescan reports fewer   *)
(* confirmations than were stored.                                         *)
LEMMA RecordStep ==
  ASSUME TypeInv, BooksInv, [Next]_vars, NEW t \in Tx
  PROVE  /\ StatusRank(deposits[t].status) <= StatusRank(deposits'[t].status)
         /\ deposits[t].conf <= deposits'[t].conf
<1> DEFINE Forward == /\ StatusRank(deposits[t].status) <= StatusRank(deposits'[t].status)
                      /\ deposits[t].conf <= deposits'[t].conf
<1>t. /\ deposits \in [Tx -> [status : Status, conf : 0 .. MaxConf]]
      /\ call \in [pc : Statement \union {"idle"}, tx : Tx \union {NoTx}, conf : 0 .. MaxConf]
      /\ call.pc # "idle" => call.tx \in Tx
  BY DEF TypeInv, TypeOK, DepositTypeOK
<1>r. /\ StatusRank("none") = 0 /\ StatusRank("Pending") = 1
      /\ StatusRank("Confirmed") = 2 /\ StatusRank("Credited") = 3
  BY DEF StatusRank
<1>s. \A s \in Status : StatusRank(s) <= StatusRank(s)
  BY <1>r DEF Status
<1>1. CASE UNCHANGED deposits
  BY <1>1, <1>t, <1>s
<1>2. CASE CreateDeposit
  <2>1. deposits[call.tx].status = "none" /\ deposits[call.tx].conf = 0
    BY <1>2, <1>t DEF CreateDeposit, At, BooksInv, CallAgreesWithRow, AbsentRows
  <2>2. QED
    BY <1>2, <2>1, <1>t, <1>r, <1>s DEF CreateDeposit, StatusFor
<1>3. CASE UpdateConfirmations
  <2>1. deposits[call.tx].conf < call.conf
    BY <1>3 DEF UpdateConfirmations, At, BooksInv, CallAgreesWithRow
  <2>2. QED
    BY <1>3, <2>1, <1>t, <1>r, <1>s DEF UpdateConfirmations
<1>4. CASE SetConfirmed
  <2>1. deposits[call.tx].status = "Pending"
    BY <1>4 DEF SetConfirmed, At, BooksInv, CallAgreesWithRow
  <2>2. QED
    BY <1>4, <2>1, <1>t, <1>r, <1>s DEF SetConfirmed
<1>5. CASE SetCredited
  <2>1. deposits[call.tx].status = "Confirmed"
    BY <1>5 DEF SetCredited, At, BooksInv, CallAgreesWithRow
  <2>2. QED
    BY <1>5, <2>1, <1>t, <1>r, <1>s DEF SetCredited
<1>6. QED
  BY <1>1, <1>2, <1>3, <1>4, <1>5, DepositSteps
     DEF ProcessDeposit, depositVars, DropCall, FindByTxHash, FindWallet,
         UpdateBalance, CreateTransaction

THEOREM RecordsOnlyAdvance == Spec => RecordsMoveForward
<1> DEFINE Forward == \A t \in Tx :
             /\ StatusRank(deposits[t].status) <= StatusRank(deposits'[t].status)
             /\ deposits[t].conf <= deposits'[t].conf
<1>1. TypeInv /\ BooksInv /\ [Next]_vars => [Forward]_deposits
  BY RecordStep
<1>2. QED
  BY <1>1, BooksHold, PTL DEF Spec, RecordsMoveForward

-----------------------------------------------------------------------------
(* The pipeline implements the ledger: the row is opened by CreateDeposit, *)
(* the transfer paid by UpdateBalance, the row closed by SetCredited; all  *)
(* other steps do not move the ledger.                                     *)
LEMMA LedgerStep ==
  ASSUME TypeInv, BooksInv, [Next]_vars
  PROVE  [Ledger!Next]_(Ledger!ledgerVars)
<1> USE DEF Ledger!ledgerVars
<1>t. /\ deposits \in [Tx -> [status : Status, conf : 0 .. MaxConf]]
      /\ credits \in [Tx -> Nat]
      /\ call.pc # "idle" => call.tx \in Tx
  BY DEF TypeInv, TypeOK, DepositTypeOK
<1>1. CASE UNCHANGED <<deposits, credits>>
  BY <1>1
<1>2. CASE CreateDeposit
  <2>1. call.tx \in Tx /\ deposits[call.tx].status = "none" /\ UNCHANGED credits
    BY <1>2, <1>t DEF CreateDeposit, At, BooksInv, CallAgreesWithRow
  <2>2. ASSUME deposits' = [deposits EXCEPT ![call.tx] =
                             [status |-> StatusFor(call.conf), conf |-> call.conf]]
        PROVE  Ledger!Next
    <3>1. PICK t \in Tx : t = call.tx
      BY <2>1
    <3>2. Ledger!Open(t)
      BY <2>1, <2>2, <1>t, <3>1 DEF Ledger!Open, StatusFor
    <3>3. QED
      BY <3>2 DEF Ledger!Next
  <2>3. CASE UNCHANGED deposits
    BY <2>1, <2>3
  <2>4. \/ UNCHANGED deposits
        \/ deposits' = [deposits EXCEPT ![call.tx] =
                          [status |-> StatusFor(call.conf), conf |-> call.conf]]
    BY <1>2 DEF CreateDeposit
  <2>5. QED
    BY <2>2, <2>3, <2>4
<1>3. CASE UpdateConfirmations \/ SetConfirmed
  <2>1. \A t \in Tx : \/ deposits'[t].status = deposits[t].status
                      \/ /\ deposits[t].status = "Pending"
                         /\ deposits'[t].status = "Confirmed"
    BY <1>3, <1>t DEF UpdateConfirmations, SetConfirmed, At, BooksInv, CallAgreesWithRow
  <2>2. UNCHANGED credits
    BY <1>3 DEF UpdateConfirmations, SetConfirmed
  <2>3. QED
    BY <2>1, <2>2
<1>4. CASE UpdateBalance
  <2>1. /\ call.tx \in Tx /\ deposits[call.tx].status = "Confirmed"
        /\ credits[call.tx] = 0 /\ UNCHANGED deposits
    BY <1>4, <1>t DEF UpdateBalance, At, BooksInv, CallAgreesWithRow
  <2>2. ASSUME credits' = [credits EXCEPT ![call.tx] = @ + 1]
        PROVE  Ledger!Pay(call.tx)
    BY <2>1, <2>2, <1>t DEF Ledger!Pay
  <2>3. QED
    BY <1>4, <2>1, <2>2 DEF UpdateBalance, Ledger!Next
<1>5. CASE SetCredited
  <2>1. /\ call.tx \in Tx /\ deposits[call.tx].status = "Confirmed"
        /\ credits[call.tx] = 1 /\ UNCHANGED credits
    BY <1>5, <1>t DEF SetCredited, At, BooksInv, CallAgreesWithRow
  <2>2. ASSUME deposits' = [deposits EXCEPT ![call.tx].status = "Credited"]
        PROVE  Ledger!Next
    <3>1. PICK t \in Tx : t = call.tx
      BY <2>1
    <3>2. Ledger!Close(t)
      BY <2>1, <2>2, <1>t, <3>1 DEF Ledger!Close
    <3>3. QED
      BY <3>2 DEF Ledger!Next
  <2>3. CASE UNCHANGED deposits
    BY <2>1, <2>3
  <2>4. \/ UNCHANGED deposits
        \/ deposits' = [deposits EXCEPT ![call.tx].status = "Credited"]
    BY <1>5 DEF SetCredited
  <2>5. QED
    BY <2>2, <2>3, <2>4
<1>6. QED
  BY <1>1, <1>2, <1>3, <1>4, <1>5, DepositSteps
     DEF ProcessDeposit, depositVars, DropCall, FindByTxHash, FindWallet,
         CreateTransaction

(* Recorded once, paid at most once and only after it was recorded, closed *)
(* only after it was paid: for every crash, failure and rescan.            *)
THEOREM PipelineImplementsLedger == Spec => ImplementsLedger
<1>1. Init => Ledger!Init
  BY DEF Init, DepositInit, NoRow, Ledger!Init
<1>2. TypeInv /\ BooksInv /\ [Next]_vars => [Ledger!Next]_(Ledger!ledgerVars)
  BY LedgerStep
<1>3. QED
  BY <1>1, <1>2, BooksHold, PTL DEF Spec, ImplementsLedger, Ledger!Spec

-----------------------------------------------------------------------------
(* The progress.  A sequential scan moves it block by block, so everything *)
(* below a block still to process must be done, passed over or itself      *)
(* still to process.                                                       *)
Done == visited \union skipped

ScanInv ==
  /\ ProgressCovered
  /\ scan.mode = "sequential" =>
       \A m \in scan.left : 1 .. m \subseteq Done \union scan.left
  /\ scan.current # 0 => IsNext(scan.current)

LEMMA ScanStep ==
  ASSUME TypeInv, ScanInv, Next
  PROVE  ScanInv'
<1> USE DEF ScanInv, ProgressCovered, Done, IsNext
<1>t. /\ head \in Height /\ lastBlock \in Height /\ savedBlock \in Height
      /\ scan \in ScanRecord /\ visited \subseteq Height /\ skipped \subseteq Height
      /\ Height \subseteq Nat
  BY DEF TypeInv, TypeOK, ScanRecord, Height
<1>1. CASE UNCHANGED <<lastBlock, savedBlock, scan, visited, skipped>>
  BY <1>1
<1>10. CASE Start
  BY <1>10 DEF Start, NoScan
<1>2. CASE ReadProgress
  <2>1. scan' = NoScan /\ UNCHANGED visited /\ skipped \subseteq skipped'
    BY <1>2 DEF ReadProgress
  <2>2. ProgressCovered'
    <3>1. CASE lastBlock' = savedBlock /\ UNCHANGED <<savedBlock, skipped>>
      BY <3>1, <2>1
    <3>2. CASE lastBlock' = 0 /\ UNCHANGED <<savedBlock, skipped>>
      BY <3>2, <2>1
    <3>3. CASE /\ lastBlock' = head /\ Save(head)
               /\ skipped' = skipped \union ((1 .. head) \ visited)
      BY <3>3, <2>1 DEF Save
    <3>4. QED
      BY <1>2, <3>1, <3>2, <3>3 DEF ReadProgress
  <2>3. QED
    BY <2>1, <2>2 DEF NoScan
<1>3. CASE ScanNewBlocks
  <2> DEFINE first == IF head - lastBlock > MaxBlocksPerPoll
                        THEN (head + 1) - MaxBlocksPerPoll ELSE lastBlock + 1
  <2>1. first \in Int /\ first > lastBlock
    BY <1>t
  <2>2. /\ UNCHANGED <<lastBlock, savedBlock, visited>>
        /\ skipped' = skipped \union (((lastBlock + 1) .. (first - 1)) \ visited)
        /\ scan'.mode = "sequential" => scan'.left = first .. head
        /\ scan'.current = 0
    BY <1>3 DEF ScanNewBlocks, NoScan
  <2> HIDE DEF first
  <2>3. 1 .. (first - 1) \subseteq Done'
    BY <2>1, <2>2, <1>t
  <2>4. QED
    BY <2>1, <2>2, <2>3, <1>t
<1>4. ASSUME NEW n \in Height, OpenBlock(n) PROVE ScanInv'
  <2>1. /\ scan'.mode = scan.mode /\ scan'.left = scan.left /\ scan'.current = n
        /\ UNCHANGED <<lastBlock, savedBlock, visited, skipped>>
    BY <1>4, <1>t DEF OpenBlock, ScanRecord
  <2>2. QED
    BY <1>4, <2>1 DEF OpenBlock
<1>5. ASSUME NEW n \in Height, FetchFails(n) PROVE ScanInv'
  <2>1. CASE scan' = NoScan /\ UNCHANGED <<lastBlock, savedBlock, skipped>>
    BY <1>5, <2>1 DEF FetchFails, NoScan
  <2>2. CASE /\ scan' = [scan EXCEPT !.left = @ \ {n}]
             /\ lastBlock' = n /\ Save(n)
             /\ skipped' = skipped \union ({n} \ visited)
    <3>1. /\ n \in scan.left /\ \A m \in scan.left : n <= m
          /\ scan.mode = "sequential" /\ scan.current = 0
          /\ visited' = visited
      BY <1>5 DEF FetchFails, BetweenBlocks
    <3>2. /\ scan'.mode = "sequential" /\ scan'.left = scan.left \ {n}
          /\ scan'.current = 0
      BY <2>2, <3>1, <1>t DEF ScanRecord
    <3>3. 1 .. n \subseteq Done'
      BY <2>2, <3>1, <1>t DEF ScanRecord
    <3>4. \A m \in scan'.left : 1 .. m \subseteq Done' \union scan'.left
      BY <2>2, <3>1, <3>2, <3>3
    <3>5. ProgressCovered'
      BY <2>2, <3>1, <3>3 DEF Save
    <3>6. QED
      BY <3>2, <3>4, <3>5
  <2>3. QED
    BY <1>5, <2>1, <2>2 DEF FetchFails
<1>6. ASSUME NEW t \in Tx, IgnoreTransfer(t) \/ HandleDeposit(t) PROVE ScanInv'
  <2>1. /\ scan'.mode = scan.mode /\ scan'.left = scan.left
        /\ scan'.current = scan.current
        /\ UNCHANGED <<lastBlock, savedBlock, visited, skipped>>
    BY <1>6, <1>t DEF IgnoreTransfer, HandleDeposit, ScanRecord
  <2>2. QED
    BY <2>1
<1>7. CASE CloseBlock
  <2> DEFINE n == scan.current
  <2>1. /\ n \in scan.left /\ \A m \in scan.left : n <= m
        /\ visited' = visited \union {n} /\ skipped' = skipped
    BY <1>7 DEF CloseBlock
  <2>2. /\ scan'.mode = scan.mode /\ scan'.left = scan.left \ {n}
        /\ scan'.current = 0
    BY <1>7, <1>t DEF CloseBlock, ScanRecord
  <2>3. CASE scan.mode = "sequential"
    <3>1. lastBlock' = n /\ Save(n)
      BY <1>7, <2>3 DEF CloseBlock
    <3>2. 1 .. n \subseteq Done'
      <4>1. n \in Nat /\ scan.left \subseteq Nat
        BY <1>t DEF ScanRecord
      <4>2. SUFFICES ASSUME NEW b \in 1 .. n PROVE b \in Done'
        OBVIOUS
      <4>3. b \in Done \union scan.left
        BY <2>1, <2>3
      <4>4. CASE b \in scan.left
        BY <2>1, <4>1, <4>4
      <4>5. QED
        BY <2>1, <4>3, <4>4
    <3>3. \A m \in scan'.left : 1 .. m \subseteq Done' \union scan'.left
      BY <2>1, <2>2, <2>3
    <3>4. ProgressCovered'
      BY <2>1, <3>1, <3>2 DEF Save
    <3>5. QED
      BY <2>2, <3>3, <3>4
  <2>4. CASE scan.mode # "sequential"
    <3>1. UNCHANGED <<lastBlock, savedBlock>>
      BY <1>7, <2>4 DEF CloseBlock
    <3>2. QED
      BY <2>1, <2>2, <2>4, <3>1
  <2>5. QED
    BY <2>3, <2>4
<1>8. CASE EndScan \/ Stop
  <2>1. scan' = NoScan /\ visited' = visited
    BY <1>8 DEF EndScan, Stop
  <2>2. \/ lastBlock' \in {lastBlock, 0} /\ UNCHANGED <<savedBlock, skipped>>
        \/ /\ lastBlock' \in {scan.latest, 0}
           /\ savedBlock' \in {savedBlock, scan.latest}
           /\ skipped' = skipped \union (((lastBlock + 1) .. scan.latest) \ visited)
    BY <1>8 DEF EndScan, BatchProgress, Stop, Save
  <2>3. ProgressCovered'
    BY <2>1, <2>2, <1>t DEF ScanRecord
  <2>4. QED
    BY <2>1, <2>3 DEF NoScan
<1>9. QED
  BY <1>1, <1>2, <1>3, <1>4, <1>5, <1>6, <1>7, <1>8, <1>10
     DEF Next, Monitor, NewBlock, EnrolUser, RefreshCache, StampCache, RunDeposit, monitorVars

(* The saved progress never runs past a block nobody looked at, unless the *)
(* code passed it over knowingly.                                          *)
THEOREM ProgressIsCovered == Spec => []ProgressCovered
<1>1. Init => ScanInv
  BY DEF Init, ScanInv, ProgressCovered, NoScan
<1>2. TypeInv /\ ScanInv /\ [Next]_vars => ScanInv'
  <2>1. ASSUME ScanInv, UNCHANGED vars PROVE ScanInv'
    BY <2>1 DEF vars, monitorVars, ScanInv, ProgressCovered, Done, IsNext
  <2>2. QED
    BY <2>1, ScanStep
<1>3. ScanInv => ProgressCovered
  BY DEF ScanInv
<1>4. QED
  BY <1>1, <1>2, <1>3, TypeInit, TypeStep, PTL DEF Spec
-----------------------------------------------------------------------------
(* Blocks looked at.  While a block is open each of its transfers is still *)
(* to be looked at, answered, or in the call that will record it; a block  *)
(* is never above the head, so no transfer is added to it later.           *)
Answered(t) == t \in unwatched \/ deposits[t].status # "none"

InTheCall(t) == call.pc \in {"FindByTxHash", "FindWallet", "Create"} /\ call.tx = t

BlocksOnChain == visited \subseteq 1 .. head /\ scan.left \subseteq 1 .. head

OpenBlockInv ==
  ~Faults /\ scan.current # 0 =>
    \A t \in Tx : block[t] = scan.current => t \in scan.txs \/ Answered(t) \/ InTheCall(t)

LookInv == BlocksOnChain /\ OpenBlockInv /\ VisitedMeansRecorded

(* Without failures a statement goes on with its transfer until there is a *)
(* record.                                                                 *)
LEMMA StatementAnswers ==
  ASSUME TypeInv, BooksInv, ~Faults, RunDeposit, NEW t \in Tx
  PROVE  /\ Answered(t) => Answered(t)'
         /\ InTheCall(t) => InTheCall(t)' \/ Answered(t)'
<1>t. /\ deposits \in [Tx -> [status : Status, conf : 0 .. MaxConf]]
      /\ call \in [pc : Statement \union {"idle"}, tx : Tx \union {NoTx}, conf : 0 .. MaxConf]
  BY DEF TypeInv, TypeOK, DepositTypeOK
<1>1. UNCHANGED unwatched
  BY DEF RunDeposit, monitorVars
<1>2. CASE FindByTxHash
  BY <1>1, <1>2, <1>t DEF FindByTxHash, Fails, Proceed, At, Answered, InTheCall, Status
<1>3. CASE FindWallet
  BY <1>1, <1>3, <1>t DEF FindWallet, Fails, Proceed, At, Answered, InTheCall
<1>4. CASE CreateDeposit
  <2>1. /\ call.pc = "Create"
        /\ deposits' = [deposits EXCEPT ![call.tx] =
                          [status |-> StatusFor(call.conf), conf |-> call.conf]]
    BY <1>4 DEF CreateDeposit, Fails, At
  <2>2. \A r \in Tx : IF r = call.tx THEN deposits'[r].status # "none"
                                     ELSE deposits'[r] = deposits[r]
    BY <2>1, <1>t DEF StatusFor
  <2> QED
    BY <1>1, <2>2 DEF Answered, InTheCall
<1>5. CASE UpdateConfirmations \/ SetConfirmed \/ SetCredited
  <2>1. deposits'[t].status = deposits[t].status \/ deposits'[t].status # "none"
    BY <1>5, <1>t DEF UpdateConfirmations, SetConfirmed, SetCredited
  <2>2. ~InTheCall(t)
    BY <1>5 DEF UpdateConfirmations, SetConfirmed, SetCredited, At, InTheCall
  <2> QED
    BY <1>1, <2>1, <2>2 DEF Answered
<1>6. CASE UpdateBalance \/ CreateTransaction
  BY <1>1, <1>6 DEF UpdateBalance, CreateTransaction, At, Answered, InTheCall
<1> QED
  BY <1>2, <1>3, <1>4, <1>5, <1>6 DEF RunDeposit, ProcessDeposit

LEMMA BlocksStep ==
  ASSUME TypeInv, ScanInv, BlocksOnChain, [Next]_vars
  PROVE  BlocksOnChain'
<1>t. /\ head \in Nat /\ lastBlock \in Nat /\ scan \in ScanRecord
      /\ scan.left \subseteq Nat /\ visited \subseteq Nat
  BY DEF TypeInv, TypeOK, ScanRecord, Height
<1>1. ASSUME NEW ts \in SUBSET Tx, NewBlock(ts) PROVE BlocksOnChain'
  BY <1>1, <1>t DEF NewBlock, BlocksOnChain
<1>2. CASE ScanNewBlocks
  <2> DEFINE first == IF head - lastBlock > MaxBlocksPerPoll
                        THEN (head + 1) - MaxBlocksPerPoll ELSE lastBlock + 1
  <2>1. first \in Int /\ first > 0
    BY <1>t
  <2>2. scan'.left \subseteq first .. head /\ UNCHANGED <<head, visited>>
    BY <1>2 DEF ScanNewBlocks, NoScan
  <2> HIDE DEF first
  <2> QED
    BY <2>1, <2>2, <1>t DEF BlocksOnChain
<1>3. ASSUME NEW n \in Height, OpenBlock(n) \/ FetchFails(n) PROVE BlocksOnChain'
  <2>1. UNCHANGED <<head, visited>>
    BY <1>3 DEF OpenBlock, FetchFails
  <2>2. NoScan.left = {}
    BY DEF NoScan
  <2>3. scan'.left \subseteq scan.left
    <3>1. CASE OpenBlock(n)
      BY <3>1, <1>t DEF OpenBlock, ScanRecord
    <3>2. CASE FetchFails(n)
      BY <3>2, <2>2, <1>t DEF FetchFails, ScanRecord
    <3> QED
      BY <1>3, <3>1, <3>2
  <2> QED
    BY <2>1, <2>3 DEF BlocksOnChain
<1>4. ASSUME NEW t \in Tx, IgnoreTransfer(t) \/ HandleDeposit(t) PROVE BlocksOnChain'
  <2>1. scan'.left = scan.left /\ UNCHANGED <<head, visited>>
    BY <1>4, <1>t DEF IgnoreTransfer, HandleDeposit, ScanRecord
  <2> QED
    BY <2>1 DEF BlocksOnChain
<1>5. CASE CloseBlock
  <2>1. /\ scan'.left = scan.left \ {scan.current} /\ UNCHANGED head
        /\ scan.current \in scan.left /\ visited' = visited \union {scan.current}
    BY <1>5, <1>t DEF CloseBlock, ScanRecord, ScanInv, IsNext
  <2> QED
    BY <2>1 DEF BlocksOnChain
<1>6. CASE EndScan \/ Stop \/ Start \/ ReadProgress
  <2>1. scan'.left = {} /\ UNCHANGED <<head, visited>>
    BY <1>6 DEF EndScan, Stop, Start, ReadProgress, NoScan
  <2> QED
    BY <2>1 DEF NoScan, BlocksOnChain
<1>7. CASE UNCHANGED <<head, scan, visited>>
  BY <1>7 DEF BlocksOnChain
<1> QED
  BY <1>1, <1>2, <1>3, <1>4, <1>5, <1>6, <1>7
     DEF Next, Monitor, EnrolUser, RefreshCache, StampCache, RunDeposit, vars, monitorVars

LEMMA LookStep ==
  ASSUME TypeInv, BooksInv, ScanInv, LookInv, ~Faults, [Next]_vars, NEW t \in Tx
  PROVE  /\ block[t]' \in visited' => Answered(t)'
         /\ scan'.current # 0 /\ block'[t] = scan'.current =>
              t \in scan'.txs \/ Answered(t)' \/ InTheCall(t)'
<1>t. /\ head \in Nat /\ block \in [Tx -> Nat] /\ scan \in ScanRecord
      /\ call \in [pc : Statement \union {"idle"}, tx : Tx \union {NoTx}, conf : 0 .. MaxConf]
  BY DEF TypeInv, TypeOK, DepositTypeOK, ScanRecord, Height
<1>i. /\ block[t] \in visited => Answered(t)
      /\ scan.current # 0 /\ block[t] = scan.current =>
           t \in scan.txs \/ Answered(t) \/ InTheCall(t)
  BY DEF LookInv, OpenBlockInv, VisitedMeansRecorded, Answered
<1>b. /\ visited \subseteq 1 .. head
      /\ scan.current # 0 => scan.current \in 1 .. head
  BY DEF LookInv, BlocksOnChain, ScanInv, IsNext
<1>1. ASSUME NEW ts \in SUBSET Tx, NewBlock(ts)
      PROVE  /\ block[t]' \in visited' => Answered(t)'
             /\ scan'.current # 0 /\ block'[t] = scan'.current =>
                  t \in scan'.txs \/ Answered(t)' \/ InTheCall(t)'
  <2>1. UNCHANGED <<deposits, call, scan, visited, unwatched>>
    BY <1>1 DEF NewBlock, depositVars
  <2>2. block'[t] = block[t] \/ block'[t] = head + 1
    BY <1>1 DEF NewBlock
  <2>3. block'[t] = head + 1 => block'[t] \notin visited /\ block'[t] # scan.current
    BY <1>b, <1>t
  <2> QED
    BY <2>1, <2>2, <2>3, <1>i DEF Answered, InTheCall
<1>2. CASE UNCHANGED <<block, deposits, call, scan, visited, unwatched>>
  BY <1>2, <1>i DEF Answered, InTheCall
<1>3. CASE ScanNewBlocks \/ EndScan \/ Start \/ ReadProgress
  <2>1. UNCHANGED <<block, deposits, visited, unwatched>>
    BY <1>3 DEF ScanNewBlocks, EndScan, Start, ReadProgress, depositVars
  <2>2. scan'.current = 0
    <3>1. CASE ScanNewBlocks
      BY <3>1 DEF ScanNewBlocks, NoScan
    <3>2. CASE EndScan
      BY <3>2 DEF EndScan, NoScan
    <3>3. CASE Start \/ ReadProgress
      BY <3>3 DEF Start, ReadProgress, NoScan
    <3> QED
      BY <1>3, <3>1, <3>2, <3>3
  <2> QED
    BY <2>1, <2>2, <1>i DEF Answered
<1>4. CASE Stop
  <2>1. scan'.current = 0 /\ UNCHANGED <<block, deposits, visited, unwatched>>
    BY <1>4 DEF Stop, DropCall, NoScan
  <2> QED
    BY <2>1, <1>i DEF Answered
<1>5. ASSUME NEW n \in Height, OpenBlock(n)
      PROVE  /\ block[t]' \in visited' => Answered(t)'
             /\ scan'.current # 0 /\ block'[t] = scan'.current =>
                  t \in scan'.txs \/ Answered(t)' \/ InTheCall(t)'
  <2>1. /\ scan'.current = n /\ scan'.txs = {r \in Tx : block[r] = n}
        /\ UNCHANGED <<block, deposits, visited, unwatched>>
    BY <1>5, <1>t DEF OpenBlock, ScanRecord, depositVars
  <2> QED
    BY <2>1, <1>i DEF Answered
<1>6. ASSUME NEW r \in Tx, IgnoreTransfer(r) \/ HandleDeposit(r)
      PROVE  /\ block[t]' \in visited' => Answered(t)'
             /\ scan'.current # 0 /\ block'[t] = scan'.current =>
                  t \in scan'.txs \/ Answered(t)' \/ InTheCall(t)'
  <2>1. /\ scan'.current = scan.current /\ scan'.txs = scan.txs \ {r}
        /\ UNCHANGED <<block, deposits, visited>> /\ ~Calling
    BY <1>6, <1>t DEF IgnoreTransfer, HandleDeposit, Scanning, ScanRecord, depositVars
  <2>2. \/ unwatched' = unwatched \union {r}
        \/ unwatched' = unwatched /\ call'.pc = "FindByTxHash" /\ call'.tx = r
    BY <1>6 DEF IgnoreTransfer, HandleDeposit, Begin
  <2>3. ~InTheCall(t)
    BY <2>1 DEF Calling, InTheCall
  <2> QED
    BY <2>1, <2>2, <2>3, <1>i DEF Answered, InTheCall
<1>7. CASE RunDeposit
  <2>1. UNCHANGED <<block, scan, visited>>
    BY <1>7 DEF RunDeposit, monitorVars
  <2> QED
    BY <2>1, <1>i, <1>7, StatementAnswers
<1>8. CASE CloseBlock
  <2>1. /\ scan'.current = 0 /\ scan.txs = {} /\ scan.current # 0 /\ ~Calling
        /\ visited' = visited \union {scan.current}
        /\ UNCHANGED <<block, deposits, unwatched>>
    BY <1>8, <1>t DEF CloseBlock, Scanning, ScanRecord, depositVars
  <2>2. ~InTheCall(t)
    BY <2>1 DEF Calling, InTheCall
  <2> QED
    BY <2>1, <2>2, <1>i DEF Answered
<1>9. ASSUME NEW n \in Height PROVE ~FetchFails(n)
  BY DEF FetchFails
<1> QED
  BY <1>1, <1>2, <1>3, <1>4, <1>5, <1>6, <1>7, <1>8, <1>9
     DEF Next, Monitor, EnrolUser, RefreshCache, StampCache, vars, monitorVars, depositVars

(* While no call fails, every transfer of a block that counts as looked at *)
(* has its record, unless its address was not watched; restarts in the     *)
(* middle of a block or of a call change nothing about it.                 *)
THEOREM VisitedIsRecorded == Spec => []VisitedMeansRecorded
<1> DEFINE Inv == TypeInv /\ BooksInv /\ ScanInv /\ LookInv
<1>1. Init => Inv
  BY TypeInit, BooksInit
     DEF Init, ScanInv, ProgressCovered, LookInv, BlocksOnChain, OpenBlockInv,
         VisitedMeansRecorded, NoScan
<1>2. Inv /\ [Next]_vars => Inv'
  <2> SUFFICES ASSUME Inv, [Next]_vars PROVE Inv'
    OBVIOUS
  <2>1. TypeInv' /\ BooksInv'
    BY TypeStep, BooksStep
  <2>2. ScanInv'
    <3>1. CASE UNCHANGED vars
      BY <3>1 DEF vars, monitorVars, ScanInv, ProgressCovered, Done, IsNext
    <3> QED
      BY <3>1, ScanStep
  <2>3. BlocksOnChain'
    BY BlocksStep DEF LookInv
  <2>4. OpenBlockInv' /\ VisitedMeansRecorded'
    BY LookStep DEF OpenBlockInv, VisitedMeansRecorded, Answered
  <2> QED
    BY <2>1, <2>2, <2>3, <2>4 DEF LookInv
<1>3. Inv => VisitedMeansRecorded
  BY DEF LookInv
<1> QED
  BY <1>1, <1>2, <1>3, PTL DEF Spec

=============================================================================
