--------------------------- MODULE DepositService ---------------------------
(***************************************************************************)
(* DepositService.ProcessDeposit: what one on-chain transfer does to the   *)
(* database.  The call is a sequence of MySQL statements outside any       *)
(* transaction, so each statement is an action of its own; between two of  *)
(* them the process may die, and each may fail with or without having      *)
(* taken effect (an error can be the loss of the answer).                  *)
(*                                                                         *)
(* Only the deposit monitor's goroutine calls ProcessDeposit, one transfer *)
(* at a time: call is that one activation, call.pc the statement it is     *)
(* about to execute.  A wallet is a pair <<user, currency>>; instead of a  *)
(* sum the model counts in credits and creditedTo how often and where the  *)
(* amount of a transfer was added.                                         *)
(***************************************************************************)
EXTENDS AddressCache

CONSTANTS Tx,            \* the on-chain transfers to users of the bot
          To,            \* the user whose deposit address a transfer pays
          Currency,      \* the currency a transfer moves: "USDT" or "TRX"
          RequiredConf,  \* system_configs deposit_confirmations (default 3)
          MaxConf,       \* bound: largest confirmation number reported
          NoTx           \* no transfer

ASSUME DepositAssumption ==
  /\ To \in [Tx -> User]
  /\ Currency \in [Tx -> {"USDT", "TRX"}]
  /\ RequiredConf \in Nat \ {0}
  /\ MaxConf \in Nat
  /\ NoTx \notin Tx

VARIABLES deposits,    \* MySQL: the deposits row of a transfer (tx_hash is unique)
          credits,     \* how often the amount was added to some wallet's balance
          creditedTo,  \* the wallets it was added to
          journal,     \* how many transactions rows record it
          notices,     \* deposit notifications sent, counted up to NoticeCap
          call         \* the running ProcessDeposit call

depositVars == <<deposits, credits, creditedTo, journal, notices, call>>

Status == {"none", "Pending", "Confirmed", "Credited"}

Statement == {"FindByTxHash", "FindWallet", "Create", "UpdateConfirmations",
              "SetConfirmed", "FindWalletAgain", "UpdateBalance",
              "CreateTransaction", "SetCredited"}

OnChain == {"USDT", "TRX"}

Wallet == User \X {"USDT", "TRX", "CNY"}

\* Register creates the wallets of a user in this order, so ids grow with it.
WalletRank == [c \in OnChain |-> IF c = "USDT" THEN 1 ELSE 2]

\* Bound: the second notification of a transfer is the last one counted.
NoticeCap == 2

NoRow  == [status |-> "none", conf |-> 0]
NoCall == [pc |-> "idle", tx |-> NoTx, conf |-> 0]

DepositTypeOK ==
  /\ deposits \in [Tx -> [status : Status, conf : 0 .. MaxConf]]
  /\ credits \in [Tx -> Nat]
  /\ creditedTo \in [Tx -> SUBSET Wallet]
  /\ journal \in [Tx -> Nat]
  /\ notices \in [Tx -> 0 .. NoticeCap]
  /\ call \in [pc : Statement \union {"idle"}, tx : Tx \union {NoTx}, conf : 0 .. MaxConf]
  /\ call.pc # "idle" => call.tx \in Tx

DepositInit ==
  /\ deposits = [t \in Tx |-> NoRow]
  /\ credits = [t \in Tx |-> 0]
  /\ creditedTo = [t \in Tx |-> {}]
  /\ journal = [t \in Tx |-> 0]
  /\ notices = [t \in Tx |-> 0]
  /\ call = NoCall

-----------------------------------------------------------------------------
Calling == call.pc # "idle"
At(s)   == call.pc = s

Proceed(s) == call' = [call EXCEPT !.pc = s]
Return     == call' = NoCall

\* An error is wrapped and returned; the monitor logs it and goes on.
Fails == Faults /\ Return

\* WalletRepo.FindByDepositAddress: USDT and TRX share the address, and First
\* takes the wallet with the lowest id.
FirstCurrency ==
  CHOOSE c \in OnChain : \A d \in OnChain : WalletRank[c] <= WalletRank[d]

FindByDepositAddress(u) == <<u, FirstCurrency>>

\* ProcessChainDeposit returns a notification for a credited deposit whose
\* Notified flag is unset, and nothing ever sets the flag; without the balance
\* (or the user) there is no message.
Notify(t) ==
  \/ notices' = [notices EXCEPT ![t] = IF @ < NoticeCap THEN @ + 1 ELSE @]
  \/ Faults /\ UNCHANGED notices

StatusFor(conf) == IF conf >= RequiredConf THEN "Confirmed" ELSE "Pending"

-----------------------------------------------------------------------------
(* The statements of ProcessDeposit, in the order the code makes them.     *)

Begin(t, conf) ==
  /\ ~Calling
  /\ call' = [pc |-> "FindByTxHash", tx |-> t, conf |-> conf]

\* Faulty variant: a confirmed deposit is taken up again at the payment.
FindByTxHashResumes ==
  /\ At("FindByTxHash")
  /\ LET row == deposits[call.tx]
     IN  \/ row.status = "none" /\ Proceed("FindWallet")
         \/ row.status = "Confirmed" /\ Proceed("UpdateBalance")
         \/ row.status \in {"Pending", "Credited"} /\ Return
  /\ UNCHANGED <<deposits, credits, creditedTo, journal, notices>>

\* Faulty variant: the same number of confirmations counts as more.
FindByTxHashRepeats ==
  /\ At("FindByTxHash")
  /\ LET row == deposits[call.tx]
     IN  \/ row.status = "none" /\ Proceed("FindWallet")
         \/ row.status = "Credited" /\ Return
         \/ /\ row.status \in {"Pending", "Confirmed"}
            /\ IF call.conf < row.conf THEN Return ELSE Proceed("UpdateConfirmations")
  /\ UNCHANGED <<deposits, credits, creditedTo, journal, notices>>

\* Faulty variant: the confirmations are not compared.
FindByTxHashOverwrites ==
  /\ At("FindByTxHash")
  /\ LET row == deposits[call.tx]
     IN  \/ row.status = "none" /\ Proceed("FindWallet")
         \/ row.status = "Credited" /\ Return
         \/ row.status \in {"Pending", "Confirmed"} /\ Proceed("UpdateConfirmations")
  /\ UNCHANGED <<deposits, credits, creditedTo, journal, notices>>

FindByTxHash ==
  /\ At("FindByTxHash")
  /\ LET row == deposits[call.tx]
     IN  \/ Fails /\ UNCHANGED notices
         \/ row.status = "none" /\ Proceed("FindWallet") /\ UNCHANGED notices
         \/ row.status = "Credited" /\ Return /\ Notify(call.tx)
         \/ /\ row.status \in {"Pending", "Confirmed"}
            /\ IF call.conf <= row.conf THEN Return ELSE Proceed("UpdateConfirmations")
            /\ UNCHANGED notices
  /\ UNCHANGED <<deposits, credits, creditedTo, journal>>

\* The wallet of a monitored address exists, so the lookup finds one or fails.
FindWallet ==
  /\ \/ At("FindWallet") /\ (Proceed("Create") \/ Fails)
     \/ At("FindWalletAgain") /\ (Proceed("UpdateBalance") \/ Fails)
  /\ UNCHANGED <<deposits, credits, creditedTo, journal, notices>>

\* Faulty variant: a deposit that is confirmed from the start is not paid.
CreateDepositReturns ==
  /\ At("Create")
  /\ deposits' = [deposits EXCEPT ![call.tx] =
                    [status |-> StatusFor(call.conf), conf |-> call.conf]]
  /\ Return
  /\ UNCHANGED <<credits, creditedTo, journal, notices>>

CreateDeposit ==
  /\ At("Create")
  /\ LET status == StatusFor(call.conf)
     IN  \/ /\ deposits' = [deposits EXCEPT ![call.tx] =
                              [status |-> status, conf |-> call.conf]]
            /\ \/ IF status = "Confirmed" THEN Proceed("UpdateBalance") ELSE Return
               \/ Fails
         \/ Fails /\ UNCHANGED deposits
  /\ UNCHANGED <<credits, creditedTo, journal, notices>>

UpdateConfirmations ==
  /\ At("UpdateConfirmations")
  /\ \/ /\ deposits' = [deposits EXCEPT ![call.tx].conf = call.conf]
        /\ \/ IF /\ StatusFor(call.conf) = "Confirmed"
                 /\ deposits[call.tx].status = "Pending"
              THEN Proceed("SetConfirmed") ELSE Return
           \/ Fails
     \/ Fails /\ UNCHANGED deposits
  /\ UNCHANGED <<credits, creditedTo, journal, notices>>

\* Faulty variant: the deposit is closed before it is paid.
SetConfirmedCloses ==
  /\ At("SetConfirmed")
  /\ deposits' = [deposits EXCEPT ![call.tx].status = "Credited"]
  /\ Proceed("FindWalletAgain")
  /\ UNCHANGED <<credits, creditedTo, journal, notices>>

SetConfirmed ==
  /\ At("SetConfirmed")
  /\ \/ /\ deposits' = [deposits EXCEPT ![call.tx].status = "Confirmed"]
        /\ Proceed("FindWalletAgain") \/ Fails
     \/ Fails /\ UNCHANGED deposits
  /\ UNCHANGED <<credits, creditedTo, journal, notices>>

(* creditDeposit: balance, journal, status. *)
UpdateBalance ==
  /\ At("UpdateBalance")
  /\ \/ /\ credits' = [credits EXCEPT ![call.tx] = @ + 1]
        /\ creditedTo' = [creditedTo EXCEPT ![call.tx] =
                            @ \union {FindByDepositAddress(To[call.tx])}]
        /\ Proceed("CreateTransaction") \/ Fails
     \/ Fails /\ UNCHANGED <<credits, creditedTo>>
  /\ UNCHANGED <<deposits, journal, notices>>

\* Faulty variant: a failed insert does not end the call.
CreateTransactionIgnoresError ==
  /\ At("CreateTransaction")
  /\ Proceed("SetCredited")
  /\ \/ journal' = [journal EXCEPT ![call.tx] = @ + 1]
     \/ Faults /\ UNCHANGED journal
  /\ UNCHANGED <<deposits, credits, creditedTo, notices>>

CreateTransaction ==
  /\ At("CreateTransaction")
  /\ \/ /\ journal' = [journal EXCEPT ![call.tx] = @ + 1]
        /\ Proceed("SetCredited") \/ Fails
     \/ Fails /\ UNCHANGED journal
  /\ UNCHANGED <<deposits, credits, creditedTo, notices>>

SetCredited ==
  /\ At("SetCredited")
  /\ \/ /\ deposits' = [deposits EXCEPT ![call.tx].status = "Credited"]
        /\ \/ Return /\ Notify(call.tx)
           \/ Fails /\ UNCHANGED notices
     \/ Fails /\ UNCHANGED <<deposits, notices>>
  /\ UNCHANGED <<credits, creditedTo, journal>>

ProcessDeposit ==
  \/ FindByTxHash
  \/ FindWallet
  \/ CreateDeposit
  \/ UpdateConfirmations
  \/ SetConfirmed
  \/ UpdateBalance
  \/ CreateTransaction
  \/ SetCredited

\* The process dies in the middle of a call.
DropCall ==
  /\ Return
  /\ UNCHANGED <<deposits, credits, creditedTo, journal, notices>>
=============================================================================
