----------------------------- MODULE Withdrawal -----------------------------
(***************************************************************************)
(* On-chain withdrawals from one wallet: WithdrawalUseCase.SubmitWithdrawal *)
(* freezes the amount and records the request; a small one is then         *)
(* approved, broadcast and settled by a goroutine (processAutoWithdrawal), *)
(* any other waits for an administrator of the separate API process, who   *)
(* approves, rejects or completes it by hand.                              *)
(*                                                                         *)
(* The bot's part is a sequence of MySQL statements outside any            *)
(* transaction: task[w] is the statement that withdrawal w is about to     *)
(* execute.  An administrator's call reads the row, then writes in one     *)
(* transaction what it decided from that reading.                          *)
(***************************************************************************)
EXTENDS Integers, FiniteSetsExt

CONSTANTS W,              \* the withdrawals, one submission each
          Amount,         \* the amount of a withdrawal
          Fee,            \* fee, part of the amount
          InitialBalance, \* the balance before the first withdrawal
          DailyMax,       \* limit on the amounts withdrawn today
          AutoThreshold,  \* below it SubmitWithdrawal starts the goroutine
          SendThreshold,  \* above it the sender leaves the transfer to a person
          Admin,          \* concurrent administrator calls
          Faulty,         \* bound: with faults, without them, or both
          NoW             \* no withdrawal

ASSUME WithdrawalAssumption ==
  /\ IsFiniteSet(W)
  /\ Amount \in [W -> Nat \ {0}]
  /\ {Fee, InitialBalance, DailyMax, AutoThreshold, SendThreshold} \subseteq Nat
  /\ Faulty \subseteq BOOLEAN
  /\ NoW \notin W

VARIABLES balance,   \* wallets.balance
          frozen,    \* wallets.frozen_balance
          status,    \* withdrawals.status, none before the row exists
          task,      \* the next statement of the bot for a withdrawal
          admin,     \* the running administrator calls
          sent,      \* how often the bot's transaction reached the chain
          deducted,  \* how often the amount was taken from the balance
          journal,   \* how many transactions rows record it
          met,       \* ghost: the withdrawals on which two actors have met
          faults     \* whether a call may fail and the bot may die anywhere

wVars == <<balance, frozen, status, task, admin, sent, deducted, journal, met, faults>>

WStatus == {"none", "Pending", "Processing", "Completed", "Rejected", "Failed"}

\* The statements of SubmitWithdrawal, and of the goroutine it may start.
Submission == {"FindWallet", "SumToday", "FreezeBalance", "Create", "UndoFreeze"}
Goroutine  == {"FindPending", "SetProcessing", "Send", "Refund", "SetFailed",
               "Unfreeze", "UpdateBalance", "CreateTransaction", "SetCompleted"}

Statement == Submission \union Goroutine

AdminOp == {"approve", "reject", "complete"}

NoAdminCall == [op |-> "idle", w |-> NoW]

WTypeOK ==
  /\ balance \in Int
  /\ frozen \in Int
  /\ status \in [W -> WStatus]
  /\ task \in [W -> Statement \union {"over"}]
  /\ admin \in [Admin -> [op : AdminOp, w : W] \union {NoAdminCall}]
  /\ sent \in [W -> Nat]
  /\ deducted \in [W -> Nat]
  /\ journal \in [W -> Nat]
  /\ met \subseteq W
  /\ faults \in BOOLEAN

WInit ==
  /\ balance = InitialBalance
  /\ frozen = 0
  /\ status = [w \in W |-> "none"]
  /\ task = [w \in W |-> "FindWallet"]
  /\ admin = [a \in Admin |-> NoAdminCall]
  /\ sent = [w \in W |-> 0]
  /\ deducted = [w \in W |-> 0]
  /\ journal = [w \in W |-> 0]
  /\ met = {}
  /\ faults \in Faulty

-----------------------------------------------------------------------------
At(w, s)   == task[w] = s
Goto(w, s) == task' = [task EXCEPT ![w] = s]
Return(w)  == Goto(w, "over")

\* An error ends the submission or the goroutine; it is only logged.
Fails(w) == faults /\ Return(w)

Become(w, s) == status' = [status EXCEPT ![w] = s]

Total(ws) == SumFunctionOnSet(Amount, ws)

\* SumTodayByUserID leaves out the rejected and the failed.
Counted == {w \in W : status[w] \in {"Pending", "Processing", "Completed"}}

-----------------------------------------------------------------------------
(* SubmitWithdrawal. *)

\* ValidateAmount reads the available balance: amount and fee must be there.
FindWallet(w) ==
  /\ At(w, "FindWallet")
  /\ IF balance - frozen >= Amount[w] + Fee
       THEN Goto(w, "SumToday") \/ Fails(w)
       ELSE Return(w)
  /\ UNCHANGED <<balance, frozen, status, admin, sent, deducted, journal, met>>

SumToday(w) ==
  /\ At(w, "SumToday")
  /\ IF Total(Counted) + Amount[w] <= DailyMax
       THEN Goto(w, "FreezeBalance") \/ Fails(w)
       ELSE Return(w)
  /\ UNCHANGED <<balance, frozen, status, admin, sent, deducted, journal, met>>

\* The guard is in the UPDATE's WHERE; it asks for the amount alone.
FreezeBalance(w) ==
  /\ At(w, "FreezeBalance")
  /\ \/ /\ balance >= frozen + Amount[w]
        /\ frozen' = frozen + Amount[w]
        /\ Goto(w, "Create") \/ Fails(w)
     \/ /\ faults \/ balance < frozen + Amount[w]
        /\ Return(w)
        /\ UNCHANGED frozen
  /\ UNCHANGED <<balance, status, admin, sent, deducted, journal, met>>

(* The row is written; a small amount goes on in its own goroutine.  When  *)
(* the insert reports an error the amount is unfrozen.                     *)
Create(w) ==
  /\ At(w, "Create")
  /\ \/ /\ Become(w, "Pending")
        /\ \/ IF Amount[w] < AutoThreshold THEN Goto(w, "FindPending") ELSE Return(w)
           \/ faults /\ Goto(w, "UndoFreeze")
     \/ /\ faults
        /\ Goto(w, "UndoFreeze")
        /\ UNCHANGED status
  /\ UNCHANGED <<balance, frozen, admin, sent, deducted, journal, met>>

\* UnfreezeBalance: guarded by frozen_balance >= amount.
Release(w) == frozen >= Amount[w] /\ frozen' = frozen - Amount[w]
NoRelease(w) == (faults \/ frozen < Amount[w]) /\ UNCHANGED frozen

\* The result of this unfreeze is ignored.
UndoFreeze(w) ==
  /\ At(w, "UndoFreeze")
  /\ Release(w) \/ NoRelease(w)
  /\ Return(w)
  /\ UNCHANGED <<balance, status, admin, sent, deducted, journal, met>>

-----------------------------------------------------------------------------
(* processAutoWithdrawal. *)

\* ApproveWithdrawal reads the row and refuses one that is not pending ...
FindPending(w) ==
  /\ At(w, "FindPending")
  /\ IF status[w] = "Pending" THEN Goto(w, "SetProcessing") \/ Fails(w)
                              ELSE Return(w)
  /\ UNCHANGED <<balance, frozen, status, admin, sent, deducted, journal, met>>

\* ... and saves the whole row it read.
SetProcessing(w) ==
  /\ At(w, "SetProcessing")
  /\ \/ Become(w, "Processing") /\ (Goto(w, "Send") \/ Fails(w))
     \/ Fails(w) /\ UNCHANGED status
  /\ UNCHANGED <<balance, frozen, admin, sent, deducted, journal, met>>

\* Faulty variant: an error of the sender is only logged.
SendLogsError(w) ==
  /\ At(w, "Send")
  /\ \/ Goto(w, "Unfreeze") /\ sent' = [sent EXCEPT ![w] = @ + 1]
     \/ Return(w) /\ UNCHANGED sent
  /\ UNCHANGED <<balance, frozen, status, admin, deducted, journal, met>>

(* SendWithdrawal: nothing above the sender's threshold; otherwise build,  *)
(* sign and broadcast.  An error may be the loss of the node's answer.     *)
Send(w) ==
  /\ At(w, "Send")
  /\ IF Amount[w] - Fee > SendThreshold
       THEN Return(w) /\ UNCHANGED sent
       ELSE \/ /\ sent' = [sent EXCEPT ![w] = @ + 1]
               /\ Goto(w, "Unfreeze") \/ (faults /\ Goto(w, "Refund"))
            \/ /\ Goto(w, "Refund")
               /\ UNCHANGED sent
  /\ UNCHANGED <<balance, frozen, status, admin, deducted, journal, met>>

\* Faulty variant: the amount of a failed withdrawal stays frozen.
RefundForgets(w) ==
  /\ At(w, "Refund")
  /\ Goto(w, "SetFailed")
  /\ UNCHANGED <<balance, frozen, status, admin, sent, deducted, journal, met>>

(* FailWithdrawal: unfreeze, ignoring the result, then mark as failed; the *)
(* status is not looked at.                                                *)
Refund(w) ==
  /\ At(w, "Refund")
  /\ \/ (Release(w) \/ NoRelease(w)) /\ Goto(w, "SetFailed")
     \/ Fails(w) /\ UNCHANGED frozen
  /\ UNCHANGED <<balance, status, admin, sent, deducted, journal, met>>

\* Faulty variant: a status the entity does not define.
SetFailedUnknown(w) ==
  /\ At(w, "SetFailed")
  /\ Return(w)
  /\ Become(w, "Refunded")
  /\ UNCHANGED <<balance, frozen, admin, sent, deducted, journal, met>>

SetFailed(w) ==
  /\ At(w, "SetFailed")
  /\ Return(w)
  /\ Become(w, "Failed") \/ (faults /\ UNCHANGED status)
  /\ UNCHANGED <<balance, frozen, admin, sent, deducted, journal, met>>

(* CompleteWithdrawal: unfreeze, deduct, journal, mark as completed; the   *)
(* status is not looked at.                                                *)
Unfreeze(w) ==
  /\ At(w, "Unfreeze")
  /\ \/ Release(w) /\ (Goto(w, "UpdateBalance") \/ Fails(w))
     \/ NoRelease(w) /\ Return(w)
  /\ UNCHANGED <<balance, status, admin, sent, deducted, journal, met>>

UpdateBalance(w) ==
  /\ At(w, "UpdateBalance")
  /\ \/ /\ balance' = balance - Amount[w]
        /\ deducted' = [deducted EXCEPT ![w] = @ + 1]
        /\ Goto(w, "CreateTransaction") \/ Fails(w)
     \/ Fails(w) /\ UNCHANGED <<balance, deducted>>
  /\ UNCHANGED <<frozen, status, admin, sent, journal, met>>

CreateTransaction(w) ==
  /\ At(w, "CreateTransaction")
  /\ \/ /\ journal' = [journal EXCEPT ![w] = @ + 1]
        /\ Goto(w, "SetCompleted") \/ Fails(w)
     \/ Fails(w) /\ UNCHANGED journal
  /\ UNCHANGED <<balance, frozen, status, admin, sent, deducted, met>>

\* Faulty variant: an error while completing marks the withdrawal as failed.
SetCompletedOrFailed(w) ==
  /\ At(w, "SetCompleted")
  /\ Become(w, "Completed")
  /\ Return(w) \/ (faults /\ Goto(w, "SetFailed"))
  /\ UNCHANGED <<balance, frozen, admin, sent, deducted, journal, met>>

SetCompleted(w) ==
  /\ At(w, "SetCompleted")
  /\ Return(w)
  /\ Become(w, "Completed") \/ (faults /\ UNCHANGED status)
  /\ UNCHANGED <<balance, frozen, admin, sent, deducted, journal, met>>

Submit(w) ==
  \/ FindWallet(w)
  \/ SumToday(w)
  \/ FreezeBalance(w)
  \/ Create(w)
  \/ UndoFreeze(w)

AutoWithdrawal(w) ==
  \/ FindPending(w)
  \/ SetProcessing(w)
  \/ Send(w)
  \/ Refund(w)
  \/ SetFailed(w)
  \/ Unfreeze(w)
  \/ UpdateBalance(w)
  \/ CreateTransaction(w)
  \/ SetCompleted(w)

(* The bot dies: every submission and goroutine under way is lost, and     *)
(* nothing takes it up again.                                              *)
BotDies ==
  /\ faults
  /\ \E w \in W : task[w] \notin {"FindWallet", "over"}
  /\ task' = [w \in W |-> IF task[w] = "FindWallet" THEN "FindWallet" ELSE "over"]
  /\ UNCHANGED <<balance, frozen, status, admin, sent, deducted, journal, met>>

-----------------------------------------------------------------------------
(* AdminUseCase, in the API process. *)

\* Faulty variant: a rejection accepts whatever a completion accepts.
AcceptsOpen(op) == {"Pending", "Processing"}

\* The statuses an operation accepts, judged on a row read beforehand.
Accepts(op) == IF op = "complete" THEN {"Pending", "Processing"} ELSE {"Pending"}

(* Two actors meet on a withdrawal when a call reads it while another call *)
(* or the goroutine is at work on it, or after the bot has died between    *)
(* the deduction and the status that would have told of it.                *)
Occupied(w) ==
  \/ \E b \in Admin : admin[b].w = w
  \/ task[w] \in Goroutine
  \/ deducted[w] > 0

AdminReads(a, op, w) ==
  /\ admin[a] = NoAdminCall
  /\ status[w] \in Accepts(op)
  /\ admin' = [admin EXCEPT ![a] = [op |-> op, w |-> w]]
  /\ met' = IF Occupied(w) THEN met \union {w} ELSE met
  /\ UNCHANGED <<balance, frozen, status, task, sent, deducted, journal>>

AdminReturns(a) == admin' = [admin EXCEPT ![a] = NoAdminCall]

AdminApproves(a) ==
  /\ admin[a].op = "approve"
  /\ Become(admin[a].w, "Processing")
  /\ AdminReturns(a)
  /\ UNCHANGED <<balance, frozen, task, sent, deducted, journal, met>>

\* One transaction: the status, the balance and the frozen balance.
AdminRejects(a) ==
  /\ admin[a].op = "reject"
  /\ Become(admin[a].w, "Rejected")
  /\ balance' = balance + Amount[admin[a].w]
  /\ frozen' = frozen - Amount[admin[a].w]
  /\ AdminReturns(a)
  /\ UNCHANGED <<task, sent, deducted, journal, met>>

\* One transaction; an unfreeze that matched no row is not noticed.
AdminCompletes(a) ==
  LET w == admin[a].w
  IN  /\ admin[a].op = "complete"
      /\ frozen' = IF frozen >= Amount[w] THEN frozen - Amount[w] ELSE frozen
      /\ balance' = balance - Amount[w]
      /\ deducted' = [deducted EXCEPT ![w] = @ + 1]
      /\ journal' = [journal EXCEPT ![w] = @ + 1]
      /\ Become(w, "Completed")
      /\ AdminReturns(a)
      /\ UNCHANGED <<task, sent, met>>

\* The call ends before its transaction, or the transaction is rolled back.
AdminFails(a) ==
  /\ faults
  /\ admin[a] # NoAdminCall
  /\ AdminReturns(a)
  /\ UNCHANGED <<balance, frozen, status, task, sent, deducted, journal, met>>

AdminCall(a) ==
  \/ \E op \in AdminOp, w \in W : AdminReads(a, op, w)
  \/ AdminApproves(a)
  \/ AdminRejects(a)
  \/ AdminCompletes(a)
  \/ AdminFails(a)

WNext ==
  /\ \/ \E w \in W : Submit(w) \/ AutoWithdrawal(w)
     \/ BotDies
     \/ \E a \in Admin : AdminCall(a)
  /\ UNCHANGED faults

WSpec == WInit /\ [][WNext]_wVars

\* A started submission or goroutine keeps running; nobody has to start one.
WFairSpec ==
  /\ WSpec
  /\ \A w \in W : /\ WF_wVars(task[w] # "FindWallet" /\ Submit(w) /\ UNCHANGED faults)
                  /\ WF_wVars(AutoWithdrawal(w) /\ UNCHANGED faults)

-----------------------------------------------------------------------------
(* Whatever fails, whenever the bot dies and however many administrators   *)
(* act at once: a withdrawal is sent at most once and journalled at most   *)
(* as often as it is deducted.  If no two actors have met on it, it was    *)
(* deducted and journalled exactly once when it is marked completed; it    *)
(* was neither sent nor deducted while it is pending or when it was        *)
(* rejected, and not deducted when it failed; and what was deducted had    *)
(* been sent by the bot, or was completed by a person.                     *)
TellsMoney(w) ==
  /\ status[w] = "Completed" => deducted[w] = 1 /\ journal[w] = 1
  /\ status[w] \in {"none", "Pending", "Rejected"} => sent[w] = 0 /\ deducted[w] = 0
  /\ status[w] = "Failed" => deducted[w] = 0
  /\ deducted[w] <= 1
  /\ deducted[w] = 1 /\ sent[w] = 0 => status[w] = "Completed"

StatusTellsMoney ==
  \A w \in W :
    /\ sent[w] <= 1
    /\ journal[w] <= deducted[w]
    /\ w \notin met => TellsMoney(w)

(* While nothing fails and nobody has met, the frozen balance is exactly   *)
(* what the open withdrawals hold, whoever ends each of them, so none      *)
(* finds less than its own amount there.                                   *)
Holding(w) ==
  \/ task[w] \in {"Create", "UndoFreeze"}
  \/ /\ status[w] \in {"Pending", "Processing"}
     /\ task[w] \notin {"SetFailed", "UpdateBalance", "CreateTransaction", "SetCompleted"}

FrozenIsHeld == ~faults /\ met = {} => frozen = Total({w \in W : Holding(w)})

(* Whoever writes its status without looking at it: a withdrawal on which  *)
(* no two actors have met stays what it is when it is completed, rejected  *)
(* or failed, and never waits for a review again once it is processed.     *)
FinalIsFinal ==
  [][\A w \in W \ met :
       /\ status[w] \in {"Completed", "Rejected", "Failed"} => status'[w] = status[w]
       /\ status[w] = "Processing" => status'[w] # "Pending"]_status

(* While nothing fails, a goroutine that was started brings its withdrawal *)
(* to an end, or leaves it to a person because of the sender's threshold,  *)
(* unless an administrator met the goroutine on some withdrawal.           *)
AutoIsAnswered ==
  \A w \in W : ~faults /\ task[w] = "FindPending" ~>
    \/ status[w] \in {"Completed", "Failed"}
    \/ status[w] = "Processing" /\ Amount[w] - Fee > SendThreshold
    \/ met # {}

-----------------------------------------------------------------------------
(* What comments and messages say and the code does not do. *)

(* admin_usecase.go CompleteWithdrawalManually "只有处理中 (processing) 或   *)
(* 待审核 (pending) 的提币可以手动完成": only a withdrawal that is processed   *)
(* or waits for a review is completed, whatever others decide meanwhile.   *)
OnlyOpenIsCompleted ==
  [][\A w \in W : status'[w] = "Completed" => status[w] # "Rejected"]_status
=============================================================================
