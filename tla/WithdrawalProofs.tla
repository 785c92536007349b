-------------------------- MODULE WithdrawalProofs --------------------------
(***************************************************************************)
(* Proofs about Withdrawal, for every set of withdrawals, all amounts and  *)
(* any number of administrators who act at once: types, what the statuses  *)
(* promise, that settled withdrawals stay settled, and what is frozen.     *)
(***************************************************************************)
EXTENDS Withdrawal, SumLemmas, TLAPS

(* The counters and tasks keep their types under every statement. *)
LEMMA WTypeStep == WTypeOK /\ [WNext]_wVars => WTypeOK'
<1> SUFFICES ASSUME WTypeOK, [WNext]_wVars PROVE WTypeOK'
  OBVIOUS
<1> USE WithdrawalAssumption
<1>0. UNCHANGED faults
  BY DEF WNext, wVars
<1>1. ASSUME NEW w \in W, Submit(w) PROVE WTypeOK'
  BY <1>0, <1>1 DEF WTypeOK, Submission, Goroutine, Submit, FindWallet, SumToday, FreezeBalance, Create, UndoFreeze,
     Release, NoRelease, At, Goto, Return, Fails, Become, WStatus, Statement
<1>2. ASSUME NEW w \in W, AutoWithdrawal(w) PROVE WTypeOK'
  BY <1>0, <1>2 DEF WTypeOK, Submission, Goroutine, AutoWithdrawal, FindPending, SetProcessing, Send, Refund, SetFailed,
     Unfreeze, UpdateBalance, CreateTransaction, SetCompleted, Release, NoRelease,
     At, Goto, Return, Fails, Become, WStatus, Statement
<1>3. CASE BotDies
  BY <1>0, <1>3 DEF WTypeOK, BotDies, Statement
<1>4. ASSUME NEW a \in Admin, AdminCall(a) PROVE WTypeOK'
  <2>1. ASSUME NEW op \in AdminOp, NEW w \in W, AdminReads(a, op, w) PROVE WTypeOK'
    BY <1>0, <2>1 DEF WTypeOK, AdminReads
  <2>2. ASSUME admin[a] # NoAdminCall PROVE admin[a].w \in W
    BY <2>2 DEF WTypeOK
  <2>3. ASSUME AdminApproves(a) \/ AdminRejects(a) \/ AdminCompletes(a) PROVE admin[a].w \in W
    BY <2>2, <2>3 DEF AdminApproves, AdminRejects, AdminCompletes, NoAdminCall
  <2>4. CASE AdminApproves(a)
    BY <1>0, <2>3, <2>4 DEF WTypeOK, AdminApproves, AdminReturns, Become, WStatus
  <2>5. CASE AdminRejects(a)
    BY <1>0, <2>3, <2>5 DEF WTypeOK, AdminRejects, AdminReturns, Become, WStatus
  <2>6. CASE AdminCompletes(a)
    BY <1>0, <2>3, <2>6 DEF WTypeOK, AdminCompletes, AdminReturns, Become, WStatus
  <2>7. CASE AdminFails(a)
    BY <1>0, <2>7 DEF WTypeOK, AdminFails, AdminReturns
  <2> QED
    BY <1>4, <2>1, <2>4, <2>5, <2>6, <2>7 DEF AdminCall
<1>5. CASE UNCHANGED wVars
  BY <1>5 DEF WTypeOK, wVars
<1> QED
  BY <1>1, <1>2, <1>3, <1>4, <1>5 DEF WNext

(* Every reachable state of the withdrawals, with any number of concurrent *)
(* administrators, has its type: the guards of WithdrawalService and of    *)
(* AdminUseCase write only the statuses the entity defines.                *)
THEOREM WTypeCorrect == WSpec => []WTypeOK
<1>1. WInit => WTypeOK
  BY WithdrawalAssumption DEF WInit, WTypeOK, WStatus, Statement, Submission
<1> QED
  BY <1>1, WTypeStep, PTL DEF WSpec

-----------------------------------------------------------------------------
(* What is true of every withdrawal, also of one on which actors have met: *)
(* the goroutine goes forward only, and nobody handles what has no row.    *)
Forward(w) ==
  /\ task[w] \in {"FindWallet", "SumToday", "FreezeBalance", "Create"} =>
       status[w] = "none" /\ sent[w] = 0 /\ deducted[w] = 0 /\ journal[w] = 0
  /\ task[w] \in {"UndoFreeze", "FindPending", "SetProcessing", "Send"} => sent[w] = 0
  /\ task[w] = "CreateTransaction" => journal[w] < deducted[w]
  /\ sent[w] <= 1
  /\ journal[w] <= deducted[w]

(* What each statement of the bot finds if nobody has met it: the status   *)
(* and the counters are determined by how far it came.                     *)
Found(w) ==
  /\ task[w] \in {"FindPending", "SetProcessing"} => status[w] = "Pending"
  /\ task[w] \in {"Send", "Refund", "SetFailed"} => status[w] = "Processing" /\ deducted[w] = 0
  /\ task[w] \in {"Unfreeze", "UpdateBalance"} =>
       status[w] = "Processing" /\ sent[w] = 1 /\ deducted[w] = 0
  /\ task[w] \in {"CreateTransaction", "SetCompleted"} =>
       status[w] = "Processing" /\ sent[w] = 1 /\ deducted[w] = 1
  /\ task[w] = "SetCompleted" => journal[w] = 1

(* An administrator is alone with what he has read, and it still holds.    *)
Alone(w) ==
  /\ \A a \in Admin : admin[a].w = w =>
       /\ task[w] \in {"UndoFreeze", "over"}
       /\ status[w] \in Accepts(admin[a].op)
       /\ deducted[w] = 0
  /\ \A a, b \in Admin : admin[a].w = w /\ admin[b].w = w => a = b

Books(w) == Forward(w) /\ (w \notin met => Found(w) /\ Alone(w) /\ TellsMoney(w))

\* A withdrawal that is being handled has a row.
HasRow == \A a \in Admin : admin[a].w \in W => status[admin[a].w] # "none"

WInv == WTypeOK /\ HasRow /\ \A w \in W : Books(w)

\* Nothing of v changes, and no call takes it up.
Leaves(v) ==
  /\ task'[v] = task[v] /\ status'[v] = status[v]
  /\ sent'[v] = sent[v] /\ deducted'[v] = deducted[v] /\ journal'[v] = journal[v]
  /\ v \in met => v \in met'
  /\ \A a \in Admin : admin'[a].w = v => admin'[a] = admin[a]

LEMMA BooksKept == ASSUME NEW v \in W, Books(v), Leaves(v) PROVE Books(v)'
<1>1. Forward(v)'
  BY DEF Books, Leaves, Forward
<1>2. ASSUME v \notin met' PROVE Found(v)' /\ Alone(v)' /\ TellsMoney(v)'
  <2>1. Found(v) /\ Alone(v) /\ TellsMoney(v)
    BY <1>2 DEF Books, Leaves
  <2>2. Found(v)'
    BY <2>1 DEF Leaves, Found
  <2>3. Alone(v)'
    BY <2>1 DEF Leaves, Alone
  <2>4. TellsMoney(v)'
    BY <2>1 DEF Leaves, TellsMoney
  <2> QED
    BY <2>2, <2>3, <2>4
<1> QED
  BY <1>1, <1>2 DEF Books

(* Submitting and the goroutine disturb only their own withdrawal, and     *)
(* each statement finds what the one before left.                          *)
LEMMA BotStep ==
  ASSUME WInv, NEW w \in W, Submit(w) \/ AutoWithdrawal(w), UNCHANGED faults PROVE WInv'
<1> USE WithdrawalAssumption DEF At, Goto, Return, Fails, Become
<1>1. WTypeOK'
  BY WTypeStep DEF WInv, WNext
<1>2. UNCHANGED <<admin, met>>
  BY DEF Submit, FindWallet, SumToday, FreezeBalance, Create, UndoFreeze, AutoWithdrawal,
     FindPending, SetProcessing, Send, Refund, SetFailed, Unfreeze, UpdateBalance,
     CreateTransaction, SetCompleted
<1>3. ASSUME NEW v \in W, v # w PROVE Books(v)'
  <2>1. Leaves(v)
    BY <1>2, <1>3 DEF Leaves, WInv, WTypeOK, Submit, FindWallet, SumToday, FreezeBalance,
       Create, UndoFreeze, AutoWithdrawal, FindPending, SetProcessing, Send, Refund, SetFailed,
       Unfreeze, UpdateBalance, CreateTransaction, SetCompleted
  <2> QED
    BY <2>1, BooksKept DEF WInv
<1>4. \A v \in W : status'[v] = status[v] \/ status'[v] # "none"
  BY DEF WInv, WTypeOK, Submit, FindWallet, SumToday, FreezeBalance,
     Create, UndoFreeze, AutoWithdrawal, FindPending, SetProcessing, Send, Refund, SetFailed,
     Unfreeze, UpdateBalance, CreateTransaction, SetCompleted
<1>5. HasRow'
  BY <1>2, <1>4 DEF HasRow, WInv
<1>6. Forward(w)'
  <2> USE DEF WInv, WTypeOK, Books, Forward
  <2>1. CASE Submit(w)
    BY <2>1 DEF Submit, FindWallet, SumToday, FreezeBalance, Create, UndoFreeze
  <2>2. CASE FindPending(w) \/ SetProcessing(w) \/ Send(w)
    BY <2>2 DEF FindPending, SetProcessing, Send
  <2>3. CASE Refund(w) \/ SetFailed(w) \/ Unfreeze(w)
    BY <2>3 DEF Refund, SetFailed, Unfreeze
  <2>4. CASE UpdateBalance(w) \/ CreateTransaction(w) \/ SetCompleted(w)
    BY <2>4 DEF UpdateBalance, CreateTransaction, SetCompleted
  <2> QED
    BY <2>1, <2>2, <2>3, <2>4 DEF AutoWithdrawal
<1>7. ASSUME w \notin met PROVE Found(w)' /\ TellsMoney(w)'
  <2> USE <1>7 DEF WInv, WTypeOK, Books, Forward, Found, TellsMoney
  <2>1. CASE Submit(w)
    BY <2>1 DEF Submit, FindWallet, SumToday, FreezeBalance, Create, UndoFreeze
  <2>2. CASE FindPending(w) \/ SetProcessing(w) \/ Send(w)
    BY <2>2 DEF FindPending, SetProcessing, Send
  <2>3. CASE Refund(w) \/ SetFailed(w) \/ Unfreeze(w)
    BY <2>3 DEF Refund, SetFailed, Unfreeze
  <2>4. CASE UpdateBalance(w) \/ CreateTransaction(w) \/ SetCompleted(w)
    BY <2>4 DEF UpdateBalance, CreateTransaction, SetCompleted
  <2> QED
    BY <2>1, <2>2, <2>3, <2>4 DEF AutoWithdrawal
<1>8. ASSUME w \notin met PROVE Alone(w)'
  <2>1. Alone(w) /\ Forward(w)
    BY <1>8 DEF WInv, Books
  <2>2. CASE task[w] = "UndoFreeze"
    <3>1. UndoFreeze(w)
      BY <2>2 DEF Submit, FindWallet, SumToday, FreezeBalance, Create, UndoFreeze,
         AutoWithdrawal, FindPending, SetProcessing, Send, Refund, SetFailed, Unfreeze,
         UpdateBalance, CreateTransaction, SetCompleted
    <3>2. task'[w] = "over" /\ status' = status /\ deducted' = deducted
      BY <3>1 DEF UndoFreeze, WInv, WTypeOK
    <3> QED
      BY <1>2, <2>1, <2>2, <3>2 DEF Alone
  <2>3. CASE task[w] # "UndoFreeze"
    <3>1. task[w] # "over"
      BY DEF Submit, FindWallet, SumToday, FreezeBalance, Create, UndoFreeze,
         AutoWithdrawal, FindPending, SetProcessing, Send, Refund, SetFailed, Unfreeze,
         UpdateBalance, CreateTransaction, SetCompleted
    <3>2. \A a \in Admin : admin[a].w # w
      BY <2>1, <2>3, <3>1 DEF Alone
    <3> QED
      BY <1>2, <3>2 DEF Alone
  <2> QED
    BY <2>2, <2>3
<1> QED
  BY <1>1, <1>2, <1>3, <1>5, <1>6, <1>7, <1>8 DEF WInv, Books

(* When an administrator reads a withdrawal that somebody else is at work  *)
(* on, they have met; otherwise he is alone with it.                       *)
LEMMA ReadStep ==
  ASSUME WInv, NEW a \in Admin, NEW op \in AdminOp, NEW w \in W, AdminReads(a, op, w),
         UNCHANGED faults
  PROVE  WInv'
<1> USE WithdrawalAssumption
<1>1. WTypeOK'
  <2>1. AdminCall(a)
    BY DEF AdminCall
  <2> QED
    BY <2>1, WTypeStep DEF WInv, WNext
<1>2. /\ admin' = [admin EXCEPT ![a] = [op |-> op, w |-> w]]
      /\ UNCHANGED <<status, task, sent, deducted, journal>>
      /\ status[w] \in Accepts(op)
      /\ met \subseteq met'
  BY DEF AdminReads
<1>3. \A b \in Admin : admin'[b] = IF b = a THEN [op |-> op, w |-> w] ELSE admin[b]
  BY <1>2 DEF WInv, WTypeOK
<1>4. status[w] \in {"Pending", "Processing"}
  BY <1>2 DEF Accepts
<1>5. HasRow'
  BY <1>2, <1>3, <1>4 DEF HasRow, WInv
<1>6. ASSUME NEW v \in W, v # w PROVE Books(v)'
  <2>1. Leaves(v)
    BY <1>2, <1>3, <1>6 DEF Leaves
  <2> QED
    BY <2>1, BooksKept DEF WInv
<1>7. Forward(w)'
  BY <1>2 DEF WInv, Books, Forward
<1>8. ASSUME w \notin met' PROVE Found(w)' /\ Alone(w)' /\ TellsMoney(w)'
  <2>1. w \notin met /\ ~Occupied(w)
    BY <1>8 DEF AdminReads
  <2>2. Found(w)' /\ TellsMoney(w)'
    BY <1>2, <2>1 DEF WInv, Books, Found, TellsMoney
  <2>3. task[w] \in {"UndoFreeze", "over"} /\ deducted[w] = 0
    BY <1>4, <2>1 DEF Occupied, Goroutine, Submission, Statement, WInv, WTypeOK, Books, Forward
  <2>4. \A b \in Admin : admin[b].w # w
    BY <2>1 DEF Occupied
  <2>5. Alone(w)'
    BY <1>2, <1>3, <2>3, <2>4 DEF Alone
  <2> QED
    BY <2>2, <2>5
<1> QED
  BY <1>1, <1>5, <1>6, <1>7, <1>8 DEF WInv, Books

(* What an administrator decides from his reading still holds when he      *)
(* writes, unless he has met somebody.                                     *)
LEMMA WriteStep ==
  ASSUME WInv, NEW a \in Admin, AdminApproves(a) \/ AdminRejects(a) \/ AdminCompletes(a),
         UNCHANGED faults
  PROVE  WInv'
<1> USE WithdrawalAssumption
<1>1. WTypeOK'
  <2>1. AdminCall(a)
    BY DEF AdminCall
  <2> QED
    BY <2>1, WTypeStep DEF WInv, WNext
<1>2. admin[a] # NoAdminCall
  BY DEF AdminApproves, AdminRejects, AdminCompletes, NoAdminCall
<1>3. PICK w \in W : w = admin[a].w
  BY <1>2 DEF WInv, WTypeOK
<1>4. \A b \in Admin : admin'[b] = IF b = a THEN NoAdminCall ELSE admin[b]
  BY DEF AdminApproves, AdminRejects, AdminCompletes, AdminReturns, WInv, WTypeOK
<1>5. NoAdminCall.w \notin W
  BY DEF NoAdminCall
<1>6. /\ UNCHANGED <<task, sent, met>>
      /\ \/ status' = [status EXCEPT ![w] = "Processing"] /\ UNCHANGED <<deducted, journal>>
            /\ admin[a].op = "approve"
         \/ status' = [status EXCEPT ![w] = "Rejected"] /\ UNCHANGED <<deducted, journal>>
            /\ admin[a].op = "reject"
         \/ status' = [status EXCEPT ![w] = "Completed"] /\ admin[a].op = "complete"
            /\ deducted' = [deducted EXCEPT ![w] = @ + 1]
            /\ journal' = [journal EXCEPT ![w] = @ + 1]
  BY <1>3 DEF AdminApproves, AdminRejects, AdminCompletes, Become
<1>7. status'[w] # "none" /\ \A v \in W \ {w} : status'[v] = status[v]
  BY <1>6 DEF WInv, WTypeOK
<1>8. HasRow'
  BY <1>4, <1>5, <1>7 DEF HasRow, WInv
<1>9. ASSUME NEW v \in W, v # w PROVE Books(v)'
  <2>1. Leaves(v)
    BY <1>4, <1>5, <1>6, <1>9 DEF Leaves, WInv, WTypeOK
  <2> QED
    BY <2>1, BooksKept DEF WInv
<1>10. Forward(w)'
  <2>1. status[w] # "none"
    BY <1>3 DEF WInv, HasRow
  <2> QED
    BY <1>6, <2>1 DEF WInv, WTypeOK, Books, Forward
<1>11. ASSUME w \notin met PROVE Found(w)' /\ Alone(w)' /\ TellsMoney(w)'
  <2>1. Found(w) /\ Alone(w) /\ TellsMoney(w) /\ Forward(w)
    BY <1>11 DEF WInv, Books
  <2>2. task[w] \in {"UndoFreeze", "over"} /\ deducted[w] = 0 /\ status[w] \in Accepts(admin[a].op)
    BY <1>3, <2>1 DEF Alone
  <2>3. \A b \in Admin : admin'[b].w # w
    BY <1>3, <1>4, <1>5, <2>1 DEF Alone
  <2>4. Alone(w)'
    BY <2>3 DEF Alone
  <2>5. Found(w)'
    BY <1>6, <2>2 DEF Found
  <2>6. TellsMoney(w)'
    <3>1. journal[w] = 0
      BY <2>1, <2>2 DEF Forward, WInv, WTypeOK
    <3> QED
      BY <1>6, <2>1, <2>2, <3>1 DEF TellsMoney, Accepts, WInv, WTypeOK
  <2> QED
    BY <2>4, <2>5, <2>6
<1> QED
  BY <1>1, <1>6, <1>8, <1>9, <1>10, <1>11 DEF WInv, Books

(* The invariant is inductive. *)
LEMMA WInvStep == WInv /\ [WNext]_wVars => WInv'
<1> SUFFICES ASSUME WInv, [WNext]_wVars PROVE WInv'
  OBVIOUS
<1>0. WTypeOK' /\ UNCHANGED faults
  BY WTypeStep DEF WInv, WNext, wVars
<1>1. ASSUME NEW w \in W, Submit(w) \/ AutoWithdrawal(w) PROVE WInv'
  BY <1>0, <1>1, BotStep
<1>2. CASE BotDies
  <2>1. /\ UNCHANGED <<status, admin, sent, deducted, journal, met>>
        /\ \A w \in W : task'[w] = IF task[w] = "FindWallet" THEN "FindWallet" ELSE "over"
    BY <1>2 DEF BotDies
  <2>2. \A w \in W : Forward(w)' /\ (w \notin met => Found(w)' /\ Alone(w)' /\ TellsMoney(w)')
    BY <2>1 DEF WInv, Books, Forward, Found, Alone, TellsMoney
  <2> QED
    BY <1>0, <2>1, <2>2 DEF WInv, HasRow, Books
<1>3. ASSUME NEW a \in Admin, AdminCall(a) PROVE WInv'
  <2>1. CASE AdminFails(a)
    <3>1. /\ UNCHANGED <<status, task, sent, deducted, journal, met>>
          /\ \A b \in Admin : admin'[b] = IF b = a THEN NoAdminCall ELSE admin[b]
      BY <2>1 DEF AdminFails, AdminReturns, WInv, WTypeOK
    <3>2. NoAdminCall.w \notin W
      BY WithdrawalAssumption DEF NoAdminCall
    <3>3. \A v \in W : Leaves(v)
      BY <3>1, <3>2 DEF Leaves
    <3> QED
      BY <1>0, <3>1, <3>2, <3>3, BooksKept DEF WInv, HasRow
  <2> QED
    BY <1>0, <1>3, <2>1, ReadStep, WriteStep DEF AdminCall
<1>4. CASE UNCHANGED wVars
  <2>1. HasRow'
    BY <1>4 DEF wVars, WInv, HasRow
  <2>2. \A v \in W : Leaves(v)
    BY <1>4 DEF wVars, Leaves
  <2> QED
    BY <1>0, <2>1, <2>2, BooksKept DEF WInv
<1> QED
  BY <1>1, <1>2, <1>3, <1>4 DEF WNext

(* The invariant holds from the start. *)
LEMMA WInvInit == WInit => WInv
<1> SUFFICES ASSUME WInit PROVE WInv
  OBVIOUS
<1> USE WithdrawalAssumption
<1>1. WTypeOK
  BY DEF WInit, WTypeOK, WStatus, Statement, Submission
<1>2. \A a \in Admin : admin[a].w \notin W
  BY DEF WInit, NoAdminCall
<1>3. \A w \in W : Forward(w) /\ Found(w) /\ TellsMoney(w)
  BY DEF WInit, Forward, Found, TellsMoney
<1> QED
  BY <1>1, <1>2, <1>3 DEF WInv, HasRow, Books, Alone

(* Whatever fails, whenever the bot dies and however many administrators   *)
(* act at once, the status of a withdrawal on which nobody has met tells   *)
(* what happened to its money, and none is sent twice.                     *)
THEOREM WithdrawalStatusIsTruthful == WSpec => []StatusTellsMoney
<1>1. WInv => StatusTellsMoney
  BY DEF WInv, Books, Forward, StatusTellsMoney
<1> QED
  BY <1>1, WInvInit, WInvStep, PTL DEF WSpec

(* The statements that write a status know it although they do not look.   *)
LEMMA StatusStep ==
  ASSUME WInv, [WNext]_wVars, status' # status
  PROVE  \E w \in W :
           /\ \/ w \in met
              \/ /\ status[w] \in {"none", "Pending", "Processing"}
                 /\ status[w] = "Processing" => status'[w] # "Pending"
           /\ status' = [status EXCEPT ![w] = status'[w]]
<1>1. CASE \E w \in W : Submit(w) \/ AutoWithdrawal(w)
  <2>1. PICK w \in W : Submit(w) \/ AutoWithdrawal(w)
    BY <1>1
  <2>2. \E s \in WStatus : status' = [status EXCEPT ![w] = s]
    BY <2>1 DEF Submit, FindWallet, SumToday, FreezeBalance, Create, UndoFreeze,
       AutoWithdrawal, FindPending, SetProcessing, Send, Refund, SetFailed, Unfreeze,
       UpdateBalance, CreateTransaction, SetCompleted, Become, WStatus
  <2>3. w \in met \/ /\ status[w] \in {"none", "Pending", "Processing"}
                     /\ status[w] = "Processing" => status'[w] # "Pending"
    BY <2>1 DEF Submit, FindWallet, SumToday, FreezeBalance, Create, UndoFreeze,
       AutoWithdrawal, FindPending, SetProcessing, Send, Refund, SetFailed, Unfreeze,
       UpdateBalance, CreateTransaction, SetCompleted, Become, At, WInv, WTypeOK, Books,
       Forward, Found
  <2> QED
    BY <2>2, <2>3 DEF WInv, WTypeOK
<1>2. CASE \E a \in Admin : AdminCall(a)
  <2>1. PICK a \in Admin : AdminCall(a)
    BY <1>2
  <2>2. AdminApproves(a) \/ AdminRejects(a) \/ AdminCompletes(a)
    BY <2>1 DEF AdminCall, AdminReads, AdminFails
  <2>3. admin[a] # NoAdminCall
    BY <2>2 DEF AdminApproves, AdminRejects, AdminCompletes, NoAdminCall
  <2>4. admin[a].w \in W
    BY <2>3 DEF WInv, WTypeOK
  <2>5. admin[a].w \in met \/ status[admin[a].w] \in {"Pending", "Processing"}
    BY <2>4 DEF WInv, Books, Alone, Accepts
  <2>6. \E s \in {"Processing", "Rejected", "Completed"} :
          status' = [status EXCEPT ![admin[a].w] = s]
    BY <2>2 DEF AdminApproves, AdminRejects, AdminCompletes, Become
  <2> QED
    BY <2>4, <2>5, <2>6 DEF WInv, WTypeOK
<1> QED
  BY <1>1, <1>2 DEF WNext, BotDies, wVars

(* Completed, rejected and failed withdrawals stay what they are, unless   *)
(* two actors have met on them.                                            *)
THEOREM WithdrawalFinalIsFinal == WSpec => FinalIsFinal
<1> DEFINE A == [\A w \in W \ met :
       /\ status[w] \in {"Completed", "Rejected", "Failed"} => status'[w] = status[w]
       /\ status[w] = "Processing" => status'[w] # "Pending"]_status
<1>1. WInv /\ [WNext]_wVars => A
  <2> SUFFICES ASSUME WInv, [WNext]_wVars, status' # status PROVE A
    OBVIOUS
  <2>1. PICK w \in W :
           /\ \/ w \in met
              \/ /\ status[w] \in {"none", "Pending", "Processing"}
                 /\ status[w] = "Processing" => status'[w] # "Pending"
           /\ status' = [status EXCEPT ![w] = status'[w]]
    BY StatusStep
  <2> QED
    BY <2>1 DEF WInv, WTypeOK
<1> QED
  BY <1>1, WInvInit, WInvStep, PTL DEF WSpec, FinalIsFinal

-----------------------------------------------------------------------------
(* The frozen balance and what the withdrawals hold of it. *)

Held == {w \in W : Holding(w)}

\* Without faults an insert that is reported as failed has failed.
NothingUndone == \A w \in W : task[w] # "UndoFreeze"

FrozenInv == ~faults => NothingUndone /\ (met = {} => frozen = Total(Held))

Keeps == frozen' = frozen /\ \A v \in W : Holding(v)' <=> Holding(v)

Takes(w) ==
  /\ ~Holding(w) /\ Holding(w)' /\ frozen' = frozen + Amount[w]
  /\ \A v \in W \ {w} : Holding(v)' <=> Holding(v)

GivesBack(w) ==
  /\ Holding(w) /\ ~Holding(w)' /\ frozen' = frozen - Amount[w]
  /\ \A v \in W \ {w} : Holding(v)' <=> Holding(v)

(* A withdrawal that holds its amount finds it there. *)
LEMMA HeldIsThere ==
  ASSUME WTypeOK, frozen = Total(Held), NEW w \in W, Holding(w)
  PROVE  frozen >= Amount[w]
<1> USE WithdrawalAssumption
<1>1. IsFiniteSet(Held) /\ w \in Held /\ \A x \in Held : Amount[x] \in Int
  BY FS_Subset DEF Held
<1>2. frozen = Amount[w] + SumFunctionOnSet(Amount, Held \ {w})
  BY <1>1, SumRemove DEF Total
<1>3. SumFunctionOnSet(Amount, Held \ {w}) \in Nat
  <2>1. IsFiniteSet(Held \ {w}) /\ \A x \in Held \ {w} : Amount[x] \in Nat
    BY <1>1, FS_Subset DEF Held
  <2> QED
    BY <2>1, SumNat
<1> QED
  BY <1>2, <1>3

LEMMA BotHolds ==
  ASSUME WInv, ~faults, met = {}, NothingUndone, frozen = Total(Held),
         NEW w \in W, Submit(w) \/ AutoWithdrawal(w)
  PROVE  Keeps \/ Takes(w) \/ GivesBack(w)
<1> USE WithdrawalAssumption DEF Keeps, Takes, GivesBack, Holding, WInv, WTypeOK, Books,
     Forward, Found, At, Goto, Return, Fails, Become
<1>1. CASE FindWallet(w) \/ SumToday(w)
  BY <1>1 DEF FindWallet, SumToday
<1>2. CASE FreezeBalance(w)
  BY <1>2 DEF FreezeBalance
<1>3. CASE Create(w)
  BY <1>3 DEF Create
<1>4. CASE UndoFreeze(w)
  BY <1>4 DEF UndoFreeze, NothingUndone
<1>5. CASE FindPending(w) \/ SetProcessing(w) \/ Send(w)
  BY <1>5 DEF FindPending, SetProcessing, Send
<1>6. CASE Refund(w)
  <2>1. Holding(w)
    BY <1>6 DEF Refund
  <2>2. frozen >= Amount[w]
    BY <2>1, HeldIsThere
  <2>3. ~NoRelease(w)
    BY <2>2 DEF NoRelease
  <2> QED
    BY <1>6, <2>1, <2>3 DEF Refund, Release
<1>7. CASE Unfreeze(w)
  <2>1. Holding(w)
    BY <1>7 DEF Unfreeze
  <2>2. frozen >= Amount[w]
    BY <2>1, HeldIsThere
  <2>3. ~NoRelease(w)
    BY <2>2 DEF NoRelease
  <2> QED
    BY <1>7, <2>1, <2>3 DEF Unfreeze, Release
<1>8. CASE SetFailed(w) \/ UpdateBalance(w) \/ CreateTransaction(w) \/ SetCompleted(w)
  BY <1>8 DEF SetFailed, UpdateBalance, CreateTransaction, SetCompleted
<1> QED
  BY <1>1, <1>2, <1>3, <1>4, <1>5, <1>6, <1>7, <1>8 DEF Submit, AutoWithdrawal

LEMMA AdminHolds ==
  ASSUME WInv, ~faults, met = {}, NothingUndone, frozen = Total(Held),
         NEW a \in Admin, AdminCall(a)
  PROVE  Keeps \/ \E w \in W : GivesBack(w)
<1> USE WithdrawalAssumption
<1>1. CASE (\E op \in AdminOp, w \in W : AdminReads(a, op, w)) \/ AdminFails(a)
  BY <1>1 DEF AdminReads, AdminFails, Keeps, Holding
<1>2. CASE AdminApproves(a) \/ AdminRejects(a) \/ AdminCompletes(a)
  <2>1. admin[a] # NoAdminCall
    BY <1>2 DEF AdminApproves, AdminRejects, AdminCompletes, NoAdminCall
  <2>2. PICK w \in W : w = admin[a].w
    BY <2>1 DEF WInv, WTypeOK
  <2>3. status[w] \in {"Pending", "Processing"} /\ task[w] = "over"
    BY <2>2 DEF WInv, Books, Alone, Accepts, NothingUndone
  <2>4. Holding(w)
    BY <2>3 DEF Holding
  <2>5. frozen >= Amount[w]
    BY <2>2, <2>4, HeldIsThere DEF WInv
  <2>6. /\ task' = task
        /\ \/ status' = [status EXCEPT ![w] = "Processing"] /\ frozen' = frozen
           \/ /\ \E s \in {"Rejected", "Completed"} : status' = [status EXCEPT ![w] = s]
              /\ frozen' = frozen - Amount[w]
    BY <1>2, <2>2, <2>5 DEF AdminApproves, AdminRejects, AdminCompletes, Become
  <2>7. Keeps \/ GivesBack(w)
    <3>1. \A v \in W \ {w} : Holding(v)' <=> Holding(v)
      BY <2>3, <2>6 DEF Holding, WInv, WTypeOK
    <3>2. CASE status' = [status EXCEPT ![w] = "Processing"] /\ frozen' = frozen
      <4>1. Holding(w)'
        BY <2>3, <2>6, <3>2 DEF Holding, WInv, WTypeOK
      <4> QED
        BY <2>4, <3>1, <3>2, <4>1 DEF Keeps
    <3>3. CASE /\ \E s \in {"Rejected", "Completed"} : status' = [status EXCEPT ![w] = s]
               /\ frozen' = frozen - Amount[w]
      <4>1. ~Holding(w)'
        BY <2>3, <2>6, <3>3 DEF Holding, WInv, WTypeOK
      <4> QED
        BY <2>4, <3>1, <3>3, <4>1 DEF GivesBack
    <3> QED
      BY <2>6, <3>2, <3>3
  <2> QED
    BY <2>7
<1> QED
  BY <1>1, <1>2 DEF AdminCall

LEMMA FrozenStep == WInv /\ FrozenInv /\ [WNext]_wVars => FrozenInv'
<1> SUFFICES ASSUME WInv, FrozenInv, [WNext]_wVars, ~faults
             PROVE  NothingUndone' /\ (met' = {} => frozen' = Total(Held)')
  BY DEF FrozenInv, WNext, wVars
<1> USE WithdrawalAssumption
<1>0. NothingUndone
  BY DEF FrozenInv
<1>2. NothingUndone'
  BY <1>0 DEF NothingUndone, WInv, WTypeOK, WNext, wVars, Submit, AutoWithdrawal, FindWallet, SumToday,
     FreezeBalance, Create, UndoFreeze, FindPending, SetProcessing, Send, Refund, SetFailed, Unfreeze,
     UpdateBalance, CreateTransaction, SetCompleted, BotDies, AdminCall, AdminReads, AdminApproves,
     AdminRejects, AdminCompletes, AdminFails, At, Goto, Return, Fails
<1> SUFFICES ASSUME met' = {} PROVE frozen' = Total(Held)'
  BY <1>2
<1>9. met = {}
  BY DEF WNext, wVars, Submit, AutoWithdrawal, FindWallet, SumToday,
     FreezeBalance, Create, UndoFreeze, FindPending, SetProcessing, Send, Refund, SetFailed, Unfreeze,
     UpdateBalance, CreateTransaction, SetCompleted, BotDies, AdminCall, AdminReads, AdminApproves,
     AdminRejects, AdminCompletes, AdminFails
<1>1. NothingUndone /\ frozen = Total(Held)
  BY <1>9 DEF FrozenInv
<1>3. Keeps \/ \E w \in W : Takes(w) \/ GivesBack(w)
  <2>1. CASE UNCHANGED wVars
    BY <2>1 DEF Keeps, Holding, wVars
  <2>2. CASE WNext
    BY <1>1, <1>9, <2>2, BotHolds, AdminHolds DEF WNext, BotDies
  <2> QED
    BY <2>1, <2>2
<1>4. IsFiniteSet(Held) /\ \A x \in W : Amount[x] \in Int
  BY FS_Subset DEF Held
<1>5. CASE Keeps
  <2>1. Held' = Held
    BY <1>5 DEF Keeps, Held
  <2> QED
    BY <1>1, <1>2, <1>5, <2>1 DEF Total, Keeps
<1>6. ASSUME NEW w \in W, Takes(w) PROVE frozen' = Total(Held)'
  <2>1. Held' = Held \union {w} /\ w \notin Held
    BY <1>6 DEF Takes, Held
  <2>2. SumFunctionOnSet(Amount, Held \union {w}) = SumFunctionOnSet(Amount, Held) + Amount[w]
    BY <1>4, <2>1, SumAdd DEF Held
  <2> QED
    BY <1>1, <1>6, <2>1, <2>2 DEF Total, Takes
<1>7. ASSUME NEW w \in W, GivesBack(w) PROVE frozen' = Total(Held)'
  <2>1. Held' = Held \ {w} /\ w \in Held
    BY <1>7 DEF GivesBack, Held
  <2>2. SumFunctionOnSet(Amount, Held) = Amount[w] + SumFunctionOnSet(Amount, Held \ {w})
    BY <1>4, <2>1, SumRemove DEF Held
  <2>3. SumFunctionOnSet(Amount, Held \ {w}) \in Int
    BY <1>4, FS_Subset, SumType DEF Held
  <2> QED
    BY <1>1, <1>4, <1>7, <2>1, <2>2, <2>3 DEF Total, GivesBack
<1> QED
  BY <1>2, <1>3, <1>5, <1>6, <1>7

(* While nothing fails and nobody has met, the frozen balance is exactly   *)
(* what the open withdrawals hold, for any number of them and any amounts: *)
(* none finds less there than its own, and nothing stays frozen behind.    *)
THEOREM FrozenIsHeldHolds == WSpec => []FrozenIsHeld
<1>1. WInit => FrozenInv
  <2> SUFFICES ASSUME WInit PROVE NothingUndone /\ frozen = Total(Held)
    BY DEF FrozenInv
  <2>1. Held = {}
    BY DEF WInit, Held, Holding
  <2> QED
    BY <2>1, SumEmpty DEF WInit, NothingUndone, Total
<1>2. FrozenInv => FrozenIsHeld
  BY DEF FrozenInv, FrozenIsHeld, Held
<1> QED
  BY <1>1, <1>2, WInvInit, WInvStep, FrozenStep, PTL DEF WSpec
=============================================================================
