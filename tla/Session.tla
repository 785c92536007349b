------------------------------- MODULE Session -------------------------------
(***************************************************************************)
(* The conversation of one user with the bot, as SessionService keeps it   *)
(* in Redis: the module and step that wait for the next input, and data    *)
(* that every dialogue writes under its own or a shared key.  A new step   *)
(* keeps the data of the steps before; only Clear and the key's time to    *)
(* live remove it.                                                         *)
(*                                                                         *)
(* The bot handles every update in a goroutine of its own.  A handler is a *)
(* task with a list of accesses: a Get is one round trip, a write (SetStep,*)
(* SetData, SetStepWithData) two, since the whole session is fetched and   *)
(* stored again without a lock.  Whatever is decided between accesses is a *)
(* part of the handler: it looks at the session once at most, or asks the  *)
(* database, and says which accesses are left.  Between any two steps of a *)
(* task the other tasks may take theirs.                                   *)
(***************************************************************************)
EXTENDS Integers, Sequences

CONSTANTS Key,        \* module, step and the data keys
          None,       \* a key that is not there, or the empty string
          Task,       \* handlers at work at the same time
          Paged,      \* bound: the kinds whose pages are remembered
          Steady      \* bound: Redis does not fail while a handler is busy

VARIABLES session,    \* the value at session:<telegram id>
          task,       \* what each handler has read and has left to do
          call,       \* the order a handler has at a service
          page,       \* the latest confirmation page or prompt of each kind
          approval,   \* the order a PIN was asked or given for
          torn,       \* ghost: handlers met on the session that is there now
          passed      \* ghost: the steps the keypad went back to

sessionVars == <<session, task, call, page, approval, torn, passed>>

OrderKind == {"transfer", "request", "pay", "withdraw", "exchange", "invest",
              "adjust", "red_packet", "remark", "shop", "create_shop"}

(* What an order says: the kind, to whom (a user, a request, an address or *)
(* a currency), how much and in which currency.                            *)
Order(kind, to, amount, currency) ==
  [kind |-> kind, to |-> to, amount |-> amount, currency |-> currency]

ASSUME SessionAssumption ==
  /\ Paged \subseteq {"withdraw", "invest", "request", "remark", "shop"}
  /\ {"module", "step"} \subseteq Key
  /\ Steady \in BOOLEAN
  /\ None \notin {"PIN", "Transfer", "Receive", "Wallet", "Exchange", "Finance", "Profile",
                  "RedPacket", "Shop", "Merchant"}
  /\ None \notin Nat /\ None \notin BOOLEAN

NoApproval == [order |-> None, given |-> FALSE]

Empty == [k \in Key |-> None]

\* Nothing read, nothing fetched, nothing left to do.
Idle == [todo |-> <<>>, seen |-> Empty, copy |-> None]

SessionInit ==
  /\ session = Empty
  /\ task = [t \in Task |-> Idle]
  /\ call = [t \in Task |-> None]
  /\ page = [k \in Paged |-> None]
  /\ approval = NoApproval
  /\ torn = FALSE
  /\ passed = {}

At(module, step) == session["module"] = module /\ session["step"] = step

-----------------------------------------------------------------------------
(* The accesses of a handler. *)

Get(keys)       == [op |-> "get", keys |-> keys]
Put(data)       == [op |-> "put", data |-> data]
Clear           == [op |-> "clear"]
Show(order)     == [op |-> "show", order |-> order]
Submit(order)   == [op |-> "submit", order |-> order, under |-> approval]
Do(part)        == [op |-> "do", part |-> part, arg |-> None]
DoWith(part, v) == [op |-> "do", part |-> part, arg |-> v]

SetStep(module, step) == Put([module |-> module, step |-> step])

\* The session is stored as it is; the key that is written is read by nobody.
Rewrite == Put([k \in {} |-> None])

Access(t)   == Head(task[t].todo)
Given(t)    == Access(t).arg
Takes(t, op) == task[t].todo # <<>> /\ Access(t).op = op
Saw(t, key) == task[t].seen[key]

\* At work, and not merely waiting for a service.
Busy(t) == task[t].todo # <<>> /\ call[t] = None
Quiet   == \A t \in Task : ~Busy(t)

Begin(t, todo) ==
  /\ task[t].todo = <<>>
  /\ task' = [task EXCEPT ![t] = [Idle EXCEPT !.todo = todo]]
  /\ UNCHANGED <<session, call, page, approval>>

\* The access is done; what was read stays for the parts that follow.
Goes(t, seen) ==
  task' = [task EXCEPT ![t] = IF Tail(@.todo) = <<>> THEN Idle
                              ELSE [todo |-> Tail(@.todo), seen |-> seen, copy |-> None]]

Reads(t) ==
  /\ Takes(t, "get")
  /\ Goes(t, [k \in Key |-> IF k \in Access(t).keys THEN session[k] ELSE Saw(t, k)])
  /\ UNCHANGED <<session, call, page, approval>>

Fetches(t) ==
  /\ Takes(t, "put") /\ task[t].copy = None
  /\ task' = [task EXCEPT ![t].copy = session]
  /\ UNCHANGED <<session, call, page, approval>>

\* What another handler stored since is overwritten.
Stores(t) ==
  /\ Takes(t, "put") /\ task[t].copy # None
  /\ session' = [k \in Key |-> IF k \in DOMAIN Access(t).data THEN Access(t).data[k]
                                                             ELSE task[t].copy[k]]
  /\ Goes(t, task[t].seen)
  /\ UNCHANGED <<call, page, approval>>

\* Handlers ignore the error of a write or of a Clear that fails.
Loses(t) ==
  /\ ~Steady
  /\ Takes(t, "clear") \/ (Takes(t, "put") /\ task[t].copy # None)
  /\ Goes(t, task[t].seen)
  /\ UNCHANGED <<session, call, page, approval>>

\* Faulty variant: a new dialogue keeps the step it finds.
ClearsData(t) ==
  /\ Takes(t, "clear")
  /\ session' = [k \in Key |-> IF k \in {"module", "step"} THEN session[k] ELSE None]
  /\ approval' = NoApproval
  /\ Goes(t, task[t].seen)
  /\ UNCHANGED <<call, page>>

\* Nothing of the old conversation is left.
Clears(t) ==
  /\ Takes(t, "clear")
  /\ session' = Empty
  /\ approval' = NoApproval
  /\ Goes(t, task[t].seen)
  /\ UNCHANGED <<call, page>>

Shows(t) ==
  /\ Takes(t, "show")
  /\ page' = IF Access(t).order.kind \in Paged
               THEN [page EXCEPT ![Access(t).order.kind] = Access(t).order]
               ELSE page
  /\ Goes(t, task[t].seen)
  /\ UNCHANGED <<session, call, approval>>

Submits(t) ==
  /\ Takes(t, "submit") /\ call[t] = None
  /\ call' = [call EXCEPT ![t] = Access(t).order]
  /\ UNCHANGED <<session, task, page, approval>>

\* The service is done, well or not; the handler goes on.
Returns(t) ==
  /\ call[t] # None
  /\ call' = [call EXCEPT ![t] = None]
  /\ Goes(t, task[t].seen)
  /\ UNCHANGED <<session, page, approval>>

SessionStep(t) ==
  \/ Reads(t) \/ Fetches(t) \/ Stores(t) \/ Clears(t)
  \/ Shows(t) \/ Submits(t) \/ Returns(t)

(* The key expires, or Redis does not answer Get, which looks the same and *)
(* makes the next Set store an almost empty session.                       *)
Expires ==
  /\ session # Empty
  /\ Steady => Quiet
  /\ session' = Empty
  /\ approval' = NoApproval
  /\ UNCHANGED <<task, call, page>>

-----------------------------------------------------------------------------
(* The parts of a handler. *)

Doing(t, part) == Takes(t, "do") /\ Access(t).part = part

\* A text that the module is to handle.
Input(t, module) == Doing(t, "input") /\ Given(t) = module

Continue(t, todo) ==
  /\ task' = [task EXCEPT ![t] = [Idle EXCEPT !.todo = todo]]
  /\ UNCHANGED <<session, call, page>>

\* The handler goes on, or ends (todo is empty), and no PIN is asked for.
Then(t, todo) == Continue(t, todo) /\ UNCHANGED approval

-----------------------------------------------------------------------------
(* The ghosts.  While two handlers are busy, or the key expires or a write *)
(* is lost under one, the session may become a mixture.  When it is empty  *)
(* and nobody is busy, it is known to be whole, and no handler remembers   *)
(* anything of the conversations before.                                   *)

Fresh == session = Empty /\ Quiet

Ghosts(mishap, back) ==
  /\ torn' = (/\ ~Fresh'
              /\ \/ torn
                 \/ mishap
                 \/ \E t, u \in Task : t # u /\ Busy(t)' /\ Busy(u)')
  /\ passed' = IF Fresh' THEN {} ELSE passed \union back

Starts(t, kind) == call[t] = None /\ call'[t] # None /\ call'[t].kind = kind
=============================================================================
