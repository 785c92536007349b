----------------------------- MODULE BotProofs -----------------------------
(***************************************************************************)
(* Proofs about Bot, for any number of handlers at work, whatever they     *)
(* overwrite and whatever Redis loses: its type invariant, and that a      *)
(* dialogue only waits behind the keypad after the keypad took a right PIN *)
(* for it.                                                                 *)
(*                                                                         *)
(* The step in the session can come from a copy that a handler fetched     *)
(* long ago, and a handler may have decided long ago what to write.  So    *)
(* the inductive invariant says of every copy what it says of the session, *)
(* and of every access that is left what it may write; and since the ghost *)
(* passed is forgotten when no handler is at work, it says that a handler  *)
(* that only waits for a service has nothing left to write.                *)
(***************************************************************************)
EXTENDS Bot, SequenceTheorems, TLAPS

-----------------------------------------------------------------------------
(* The inductive invariant. *)

\* A place a dialogue may wait at: the keypad came back to it, or none is due.
PlaceOK(place, P) == place \in Guarded => place \in P

DigitsOK(d) == d = None \/ d \in 0 .. PinLength

SessionOK(s, P) ==
  /\ DOMAIN s = Key
  /\ PlaceOK(<<s["module"], s["step"]>>, P)
  /\ DigitsOK(s["pin_digits"])

\* Module and step are only ever written together.
DataOK(data, P) ==
  /\ "module" \in DOMAIN data <=> "step" \in DOMAIN data
  /\ "module" \in DOMAIN data => PlaceOK(<<data["module"], data["step"]>>, P)
  /\ "pin_digits" \in DOMAIN data => DigitsOK(data["pin_digits"])

EntryOK(e, P) ==
  /\ e.op = "put" => DataOK(e.data, P)
  /\ e.op \in {"show", "submit"} => e.order.kind \in OrderKind
  /\ e.op = "do" /\ e.part = "pin_return" => e.arg

\* What may be left for a handler that waits for a service.
Patient(e) ==
  \/ e.op = "submit"
  \/ e.op = "clear"
  \/ e.op = "do" /\ e.part = "field_done"

IsSeq(s) == \E S : s \in Seq(S)

TodoOK(todo, P) ==
  /\ IsSeq(todo)
  /\ \A i \in 1 .. Len(todo) : EntryOK(todo[i], P)
  /\ \/ \A i \in 1 .. Len(todo) : todo[i].op # "submit"
     \/ \A i \in 1 .. Len(todo) : Patient(todo[i])

\* x is a handler's task, c the order it has at a service.
TaskOK(x, c, P) ==
  /\ DOMAIN x = {"todo", "seen", "copy"}
  /\ TodoOK(x.todo, P)
  /\ x.copy # None => x.todo # <<>> /\ Head(x.todo).op = "put" /\ SessionOK(x.copy, P)
  /\ c # None => x.todo # <<>> /\ Head(x.todo).op = "submit" /\ c.kind \in OrderKind

Core(P) ==
  /\ SessionOK(session, P)
  /\ DOMAIN task = Task /\ DOMAIN call = Task
  /\ \A t \in Task : TaskOK(task[t], call[t], P)

PageOK ==
  /\ DOMAIN page = Paged
  /\ \A k \in Paged : page[k] = None \/ page[k].kind = k

RowOK ==
  /\ pin \in Pin \union {None}
  /\ locked \in BOOLEAN
  /\ DOMAIN limit = LimitCurrency
  /\ request \in [Request -> {"Pending", "Rejected"}]

BotIInv == Core(passed) /\ PageOK /\ RowOK

-----------------------------------------------------------------------------
(* Lists of accesses. *)

Plain(e, P) == EntryOK(e, P) /\ e.op # "submit"

PlainTodo(todo, P) ==
  /\ IsSeq(todo)
  /\ \A i \in 1 .. Len(todo) : Plain(todo[i], P)

\* A list of accesses that submit nothing, and one of patient ones, is fine.
LEMMA PlainIsOK ==
  ASSUME NEW P, NEW todo, PlainTodo(todo, P)
  PROVE  TodoOK(todo, P)
BY DEF PlainTodo, Plain, TodoOK

\* Short lists of plain accesses.
LEMMA ShortLists ==
  ASSUME NEW P
  PROVE  /\ PlainTodo(<<>>, P)
         /\ \A a : Plain(a, P) => PlainTodo(<<a>>, P)
         /\ \A a, b : Plain(a, P) /\ Plain(b, P) => PlainTodo(<<a, b>>, P)
         /\ \A a, b, c : Plain(a, P) /\ Plain(b, P) /\ Plain(c, P) => PlainTodo(<<a, b, c>>, P)
         /\ \A a, b, c, d : Plain(a, P) /\ Plain(b, P) /\ Plain(c, P) /\ Plain(d, P)
                              => PlainTodo(<<a, b, c, d>>, P)
<1>1. PlainTodo(<<>>, P)
  <2>1. <<>> \in Seq({})
    OBVIOUS
  <2>2. QED BY <2>1 DEF PlainTodo, IsSeq
<1>2. ASSUME NEW a, Plain(a, P) PROVE PlainTodo(<<a>>, P)
  <2>1. <<a>> \in Seq({a}) /\ Len(<<a>>) = 1
    OBVIOUS
  <2>2. IsSeq(<<a>>)
    BY <2>1 DEF IsSeq
  <2>3. \A i \in 1 .. 1 : <<a>>[i] \in {a}
    OBVIOUS
  <2>4. QED BY <1>2, <2>1, <2>2, <2>3 DEF PlainTodo
<1>3. ASSUME NEW a, NEW b, Plain(a, P), Plain(b, P) PROVE PlainTodo(<<a, b>>, P)
  <2>1. <<a, b>> \in Seq({a, b}) /\ Len(<<a, b>>) = 2
    OBVIOUS
  <2>2. IsSeq(<<a, b>>)
    BY <2>1 DEF IsSeq
  <2>3. \A i \in 1 .. 2 : <<a, b>>[i] \in {a, b}
    OBVIOUS
  <2>4. QED BY <1>3, <2>1, <2>2, <2>3 DEF PlainTodo
<1>4. ASSUME NEW a, NEW b, NEW c, Plain(a, P), Plain(b, P), Plain(c, P)
      PROVE  PlainTodo(<<a, b, c>>, P)
  <2>1. <<a, b, c>> \in Seq({a, b, c}) /\ Len(<<a, b, c>>) = 3
    OBVIOUS
  <2>2. IsSeq(<<a, b, c>>)
    BY <2>1 DEF IsSeq
  <2>3. \A i \in 1 .. 3 : <<a, b, c>>[i] \in {a, b, c}
    OBVIOUS
  <2>4. QED BY <1>4, <2>1, <2>2, <2>3 DEF PlainTodo
<1>5. ASSUME NEW a, NEW b, NEW c, NEW d, Plain(a, P), Plain(b, P), Plain(c, P), Plain(d, P)
      PROVE  PlainTodo(<<a, b, c, d>>, P)
  <2>1. <<a, b, c, d>> \in Seq({a, b, c, d}) /\ Len(<<a, b, c, d>>) = 4
    OBVIOUS
  <2>2. IsSeq(<<a, b, c, d>>)
    BY <2>1 DEF IsSeq
  <2>3. \A i \in 1 .. 4 : <<a, b, c, d>>[i] \in {a, b, c, d}
    OBVIOUS
  <2>4. QED BY <1>5, <2>1, <2>2, <2>3 DEF PlainTodo
<1>6. QED BY <1>1, <1>2, <1>3, <1>4, <1>5

\* One plain list after another.
LEMMA PlainConcat ==
  ASSUME NEW P, NEW r, NEW s, PlainTodo(r, P), PlainTodo(s, P)
  PROVE  PlainTodo(r \o s, P)
<1>1. PICK R : r \in Seq(R)
  BY DEF PlainTodo, IsSeq
<1>2. PICK S : s \in Seq(S)
  BY DEF PlainTodo, IsSeq
<1>3. r \in Seq(R \union S) /\ s \in Seq(R \union S)
  BY <1>1, <1>2
<1>4. r \o s \in Seq(R \union S) /\ Len(r \o s) = Len(r) + Len(s)
  BY <1>3
<1>5. \A i \in 1 .. Len(r) + Len(s) : (r \o s)[i] = IF i <= Len(r) THEN r[i] ELSE s[i - Len(r)]
  BY <1>3
<1>6. \A i \in 1 .. Len(r \o s) : Plain((r \o s)[i], P)
  BY <1>3, <1>4, <1>5 DEF PlainTodo
<1>7. QED BY <1>4, <1>6 DEF PlainTodo, IsSeq

\* Patient lists: the orders that the dialogues submit.
LEMMA PatientLists ==
  ASSUME NEW P, NEW a, NEW b, Patient(a), Patient(b), EntryOK(a, P), EntryOK(b, P)
  PROVE  TodoOK(<<a, b>>, P)
<1>1. <<a, b>> \in Seq({a, b}) /\ Len(<<a, b>>) = 2
  OBVIOUS
<1>2. IsSeq(<<a, b>>)
  BY <1>1 DEF IsSeq
<1>3. \A i \in 1 .. 2 : <<a, b>>[i] \in {a, b}
  OBVIOUS
<1>4. QED BY <1>1, <1>2, <1>3 DEF TodoOK

\* What is left of a list after its first access.
LEMMA TailIsOK ==
  ASSUME NEW P, NEW todo, TodoOK(todo, P), todo # <<>>
  PROVE  /\ TodoOK(Tail(todo), P)
         /\ EntryOK(Head(todo), P)
         /\ Head(todo).op = "submit" => \A i \in 1 .. Len(todo) : Patient(todo[i])
<1>1. PICK S : todo \in Seq(S)
  BY DEF TodoOK, IsSeq
<1>2. /\ Tail(todo) \in Seq(S) /\ Len(todo) \in Nat \ {0}
      /\ Len(Tail(todo)) = Len(todo) - 1
      /\ Head(todo) = todo[1]
  BY <1>1
<1>3. \A i \in 1 .. Len(todo) - 1 : Tail(todo)[i] = todo[i + 1]
  BY <1>1, <1>2
<1>4. \A i \in 1 .. Len(Tail(todo)) : i + 1 \in 1 .. Len(todo) /\ Tail(todo)[i] = todo[i + 1]
  BY <1>2, <1>3
<1>5. TodoOK(Tail(todo), P)
  <2>1. IsSeq(Tail(todo))
    BY <1>2 DEF IsSeq
  <2>2. QED BY <1>4, <2>1 DEF TodoOK
<1>6. 1 \in 1 .. Len(todo)
  BY <1>2
<1>7. EntryOK(Head(todo), P)
  BY <1>2, <1>6 DEF TodoOK
<1>8. Head(todo).op = "submit" => \A i \in 1 .. Len(todo) : Patient(todo[i])
  BY <1>2, <1>6 DEF TodoOK
<1>9. QED BY <1>5, <1>7, <1>8

\* A larger set of places to have come back to does no harm.
LEMMA TodoGrows ==
  ASSUME NEW P, NEW Q, P \subseteq Q, NEW todo, TodoOK(todo, P)
  PROVE  TodoOK(todo, Q)
<1>1. ASSUME NEW e, EntryOK(e, P) PROVE EntryOK(e, Q)
  BY <1>1 DEF EntryOK, DataOK, PlaceOK
<1>2. QED BY <1>1 DEF TodoOK

LEMMA TaskGrows ==
  ASSUME NEW P, NEW Q, P \subseteq Q, NEW x, NEW c, TaskOK(x, c, P)
  PROVE  TaskOK(x, c, Q)
BY TodoGrows DEF TaskOK, SessionOK, PlaceOK

\* A handler that is not busy has nothing to write.
LEMMA NothingToWrite ==
  ASSUME NEW P, NEW x, NEW c, TaskOK(x, c, P), x.todo = <<>> \/ c # None
  PROVE  TaskOK(x, c, {})
<1>1. CASE x.todo = <<>>
  <2>1. TodoOK(<<>>, {})
    BY ShortLists, PlainIsOK
  <2>2. QED BY <1>1, <2>1 DEF TaskOK
<1>2. CASE c # None
  <2>1. x.todo # <<>> /\ Head(x.todo).op = "submit" /\ TodoOK(x.todo, P)
    BY <1>2 DEF TaskOK
  <2>2. \A i \in 1 .. Len(x.todo) : Patient(x.todo[i]) /\ EntryOK(x.todo[i], P)
    BY <2>1, TailIsOK DEF TodoOK
  <2>3. \A i \in 1 .. Len(x.todo) : EntryOK(x.todo[i], {})
    BY <2>2 DEF EntryOK, Patient
  <2>4. TodoOK(x.todo, {})
    BY <2>1, <2>2, <2>3 DEF TodoOK
  <2>5. x.copy = None
    BY <2>1 DEF TaskOK
  <2>6. QED BY <1>2, <2>4, <2>5 DEF TaskOK
<1>3. QED BY <1>1, <1>2

LEMMA EmptyIsOK ==
  ASSUME NEW P
  PROVE  SessionOK(Empty, P)
<1>1. {"module", "step", "pin_digits"} \subseteq Key
  BY SessionAssumption, PinAssumption
<1>2. /\ DOMAIN Empty = Key
      /\ Empty["module"] = None /\ Empty["step"] = None /\ Empty["pin_digits"] = None
  BY <1>1 DEF Empty
<1>3. <<None, None>> \notin Guarded
  BY SessionAssumption DEF Guarded
<1>4. QED BY <1>2, <1>3 DEF SessionOK, PlaceOK, DigitsOK

(* Once the session is empty and nobody is busy, no handler depends on     *)
(* what the keypad came back to.                                           *)
LEMMA Settles ==
  ASSUME NEW P, Core(P)', passed' = (IF Fresh' THEN {} ELSE P)
  PROVE  Core(passed)'
<1>1. CASE ~Fresh'
  BY <1>1
<1>2. CASE Fresh'
  <2>1. passed' = {} /\ session' = Empty
    BY <1>2 DEF Fresh
  <2>2. ASSUME NEW t \in Task PROVE TaskOK(task'[t], call'[t], {})
    <3>1. task'[t].todo = <<>> \/ call'[t] # None
      BY <1>2 DEF Fresh, Quiet, Busy
    <3>2. TaskOK(task'[t], call'[t], P)
      BY DEF Core
    <3>3. QED BY <3>1, <3>2, NothingToWrite
  <2>3. SessionOK(session', {})
    BY <2>1, EmptyIsOK
  <2>4. QED BY <2>1, <2>2, <2>3 DEF Core
<1>3. QED BY <1>1, <1>2

-----------------------------------------------------------------------------
(* The steps that every handler takes. *)

\* One handler's task and call change, the others' do not.
LEMMA OneMoves ==
  ASSUME NEW P, NEW Q, P \subseteq Q, NEW t \in Task,
         Core(P),
         DOMAIN task' = Task, DOMAIN call' = Task,
         \A u \in Task \ {t} : task'[u] = task[u] /\ call'[u] = call[u],
         TaskOK(task'[t], call'[t], Q),
         SessionOK(session', Q)
  PROVE  Core(Q)'
<1>1. \A u \in Task : TaskOK(task'[u], call'[u], Q)
  BY TaskGrows DEF Core
<1>2. QED BY <1>1 DEF Core

\* The session is what it was.
LEMMA SessionGrows ==
  ASSUME NEW P, NEW Q, P \subseteq Q, NEW s, SessionOK(s, P)
  PROVE  SessionOK(s, Q)
BY DEF SessionOK, PlaceOK

\* An access that is done leaves the rest of the list.
LEMMA GoneOn ==
  ASSUME NEW P, NEW t \in Task, NEW seen, Core(P), task[t].todo # <<>>, Goes(t, seen)
  PROVE  /\ DOMAIN task' = Task
         /\ \A u \in Task \ {t} : task'[u] = task[u]
         /\ TaskOK(task'[t], None, P)
<1>1. TodoOK(Tail(task[t].todo), P)
  BY TailIsOK DEF Core, TaskOK
<1>2. task'[t] = IF Tail(task[t].todo) = <<>> THEN Idle
                 ELSE [todo |-> Tail(task[t].todo), seen |-> seen, copy |-> None]
  BY DEF Goes, Core
<1>3. DOMAIN task' = Task /\ \A u \in Task \ {t} : task'[u] = task[u]
  BY DEF Goes, Core
<1>4. TodoOK(<<>>, P)
  BY ShortLists, PlainIsOK
<1>5. TaskOK(task'[t], None, P)
  <2>1. CASE Tail(task[t].todo) = <<>>
    BY <1>2, <1>4, <2>1 DEF TaskOK, Idle
  <2>2. CASE Tail(task[t].todo) # <<>>
    BY <1>1, <1>2, <2>2 DEF TaskOK
  <2>3. QED BY <2>1, <2>2
<1>6. QED BY <1>3, <1>5

\* The first access of a list.
LEMMA FirstAccess ==
  ASSUME NEW P, NEW t \in Task, NEW op, Core(P), Takes(t, op)
  PROVE  /\ task[t].todo # <<>> /\ Access(t).op = op /\ EntryOK(Access(t), P)
         /\ op # "submit" => call[t] = None
  <1>1. TaskOK(task[t], call[t], P)
    BY DEF Core
  <1>2. task[t].todo # <<>> /\ Access(t).op = op
    BY DEF Takes
  <1>3. EntryOK(Access(t), P)
    BY <1>1, <1>2, TailIsOK DEF TaskOK, Access
  <1>4. QED BY <1>1, <1>2, <1>3 DEF TaskOK, Access

LEMMA ReadsKeeps ==
  ASSUME NEW P, NEW t \in Task, Core(P), Reads(t)
  PROVE  Core(P)'
<1>1. task[t].todo # <<>> /\ call[t] = None
  BY FirstAccess DEF Reads
<1>2. PICK seen : Goes(t, seen)
  BY DEF Reads
<1>3. session' = session /\ call' = call
  BY DEF Reads
<1>4. QED BY <1>1, <1>2, <1>3, GoneOn, OneMoves DEF Core

LEMMA FetchesKeeps ==
  ASSUME NEW P, NEW t \in Task, Core(P), Fetches(t)
  PROVE  Core(P)'
<1>1. task[t].todo # <<>> /\ Access(t).op = "put" /\ call[t] = None
  BY FirstAccess DEF Fetches
<1>2. session' = session /\ call' = call
  BY DEF Fetches
<1>3. /\ DOMAIN task' = Task
      /\ \A u \in Task \ {t} : task'[u] = task[u]
      /\ task'[t] = [task[t] EXCEPT !.copy = session]
  BY DEF Fetches, Core
<1>4. TaskOK(task[t], call[t], P) /\ SessionOK(session, P)
  BY DEF Core
<1>5. TaskOK(task'[t], call[t], P)
  <2>1. DOMAIN task[t] = {"todo", "seen", "copy"}
    BY <1>4 DEF TaskOK
  <2>2. DOMAIN task'[t] = {"todo", "seen", "copy"} /\ task'[t].todo = task[t].todo
        /\ task'[t].copy = session
    BY <1>3, <2>1
  <2>3. QED BY <1>1, <1>4, <2>2 DEF TaskOK, Access
<1>6. QED BY <1>2, <1>3, <1>4, <1>5, OneMoves DEF Core

LEMMA StoresKeeps ==
  ASSUME NEW P, NEW t \in Task, Core(P), Stores(t)
  PROVE  Core(P)'
<1>1. /\ task[t].todo # <<>> /\ Access(t).op = "put" /\ call[t] = None
      /\ DataOK(Access(t).data, P)
  BY FirstAccess DEF Stores, EntryOK
<1>2. call' = call /\ Goes(t, task[t].seen)
  BY DEF Stores
<1>3. SessionOK(task[t].copy, P)
  BY DEF Stores, Core, TaskOK
<1>4. SessionOK(session', P)
  <2> DEFINE data == Access(t).data
             copy == task[t].copy
  <2>1. session' = [k \in Key |-> IF k \in DOMAIN data THEN data[k] ELSE copy[k]]
    BY DEF Stores
  <2>2. {"module", "step", "pin_digits"} \subseteq Key
    BY SessionAssumption, PinAssumption
  <2>3. DOMAIN session' = Key
    BY <2>1
  <2>4. PlaceOK(<<session'["module"], session'["step"]>>, P)
    BY <1>1, <1>3, <2>1, <2>2 DEF DataOK, SessionOK
  <2>5. DigitsOK(session'["pin_digits"])
    BY <1>1, <1>3, <2>1, <2>2 DEF DataOK, SessionOK
  <2>6. QED BY <2>3, <2>4, <2>5 DEF SessionOK
<1>5. QED BY <1>1, <1>2, <1>4, GoneOn, OneMoves DEF Core

LEMMA ClearsKeeps ==
  ASSUME NEW P, NEW t \in Task, Core(P), Clears(t)
  PROVE  Core(P)'
<1>1. task[t].todo # <<>> /\ call[t] = None
  <2>1. Takes(t, "clear")
    BY DEF Clears
  <2>2. QED BY <2>1, FirstAccess
<1>2. session' = Empty /\ call' = call /\ Goes(t, task[t].seen)
  BY DEF Clears
<1>3. SessionOK(session', P)
  BY <1>2, EmptyIsOK
<1>4. QED BY <1>1, <1>2, <1>3, GoneOn, OneMoves DEF Core

LEMMA LosesKeeps ==
  ASSUME NEW P, NEW t \in Task, Core(P), Loses(t)
  PROVE  Core(P)'
<1>1. task[t].todo # <<>> /\ call[t] = None
  <2>1. Takes(t, "clear") \/ Takes(t, "put")
    BY DEF Loses
  <2>2. QED BY <2>1, FirstAccess
<1>2. session' = session /\ call' = call /\ Goes(t, task[t].seen)
  BY DEF Loses
<1>3. QED BY <1>1, <1>2, GoneOn, OneMoves DEF Core

LEMMA ShowsKeeps ==
  ASSUME NEW P, NEW t \in Task, Core(P), Shows(t)
  PROVE  Core(P)'
<1>1. task[t].todo # <<>> /\ call[t] = None
  BY FirstAccess DEF Shows
<1>2. session' = session /\ call' = call /\ Goes(t, task[t].seen)
  BY DEF Shows
<1>3. QED BY <1>1, <1>2, GoneOn, OneMoves DEF Core

LEMMA SubmitsKeeps ==
  ASSUME NEW P, NEW t \in Task, Core(P), Submits(t)
  PROVE  Core(P)'
<1>1. task[t].todo # <<>> /\ Access(t).op = "submit" /\ Access(t).order.kind \in OrderKind
  BY FirstAccess DEF Submits, EntryOK
<1>2. session' = session /\ task' = task
  BY DEF Submits
<1>3. /\ DOMAIN call' = Task /\ call'[t] = Access(t).order
      /\ \A u \in Task \ {t} : call'[u] = call[u]
  BY DEF Submits, Core
<1>4. TaskOK(task'[t], call'[t], P)
  BY <1>1, <1>2, <1>3 DEF Core, TaskOK, Access
<1>5. QED BY <1>2, <1>3, <1>4, OneMoves DEF Core

LEMMA ReturnsKeeps ==
  ASSUME NEW P, NEW t \in Task, Core(P), Returns(t)
  PROVE  Core(P)'
<1>1. task[t].todo # <<>>
  BY DEF Returns, Core, TaskOK
<1>2. session' = session /\ Goes(t, task[t].seen)
  BY DEF Returns
<1>3. /\ DOMAIN call' = Task /\ call'[t] = None
      /\ \A u \in Task \ {t} : call'[u] = call[u]
  BY DEF Returns, Core
<1>4. QED BY <1>1, <1>2, <1>3, GoneOn, OneMoves DEF Core

LEMMA ExpiresKeeps ==
  ASSUME NEW P, Core(P), Expires
  PROVE  Core(P)'
<1>1. session' = Empty /\ task' = task /\ call' = call
  BY DEF Expires
<1>2. SessionOK(session', P)
  BY <1>1, EmptyIsOK
<1>3. QED BY <1>1, <1>2 DEF Core

LEMMA SessionStepKeeps ==
  ASSUME NEW P, NEW t \in Task, Core(P), SessionStep(t)
  PROVE  Core(P)'
BY ReadsKeeps, FetchesKeeps, StoresKeeps, ClearsKeeps, ShowsKeeps, SubmitsKeeps, ReturnsKeeps
   DEF SessionStep

-----------------------------------------------------------------------------
(* The parts: each leaves a list of accesses. *)

Proceeds(t, P) == \E todo : TodoOK(todo, P) /\ Continue(t, todo)

LEMMA ProceedsKeeps ==
  ASSUME NEW P, NEW Q, P \subseteq Q, NEW t \in Task, Core(P), Proceeds(t, Q), call[t] = None
  PROVE  Core(Q)'
<1>1. PICK todo : TodoOK(todo, Q) /\ Continue(t, todo)
  BY DEF Proceeds
<1>2. session' = session /\ call' = call
  BY <1>1 DEF Continue
<1>3. /\ DOMAIN task' = Task
      /\ \A u \in Task \ {t} : task'[u] = task[u]
      /\ task'[t] = [Idle EXCEPT !.todo = todo]
  BY <1>1 DEF Continue, Core
<1>4. task'[t] = [todo |-> todo, seen |-> Empty, copy |-> None]
  BY <1>3 DEF Idle
<1>5. TaskOK(task'[t], call'[t], Q)
  BY <1>1, <1>2, <1>4 DEF TaskOK
<1>6. SessionOK(session', Q)
  BY <1>2, SessionGrows DEF Core
<1>7. QED BY <1>2, <1>3, <1>5, <1>6, OneMoves DEF Core

\* The accesses that the parts are made of.
LEMMA PlainEntries ==
  ASSUME NEW P
  PROVE  /\ \A keys : Plain(Get(keys), P)
         /\ \A data : DataOK(data, P) => Plain(Put(data), P)
         /\ Plain(Clear, P)
         /\ \A order : order.kind \in OrderKind => Plain(Show(order), P)
         /\ \A part : part # "pin_return" => Plain(Do(part), P)
         /\ \A part, v : part # "pin_return" \/ v => Plain(DoWith(part, v), P)
         /\ \A m, st : PlaceOK(<<m, st>>, P) => Plain(SetStep(m, st), P)
         /\ Plain(Rewrite, P)
<1>1. \A keys : Plain(Get(keys), P)
  BY DEF Plain, EntryOK, Get
<1>2. \A data : DataOK(data, P) => Plain(Put(data), P)
  BY DEF Plain, EntryOK, Put
<1>3. Plain(Clear, P)
  BY DEF Plain, EntryOK, Clear
<1>4. \A order : order.kind \in OrderKind => Plain(Show(order), P)
  BY DEF Plain, EntryOK, Show
<1>5. \A part : part # "pin_return" => Plain(Do(part), P)
  BY DEF Plain, EntryOK, Do
<1>6. \A part, v : part # "pin_return" \/ v => Plain(DoWith(part, v), P)
  BY DEF Plain, EntryOK, DoWith
<1>7. ASSUME NEW m, NEW st, PlaceOK(<<m, st>>, P) PROVE Plain(SetStep(m, st), P)
  <2>1. DataOK([module |-> m, step |-> st], P)
    BY <1>7 DEF DataOK
  <2>2. QED BY <1>2, <2>1 DEF SetStep
<1>8. Plain(Rewrite, P)
  <2>1. DataOK([k \in {} |-> None], P)
    BY DEF DataOK
  <2>2. QED BY <1>2, <2>1 DEF Rewrite
<1>9. QED BY <1>1, <1>2, <1>3, <1>4, <1>5, <1>6, <1>7, <1>8

\* Places that no PIN is needed for.
LEMMA Unguarded ==
  ASSUME NEW P
  PROVE  /\ \A st : /\ PlaceOK(<<"PIN", st>>, P) /\ PlaceOK(<<"Receive", st>>, P)
                    /\ PlaceOK(<<"Wallet", st>>, P) /\ PlaceOK(<<"Merchant", st>>, P)
         /\ \A m : \A st \in {"select_recipient", "input_amount", "select_currency", "confirm",
                              "invest_amount", "confirm_invest", "adjust_limit_input", "amount",
                              "count", "remark", "cover_upload"} :
              PlaceOK(<<m, st>>, P)
BY DEF PlaceOK, Guarded

\* A list after Begin, Then or AskPIN is what is left of the handler.
LEMMA GoesOn ==
  ASSUME NEW P, NEW t, NEW todo, PlainTodo(todo, P)
  PROVE  /\ Begin(t, todo) => Proceeds(t, P)
         /\ Then(t, todo) => Proceeds(t, P)
         /\ Continue(t, todo) => Proceeds(t, P)
         /\ \A order : AskPIN(t, todo, order) => Proceeds(t, P)
BY PlainIsOK DEF Proceeds, Begin, Then, AskPIN, Continue

\* The keypad's own lists.
LEMMA KeypadLists ==
  ASSUME NEW P, NEW m, NEW a
  PROVE  PlainTodo(StartPINSetup(m, a), P) /\ PlainTodo(StartPINVerify(m, a), P)
<1>1. DataOK([module |-> "PIN", step |-> "set_input", pin_digits |-> None, pin_first |-> None,
              pin_callback_module |-> m, pin_callback_action |-> a], P)
  BY Unguarded DEF DataOK, DigitsOK
<1>2. DataOK([module |-> "PIN", step |-> "verify", pin_digits |-> None,
              pin_callback_module |-> m, pin_callback_action |-> a], P)
  BY Unguarded DEF DataOK, DigitsOK
<1>3. QED BY <1>1, <1>2, PlainEntries, ShortLists DEF StartPINSetup, StartPINVerify

LEMMA OneClear ==
  ASSUME NEW P
  PROVE  PlainTodo(<<>>, P) /\ PlainTodo(<<Clear>>, P)
BY PlainEntries, ShortLists

LEMMA SubmitAndClear ==
  ASSUME NEW P, NEW order, order.kind \in OrderKind
  PROVE  TodoOK(<<Submit(order), Clear>>, P) /\ TodoOK(<<Clear, Submit(order)>>, P)
<1>1. Patient(Submit(order)) /\ EntryOK(Submit(order), P)
  BY DEF Patient, EntryOK, Submit
<1>2. Patient(Clear) /\ EntryOK(Clear, P)
  BY DEF Patient, EntryOK, Clear
<1>3. QED BY <1>1, <1>2, PatientLists

\* Every order has one of the kinds.
LEMMA OrderHasKind ==
  ASSUME NEW kind \in OrderKind, NEW to, NEW amount, NEW currency
  PROVE  Order(kind, to, amount, currency).kind \in OrderKind
BY DEF Order

LEMMA OrderKinds ==
  {"transfer", "request", "pay", "withdraw", "exchange", "invest",
   "red_packet", "remark", "shop", "create_shop"} \subseteq OrderKind
BY DEF OrderKind

-----------------------------------------------------------------------------
(* The keypad's parts. *)

LEMMA PINPressGoes ==
  ASSUME NEW P, NEW t \in Task, PINPress(t)
  PROVE  Proceeds(t, P)
<1>1. PlainTodo(<<Do("pin_delete")>>, P)
      /\ PlainTodo(<<DoWith("pin_digit", session["step"])>>, P)
  BY PlainEntries, ShortLists
<1>2. QED BY <1>1, OneClear, GoesOn DEF PINPress

LEMMA PINDeleteGoes ==
  ASSUME NEW P, NEW t \in Task, Core(passed), PINDelete(t)
  PROVE  Proceeds(t, P)
<1>1. PlainTodo(<<Put([pin_digits |-> None])>>, P)
  <2>1. DataOK([pin_digits |-> None], P)
    BY DEF DataOK, DigitsOK
  <2>2. QED BY <2>1, PlainEntries, ShortLists
<1>2. ASSUME Digits > 1 PROVE PlainTodo(<<Put([pin_digits |-> Digits - 1])>>, P)
  <2>1. Digits \in 0 .. PinLength
    BY PinAssumption DEF Core, SessionOK, DigitsOK, Digits
  <2>2. DataOK([pin_digits |-> Digits - 1], P)
    BY <1>2, <2>1, PinAssumption DEF DataOK, DigitsOK
  <2>3. QED BY <2>2, PlainEntries, ShortLists
<1>3. QED BY <1>1, <1>2, OneClear, GoesOn DEF PINDelete

LEMMA PINDigitGoes ==
  ASSUME NEW P, NEW t \in Task, Core(passed), PINDigit(t)
  PROVE  Proceeds(t, P)
<1>1. ASSUME Digits + 1 <= PinLength
      PROVE  /\ PlainTodo(<<Put([pin_digits |-> Digits + 1])>>, P)
             /\ PlainTodo(<<Put([pin_digits |-> Digits + 1]),
                            DoWith("pin_complete", Given(t))>>, P)
  <2>1. Digits \in 0 .. PinLength
    BY PinAssumption DEF Core, SessionOK, DigitsOK, Digits
  <2>2. DataOK([pin_digits |-> Digits + 1], P)
    BY <1>1, <2>1, PinAssumption DEF DataOK, DigitsOK
  <2>3. QED BY <2>2, PlainEntries, ShortLists
<1>2. Digits + 1 < PinLength \/ Digits + 1 = PinLength => Digits + 1 <= PinLength
  BY PinAssumption DEF Core, SessionOK, DigitsOK, Digits
<1>3. QED BY <1>1, <1>2, OneClear, GoesOn DEF PINDigit

LEMMA OnSetInputGoes ==
  ASSUME NEW P, NEW t \in Task, NEW p \in Pin, OnSetInputComplete(t, p)
  PROVE  Proceeds(t, P)
<1>1. DataOK([module |-> "PIN", step |-> "set_confirm", pin_first |-> p, pin_digits |-> None], P)
  BY Unguarded DEF DataOK, DigitsOK
<1>2. PlainTodo(<<Put([module |-> "PIN", step |-> "set_confirm",
                       pin_first |-> p, pin_digits |-> None])>>, P)
  BY <1>1, PlainEntries, ShortLists
<1>3. QED BY <1>2, GoesOn DEF OnSetInputComplete

LEMMA OnSetConfirmGoes ==
  ASSUME NEW P, NEW t \in Task, NEW p \in Pin, OnSetConfirmComplete(t, p)
  PROVE  Proceeds(t, P)
<1>1. DataOK([module |-> "PIN", step |-> "set_input", pin_digits |-> None, pin_first |-> None], P)
  BY Unguarded DEF DataOK, DigitsOK
<1>2. PlainTodo(<<Put([module |-> "PIN", step |-> "set_input",
                       pin_digits |-> None, pin_first |-> None])>>, P)
  BY <1>1, PlainEntries, ShortLists
<1>3. QED BY <1>2, OneClear, GoesOn DEF OnSetConfirmComplete

LEMMA OnVerifyGoes ==
  ASSUME NEW P, NEW t \in Task, NEW p \in Pin, OnVerifyComplete(t, p)
  PROVE  Proceeds(t, P)
<1>1. ASSUME Accepts(p)
      PROVE  PlainTodo(<<Get({"pin_callback_module"}), Get({"pin_callback_action"}),
                         DoWith("pin_return", Accepts(p))>>, P)
  BY <1>1, PlainEntries, ShortLists
<1>2. QED BY <1>1, OneClear, GoesOn DEF OnVerifyComplete

\* The keypad goes back to the place that it then came back to.
LEMMA PINReturnGoes ==
  ASSUME NEW t \in Task, Core(passed), PINReturn(t)
  PROVE  Proceeds(t, passed \union CameBack(t))
<1>1. Takes(t, "do") /\ Access(t).part = "pin_return"
  BY DEF PINReturn, Doing
<1>2. Given(t)
  BY <1>1, FirstAccess DEF EntryOK, Given
<1>3. PlaceOK(<<Saw(t, "pin_callback_module"), Saw(t, "pin_callback_action")>>,
              passed \union CameBack(t))
  BY <1>1, <1>2 DEF PlaceOK, CameBack, Doing
<1>4. PlainTodo(<<SetStep(Saw(t, "pin_callback_module"), Saw(t, "pin_callback_action"))>>,
                passed \union CameBack(t))
  BY <1>3, PlainEntries, ShortLists
<1>5. QED BY <1>4, OneClear, GoesOn DEF PINReturn

-----------------------------------------------------------------------------
(* The parts of the dialogues and of a text. *)

LEMMA ExecuteLists ==
  ASSUME NEW P
  PROVE  /\ PlainTodo(ExecuteTransfer, P) /\ PlainTodo(ExecuteReceivePayment, P)
         /\ PlainTodo(ExecuteExchange, P) /\ PlainTodo(DoInvest, P) /\ PlainTodo(DoCreate, P)
BY PlainEntries, ShortLists
   DEF ExecuteTransfer, ExecuteReceivePayment, ExecuteExchange, DoInvest, DoCreate

LEMMA TransferTextGoes ==
  ASSUME NEW P, NEW t \in Task, TransferText(t)
  PROVE  Proceeds(t, P)
<1>1. ASSUME NEW u
      PROVE  PlainTodo(<<Put([module |-> "Transfer", step |-> "input_amount", to |-> u])>>, P)
  <2>1. DataOK([module |-> "Transfer", step |-> "input_amount", to |-> u], P)
    BY Unguarded DEF DataOK
  <2>2. QED BY <2>1, PlainEntries, ShortLists
<1>2. ASSUME NEW a
      PROVE  PlainTodo(<<Put([amount |-> a]), SetStep("Transfer", "select_currency")>>, P)
  <2>1. DataOK([amount |-> a], P)
    BY DEF DataOK
  <2>2. QED BY <2>1, Unguarded, PlainEntries, ShortLists
<1>3. QED BY <1>1, <1>2, ExecuteLists, GoesOn DEF TransferText

LEMMA CurrencySelectedGoes ==
  ASSUME NEW P, NEW t \in Task, CurrencySelected(t)
  PROVE  Proceeds(t, P)
<1>1. PlainTodo(<<Put([currency |-> Given(t)]), SetStep("Transfer", "confirm")>>, P)
  <2>1. DataOK([currency |-> Given(t)], P)
    BY DEF DataOK
  <2>2. QED BY <2>1, Unguarded, PlainEntries, ShortLists
<1>2. QED BY <1>1, OneClear, GoesOn DEF CurrencySelected

LEMMA TransferConfirmedGoes ==
  ASSUME NEW P, NEW t \in Task, TransferConfirmed(t)
  PROVE  Proceeds(t, P)
BY KeypadLists, ExecuteLists, GoesOn DEF TransferConfirmed

LEMMA TransferReadGoes ==
  ASSUME NEW P, NEW t \in Task, TransferRead(t)
  PROVE  Proceeds(t, P)
<1> DEFINE order == Order("transfer", Saw(t, "to"), Saw(t, "amount"), Saw(t, "currency"))
<1>1. TodoOK(<<Submit(order), Clear>>, P)
  <2>1. order.kind \in OrderKind
    BY OrderHasKind, OrderKinds
  <2>2. QED BY <2>1, SubmitAndClear
<1>2. QED BY <1>1, OneClear, GoesOn DEF TransferRead, Proceeds, Then

LEMMA ReceiveTextGoes ==
  ASSUME NEW P, NEW t \in Task, ReceiveText(t)
  PROVE  Proceeds(t, P)
<1>1. ASSUME NEW a
      PROVE  PlainTodo(<<Put([module |-> "Receive", step |-> "select_payer",
                              amount |-> a, currency |-> "USDT"]),
                         Show(Order("request", None, a, "USDT"))>>, P)
  <2>1. DataOK([module |-> "Receive", step |-> "select_payer",
                amount |-> a, currency |-> "USDT"], P)
    BY Unguarded DEF DataOK
  <2>2. Order("request", None, a, "USDT").kind \in OrderKind
    BY OrderHasKind, OrderKinds
  <2>3. QED BY <2>1, <2>2, PlainEntries, ShortLists
<1>2. PlainTodo(<<Get({"amount"}), Get({"currency"}), Do("request")>>, P)
  BY PlainEntries, ShortLists
<1>3. QED BY <1>1, <1>2, ExecuteLists, GoesOn DEF ReceiveText

LEMMA RequestReadGoes ==
  ASSUME NEW P, NEW t \in Task, RequestRead(t)
  PROVE  Proceeds(t, P)
<1>1. ASSUME NEW a, NEW c
      PROVE  TodoOK(<<Submit(Order("request", None, a, c)), Clear>>, P)
  <2>1. Order("request", None, a, c).kind \in OrderKind
    BY OrderHasKind, OrderKinds
  <2>2. QED BY <2>1, SubmitAndClear
<1>2. QED BY <1>1, OneClear, GoesOn DEF RequestRead, Proceeds, Then

LEMMA PayConfirmedGoes ==
  ASSUME NEW P, NEW t \in Task, PayConfirmed(t)
  PROVE  Proceeds(t, P)
BY KeypadLists, ExecuteLists, GoesOn DEF PayConfirmed

LEMMA PaymentReadGoes ==
  ASSUME NEW P, NEW t \in Task, PaymentRead(t)
  PROVE  Proceeds(t, P)
<1>1. ASSUME NEW q PROVE TodoOK(<<Clear, Submit(RequestOrder(q))>>, P)
  <2>1. RequestOrder(q).kind \in OrderKind
    BY OrderHasKind, OrderKinds DEF RequestOrder
  <2>2. QED BY <2>1, SubmitAndClear
<1>2. QED BY <1>1, OneClear, GoesOn DEF PaymentRead, Proceeds, Then

LEMMA TransferPartGoes ==
  ASSUME NEW P, NEW t \in Task, TransferPart(t)
  PROVE  Proceeds(t, P)
BY TransferTextGoes, CurrencySelectedGoes, TransferConfirmedGoes, TransferReadGoes,
   ReceiveTextGoes, RequestReadGoes, PayConfirmedGoes, PaymentReadGoes DEF TransferPart

LEMMA WithdrawTextGoes ==
  ASSUME NEW P, NEW t \in Task, WithdrawText(t)
  PROVE  Proceeds(t, P)
<1>1. PlainTodo(<<Do("withdraw_amount")>>, P)
  BY PlainEntries, ShortLists
<1>2. ASSUME NEW address
      PROVE  PlainTodo(<<Get({"withdraw_currency"}), Get({"withdraw_amount"}),
                         DoWith("withdraw_address", address)>>, P)
  BY PlainEntries, ShortLists
<1>3. QED BY <1>1, <1>2, GoesOn DEF WithdrawText

LEMMA WithdrawAmountInputGoes ==
  ASSUME NEW P, NEW t \in Task, WithdrawAmountInput(t)
  PROVE  Proceeds(t, P)
<1>1. ASSUME NEW a
      PROVE  PlainTodo(<<Put([module |-> "Wallet", step |-> "withdraw_address",
                              withdraw_amount |-> a])>>, P)
  <2>1. DataOK([module |-> "Wallet", step |-> "withdraw_address", withdraw_amount |-> a], P)
    BY Unguarded DEF DataOK
  <2>2. QED BY <2>1, PlainEntries, ShortLists
<1>2. QED BY <1>1, OneClear, GoesOn DEF WithdrawAmountInput

LEMMA WithdrawAddressInputGoes ==
  ASSUME NEW P, NEW t \in Task, WithdrawAddressInput(t)
  PROVE  Proceeds(t, P)
<1> DEFINE order == WithdrawOrder(t, Given(t))
<1>1. ASSUME NEW need PROVE PlainTodo(WithdrawPage(order, need), P)
  <2>1. DataOK([module |-> "Wallet", step |-> "withdraw_confirm",
                withdraw_address |-> order.to, withdraw_need_pin |-> need], P)
    BY Unguarded DEF DataOK
  <2>2. order.kind \in OrderKind
    BY OrderHasKind, OrderKinds DEF WithdrawOrder
  <2>3. QED BY <2>1, <2>2, PlainEntries, ShortLists DEF WithdrawPage
<1>2. QED BY <1>1, OneClear, GoesOn DEF WithdrawAddressInput

LEMMA WithdrawConfirmedGoes ==
  ASSUME NEW P, NEW t \in Task, WithdrawConfirmed(t)
  PROVE  Proceeds(t, P)
<1>1. PlainTodo(<<Do("withdraw_need_pin")>>, P)
  BY PlainEntries, ShortLists
<1>2. QED BY <1>1, OneClear, GoesOn DEF WithdrawConfirmed

LEMMA WithdrawNeedsPINGoes ==
  ASSUME NEW P, NEW t \in Task, WithdrawNeedsPIN(t)
  PROVE  Proceeds(t, P)
<1>1. PlainTodo(<<Put([withdraw_need_pin |-> FALSE])>>
                  \o StartPINVerify("Wallet", "withdraw_confirm"), P)
  <2>1. DataOK([withdraw_need_pin |-> FALSE], P)
    BY DEF DataOK
  <2>2. PlainTodo(<<Put([withdraw_need_pin |-> FALSE])>>, P)
    BY <2>1, PlainEntries, ShortLists
  <2>3. QED BY <2>2, KeypadLists, PlainConcat
<1>2. PlainTodo(<<Get({"withdraw_currency"}), Get({"withdraw_amount"}),
                  Get({"withdraw_address"}), Do("withdraw")>>, P)
  BY PlainEntries, ShortLists
<1>3. QED BY <1>1, <1>2, GoesOn DEF WithdrawNeedsPIN

LEMMA WithdrawalReadGoes ==
  ASSUME NEW P, NEW t \in Task, WithdrawalRead(t)
  PROVE  Proceeds(t, P)
<1> DEFINE order == WithdrawOrder(t, Saw(t, "withdraw_address"))
<1>1. TodoOK(<<Submit(order), Clear>>, P)
  <2>1. order.kind \in OrderKind
    BY OrderHasKind, OrderKinds DEF WithdrawOrder
  <2>2. QED BY <2>1, SubmitAndClear
<1>2. QED BY <1>1, OneClear, GoesOn DEF WithdrawalRead, Proceeds, Then

LEMMA WithdrawPartGoes ==
  ASSUME NEW P, NEW t \in Task, WithdrawPart(t)
  PROVE  Proceeds(t, P)
BY WithdrawTextGoes, WithdrawAmountInputGoes, WithdrawAddressInputGoes, WithdrawConfirmedGoes,
   WithdrawNeedsPINGoes, WithdrawalReadGoes DEF WithdrawPart

LEMMA ExchangePartGoes ==
  ASSUME NEW P, NEW t \in Task, ExchangePart(t)
  PROVE  Proceeds(t, P)
<1>1. CASE ExchangeText(t)
  <2>1. ASSUME NEW a
        PROVE  PlainTodo(<<Get({"from_currency"}), Get({"to_currency"}),
                           DoWith("exchange_amount", a)>>, P)
    BY PlainEntries, ShortLists
  <2>2. QED BY <1>1, <2>1, ExecuteLists, GoesOn DEF ExchangeText
<1>2. CASE ExchangeInputAmount(t)
  <2>1. DataOK([module |-> "Exchange", step |-> "confirm", amount |-> Given(t)], P)
    BY Unguarded DEF DataOK
  <2>2. PlainTodo(<<Put([module |-> "Exchange", step |-> "confirm", amount |-> Given(t)])>>, P)
    BY <2>1, PlainEntries, ShortLists
  <2>3. QED BY <1>2, <2>2, OneClear, GoesOn DEF ExchangeInputAmount
<1>3. CASE ExchangeConfirmed(t)
  BY <1>3, KeypadLists, ExecuteLists, GoesOn DEF ExchangeConfirmed
<1>4. CASE ExchangeRead(t)
  <2> DEFINE order == Order("exchange", Saw(t, "to_currency"), Saw(t, "amount"),
                            Saw(t, "from_currency"))
  <2>1. TodoOK(<<Submit(order), Clear>>, P)
    <3>1. order.kind \in OrderKind
      BY OrderHasKind, OrderKinds
    <3>2. QED BY <3>1, SubmitAndClear
  <2>2. QED BY <1>4, <2>1, OneClear, GoesOn DEF ExchangeRead, Proceeds, Then
<1>5. QED BY <1>1, <1>2, <1>3, <1>4 DEF ExchangePart

LEMMA FinancePartGoes ==
  ASSUME NEW P, NEW t \in Task, FinancePart(t)
  PROVE  Proceeds(t, P)
<1>1. ASSUME NEW a PROVE InvestOrder(a).kind \in OrderKind
  BY OrderHasKind, OrderKinds DEF InvestOrder
<1>2. CASE FinanceText(t)
  <2>1. ASSUME NEW a
        PROVE  PlainTodo(<<Put([module |-> "Finance", step |-> "confirm_invest",
                                invest_amount |-> a]),
                           Show(InvestOrder(a))>>, P)
    <3>1. DataOK([module |-> "Finance", step |-> "confirm_invest", invest_amount |-> a], P)
      BY Unguarded DEF DataOK
    <3>2. QED BY <1>1, <3>1, PlainEntries, ShortLists
  <2>2. QED BY <1>2, <2>1, ExecuteLists, GoesOn DEF FinanceText
<1>3. CASE InvestConfirmed(t)
  BY <1>3, KeypadLists, ExecuteLists, OneClear, GoesOn DEF InvestConfirmed
<1>4. CASE InvestRead(t)
  <2>1. TodoOK(<<Submit(InvestOrder(session["invest_amount"])), Clear>>, P)
    BY <1>1, SubmitAndClear
  <2>2. QED BY <1>4, <2>1, OneClear, GoesOn DEF InvestRead, Proceeds, Then
<1>5. CASE ProfileText(t)
  <2>1. ASSUME NEW a
        PROVE  PlainTodo(<<Put([adjust_amount |-> a])>>
                           \o StartPINVerify("Profile", "adjust_limit_pin"), P)
    <3>1. DataOK([adjust_amount |-> a], P)
      BY DEF DataOK
    <3>2. PlainTodo(<<Put([adjust_amount |-> a])>>, P)
      BY <3>1, PlainEntries, ShortLists
    <3>3. QED BY <3>2, KeypadLists, PlainConcat
  <2>2. PlainTodo(<<Get({"adjust_currency"}), Get({"adjust_amount"}), Do("adjust")>>, P)
    BY PlainEntries, ShortLists
  <2>3. QED BY <1>5, <2>1, <2>2, GoesOn DEF ProfileText
<1>6. QED BY <1>2, <1>3, <1>4, <1>5 DEF FinancePart

LEMMA RedPacketPartGoes ==
  ASSUME NEW P, NEW t \in Task, RedPacketPart(t)
  PROVE  Proceeds(t, P)
<1>1. CASE RedPacketText(t)
  <2>1. PlainTodo(<<Do("packet_amount")>>, P) /\ PlainTodo(<<Do("remark")>>, P)
    BY PlainEntries, ShortLists
  <2>2. ASSUME NEW n
        PROVE  PlainTodo(<<Put([module |-> "RedPacket", step |-> "confirm", count |-> n])>>, P)
    <3>1. DataOK([module |-> "RedPacket", step |-> "confirm", count |-> n], P)
      BY Unguarded DEF DataOK
    <3>2. QED BY <3>1, PlainEntries, ShortLists
  <2>3. QED BY <1>1, <2>1, <2>2, OneClear, GoesOn DEF RedPacketText
<1>2. CASE PacketInputAmount(t)
  <2>1. ASSUME NEW a
        PROVE  PlainTodo(<<Put([module |-> "RedPacket", step |-> "count", amount |-> a])>>, P)
    <3>1. DataOK([module |-> "RedPacket", step |-> "count", amount |-> a], P)
      BY Unguarded DEF DataOK
    <3>2. QED BY <3>1, PlainEntries, ShortLists
  <2>2. QED BY <1>2, <2>1, OneClear, GoesOn DEF PacketInputAmount
<1>3. CASE PacketConfirmed(t)
  BY <1>3, KeypadLists, ExecuteLists, GoesOn DEF PacketConfirmed
<1>4. CASE PacketRead(t)
  <2> DEFINE order == Order("red_packet", Saw(t, "count"), Saw(t, "amount"), Saw(t, "currency"))
  <2>1. TodoOK(<<Submit(order), Clear>>, P)
    <3>1. order.kind \in OrderKind
      BY OrderHasKind, OrderKinds
    <3>2. QED BY <3>1, SubmitAndClear
  <2>2. QED BY <1>4, <2>1, OneClear, GoesOn DEF PacketRead, Proceeds, Then
<1>5. CASE PacketInputRemark(t)
  <2>1. TodoOK(<<Submit(RemarkOrder(session["remark_packet_id"])), Clear>>, P)
    <3>1. RemarkOrder(session["remark_packet_id"]).kind \in OrderKind
      BY OrderHasKind, OrderKinds DEF RemarkOrder
    <3>2. QED BY <3>1, SubmitAndClear
  <2>2. QED BY <1>5, <2>1, OneClear, GoesOn DEF PacketInputRemark, Proceeds, Then
<1>6. QED BY <1>1, <1>2, <1>3, <1>4, <1>5 DEF RedPacketPart

LEMMA ShopPartGoes ==
  ASSUME NEW P, NEW t \in Task, ShopPart(t)
  PROVE  Proceeds(t, P)
<1>1. CASE CreateShopAsks(t)
  BY <1>1, KeypadLists, GoesOn DEF CreateShopAsks
<1>2. CASE MerchantText(t)
  <2>1. \A field : PlainTodo(<<DoWith("field", field)>>, P)
    BY PlainEntries, ShortLists
  <2>2. QED BY <1>2, <2>1, GoesOn DEF MerchantText
<1>3. CASE FieldInput(t)
  <2> DEFINE order == FieldOrder(session["merchant_id"], Given(t))
             done  == DoWith("field_done", Given(t))
  <2>1. Patient(Submit(order)) /\ EntryOK(Submit(order), P)
    BY OrderHasKind, OrderKinds DEF Patient, EntryOK, Submit, FieldOrder
  <2>2. Patient(done) /\ EntryOK(done, P)
    BY DEF Patient, EntryOK, DoWith
  <2>3. TodoOK(<<Submit(order), done>>, P)
    BY <2>1, <2>2, PatientLists
  <2>4. QED BY <1>3, <2>3, OneClear, GoesOn DEF FieldInput, Proceeds, Then
<1>4. CASE FieldReturns(t)
  BY <1>4, OneClear, GoesOn DEF FieldReturns
<1>5. QED BY <1>1, <1>2, <1>3, <1>4 DEF ShopPart

LEMMA TextPartGoes ==
  ASSUME NEW P, NEW t \in Task, TextPart(t)
  PROVE  Proceeds(t, P)
<1>1. PlainTodo(<<Do("dispatch")>>, P) /\ \A m : PlainTodo(<<DoWith("input", m)>>, P)
  BY PlainEntries, ShortLists
<1>2. CASE PINKeepsText(t)
  BY <1>1, <1>2, OneClear, GoesOn DEF PINKeepsText
<1>3. CASE Dispatch(t)
  BY <1>1, <1>3, OneClear, GoesOn DEF Dispatch
<1>4. CASE TextRefused(t) \/ TextNotTaken(t)
  BY <1>4, OneClear, GoesOn DEF TextRefused, TextNotTaken
<1>5. QED BY <1>2, <1>3, <1>4 DEF TextPart

LEMMA AdjustReadGoes ==
  ASSUME NEW P, NEW t \in Task, AdjustRead(t)
  PROVE  Proceeds(t, P)
BY OneClear, GoesOn DEF AdjustRead

LEMMA PartGoes ==
  ASSUME NEW t \in Task, Core(passed), Part(t)
  PROVE  Proceeds(t, passed \union CameBack(t))
<1>1. CASE PINPart(t)
  <2>1. CASE PINPress(t)
    BY <2>1, PINPressGoes
  <2>2. CASE PINDelete(t)
    BY <2>2, PINDeleteGoes
  <2>3. CASE PINDigit(t)
    BY <2>3, PINDigitGoes
  <2>4. CASE PINReturn(t)
    BY <2>4, PINReturnGoes
  <2>5. ASSUME NEW p \in Pin,
               OnSetInputComplete(t, p) \/ OnSetConfirmComplete(t, p) \/ OnVerifyComplete(t, p)
        PROVE  Proceeds(t, passed \union CameBack(t))
    BY <2>5, OnSetInputGoes, OnSetConfirmGoes, OnVerifyGoes
  <2>6. QED BY <1>1, <2>1, <2>2, <2>3, <2>4, <2>5 DEF PINPart
<1>2. CASE AdjustRead(t) \/ TextPart(t) \/ TransferPart(t) \/ WithdrawPart(t)
  BY <1>2, AdjustReadGoes, TextPartGoes, TransferPartGoes, WithdrawPartGoes
<1>3. CASE ExchangePart(t) \/ FinancePart(t) \/ RedPacketPart(t) \/ ShopPart(t)
  BY <1>3, ExchangePartGoes, FinancePartGoes, RedPacketPartGoes, ShopPartGoes
<1>4. QED BY <1>1, <1>2, <1>3 DEF Part

\* A part is the first access of its handler.
LEMMA PartIsAccess ==
  ASSUME NEW t \in Task, Part(t)
  PROVE  Takes(t, "do")
<1>1. (\E part : Doing(t, part)) => Takes(t, "do")
  BY DEF Doing
<1>2. CASE PINPart(t)
  BY <1>1, <1>2 DEF PINPart, PINPress, PINDelete, PINDigit, PINReturn, OnSetInputComplete,
                    OnSetConfirmComplete, OnVerifyComplete, Completes
<1>3. CASE TextPart(t)
  BY <1>1, <1>3 DEF TextPart, PINKeepsText, Dispatch, TextRefused, TextNotTaken, Input
<1>4. CASE TransferPart(t)
  BY <1>1, <1>4 DEF TransferPart, TransferText, CurrencySelected, TransferConfirmed, TransferRead,
                    ReceiveText, RequestRead, PayConfirmed, PaymentRead, Input
<1>5. CASE WithdrawPart(t)
  BY <1>1, <1>5 DEF WithdrawPart, WithdrawText, WithdrawAmountInput, WithdrawAddressInput,
                    WithdrawConfirmed, WithdrawNeedsPIN, WithdrawalRead, Input
<1>6. CASE ExchangePart(t)
  BY <1>1, <1>6 DEF ExchangePart, ExchangeText, ExchangeInputAmount, ExchangeConfirmed,
                    ExchangeRead, Input
<1>7. CASE FinancePart(t) \/ AdjustRead(t)
  BY <1>1, <1>7 DEF FinancePart, FinanceText, InvestConfirmed, InvestRead, ProfileText,
                    AdjustRead, Input
<1>8. CASE RedPacketPart(t)
  BY <1>1, <1>8 DEF RedPacketPart, RedPacketText, PacketInputAmount, PacketConfirmed, PacketRead,
                    PacketInputRemark, Input
<1>9. CASE ShopPart(t)
  BY <1>1, <1>9 DEF ShopPart, CreateShopAsks, MerchantText, FieldInput, FieldReturns, Input
<1>10. QED BY <1>2, <1>3, <1>4, <1>5, <1>6, <1>7, <1>8, <1>9 DEF Part

-----------------------------------------------------------------------------
(* The updates that come in. *)

LEMMA ButtonGoes ==
  ASSUME NEW P, NEW t \in Task, Button(t)
  PROVE  Proceeds(t, P)
<1>1. CASE TransferButton(t)
  <2>1. PlainTodo(<<SetStep("Transfer", "select_recipient")>>, P)
    BY Unguarded, PlainEntries, ShortLists
  <2>2. \A c : PlainTodo(<<DoWith("select_currency", c)>>, P)
    BY PlainEntries, ShortLists
  <2>3. PlainTodo(<<Get({"amount"}), Get({"currency"}), Do("confirm_transfer")>>, P)
    BY PlainEntries, ShortLists
  <2>4. QED BY <1>1, <2>1, <2>2, <2>3, GoesOn
            DEF TransferButton, ShowSendDashboard, SelectCurrency, ConfirmTransfer
<1>2. CASE ReceiveButton(t)
  <2>1. PlainTodo(<<SetStep("Receive", "input_amount")>>, P)
    BY Unguarded, PlainEntries, ShortLists
  <2>2. ASSUME NEW q
        PROVE  PlainTodo(<<Put([module |-> "Receive", step |-> "execute_pay",
                                pay_transfer_id |-> q]), DoWith("pay_pin", q)>>, P)
    <3>1. DataOK([module |-> "Receive", step |-> "execute_pay", pay_transfer_id |-> q], P)
      BY Unguarded DEF DataOK
    <3>2. QED BY <3>1, PlainEntries, ShortLists
  <2>3. QED BY <1>2, <2>1, <2>2, GoesOn DEF ReceiveButton, ShowReceiveDashboard, PayConfirm
<1>3. CASE WalletButton(t)
  <2>1. ASSUME NEW c
        PROVE  PlainTodo(<<Put([module |-> "Wallet", step |-> "withdraw_amount",
                                withdraw_currency |-> c])>>, P)
    <3>1. DataOK([module |-> "Wallet", step |-> "withdraw_amount", withdraw_currency |-> c], P)
      BY Unguarded DEF DataOK
    <3>2. QED BY <3>1, PlainEntries, ShortLists
  <2>2. PlainTodo(<<Do("withdraw_confirm")>>, P)
    BY PlainEntries, ShortLists
  <2>3. QED BY <1>3, <2>1, <2>2, KeypadLists, GoesOn
            DEF WalletButton, WalletSetup, StartWithdraw, WithdrawConfirm
<1>4. CASE ExchangeButton(t)
  <2>1. ASSUME NEW d
        PROVE  PlainTodo(<<Put([module |-> "Exchange", step |-> "input_amount",
                                from_currency |-> d.from, to_currency |-> d.to])>>, P)
    <3>1. DataOK([module |-> "Exchange", step |-> "input_amount",
                  from_currency |-> d.from, to_currency |-> d.to], P)
      BY Unguarded DEF DataOK
    <3>2. QED BY <3>1, PlainEntries, ShortLists
  <2>2. PlainTodo(<<Get({"amount"}), Get({"from_currency"}), Do("confirm_exchange")>>, P)
    BY PlainEntries, ShortLists
  <2>3. QED BY <1>4, <2>1, <2>2, GoesOn DEF ExchangeButton, StartExchange, ConfirmExchange
<1>5. CASE FinanceButton(t)
  <2>1. PlainTodo(<<SetStep("Finance", "invest_amount")>>, P)
    BY Unguarded, PlainEntries, ShortLists
  <2>2. PlainTodo(<<Get({"invest_amount"}), Do("confirm_invest")>>, P)
    BY PlainEntries, ShortLists
  <2>3. QED BY <1>5, <2>1, <2>2, ExecuteLists, GoesOn
            DEF FinanceButton, PromptInvestAmount, ConfirmInvest
<1>6. CASE ProfileButton(t)
  <2>1. ASSUME NEW c
        PROVE  PlainTodo(<<Put([module |-> "Profile", step |-> "adjust_limit_input",
                                adjust_currency |-> c])>>, P)
    <3>1. DataOK([module |-> "Profile", step |-> "adjust_limit_input", adjust_currency |-> c], P)
      BY Unguarded DEF DataOK
    <3>2. QED BY <3>1, PlainEntries, ShortLists
  <2>2. QED BY <1>6, <2>1, KeypadLists, GoesOn DEF ProfileButton, ProfileSetup, StartAdjustLimit
<1>7. CASE RedPacketButton(t)
  <2>1. ASSUME NEW c
        PROVE  PlainTodo(<<Put([module |-> "RedPacket", step |-> "amount", currency |-> c])>>, P)
    <3>1. DataOK([module |-> "RedPacket", step |-> "amount", currency |-> c], P)
      BY Unguarded DEF DataOK
    <3>2. QED BY <3>1, PlainEntries, ShortLists
  <2>2. PlainTodo(<<Get({"amount"}), Get({"currency"}), Do("confirm_packet")>>, P)
    BY PlainEntries, ShortLists
  <2>3. QED BY <1>7, <2>1, <2>2, ExecuteLists, GoesOn
            DEF RedPacketButton, PromptPacketAmount, ConfirmPacket
<1>8. CASE RemarkButton(t)
  <2>1. ASSUME NEW p
        PROVE  PlainTodo(<<Put([module |-> "RedPacket", step |-> "remark", remark_packet_id |-> p]),
                           Show(RemarkOrder(p))>>, P)
    <3>1. DataOK([module |-> "RedPacket", step |-> "remark", remark_packet_id |-> p], P)
      BY Unguarded DEF DataOK
    <3>2. RemarkOrder(p).kind \in OrderKind
      BY OrderHasKind, OrderKinds DEF RemarkOrder
    <3>3. QED BY <3>1, <3>2, PlainEntries, ShortLists
  <2>2. PlainTodo(<<SetStep("RedPacket", "cover_upload")>>, P)
    BY Unguarded, PlainEntries, ShortLists
  <2>3. PlainTodo(<<Put([cover_file_id |-> TRUE])>>, P)
    <3>1. DataOK([cover_file_id |-> TRUE], P)
      BY DEF DataOK
    <3>2. QED BY <3>1, PlainEntries, ShortLists
  <2>4. QED BY <1>8, <2>1, <2>2, <2>3, GoesOn
            DEF RemarkButton, PromptRemark, PromptCoverUpload, SelectCover
<1>9. CASE ShopButton(t)
  <2>1. PlainTodo(<<Do("create_shop")>>, P)
    BY PlainEntries, ShortLists
  <2>2. TodoOK(<<Clear, Submit(CreateOrder)>>, P)
    <3>1. CreateOrder.kind \in OrderKind
      BY OrderHasKind, OrderKinds DEF CreateOrder
    <3>2. QED BY <3>1, SubmitAndClear
  <2>3. ASSUME NEW m, NEW field
        PROVE  PlainTodo(<<Put([module |-> "Merchant", step |-> field, merchant_id |-> m]),
                           Show(FieldOrder(m, field))>>, P)
    <3>1. DataOK([module |-> "Merchant", step |-> field, merchant_id |-> m], P)
      BY Unguarded DEF DataOK
    <3>2. FieldOrder(m, field).kind \in OrderKind
      BY OrderHasKind, OrderKinds DEF FieldOrder
    <3>3. QED BY <3>1, <3>2, PlainEntries, ShortLists
  <2>4. CASE StartCreateShop(t)
    BY <2>1, <2>4, KeypadLists, GoesOn DEF StartCreateShop
  <2>5. CASE ShopPINVerified(t)
    BY <2>2, <2>5 DEF ShopPINVerified, Begin, Proceeds, Continue
  <2>6. ASSUME NEW m \in Shop, NEW field \in Field, PromptField(t, m, field)
        PROVE  Proceeds(t, P)
    BY <2>3, <2>6, GoesOn DEF PromptField
  <2>7. QED BY <1>9, <2>4, <2>5, <2>6 DEF ShopButton
<1>10. QED BY <1>1, <1>2, <1>3, <1>4, <1>5, <1>6, <1>7, <1>8, <1>9 DEF Button

LEMMA UpdateGoes ==
  ASSUME NEW P, NEW t \in Task, Update(t)
  PROVE  Proceeds(t, P)
<1>1. PlainTodo(<<Do("pin_press")>>, P) /\ PlainTodo(<<Do("text")>>, P)
  BY PlainEntries, ShortLists
<1>2. QED BY <1>1, OneClear, ButtonGoes, GoesOn DEF Update, PINCallback, StartsOver, Text

\* An update comes to a handler that has nothing to do.
LEMMA UpdateIsFirst ==
  ASSUME NEW t \in Task, Update(t)
  PROVE  task[t].todo = <<>>
<1>1. (\E todo : Begin(t, todo)) => task[t].todo = <<>>
  BY DEF Begin
<1>2. Button(t) => \E todo : Begin(t, todo)
  BY DEF Button, TransferButton, ShowSendDashboard, SelectCurrency, ConfirmTransfer,
         ReceiveButton, ShowReceiveDashboard, PayConfirm,
         WalletButton, WalletSetup, StartWithdraw, WithdrawConfirm,
         ExchangeButton, StartExchange, ConfirmExchange,
         FinanceButton, PromptInvestAmount, ConfirmInvest,
         ProfileButton, ProfileSetup, StartAdjustLimit,
         RedPacketButton, PromptPacketAmount, ConfirmPacket,
         RemarkButton, PromptRemark, PromptCoverUpload, SelectCover,
         ShopButton, StartCreateShop, ShopPINVerified, PromptField
<1>3. QED BY <1>1, <1>2 DEF Update, PINCallback, StartsOver, Text

-----------------------------------------------------------------------------
(* Every step keeps the invariant. *)

LEMMA CoreGrows ==
  ASSUME NEW P, NEW Q, P \subseteq Q, Core(P)'
  PROVE  Core(Q)'
BY TaskGrows, SessionGrows DEF Core

LEMMA CoreStep ==
  ASSUME Core(passed), BotNext
  PROVE  Core(passed)'
<1>1. ASSUME NEW t \in Task, Update(t) \/ SessionStep(t) \/ Part(t),
             Ghosts(FALSE, CameBack(t))
      PROVE  Core(passed)'
  <2>1. PICK P : P = passed
    OBVIOUS
  <2>2. PICK Q : Q = passed \union CameBack(t)
    OBVIOUS
  <2>3. P \subseteq Q /\ Core(P)
    BY <2>1, <2>2
  <2>4. Core(Q)'
    <3>1. CASE Update(t)
      <4>1. call[t] = None
        BY <3>1, UpdateIsFirst DEF Core, TaskOK
      <4>2. QED BY <2>3, <3>1, <4>1, UpdateGoes, ProceedsKeeps
    <3>2. CASE SessionStep(t)
      BY <2>3, <3>2, SessionStepKeeps, CoreGrows
    <3>3. CASE Part(t)
      <4>1. call[t] = None
        BY <2>3, <3>3, PartIsAccess, FirstAccess
      <4>2. Proceeds(t, Q)
        BY <2>2, <3>3, PartGoes
      <4>3. QED BY <2>3, <4>1, <4>2, ProceedsKeeps
    <3>4. QED BY <1>1, <3>1, <3>2, <3>3
  <2>5. passed' = IF Fresh' THEN {} ELSE Q
    BY <1>1, <2>2 DEF Ghosts
  <2>6. QED BY <2>4, <2>5, Settles
<1>2. ASSUME Others, Ghosts(FALSE, {}) PROVE Core(passed)'
  <2>1. PICK P : P = passed
    OBVIOUS
  <2>2. session' = session /\ task' = task /\ call' = call
    BY <1>2 DEF Others, LockEnds, PayReject
  <2>3. Core(P)'
    BY <2>1, <2>2 DEF Core
  <2>4. passed' = IF Fresh' THEN {} ELSE P
    BY <1>2, <2>1 DEF Ghosts
  <2>5. QED BY <2>3, <2>4, Settles
<1>3. ASSUME Mishap, Ghosts(TRUE, {}) PROVE Core(passed)'
  <2>1. PICK P : P = passed
    OBVIOUS
  <2>2. Core(P)'
    BY <1>3, <2>1, ExpiresKeeps, LosesKeeps DEF Mishap
  <2>3. passed' = IF Fresh' THEN {} ELSE P
    BY <1>3, <2>1 DEF Ghosts
  <2>4. QED BY <2>2, <2>3, Settles
<1>4. QED BY <1>1, <1>2, <1>3 DEF BotNext

\* Only a page that is shown changes a page.
LEMMA PageStep ==
  ASSUME PageOK, Core(passed), BotNext
  PROVE  PageOK'
<1>1. ASSUME NEW t \in Task, Shows(t) PROVE PageOK'
  BY <1>1 DEF Shows, PageOK
<1>2. ASSUME NEW t \in Task, SessionStep(t), ~Shows(t) PROVE page' = page
  BY <1>2 DEF SessionStep, Reads, Fetches, Stores, Clears, Submits, Returns
<1>3. ASSUME NEW t \in Task, Update(t) \/ Part(t) PROVE page' = page
  <2>1. (\E P : Proceeds(t, P)) => page' = page
    BY DEF Proceeds, Continue
  <2>2. QED BY <1>3, <2>1, UpdateGoes, PartGoes
<1>4. Others \/ Mishap => page' = page
  BY DEF Others, Mishap, LockEnds, PayReject, Expires, Loses
<1>5. page' = page => PageOK'
  BY DEF PageOK
<1>6. QED BY <1>1, <1>2, <1>3, <1>4, <1>5 DEF BotNext

\* The user's row and settings, and the requests.
LEMMA RowStep ==
  ASSUME RowOK, BotNext
  PROVE  RowOK'
<1>1. ASSUME UNCHANGED <<pinVars, request>> PROVE RowOK'
  BY <1>1 DEF RowOK, pinVars
<1>2. ASSUME NEW t \in Task, PINPart(t), UNCHANGED request PROVE RowOK'
  <2>1. CASE PINPress(t) \/ PINDelete(t) \/ PINDigit(t) \/ PINReturn(t)
    BY <1>1, <1>2, <2>1 DEF PINPress, PINDelete, PINDigit, PINReturn
  <2>2. ASSUME NEW p \in Pin, OnSetInputComplete(t, p) PROVE RowOK'
    BY <1>1, <1>2, <2>2 DEF OnSetInputComplete
  <2>3. ASSUME NEW p \in Pin, SetPIN(p) PROVE RowOK'
    BY <1>2, <2>3 DEF SetPIN, RowOK
  <2>4. ASSUME NEW p \in Pin, OnSetConfirmComplete(t, p) PROVE RowOK'
    BY <1>1, <1>2, <2>3, <2>4 DEF OnSetConfirmComplete
  <2>5. ASSUME NEW p \in Pin, VerifyPIN(p) PROVE RowOK'
    BY <1>2, <2>5 DEF VerifyPIN, RowOK
  <2>6. ASSUME NEW p \in Pin, OnVerifyComplete(t, p) PROVE RowOK'
    BY <2>5, <2>6 DEF OnVerifyComplete
  <2>7. QED BY <1>2, <2>1, <2>2, <2>4, <2>6 DEF PINPart
<1>3. ASSUME NEW t \in Task, AdjustRead(t), UNCHANGED request PROVE RowOK'
  BY <1>3 DEF AdjustRead, RowOK
<1>4. ASSUME LockEnds, UNCHANGED request PROVE RowOK'
  BY <1>4 DEF LockEnds, RowOK
<1>5. ASSUME NEW q \in Request, PayReject(q), UNCHANGED pinVars PROVE RowOK'
  BY <1>5 DEF PayReject, RowOK, pinVars
<1>6. QED BY <1>1, <1>2, <1>3, <1>4, <1>5 DEF BotNext, Part, Others, Mishap

LEMMA BotIInvInit ==
  ASSUME BotInit
  PROVE  BotIInv
<1>1. TodoOK(<<>>, passed)
  BY ShortLists, PlainIsOK
<1>2. \A t \in Task : TaskOK(Idle, None, passed)
  BY <1>1 DEF TaskOK, Idle
<1>3. Core(passed)
  BY <1>2, EmptyIsOK DEF BotInit, SessionInit, Core
<1>4. PageOK
  BY DEF BotInit, SessionInit, PageOK
<1>5. RowOK
  BY FinanceAssumption DEF BotInit, PinInit, TransferInit, RowOK
<1>6. QED BY <1>3, <1>4, <1>5 DEF BotIInv

LEMMA BotIInvStep ==
  ASSUME BotIInv, [BotNext]_botVars
  PROVE  BotIInv'
<1>1. CASE BotNext
  BY <1>1, CoreStep, PageStep, RowStep DEF BotIInv
<1>2. CASE UNCHANGED botVars
  BY <1>2 DEF BotIInv, Core, PageOK, RowOK, botVars, sessionVars, pinVars
<1>3. QED BY <1>1, <1>2

LEMMA BotIInvHolds == BotSpec => []BotIInv
<1>1. BotInit => BotIInv
  BY BotIInvInit
<1>2. BotIInv /\ [BotNext]_botVars => BotIInv'
  BY BotIInvStep
<1>3. QED BY <1>1, <1>2, PTL DEF BotSpec

(* Session, orders, pages and the user's row keep their types whatever     *)
(* handlers overlap, and the keypad never holds more digits than a PIN has *)
(* (pin.go, handleDigitInput), although they are written by handlers that  *)
(* read the session long before.                                           *)
THEOREM BotTypeCorrect == BotSpec => []BotTypeOK
<1>1. BotIInv => BotTypeOK
  <2> SUFFICES ASSUME BotIInv PROVE BotTypeOK
    OBVIOUS
  <2>1. Digits \in 0 .. PinLength
    BY PinAssumption DEF BotIInv, Core, SessionOK, DigitsOK, Digits
  <2>2. DOMAIN session = Key
    BY DEF BotIInv, Core, SessionOK
  <2>3. \A t \in Task : call[t] = None \/ call[t].kind \in OrderKind
    BY DEF BotIInv, Core, TaskOK
  <2>4. QED BY <2>1, <2>2, <2>3 DEF BotIInv, PageOK, RowOK, BotTypeOK
<1>2. QED BY <1>1, BotIInvHolds, PTL

(* Whatever handlers overlap, whatever they overwrite and whatever Redis   *)
(* loses, a dialogue only waits behind the keypad after onVerifyComplete   *)
(* took a right PIN and went back to this very step, and that since the    *)
(* session was last empty with no handler at work.                         *)
THEOREM BotBehindKeypad == BotSpec => []BehindKeypad
<1>1. BotIInv => BehindKeypad
  BY DEF BotIInv, Core, SessionOK, PlaceOK, BehindKeypad, Here
<1>2. QED BY <1>1, BotIInvHolds, PTL
=============================================================================
