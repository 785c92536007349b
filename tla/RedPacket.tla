----------------------------- MODULE RedPacket -----------------------------
(***************************************************************************)
(* One red packet: RedPacketService creates it from the sender's balance,  *)
(* pays a part of it to every user who claims one, and gives what is left  *)
(* back when it expires (RedPacketExpiryTask, once a minute) or when its   *)
(* sender closes it.                                                       *)
(*                                                                         *)
(* All run in the bot, each on a copy of the row it read before.  Claims   *)
(* take a lock in Redis, a key with a time to live of five seconds that    *)
(* any claim may delete; the expiry task and the sender take none.         *)
(***************************************************************************)
EXTENDS Integers, FiniteSetsExt

CONSTANTS User,            \* the users who claim
          Call,            \* concurrent calls of ClaimRedPacket
          Claimer,         \* the user of a call
          Closer,          \* concurrent calls of CancelRedPacket
          Cent,            \* the smallest share, 0.01, in units of 10^-8
          InitialBalance,  \* the sender's balance
          Scene,           \* bound: what may happen in one behaviour, records of
                           \*   lockLasts: a claim ends before its lock does
                           \*   overlap: refunds run beside claims and each other
                           \*   calls: the calls of ClaimRedPacket
                           \*   totals, counts: what the sender may enter
          Faults,          \* TRUE: a call may fail and the bot may die
          NoPacket         \* no copy of the row

ASSUME RedPacketAssumption ==
  /\ IsFiniteSet(User)
  /\ Claimer \in [Call -> User]
  /\ \A s \in Scene : /\ {s.lockLasts, s.overlap} \subseteq BOOLEAN
                       /\ s.calls \subseteq Call
                       /\ s.totals \subseteq Nat /\ s.counts \subseteq Nat
  /\ Cent \in Nat \ {0}
  /\ InitialBalance \in Nat
  /\ Faults \in BOOLEAN

VARIABLES packet,   \* the red_packets row
          expired,  \* expire_at is in the past
          claims,   \* red_packet_claims: the amount of a user's claim, 0 if none
          paid,     \* what was added to the balance of a user
          balance,  \* the sender's balance
          lock,     \* redpacket:lock:<id> is set
          call,     \* the running claims
          task,     \* the copy of the row the expiry task works on
          closing,  \* the copies of the row the sender's calls work on
          scene     \* the scene of this behaviour

rVars == <<packet, expired, claims, paid, balance, lock, call, task, closing>>

Open == {"Pending", "Sent"}

RStatus == Open \union {"none", "Claimed", "Expired", "Cancelled"}

Kind == {"Equal", "Random"}

Packet == [status : RStatus, kind : Kind, total : scene.totals \union {0}, count : scene.counts \union {0},
           claimedCount : Nat, claimedAmount : Nat]

Idle == [at |-> "idle", seen |-> NoPacket]

RTypeOK ==
  /\ packet \in Packet
  /\ expired \in BOOLEAN
  /\ claims \in [User -> Nat]
  /\ paid \in [User -> Nat]
  /\ balance \in Nat
  /\ lock \in BOOLEAN
  /\ call \in [Call -> [at : {"FindByID", "FindByPacketAndUser", "Transaction", "Unlock"},
                        seen : Packet \union {NoPacket}] \union {Idle}]
  /\ task \in Packet \union {NoPacket}
  /\ closing \in [Closer -> Packet \union {NoPacket}]

RInit ==
  /\ packet = [status |-> "none", kind |-> "Equal", total |-> 0, count |-> 0,
               claimedCount |-> 0, claimedAmount |-> 0]
  /\ expired = FALSE
  /\ claims = [u \in User |-> 0]
  /\ paid = [u \in User |-> 0]
  /\ balance = InitialBalance
  /\ lock = FALSE
  /\ call = [c \in Call |-> Idle]
  /\ task = NoPacket
  /\ closing = [k \in Closer |-> NoPacket]
  /\ scene \in Scene

-----------------------------------------------------------------------------
\* Faulty variant: the balance is not looked at.
CreateRedPacketUnchecked(total, count, kind) ==
  /\ packet.status = "none"
  /\ total >= count * Cent
  /\ balance' = balance - total
  /\ packet' = [status |-> "Pending", kind |-> kind, total |-> total, count |-> count,
                claimedCount |-> 0, claimedAmount |-> 0]
  /\ UNCHANGED <<expired, claims, paid, lock, call, task, closing>>

(* One transaction: the amount leaves the balance, the row is written.     *)
CreateRedPacket(total, count, kind) ==
  /\ packet.status = "none"
  /\ total > 0 /\ count \in 1 .. 100
  /\ total >= count * Cent
  /\ balance >= total
  /\ balance' = balance - total
  /\ packet' = [status |-> "Pending", kind |-> kind, total |-> total, count |-> count,
                claimedCount |-> 0, claimedAmount |-> 0]
  /\ UNCHANGED <<expired, claims, paid, lock, call, task, closing>>

Expire ==
  /\ packet.status # "none"
  /\ ~expired
  /\ expired' = TRUE
  /\ UNCHANGED <<packet, claims, paid, balance, lock, call, task, closing>>

Remaining(p) == p.total - p.claimedAmount

\* Faulty variant: nothing is put aside for the others.
RandomAmountOfAll(remaining, n) == {k * Cent : k \in 1 .. Max({1, remaining \div Cent})}

\* The whole cents up to twice the mean that leave a cent for each of the
\* others; at least one cent.
RandomAmount(remaining, n) ==
  LET most == Min({(2 * remaining) \div n, remaining - (n - 1) * Cent})
  IN  {k * Cent : k \in 1 .. Max({1, most \div Cent})}

\* What calculateClaimAmount may return; the last one takes the rest.
ClaimAmount(p) ==
  LET n == p.count - p.claimedCount
  IN  IF n <= 1 THEN {Remaining(p)}
      ELSE IF p.kind = "Equal" THEN {p.total \div p.count}
      ELSE RandomAmount(Remaining(p), n)

-----------------------------------------------------------------------------
(* ClaimRedPacket. *)

Step(c, at, p) == call' = [call EXCEPT ![c] = [at |-> at, seen |-> p]]

\* The deferred deletion of the lock ends every claim that took it.
GiveUp(c) == Step(c, "Unlock", NoPacket)

Claiming(c) == call[c].at \in {"FindByPacketAndUser", "Transaction"}

Refunding == task # NoPacket \/ \E k \in Closer : closing[k] # NoPacket

\* Faulty variant: the key is set whether or not it was there.
SetNXOverwrites(c) ==
  /\ call[c] = Idle
  /\ lock' = TRUE
  /\ Step(c, "FindByID", NoPacket)
  /\ UNCHANGED <<packet, expired, claims, paid, balance, task, closing>>

\* A call that finds the lock set returns an error, and so does one that
\* loses the answer of Redis.
SetNX(c) ==
  /\ call[c] = Idle
  /\ packet.status # "none"
  /\ ~lock
  /\ lock' = TRUE
  /\ Step(c, "FindByID", NoPacket) \/ (Faults /\ UNCHANGED call)
  /\ UNCHANGED <<packet, expired, claims, paid, balance, task, closing>>

FindByID(c) ==
  /\ call[c].at = "FindByID"
  /\ scene.overlap \/ ~Refunding
  /\ \/ /\ packet.status \in Open
        /\ ~expired
        /\ packet.claimedCount < packet.count
        /\ Step(c, "FindByPacketAndUser", packet)
     \/ /\ \/ Faults
           \/ packet.status \notin Open
           \/ expired
           \/ packet.claimedCount >= packet.count
        /\ GiveUp(c)
  /\ UNCHANGED <<packet, expired, claims, paid, balance, lock, task, closing>>

FindByPacketAndUser(c) ==
  /\ call[c].at = "FindByPacketAndUser"
  /\ \/ claims[Claimer[c]] = 0 /\ Step(c, "Transaction", call[c].seen)
     \/ (Faults \/ claims[Claimer[c]] # 0) /\ GiveUp(c)
  /\ UNCHANGED <<packet, expired, claims, paid, balance, lock, task, closing>>

\* The row gets what follows from the copy, whatever it contains now.
AfterClaim(p, amount) ==
  [packet EXCEPT
     !.claimedCount = p.claimedCount + 1,
     !.claimedAmount = p.claimedAmount + amount,
     !.status = IF p.claimedCount + 1 >= p.count THEN "Claimed" ELSE "Sent"]

\* Faulty variant: the error of the insert does not undo the payment.
TransactionPaysFirst(c) ==
  LET u == Claimer[c]
  IN  /\ call[c].at = "Transaction"
      /\ \E amount \in ClaimAmount(call[c].seen) :
           /\ claims' = IF claims[u] = 0 THEN [claims EXCEPT ![u] = amount] ELSE claims
           /\ paid' = [paid EXCEPT ![u] = @ + amount]
           /\ packet' = AfterClaim(call[c].seen, amount)
      /\ GiveUp(c)
      /\ UNCHANGED <<expired, balance, lock, task, closing>>

(* The claim, the row and the balance; a second claim of the same user     *)
(* violates the unique key and undoes all of it.                           *)
Transaction(c) ==
  LET u == Claimer[c]
  IN  /\ call[c].at = "Transaction"
      /\ \/ /\ claims[u] = 0
            /\ \E amount \in ClaimAmount(call[c].seen) :
                 /\ claims' = [claims EXCEPT ![u] = amount]
                 /\ paid' = [paid EXCEPT ![u] = @ + amount]
                 /\ packet' = AfterClaim(call[c].seen, amount)
         \/ /\ Faults \/ claims[u] # 0
            /\ UNCHANGED <<claims, paid, packet>>
      /\ GiveUp(c)
      /\ UNCHANGED <<expired, balance, lock, task, closing>>

\* The key is deleted whoever set it; an error is ignored.
Unlock(c) ==
  /\ call[c].at = "Unlock"
  /\ lock' = FALSE \/ (Faults /\ UNCHANGED lock)
  /\ call' = [call EXCEPT ![c] = Idle]
  /\ UNCHANGED <<packet, expired, claims, paid, balance, task, closing>>

ClaimStep(c) ==
  \/ FindByID(c)
  \/ FindByPacketAndUser(c)
  \/ Transaction(c)
  \/ Unlock(c)

\* Redis drops the key after its time to live.
LockExpires ==
  /\ lock
  /\ scene.lockLasts => \A c \in Call : call[c] = Idle
  /\ lock' = FALSE
  /\ UNCHANGED <<packet, expired, claims, paid, balance, call, task, closing>>

-----------------------------------------------------------------------------
(* ExpireRedPackets, run by one goroutine. *)

MayRefund == scene.overlap \/ ~(Refunding \/ \E c \in Call : Claiming(c))

\* Faulty variant: only the packets that were sent are looked for.
ListExpiredSent ==
  /\ task = NoPacket
  /\ MayRefund
  /\ packet.status = "Sent"
  /\ expired
  /\ task' = packet
  /\ UNCHANGED <<packet, expired, claims, paid, balance, lock, call, closing>>

ListExpired ==
  /\ task = NoPacket
  /\ MayRefund
  /\ packet.status \in Open
  /\ expired
  /\ task' = packet
  /\ UNCHANGED <<packet, expired, claims, paid, balance, lock, call, closing>>

(* One transaction, the amount and the decision from the copy; without a   *)
(* rest the copy is saved over the row.                                    *)
RefundExpired ==
  /\ task # NoPacket
  /\ IF Remaining(task) <= 0
       THEN packet' = [task EXCEPT !.status = "Expired"] /\ UNCHANGED balance
       ELSE /\ packet' = [packet EXCEPT !.status = "Expired"]
            /\ balance' = balance + Remaining(task)
  /\ task' = NoPacket
  /\ UNCHANGED <<expired, claims, paid, lock, call, closing>>

\* The transaction is rolled back; the next round tries again.
RefundFails ==
  /\ Faults
  /\ task # NoPacket
  /\ task' = NoPacket
  /\ UNCHANGED <<packet, expired, claims, paid, balance, lock, call, closing>>

-----------------------------------------------------------------------------
(* CancelRedPacket, called by the sender. *)

\* Faulty variant: the status is not looked at.
CancelReadsAny(k) ==
  /\ closing[k] = NoPacket
  /\ MayRefund
  /\ packet.status # "none"
  /\ closing' = [closing EXCEPT ![k] = packet]
  /\ UNCHANGED <<packet, expired, claims, paid, balance, lock, call, task>>

CancelReads(k) ==
  /\ closing[k] = NoPacket
  /\ MayRefund
  /\ packet.status = "Pending"
  /\ closing' = [closing EXCEPT ![k] = packet]
  /\ UNCHANGED <<packet, expired, claims, paid, balance, lock, call, task>>

\* One transaction, or none of it.
CancelRefunds(k) ==
  /\ closing[k] # NoPacket
  /\ \/ /\ balance' = balance + Remaining(closing[k])
        /\ packet' = [packet EXCEPT !.status = "Cancelled"]
     \/ Faults /\ UNCHANGED <<balance, packet>>
  /\ closing' = [closing EXCEPT ![k] = NoPacket]
  /\ UNCHANGED <<expired, claims, paid, lock, call, task>>

(* The bot dies with everything under way; the lock stays in Redis.        *)
BotDies ==
  /\ Faults
  /\ Refunding \/ \E c \in Call : call[c] # Idle
  /\ call' = [c \in Call |-> Idle]
  /\ task' = NoPacket
  /\ closing' = [k \in Closer |-> NoPacket]
  /\ UNCHANGED <<packet, expired, claims, paid, balance, lock>>

RNext ==
  /\ \/ \E total \in scene.totals, count \in scene.counts, kind \in Kind :
          CreateRedPacket(total, count, kind)
     \/ Expire
     \/ \E c \in scene.calls : SetNX(c) \/ ClaimStep(c)
     \/ LockExpires
     \/ ListExpired
     \/ RefundExpired
     \/ RefundFails
     \/ \E k \in Closer : CancelReads(k) \/ CancelRefunds(k)
     \/ BotDies
  /\ UNCHANGED scene

RSpec == RInit /\ [][RNext]_<<rVars, scene>>

(* A running call goes on, Redis drops keys in time and the task looks     *)
(* every minute.  Its transaction does not fail forever.                   *)
RFairSpec ==
  /\ RSpec
  /\ \A c \in Call : WF_rVars(ClaimStep(c))
  /\ \A k \in Closer : WF_rVars(CancelRefunds(k))
  /\ WF_rVars(LockExpires)
  /\ WF_rVars(ListExpired)
  /\ SF_rVars(RefundExpired)

-----------------------------------------------------------------------------
(* What holds whatever overlaps, fails or outlives its lock. *)

(* A user is paid once, what his claim says: a second tap, or a claim that *)
(* ran beside another, neither pays twice nor leaves a claim unpaid.       *)
ClaimIsPaid == \A u \in User : paid[u] = claims[u]

(* randomAmount "保证后续每人至少 0.01": as long as the packet is open, a     *)
(* cent is left for each share that was not claimed, so the last claim     *)
(* never gets nothing.                                                     *)
EnoughForTheRest ==
  packet.status \in Open =>
    /\ packet.claimedCount < packet.count
    /\ Remaining(packet) >= (packet.count - packet.claimedCount) * Cent

(* What holds when claims end before their lock does and refunds do not    *)
(* run beside them.                                                        *)
Alone == scene.lockLasts /\ ~scene.overlap

(* Money is neither made nor lost: what left the sender's balance is in    *)
(* the balances of the claimers, or still in the open packet, or back.     *)
MoneyIsKept ==
  Alone => balance + SumFunctionOnSet(paid, User)
             = InitialBalance - (IF packet.status \in Open THEN Remaining(packet) ELSE 0)

(* A packet that is claimed, expired or closed stays so.                   *)
ClosedStaysClosed ==
  [][Alone /\ packet.status \in {"Claimed", "Expired", "Cancelled"} => packet' = packet]_packet

(* What eventually happens is stated where nothing is kept apart: there no *)
(* call waits for another one.                                             *)

(* An expired packet is given back, or claimed or closed by then.          *)
ExpiredIsRefunded ==
  (~Alone /\ expired /\ packet.status \in Open) ~> packet.status \in {"Claimed", "Expired", "Cancelled"}
=============================================================================
