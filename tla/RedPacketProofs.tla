-------------------------- MODULE RedPacketProofs --------------------------
(***************************************************************************)
(* Proofs about RedPacket, for every number of users, of concurrent claims *)
(* and of concurrent closings, every amount and every smallest share.      *)
(* What a claim leaves for the others holds whatever overlaps; that no     *)
(* money is made or lost, and that a closed packet stays closed, when      *)
(* claims and refunds keep apart (without that it is not true).            *)
(***************************************************************************)
EXTENDS RedPacket, SumLemmas, TLAPS

-----------------------------------------------------------------------------
(* What calculateClaimAmount may return. *)

LEMMA MaxOfTwo == ASSUME NEW a \in Int, NEW b \in Int
                  PROVE  /\ Max({a, b}) \in {a, b}
                         /\ Max({a, b}) >= a /\ Max({a, b}) >= b
<1>1. \E x \in {a, b} : \A y \in {a, b} : x >= y
  <2>1. CASE a >= b
    BY <2>1
  <2>2. CASE ~(a >= b)
    BY <2>2
  <2> QED
    BY <2>1, <2>2
<1> QED
  BY <1>1 DEF Max

LEMMA AtLeastOne == ASSUME NEW i \in Int, i >= 1 PROVE Max({1, i}) = i
<1>1. Max({1, i}) \in {1, i} /\ Max({1, i}) >= i
  BY MaxOfTwo
<1> QED
  BY <1>1

LEMMA MinOfTwo == ASSUME NEW a \in Int, NEW b \in Int
                  PROVE  /\ Min({a, b}) \in {a, b}
                         /\ Min({a, b}) <= a /\ Min({a, b}) <= b
<1>1. \E x \in {a, b} : \A y \in {a, b} : x <= y
  <2>1. CASE a <= b
    BY <2>1
  <2>2. CASE ~(a <= b)
    BY <2>2
  <2> QED
    BY <2>1, <2>2
<1> QED
  BY <1>1 DEF Min

LEMMA Division == ASSUME NEW a \in Int, NEW b \in Nat \ {0}
                  PROVE  /\ a \div b \in Int
                         /\ (a \div b) * b <= a
                         /\ \A q \in Int : q * b <= a => q <= a \div b
  BY SMTT(30)

LEMMA TimesMonotone == ASSUME NEW a \in Int, NEW b \in Int, NEW c \in Nat, a <= b
                       PROVE  a * c <= b * c
  BY SMTT(30)

(* A share of a random packet leaves a cent for each of the others. *)
LEMMA RandomShare ==
  ASSUME NEW remaining \in Int, NEW n \in Nat, n >= 2, remaining >= n * Cent,
         NEW amount \in RandomAmount(remaining, n)
  PROVE  amount \in Nat /\ remaining - amount >= (n - 1) * Cent
<1> DEFINE rest == remaining - (n - 1) * Cent
           twice == (2 * remaining) \div n
           most == Min({twice, rest})
           atMost == Max({1, most \div Cent})
<1> USE RedPacketAssumption
<1>1. rest \in Int /\ rest >= Cent
  <2>1. (n - 1) * Cent = n * Cent - Cent
    OBVIOUS
  <2>2. n * Cent \in Int /\ Cent \in Int
    OBVIOUS
  <2> QED
    BY <2>1, <2>2
<1>2. twice \in Int /\ twice >= Cent
  <2>1. n * Cent \in Int /\ 2 * remaining >= n * Cent
    <3>1. n * Cent \in Nat
      OBVIOUS
    <3> QED
      BY <3>1
  <2>2. Cent * n = n * Cent
    OBVIOUS
  <2>3. 2 * remaining \in Int /\ n \in Nat \ {0}
    OBVIOUS
  <2> QED
    BY <2>1, <2>2, <2>3, Division
<1>3. most \in Int /\ most >= Cent /\ most <= rest
  BY <1>1, <1>2, MinOfTwo
<1>4. most \div Cent \in Int /\ most \div Cent >= 1 /\ (most \div Cent) * Cent <= most
  <2> HIDE DEF most
  <2>1. 1 \in Int /\ 1 * Cent <= most
    BY <1>3
  <2> QED
    BY <1>3, <2>1, Division
<1>5. atMost = most \div Cent
  BY <1>4, AtLeastOne
<1>6. PICK k \in 1 .. atMost : amount = k * Cent
  BY DEF RandomAmount
<1>7. k * Cent <= (most \div Cent) * Cent
  BY <1>4, <1>5, <1>6, TimesMonotone
<1>8. k * Cent \in Nat
  BY <1>4, <1>5, <1>6
<1> HIDE DEF rest, most
<1>9. amount \in Nat /\ amount <= rest
  <2>1. (most \div Cent) * Cent \in Int
    BY <1>4
  <2> QED
    BY <1>1, <1>3, <1>4, <1>6, <1>7, <1>8, <2>1
<1>10. (n - 1) * Cent \in Int
  OBVIOUS
<1> QED
  BY <1>9, <1>10 DEF rest

-----------------------------------------------------------------------------
(* What no statement may do without, whatever overlaps or fails: a copy of *)
(* the row is one of an open packet with the terms it was created with,    *)
(* and leaves a cent for every share.                                      *)

SameTerms(p) == p.kind = packet.kind /\ p.total = packet.total /\ p.count = packet.count

CentsLeft(p) ==
  /\ p.claimedCount < p.count
  /\ Remaining(p) >= (p.count - p.claimedCount) * Cent
  /\ p.kind = "Equal" => p.claimedAmount = p.claimedCount * (p.total \div p.count)

Copy(p) == p \in Packet /\ p.status \in Open /\ SameTerms(p) /\ CentsLeft(p)

Terms ==
  /\ packet.claimedAmount <= packet.total
  /\ packet.count * Cent <= packet.total
  /\ packet.status = "none" => packet.count = 0 /\ packet.claimedAmount = 0

Copies ==
  /\ \A c \in Call : Claiming(c) => Copy(call[c].seen)
  /\ task # NoPacket => Copy(task)
  /\ \A k \in Closer : closing[k] # NoPacket => Copy(closing[k])

RInv ==
  /\ RTypeOK
  /\ scene \in Scene
  /\ Terms
  /\ packet.status \in Open => CentsLeft(packet)
  /\ Copies

(* A copy never promises more than there is. *)
LEMMA RestOfACopy == ASSUME scene \in Scene, NEW p, Copy(p)
                     PROVE  Remaining(p) \in Nat /\ p.claimedAmount <= p.total
<1> USE RedPacketAssumption
<1>1. /\ p.total \in Nat /\ p.count \in Nat /\ p.claimedAmount \in Nat /\ p.claimedCount \in Nat
      /\ p.claimedCount < p.count
      /\ Remaining(p) >= (p.count - p.claimedCount) * Cent
  BY DEF Copy, Packet, CentsLeft
<1>2. (p.count - p.claimedCount) * Cent \in Nat
  BY <1>1
<1> QED
  BY <1>1, <1>2 DEF Remaining

(* The amount of a claim leaves the packet as good as it was read. *)
LEMMA ShareOfACopy ==
  ASSUME scene \in Scene, Terms, NEW p, Copy(p), NEW amount \in ClaimAmount(p)
  PROVE  /\ amount \in Nat /\ amount <= Remaining(p)
         /\ p.claimedCount + 1 < p.count =>
              CentsLeft([p EXCEPT !.claimedCount = @ + 1, !.claimedAmount = @ + amount])
<1> USE RedPacketAssumption
<1> DEFINE n == p.count - p.claimedCount
           share == p.total \div p.count
           q == [p EXCEPT !.claimedCount = @ + 1, !.claimedAmount = @ + amount]
<1>1. p.total \in Nat /\ p.count \in Nat /\ p.claimedCount \in Nat /\ p.claimedAmount \in Nat
  BY DEF Copy, Packet
<1>2. n \in Nat \ {0} /\ Remaining(p) \in Int /\ Remaining(p) >= n * Cent
  BY <1>1 DEF Copy, CentsLeft, Remaining
<1>3. n * Cent \in Nat /\ n * Cent >= 0 /\ p.count \in Nat \ {0}
  BY <1>1, <1>2
<1>4. /\ q.claimedCount = p.claimedCount + 1 /\ q.claimedAmount = p.claimedAmount + amount
      /\ q.total = p.total /\ q.count = p.count /\ q.kind = p.kind
  BY DEF Copy, Packet
<1>5. CASE n <= 1
  <2>1. amount = Remaining(p)
    BY <1>5 DEF ClaimAmount
  <2>2. ~(p.claimedCount + 1 < p.count)
    BY <1>1, <1>5
  <2> QED
    BY <1>2, <1>3, <2>1, <2>2
<1>6. CASE n > 1 /\ p.kind = "Equal"
  <2>1. amount = share
    BY <1>2, <1>6 DEF ClaimAmount
  <2>2. share \in Int /\ share * p.count <= p.total /\ share >= Cent
    <3>1. Cent * p.count <= p.total
      BY <1>1 DEF Terms, Copy, SameTerms
    <3>2. p.total \in Int /\ p.count \in Nat \ {0} /\ Cent \in Int
      BY <1>1, <1>3
    <3>3. /\ share \in Int /\ share * p.count <= p.total
          /\ \A d \in Int : d * p.count <= p.total => d <= share
      BY <3>2, Division
    <3> HIDE DEF share
    <3>4. Cent <= share
      BY <3>1, <3>2, <3>3
    <3> QED
      BY <3>2, <3>3, <3>4
  <2>3. p.claimedAmount = p.claimedCount * share
    BY <1>6 DEF Copy, CentsLeft
  <2> HIDE DEF share
  <2>4. (p.claimedCount + 1) * share = p.claimedCount * share + share
    BY <1>1, <2>2
  <2>5. (n - 1) * share = p.count * share - (p.claimedCount + 1) * share
    BY <1>1, <2>2
  <2>6. (n - 1) * Cent <= (n - 1) * share
    BY <1>2, <2>2, SMTT(30)
  <2>7. p.count * share \in Int /\ p.count * share <= p.total
    BY <1>1, <2>2
  <2>8. /\ (n - 1) * Cent \in Nat /\ (n - 1) * share \in Int
        /\ (p.claimedCount + 1) * share \in Int /\ p.claimedCount * share \in Int
    BY <1>1, <1>2, <2>2
  <2>9. Remaining(p) - amount >= (n - 1) * Cent
    BY <1>1, <2>1, <2>2, <2>3, <2>4, <2>5, <2>6, <2>7, <2>8 DEF Remaining
  <2>10. (q.count - q.claimedCount) * Cent = (n - 1) * Cent
    BY <1>1, <1>4
  <2>11. q.kind = "Equal" => q.claimedAmount = q.claimedCount * (q.total \div q.count)
    BY <1>4, <2>1, <2>3, <2>4 DEF share
  <2>12. amount \in Nat /\ amount <= Remaining(p)
    BY <1>2, <2>1, <2>2, <2>8, <2>9
  <2> QED
    BY <1>1, <1>4, <2>8, <2>9, <2>10, <2>11, <2>12 DEF CentsLeft, Remaining
<1>7. CASE n > 1 /\ p.kind # "Equal"
  <2>1. amount \in RandomAmount(Remaining(p), n)
    BY <1>2, <1>7 DEF ClaimAmount
  <2>2. amount \in Nat /\ Remaining(p) - amount >= (n - 1) * Cent
    BY <1>2, <1>7, <2>1, RandomShare
  <2>3. (n - 1) * Cent \in Nat
    BY <1>2
  <2>4. (q.count - q.claimedCount) * Cent = (n - 1) * Cent
    BY <1>1, <1>4
  <2> QED
    BY <1>1, <1>2, <1>4, <1>7, <2>2, <2>3, <2>4 DEF CentsLeft, Remaining
<1> QED
  BY <1>2, <1>5, <1>6, <1>7

-----------------------------------------------------------------------------
(* One step for each action.  The row is written by four of them; the      *)
(* others change which copies there are, or none of the two.               *)
LEMMA RInvStep == RInv /\ [RNext]_<<rVars, scene>> => RInv'
<1> SUFFICES ASSUME RInv, [RNext]_<<rVars, scene>> PROVE RInv'
  OBVIOUS
<1> USE RedPacketAssumption
<1>0. scene' = scene /\ Packet' = Packet
  BY DEF RNext, Packet
<1>1. ASSUME NEW total \in scene.totals, NEW count \in scene.counts, NEW kind \in Kind,
             CreateRedPacket(total, count, kind)
      PROVE RInv'
  <2>1. total \in Nat /\ count \in Nat \ {0} /\ total >= count * Cent
    BY <1>1 DEF RInv, CreateRedPacket
  <2>2. \A p : ~Copy(p)
    <3> SUFFICES ASSUME NEW p, Copy(p) PROVE FALSE
      OBVIOUS
    <3>1. p.count = 0 /\ p.claimedCount \in Nat
      BY <1>1 DEF RInv, Terms, Copy, SameTerms, Packet, CreateRedPacket
    <3> QED
      BY <3>1 DEF Copy, CentsLeft
  <2>3. packet' \in Packet /\ balance' \in Nat
    BY <1>1, <2>1 DEF RInv, RTypeOK, CreateRedPacket, Packet, RStatus, Open
  <2>4. RTypeOK'
    BY <1>0, <1>1, <2>3 DEF RInv, RTypeOK, CreateRedPacket
  <2>5. Copies'
    BY <1>1, <2>2 DEF RInv, Copies, Claiming, CreateRedPacket
  <2>6. Terms'
    BY <1>1, <2>1 DEF Terms, CreateRedPacket
  <2>7. CentsLeft(packet)'
    <3>1. 0 * (total \div count) = 0 /\ (count - 0) * Cent = count * Cent /\ total - 0 = total
      BY <2>1
    <3> QED
      BY <1>1, <2>1, <3>1 DEF CentsLeft, Remaining, CreateRedPacket
  <2> QED
    BY <1>0, <2>4, <2>5, <2>6, <2>7 DEF RInv
<1>2. CASE Expire
  BY <1>0, <1>2 DEF RInv, RTypeOK, Terms, Copies, Copy, SameTerms, CentsLeft, Remaining, Expire, Claiming
<1>3. ASSUME NEW c \in scene.calls, SetNX(c) \/ ClaimStep(c) PROVE RInv'
  <2>0. c \in Call
    BY DEF RInv
  <2>1. CASE SetNX(c)
    <3>1. \A d \in Call : Claiming(d)' => Claiming(d) /\ call'[d] = call[d]
      BY <2>0, <2>1 DEF RInv, RTypeOK, SetNX, Claiming, Step, Idle
    <3>2. RTypeOK'
      BY <1>0, <2>0, <2>1 DEF RInv, RTypeOK, SetNX, Step
    <3> QED
      BY <1>0, <2>1, <3>1, <3>2 DEF SetNX, RInv, Terms, Copies, Copy, SameTerms, CentsLeft, Remaining
  <2>2. CASE FindByID(c)
    <3>1. RTypeOK'
      BY <1>0, <2>0, <2>2 DEF RInv, RTypeOK, FindByID, GiveUp, Step
    <3>2. \A d \in Call : Claiming(d)' =>
            \/ Claiming(d) /\ call'[d] = call[d]
            \/ call'[d].seen = packet /\ packet.status \in Open
      BY <2>0, <2>2 DEF RInv, RTypeOK, FindByID, Claiming, GiveUp, Step, Idle
    <3>3. packet.status \in Open => Copy(packet)
      BY DEF RInv, RTypeOK, Copy, SameTerms
    <3> QED
      BY <1>0, <2>2, <3>1, <3>2, <3>3
      DEF FindByID, RInv, Terms, Copies, Copy, SameTerms, CentsLeft, Remaining
  <2>3. CASE FindByPacketAndUser(c)
    <3>1. RTypeOK'
      BY <1>0, <2>0, <2>3 DEF RInv, RTypeOK, FindByPacketAndUser, GiveUp, Step, Idle
    <3>2. \A d \in Call : Claiming(d)' => Claiming(d) /\ call'[d].seen = call[d].seen
      BY <2>0, <2>3 DEF RInv, RTypeOK, FindByPacketAndUser, Claiming, GiveUp, Step, Idle
    <3> QED
      BY <1>0, <2>3, <3>1, <3>2
      DEF FindByPacketAndUser, RInv, Terms, Copies, Copy, SameTerms, CentsLeft, Remaining
  <2>4. CASE Transaction(c)
    <3>1. \A d \in Call : Claiming(d)' => Claiming(d) /\ call'[d] = call[d]
      BY <2>0, <2>4 DEF RInv, RTypeOK, Transaction, Claiming, GiveUp, Step, Idle
    <3>2. CASE UNCHANGED <<claims, paid, packet>>
      <4>1. RTypeOK'
        BY <1>0, <2>0, <2>4, <3>2 DEF RInv, RTypeOK, Transaction, GiveUp, Step
      <4> QED
        BY <1>0, <2>4, <3>1, <3>2, <4>1
        DEF Transaction, RInv, Terms, Copies, Copy, SameTerms, CentsLeft, Remaining
    <3>3. ASSUME NEW amount \in ClaimAmount(call[c].seen),
                 claims' = [claims EXCEPT ![Claimer[c]] = amount],
                 paid' = [paid EXCEPT ![Claimer[c]] = @ + amount],
                 packet' = AfterClaim(call[c].seen, amount)
          PROVE RInv'
      <4> DEFINE p == call[c].seen
                 q == [p EXCEPT !.claimedCount = @ + 1, !.claimedAmount = @ + amount]
      <4>1. Copy(p)
        BY <2>0, <2>4 DEF RInv, Copies, Claiming, Transaction
      <4>2. /\ amount \in Nat /\ amount <= Remaining(p)
            /\ p.claimedCount + 1 < p.count => CentsLeft(q)
        BY <4>1, ShareOfACopy DEF RInv
      <4>3. /\ p \in Packet /\ packet \in Packet
            /\ p.kind = packet.kind /\ p.total = packet.total /\ p.count = packet.count
        BY <4>1 DEF RInv, RTypeOK, Copy, SameTerms
      <4> HIDE DEF p
      <4>4. packet' = [packet EXCEPT
                         !.claimedCount = p.claimedCount + 1,
                         !.claimedAmount = p.claimedAmount + amount,
                         !.status = IF p.claimedCount + 1 >= p.count THEN "Claimed" ELSE "Sent"]
        BY <3>3 DEF AfterClaim, p
      <4>5. packet' \in Packet
        <5>1. p.claimedCount + 1 \in Nat /\ p.claimedAmount + amount \in Nat
          BY <4>2, <4>3 DEF Packet
        <5>2. (IF p.claimedCount + 1 >= p.count THEN "Claimed" ELSE "Sent") \in RStatus
          BY DEF RStatus, Open
        <5> QED
          BY <4>3, <4>4, <5>1, <5>2 DEF Packet
      <4>6. RTypeOK'
        BY <1>0, <2>0, <2>4, <3>3, <4>2, <4>5 DEF RInv, RTypeOK, Transaction, GiveUp, Step
      <4>7. packet'.kind = packet.kind /\ packet'.total = packet.total /\ packet'.count = packet.count
        BY <4>3, <4>4 DEF Packet
      <4>8. Terms'
        BY <4>2, <4>3, <4>4, <4>7 DEF RInv, Terms, Packet, Remaining
      <4>9. (packet.status \in Open => CentsLeft(packet))'
        <5>1. ASSUME packet'.status \in Open PROVE p.claimedCount + 1 < p.count
          <6>1. packet'.status = IF p.claimedCount + 1 >= p.count THEN "Claimed" ELSE "Sent"
            BY <4>3, <4>4 DEF Packet
          <6>2. ~(p.claimedCount + 1 >= p.count)
            BY <5>1, <6>1 DEF Open
          <6> QED
            BY <4>3, <6>2 DEF Packet, RInv
        <5>2. /\ packet'.kind = q.kind /\ packet'.total = q.total /\ packet'.count = q.count
              /\ packet'.claimedCount = q.claimedCount /\ packet'.claimedAmount = q.claimedAmount
          BY <4>3, <4>4 DEF Packet
        <5> HIDE DEF q
        <5> QED
          BY <4>2, <5>1, <5>2 DEF CentsLeft, Remaining
      <4>10. Copies'
        BY <1>0, <2>4, <3>1, <4>7 DEF Transaction, RInv, Copies, Copy, SameTerms, CentsLeft, Remaining
      <4> QED
        BY <1>0, <4>6, <4>8, <4>9, <4>10 DEF RInv
    <3> QED
      BY <2>4, <3>2, <3>3 DEF Transaction
  <2>5. CASE Unlock(c)
    <3>1. RTypeOK'
      BY <1>0, <2>0, <2>5 DEF RInv, RTypeOK, Unlock
    <3>2. \A d \in Call : Claiming(d)' => Claiming(d) /\ call'[d] = call[d]
      BY <2>0, <2>5 DEF RInv, RTypeOK, Unlock, Claiming, Idle
    <3> QED
      BY <1>0, <2>5, <3>1, <3>2
      DEF Unlock, RInv, Terms, Copies, Copy, SameTerms, CentsLeft, Remaining
  <2> QED
    BY <1>3, <2>1, <2>2, <2>3, <2>4, <2>5 DEF ClaimStep
<1>4. CASE LockExpires
  BY <1>0, <1>4 DEF RInv, RTypeOK, Terms, Copies, Copy, SameTerms, CentsLeft, Remaining, LockExpires, Claiming
<1>5. CASE ListExpired
  <2>1. Copy(packet)
    BY <1>5 DEF ListExpired, RInv, RTypeOK, Copy, SameTerms
  <2> QED
    BY <1>0, <1>5, <2>1
    DEF RInv, RTypeOK, Terms, Copies, Copy, SameTerms, CentsLeft, Remaining, ListExpired, Claiming
<1>6. CASE RefundExpired
  <2>1. Copy(task) /\ packet \in Packet
    BY <1>6 DEF RefundExpired, RInv, RTypeOK, Copies
  <2>2. Remaining(task) \in Nat /\ task.claimedAmount <= task.total
    BY <2>1, RestOfACopy DEF RInv
  <2>3. /\ packet' \in Packet /\ packet'.status = "Expired"
        /\ packet'.kind = packet.kind /\ packet'.total = packet.total /\ packet'.count = packet.count
        /\ packet'.claimedAmount \in {packet.claimedAmount, task.claimedAmount}
    BY <1>6, <2>1 DEF RefundExpired, Packet, Copy, SameTerms, RStatus
  <2>4. RTypeOK'
    BY <1>0, <1>6, <2>2, <2>3 DEF RInv, RTypeOK, RefundExpired
  <2>5. task.claimedAmount <= packet.total
    BY <2>1, <2>2 DEF Copy, SameTerms
  <2>6. Terms'
    BY <2>3, <2>5 DEF RInv, Terms
  <2>7. Copies'
    BY <1>0, <1>6, <2>3 DEF RInv, Copies, Copy, SameTerms, CentsLeft, Remaining, RefundExpired, Claiming
  <2> QED
    BY <1>0, <2>3, <2>4, <2>6, <2>7 DEF RInv, Open
<1>7. CASE RefundFails
  BY <1>0, <1>7 DEF RInv, RTypeOK, Terms, Copies, Copy, SameTerms, CentsLeft, Remaining, RefundFails, Claiming
<1>8. ASSUME NEW k \in Closer, CancelReads(k) PROVE RInv'
  <2>1. Copy(packet)
    BY <1>8 DEF CancelReads, RInv, RTypeOK, Copy, SameTerms, Open
  <2> QED
    BY <1>0, <1>8, <2>1
    DEF RInv, RTypeOK, Terms, Copies, Copy, SameTerms, CentsLeft, Remaining, CancelReads, Claiming
<1>9. ASSUME NEW k \in Closer, CancelRefunds(k) PROVE RInv'
  <2>1. Copy(closing[k]) /\ packet \in Packet
    BY <1>9 DEF CancelRefunds, RInv, RTypeOK, Copies
  <2>2. Remaining(closing[k]) \in Nat /\ closing[k].claimedAmount <= closing[k].total
    BY <2>1, RestOfACopy DEF RInv
  <2>3. /\ packet' \in Packet /\ (packet' = packet \/ packet'.status = "Cancelled")
        /\ packet'.kind = packet.kind /\ packet'.total = packet.total /\ packet'.count = packet.count
        /\ packet'.claimedAmount = packet.claimedAmount
    BY <1>9, <2>1 DEF CancelRefunds, Packet, RStatus
  <2>4. RTypeOK'
    BY <1>0, <1>9, <2>2, <2>3 DEF RInv, RTypeOK, CancelRefunds
  <2>5. Terms'
    BY <2>3 DEF RInv, Terms
  <2>6. Copies'
    BY <1>0, <1>9, <2>3 DEF RInv, RTypeOK, Copies, Copy, SameTerms, CentsLeft, Remaining, CancelRefunds, Claiming
  <2>7. (packet.status \in Open => CentsLeft(packet))'
    BY <2>3 DEF RInv, Open, CentsLeft, Remaining
  <2> QED
    BY <1>0, <2>4, <2>5, <2>6, <2>7 DEF RInv
<1>10. CASE BotDies
  BY <1>0, <1>10 DEF RInv, RTypeOK, Terms, Copies, Copy, SameTerms, CentsLeft, Remaining, BotDies, Claiming, Idle
<1>11. CASE UNCHANGED <<rVars, scene>>
  BY <1>0, <1>11 DEF rVars, RInv, RTypeOK, Terms, Copies, Copy, SameTerms, CentsLeft, Remaining, Claiming
<1> QED
  BY <1>1, <1>2, <1>3, <1>4, <1>5, <1>6, <1>7, <1>8, <1>9, <1>10, <1>11 DEF RNext

LEMMA RInvInit == RInit => RInv
<1> SUFFICES ASSUME RInit PROVE RInv
  OBVIOUS
<1> USE RedPacketAssumption
<1>1. packet \in Packet /\ \A c \in Call : ~Claiming(c)
  BY DEF RInit, Packet, RStatus, Kind, Claiming, Idle
<1>2. Terms
  <2>1. 0 * Cent = 0
    OBVIOUS
  <2> QED
    BY <2>1 DEF RInit, Terms
<1>3. RTypeOK
  BY <1>1 DEF RInit, RTypeOK
<1>4. Copies
  BY <1>1 DEF RInit, Copies
<1> QED
  BY <1>2, <1>3, <1>4 DEF RInit, RInv, Open

LEMMA RInvHolds == RSpec => []RInv
  BY RInvInit, RInvStep, PTL DEF RSpec

(* Every reachable state has its type; above all, no amount is negative,   *)
(* whatever calculateClaimAmount draws and however stale the copy is.      *)
THEOREM RTypeCorrect == RSpec => []RTypeOK
<1>1. RInv => RTypeOK
  BY DEF RInv
<1> QED
  BY <1>1, RInvHolds, PTL

(* An open packet has a share and a cent for each share that is left:      *)
(* whatever overlaps, fails or outlives its lock, a claim never gets       *)
(* nothing.                                                                *)
THEOREM EnoughForTheRestHolds == RSpec => []EnoughForTheRest
<1>1. RInv => EnoughForTheRest
  BY DEF RInv, EnoughForTheRest, CentsLeft
<1> QED
  BY <1>1, RInvHolds, PTL

-----------------------------------------------------------------------------
(* The unique key on claims: what a user was paid is what his claim says.  *)
LEMMA ClaimIsPaidStep == RInv /\ ClaimIsPaid /\ [RNext]_<<rVars, scene>> => ClaimIsPaid'
<1> SUFFICES ASSUME RInv, ClaimIsPaid, [RNext]_<<rVars, scene>> PROVE ClaimIsPaid'
  OBVIOUS
<1>1. CASE UNCHANGED <<claims, paid>>
  BY <1>1 DEF ClaimIsPaid
<1>2. ASSUME NEW c \in scene.calls, Transaction(c), ~UNCHANGED <<claims, paid>> PROVE ClaimIsPaid'
  <2> DEFINE u == Claimer[c]
  <2>1. u \in User /\ c \in Call
    BY RedPacketAssumption DEF RInv
  <2>2. PICK amount \in ClaimAmount(call[c].seen) :
          /\ claims[u] = 0
          /\ claims' = [claims EXCEPT ![u] = amount]
          /\ paid' = [paid EXCEPT ![u] = @ + amount]
    BY <1>2 DEF Transaction
  <2>3. amount \in Nat
    BY <1>2, <2>1, <2>2, ShareOfACopy DEF RInv, Copies, Claiming, Transaction
  <2> QED
    BY <2>1, <2>2, <2>3 DEF RInv, RTypeOK, ClaimIsPaid
<1>3. UNCHANGED <<claims, paid>> \/ \E c \in scene.calls : Transaction(c)
  BY DEF RNext, rVars, CreateRedPacket, Expire, SetNX, ClaimStep, FindByID, FindByPacketAndUser, Unlock,
         LockExpires, ListExpired, RefundExpired, RefundFails, CancelReads, CancelRefunds, BotDies
<1> QED
  BY <1>1, <1>2, <1>3

(* Neither a second tap nor a claim that runs beside another one, fails or *)
(* dies pays a user twice or leaves his claim unpaid.                      *)
THEOREM ClaimIsPaidHolds == RSpec => []ClaimIsPaid
<1>1. RInit => ClaimIsPaid
  BY DEF RInit, ClaimIsPaid
<1> QED
  BY <1>1, RInvHolds, ClaimIsPaidStep, PTL DEF RSpec

-----------------------------------------------------------------------------
(* Claims and refunds that keep apart: one claim at a time, under the      *)
(* lock; one refund at a time; each with a copy that is still the row.     *)
KeptApart ==
  /\ \A c \in Call : call[c] # Idle => lock /\ \A d \in Call : call[d] # Idle => d = c
  /\ \A c \in Call : Claiming(c) => ~Refunding /\ call[c].seen = packet
  /\ task # NoPacket => task = packet /\ \A k \in Closer : closing[k] = NoPacket
  /\ \A k \in Closer : closing[k] # NoPacket =>
       closing[k] = packet /\ \A l \in Closer : closing[l] # NoPacket => l = k

(* The sender's balance and the claims, as the row has them.               *)
Ledger ==
  /\ balance + packet.claimedAmount
       = InitialBalance - (IF packet.status \in Open THEN Remaining(packet) ELSE 0)
  /\ SumFunctionOnSet(paid, User) = packet.claimedAmount

AInv == Alone => KeptApart /\ Ledger

LEMMA KeptApartStep == RInv /\ Alone /\ KeptApart /\ [RNext]_<<rVars, scene>> => KeptApart'
<1> SUFFICES ASSUME RInv, Alone, KeptApart, [RNext]_<<rVars, scene>> PROVE KeptApart'
  OBVIOUS
<1>1. ASSUME NEW total, NEW count, NEW kind, CreateRedPacket(total, count, kind) PROVE KeptApart'
  <2>1. packet.status = "none"
    BY <1>1 DEF CreateRedPacket
  <2>2. task = NoPacket /\ (\A k \in Closer : closing[k] = NoPacket) /\ \A c \in Call : ~Claiming(c)
    BY <2>1 DEF RInv, Copies, Copy, KeptApart, Open
  <2> QED
    BY <1>1, <2>2 DEF CreateRedPacket, KeptApart, Claiming, Refunding
<1>2. ASSUME NEW c \in scene.calls, SetNX(c) \/ ClaimStep(c) PROVE KeptApart'
  <2>0. c \in Call
    BY RedPacketAssumption DEF RInv
  <2>1. CASE SetNX(c)
    BY <2>0, <2>1 DEF RInv, RTypeOK, KeptApart, SetNX, Step, Claiming, Refunding, Idle
  <2>2. CASE FindByID(c)
    BY <2>0, <2>2 DEF RInv, RTypeOK, Alone, KeptApart, FindByID, GiveUp, Step, Claiming, Refunding, Idle
  <2>3. CASE FindByPacketAndUser(c)
    BY <2>0, <2>3 DEF RInv, RTypeOK, KeptApart, FindByPacketAndUser, GiveUp, Step, Claiming, Refunding, Idle
  <2>4. CASE Transaction(c)
    <3>1. ~Refunding /\ \A d \in Call : call[d] # Idle => d = c
      BY <2>0, <2>4 DEF Transaction, Claiming, KeptApart, Idle
    <3> QED
      BY <2>0, <2>4, <3>1 DEF RInv, RTypeOK, KeptApart, Transaction, GiveUp, Step, Claiming, Refunding, Idle
  <2>5. CASE Unlock(c)
    BY <2>0, <2>5 DEF RInv, RTypeOK, KeptApart, Unlock, Claiming, Refunding, Idle
  <2> QED
    BY <1>2, <2>1, <2>2, <2>3, <2>4, <2>5 DEF ClaimStep
<1>3. CASE LockExpires
  BY <1>3 DEF Alone, KeptApart, LockExpires, Claiming, Refunding
<1>4. CASE ListExpired
  BY <1>4 DEF Alone, KeptApart, ListExpired, MayRefund, Claiming, Refunding
<1>5. CASE RefundExpired
  BY <1>5 DEF KeptApart, RefundExpired, Claiming, Refunding
<1>6. CASE RefundFails
  BY <1>6 DEF KeptApart, RefundFails, Claiming, Refunding
<1>7. ASSUME NEW k \in Closer, CancelReads(k) PROVE KeptApart'
  BY <1>7 DEF RInv, RTypeOK, Alone, KeptApart, CancelReads, MayRefund, Claiming, Refunding
<1>8. ASSUME NEW k \in Closer, CancelRefunds(k) PROVE KeptApart'
  BY <1>8 DEF RInv, RTypeOK, KeptApart, CancelRefunds, Claiming, Refunding
<1>9. CASE BotDies
  BY <1>9 DEF KeptApart, BotDies, Claiming, Refunding, Idle
<1>10. CASE Expire \/ UNCHANGED <<rVars, scene>>
  BY <1>10 DEF KeptApart, Expire, rVars, Claiming, Refunding
<1> QED
  BY <1>1, <1>2, <1>3, <1>4, <1>5, <1>6, <1>7, <1>8, <1>9, <1>10 DEF RNext

(* Only what works on an open packet writes it. *)
LEMMA ClosedStep ==
  RInv /\ Alone /\ KeptApart /\ [RNext]_<<rVars, scene>> =>
    (packet.status \in {"Claimed", "Expired", "Cancelled"} => packet' = packet)
<1> SUFFICES ASSUME RInv, Alone, KeptApart, [RNext]_<<rVars, scene>>,
                    packet.status \in {"Claimed", "Expired", "Cancelled"}
             PROVE  packet' = packet
  OBVIOUS
<1>1. ~Copy(packet)
  BY DEF Copy, Open
<1>2. task = NoPacket /\ (\A k \in Closer : closing[k] = NoPacket) /\ \A c \in Call : ~Claiming(c)
  BY <1>1 DEF RInv, Copies, KeptApart
<1>3. \A c \in scene.calls : c \in Call
  BY RedPacketAssumption DEF RInv
<1> QED
  BY <1>2, <1>3
  DEF RNext, rVars, CreateRedPacket, Expire, SetNX, ClaimStep, FindByID, FindByPacketAndUser, Transaction,
      Claiming, Unlock, LockExpires, ListExpired, RefundExpired, RefundFails, CancelReads, CancelRefunds,
      BotDies

LEMMA LedgerStep == RInv /\ Alone /\ KeptApart /\ Ledger /\ [RNext]_<<rVars, scene>> => Ledger'
<1> SUFFICES ASSUME RInv, Alone, KeptApart, Ledger, [RNext]_<<rVars, scene>> PROVE Ledger'
  OBVIOUS
<1> USE RedPacketAssumption
<1>0. /\ packet \in Packet /\ balance \in Nat /\ paid \in [User -> Nat]
      /\ packet.total \in Nat /\ packet.claimedAmount \in Nat
  BY DEF RInv, RTypeOK, Packet
<1>1. ASSUME NEW total \in scene.totals, NEW count, NEW kind, CreateRedPacket(total, count, kind)
      PROVE Ledger'
  <2>1. packet.status = "none" /\ packet.claimedAmount = 0 /\ total \in Nat
    BY <1>1 DEF CreateRedPacket, RInv, Terms
  <2> QED
    BY <1>0, <1>1, <2>1 DEF Ledger, CreateRedPacket, Remaining, Open
<1>2. ASSUME NEW c \in scene.calls, Transaction(c) PROVE Ledger'
  <2> DEFINE u == Claimer[c]
  <2>1. u \in User /\ c \in Call
    BY DEF RInv
  <2>2. call[c].seen = packet /\ Copy(packet)
    BY <1>2, <2>1 DEF RInv, Copies, KeptApart, Claiming, Transaction
  <2>3. CASE UNCHANGED <<claims, paid, packet>>
    BY <1>2, <2>3 DEF Ledger, Transaction, Remaining
  <2>4. ASSUME NEW amount \in ClaimAmount(packet),
               paid' = [paid EXCEPT ![u] = @ + amount],
               packet' = AfterClaim(packet, amount)
        PROVE  Ledger'
    <3>1. amount \in Nat
      BY <2>2, ShareOfACopy DEF RInv
    <3>2. SumFunctionOnSet(paid', User) = SumFunctionOnSet(paid, User) - paid[u] + paid'[u]
      <4>1. /\ \A x \in User : paid[x] \in Int /\ (x # u => paid'[x] = paid[x])
            /\ paid'[u] \in Int
        BY <1>0, <2>1, <2>4, <3>1
      <4> QED
        BY <2>1, <4>1, SumUpdate
    <3>3. paid'[u] = paid[u] + amount /\ paid[u] \in Nat
      BY <1>0, <2>1, <2>4
    <3>4. /\ packet'.claimedAmount = packet.claimedAmount + amount /\ packet'.total = packet.total
          /\ packet'.status = IF packet.claimedCount + 1 >= packet.count THEN "Claimed" ELSE "Sent"
          /\ balance' = balance
      BY <1>0, <1>2, <2>4 DEF AfterClaim, Packet, Transaction
    <3>5. packet.status \in Open /\ packet.claimedCount \in Nat /\ packet.count \in Nat
      BY <2>2 DEF Copy, Packet, RInv
    <3>6. CASE packet.claimedCount + 1 >= packet.count
      <4>1. amount = Remaining(packet)
        BY <2>4, <3>5, <3>6 DEF ClaimAmount
      <4> QED
        BY <1>0, <3>1, <3>2, <3>3, <3>4, <3>5, <3>6, <4>1 DEF Ledger, Remaining, Open
    <3>7. CASE ~(packet.claimedCount + 1 >= packet.count)
      BY <1>0, <3>1, <3>2, <3>3, <3>4, <3>5, <3>7 DEF Ledger, Remaining, Open
    <3> QED
      BY <3>6, <3>7
  <2> QED
    BY <1>2, <2>2, <2>3, <2>4 DEF Transaction
<1>3. CASE RefundExpired
  <2>1. task = packet /\ Copy(packet)
    BY <1>3 DEF RInv, Copies, KeptApart, RefundExpired
  <2>2. Remaining(packet) \in Nat
    BY <2>1, RestOfACopy DEF RInv
  <2>3. packet.status \in Open /\ packet' = [packet EXCEPT !.status = "Expired"]
    BY <1>3, <2>1 DEF RefundExpired, Copy
  <2>4. balance' = balance + Remaining(packet) /\ paid' = paid
    BY <1>0, <1>3, <2>1, <2>2 DEF RefundExpired
  <2>5. packet'.status = "Expired" /\ packet'.claimedAmount = packet.claimedAmount
    BY <1>0, <2>3 DEF Packet
  <2> QED
    BY <1>0, <2>2, <2>3, <2>4, <2>5 DEF Ledger, Open
<1>4. ASSUME NEW k \in Closer, CancelRefunds(k) PROVE Ledger'
  <2>1. closing[k] = packet /\ Copy(packet)
    BY <1>4 DEF RInv, Copies, KeptApart, CancelRefunds
  <2>2. Remaining(packet) \in Nat /\ packet.status \in Open
    BY <2>1, RestOfACopy DEF RInv, Copy
  <2>3. CASE UNCHANGED <<balance, packet>>
    BY <1>4, <2>3 DEF Ledger, CancelRefunds, Remaining
  <2>4. CASE /\ balance' = balance + Remaining(packet)
             /\ packet' = [packet EXCEPT !.status = "Cancelled"]
    <3>1. /\ packet'.status = "Cancelled" /\ packet'.claimedAmount = packet.claimedAmount
          /\ paid' = paid
      BY <1>0, <1>4, <2>4 DEF Packet, CancelRefunds
    <3> QED
      BY <1>0, <2>2, <2>4, <3>1 DEF Ledger, Open
  <2> QED
    BY <1>4, <2>1, <2>3, <2>4 DEF CancelRefunds
<1>5. ASSUME UNCHANGED <<packet, balance, paid>> PROVE Ledger'
  BY <1>5 DEF Ledger, Remaining
<1> QED
  BY <1>1, <1>2, <1>3, <1>4, <1>5
  DEF RNext, rVars, Expire, SetNX, ClaimStep, FindByID, FindByPacketAndUser, Unlock, LockExpires,
      ListExpired, RefundFails, CancelReads, BotDies

LEMMA AInvHolds == RSpec => [](RInv /\ AInv)
<1>1. RInit => AInv
  <2> SUFFICES ASSUME RInit PROVE KeptApart /\ Ledger
    BY DEF AInv
  <2> USE RedPacketAssumption
  <2>1. SumFunctionOnSet(paid, User) = 0
    BY SumZero DEF RInit
  <2> QED
    BY <2>1 DEF RInit, KeptApart, Ledger, Claiming, Refunding, Idle, Open
<1>2. RInv /\ AInv /\ [RNext]_<<rVars, scene>> => AInv'
  <2>1. [RNext]_<<rVars, scene>> => scene' = scene
    BY DEF RNext
  <2>2. scene' = scene => (Alone' <=> Alone)
    BY DEF Alone
  <2> QED
    BY <2>1, <2>2, KeptApartStep, LedgerStep DEF AInv
<1> QED
  BY <1>1, <1>2, RInvInit, RInvStep, PTL DEF RSpec

(* While claims end before their lock does and refunds keep away from      *)
(* them, no money is made and none is lost: any number of users, taps,     *)
(* failures and deaths of the bot.                                         *)
THEOREM MoneyIsKeptHolds == RSpec => []MoneyIsKept
<1>1. RInv /\ AInv => MoneyIsKept
  BY RedPacketAssumption DEF RInv, RTypeOK, Packet, AInv, Ledger, MoneyIsKept, Remaining
<1> QED
  BY <1>1, AInvHolds, PTL

(* Under the same condition a claimed, expired or closed packet is never   *)
(* written again, by whatever still works on a copy of it.                 *)
THEOREM ClosedStaysClosedHolds == RSpec => ClosedStaysClosed
<1>1. RInv /\ AInv /\ [RNext]_<<rVars, scene>>
        => [Alone /\ packet.status \in {"Claimed", "Expired", "Cancelled"} => packet' = packet]_packet
  BY ClosedStep DEF AInv
<1> QED
  BY <1>1, AInvHolds, PTL DEF RSpec, ClosedStaysClosed
=============================================================================
