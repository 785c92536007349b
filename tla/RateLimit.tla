------------------------------- MODULE RateLimit -------------------------------
(***************************************************************************)
(* RateLimitMiddleware: the updates of a user are counted under a key of   *)
(* Redis.  The update that makes the key sets its time to live with a      *)
(* second command; nothing sets it later.                                  *)
(***************************************************************************)
EXTENDS Integers

CONSTANTS MaxRequests,   \* updates served in a window
          MaxCount       \* bound on the updates that are counted

ASSUME RateLimitAssumption == MaxRequests \in Nat \ {0} /\ MaxCount \in Nat

VARIABLES count,    \* the value at ratelimit:<user>, 0 if there is none
          ttl       \* none, due: EXPIRE is yet to be sent, set, or lost

limitVars == <<count, ttl>>

LimitInit == count = 0 /\ ttl = "none"

Incr ==
  /\ count < MaxCount
  /\ count' = count + 1
  /\ ttl' = IF count = 0 THEN "due" ELSE ttl

SetExpiry ==
  /\ ttl = "due"
  /\ ttl' = "set"
  /\ UNCHANGED count

\* The bot dies before it, or Redis does not take it; the error is ignored.
ExpiryIsLost ==
  /\ ttl = "due"
  /\ ttl' = "lost"
  /\ UNCHANGED count

\* Faulty variant: the key stays, with the count of the last window.
WindowEndsKeepsCount ==
  /\ ttl = "set"
  /\ ttl' = "none"
  /\ UNCHANGED count

WindowEnds ==
  /\ ttl = "set"
  /\ count' = 0
  /\ ttl' = "none"

LimitNext == Incr \/ SetExpiry \/ ExpiryIsLost \/ WindowEnds
================================================================================
