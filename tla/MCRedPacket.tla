---------------------------- MODULE MCRedPacket ----------------------------
(* Instances of RedPacket for TLC: three users, the first of whom taps     *)
(* twice.                                                                  *)
EXTENDS RedPacket

CONSTANTS u1, u2, u3, c1, c2, c3, c4, k1

ThreeUsers == {u1, u2, u3}
FourCalls  == {c1, c2, c3, c4}

Claimers == [c \in Call |-> CASE c = c3 -> u2 [] c = c4 -> u3 [] OTHER -> u1]

Closers == {k1}

(* One scene for everything that may overlap; one, with a third user and   *)
(* packets of up to three shares, for claims and refunds that do not.      *)
Scenes ==
  {[lockLasts |-> FALSE, overlap |-> TRUE, calls |-> {c1, c2, c3},
    totals |-> {7, 11}, counts |-> {2}],
   [lockLasts |-> TRUE, overlap |-> FALSE, calls |-> {c1, c2, c3, c4},
    totals |-> {7, 9, 11}, counts |-> {1, 2, 3}]}
=============================================================================
