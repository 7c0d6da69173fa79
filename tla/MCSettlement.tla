----------------------------- MODULE MCSettlement -----------------------------
(***************************************************************************)
(* Settlement for an A/B test (a test group and the remainder), and for    *)
(* the remainder with a default send whose request stopped before its row  *)
(* got a group, while a payment of another group is there to be found.     *)
(* Each message has one receiver.                                          *)
(***************************************************************************)
EXTENDS Settlement

CONSTANTS mB, mN, mU,      \* messages
          gAb, gOther      \* groups

OneEach == [m \in Messages |-> 1]
Grouping == [m \in Messages |-> IF m = mU THEN NoGroup ELSE gAb]
=============================================================================
