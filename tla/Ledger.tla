-------------------------------- MODULE Ledger --------------------------------
(***************************************************************************)
(* What a prepaid account promises: every request posts at most one amount *)
(* (a charge below zero, a top-up above), the balance changes by exactly   *)
(* that amount and in no other way, and no charge overdraws the account.   *)
(* Billing implements it as long as the requests of one user do not        *)
(* overlap.                                                                *)
(***************************************************************************)
EXTENDS Integers

CONSTANTS Requests, Amounts, OpeningBalances

VARIABLES balance,  \* what the user can spend
          postings  \* what was posted: {[req : Requests, amount : Amounts]}

vars == <<balance, postings>>

Init ==
    /\ balance \in OpeningBalances
    /\ postings = {}

Post(r, a) ==
    /\ \A p \in postings : p.req # r
    /\ balance + a >= 0
    /\ balance' = balance + a
    /\ postings' = postings \cup {[req |-> r, amount |-> a]}

Next == \E r \in Requests, a \in Amounts : Post(r, a)

Spec == Init /\ [][Next]_vars
=============================================================================
