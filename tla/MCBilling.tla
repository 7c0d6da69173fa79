------------------------------ MODULE MCBilling ------------------------------
(***************************************************************************)
(* Billing on small instances.  Prices are those of the code; balances are *)
(* small, so that a few sends exhaust them.                                *)
(***************************************************************************)
EXTENDS Billing, TLC

\* Points for two one-receiver sends but not for three receivers; with the
\* money, enough for the check of an SMS A/B send (90) once.
RichOpening == {[point |-> 7, money |-> 85]}

\* Besides, an account that cannot pay two sends of three receivers.
SerialOpenings == RichOpening \cup {[point |-> 7, money |-> 5]}
PoorOpening == {[point |-> 7, money |-> 5]}

Symmetry == Permutations(Requests)
=============================================================================
