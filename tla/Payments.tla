-------------------------------- MODULE Payments --------------------------------
(***************************************************************************)
(* Charging money.  A user creates an order, pays it at the payment        *)
(* provider, and the client asks to complete it: the amount the provider   *)
(* names is added to the user's money, then the order is marked.  If       *)
(* anything rejects, a cancellation is started that nobody awaits.  A      *)
(* refund is only written down and announced.                              *)
(*                                                                         *)
(* Of the user row only the money is kept, and every order is worth 1;     *)
(* what other writers of the row do to the money is in Billing.  A request *)
(* names an order and the payment for it (completePayment does not check   *)
(* that the two belong together), and a payment is cancelled as a whole.   *)
(***************************************************************************)
EXTENDS Integers

CONSTANTS
    PayOrders,      \* orders, each with its payment at the provider
    PayMoney,       \* PayMoney[o]: what its user wants to charge
    PayRequests,    \* requests in flight together
    PayMaxMoney,    \* bound: the money a completion may start from
    PayMaxRefunds   \* bound: rows of Refund

ASSUME PayAssumption ==
    /\ PayMoney \in [PayOrders -> Nat] /\ "none" \notin PayOrders
    /\ PayMaxMoney \in Nat /\ PayMaxRefunds \in Nat

VARIABLES
    money,      \* User.money
    orders,     \* orders[o]: the row of Payment, "none", "new" or "completed"
    provider,   \* provider[o]: the payment, "none", "paid" or "cancelled"
    refunds,    \* how many rows Refund has
    pay,        \* pay[q]: the request in slot q
    cancels,    \* cancels[q]: the cancellation started in slot q
    credits,    \* history: how often the money of an order was saved
    asked,      \* history: orders somebody asked to complete
    refused,    \* history: orders the provider did not cancel when it was told to
    payDied     \* history: has the process ended?

payVars == <<money, orders, provider, refunds, pay, cancels, credits, asked, refused, payDied>>

\* money: the entity of the user as read, changed in memory
PayIdle == [at |-> "idle", order |-> "none", money |-> 0]
PayGo(q, r) == pay' = [pay EXCEPT ![q] = r]
PayAt(q, p) == pay[q].at = p
PayAnswered(q) == PayGo(q, PayIdle)
CancelAt(q, p) == cancels[q].at = p
CancelGo(q, r) == cancels' = [cancels EXCEPT ![q] = r]

PaymentsInit ==
    /\ money = 0
    /\ orders = [o \in PayOrders |-> "none"]
    /\ provider = [o \in PayOrders |-> "none"]
    /\ refunds = 0
    /\ pay = [q \in PayRequests |-> PayIdle]
    /\ cancels = [q \in PayRequests |-> PayIdle]
    /\ credits = [o \in PayOrders |-> 0]
    /\ asked = {}
    /\ refused = {}
    /\ payDied = FALSE

-----------------------------------------------------------------------------
(* The user                                                                *)

\* createPayment: 'Minimum payment amount is 1000', 'Maximum payment amount is ...'
CreatePayment(q, o) ==
    /\ PayAt(q, "idle") /\ orders[o] = "none"
    /\ \A r \in PayRequests : pay[r].order # o
    /\ IF PayMoney[o] < 1000 \/ PayMoney[o] > 5000000
       THEN PayAnswered(q)
       ELSE PayGo(q, [PayIdle EXCEPT !.at = "create", !.order = o])
    /\ UNCHANGED <<money, orders, provider, refunds, cancels, credits, asked, refused, payDied>>

SavePayment(q) ==
    /\ PayAt(q, "create")
    /\ orders' = [orders EXCEPT ![pay[q].order] = "new"]
    /\ PayAnswered(q)
    /\ UNCHANGED <<money, provider, refunds, cancels, credits, asked, refused, payDied>>

\* The user pays at the provider.
PayAtProvider(o) ==
    /\ orders[o] = "new" /\ provider[o] = "none"
    /\ provider' = [provider EXCEPT ![o] = "paid"]
    /\ UNCHANGED <<money, orders, refunds, pay, cancels, credits, asked, refused, payDied>>

\* refundPayment: money is not set aside for it
RefundPayment(q) ==
    /\ PayAt(q, "idle") /\ refunds < PayMaxRefunds
    /\ \E refundMoney \in 1..2 :
          IF money < refundMoney THEN PayAnswered(q) ELSE PayGo(q, [PayIdle EXCEPT !.at = "refund"])
    /\ UNCHANGED <<money, orders, provider, refunds, cancels, credits, asked, refused, payDied>>

SaveRefund(q) ==
    /\ PayAt(q, "refund")
    /\ refunds' = refunds + 1
    /\ PayAnswered(q)
    /\ UNCHANGED <<money, orders, provider, cancels, credits, asked, refused, payDied>>

-----------------------------------------------------------------------------
(* completePayment                                                         *)

\* The provider also names the amount of a payment that was cancelled.
CompletePayment(q, o) ==
    /\ PayAt(q, "idle") /\ provider[o] # "none" /\ money < PayMaxMoney
    /\ PayGo(q, [PayIdle EXCEPT !.at = "token", !.order = o])
    /\ asked' = asked \cup {o}
    /\ UNCHANGED <<money, orders, provider, refunds, cancels, credits, refused, payDied>>

\* The provider hands out a token and then the payment.
AskProvider(q) ==
    /\ PayAt(q, "token")
    /\ PayGo(q, [pay[q] EXCEPT !.at = "user"])
    /\ UNCHANGED <<money, orders, provider, refunds, cancels, credits, asked, refused, payDied>>

ReadPayer(q) ==
    /\ PayAt(q, "user")
    /\ PayGo(q, [pay[q] EXCEPT !.at = "order", !.money = money])
    /\ UNCHANGED <<money, orders, provider, refunds, cancels, credits, asked, refused, payDied>>

\* user.money += amount, whether or not the order is completed
ReadOrder(q) ==
    /\ PayAt(q, "order")
    /\ PayGo(q, [pay[q] EXCEPT !.at = "credit", !.money = @ + 1])
    /\ UNCHANGED <<money, orders, provider, refunds, cancels, credits, asked, refused, payDied>>

\* Variant: it goes unnoticed that the row was not saved.
CreditUnnoticed(q) ==
    /\ PayAt(q, "credit")
    /\ \/ /\ money' = pay[q].money
          /\ credits' = [credits EXCEPT ![pay[q].order] = @ + 1]
       \/ UNCHANGED <<money, credits>>
    /\ PayGo(q, [pay[q] EXCEPT !.at = "complete"])
    /\ UNCHANGED <<orders, provider, refunds, cancels, asked, refused, payDied>>

\* The row of the user is saved.
CreditUser(q) ==
    /\ PayAt(q, "credit")
    /\ money' = pay[q].money
    /\ credits' = [credits EXCEPT ![pay[q].order] = @ + 1]
    /\ PayGo(q, [pay[q] EXCEPT !.at = "complete"])
    /\ UNCHANGED <<orders, provider, refunds, cancels, asked, refused, payDied>>

CompleteOrder(q) ==
    /\ PayAt(q, "complete")
    /\ orders' = [orders EXCEPT ![pay[q].order] = "completed"]
    /\ PayAnswered(q)
    /\ UNCHANGED <<money, provider, refunds, cancels, credits, asked, refused, payDied>>

\* Variant: the catch only throws.
CancelNothing(q) == UNCHANGED cancels

\* cancelPayment is called and not awaited.  One slot keeps at most one
\* cancellation.
StartCancel(q) == CancelGo(q, [PayIdle EXCEPT !.at = "user", !.order = pay[q].order])

\* An awaited call of completePayment rejects, before or after the money was
\* saved.
PayCatch(q) ==
    /\ pay[q].at \in {"token", "user", "order", "credit", "complete"}
    /\ CancelAt(q, "idle")
    /\ StartCancel(q)
    /\ PayAnswered(q)
    /\ UNCHANGED <<money, orders, provider, refunds, credits, asked, refused, payDied>>

\* A call of createPayment or refundPayment rejects.
PayReject(q) ==
    /\ pay[q].at \in {"create", "refund"}
    /\ PayAnswered(q)
    /\ UNCHANGED <<money, orders, provider, refunds, cancels, credits, asked, refused, payDied>>

-----------------------------------------------------------------------------
(* cancelPayment                                                           *)

\* The user, a token and the payment: its amounts are read one level too high
\* and undefined, so 'nothing to cancel' is never found.
CancelAsk(q) ==
    /\ CancelAt(q, "user")
    /\ CancelGo(q, [cancels[q] EXCEPT !.at = "cancel", !.money = money])
    /\ UNCHANGED <<money, orders, provider, refunds, pay, credits, asked, refused, payDied>>

\* The provider cancels what is paid, or refuses: told the amount of the order
\* and no checksum, or asked again, it may answer that it did not cancel, which
\* nobody looks at.  The money is taken off an entity that nobody saves.
CancelAtProvider(q) ==
    /\ CancelAt(q, "cancel")
    /\ LET o == cancels[q].order IN
       \/ /\ provider[o] = "paid"
          /\ provider' = [provider EXCEPT ![o] = "cancelled"]
          /\ UNCHANGED refused
       \/ refused' = refused \cup {o} /\ UNCHANGED provider
    /\ CancelGo(q, PayIdle)
    /\ UNCHANGED <<money, orders, refunds, pay, credits, asked, payDied>>

\* The process ends, by itself or because the cancellation rejects: nothing
\* handles that.
PayDie ==
    /\ pay' = [q \in PayRequests |-> PayIdle]
    /\ cancels' = [q \in PayRequests |-> PayIdle]
    /\ payDied' = TRUE
    /\ UNCHANGED <<money, orders, provider, refunds, credits, asked, refused>>

PaymentsNext ==
    \/ \E q \in PayRequests :
          \/ \E o \in PayOrders : CreatePayment(q, o) \/ CompletePayment(q, o)
          \/ SavePayment(q) \/ RefundPayment(q) \/ SaveRefund(q)
          \/ AskProvider(q) \/ ReadPayer(q) \/ ReadOrder(q) \/ CreditUser(q) \/ CompleteOrder(q)
          \/ PayCatch(q) \/ PayReject(q) \/ CancelAsk(q) \/ CancelAtProvider(q)
    \/ \E o \in PayOrders : PayAtProvider(o)
    \/ PayDie

PaymentsSpec == PaymentsInit /\ [][PaymentsNext]_payVars

-----------------------------------------------------------------------------
(* Properties.                                                             *)

(***************************************************************************)
(* An order is marked only after its money was saved, wherever completions *)
(* of it reject, overlap or end with the process.                          *)
(***************************************************************************)
CompletedWasCredited == \A o \in PayOrders : orders[o] = "completed" => credits[o] > 0

(***************************************************************************)
(* A payment somebody asked to complete is credited, or the provider was   *)
(* told to cancel it: when the requests and the cancellations for it have  *)
(* run their course, the user was credited, the payment was cancelled or   *)
(* the provider refused to, unless the process ended.                      *)
(***************************************************************************)
PaymentNotKept == \A o \in asked :
    \/ credits[o] > 0 \/ provider[o] = "cancelled" \/ o \in refused \/ payDied
    \/ \E q \in PayRequests : o \in {pay[q].order, cancels[q].order}
=============================================================================
