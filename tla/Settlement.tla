------------------------------ MODULE Settlement ------------------------------
(***************************************************************************)
(* What happens to the SMS of one user after they were sent: the hourly    *)
(* job that stores NCP's counts, the job that sends the winner of an A/B   *)
(* test to the remainder, and the job that gives back the price of failed  *)
(* messages once they are three days old.  The jobs run on their own       *)
(* timers and share the rows of the message, user and UsedPayments tables. *)
(*                                                                         *)
(* The refund job loads the messages once, reads the user, the last result *)
(* and the payment of each, and starts a transaction it does not await: it *)
(* goes on with the next message while the transaction runs.  A            *)
(* transaction that fails is an unhandled rejection and ends the process.  *)
(*                                                                         *)
(* Refunds go to the points: usedPoint of a payment is never 0 (see        *)
(* UsedPayment in Billing), so the branch on it always takes that side.    *)
(***************************************************************************)
EXTENDS Integers, FiniteSetsExt, Functions

CONSTANTS
    Messages,       \* message rows
    Remainders,     \* those that wait for the winner of an A/B test
    Receivers,      \* receivers of each
    Groups,         \* message groups
    Paid,           \* those with a UsedPayments row
    GroupOf,        \* messageGroupId of each message; NoGroup is null
    NoGroup,
    None,           \* a null reference
    Ticks,          \* runs of the refund job that can be in flight together
    Pages,          \* result pages that can be in the making at the same time
    Overlap,        \* may a run start before the last one has settled?
    MaxCrashes      \* bound: how often the process dies

ASSUME MessagesAssumption ==
    /\ Remainders \subseteq Messages
    /\ Receivers \in [Messages -> Nat \ {0}]
    /\ GroupOf \in [Messages -> Groups \cup {NoGroup}]
    /\ NoGroup \notin Groups
    /\ Paid \subseteq Groups
ASSUME FlagsAssumption == Overlap \in BOOLEAN /\ MaxCrashes \in Nat

Price == 3

VARIABLES
    old,        \* messages sent more than three days ago
    posted,     \* messages NCP has
    outcome,    \* outcome[m]: what became of them at NCP, [success, fail]
    sent,       \* message rows with isSent; a remainder without it has sentType N
    checked,    \* message rows with isMoneyCheck
    result,     \* result[m]: the last NcpResult row, [fail, reserved], or None
    point,      \* points given back to the user, and not overwritten since
    refund,     \* refundPayment of the payment of each group
    announced,  \* announced[m]: the last refund of m the log reported
    poll,       \* the run of the result job, or None
    page,       \* page[p]: the result a page is about to save, or None
    winner,     \* the A/B job: the message row it is about to save, or None
    tick,       \* tick[t]: a run of the refund job, or None
    txs,        \* transactions of the refund job that have not ended
    settled,    \* history: settled[m], how often a refund of m was committed
    retaken,    \* history: retaken[m], how often a winner's save took isMoneyCheck back
    crashes

rows == <<old, sent, checked, result, point, refund>>
ncp == <<posted, outcome>>
past == <<announced, settled, retaken>>
vars == <<rows, ncp, past, poll, page, winner, tick, txs, crashes>>

Init ==
    /\ old = {}
    /\ posted = Messages \ Remainders
    /\ outcome = [m \in Messages |-> [success |-> 0, fail |-> 0]]
    /\ sent = Messages \ Remainders
    /\ checked = {}
    /\ result = [m \in Messages |-> None]
    /\ point = 0
    /\ refund = [g \in Paid |-> 0]
    /\ announced = [m \in Messages |-> 0]
    /\ poll = None
    /\ page = [p \in Pages |-> None]
    /\ winner = None
    /\ tick = [t \in Ticks |-> None]
    /\ txs = {}
    /\ settled = [m \in Messages |-> 0]
    /\ retaken = [m \in Messages |-> 0]
    /\ crashes = 0

-----------------------------------------------------------------------------
(* The surroundings: time and NCP.                                         *)

\* The message is three days old now.
Age(m) ==
    /\ m \notin old
    /\ old' = old \cup {m}
    /\ UNCHANGED <<sent, checked, result, point, refund, ncp, past, poll, page, winner, tick, txs, crashes>>

Reserved(m) == Receivers[m] - outcome[m].success - outcome[m].fail

\* One message reaches its receiver, or does not.
Deliver(m) ==
    /\ m \in posted /\ Reserved(m) > 0
    /\ \/ outcome' = [outcome EXCEPT ![m].success = @ + 1]
       \/ outcome' = [outcome EXCEPT ![m].fail = @ + 1]
    /\ UNCHANGED <<rows, posted, past, poll, page, winner, tick, txs, crashes>>

-----------------------------------------------------------------------------
(* handleResultCron: the list, and for each message of it ncpResult and    *)
(* then the NcpResult row.                                                 *)

\* ncpResult: a remainder that waits for the winner is reserved as a whole.
NcpResult(m) ==
    IF m \in sent
    THEN [fail |-> outcome[m].fail, reserved |-> Reserved(m)]
    ELSE [fail |-> 0, reserved |-> Receivers[m]]

\* The run goes on with the rest of its list, or ends.
PollOnward(todo) == IF todo = {} THEN None ELSE [at |-> "next", todo |-> todo]

\* findThreeDaysBeforeSend: the messages this run asks for.  Those whose counts
\* are final and stored are left out, since asking again changes nothing.
Settling(m) == m \notin sent \/ Reserved(m) > 0 \/ result[m] # NcpResult(m)

PollStart ==
    /\ poll = None
    /\ \E m \in Messages \ old : result[m] # NcpResult(m)
    /\ poll' = [at |-> "next", todo |-> {m \in Messages \ old : Settling(m)}]
    /\ UNCHANGED <<rows, ncp, past, page, winner, tick, txs, crashes>>

\* The next message of the list, which may be older than three days by now.
\* The others of the list come after it, or the run ends before them.
PollRead(m) ==
    /\ poll # None /\ poll.at = "next"
    /\ m \in poll.todo
    /\ poll' = [at |-> "save", todo |-> poll.todo \ {m}, msg |-> m, result |-> NcpResult(m)]
    /\ UNCHANGED <<rows, ncp, past, page, winner, tick, txs, crashes>>

\* A request to NCP that fails skips the message until the next hour; a user
\* that cannot be read ends the run, which skips what is left.
PollSkip(m) ==
    /\ poll # None /\ poll.at = "next"
    /\ m \in poll.todo
    /\ poll' = PollOnward(poll.todo \ {m})
    /\ UNCHANGED <<rows, ncp, past, page, winner, tick, txs, crashes>>

PollSave ==
    /\ poll # None /\ poll.at = "save"
    /\ result' = [result EXCEPT ![poll.msg] = poll.result]
    /\ poll' = PollOnward(poll.todo)
    /\ UNCHANGED <<old, sent, checked, point, refund, ncp, past, page, winner, tick, txs, crashes>>

-----------------------------------------------------------------------------
(* messageResult: a page of the user asks NCP for the counts of a message  *)
(* of any age, and stores them.  The pages of a group or of all groups are *)
(* made side by side.                                                      *)

PageRead(p, m) ==
    /\ page[p] = None
    /\ page' = [page EXCEPT ![p] = [msg |-> m, result |-> NcpResult(m)]]
    /\ UNCHANGED <<rows, ncp, past, poll, winner, tick, txs, crashes>>

PageSave(p) ==
    /\ page[p] # None
    /\ result' = [result EXCEPT ![page[p].msg] = page[p].result]
    /\ page' = [page EXCEPT ![p] = None]
    /\ UNCHANGED <<old, sent, checked, point, refund, ncp, past, poll, winner, tick, txs, crashes>>

-----------------------------------------------------------------------------
(* handleAbTestInterval, from the winner's acceptance at NCP on: it loads  *)
(* the row of the remainder and saves it as sent.                          *)

WinnerPost(m) ==
    /\ m \in Remainders \ (sent \cup posted)
    /\ posted' = posted \cup {m}
    /\ UNCHANGED <<rows, outcome, past, poll, page, winner, tick, txs, crashes>>

WinnerLoad(m) ==
    /\ winner = None
    /\ m \in posted \ sent
    /\ winner' = [msg |-> m, checked |-> m \in checked]
    /\ UNCHANGED <<rows, ncp, past, poll, page, tick, txs, crashes>>

\* save(newMessage) writes every column that differs from the row, isMoneyCheck
\* as it was loaded among them.
WinnerSave ==
    /\ winner # None
    /\ sent' = sent \cup {winner.msg}
    /\ checked' = IF winner.checked THEN checked \cup {winner.msg} ELSE checked \ {winner.msg}
    /\ retaken' = IF ~winner.checked /\ winner.msg \in checked
                  THEN [retaken EXCEPT ![winner.msg] = @ + 1] ELSE retaken
    /\ winner' = None
    /\ UNCHANGED <<old, result, point, refund, ncp, announced, settled, poll, page, tick, txs, crashes>>

-----------------------------------------------------------------------------
(* handleRefundCron.                                                       *)

Running(t) == tick[t] # None

\* Variant: the query does not leave out what is already checked.
RefundStartAll(t) ==
    /\ ~Running(t)
    /\ Overlap \/ (txs = {} /\ \A u \in Ticks : ~Running(u))
    /\ old # {}
    /\ tick' = [tick EXCEPT ![t] = [at |-> "next", todo |-> old, sent |-> sent]]
    /\ UNCHANGED <<rows, ncp, past, poll, page, winner, txs, crashes>>

\* findThreeDaysBeforeSendAndNotChecked: the entities this run works with.
RefundStart(t) ==
    /\ ~Running(t)
    /\ Overlap \/ (txs = {} /\ \A u \in Ticks : ~Running(u))
    /\ old \ checked # {}
    /\ tick' = [tick EXCEPT ![t] = [at |-> "next", todo |-> old \ checked, sent |-> sent]]
    /\ UNCHANGED <<rows, ncp, past, poll, page, winner, txs, crashes>>

\* findUserByUserId for the next message of the list.
RefundUser(t) ==
    /\ Running(t) /\ tick[t].at = "next"
    /\ \E m \in tick[t].todo :
          tick' = [tick EXCEPT ![t] =
              [at |-> "result", todo |-> @.todo \ {m}, sent |-> @.sent, msg |-> m, point |-> point]]
    /\ UNCHANGED <<rows, ncp, past, poll, page, winner, txs, crashes>>

\* Variant: the run dies after its first message.
OnwardNever(run) == None

\* The run goes on with the rest of its list, or ends.
Onward(run) ==
    IF run.todo = {} THEN None ELSE [at |-> "next", todo |-> run.todo, sent |-> run.sent]

\* findLastOneByMessageId.  A message without a result ends in the catch.
RefundResult(t) ==
    /\ Running(t) /\ tick[t].at = "result"
    /\ LET run == tick[t] IN
       tick' = [tick EXCEPT ![t] =
           IF result[run.msg] = None
           THEN Onward(run)
           ELSE [at |-> "payment", todo |-> run.todo, sent |-> run.sent, msg |-> run.msg,
                 point |-> run.point, fail |-> result[run.msg].fail]]
    /\ UNCHANGED <<rows, ncp, past, poll, page, winner, txs, crashes>>

\* Variant: the group is no condition at all.
PaymentsForAny(m) == Paid

\* The payment findOne returns.  A null messageGroupId is no condition, so any
\* payment may come back.
PaymentsFor(m) == IF GroupOf[m] = NoGroup THEN Paid ELSE {GroupOf[m]} \cap Paid

\* Variant: the refund is taken off, as a deduction would be.
CreditedBackwards(amount, fail) == amount - fail * Price

\* user.point += refundAmount, usedPayment.refundPayment += refundAmount
Credited(amount, fail) == amount + fail * Price

\* The payment is read, the entities are changed and the transaction starts.
\* A message without a payment ends in the catch.
RefundPayment(t) ==
    /\ Running(t) /\ tick[t].at = "payment"
    /\ LET run == tick[t] IN
       /\ tick' = [tick EXCEPT ![t] = Onward(run)]
       /\ \/ PaymentsFor(run.msg) = {} /\ UNCHANGED <<announced, txs>>
          \/ \E g \in PaymentsFor(run.msg) :
                /\ announced' = [announced EXCEPT ![run.msg] = run.fail * Price]
                /\ txs' = txs \cup {[msg |-> run.msg, sent |-> run.msg \in run.sent,
                                     point |-> Credited(run.point, run.fail),
                                     group |-> g, refund |-> Credited(refund[g], run.fail),
                                     begun |-> FALSE, dirty |-> FALSE]}
    /\ UNCHANGED <<rows, ncp, settled, retaken, poll, page, winner, crashes>>

\* save(user) of a transaction: SELECT, and UPDATE if the points differ.  The
\* UPDATE locks the row until the end of the transaction.
TxUser(x) ==
    /\ ~x.begun
    /\ \/ x.point = point
       \/ \A y \in txs : ~y.dirty
    /\ txs' = (txs \ {x}) \cup {[x EXCEPT !.begun = TRUE, !.dirty = x.point # point]}
    /\ UNCHANGED <<rows, ncp, past, poll, page, winner, tick, crashes>>

\* Variant: isMoneyCheck is not set.
TxCommitUnchecked(x) ==
    /\ x.begun
    /\ point' = IF x.dirty THEN x.point ELSE point
    /\ sent' = IF x.sent THEN sent \cup {x.msg} ELSE sent \ {x.msg}
    /\ refund' = [refund EXCEPT ![x.group] = x.refund]
    /\ txs' = txs \ {x}
    /\ settled' = [settled EXCEPT ![x.msg] = @ + 1]
    /\ UNCHANGED <<old, checked, result, ncp, announced, retaken, poll, page, winner, tick, crashes>>

\* save(message) and save(usedPayment) with what the run loaded, and COMMIT.
TxCommit(x) ==
    /\ x.begun
    /\ point' = IF x.dirty THEN x.point ELSE point
    /\ checked' = checked \cup {x.msg}
    /\ sent' = IF x.sent THEN sent \cup {x.msg} ELSE sent \ {x.msg}
    /\ refund' = [refund EXCEPT ![x.group] = x.refund]
    /\ txs' = txs \ {x}
    /\ settled' = [settled EXCEPT ![x.msg] = @ + 1]
    /\ UNCHANGED <<old, result, ncp, announced, retaken, poll, page, winner, tick, crashes>>

\* The process ends, with a deployment or with a transaction that fails.
Crash ==
    /\ crashes < MaxCrashes
    /\ crashes' = crashes + 1
    /\ poll' = None /\ winner' = None
    /\ page' = [p \in Pages |-> None]
    /\ tick' = [t \in Ticks |-> None]
    /\ txs' = {}
    /\ UNCHANGED <<rows, ncp, past>>

-----------------------------------------------------------------------------

RefundStep(t) == RefundStart(t) \/ RefundUser(t) \/ RefundResult(t) \/ RefundPayment(t)
TxStep == \E x \in txs : TxUser(x) \/ TxCommit(x)

Next ==
    \/ \E m \in Messages : Age(m) \/ Deliver(m) \/ PollRead(m) \/ PollSkip(m) \/ WinnerPost(m) \/ WinnerLoad(m)
    \/ PollStart \/ PollSave \/ WinnerSave
    \/ \E p \in Pages : PageSave(p) \/ \E m \in Messages : PageRead(p, m)
    \/ \E t \in Ticks : RefundStart(t) \/ RefundUser(t) \/ RefundResult(t) \/ RefundPayment(t)
    \/ TxStep
    \/ Crash

Spec == Init /\ [][Next]_vars

\* The timers keep firing and awaited calls answer, one way or the other.
Fairness ==
    /\ \A t \in Ticks : WF_vars(RefundStep(t))
    /\ WF_vars(TxStep)

FairSpec == Spec /\ Fairness

-----------------------------------------------------------------------------
(* Properties.                                                             *)

Result == [fail : Nat, reserved : Int]

Tx == [msg : Messages, sent : BOOLEAN, point : Nat, group : Paid, refund : Nat,
       begun : BOOLEAN, dirty : BOOLEAN]

\* A run of the result job, between two messages and about to save a result.
Poll ==
    [at : {"next"}, todo : SUBSET Messages]
    \cup [at : {"save"}, todo : SUBSET Messages, msg : Messages, result : Result]

\* A run of the refund job between two messages, with the user of a message
\* read, and with its result read.
Run ==
    [at : {"next"}, todo : SUBSET Messages, sent : SUBSET Messages]
    \cup [at : {"result"}, todo : SUBSET Messages, sent : SUBSET Messages,
          msg : Messages, point : Nat]
    \cup [at : {"payment"}, todo : SUBSET Messages, sent : SUBSET Messages,
          msg : Messages, point : Nat, fail : Nat]

TypeOK ==
    /\ old \subseteq Messages /\ posted \subseteq Messages
    /\ sent \subseteq Messages /\ checked \subseteq Messages
    /\ outcome \in [Messages -> [success : Nat, fail : Nat]]
    /\ result \in [Messages -> {None} \cup Result]
    /\ point \in Nat
    /\ refund \in [Paid -> Nat]
    /\ announced \in [Messages -> Nat]
    /\ poll \in {None} \cup Poll
    /\ page \in [Pages -> {None} \cup [msg : Messages, result : Result]]
    /\ winner \in {None} \cup [msg : Messages, checked : BOOLEAN]
    /\ tick \in [Ticks -> {None} \cup Run]
    /\ txs \subseteq Tx
    /\ settled \in [Messages -> Nat] /\ retaken \in [Messages -> Nat]
    /\ crashes \in 0..MaxCrashes

(***************************************************************************)
(* A message is settled once, and once more each time a winner's save has  *)
(* taken isMoneyCheck back: no second transaction starts for a message     *)
(* that has one or is checked, wherever the process dies.                  *)
(***************************************************************************)
SettledOnce ==
    /\ \A m \in Messages : settled[m] <= 1 + retaken[m]
    /\ \A x \in txs : x.msg \notin checked /\ \A y \in txs : y.msg = x.msg => y = x

\* Those of the receivers of S who got nothing, by number.
FailedReceivers(S) == UNION {{m} \X (1..outcome[m].fail) : m \in S}

FailedIn(S) == Cardinality(FailedReceivers(S))

\* No winner's save has taken isMoneyCheck back.
NoneRetaken == \A m \in Messages : retaken[m] = 0

(***************************************************************************)
(* The user gets back no more than the price of the messages that failed   *)
(* among those settled, whichever copies of the user row the transactions  *)
(* write back, in whichever order they commit, and whenever pages and the  *)
(* job store results: until a winner's save takes isMoneyCheck back.       *)
(***************************************************************************)
NoOverRefund == NoneRetaken => point <= Price * FailedIn(checked)

(***************************************************************************)
(* Until then a payment shows no more refunded than failed in its own      *)
(* group and among the messages without one: saveMessageInfo saves the row *)
(* before its transaction gives it a group, and findOne takes a null       *)
(* messageGroupId for no condition, so the failures of a send that stopped *)
(* in between are booked on whichever payment it returns.                  *)
(***************************************************************************)
RefundWithinGroup ==
    NoneRetaken =>
        \A g \in Paid : refund[g] <= Price * FailedIn({m \in checked : GroupOf[m] \in {g, NoGroup}})

(***************************************************************************)
(* "Refund for message ... is completed. ... won is refunded.": when no    *)
(* refund is under way, the user has what the log reported of the settled  *)
(* messages.                                                               *)
(***************************************************************************)
Quiet == txs = {} /\ \A t \in Ticks : ~Running(t)

CompletedMeansRefunded ==
    Quiet => point = MapThenSumSet(LAMBDA m : announced[m], checked)

(***************************************************************************)
(* "We will check it again.": a message that is due, that has a result and *)
(* a payment is settled in the end, however often a run or a transaction   *)
(* of its is lost with the process.                                        *)
(***************************************************************************)
Due(m) == m \in old /\ result[m] # None /\ PaymentsFor(m) # {}

SettledEventually == \A m \in Messages : Due(m) ~> m \in checked
=============================================================================
