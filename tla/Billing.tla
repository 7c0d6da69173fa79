------------------------------- MODULE Billing -------------------------------
(***************************************************************************)
(* The prepaid balance of one user and everything that reads or writes it  *)
(* while requests of that user are being served: the four sends (SMS and   *)
(* KakaoTalk, default and A/B), the completion of a payment, and the       *)
(* handlers that save the user row for another reason (login, logout, host *)
(* numbers).  Every await of the code is a step boundary here: between two *)
(* steps of one request any other request may take steps, the process may  *)
(* die, or the awaited call may reject.                                    *)
(*                                                                         *)
(* Handlers hold a copy of the user row and write it back.  TypeORM's      *)
(* save(entity) first SELECTs the row, keeps the columns in which the copy *)
(* differs from it (dirty) and then UPDATEs those columns with the copy's  *)
(* values: two steps here, as there.                                       *)
(***************************************************************************)
EXTENDS Integers, FiniteSets, AbSplit

CONSTANTS
    Requests,       \* requests of the one user; each is served at most once
    Openings,       \* user rows to start from
    Sizes,          \* receiver counts of default and KakaoTalk sends
    AbSizes,        \* receiver counts of SMS A/B sends
    TopUps,         \* amounts of completed payments
    SmsChunk,       \* receivers of one NCP request: 1000 for SMS,
    BizChunk,       \* 100 for KakaoTalk
    Overlap         \* may requests of the user be in flight together?

Row == [point : Nat, money : Nat]

ASSUME OpeningsAssumption == Openings \subseteq Row
ASSUME SizesAssumption ==
    /\ Sizes \subseteq Nat
    /\ AbSizes \subseteq {n \in Nat : n >= 10}  \* the validation pipe of SMS A/B
ASSUME TopUpsAssumption == TopUps \subseteq Nat
ASSUME ChunkAssumption == SmsChunk \in Nat \ {0} /\ BizChunk \in Nat \ {0}
ASSUME OverlapAssumption == Overlap \in BOOLEAN

\* NCP_SMS_price and NCP_BizMessage_price are both 3.
Price == 3

\* sentType of a message row: the default send, the two test groups and the
\* remainder that waits for the winner (MessageType.N, "not yet").
Parts == {"Default", "A", "B", "N"}

SmsKinds == {"smsDefault", "smsAb"}
AbKinds == {"smsAb", "bizAb"}
SendKinds == SmsKinds \cup {"bizDefault", "bizAb"}
Kinds == SendKinds \cup {"topUp", "profile"}

Stages == {"idle", "check", "rejected", "txUser", "group", "post", "message",
           "txCommit", "content", "reread", "deduct", "debit", "pay",
           "credit", "creditSave", "order", "profile", "profileSave", "done"}

VARIABLES
    user,       \* the row of the user table
    kind,       \* the route a request came in by
    size,       \* its number of receivers, or the amount of the payment
    stage,      \* what the request does next
    stopped,    \* requests that ended in a rejected await or with the process
    copy,       \* the user entity a request holds
    dirty,      \* the columns its pending save will write
    part,       \* the part a send is at
    accepted,   \* accepted[r][p]: receivers of part p that NCP accepted
    groups,     \* requests with a message group row
    messages,   \* message rows, as <<request, part>>
    grouped,    \* those whose messageGroupId is set
    contents,   \* message content rows with a messageGroupId
    payments,   \* UsedPayments rows
    orders      \* payments marked completed

flow == <<kind, size, stage, stopped>>
entity == <<copy, dirty>>
sending == <<part, accepted, groups, messages, grouped, contents>>
vars == <<user, flow, entity, sending, payments, orders>>

-----------------------------------------------------------------------------
(* The request as a function of its kind.                                  *)

Sms(r) == kind[r] \in SmsKinds
Ab(r) == kind[r] \in AbKinds

\* The number of receivers of a part of a send.
PartCount(r, p) ==
    CASE p = "Default" -> size[r]
      [] p = "A" -> ACount(size[r])
      [] p = "B" -> BCount(size[r])
      [] p = "N" -> RemainCount(size[r])

FirstPart(r) == IF Ab(r) THEN "A" ELSE "Default"

\* Variant: the check compares the balance with the receivers, not the price.
CheckedAmountWithoutPrice(r) == size[r]

\* What assertCheckUserMoney asks for.  The SMS A/B send multiplies by three.
CheckedAmount(r) ==
    IF kind[r] = "smsAb" THEN (size[r] * 3) * Price ELSE size[r] * Price

\* Variant: charge what was checked, which triples an SMS A/B send.
CostAsChecked(r) == CheckedAmount(r)

\* deductionMoney
Cost(r) == size[r] * Price

\* Variants: the points pay everything; the points are kept although they
\* paid; the two operands of the rest are swapped.
DeductedFromPoints(u, cost) == [point |-> u.point - cost, money |-> u.money]

DeductedKeepingPoints(u, cost) ==
    IF u.point >= cost
    THEN [point |-> u.point - cost, money |-> u.money]
    ELSE [point |-> u.point, money |-> u.money - (cost - u.point)]

DeductedSwapped(u, cost) ==
    IF u.point >= cost
    THEN [point |-> u.point - cost, money |-> u.money]
    ELSE [point |-> 0, money |-> u.money - (u.point - cost)]

\* deductedUserMoney on the entity: points first, the rest from the money.
Deducted(u, cost) ==
    IF u.point >= cost
    THEN [point |-> u.point - cost, money |-> u.money]
    ELSE [point |-> 0, money |-> u.money - (cost - u.point)]

\* Variant: usedMoney is computed from the points that remain.
UsedPaymentFromRest(r) ==
    [req |-> r, usedPoint |-> Cost(r), usedMoney |-> copy[r].point - Cost(r),
     remainPoint |-> copy[r].point, remainMoney |-> copy[r].money]

\* The UsedPayments row it leaves.  Both branches put the whole deduction in
\* usedPoint, so usedMoney, computed from it, is 0 either way.
UsedPayment(r) ==
    [req |-> r, usedPoint |-> Cost(r), usedMoney |-> Cost(r) - Cost(r),
     remainPoint |-> copy[r].point, remainMoney |-> copy[r].money]

\* The SELECT half of save(entity): the columns that differ from the row.
DirtyColumns(u) == {c \in {"point", "money"} : u[c] # user[c]}

\* The UPDATE half.
Overwritten(r) ==
    [point |-> IF "point" \in dirty[r] THEN copy[r].point ELSE user.point,
     money |-> IF "money" \in dirty[r] THEN copy[r].money ELSE user.money]

-----------------------------------------------------------------------------

Init ==
    /\ user \in Openings
    /\ kind = [r \in Requests |-> "profile"]
    /\ size = [r \in Requests |-> 0]
    /\ stage = [r \in Requests |-> "idle"]
    /\ stopped = {}
    /\ copy = [r \in Requests |-> [point |-> 0, money |-> 0]]
    /\ dirty = [r \in Requests |-> {}]
    /\ part = [r \in Requests |-> "Default"]
    /\ accepted = [r \in Requests |-> [p \in Parts |-> 0]]
    /\ groups = {}
    /\ messages = {}
    /\ grouped = {}
    /\ contents = {}
    /\ payments = {}
    /\ orders = {}

At(r, s) == stage[r] = s /\ r \notin stopped
Goto(r, s) == stage' = [stage EXCEPT ![r] = s] /\ UNCHANGED <<kind, size, stopped>>

InFlight(r) == stage[r] \notin {"idle", "rejected", "done"} /\ r \notin stopped
MayStart(r) == At(r, "idle") /\ (Overlap \/ \A q \in Requests : ~InFlight(q))

Start(r, k, n, s) ==
    /\ MayStart(r)
    /\ kind' = [kind EXCEPT ![r] = k]
    /\ size' = [size EXCEPT ![r] = n]
    /\ stage' = [stage EXCEPT ![r] = s]
    /\ UNCHANGED stopped

\* The user entity read by findOneByEmail or findOneByUserId.
ReadUser(r) == copy' = [copy EXCEPT ![r] = user] /\ UNCHANGED dirty

\* The SMS sends read the user first and keep that entity to the end.
ReceiveSms(r) ==
    /\ \/ \E n \in Sizes : Start(r, "smsDefault", n, "check")
       \/ \E n \in AbSizes : Start(r, "smsAb", n, "check")
    /\ ReadUser(r)
    /\ part' = [part EXCEPT ![r] = IF kind'[r] = "smsAb" THEN "A" ELSE "Default"]
    /\ UNCHANGED <<user, accepted, groups, messages, grouped, contents, payments, orders>>

\* The KakaoTalk sends only keep the userId.
ReceiveBiz(r) ==
    /\ \E n \in Sizes, k \in {"bizDefault", "bizAb"} : Start(r, k, n, "check")
    /\ part' = [part EXCEPT ![r] = IF kind'[r] = "bizAb" THEN "A" ELSE "Default"]
    /\ UNCHANGED <<user, entity, accepted, groups, messages, grouped, contents, payments, orders>>

\* completePayment, once the payment provider has answered.
ReceiveTopUp(r) ==
    /\ \E a \in TopUps : Start(r, "topUp", a, "credit")
    /\ ReadUser(r)
    /\ UNCHANGED <<user, sending, payments, orders>>

\* Login, logout and updateHostnumber: read the user, save it with another
\* column changed.
ReceiveProfile(r) ==
    /\ Start(r, "profile", 0, "profile")
    /\ ReadUser(r)
    /\ UNCHANGED <<user, sending, payments, orders>>

-----------------------------------------------------------------------------
(* The steps of a send.                                                    *)

\* assertCheckUserMoney reads the user again and throws when it is short.
Check(r) ==
    /\ At(r, "check")
    /\ IF user.point + user.money < CheckedAmount(r)
       THEN Goto(r, "rejected")
       ELSE Goto(r, IF kind[r] = "smsAb" THEN "group" ELSE "post")
    /\ UNCHANGED <<user, entity, sending, payments, orders>>

\* createMessageGroup, createBizmessageGroup.  It comes before the first
\* request to NCP in an SMS A/B send, inside the transaction of
\* saveMessageInfo (but on a connection of its own) in a default SMS send,
\* and after the first part is out in the KakaoTalk sends.
CreateGroup(r) ==
    /\ At(r, "group")
    /\ groups' = groups \cup {r}
    /\ Goto(r, CASE kind[r] = "smsAb" -> "post"
                 [] kind[r] = "smsDefault" -> "txCommit"
                 [] OTHER -> "message")
    /\ UNCHANGED <<user, entity, part, accepted, messages, grouped, contents, payments, orders>>

AfterPost(r) == IF ~Sms(r) /\ r \notin groups THEN "group" ELSE "message"

\* Variant: the loop returns after its first pass.
PostFirstChunk(r) ==
    LET p == part[r]
        left == PartCount(r, p) - accepted[r][p]
        chunk == IF Sms(r) THEN SmsChunk ELSE BizChunk
    IN  /\ At(r, "post")
        /\ left > 0
        /\ accepted' = [accepted EXCEPT ![r][p] = @ + IF left < chunk THEN left ELSE chunk]
        /\ Goto(r, AfterPost(r))
        /\ UNCHANGED <<user, entity, part, groups, messages, grouped, contents, payments, orders>>

\* One pass of the chunk loop: NCP accepts the next chunk.
PostChunk(r) ==
    LET p == part[r]
        left == PartCount(r, p) - accepted[r][p]
        chunk == IF Sms(r) THEN SmsChunk ELSE BizChunk
    IN  /\ At(r, "post")
        /\ left > 0
        /\ accepted' = [accepted EXCEPT ![r][p] = @ + IF left < chunk THEN left ELSE chunk]
        /\ Goto(r, IF left <= chunk THEN AfterPost(r) ELSE "post")
        /\ UNCHANGED <<user, entity, part, groups, messages, grouped, contents, payments, orders>>

\* A part without receivers makes no pass.  takeBody is then undefined and
\* using it throws, except for part B of a KakaoTalk send, which still has
\* the body of part A.
PostNothing(r) ==
    /\ At(r, "post")
    /\ PartCount(r, part[r]) = 0
    /\ IF part[r] = "B" /\ ~Sms(r)
       THEN Goto(r, "message")
       ELSE stopped' = stopped \cup {r} /\ UNCHANGED <<kind, size, stage>>
    /\ UNCHANGED <<user, entity, sending, payments, orders>>

\* Variant: the row of the remainder is saved without the group.
InsertMessageUngrouped(r) ==
    /\ At(r, "message")
    /\ messages' = messages \cup {<<r, part[r]>>}
    /\ grouped' = IF part[r] \in {"Default", "N"} THEN grouped ELSE grouped \cup {<<r, part[r]>>}
    /\ Goto(r, CASE kind[r] = "smsDefault" -> "txUser"
                 [] part[r] = "N" -> IF Sms(r) THEN "deduct" ELSE "reread"
                 [] OTHER -> "content")
    /\ UNCHANGED <<user, entity, part, accepted, groups, contents, payments, orders>>

\* The message row.  Only the default SMS send saves it before it has a group.
InsertMessage(r) ==
    /\ At(r, "message")
    /\ messages' = messages \cup {<<r, part[r]>>}
    /\ grouped' = IF kind[r] = "smsDefault" THEN grouped ELSE grouped \cup {<<r, part[r]>>}
    /\ Goto(r, CASE kind[r] = "smsDefault" -> "txUser"
                 [] part[r] = "N" -> IF Sms(r) THEN "deduct" ELSE "reread"
                 [] OTHER -> "content")
    /\ UNCHANGED <<user, entity, part, accepted, groups, contents, payments, orders>>

\* The content row of a part; then the next part.
InsertContent(r) ==
    /\ At(r, "content")
    /\ contents' = contents \cup {<<r, part[r]>>}
    /\ part' = [part EXCEPT ![r] = CASE part[r] = "A" -> "B"
                                     [] part[r] = "B" -> "N"
                                     [] OTHER -> part[r]]
    /\ Goto(r, CASE part[r] = "A" -> "post"
                 [] part[r] = "B" -> "message"
                 [] OTHER -> "reread")
    /\ UNCHANGED <<user, entity, accepted, groups, messages, grouped, payments, orders>>

\* The transaction of saveMessageInfo: save(user) with the entity read at the
\* start, the message and its content with the group; visible at the commit.
BeginTx(r) ==
    /\ At(r, "txUser")
    /\ dirty' = [dirty EXCEPT ![r] = DirtyColumns(copy[r])]
    /\ Goto(r, "group")
    /\ UNCHANGED <<user, copy, sending, payments, orders>>

CommitTx(r) ==
    /\ At(r, "txCommit")
    /\ user' = Overwritten(r)
    /\ grouped' = grouped \cup {<<r, part[r]>>}
    /\ contents' = contents \cup {<<r, part[r]>>}
    /\ Goto(r, "deduct")
    /\ UNCHANGED <<entity, part, accepted, groups, messages, payments, orders>>

\* KakaoTalk's deductedUserMoney reads the user again.
Reread(r) ==
    /\ At(r, "reread")
    /\ ReadUser(r)
    /\ Goto(r, "deduct")
    /\ UNCHANGED <<user, sending, payments, orders>>

\* Take the cost off the entity and start saving it.
Deduct(r) ==
    /\ At(r, "deduct")
    /\ copy' = [copy EXCEPT ![r] = Deducted(copy[r], Cost(r))]
    /\ dirty' = [dirty EXCEPT ![r] = DirtyColumns(copy'[r])]
    /\ Goto(r, "debit")
    /\ UNCHANGED <<user, sending, payments, orders>>

\* The UsedPayments row of the send.
Pay(r) ==
    /\ At(r, "pay")
    /\ payments' = payments \cup {UsedPayment(r)}
    /\ Goto(r, "done")
    /\ UNCHANGED <<user, entity, sending, orders>>

-----------------------------------------------------------------------------
(* The other writers of the row.                                           *)

\* user.money += amount, and the SELECT of the save.
Credit(r) ==
    /\ At(r, "credit")
    /\ copy' = [copy EXCEPT ![r].money = @ + size[r]]
    /\ dirty' = [dirty EXCEPT ![r] = DirtyColumns(copy'[r])]
    /\ Goto(r, "creditSave")
    /\ UNCHANGED <<user, sending, payments, orders>>

SaveOrder(r) ==
    /\ At(r, "order")
    /\ orders' = orders \cup {r}
    /\ Goto(r, "done")
    /\ UNCHANGED <<user, entity, sending, payments>>

SaveProfile(r) ==
    /\ At(r, "profile")
    /\ dirty' = [dirty EXCEPT ![r] = DirtyColumns(copy[r])]
    /\ Goto(r, "profileSave")
    /\ UNCHANGED <<user, copy, sending, payments, orders>>

\* The UPDATE of save(user), for every handler that ends in one.
UpdateUser(r) ==
    /\ \/ At(r, "debit") /\ Goto(r, "pay")
       \/ At(r, "creditSave") /\ Goto(r, "order")
       \/ At(r, "profileSave") /\ Goto(r, "done")
    /\ user' = Overwritten(r)
    /\ UNCHANGED <<entity, sending, payments, orders>>

\* The awaited call rejects (NCP, the short-link service, the database, the
\* payment provider) or the process dies.  No handler undoes anything:
\* completePayment's catch calls cancelPayment, which only changes the user
\* entity it read, and saves nothing.
Stop(r) ==
    /\ InFlight(r)
    /\ stopped' = stopped \cup {r}
    /\ UNCHANGED <<kind, size, stage>>
    /\ UNCHANGED <<user, entity, sending, payments, orders>>

-----------------------------------------------------------------------------

Next == \E r \in Requests :
    \/ ReceiveSms(r) \/ ReceiveBiz(r) \/ ReceiveTopUp(r) \/ ReceiveProfile(r)
    \/ Check(r) \/ CreateGroup(r) \/ PostChunk(r) \/ PostNothing(r)
    \/ InsertMessage(r) \/ InsertContent(r) \/ BeginTx(r) \/ CommitTx(r)
    \/ Reread(r) \/ Deduct(r) \/ Pay(r)
    \/ Credit(r) \/ SaveOrder(r) \/ SaveProfile(r) \/ UpdateUser(r)
    \/ Stop(r)

Spec == Init /\ [][Next]_vars

-----------------------------------------------------------------------------
(* Properties.                                                             *)

TypeOK ==
    /\ user \in [point : Int, money : Int]
    /\ kind \in [Requests -> Kinds]
    /\ size \in [Requests -> Nat]
    /\ stage \in [Requests -> Stages]
    /\ stopped \subseteq Requests
    /\ copy \in [Requests -> [point : Int, money : Int]]
    /\ dirty \in [Requests -> SUBSET {"point", "money"}]
    /\ part \in [Requests -> Parts]
    /\ accepted \in [Requests -> [Parts -> Nat]]
    /\ groups \subseteq Requests
    /\ messages \subseteq Requests \X Parts
    /\ grouped \subseteq Requests \X Parts
    /\ contents \subseteq Requests \X Parts
    /\ payments \subseteq [req : Requests, usedPoint : Nat, usedMoney : Nat,
                           remainPoint : Int, remainMoney : Int]
    /\ orders \subseteq Requests

(***************************************************************************)
(* However the requests of a user interleave, and wherever they stop, the  *)
(* point column never goes below zero: the race of two deductions can only *)
(* show in the money column.  (deductedUserMoney, both services.)          *)
(***************************************************************************)
PointNeverNegative == user.point >= 0

(***************************************************************************)
(* A user is charged only after NCP has accepted every chunk of what was   *)
(* to be sent at once: a refused or half-accepted send leaves no           *)
(* UsedPayments row.                                                       *)
(***************************************************************************)
ChargedOnlyWhenAccepted ==
    \A pay \in payments :
        LET r == pay.req IN
        \A p \in (IF Ab(r) THEN {"A", "B"} ELSE {"Default"}) :
            accepted[r][p] = PartCount(r, p)

(***************************************************************************)
(* What a UsedPayments row charges is the price times the receivers of the *)
(* message rows of its group, the remainder of an A/B test included: the   *)
(* refund job for SMS, which goes message by message, can never find more  *)
(* receivers than were paid for.                                           *)
(***************************************************************************)
StoredCount(r, p) == IF <<r, p>> \in messages THEN PartCount(r, p) ELSE 0

ChargeMatchesMessages ==
    \A pay \in payments :
        LET r == pay.req IN
        pay.usedPoint + pay.usedMoney
            = Price * (  StoredCount(r, "Default") + StoredCount(r, "A")
                       + StoredCount(r, "B") + StoredCount(r, "N"))

(***************************************************************************)
(* Every message of a paid send carries its group, and the group has a     *)
(* content row: the payment history (paymentResult) reads the content by   *)
(* the group of the payment, and, of an SMS, the refund job finds the      *)
(* payment by the group of the message (KakaoTalk has no such job).        *)
(***************************************************************************)
PaidSendsAreGrouped ==
    \A pay \in payments :
        /\ \A m \in messages : m[1] = pay.req => m \in grouped
        /\ \E m \in contents : m[1] = pay.req

(***************************************************************************)
(* Races lose charges and lose payments, but they create no money: however *)
(* stale the copies the handlers write back, the columns never exceed what *)
(* the account opened with and the payments whose credit was computed.     *)
(***************************************************************************)
PaidIn == {r \in Requests : kind[r] = "topUp" /\ stage[r] \in {"creditSave", "order", "done"}}

\* What those payments brought, one element per unit of money.
UnitsPaidIn == UNION {{r} \X (1..size[r]) : r \in PaidIn}

NoMoneyFromNowhere ==
    \E opening \in Openings :
        /\ user.point <= opening.point
        /\ user.money <= opening.money + Cardinality(UnitsPaidIn)

(***************************************************************************)
(* assertCheckUserMoney keeps the account from being overdrawn.            *)
(***************************************************************************)
NeverOverdrawn == user.point + user.money >= 0

(***************************************************************************)
(* A send is refused for lack of money only if the user cannot pay it.     *)
(***************************************************************************)
RefusedOnlyWhenShort ==
    [][\A r \in Requests :
          stage[r] = "check" /\ stage'[r] = "rejected"
              => user.point + user.money < Cost(r)]_vars

(***************************************************************************)
(* The account as the ledger sees it: a send posts its cost when its       *)
(* deduction reaches the row, a payment its amount.  A request that stops  *)
(* later has posted nevertheless.                                          *)
(***************************************************************************)
Posted(r) ==
    \/ kind[r] \in SendKinds /\ stage[r] \in {"pay", "done"}
    \/ kind[r] = "topUp" /\ stage[r] \in {"order", "done"}

Amount(r) == IF kind[r] = "topUp" THEN size[r] ELSE 0 - Cost(r)

Account == INSTANCE Ledger WITH
    Amounts <- TopUps \cup {0 - n * Price : n \in Sizes \cup AbSizes},
    OpeningBalances <- {u.point + u.money : u \in Openings},
    balance <- user.point + user.money,
    postings <- {[req |-> r, amount |-> Amount(r)] : r \in {q \in Requests : Posted(q)}}

(***************************************************************************)
(* When the requests of a user do not overlap, the balance is a ledger:    *)
(* every send and every payment is posted once and in full, nothing else   *)
(* moves the balance, and no send overdraws it, wherever requests stop.    *)
(***************************************************************************)
ImplementsLedger == Account!Spec
=============================================================================
