----------------------------- MODULE Requests_proofs -----------------------------
(***************************************************************************)
(* The rows that requests of users share.  The connection pool, for any    *)
(* connections and any sends.  Payments, for any orders, any amounts and   *)
(* any overlapping requests.  The numbers of an account, for users whose   *)
(* requests do not overlap.  Phonebooks: every member of one is a contact  *)
(* of its owner, however requests overlap and wherever they stop; and for  *)
(* a user whose requests do not overlap, one contact per number, and no    *)
(* member or deleted phonebook lost or brought back.                       *)
(***************************************************************************)
EXTENDS Payments, ConnPool, Accounts, Phonebook, FiniteSetTheorems, SequenceTheorems, TLAPS

-----------------------------------------------------------------------------
(* How many connections one holds, by where it is.                         *)

PoolStages == {"idle", "waiting", "begun", "grouping", "grouped", "ending"}

PoolTypes ==
    /\ holder \in [PoolConns -> PoolUsers \cup {PoolNone}]
    /\ poolAt \in [PoolUsers -> PoolStages]

HoldsNone(p) == \A c \in PoolConns : holder[c] # p

HoldsOne(p) == \A c, d \in PoolConns : holder[c] = p /\ holder[d] = p => c = d

HoldsTwo(p) == \A c, d, e \in PoolConns :
    holder[c] = p /\ holder[d] = p /\ holder[e] = p => c = d \/ c = e \/ d = e

Holds(p) ==
    /\ poolAt[p] \in {"idle", "waiting"} => HoldsNone(p)
    /\ poolAt[p] \in {"begun", "grouping", "ending"} => HoldsOne(p)
    /\ poolAt[p] = "grouped" => HoldsTwo(p)
    /\ poolAt[p] = "grouping" => p \in PoolSends

PoolInv == PoolTypes /\ \A p \in PoolUsers : Holds(p)

LEMMA NobodyIsNone == PoolNone \notin PoolUsers
  BY PoolAssumption DEF PoolUsers

LEMMA PoolStart == ConnPoolInit => PoolInv
<1> SUFFICES ASSUME ConnPoolInit PROVE PoolInv
  OBVIOUS
<1>1. PoolTypes
  BY DEF ConnPoolInit, PoolTypes, PoolStages
<1>2. ASSUME NEW p \in PoolUsers PROVE Holds(p)
  BY NobodyIsNone DEF ConnPoolInit, Holds, HoldsNone
<1>3. QED
  BY <1>1, <1>2 DEF PoolInv

\* A step of p changes where p is, and the connections of no other.
LEMMA PoolStepKeeps ==
    ASSUME PoolInv, NEW p \in PoolUsers, NEW from, NEW to \in PoolStages, PoolMove(p, from, to),
           holder' \in [PoolConns -> PoolUsers \cup {PoolNone}],
           \A c \in PoolConns : holder'[c] = holder[c] \/ {holder[c], holder'[c]} \subseteq {p, PoolNone},
           Holds(p)'
    PROVE  PoolInv'
<1>1. poolAt' \in [PoolUsers -> PoolStages] /\ \A x \in PoolUsers \ {p} : poolAt'[x] = poolAt[x]
  BY DEF PoolInv, PoolTypes, PoolMove
<1>2. ASSUME NEW x \in PoolUsers, x # p PROVE Holds(x)'
  <2>1. x # PoolNone
    BY NobodyIsNone
  <2>2. \A c \in PoolConns : holder'[c] = x <=> holder[c] = x
    BY <1>2, <2>1
  <2>3. Holds(x) /\ poolAt'[x] = poolAt[x]
    BY <1>1, <1>2 DEF PoolInv
  <2>4. /\ HoldsNone(x) => HoldsNone(x)'
        /\ HoldsOne(x) => HoldsOne(x)'
        /\ HoldsTwo(x) => HoldsTwo(x)'
    BY <2>2 DEF HoldsNone, HoldsOne, HoldsTwo
  <2>5. QED
    BY <2>3, <2>4 DEF Holds
<1>3. QED
  BY <1>1, <1>2 DEF PoolInv, PoolTypes

\* p gets a connection that was free.
LEMMA AcquireHolds ==
    ASSUME PoolInv, NEW p \in PoolUsers, Acquire(p)
    PROVE  /\ holder' \in [PoolConns -> PoolUsers \cup {PoolNone}]
           /\ \A c \in PoolConns :
                holder'[c] = holder[c] \/ {holder[c], holder'[c]} \subseteq {p, PoolNone}
           /\ HoldsNone(p) => HoldsOne(p)'
           /\ HoldsOne(p) => HoldsTwo(p)'
<1>1. PICK c \in Free : holder' = [holder EXCEPT ![c] = p]
  BY DEF Acquire
<1>2. c \in PoolConns /\ holder[c] = PoolNone /\ holder \in [PoolConns -> PoolUsers \cup {PoolNone}]
  BY DEF Free, PoolInv, PoolTypes
<1>3. \A d \in PoolConns : holder'[d] = IF d = c THEN p ELSE holder[d]
  BY <1>1, <1>2
<1>4. QED
  BY <1>1, <1>2, <1>3 DEF HoldsNone, HoldsOne, HoldsTwo

\* p gives back one of those it holds.
LEMMA ReleaseHolds ==
    ASSUME PoolInv, NEW p \in PoolUsers, Release(p)
    PROVE  /\ holder' \in [PoolConns -> PoolUsers \cup {PoolNone}]
           /\ \A c \in PoolConns :
                holder'[c] = holder[c] \/ {holder[c], holder'[c]} \subseteq {p, PoolNone}
           /\ HoldsOne(p) => HoldsNone(p)'
           /\ HoldsTwo(p) => HoldsOne(p)'
<1>1. PICK c \in PoolConns : holder[c] = p /\ holder' = [holder EXCEPT ![c] = PoolNone]
  BY DEF Release
<1>2. holder \in [PoolConns -> PoolUsers \cup {PoolNone}] /\ p # PoolNone
  BY NobodyIsNone DEF PoolInv, PoolTypes
<1>3. \A d \in PoolConns : holder'[d] = IF d = c THEN PoolNone ELSE holder[d]
  BY <1>1, <1>2
<1>4. QED
  BY <1>1, <1>2, <1>3 DEF HoldsNone, HoldsOne, HoldsTwo

LEMMA PoolStep == PoolInv /\ [ConnPoolNext]_poolVars => PoolInv'
<1> SUFFICES ASSUME PoolInv, [ConnPoolNext]_poolVars PROVE PoolInv'
  OBVIOUS
<1>1. CASE UNCHANGED poolVars
  BY <1>1 DEF PoolInv, PoolTypes, Holds, HoldsNone, HoldsOne, HoldsTwo, poolVars
<1>2. ASSUME NEW p \in PoolUsers,
             Ask(p) \/ Begin(p) \/ AskForGroup(p) \/ SaveGroup(p) \/ GroupSaved(p) \/ End(p)
      PROVE  PoolInv'
  <2>1. /\ Holds(p)
        /\ holder \in [PoolConns -> PoolUsers \cup {PoolNone}]
        /\ poolAt \in [PoolUsers -> PoolStages]
    BY DEF PoolInv, PoolTypes
  <2>2. CASE Ask(p)
    <3>1. Holds(p)'
      BY <2>1, <2>2 DEF Ask, PoolMove, Holds, HoldsNone
    <3>2. QED
      BY <2>1, <2>2, <3>1, PoolStepKeeps DEF Ask, PoolStages
  <2>3. CASE Begin(p)
    <3>1. Holds(p)'
      BY <2>1, <2>3, AcquireHolds DEF Begin, PoolMove, Holds
    <3>2. QED
      BY <2>3, <3>1, AcquireHolds, PoolStepKeeps DEF Begin, PoolStages
  <2>4. CASE AskForGroup(p)
    <3>1. Holds(p)'
      BY <2>1, <2>4 DEF AskForGroup, PoolMove, Holds, HoldsOne
    <3>2. QED
      BY <2>1, <2>4, <3>1, PoolStepKeeps DEF AskForGroup, PoolStages
  <2>5. CASE SaveGroup(p)
    <3>1. Holds(p)'
      BY <2>1, <2>5, AcquireHolds DEF SaveGroup, PoolMove, Holds
    <3>2. QED
      BY <2>5, <3>1, AcquireHolds, PoolStepKeeps DEF SaveGroup, PoolStages
  <2>6. CASE GroupSaved(p)
    <3>1. Holds(p)'
      BY <2>1, <2>6, ReleaseHolds DEF GroupSaved, PoolMove, Holds
    <3>2. QED
      BY <2>6, <3>1, ReleaseHolds, PoolStepKeeps DEF GroupSaved, PoolStages
  <2>7. CASE End(p)
    <3>1. Holds(p)'
      BY <2>1, <2>7, ReleaseHolds DEF End, PoolMove, Holds
    <3>2. QED
      BY <2>7, <3>1, ReleaseHolds, PoolStepKeeps DEF End, PoolStages
  <2>8. QED
    BY <1>2, <2>2, <2>3, <2>4, <2>5, <2>6, <2>7
<1>3. QED
  BY <1>1, <1>2 DEF ConnPoolNext

\* Were nothing free and everybody waiting, every connection would be held by a
\* send of its own.
LEMMA AllBySends == PoolInv => StuckOnlyBySends
<1> DEFINE Asking == {p \in PoolSends : poolAt[p] = "grouping"}
<1> SUFFICES ASSUME PoolInv, Free = {}, \A c \in PoolConns : poolAt[holder[c]] = "grouping"
             PROVE  Cardinality(Asking) >= Cardinality(PoolConns)
  BY DEF StuckOnlyBySends, Stuck
<1>1. holder \in [PoolConns -> PoolUsers]
  BY DEF Free, PoolInv, PoolTypes
<1>2. \A c \in PoolConns : holder[c] \in Asking
  BY <1>1 DEF PoolInv, Holds
<1>3. holder \in [PoolConns -> Asking]
  BY <1>1, <1>2
<1>4. IsFiniteSet(Asking)
  BY PoolAssumption, FS_Subset
<1>5. ASSUME NEW c \in PoolConns, NEW d \in PoolConns, c # d, holder[c] = holder[d] PROVE FALSE
  <2>1. HoldsOne(holder[c])
    BY <1>1 DEF PoolInv, Holds
  <2>2. QED
    BY <1>5, <2>1 DEF HoldsOne
<1>6. Cardinality(Asking) \in Nat /\ Cardinality(PoolConns) \in Nat
  BY <1>4, PoolAssumption, FS_CardinalityType
<1> HIDE DEF Asking
<1>7. ~(Cardinality(PoolConns) > Cardinality(Asking))
  BY <1>3, <1>4, <1>5, PoolAssumption, FS_PigeonHole
<1>8. QED
  BY <1>6, <1>7

(***************************************************************************)
(* Everybody waits for everybody only when as many sends are in            *)
(* saveMessageInfo as the pool has connections, for a pool of any size and *)
(* whatever else asks for connections.                                     *)
(***************************************************************************)
THEOREM StuckBySends == ConnPoolSpec => []StuckOnlyBySends
<1>1. QED
  BY PoolStart, PoolStep, AllBySends, PTL DEF ConnPoolSpec

-----------------------------------------------------------------------------
(* Payments: where the requests are, and what is true of their orders.     *)

PayStages == {"idle", "create", "refund", "token", "user", "order", "credit", "complete"}

Completing == {"token", "user", "order", "credit", "complete"}

PayRecords == [at : PayStages, order : PayOrders \cup {"none"}, money : Nat]

CancelRecords == [at : {"idle", "user", "cancel"}, order : PayOrders \cup {"none"}, money : Nat]

PayTypes ==
    /\ money \in Nat
    /\ orders \in [PayOrders -> {"none", "new", "completed"}]
    /\ provider \in [PayOrders -> {"none", "paid", "cancelled"}]
    /\ credits \in [PayOrders -> Nat]
    /\ asked \subseteq PayOrders
    /\ pay \in [PayRequests -> PayRecords]
    /\ cancels \in [PayRequests -> CancelRecords]

\* An order is written down by one request, and before anybody pays it.
CreatedAlone(q) == pay[q].at = "create" =>
    /\ orders[pay[q].order] = "none"
    /\ \A r \in PayRequests : pay[r].order = pay[q].order => r = q

CompleteCredited(q) == pay[q].at = "complete" => credits[pay[q].order] > 0

\* Who is at a stage of an order has one.
PaySlot(q) ==
    /\ pay[q].at \in Completing \cup {"create"} <=> pay[q].order # "none"
    /\ CreatedAlone(q) /\ CompleteCredited(q)

CancelSlot(q) == cancels[q].at = "idle" <=> cancels[q].order = "none"

Unpaid == \A o \in PayOrders :
    /\ orders[o] = "none" => provider[o] = "none"
    /\ o \in asked => provider[o] # "none"

PayInv ==
    /\ PayTypes /\ Unpaid
    /\ \A q \in PayRequests : PaySlot(q) /\ CancelSlot(q)
    /\ CompletedWasCredited /\ PaymentNotKept

LEMMA PayStart == PaymentsInit => PayInv
<1> SUFFICES ASSUME PaymentsInit PROVE PayInv
  OBVIOUS
<1>1. PayTypes /\ Unpaid /\ CompletedWasCredited /\ PaymentNotKept
  BY DEF PaymentsInit, PayIdle, PayTypes, PayRecords, CancelRecords, PayStages, Unpaid,
     CompletedWasCredited, PaymentNotKept
<1>2. ASSUME NEW q \in PayRequests PROVE PaySlot(q) /\ CancelSlot(q)
  BY PayAssumption DEF PaymentsInit, PayIdle, PaySlot, Completing, CreatedAlone,
     CompleteCredited, CancelSlot
<1>3. QED
  BY <1>1, <1>2 DEF PayInv

\* A request goes on to r: what the others know of their orders stays true.
LEMMA SlotsKeep ==
    ASSUME PayInv, NEW q \in PayRequests, NEW STATE r, PayGo(q, r), r \in PayRecords,
           r.at \in Completing \cup {"create"} <=> r.order # "none",
           r.at = "create" => orders'[r.order] = "none" /\ \A x \in PayRequests \ {q} :
                                                             pay[x].order # r.order,
           r.at = "complete" => credits'[r.order] > 0,
           \A o \in PayOrders : credits[o] > 0 => credits'[o] > 0,
           \A x \in PayRequests \ {q} : pay[x].at = "create" =>
               pay[x].order # r.order /\ orders'[pay[x].order] = "none"
    PROVE  /\ \A x \in PayRequests : PaySlot(x)'
           /\ pay' \in [PayRequests -> PayRecords]
           /\ pay'[q] = r /\ \A x \in PayRequests \ {q} : pay'[x] = pay[x]
<1>1. pay \in [PayRequests -> PayRecords]
  BY DEF PayInv, PayTypes
<1>2. /\ pay' \in [PayRequests -> PayRecords]
      /\ pay'[q] = r /\ \A x \in PayRequests \ {q} : pay'[x] = pay[x]
  BY <1>1 DEF PayGo
<1>3. PaySlot(q)'
  BY <1>2 DEF PaySlot, CreatedAlone, CompleteCredited
<1>4. ASSUME NEW x \in PayRequests \ {q} PROVE PaySlot(x)'
  <2>1. PaySlot(x) /\ pay'[x] = pay[x] /\ pay[x] \in PayRecords
    BY <1>1, <1>2 DEF PayInv
  <2>2. pay[x].at \in Completing \cup {"create"} => pay[x].order \in PayOrders
    BY <2>1 DEF PaySlot, PayRecords
  <2>3. CreatedAlone(x)'
    BY <1>2, <2>1 DEF PaySlot, CreatedAlone
  <2>4. CompleteCredited(x)'
    BY <2>1, <2>2 DEF PaySlot, CompleteCredited, Completing
  <2>5. QED
    BY <2>1, <2>3, <2>4 DEF PaySlot
<1>5. QED
  BY <1>2, <1>3, <1>4

\* What slot q leaves for others to answer: the order it had is not asked for,
\* or somebody has it still.
LEMMA StillCovered ==
    ASSUME PayInv, NEW q \in PayRequests,
           \A x \in PayRequests \ {q} : pay'[x].order = pay[x].order,
           \A x \in PayRequests : cancels'[x].order \in {cancels[x].order, pay[q].order}
                                   /\ cancels[x].order \in {cancels'[x].order, "none"},
           pay[q].order \in {pay'[q].order, cancels'[q].order} \/ pay[q].order \notin asked'
              \/ credits'[pay[q].order] > 0,
           \A o \in PayOrders : credits[o] > 0 => credits'[o] > 0,
           \A o \in asked' \ asked : o = pay'[q].order,
           asked' \subseteq PayOrders,
           UNCHANGED <<provider, refused, payDied>>
    PROVE  PaymentNotKept'
<1> SUFFICES ASSUME NEW o \in asked'
             PROVE  \/ credits'[o] > 0 \/ provider[o] = "cancelled" \/ o \in refused \/ payDied
                    \/ \E x \in PayRequests : o \in {pay'[x].order, cancels'[x].order}
  BY DEF PaymentNotKept
<1>1. o \in PayOrders /\ o # "none"
  BY PayAssumption
<1>2. CASE o \notin asked
  BY <1>2
<1>3. CASE o \in asked
  <2>1. \/ credits[o] > 0 \/ provider[o] = "cancelled" \/ o \in refused \/ payDied
        \/ \E x \in PayRequests : o \in {pay[x].order, cancels[x].order}
    BY <1>3 DEF PayInv, PaymentNotKept
  <2>2. ASSUME NEW x \in PayRequests, o = pay[x].order
        PROVE  \/ credits'[o] > 0 \/ \E y \in PayRequests : o \in {pay'[y].order, cancels'[y].order}
    BY <2>2
  <2>3. ASSUME NEW x \in PayRequests, o = cancels[x].order PROVE o = cancels'[x].order
    BY <1>1, <2>3
  <2>4. QED
    BY <1>1, <2>1, <2>2, <2>3
<1>4. QED
  BY <1>2, <1>3

\* A step that only moves q on, or answers it.
LEMMA PayMoveKeeps ==
    ASSUME PayInv, NEW q \in PayRequests, NEW STATE r, PayGo(q, r), r \in PayRecords,
           r.at \in Completing \cup {"create"} <=> r.order # "none",
           r.at = "create" => orders[r.order] = "none" /\ \A x \in PayRequests \ {q} :
                                                            pay[x].order # r.order,
           r.at # "complete",
           r.order \in {pay[q].order, "none"} \/ r.at = "create",
           pay[q].order = r.order \/ pay[q].order \notin asked,
           UNCHANGED <<money, orders, provider, cancels, credits, asked, refused, payDied>>
    PROVE  PayInv'
<1>1. ASSUME NEW x \in PayRequests \ {q}, pay[x].at = "create"
      PROVE  pay[x].order # r.order /\ orders[pay[x].order] = "none"
  <2>1. PaySlot(x) /\ pay[x].order # "none"
    BY <1>1 DEF PayInv, PaySlot
  <2>2. pay[x].order # pay[q].order
    BY <1>1, <2>1 DEF PaySlot, CreatedAlone
  <2>3. QED
    BY <1>1, <2>1, <2>2 DEF PaySlot, CreatedAlone
<1>2. /\ \A x \in PayRequests : PaySlot(x)'
      /\ pay' \in [PayRequests -> PayRecords]
      /\ pay'[q] = r /\ \A x \in PayRequests \ {q} : pay'[x] = pay[x]
  BY <1>1, SlotsKeep
<1>3. PaymentNotKept'
  BY <1>2, StillCovered, PayAssumption DEF PayInv, PayTypes
<1>4. PayTypes' /\ Unpaid' /\ CompletedWasCredited' /\ \A x \in PayRequests : CancelSlot(x)'
  BY <1>2 DEF PayInv, PayTypes, Unpaid, CompletedWasCredited, CancelSlot
<1>5. QED
  BY <1>2, <1>3, <1>4 DEF PayInv

\* The order of a request is one of those there are, and one that is being
\* written down was not asked for.
LEMMA SlotOf ==
    ASSUME PayInv, NEW q \in PayRequests
    PROVE  /\ PaySlot(q) /\ CancelSlot(q) /\ pay[q] \in PayRecords /\ cancels[q] \in CancelRecords
           /\ pay[q].order # "none" => pay[q].order \in PayOrders
           /\ pay[q].at \in {"idle", "refund"} => pay[q].order = "none"
           /\ pay[q].at \in {"idle", "refund", "create"} => pay[q].order \notin asked
           /\ "none" \notin asked
<1>1. /\ PaySlot(q) /\ CancelSlot(q) /\ pay[q] \in PayRecords /\ cancels[q] \in CancelRecords
      /\ "none" \notin asked
  BY PayAssumption DEF PayInv, PayTypes
<1>2. pay[q].at \in {"idle", "refund"} => pay[q].order = "none"
  BY <1>1 DEF PaySlot, Completing
<1>3. pay[q].order # "none" => pay[q].order \in PayOrders
  BY <1>1 DEF PayRecords
<1>4. pay[q].at = "create" => pay[q].order \notin asked
  BY <1>1, <1>3 DEF PaySlot, CreatedAlone, PayInv, Unpaid
<1>5. QED
  BY <1>1, <1>2, <1>3, <1>4

LEMMA IdleIsRecord == PayIdle \in PayRecords
  BY DEF PayIdle, PayRecords, PayStages

LEMMA AnswerKeeps ==
    ASSUME PayInv, NEW q \in PayRequests, PayAnswered(q), pay[q].order \notin asked,
           UNCHANGED <<money, orders, provider, cancels, credits, asked, refused, payDied>>
    PROVE  PayInv'
  BY IdleIsRecord, PayMoveKeeps DEF PayAnswered, PayIdle, Completing

LEMMA CreateMoves ==
    ASSUME PayInv, NEW q \in PayRequests, NEW o \in PayOrders, CreatePayment(q, o)
    PROVE  PayInv'
<1> DEFINE r == [PayIdle EXCEPT !.at = "create", !.order = o]
<1>1. pay[q].order \notin asked
  BY SlotOf DEF CreatePayment, PayAt
<1>2. CASE PayAnswered(q)
  BY <1>1, <1>2, AnswerKeeps DEF CreatePayment
<1>3. CASE PayGo(q, r)
  <2>1. r \in PayRecords /\ r.at = "create" /\ r.order = o /\ o # "none"
    BY PayAssumption DEF PayIdle, PayRecords, PayStages
  <2> HIDE DEF r
  <2>2. QED
    BY <1>1, <1>3, <2>1, PayMoveKeeps DEF CreatePayment
<1>4. QED
  BY <1>2, <1>3 DEF CreatePayment

LEMMA RefundMoves ==
    ASSUME PayInv, NEW q \in PayRequests, RefundPayment(q) \/ SaveRefund(q) \/ PayReject(q)
    PROVE  PayInv'
<1> DEFINE r == [PayIdle EXCEPT !.at = "refund"]
<1>1. pay[q].order \notin asked
  BY SlotOf DEF RefundPayment, SaveRefund, PayReject, PayAt
<1>2. CASE PayAnswered(q)
  BY <1>1, <1>2, AnswerKeeps DEF RefundPayment, SaveRefund, PayReject
<1>3. CASE RefundPayment(q) /\ PayGo(q, r)
  <2>1. r \in PayRecords /\ r.at = "refund" /\ r.order = "none"
    BY DEF PayIdle, PayRecords, PayStages
  <2> HIDE DEF r
  <2>2. QED
    BY <1>1, <1>3, <2>1, PayMoveKeeps DEF RefundPayment, Completing
<1>4. QED
  BY <1>2, <1>3 DEF RefundPayment, SaveRefund, PayReject

LEMMA CompletionMoves ==
    ASSUME PayInv, NEW q \in PayRequests, AskProvider(q) \/ ReadPayer(q) \/ ReadOrder(q)
    PROVE  PayInv'
<1>1. pay[q] \in PayRecords /\ PaySlot(q) /\ money \in Nat
  BY SlotOf DEF PayInv, PayTypes
<1>2. pay[q].at \in Completing /\ pay[q].order # "none"
  BY <1>1 DEF AskProvider, ReadPayer, ReadOrder, PayAt, PaySlot, Completing
<1>3. PICK at \in {"user", "order", "credit"}, n \in Nat :
        PayGo(q, [pay[q] EXCEPT !.at = at, !.money = n])
  <2>1. CASE AskProvider(q)
    <3>1. [pay[q] EXCEPT !.at = "user"] = [pay[q] EXCEPT !.at = "user", !.money = pay[q].money]
      BY <1>1 DEF PayRecords
    <3>2. QED
      BY <1>1, <2>1, <3>1 DEF AskProvider, PayRecords
  <2>2. CASE ReadPayer(q)
    BY <1>1, <2>2 DEF ReadPayer
  <2>3. CASE ReadOrder(q)
    <3>1. pay[q].money + 1 \in Nat
      BY <1>1 DEF PayRecords
    <3>2. QED
      BY <2>3, <3>1 DEF ReadOrder
  <2>4. QED
    BY <2>1, <2>2, <2>3
<1> DEFINE r == [pay[q] EXCEPT !.at = at, !.money = n]
<1>4. r \in PayRecords /\ r.at = at /\ r.order = pay[q].order
  BY <1>1 DEF PayRecords, PayStages
<1> HIDE DEF r
<1>5. PayGo(q, r)
  BY <1>3 DEF r
<1>6. UNCHANGED <<money, orders, provider, cancels, credits, asked, refused, payDied>>
  BY DEF AskProvider, ReadPayer, ReadOrder
<1>7. QED
  BY <1>2, <1>4, <1>5, <1>6, PayMoveKeeps DEF Completing

\* Nobody else writes down the order of q.
LEMMA OthersCreate ==
    ASSUME PayInv, NEW q \in PayRequests, NEW x \in PayRequests \ {q}, pay[x].at = "create"
    PROVE  /\ pay[x].order # pay[q].order /\ pay[x].order # "none"
           /\ pay[x].order \in PayOrders /\ orders[pay[x].order] = "none"
  BY SlotOf DEF PaySlot, CreatedAlone, PayInv

LEMMA SaveKeepsPayments == ASSUME PayInv, NEW q \in PayRequests, SavePayment(q) PROVE PayInv'
<1> DEFINE o == pay[q].order
<1>1. o \in PayOrders /\ o \notin asked /\ pay[q].at = "create"
  BY SlotOf DEF SavePayment, PayAt, PaySlot
<1>2. /\ PayGo(q, PayIdle) /\ orders' = [orders EXCEPT ![o] = "new"]
      /\ UNCHANGED <<money, provider, cancels, credits, asked, refused, payDied>>
  BY DEF SavePayment, PayAnswered
<1>3. /\ orders' \in [PayOrders -> {"none", "new", "completed"}]
      /\ \A x \in PayOrders : orders'[x] = IF x = o THEN "new" ELSE orders[x]
  BY <1>1, <1>2 DEF PayInv, PayTypes
<1>4. ASSUME NEW x \in PayRequests \ {q}, pay[x].at = "create"
      PROVE  pay[x].order # "none" /\ orders'[pay[x].order] = "none"
  BY <1>3, <1>4, OthersCreate
<1>5. /\ \A x \in PayRequests : PaySlot(x)'
      /\ pay' \in [PayRequests -> PayRecords]
      /\ pay'[q] = PayIdle /\ \A x \in PayRequests \ {q} : pay'[x] = pay[x]
  BY <1>2, <1>4, IdleIsRecord, SlotsKeep DEF PayIdle, Completing
<1>6. PaymentNotKept'
  BY <1>1, <1>2, <1>5, StillCovered DEF PayInv, PayTypes
<1>7. PayTypes' /\ Unpaid' /\ CompletedWasCredited' /\ \A x \in PayRequests : CancelSlot(x)'
  BY <1>2, <1>3, <1>5 DEF PayInv, PayTypes, Unpaid, CompletedWasCredited, CancelSlot
<1>8. QED
  BY <1>5, <1>6, <1>7 DEF PayInv

LEMMA AskKeeps ==
    ASSUME PayInv, NEW q \in PayRequests, NEW o \in PayOrders, CompletePayment(q, o)
    PROVE  PayInv'
<1> DEFINE r == [PayIdle EXCEPT !.at = "token", !.order = o]
<1>1. pay[q].order = "none" /\ "none" \notin asked /\ o # "none"
  BY SlotOf, PayAssumption DEF CompletePayment, PayAt
<1>2. /\ PayGo(q, r) /\ provider[o] # "none" /\ asked' = asked \cup {o}
      /\ UNCHANGED <<money, orders, provider, cancels, credits, refused, payDied>>
  BY DEF CompletePayment
<1>3. r \in PayRecords /\ r.at = "token" /\ r.order = o
  BY DEF PayIdle, PayRecords, PayStages
<1> HIDE DEF r
<1>4. ASSUME NEW x \in PayRequests \ {q}, pay[x].at = "create"
      PROVE  pay[x].order # o /\ orders'[pay[x].order] = "none"
  BY <1>2, <1>4, OthersCreate DEF PayInv, Unpaid
<1>5. /\ \A x \in PayRequests : PaySlot(x)'
      /\ pay' \in [PayRequests -> PayRecords]
      /\ pay'[q] = r /\ \A x \in PayRequests \ {q} : pay'[x] = pay[x]
  BY <1>1, <1>2, <1>3, <1>4, SlotsKeep DEF Completing
<1>6. PaymentNotKept'
  BY <1>1, <1>2, <1>3, <1>5, StillCovered DEF PayInv, PayTypes
<1>7. PayTypes' /\ Unpaid' /\ CompletedWasCredited' /\ \A x \in PayRequests : CancelSlot(x)'
  BY <1>2, <1>5 DEF PayInv, PayTypes, Unpaid, CompletedWasCredited, CancelSlot
<1>8. QED
  BY <1>5, <1>6, <1>7 DEF PayInv

LEMMA CreditKeeps == ASSUME PayInv, NEW q \in PayRequests, CreditUser(q) PROVE PayInv'
<1> DEFINE o == pay[q].order
           r == [pay[q] EXCEPT !.at = "complete"]
<1>1. o \in PayOrders /\ o # "none" /\ pay[q] \in PayRecords
  BY SlotOf DEF CreditUser, PayAt, PaySlot, Completing
<1>2. /\ PayGo(q, r) /\ credits' = [credits EXCEPT ![o] = @ + 1] /\ money' = pay[q].money
      /\ UNCHANGED <<orders, provider, cancels, asked, refused, payDied>>
  BY DEF CreditUser
<1>3. r \in PayRecords /\ r.at = "complete" /\ r.order = o
  BY <1>1 DEF PayRecords, PayStages
<1>4. /\ credits' \in [PayOrders -> Nat]
      /\ credits'[o] > 0 /\ \A x \in PayOrders : credits[x] > 0 => credits'[x] > 0
  BY <1>1, <1>2 DEF PayInv, PayTypes
<1> HIDE DEF r
<1>5. /\ \A x \in PayRequests : PaySlot(x)'
      /\ pay' \in [PayRequests -> PayRecords]
      /\ pay'[q] = r /\ \A x \in PayRequests \ {q} : pay'[x] = pay[x]
  BY <1>1, <1>2, <1>3, <1>4, OthersCreate, SlotsKeep DEF Completing
<1>6. PaymentNotKept'
  BY <1>2, <1>3, <1>4, <1>5, StillCovered DEF PayInv, PayTypes
<1>7. money' \in Nat
  BY <1>1, <1>2 DEF PayRecords
<1>8. PayTypes' /\ Unpaid' /\ CompletedWasCredited' /\ \A x \in PayRequests : CancelSlot(x)'
  BY <1>2, <1>4, <1>5, <1>7 DEF PayInv, PayTypes, Unpaid, CompletedWasCredited, CancelSlot
<1>9. QED
  BY <1>5, <1>6, <1>8 DEF PayInv

LEMMA CompleteKeeps == ASSUME PayInv, NEW q \in PayRequests, CompleteOrder(q) PROVE PayInv'
<1> DEFINE o == pay[q].order
<1>1. o \in PayOrders /\ credits[o] > 0
  BY SlotOf DEF CompleteOrder, PayAt, PaySlot, Completing, CompleteCredited
<1>2. /\ PayGo(q, PayIdle) /\ orders' = [orders EXCEPT ![o] = "completed"]
      /\ UNCHANGED <<money, provider, cancels, credits, asked, refused, payDied>>
  BY DEF CompleteOrder, PayAnswered
<1>3. /\ orders' \in [PayOrders -> {"none", "new", "completed"}]
      /\ \A x \in PayOrders : orders'[x] = IF x = o THEN "completed" ELSE orders[x]
  BY <1>1, <1>2 DEF PayInv, PayTypes
<1>4. ASSUME NEW x \in PayRequests \ {q}, pay[x].at = "create"
      PROVE  pay[x].order # "none" /\ orders'[pay[x].order] = "none"
  BY <1>3, <1>4, OthersCreate
<1>5. /\ \A x \in PayRequests : PaySlot(x)'
      /\ pay' \in [PayRequests -> PayRecords]
      /\ pay'[q] = PayIdle /\ \A x \in PayRequests \ {q} : pay'[x] = pay[x]
  BY <1>2, <1>4, IdleIsRecord, SlotsKeep DEF PayIdle, Completing
<1>6. PaymentNotKept'
  BY <1>1, <1>2, <1>5, StillCovered DEF PayInv, PayTypes
<1>7. PayTypes' /\ Unpaid' /\ CompletedWasCredited' /\ \A x \in PayRequests : CancelSlot(x)'
  BY <1>1, <1>2, <1>3, <1>5 DEF PayInv, PayTypes, Unpaid, CompletedWasCredited, CancelSlot
<1>8. QED
  BY <1>5, <1>6, <1>7 DEF PayInv

LEMMA CatchKeeps == ASSUME PayInv, NEW q \in PayRequests, PayCatch(q) PROVE PayInv'
<1> DEFINE o == pay[q].order
           c == [PayIdle EXCEPT !.at = "user", !.order = o]
<1>1. o \in PayOrders /\ o # "none" /\ cancels[q].order = "none"
  BY SlotOf DEF PayCatch, PaySlot, Completing, CancelAt, CancelSlot
<1>2. /\ PayGo(q, PayIdle) /\ cancels' = [cancels EXCEPT ![q] = c]
      /\ UNCHANGED <<money, orders, provider, credits, asked, refused, payDied>>
  BY DEF PayCatch, PayAnswered, StartCancel, CancelGo
<1>3. c \in CancelRecords /\ c.at = "user" /\ c.order = o
  BY <1>1 DEF PayIdle, CancelRecords
<1> HIDE DEF c
<1>4. /\ cancels' \in [PayRequests -> CancelRecords]
      /\ \A x \in PayRequests : cancels'[x] = IF x = q THEN c ELSE cancels[x]
  BY <1>2, <1>3 DEF PayInv, PayTypes
<1>5. /\ \A x \in PayRequests : PaySlot(x)'
      /\ pay' \in [PayRequests -> PayRecords]
      /\ pay'[q] = PayIdle /\ \A x \in PayRequests \ {q} : pay'[x] = pay[x]
  BY <1>2, OthersCreate, IdleIsRecord, SlotsKeep DEF PayIdle, Completing
<1>6. PaymentNotKept'
  BY <1>1, <1>2, <1>3, <1>4, <1>5, StillCovered DEF PayInv, PayTypes
<1>7. \A x \in PayRequests : CancelSlot(x)'
  BY <1>1, <1>3, <1>4 DEF PayInv, CancelSlot
<1>8. PayTypes' /\ Unpaid' /\ CompletedWasCredited'
  BY <1>2, <1>4, <1>5 DEF PayInv, PayTypes, Unpaid, CompletedWasCredited
<1>9. QED
  BY <1>5, <1>6, <1>7, <1>8 DEF PayInv

\* Steps that no request takes leave what the requests know as it was.
LEMMA PaySlotsKept ==
    ASSUME PayInv, UNCHANGED <<pay, orders, credits>>
    PROVE  \A x \in PayRequests : PaySlot(x)'
  BY DEF PayInv, PaySlot, CreatedAlone, CompleteCredited

LEMMA PayAtProviderKeeps == ASSUME PayInv, NEW o \in PayOrders, PayAtProvider(o) PROVE PayInv'
<1>1. /\ orders[o] = "new" /\ provider[o] = "none" /\ provider' = [provider EXCEPT ![o] = "paid"]
      /\ UNCHANGED <<money, orders, pay, cancels, credits, asked, refused, payDied>>
  BY DEF PayAtProvider
<1>2. /\ provider' \in [PayOrders -> {"none", "paid", "cancelled"}]
      /\ \A x \in PayOrders : provider'[x] = IF x = o THEN "paid" ELSE provider[x]
  BY <1>1 DEF PayInv, PayTypes
<1>3. PaymentNotKept'
  BY <1>1, <1>2 DEF PayInv, PayTypes, PaymentNotKept
<1>4. PayTypes' /\ Unpaid' /\ CompletedWasCredited' /\ \A x \in PayRequests : CancelSlot(x)'
  BY <1>1, <1>2 DEF PayInv, PayTypes, Unpaid, CompletedWasCredited, CancelSlot
<1>5. QED
  BY <1>1, <1>3, <1>4, PaySlotsKept DEF PayInv

LEMMA CancelAskKeeps == ASSUME PayInv, NEW q \in PayRequests, CancelAsk(q) PROVE PayInv'
<1> DEFINE c == [cancels[q] EXCEPT !.at = "cancel", !.money = money]
<1>1. /\ cancels[q].at = "user" /\ cancels' = [cancels EXCEPT ![q] = c]
      /\ UNCHANGED <<money, orders, provider, pay, credits, asked, refused, payDied>>
  BY DEF CancelAsk, CancelAt, CancelGo
<1>2. c \in CancelRecords /\ c.at = "cancel" /\ c.order = cancels[q].order
  BY SlotOf DEF PayInv, PayTypes, CancelRecords
<1> HIDE DEF c
<1>3. /\ cancels' \in [PayRequests -> CancelRecords]
      /\ \A x \in PayRequests : cancels'[x] = IF x = q THEN c ELSE cancels[x]
  BY <1>1, <1>2 DEF PayInv, PayTypes
<1>4. PaymentNotKept'
  BY <1>1, <1>2, <1>3 DEF PayInv, PaymentNotKept
<1>5. PayTypes' /\ Unpaid' /\ CompletedWasCredited' /\ \A x \in PayRequests : CancelSlot(x)'
  BY <1>1, <1>2, <1>3 DEF PayInv, PayTypes, Unpaid, CompletedWasCredited, CancelSlot
<1>6. QED
  BY <1>1, <1>4, <1>5, PaySlotsKept DEF PayInv

LEMMA CancelKeeps == ASSUME PayInv, NEW q \in PayRequests, CancelAtProvider(q) PROVE PayInv'
<1> DEFINE o == cancels[q].order
<1>1. /\ cancels[q].at = "cancel"
      /\ \/ provider[o] = "paid" /\ provider' = [provider EXCEPT ![o] = "cancelled"]
            /\ UNCHANGED refused
         \/ refused' = refused \cup {o} /\ UNCHANGED provider
      /\ cancels' = [cancels EXCEPT ![q] = PayIdle]
      /\ UNCHANGED <<money, orders, pay, credits, asked, payDied>>
  BY DEF CancelAtProvider, CancelAt, CancelGo
<1>2. o \in PayOrders
  BY <1>1, SlotOf DEF CancelSlot, CancelRecords
<1>3. PayIdle \in CancelRecords /\ PayIdle.at = "idle" /\ PayIdle.order = "none"
  BY DEF PayIdle, CancelRecords
<1>4. /\ cancels' \in [PayRequests -> CancelRecords]
      /\ \A x \in PayRequests : cancels'[x] = IF x = q THEN PayIdle ELSE cancels[x]
      /\ provider' \in [PayOrders -> {"none", "paid", "cancelled"}]
      /\ \A x \in PayOrders \ {o} : provider'[x] = provider[x]
      /\ provider'[o] = "none" <=> provider[o] = "none"
      /\ provider'[o] = "cancelled" \/ o \in refused'
      /\ refused \subseteq refused'
  BY <1>1, <1>2, <1>3 DEF PayInv, PayTypes
<1>5. PaymentNotKept'
  <2> SUFFICES ASSUME NEW p \in asked, p # o
               PROVE  \/ credits[p] > 0 \/ provider'[p] = "cancelled" \/ p \in refused' \/ payDied
                      \/ \E x \in PayRequests : p \in {pay[x].order, cancels'[x].order}
    BY <1>1, <1>2, <1>4 DEF PaymentNotKept
  <2>1. p \in PayOrders
    BY DEF PayInv, PayTypes
  <2>2. \/ credits[p] > 0 \/ provider[p] = "cancelled" \/ p \in refused \/ payDied
        \/ \E x \in PayRequests : p \in {pay[x].order, cancels[x].order}
    BY DEF PayInv, PaymentNotKept
  <2>3. QED
    BY <1>4, <2>1, <2>2
<1>6. \A x \in PayRequests : CancelSlot(x)'
  BY <1>3, <1>4 DEF PayInv, CancelSlot
<1>7. PayTypes' /\ Unpaid' /\ CompletedWasCredited'
  BY <1>1, <1>2, <1>4 DEF PayInv, PayTypes, Unpaid, CompletedWasCredited
<1>8. QED
  BY <1>1, <1>5, <1>6, <1>7, PaySlotsKept DEF PayInv

LEMMA DieKeeps == ASSUME PayInv, PayDie PROVE PayInv'
<1>1. /\ pay' = [q \in PayRequests |-> PayIdle] /\ cancels' = [q \in PayRequests |-> PayIdle]
      /\ payDied' /\ UNCHANGED <<money, orders, provider, credits, asked, refused>>
  BY DEF PayDie
<1>2. /\ PayIdle \in PayRecords \cap CancelRecords
      /\ PayIdle.at = "idle" /\ PayIdle.order = "none"
  BY IdleIsRecord DEF PayIdle, CancelRecords
<1>3. PayTypes' /\ Unpaid' /\ CompletedWasCredited' /\ PaymentNotKept'
  BY <1>1, <1>2 DEF PayInv, PayTypes, Unpaid, CompletedWasCredited, PaymentNotKept
<1>4. ASSUME NEW x \in PayRequests PROVE PaySlot(x)' /\ CancelSlot(x)'
  BY <1>1, <1>2 DEF PaySlot, CancelSlot, CreatedAlone, CompleteCredited, Completing
<1>5. QED
  BY <1>3, <1>4 DEF PayInv

LEMMA PayStep == PayInv /\ [PaymentsNext]_payVars => PayInv'
<1> SUFFICES ASSUME PayInv, [PaymentsNext]_payVars PROVE PayInv'
  OBVIOUS
<1>1. CASE UNCHANGED payVars
  <2>1. PayTypes' /\ Unpaid' /\ CompletedWasCredited' /\ PaymentNotKept'
        /\ \A x \in PayRequests : CancelSlot(x)'
    BY <1>1 DEF payVars, PayInv, PayTypes, Unpaid, CompletedWasCredited, PaymentNotKept, CancelSlot
  <2>2. QED
    BY <1>1, <2>1, PaySlotsKept DEF payVars, PayInv
<1>2. CASE PaymentsNext
  BY <1>2, CreateMoves, RefundMoves, CompletionMoves, SaveKeepsPayments, AskKeeps, CreditKeeps,
     CompleteKeeps, CatchKeeps, PayAtProviderKeeps, CancelAskKeeps, CancelKeeps, DieKeeps
     DEF PaymentsNext
<1>3. QED
  BY <1>1, <1>2

(***************************************************************************)
(* An order is marked completed only after its money was saved, for any    *)
(* completions of it that overlap, reject or end with the process          *)
(* (completePayment).                                                      *)
(***************************************************************************)
THEOREM CompletedCredited == PaymentsSpec => []CompletedWasCredited
<1>1. PayInv => CompletedWasCredited
  BY DEF PayInv
<1>2. QED
  BY <1>1, PayStart, PayStep, PTL DEF PaymentsSpec

(***************************************************************************)
(* A payment somebody asked to complete ends in a credit, or the provider  *)
(* was told to cancel it and did or refused, unless the process dies or a  *)
(* request or a cancellation still has it (completePayment, cancelPayment; *)
(* nobody looks at a refusal).                                             *)
(***************************************************************************)
THEOREM NothingKept == PaymentsSpec => []PaymentNotKept
<1>1. PayInv => PaymentNotKept
  BY DEF PayInv
<1>2. QED
  BY <1>1, PayStart, PayStep, PTL DEF PaymentsSpec

-----------------------------------------------------------------------------
(* Accounts: the plans of the requests.                                    *)

AccOps == {"signup", "update", "hostnumber", "login", "bizservice"}

RowSteps == {"readUser", "saveUser", "readNcp", "saveNcp"}

StepsOf(op) ==
    CASE op = "signup" -> {"absent", "newUser", "newNcp", "details", "readUser", "saveUser"}
      [] op = "hostnumber" -> RowSteps \cup {"find", "remove", "details"}
      [] OTHER -> RowSteps

Has(todo, x) == \E i \in 1..Len(todo) : todo[i] = x

\* x comes before y.
Before(todo, x, y) == \A i, j \in 1..Len(todo) : todo[i] = x /\ todo[j] = y => i < j

\* A row is read right before it is saved.
Paired(todo) == \A i \in 2..Len(todo) :
    /\ todo[i] = "saveUser" => todo[i - 1] = "readUser"
    /\ todo[i] = "saveNcp" => todo[i - 1] = "readNcp"

PlanOK(op, todo) ==
    /\ todo \in Seq(StepsOf(op))
    /\ op = "hostnumber" => /\ Before(todo, "find", "remove") /\ Before(todo, "remove", "details")
                            /\ \A x \in RowSteps : Before(todo, x, "remove") /\ Before(todo, x, "details")
    /\ op = "signup" => /\ Before(todo, "newUser", "newNcp") /\ Before(todo, "newUser", "details")
                        /\ \A i \in 2..Len(todo) : todo[i] # "absent"
    /\ op \in {"signup", "login", "bizservice"} => Paired(todo)

\* A step is taken off.
LEMMA PlanTail ==
    ASSUME NEW op, NEW todo, PlanOK(op, todo), todo # <<>>
    PROVE  /\ Head(todo) = todo[1] /\ Head(todo) \in StepsOf(op)
           /\ PlanOK(op, Tail(todo)) /\ Len(todo) \in Nat \ {0} /\ Len(Tail(todo)) = Len(todo) - 1
           /\ \A i \in 1..Len(Tail(todo)) : Tail(todo)[i] = todo[i + 1]
<1> DEFINE rest == Tail(todo)
<1>1. /\ todo \in Seq(StepsOf(op)) /\ rest \in Seq(StepsOf(op)) /\ Head(todo) \in StepsOf(op)
      /\ Len(todo) \in Nat \ {0} /\ Len(rest) = Len(todo) - 1
      /\ \A i \in 1..Len(rest) : rest[i] = todo[i + 1]
  BY HeadTailProperties, EmptySeq DEF PlanOK
<1>2. Head(todo) = todo[1]
  BY <1>1
<1> HIDE DEF rest
<1>3. ASSUME NEW x, NEW y, Before(todo, x, y) PROVE Before(rest, x, y)
  BY <1>1, <1>3 DEF Before
<1>4. Paired(todo) => Paired(rest)
  BY <1>1 DEF Paired
<1>5. (\A i \in 2..Len(todo) : todo[i] # "absent") => \A i \in 2..Len(rest) : rest[i] # "absent"
  BY <1>1
<1>6. PlanOK(op, rest)
  BY <1>1, <1>3, <1>4, <1>5 DEF PlanOK
<1>7. QED
  BY <1>1, <1>2, <1>6 DEF rest

LEMMA HasTail ==
    ASSUME NEW op, NEW todo, PlanOK(op, todo), todo # <<>>, NEW x
    PROVE  Has(todo, x) <=> Head(todo) = x \/ Has(Tail(todo), x)
<1> DEFINE rest == Tail(todo)
<1>1. /\ Head(todo) = todo[1] /\ Len(todo) \in Nat \ {0} /\ Len(rest) = Len(todo) - 1
      /\ \A i \in 1..Len(rest) : rest[i] = todo[i + 1]
  BY PlanTail
<1> HIDE DEF rest
<1>2. ASSUME NEW i \in 1..Len(todo), todo[i] = x PROVE Head(todo) = x \/ Has(rest, x)
  <2>1. CASE i = 1
    BY <1>1, <1>2, <2>1
  <2>2. CASE i # 1
    <3>1. i - 1 \in 1..Len(rest) /\ rest[i - 1] = todo[i]
      BY <1>1, <2>2
    <3>2. QED
      BY <1>2, <3>1 DEF Has
  <2>3. QED
    BY <2>1, <2>2
<1>3. Head(todo) = x => Has(todo, x)
  <2>1. 1 \in 1..Len(todo)
    BY <1>1
  <2>2. QED
    BY <1>1, <2>1 DEF Has
<1>4. ASSUME NEW i \in 1..Len(rest), rest[i] = x PROVE Has(todo, x)
  <2>1. i + 1 \in 1..Len(todo) /\ todo[i + 1] = x
    BY <1>1, <1>4
  <2>2. QED
    BY <2>1 DEF Has
<1>5. Has(todo, x) <=> Head(todo) = x \/ Has(rest, x)
  BY <1>2, <1>3, <1>4 DEF Has
<1>6. QED
  BY <1>5 DEF rest

\* The first step is before none that has to come before it.
LEMMA HeadBefore ==
    ASSUME NEW op, NEW todo, PlanOK(op, todo), todo # <<>>, NEW x, Before(todo, x, Head(todo))
    PROVE  ~Has(todo, x)
<1>1. Head(todo) = todo[1] /\ Len(todo) \in Nat \ {0}
  BY PlanTail
<1>2. QED
  BY <1>1 DEF Before, Has

LEMMA HasConcat ==
    ASSUME NEW S, NEW s \in Seq(S), NEW t \in Seq(S)
    PROVE  s \o t \in Seq(S) /\ \A x : Has(s, x) \/ Has(t, x) => Has(s \o t, x)
<1> DEFINE st == s \o t
<1>1. /\ st \in Seq(S) /\ Len(st) = Len(s) + Len(t) /\ Len(s) \in Nat /\ Len(t) \in Nat
      /\ \A i \in 1..Len(s) + Len(t) : st[i] = IF i <= Len(s) THEN s[i] ELSE t[i - Len(s)]
  BY ConcatProperties, LenProperties
<1> HIDE DEF st
<1>2. ASSUME NEW x, NEW i \in 1..Len(s), s[i] = x PROVE Has(st, x)
  <2>1. i \in 1..Len(st) /\ st[i] = x
    BY <1>1, <1>2
  <2>2. QED
    BY <2>1 DEF Has
<1>3. ASSUME NEW x, NEW i \in 1..Len(t), t[i] = x PROVE Has(st, x)
  <2> DEFINE m == Len(s)
             n == Len(t)
             j == i + m
  <2>1. m \in Nat /\ n \in Nat /\ Len(st) = m + n /\ i \in 1..n
    BY <1>1
  <2>2. j \in 1..(m + n) /\ ~(j <= m) /\ j - m = i
    BY <2>1
  <2>3. st[j] = t[i]
    <3>1. st[j] = IF j <= m THEN s[j] ELSE t[j - m]
      BY <1>1, <2>1, <2>2
    <3> HIDE DEF j, m
    <3>2. QED
      BY <2>2, <3>1
  <2> HIDE DEF j, m, n
  <2>4. QED
    BY <1>3, <2>1, <2>2, <2>3 DEF Has
<1>4. \A x : Has(s, x) \/ Has(t, x) => Has(st, x)
  BY <1>2, <1>3 DEF Has
<1>5. QED
  BY <1>1, <1>4 DEF st

\* The elements of a sequence and of two more after it
LEMMA Appended ==
    ASSUME NEW S, NEW s \in Seq(S), NEW t \in Seq(S), Len(t) = 2, Len(s) >= 1
    PROVE  /\ s \o t \in Seq(S) /\ Len(s \o t) = Len(s) + 2 /\ s \o t # <<>> /\ Head(s \o t) = s[1]
           /\ \A i \in 1..Len(s) : (s \o t)[i] = s[i]
           /\ (s \o t)[Len(s) + 1] = t[1] /\ (s \o t)[Len(s) + 2] = t[2]
<1> DEFINE m == Len(s)
           st == s \o t
<1>1. /\ st \in Seq(S) /\ Len(st) = m + 2 /\ m \in Nat /\ m >= 1
      /\ \A i \in 1..m + 2 : st[i] = IF i <= m THEN s[i] ELSE t[i - m]
  <2>1. /\ s \o t \in Seq(S) /\ Len(s \o t) = Len(s) + Len(t)
        /\ \A i \in 1..Len(s) + Len(t) : (s \o t)[i] = IF i <= Len(s) THEN s[i] ELSE t[i - Len(s)]
    BY ConcatProperties
  <2>2. m \in Nat
    BY LenProperties
  <2>3. QED
    BY <2>1, <2>2
<1> HIDE DEF m, st
<1>2. /\ \A i \in 1..m : st[i] = s[i]
      /\ st[m + 1] = t[1] /\ st[m + 2] = t[2]
  <2>1. \A i \in 1..m : i \in 1..m + 2 /\ i <= m
    BY <1>1
  <2>2. /\ m + 1 \in 1..m + 2 /\ ~(m + 1 <= m) /\ (m + 1) - m = 1
        /\ m + 2 \in 1..m + 2 /\ ~(m + 2 <= m) /\ (m + 2) - m = 2
    BY <1>1
  <2>3. \A i \in 1..m : st[i] = s[i]
    BY <1>1, <2>1
  <2>4. st[m + 1] = t[(m + 1) - m] /\ st[m + 2] = t[(m + 2) - m]
    BY <1>1, <2>2
  <2>5. QED
    BY <2>2, <2>3, <2>4
<1>3. st # <<>> /\ Head(st) = st[1]
  BY <1>1, EmptySeq
<1>4. QED
  BY <1>1, <1>2, <1>3 DEF m, st

LEMMA UpdatePlanOK ==
    ASSUME NEW adv, NEW name, NEW key
    PROVE  /\ PlanOK("update", UpdatePlan(adv, name, key))
           /\ Has(UpdatePlan(adv, name, key), "saveUser")
           /\ Has(UpdatePlan(adv, name, key), "saveNcp")
<1> DEFINE S == StepsOf("update")
           p1 == <<"readUser">> \o Also(adv, Keys)
           p2 == p1 \o Profile
           p3 == p2 \o Keys
           p4 == p3 \o Also(name, Profile)
           p5 == p4 \o Also(key, Keys)
<1>1. S = RowSteps
  BY DEF StepsOf
<1>2. /\ <<"readUser">> \in Seq(S) /\ Keys \in Seq(S) /\ Profile \in Seq(S) /\ <<>> \in Seq(S)
      /\ Has(Keys, "saveNcp") /\ Has(Profile, "saveUser")
  <2>1. Keys[2] = "saveNcp" /\ Len(Keys) = 2 /\ Profile[2] = "saveUser" /\ Len(Profile) = 2
    BY DEF Keys, Profile
  <2>2. QED
    BY <1>1, <2>1 DEF Keys, Profile, RowSteps, Has
<1>3. Also(adv, Keys) \in Seq(S) /\ Also(name, Profile) \in Seq(S) /\ Also(key, Keys) \in Seq(S)
  BY <1>2 DEF Also
<1> HIDE DEF S
<1>4. p1 \in Seq(S)
  BY <1>2, <1>3, HasConcat
<1> HIDE DEF p1
<1>5. p2 \in Seq(S) /\ Has(p2, "saveUser")
  BY <1>2, <1>4, HasConcat
<1> HIDE DEF p2
<1>6. p3 \in Seq(S) /\ Has(p3, "saveUser") /\ Has(p3, "saveNcp")
  BY <1>2, <1>5, HasConcat
<1> HIDE DEF p3
<1>7. p4 \in Seq(S) /\ Has(p4, "saveUser") /\ Has(p4, "saveNcp")
  BY <1>3, <1>6, HasConcat
<1> HIDE DEF p4
<1>8. p5 \in Seq(S) /\ Has(p5, "saveUser") /\ Has(p5, "saveNcp")
  BY <1>3, <1>7, HasConcat
<1>9. p5 = UpdatePlan(adv, name, key)
  BY DEF p1, p2, p3, p4, UpdatePlan
<1> HIDE DEF p5
<1>10. QED
  BY <1>8, <1>9 DEF PlanOK, S

LEMMA HostnumberPlanOK ==
    /\ PlanOK("hostnumber", HostnumberPlan)
    /\ Has(HostnumberPlan, "saveUser") /\ Has(HostnumberPlan, "saveNcp")
    /\ Has(HostnumberPlan, "find") /\ Has(HostnumberPlan, "remove") /\ Has(HostnumberPlan, "details")
<1> DEFINE p == HostnumberPlan
<1>1. /\ Len(p) = 8 /\ p[1] = "readUser" /\ p[2] = "readUser" /\ p[3] = "readNcp"
      /\ p[4] = "saveUser" /\ p[5] = "saveNcp" /\ p[6] = "find" /\ p[7] = "remove" /\ p[8] = "details"
      /\ p \in Seq(StepsOf("hostnumber"))
  BY DEF HostnumberPlan, StepsOf, RowSteps
<1> HIDE DEF p
<1>2. /\ Before(p, "find", "remove") /\ Before(p, "remove", "details")
      /\ \A x \in RowSteps : Before(p, x, "remove") /\ Before(p, x, "details")
  BY <1>1 DEF Before, RowSteps
<1>3. /\ Has(p, "saveUser") /\ Has(p, "saveNcp") /\ Has(p, "find") /\ Has(p, "remove")
      /\ Has(p, "details")
  BY <1>1 DEF Has
<1>4. QED
  BY <1>1, <1>2, <1>3 DEF PlanOK, p

LEMMA SignupPlanOK ==
    /\ PlanOK("signup", SignupPlan)
    /\ Has(SignupPlan, "newUser") /\ Has(SignupPlan, "newNcp") /\ Has(SignupPlan, "details")
    /\ SignupPlan # <<>> /\ Head(SignupPlan) = "absent"
<1> DEFINE p == SignupPlan
           first == <<"absent", "newUser", "newNcp", "details">>
<1>1. /\ first \in Seq(StepsOf("signup")) /\ Len(first) = 4
      /\ first[1] = "absent" /\ first[2] = "newUser" /\ first[3] = "newNcp" /\ first[4] = "details"
      /\ Profile \in Seq(StepsOf("signup")) /\ Len(Profile) = 2
      /\ Profile[1] = "readUser" /\ Profile[2] = "saveUser"
  BY DEF StepsOf, Profile
<1>2. /\ Len(p) = 6 /\ p[1] = "absent" /\ p[2] = "newUser" /\ p[3] = "newNcp"
      /\ p[4] = "details" /\ p[5] = "readUser" /\ p[6] = "saveUser"
      /\ p \in Seq(StepsOf("signup")) /\ p # <<>> /\ Head(p) = "absent"
  <2> DEFINE S == StepsOf("signup")
             t == Profile
  <2>1. /\ p = first \o t /\ first \in Seq(S) /\ t \in Seq(S)
        /\ Len(first) >= 1 /\ Len(t) = 2
    BY <1>1 DEF SignupPlan
  <2> HIDE DEF first, p, S, t
  <2>2. LET st == first \o t IN
        /\ st \in Seq(S) /\ Len(st) = Len(first) + 2
        /\ st # <<>> /\ Head(st) = first[1] /\ \A i \in 1..Len(first) : st[i] = first[i]
        /\ st[Len(first) + 1] = t[1] /\ st[Len(first) + 2] = t[2]
    BY <2>1, Appended
  <2>3. QED
    BY <1>1, <2>1, <2>2 DEF S, t
<1> HIDE DEF p
<1>3. Before(p, "newUser", "newNcp") /\ Before(p, "newUser", "details") /\ Paired(p)
      /\ \A i \in 2..Len(p) : p[i] # "absent"
  BY <1>2 DEF Before, Paired
<1>4. Has(p, "newUser") /\ Has(p, "newNcp") /\ Has(p, "details")
  BY <1>2 DEF Has
<1>5. QED
  BY <1>2, <1>3, <1>4 DEF PlanOK, p

LEMMA RowPlansOK ==
    /\ PlanOK("login", Profile) /\ Profile # <<>> /\ Head(Profile) = "readUser"
    /\ PlanOK("bizservice", <<"readUser">> \o Keys)
    /\ <<"readUser">> \o Keys # <<>> /\ Head(<<"readUser">> \o Keys) = "readUser"
<1> DEFINE p == <<"readUser">> \o Keys
           first == <<"readUser">>
<1>1. /\ first \in Seq(StepsOf("bizservice")) /\ Len(first) = 1 /\ first[1] = "readUser"
      /\ Keys \in Seq(StepsOf("bizservice")) /\ Len(Keys) = 2
      /\ Keys[1] = "readNcp" /\ Keys[2] = "saveNcp"
  BY DEF StepsOf, RowSteps, Keys
<1>2. /\ Len(p) = 3 /\ p[1] = "readUser" /\ p[2] = "readNcp" /\ p[3] = "saveNcp"
      /\ p \in Seq(StepsOf("bizservice")) /\ p # <<>> /\ Head(p) = "readUser"
  <2> DEFINE S == StepsOf("bizservice")
             t == Keys
  <2>1. /\ p = first \o t /\ first \in Seq(S) /\ t \in Seq(S)
        /\ Len(first) >= 1 /\ Len(t) = 2
    BY <1>1 
  <2> HIDE DEF first, p, S, t
  <2>2. LET st == first \o t IN
        /\ st \in Seq(S) /\ Len(st) = Len(first) + 2
        /\ st # <<>> /\ Head(st) = first[1] /\ \A i \in 1..Len(first) : st[i] = first[i]
        /\ st[Len(first) + 1] = t[1] /\ st[Len(first) + 2] = t[2]
    BY <2>1, Appended
  <2>3. QED
    BY <1>1, <2>1, <2>2 DEF S, t
<1>3. /\ Len(Profile) = 2 /\ Profile[1] = "readUser" /\ Profile[2] = "saveUser"
      /\ Profile \in Seq(StepsOf("login")) /\ Profile # <<>> /\ Head(Profile) = "readUser"
  BY DEF StepsOf, RowSteps, Profile
<1> HIDE DEF p
<1>4. Paired(p)
  BY <1>2 DEF Paired
<1>5. Paired(Profile)
  BY <1>3 DEF Paired
<1>6. QED
  BY <1>2, <1>3, <1>4, <1>5 DEF PlanOK, p

-----------------------------------------------------------------------------
(* What a request that is alone knows of the rows of its user.             *)

AccRow == Seq(AccNumbers) \cup {AccNone}

Writings == [row : AccRow, memos : AccRow]

FoundOK(found, u) == IsFiniteSet(found) /\ \A d \in found : d.user = u

RequestOK(r) ==
    /\ r = [op |-> r.op, user |-> r.user, host |-> r.host, todo |-> r.todo, row |-> r.row,
            ncp |-> r.ncp, done |-> r.done, found |-> r.found]
    /\ r.op \in AccOps /\ r.user \in AccUsers /\ r.host \in Seq(AccNumbers)
    /\ r.row \in AccRow /\ r.ncp \in AccRow /\ r.done \in 0..Len(r.host)
    /\ PlanOK(r.op, r.todo)
    /\ FoundOK(r.found, r.user)

AccTypes ==
    /\ userRow \in [AccUsers -> AccRow]
    /\ ncpRow \in [AccUsers -> AccRow]
    /\ wrote \in [AccUsers -> Writings]
    /\ IsFiniteSet(details)
    /\ acc = [q \in AccRequests |-> acc[q]]
    /\ \A q \in AccRequests : acc[q] = AccIdle \/ RequestOK(acc[q])

\* The requests of a user do not overlap; those of others may.
AccAlone == \A q, x \in AccRequests :
    (acc[q] # AccIdle /\ acc[x] # AccIdle /\ acc[q].user = acc[x].user) => q = x

RowsOf(ds, u) == {d \in ds : d.user = u}

\* The first k entries of the list have one row each.
Listed(rows, list, k) == \A n \in AccNumbers : RowsFor(n, rows) = Occurs(n, list, k)

MemosAgree(w, rows) == w.memos # AccNone => Listed(rows, w.memos, Len(w.memos))

\* Who is no user has no rows.
Fresh(row, rows) == row = AccNone => rows = {}

\* The three places are as w says.
Agreement(w, row, ncp, rows) ==
    /\ w.row # AccNone => row = w.row /\ ncp = w.row
    /\ MemosAgree(w, rows) /\ Fresh(row, rows)

\* updateHostnumber has not come to the rows of numbers.
Untouched(r) == \E x \in RowSteps : Has(r.todo, x)

\* What updateHostnumber has done with the rows of numbers.
NumberClaims(r, w, row, rows) ==
    /\ Untouched(r) => MemosAgree(w, rows) /\ Fresh(row, rows)
    /\ Has(r.todo, "remove") => r.done = 0
    /\ ~Has(r.todo, "find") /\ Has(r.todo, "remove") => r.found = rows
    /\ ~Has(r.todo, "remove") => Listed(rows, r.host, r.done)
    /\ ~Has(r.todo, "details") => r.done = Len(r.host)

(***************************************************************************)
(* What holds of the rows of its user while a request goes on: before it   *)
(* has written they agree as they did, and what it has written is there.   *)
(***************************************************************************)
Claims(r, w, row, ncp, rows) ==
    /\ r.op \in {"login", "bizservice"} => Agreement(w, row, ncp, rows)
    /\ r.op = "signup" =>
          /\ Has(r.todo, "newUser") => Agreement(w, row, ncp, rows) /\ r.done = 0
          /\ ~Has(r.todo, "newUser") => row = Digits(r.host) /\ Listed(rows, r.host, r.done)
          /\ ~Has(r.todo, "newNcp") => ncp = Digits(r.host)
          /\ ~Has(r.todo, "details") => r.done = Len(r.host)
          /\ (r.todo # <<>> /\ Head(r.todo) = "absent") => Has(r.todo, "newUser")
    /\ r.op \in {"update", "hostnumber"} =>
          /\ ~Has(r.todo, "saveUser") => row = r.host
          /\ ~Has(r.todo, "saveNcp") => ncp = r.host
          /\ w.row # AccNone => row # AccNone /\ ncp # AccNone
    /\ r.op = "update" => MemosAgree(w, rows) /\ Fresh(row, rows)
    /\ r.op = "hostnumber" => NumberClaims(r, w, row, rows)
    /\ (r.op \in {"signup", "login", "bizservice"} /\ r.todo # <<>>) =>
          /\ Head(r.todo) = "saveUser" => r.row = row
          /\ Head(r.todo) = "saveNcp" => r.ncp = ncp

Of(r, u) == r # AccIdle /\ r.user = u

AccAgree ==
    /\ \A u \in AccUsers : (\A q \in AccRequests : ~Of(acc[q], u)) =>
          Agreement(wrote[u], userRow[u], ncpRow[u], RowsOf(details, u))
    /\ \A q \in AccRequests : \A u \in AccUsers : Of(acc[q], u) =>
          Claims(acc[q], wrote[u], userRow[u], ncpRow[u], RowsOf(details, u))

LEMMA AccStart == AccountsInit => AccTypes /\ AccAgree
  BY FS_EmptySet DEF AccountsInit, AccTypes, AccAgree, AccRow, Writings, Agreement, MemosAgree,
     Fresh, RowsOf, Of

LEMMA RowIsNotNone == \A host \in Seq(AccNumbers) : host # AccNone /\ Digits(host) \in Seq(AccNumbers)
                                                     /\ Digits(host) # AccNone
<1>1. ASSUME NEW host \in Seq(AccNumbers) PROVE Digits(host) \in Seq(AccNumbers)
  <2>1. Len(host) \in Nat /\ \A i \in 1..Len(host) : host[i] \in AccNumbers
    OBVIOUS
  <2>2. \A i \in 1..Len(host) : AccDigits[host[i]] \in AccNumbers
    BY <2>1, AccAssumption
  <2>3. Digits(host) \in [1..Len(host) -> AccNumbers]
    BY <2>2 DEF Digits
  <2>4. QED
    BY <2>1, <2>3, SeqDef
<1>2. QED
  BY <1>1, AccAssumption

\* Rows are counted like entries of the list.
LEMMA RowCounted ==
    ASSUME NEW rows, IsFiniteSet(rows), NEW d, d \notin rows, NEW list \in Seq(AccNumbers),
           NEW k \in 0..Len(list), k # Len(list), d.number = list[k + 1], Listed(rows, list, k)
    PROVE  Listed(rows \cup {d}, list, k + 1)
<1> SUFFICES ASSUME NEW n \in AccNumbers
             PROVE  RowsFor(n, rows \cup {d}) = Occurs(n, list, k + 1)
  BY DEF Listed
<1> DEFINE R == {e \in rows : e.number = n}
           O == {i \in 1..k : list[i] = n}
<1>1. /\ Cardinality(R) = Cardinality(O) /\ IsFiniteSet(R) /\ d \notin R
  BY FS_Subset DEF Listed, RowsFor, Occurs
<1>2. k \in Int /\ k + 1 \notin 1..k /\ 1..(k + 1) = 1..k \cup {k + 1}
  OBVIOUS
<1>3. IsFiniteSet(O) /\ k + 1 \notin O
  <2>1. IsFiniteSet(1..k)
    BY <1>2, FS_Interval
  <2>2. QED
    BY <1>2, <2>1, FS_Subset
<1>4. CASE list[k + 1] = n
  <2>1. {e \in rows \cup {d} : e.number = n} = R \cup {d}
    BY <1>4
  <2>2. {i \in 1..(k + 1) : list[i] = n} = O \cup {k + 1}
    BY <1>2, <1>4
  <2> HIDE DEF R, O
  <2>3. Cardinality(R \cup {d}) = Cardinality(R) + 1
    BY <1>1, FS_AddElement
  <2>4. Cardinality(O \cup {k + 1}) = Cardinality(O) + 1
    BY <1>3, FS_AddElement
  <2>5. QED
    BY <1>1, <2>1, <2>2, <2>3, <2>4 DEF RowsFor, Occurs
<1>5. CASE list[k + 1] # n
  <2>1. {e \in rows \cup {d} : e.number = n} = R
    BY <1>5
  <2>2. {i \in 1..(k + 1) : list[i] = n} = O
    BY <1>2, <1>5
  <2>3. QED
    BY <1>1, <2>1, <2>2 DEF RowsFor, Occurs
<1>6. QED
  BY <1>4, <1>5

LEMMA NothingListed == ASSUME NEW list, NEW rows, rows = {} PROVE Listed(rows, list, 0)
<1>1. ASSUME NEW n PROVE {d \in rows : d.number = n} = {} /\ {i \in 1..0 : list[i] = n} = {}
  OBVIOUS
<1>2. QED
  BY <1>1 DEF Listed, RowsFor, Occurs

\* The id of a new row is that of no other.
LEMMA IdIsNew == ASSUME AccTypes PROVE \A d \in details : d.id # NewId
<1> DEFINE founds == {acc[q].found : q \in AccRequests}
           all == details \cup UNION founds
           used == {d.id : d \in all}
           k == Cardinality(used)
<1>1. IsFiniteSet(founds)
  <2> DEFINE f == [q \in AccRequests |-> acc[q].found]
  <2>1. f \in Surjection(AccRequests, founds)
    BY DEF Surjection
  <2>2. QED
    BY <2>1, AccAssumption, FS_Surjection
<1>2. \A T \in founds : IsFiniteSet(T)
  <2>1. ASSUME NEW q \in AccRequests PROVE IsFiniteSet(acc[q].found)
    <3>1. CASE acc[q] = AccIdle
      BY <3>1, FS_EmptySet DEF AccIdle
    <3>2. CASE RequestOK(acc[q])
      BY <3>2 DEF RequestOK, FoundOK
    <3>3. QED
      BY <3>1, <3>2 DEF AccTypes
  <2>2. QED
    BY <2>1
<1> HIDE DEF founds
<1>3. IsFiniteSet(all)
  BY <1>1, <1>2, FS_UNION, FS_Union DEF AccTypes
<1> HIDE DEF all
<1>4. IsFiniteSet(used)
  <2> DEFINE f == [d \in all |-> d.id]
  <2>1. f \in Surjection(all, used)
    BY DEF Surjection
  <2>2. QED
    BY <1>3, <2>1, FS_Surjection
<1>5. \A d \in details : d.id \in used
  BY DEF all
<1> HIDE DEF used
<1>6. k \in Nat
  BY <1>4, FS_CardinalityType
<1>7. \E i \in 1..(k + 1) : i \notin used
  <2>1. SUFFICES ASSUME 1..(k + 1) \subseteq used PROVE FALSE
    OBVIOUS
  <2>2. Cardinality(1..(k + 1)) <= k
    BY <1>4, <2>1, FS_Subset
  <2>3. Cardinality(1..(k + 1)) = k + 1
    <3>1. 1 \in Int /\ k + 1 \in Int /\ ~(1 > k + 1) /\ k + 1 - 1 + 1 = k + 1
      BY <1>6
    <3> HIDE DEF k
    <3>2. QED
      BY <3>1, FS_Interval
  <2>4. QED
    BY <1>6, <2>2, <2>3
<1>8. NewId = CHOOSE i \in 1..(k + 1) : i \notin used
  BY DEF NewId, used, all, founds
<1>9. NewId \notin used
  BY <1>7, <1>8
<1>10. QED
  BY <1>5, <1>9

\* A step of a request that is alone among those of its user u.
LEMMA AgreeKept ==
    ASSUME AccTypes, AccAgree, NEW q \in AccRequests, NEW u \in AccUsers, NEW r,
           acc' = [acc EXCEPT ![q] = r], acc[q] = AccIdle \/ acc[q].user = u,
           \A x \in AccRequests \ {q} : ~Of(acc[x], u),
           \A v \in AccUsers \ {u} :
              /\ wrote'[v] = wrote[v] /\ userRow'[v] = userRow[v] /\ ncpRow'[v] = ncpRow[v]
              /\ RowsOf(details', v) = RowsOf(details, v),
           r = AccIdle => Agreement(wrote'[u], userRow'[u], ncpRow'[u], RowsOf(details', u)),
           r # AccIdle => /\ r.user = u
                          /\ Claims(r, wrote'[u], userRow'[u], ncpRow'[u], RowsOf(details', u))
    PROVE  AccAgree'
<1>1. \A x \in AccRequests : acc'[x] = IF x = q THEN r ELSE acc[x]
  BY DEF AccTypes
<1>2. ASSUME NEW v \in AccUsers, \A x \in AccRequests : ~Of(acc'[x], v)
      PROVE  Agreement(wrote'[v], userRow'[v], ncpRow'[v], RowsOf(details', v))
  <2>1. CASE v = u
    BY <1>1, <1>2, <2>1 DEF Of
  <2>2. CASE v # u
    <3>1. \A x \in AccRequests : ~Of(acc[x], v)
      BY <1>1, <1>2, <2>2 DEF Of
    <3>2. Agreement(wrote[v], userRow[v], ncpRow[v], RowsOf(details, v))
      BY <3>1 DEF AccAgree
    <3>3. QED
      BY <2>2, <3>2
  <2>3. QED
    BY <2>1, <2>2
<1>3. ASSUME NEW x \in AccRequests, NEW v \in AccUsers, Of(acc'[x], v)
      PROVE  Claims(acc'[x], wrote'[v], userRow'[v], ncpRow'[v], RowsOf(details', v))
  <2>1. CASE x = q
    BY <1>1, <1>3, <2>1 DEF Of
  <2>2. CASE x # q
    <3>1. acc'[x] = acc[x] /\ Of(acc[x], v) /\ v # u
      BY <1>1, <1>3, <2>2
    <3>2. Claims(acc[x], wrote[v], userRow[v], ncpRow[v], RowsOf(details, v))
      BY <3>1 DEF AccAgree
    <3>3. QED
      BY <3>1, <3>2
  <2>3. QED
    BY <2>1, <2>2
<1>4. QED
  BY <1>2, <1>3 DEF AccAgree

\* What is known of a request when its next step comes.
LEMMA TakeOff ==
    ASSUME NEW r, RequestOK(r), r.todo # <<>>, NEW todo, todo = Tail(r.todo)
    PROVE  /\ PlanOK(r.op, todo) /\ Head(r.todo) \in StepsOf(r.op)
           /\ \A x : Has(r.todo, x) <=> Head(r.todo) = x \/ Has(todo, x)
           /\ r.op = "hostnumber" =>
                 /\ Head(r.todo) = "remove" =>
                       ~Has(r.todo, "find") /\ \A x \in RowSteps : ~Has(r.todo, x)
                 /\ Head(r.todo) = "details" =>
                       ~Has(r.todo, "remove") /\ \A x \in RowSteps : ~Has(r.todo, x)
           /\ (r.op = "signup" /\ Head(r.todo) \in {"newNcp", "details"}) => ~Has(r.todo, "newUser")
           /\ (r.op = "signup" /\ todo # <<>>) => Head(todo) # "absent"
           /\ (r.op \in {"signup", "login", "bizservice"} /\ todo # <<>>) =>
                 /\ Head(todo) = "saveUser" => Head(r.todo) = "readUser"
                 /\ Head(todo) = "saveNcp" => Head(r.todo) = "readNcp"
<1>1. PlanOK(r.op, r.todo)
  BY DEF RequestOK
<1>2. /\ PlanOK(r.op, todo) /\ Head(r.todo) = r.todo[1] /\ Head(r.todo) \in StepsOf(r.op)
      /\ Len(r.todo) \in Nat \ {0} /\ Len(todo) = Len(r.todo) - 1
      /\ \A i \in 1..Len(todo) : todo[i] = r.todo[i + 1]
  BY <1>1, PlanTail
<1>3. \A x : Has(r.todo, x) <=> Head(r.todo) = x \/ Has(todo, x)
  BY <1>1, HasTail
<1>4. r.op = "hostnumber" =>
        /\ Head(r.todo) = "remove" => ~Has(r.todo, "find") /\ \A x \in RowSteps : ~Has(r.todo, x)
        /\ Head(r.todo) = "details" => ~Has(r.todo, "remove") /\ \A x \in RowSteps : ~Has(r.todo, x)
  BY <1>1, HeadBefore DEF PlanOK
<1>5. (r.op = "signup" /\ Head(r.todo) \in {"newNcp", "details"}) => ~Has(r.todo, "newUser")
  BY <1>1, HeadBefore DEF PlanOK
<1>6. ASSUME todo # <<>> PROVE Len(r.todo) >= 2 /\ Head(todo) = r.todo[2]
  <2>1. Head(todo) = todo[1] /\ Len(todo) \in Nat \ {0}
    BY <1>2, <1>6, PlanTail
  <2> DEFINE k == Len(todo)
             m == Len(r.todo)
  <2>2. 1 \in 1..k /\ 1 + 1 = 2 /\ m >= 2
    <3>1. k \in Nat \ {0} /\ m \in Nat /\ k = m - 1
      BY <1>2, <2>1
    <3> HIDE DEF k, m
    <3>2. QED
      BY <3>1
  <2>3. todo[1] = r.todo[1 + 1]
    BY <1>2, <2>2
  <2>4. QED
    BY <2>1, <2>2, <2>3
<1>7. (r.op = "signup" /\ todo # <<>>) => Head(todo) # "absent"
  BY <1>1, <1>2, <1>6 DEF PlanOK
<1>8. (r.op \in {"signup", "login", "bizservice"} /\ todo # <<>>) =>
        /\ Head(todo) = "saveUser" => Head(r.todo) = "readUser"
        /\ Head(todo) = "saveNcp" => Head(r.todo) = "readNcp"
  <2>1. ASSUME r.op \in {"signup", "login", "bizservice"}, todo # <<>>
        PROVE  /\ r.todo[2] = "saveUser" => r.todo[1] = "readUser"
               /\ r.todo[2] = "saveNcp" => r.todo[1] = "readNcp"
    <3>1. Paired(r.todo) /\ 2 \in 2..Len(r.todo)
      BY <1>1, <1>2, <1>6, <2>1 DEF PlanOK
    <3>2. /\ r.todo[2] = "saveUser" => r.todo[2 - 1] = "readUser"
          /\ r.todo[2] = "saveNcp" => r.todo[2 - 1] = "readNcp"
      BY <3>1 DEF Paired
    <3>3. QED
      BY <3>2
  <2>2. QED
    BY <1>2, <1>6, <2>1
<1>9. QED
  BY <1>2, <1>3, <1>4, <1>5, <1>7, <1>8

LEMMA RequestHere ==
    ASSUME AccTypes, AccAgree, AccAlone, NEW q \in AccRequests, acc[q] # AccIdle,
           NEW u, u = acc[q].user
    PROVE  /\ RequestOK(acc[q]) /\ u \in AccUsers
           /\ Claims(acc[q], wrote[u], userRow[u], ncpRow[u], RowsOf(details, u))
           /\ \A x \in AccRequests \ {q} : ~Of(acc[x], u)
           /\ userRow[u] \in AccRow /\ ncpRow[u] \in AccRow /\ wrote[u] \in Writings
<1>1. RequestOK(acc[q]) /\ u \in AccUsers
  BY DEF AccTypes, RequestOK
<1>2. Claims(acc[q], wrote[u], userRow[u], ncpRow[u], RowsOf(details, u))
  BY <1>1 DEF AccAgree, Of
<1>3. \A x \in AccRequests \ {q} : ~Of(acc[x], u)
  BY DEF AccAlone, Of
<1>4. QED
  BY <1>1, <1>2, <1>3 DEF AccTypes

\* A request goes on as r, or ends, and has written rows of its user only.
LEMMA Moves ==
    ASSUME AccTypes, AccAgree, AccAlone, NEW q \in AccRequests, acc[q] # AccIdle,
           NEW u, u = acc[q].user, NEW r, acc' = [acc EXCEPT ![q] = r],
           userRow' \in [AccUsers -> AccRow], ncpRow' \in [AccUsers -> AccRow],
           wrote' \in [AccUsers -> Writings], IsFiniteSet(details'),
           \A v \in AccUsers \ {u} :
              /\ wrote'[v] = wrote[v] /\ userRow'[v] = userRow[v] /\ ncpRow'[v] = ncpRow[v]
              /\ RowsOf(details', v) = RowsOf(details, v),
           r = AccIdle => Agreement(wrote'[u], userRow'[u], ncpRow'[u], RowsOf(details', u)),
           r # AccIdle => /\ RequestOK(r) /\ r.user = u
                          /\ Claims(r, wrote'[u], userRow'[u], ncpRow'[u], RowsOf(details', u))
    PROVE  AccTypes' /\ AccAgree'
<1>1. u \in AccUsers /\ \A x \in AccRequests \ {q} : ~Of(acc[x], u)
  BY RequestHere
<1>2. AccAgree'
  BY <1>1, AgreeKept
<1>3. \A x \in AccRequests : acc'[x] = IF x = q THEN r ELSE acc[x]
  BY DEF AccTypes
<1>4. acc' = [x \in AccRequests |-> acc'[x]]
  BY DEF AccTypes
<1>5. \A x \in AccRequests : acc'[x] = AccIdle \/ RequestOK(acc'[x])
  BY <1>3 DEF AccTypes
<1>6. AccTypes'
  BY <1>4, <1>5 DEF AccTypes
<1>7. QED
  BY <1>2, <1>6

\* No row is written.
LEMMA MovesOnly ==
    ASSUME AccTypes, AccAgree, AccAlone, NEW q \in AccRequests, acc[q] # AccIdle,
           NEW u, u = acc[q].user, NEW r, acc' = [acc EXCEPT ![q] = r],
           UNCHANGED <<wrote, userRow, ncpRow, details>>,
           r = AccIdle => Agreement(wrote[u], userRow[u], ncpRow[u], RowsOf(details, u)),
           r # AccIdle => /\ RequestOK(r) /\ r.user = u
                          /\ Claims(r, wrote[u], userRow[u], ncpRow[u], RowsOf(details, u))
    PROVE  AccTypes' /\ AccAgree'
<1>1. userRow' \in [AccUsers -> AccRow] /\ ncpRow' \in [AccUsers -> AccRow]
      /\ wrote' \in [AccUsers -> Writings] /\ IsFiniteSet(details')
  BY DEF AccTypes
<1>2. wrote' = wrote /\ userRow' = userRow /\ ncpRow' = ncpRow /\ details' = details
  OBVIOUS
<1>3. /\ r = AccIdle => Agreement(wrote'[u], userRow'[u], ncpRow'[u], RowsOf(details', u))
      /\ r # AccIdle => /\ RequestOK(r) /\ r.user = u
                        /\ Claims(r, wrote'[u], userRow'[u], ncpRow'[u], RowsOf(details', u))
  BY <1>2
<1>4. \A v \in AccUsers \ {u} :
              /\ wrote'[v] = wrote[v] /\ userRow'[v] = userRow[v] /\ ncpRow'[v] = ncpRow[v]
              /\ RowsOf(details', v) = RowsOf(details, v)
  BY <1>2
<1>5. QED
  BY <1>1, <1>3, <1>4, Moves

\* r with its first step taken off
Onward(n, r) ==
    n.op = r.op /\ n.user = r.user /\ n.host = r.host /\ n.todo = Tail(r.todo)

LEMMA AfterStep ==
    ASSUME NEW r, RequestOK(r), r.todo # <<>>, NEW n, Onward(n, r)
    PROVE  /\ \A x : Has(r.todo, x) <=> Head(r.todo) = x \/ Has(n.todo, x)
           /\ (r.op = "signup" /\ n.todo # <<>>) => Head(n.todo) # "absent"
           /\ (r.op \in {"signup", "login", "bizservice"} /\ n.todo # <<>>) =>
                 /\ Head(n.todo) = "saveUser" => Head(r.todo) = "readUser"
                 /\ Head(n.todo) = "saveNcp" => Head(r.todo) = "readNcp"
<1> DEFINE todo == n.todo
<1>1. todo = Tail(r.todo)
  BY DEF Onward
<1> HIDE DEF todo
<1>2. /\ \A x : Has(r.todo, x) <=> Head(r.todo) = x \/ Has(todo, x)
      /\ (r.op = "signup" /\ todo # <<>>) => Head(todo) # "absent"
      /\ (r.op \in {"signup", "login", "bizservice"} /\ todo # <<>>) =>
            /\ Head(todo) = "saveUser" => Head(r.todo) = "readUser"
            /\ Head(todo) = "saveNcp" => Head(r.todo) = "readNcp"
  BY <1>1, TakeOff
<1>3. QED
  BY <1>2 DEF todo

\* A step that reads.
LEMMA ReadClaims ==
    ASSUME NEW r, RequestOK(r), r.todo # <<>>, Head(r.todo) \in {"absent", "readUser", "readNcp"},
           NEW n, Onward(n, r), n.done = r.done, n.found = r.found,
           NEW w, NEW row, NEW ncp, NEW rows, Claims(r, w, row, ncp, rows),
           Head(r.todo) = "readUser" => n.row = row, Head(r.todo) = "readNcp" => n.ncp = ncp
    PROVE  Claims(n, w, row, ncp, rows)
<1>1. /\ \A x : x \notin {"absent", "readUser", "readNcp"} => (Has(r.todo, x) <=> Has(n.todo, x))
      /\ (r.op = "signup" /\ n.todo # <<>>) => Head(n.todo) # "absent"
      /\ (r.op \in {"signup", "login", "bizservice"} /\ n.todo # <<>>) =>
            /\ Head(n.todo) = "saveUser" => Head(r.todo) = "readUser"
            /\ Head(n.todo) = "saveNcp" => Head(r.todo) = "readNcp"
  BY AfterStep
<1>2. n.op = "hostnumber" => NumberClaims(n, w, row, rows)
  <2>1. ASSUME r.op = "hostnumber", Untouched(n) PROVE Untouched(r)
    <3>1. \A x : Has(n.todo, x) => Has(r.todo, x)
      BY AfterStep
    <3>2. QED
      BY <2>1, <3>1 DEF Untouched
  <2>2. QED
    BY <1>1, <2>1 DEF Claims, NumberClaims, Onward
<1>3. QED
  BY <1>1, <1>2 DEF Claims, Onward

\* The request that goes on with given rows, numbers and details.
Step(r, row, ncp, done, found) ==
    [op |-> r.op, user |-> r.user, host |-> r.host, todo |-> Tail(r.todo), row |-> row,
     ncp |-> ncp, done |-> done, found |-> found]

LEMMA StepOK ==
    ASSUME NEW r, RequestOK(r), r.todo # <<>>, NEW row \in AccRow, NEW ncp \in AccRow,
           NEW done \in 0..Len(r.host), NEW found, FoundOK(found, r.user), NEW n, n = Step(r, row, ncp, done, found)
    PROVE  /\ RequestOK(n) /\ Onward(n, r) /\ n.user = r.user /\ n # AccIdle
           /\ n.row = row /\ n.ncp = ncp /\ n.done = done /\ n.found = found
<1>1. /\ n.op = r.op /\ n.user = r.user /\ n.host = r.host /\ n.todo = Tail(r.todo)
      /\ n.row = row /\ n.ncp = ncp /\ n.done = done /\ n.found = found
  BY DEF Step
<1>2. n = [op |-> n.op, user |-> n.user, host |-> n.host, todo |-> n.todo, row |-> n.row,
           ncp |-> n.ncp, done |-> n.done, found |-> n.found]
  BY DEF Step
<1>3. PlanOK(n.op, n.todo)
  BY <1>1, TakeOff
<1>4. RequestOK(n)
  BY <1>1, <1>2, <1>3 DEF RequestOK
<1>5. n # AccIdle
  <2>1. n.op # "idle" /\ AccIdle.op = "idle"
    BY <1>4 DEF RequestOK, AccOps, AccIdle
  <2>2. QED
    BY <2>1
<1>6. QED
  BY <1>1, <1>4, <1>5 DEF Onward

Request(op, u, host, todo, row, ncp, done, found) ==
    [op |-> op, user |-> u, host |-> host, todo |-> todo, row |-> row, ncp |-> ncp,
     done |-> done, found |-> found]

LEMMA TodoForm ==
    ASSUME NEW a, NEW b, NEW c, NEW d, NEW e, NEW f, NEW g, NEW h, NEW x, NEW r,
           r = Request(a, b, c, d, e, f, g, h)
    PROVE  [r EXCEPT !.todo = x] = Request(a, b, c, x, e, f, g, h)
  BY DEF Request

LEMMA RowForm ==
    ASSUME NEW a, NEW b, NEW c, NEW d, NEW e, NEW f, NEW g, NEW h, NEW x, NEW r,
           r = Request(a, b, c, d, e, f, g, h)
    PROVE  [r EXCEPT !.row = x] = Request(a, b, c, d, x, f, g, h)
  BY DEF Request

LEMMA NcpForm ==
    ASSUME NEW a, NEW b, NEW c, NEW d, NEW e, NEW f, NEW g, NEW h, NEW x, NEW r,
           r = Request(a, b, c, d, e, f, g, h)
    PROVE  [r EXCEPT !.ncp = x] = Request(a, b, c, d, e, x, g, h)
  BY DEF Request

LEMMA FoundForm ==
    ASSUME NEW a, NEW b, NEW c, NEW d, NEW e, NEW f, NEW g, NEW h, NEW x, NEW r,
           r = Request(a, b, c, d, e, f, g, h)
    PROVE  [r EXCEPT !.found = x] = Request(a, b, c, d, e, f, g, x)
  BY DEF Request

LEMMA StepForms ==
    ASSUME NEW r, RequestOK(r), NEW x
    PROVE  /\ [r EXCEPT !.todo = Tail(r.todo)] = Step(r, r.row, r.ncp, r.done, r.found)
           /\ [[r EXCEPT !.row = x] EXCEPT !.todo = Tail([r EXCEPT !.row = x].todo)] = Step(r, x, r.ncp, r.done, r.found)
           /\ [[r EXCEPT !.ncp = x] EXCEPT !.todo = Tail([r EXCEPT !.ncp = x].todo)] = Step(r, r.row, x, r.done, r.found)
           /\ [[r EXCEPT !.found = x] EXCEPT !.todo = Tail([r EXCEPT !.found = x].todo)] = Step(r, r.row, r.ncp, r.done, x)
<1> DEFINE t == Tail(r.todo)
           form(todo, row, ncp, found) == Request(r.op, r.user, r.host, todo, row, ncp, r.done, found)
           newRow == [r EXCEPT !.row = x]
           newNcp == [r EXCEPT !.ncp = x]
           newFound == [r EXCEPT !.found = x]
<1>1. r = form(r.todo, r.row, r.ncp, r.found)
  BY DEF RequestOK, Request
<1>2. /\ newRow = form(r.todo, x, r.ncp, r.found) /\ newNcp = form(r.todo, r.row, x, r.found)
      /\ newFound = form(r.todo, r.row, r.ncp, x)
  BY <1>1, RowForm, NcpForm, FoundForm
<1>3. newRow.todo = r.todo /\ newNcp.todo = r.todo /\ newFound.todo = r.todo
  BY <1>2 DEF Request
<1> HIDE DEF newRow, newNcp, newFound, t
<1>4. /\ [r EXCEPT !.todo = t] = form(t, r.row, r.ncp, r.found)
      /\ [newRow EXCEPT !.todo = t] = form(t, x, r.ncp, r.found)
      /\ [newNcp EXCEPT !.todo = t] = form(t, r.row, x, r.found)
      /\ [newFound EXCEPT !.todo = t] = form(t, r.row, r.ncp, x)
  <2>1. [r EXCEPT !.todo = t] = form(t, r.row, r.ncp, r.found)
    BY <1>1, TodoForm
  <2>2. [newRow EXCEPT !.todo = t] = form(t, x, r.ncp, r.found)
    BY <1>2, TodoForm
  <2>3. [newNcp EXCEPT !.todo = t] = form(t, r.row, x, r.found)
    BY <1>2, TodoForm
  <2>4. [newFound EXCEPT !.todo = t] = form(t, r.row, r.ncp, x)
    BY <1>2, TodoForm
  <2>5. QED
    BY <2>1, <2>2, <2>3, <2>4
<1>5. \A row, ncp, found : form(t, row, ncp, found) = Step(r, row, ncp, r.done, found)
  BY DEF Request, Step, t
<1> HIDE DEF form
<1>6. /\ [r EXCEPT !.todo = t] = Step(r, r.row, r.ncp, r.done, r.found)
      /\ [newRow EXCEPT !.todo = Tail(newRow.todo)] = Step(r, x, r.ncp, r.done, r.found)
      /\ [newNcp EXCEPT !.todo = Tail(newNcp.todo)] = Step(r, r.row, x, r.done, r.found)
      /\ [newFound EXCEPT !.todo = Tail(newFound.todo)] = Step(r, r.row, r.ncp, r.done, x)
  BY <1>3, <1>4, <1>5 DEF t
<1>7. QED
  BY <1>6 DEF t, newRow, newNcp, newFound

LEMMA StepHere ==
    ASSUME AccTypes, AccAgree, AccAlone, NEW q \in AccRequests, NEW s, AccAt(q, s),
           NEW r, r = acc[q], NEW u, u = r.user
    PROVE  /\ r # AccIdle /\ r.todo # <<>> /\ Head(r.todo) = s /\ s \in StepsOf(r.op)
           /\ RequestOK(r) /\ u \in AccUsers /\ r.op \in AccOps
           /\ r.row \in AccRow /\ r.ncp \in AccRow /\ r.done \in 0..Len(r.host)
           /\ FoundOK(r.found, r.user) /\ r.host \in Seq(AccNumbers)
           /\ Claims(r, wrote[u], userRow[u], ncpRow[u], RowsOf(details, u))
           /\ userRow[u] \in AccRow /\ ncpRow[u] \in AccRow /\ wrote[u] \in Writings
<1>1. r # AccIdle /\ r.todo # <<>> /\ Head(r.todo) = s
  BY DEF AccAt, AccIdle
<1>2. /\ RequestOK(r) /\ u \in AccUsers
      /\ Claims(r, wrote[u], userRow[u], ncpRow[u], RowsOf(details, u))
      /\ userRow[u] \in AccRow /\ ncpRow[u] \in AccRow /\ wrote[u] \in Writings
  BY <1>1, RequestHere
<1>3. s \in StepsOf(r.op)
  BY <1>1, <1>2, TakeOff
<1>4. QED
  BY <1>1, <1>2, <1>3 DEF RequestOK

\* A request whose user or keys are not there has had nothing to agree with.
LEMMA RefusedAgree ==
    ASSUME NEW r, RequestOK(r), NEW w, NEW row, NEW ncp, NEW rows, Claims(r, w, row, ncp, rows),
           r.todo # <<>>, Head(r.todo) \in {"readUser", "readNcp"},
           row = AccNone \/ (ncp = AccNone /\ r.op # "signup")
    PROVE  Agreement(w, row, ncp, rows)
<1>1. r.op \in AccOps /\ Digits(r.host) # AccNone
  BY RowIsNotNone DEF RequestOK
<1>2. CASE r.op = "signup"
  BY <1>1, <1>2 DEF Claims
<1>3. CASE r.op = "update"
  BY <1>1, <1>3 DEF Claims, Agreement
<1>4. CASE r.op = "hostnumber"
  <2>1. Untouched(r)
    BY TakeOff DEF Untouched, RowSteps
  <2>2. QED
    BY <1>4, <2>1 DEF Claims, NumberClaims, Agreement
<1>5. CASE r.op \in {"login", "bizservice"}
  BY <1>1, <1>5 DEF Claims
<1>6. QED
  BY <1>1, <1>2, <1>3, <1>4, <1>5 DEF AccOps

LEMMA FindNoUserKeeps ==
    ASSUME AccTypes, AccAgree, AccAlone, NEW q \in AccRequests, FindNoUser(q)
    PROVE  AccTypes' /\ AccAgree'
<1> DEFINE r == acc[q]
           u == r.user
           n == Step(r, r.row, r.ncp, r.done, r.found)
<1>1. /\ r # AccIdle /\ r.todo # <<>> /\ Head(r.todo) = "absent" /\ "absent" \in StepsOf(r.op)
      /\ RequestOK(r) /\ r.row \in AccRow /\ r.ncp \in AccRow /\ r.done \in 0..Len(r.host)
      /\ FoundOK(r.found, r.user)
      /\ Claims(r, wrote[u], userRow[u], ncpRow[u], RowsOf(details, u))
  BY StepHere DEF FindNoUser
<1>2. r.op = "signup"
  BY <1>1 DEF StepsOf, RowSteps
<1>3. UNCHANGED <<wrote, userRow, ncpRow, details>>
  BY DEF FindNoUser
<1>4. acc' = [acc EXCEPT ![q] = n] \/ acc' = [acc EXCEPT ![q] = AccIdle]
  BY <1>1, StepForms DEF FindNoUser, AccOnward, AccRefused
<1>5. CASE acc' = [acc EXCEPT ![q] = n]
  <2>1. /\ RequestOK(n) /\ Onward(n, r) /\ n.done = r.done /\ n.found = r.found /\ n.user = u
        /\ n # AccIdle
    BY <1>1, StepOK
  <2> HIDE DEF n
  <2>2. Claims(n, wrote[u], userRow[u], ncpRow[u], RowsOf(details, u))
    BY <1>1, <2>1, ReadClaims
  <2>3. QED
    BY <1>1, <1>3, <1>5, <2>1, <2>2, MovesOnly
<1>6. CASE acc' = [acc EXCEPT ![q] = AccIdle]
  <2>1. Agreement(wrote[u], userRow[u], ncpRow[u], RowsOf(details, u))
    BY <1>1, <1>2 DEF Claims
  <2>2. QED
    BY <1>1, <1>3, <1>6, <2>1, MovesOnly
<1>7. QED
  BY <1>4, <1>5, <1>6

LEMMA ReadUserRowKeeps ==
    ASSUME AccTypes, AccAgree, AccAlone, NEW q \in AccRequests, ReadUserRow(q)
    PROVE  AccTypes' /\ AccAgree'
<1> DEFINE r == acc[q]
           u == r.user
           n == Step(r, userRow[u], r.ncp, r.done, r.found)
<1>1. /\ r # AccIdle /\ r.todo # <<>> /\ Head(r.todo) = "readUser"
      /\ RequestOK(r) /\ r.row \in AccRow /\ r.ncp \in AccRow /\ r.done \in 0..Len(r.host)
      /\ FoundOK(r.found, r.user) /\ wrote[u] \in Writings
      /\ userRow[u] \in AccRow
      /\ Claims(r, wrote[u], userRow[u], ncpRow[u], RowsOf(details, u))
  BY StepHere DEF ReadUserRow
<1>2. UNCHANGED <<wrote, userRow, ncpRow, details>>
  BY DEF ReadUserRow
<1>3. \/ acc' = [acc EXCEPT ![q] = n]
      \/ acc' = [acc EXCEPT ![q] = AccIdle] /\ userRow[u] = AccNone
  BY <1>1, StepForms DEF ReadUserRow, AccOnward, AccRefused
<1>4. CASE acc' = [acc EXCEPT ![q] = n]
  <2>1. /\ RequestOK(n) /\ Onward(n, r) /\ n.done = r.done /\ n.found = r.found /\ n.user = u
        /\ n # AccIdle /\ n.row = userRow[u]
    BY <1>1, StepOK
  <2> HIDE DEF n
  <2>2. Claims(n, wrote[u], userRow[u], ncpRow[u], RowsOf(details, u))
    BY <1>1, <2>1, ReadClaims
  <2>3. QED
    BY <1>1, <1>2, <1>4, <2>1, <2>2, MovesOnly
<1>5. CASE acc' = [acc EXCEPT ![q] = AccIdle] /\ userRow[u] = AccNone
  <2>1. Agreement(wrote[u], userRow[u], ncpRow[u], RowsOf(details, u))
    BY <1>1, <1>5, RefusedAgree
  <2>2. QED
    BY <1>1, <1>2, <1>5, <2>1, MovesOnly
<1>6. QED
  BY <1>3, <1>4, <1>5

LEMMA ReadNcpRowKeeps ==
    ASSUME AccTypes, AccAgree, AccAlone, NEW q \in AccRequests, ReadNcpRow(q)
    PROVE  AccTypes' /\ AccAgree'
<1> DEFINE r == acc[q]
           u == r.user
           n == Step(r, r.row, ncpRow[u], r.done, r.found)
<1>1. /\ r # AccIdle /\ r.todo # <<>> /\ Head(r.todo) = "readNcp" /\ "readNcp" \in StepsOf(r.op)
      /\ RequestOK(r) /\ r.row \in AccRow /\ r.ncp \in AccRow /\ r.done \in 0..Len(r.host)
      /\ FoundOK(r.found, r.user) /\ wrote[u] \in Writings
      /\ ncpRow[u] \in AccRow
      /\ Claims(r, wrote[u], userRow[u], ncpRow[u], RowsOf(details, u))
  BY StepHere DEF ReadNcpRow
<1>2. UNCHANGED <<wrote, userRow, ncpRow, details>>
  BY DEF ReadNcpRow
<1>3. \/ acc' = [acc EXCEPT ![q] = n]
      \/ acc' = [acc EXCEPT ![q] = AccIdle] /\ ncpRow[u] = AccNone
  BY <1>1, StepForms DEF ReadNcpRow, AccOnward, AccRefused
<1>4. CASE acc' = [acc EXCEPT ![q] = n]
  <2>1. /\ RequestOK(n) /\ Onward(n, r) /\ n.done = r.done /\ n.found = r.found /\ n.user = u
        /\ n # AccIdle /\ n.ncp = ncpRow[u]
    BY <1>1, StepOK
  <2> HIDE DEF n
  <2>2. Claims(n, wrote[u], userRow[u], ncpRow[u], RowsOf(details, u))
    BY <1>1, <2>1, ReadClaims
  <2>3. QED
    BY <1>1, <1>2, <1>4, <2>1, <2>2, MovesOnly
<1>5. CASE acc' = [acc EXCEPT ![q] = AccIdle] /\ ncpRow[u] = AccNone
  <2>1. r.op # "signup"
    BY <1>1 DEF StepsOf
  <2>2. Agreement(wrote[u], userRow[u], ncpRow[u], RowsOf(details, u))
    BY <1>1, <1>5, <2>1, RefusedAgree
  <2>3. QED
    BY <1>1, <1>2, <1>5, <2>2, MovesOnly
<1>6. QED
  BY <1>3, <1>4, <1>5

\* One entry of a row is written.
LEMMA Written ==
    ASSUME NEW S, NEW f \in [AccUsers -> S], NEW u \in AccUsers, NEW x \in S,
           NEW g, g = [f EXCEPT ![u] = x]
    PROVE  g \in [AccUsers -> S] /\ g[u] = x /\ \A v \in AccUsers \ {u} : g[v] = f[v]
  OBVIOUS

LEMMA NewUserKeeps ==
    ASSUME AccTypes, AccAgree, AccAlone, NEW q \in AccRequests, NewUser(q)
    PROVE  AccTypes' /\ AccAgree'
<1> DEFINE r == acc[q]
           u == r.user
           n == Step(r, r.row, r.ncp, r.done, r.found)
           rows == RowsOf(details, u)
<1>1. /\ r # AccIdle /\ r.todo # <<>> /\ Head(r.todo) = "newUser" /\ "newUser" \in StepsOf(r.op)
      /\ RequestOK(r) /\ r.row \in AccRow /\ r.ncp \in AccRow /\ r.done \in 0..Len(r.host)
      /\ FoundOK(r.found, r.user) /\ r.host \in Seq(AccNumbers) /\ u \in AccUsers
      /\ Claims(r, wrote[u], userRow[u], ncpRow[u], rows)
  BY StepHere DEF NewUser
<1>2. r.op = "signup"
  BY <1>1 DEF StepsOf, RowSteps
<1>3. UNCHANGED <<wrote, ncpRow, details>>
  BY DEF NewUser
<1>4. /\ ncpRow' \in [AccUsers -> AccRow] /\ wrote' \in [AccUsers -> Writings]
      /\ IsFiniteSet(details')
      /\ userRow \in [AccUsers -> AccRow]
      /\ \A v \in AccUsers : wrote'[v] = wrote[v] /\ ncpRow'[v] = ncpRow[v]
                             /\ RowsOf(details', v) = RowsOf(details, v)
  BY <1>3 DEF AccTypes
<1>5. Has(r.todo, "newUser") /\ Agreement(wrote[u], userRow[u], ncpRow[u], rows) /\ r.done = 0
  <2>1. Has(r.todo, "newUser")
    BY <1>1, TakeOff
  <2>2. QED
    BY <1>1, <1>2, <2>1 DEF Claims
<1>6. CASE userRow[u] = AccNone
  <2>1. /\ userRow' = [userRow EXCEPT ![u] = Digits(r.host)] /\ acc' = [acc EXCEPT ![q] = n]
    BY <1>1, <1>6, StepForms DEF NewUser, AccOnward
  <2>2. Digits(r.host) \in AccRow
    BY <1>1, RowIsNotNone DEF AccRow
  <2>3. /\ userRow' \in [AccUsers -> AccRow] /\ userRow'[u] = Digits(r.host)
        /\ \A v \in AccUsers \ {u} : userRow'[v] = userRow[v]
    BY <1>1, <1>4, <2>1, <2>2, Written
  <2>4. /\ RequestOK(n) /\ Onward(n, r) /\ n.user = u /\ n # AccIdle /\ n.done = r.done
    BY <1>1, StepOK
  <2> HIDE DEF n
  <2>5. /\ \A x : Has(r.todo, x) <=> Head(r.todo) = x \/ Has(n.todo, x)
        /\ n.todo # <<>> => Head(n.todo) # "absent"
        /\ n.todo # <<>> => Head(n.todo) # "saveUser" /\ Head(n.todo) # "saveNcp"
    <3>1. /\ \A x : Has(r.todo, x) <=> Head(r.todo) = x \/ Has(n.todo, x)
          /\ (r.op = "signup" /\ n.todo # <<>>) => Head(n.todo) # "absent"
          /\ (r.op \in {"signup", "login", "bizservice"} /\ n.todo # <<>>) =>
                /\ Head(n.todo) = "saveUser" => Head(r.todo) = "readUser"
                /\ Head(n.todo) = "saveNcp" => Head(r.todo) = "readNcp"
      BY <1>1, <2>4, AfterStep
    <3>2. QED
      BY <1>1, <1>2, <3>1
  <2>6. n.op = "signup" /\ n.host = r.host
    BY <1>2, <2>4 DEF Onward
  <2>7. ~Has(n.todo, "newNcp") => ncpRow[u] = Digits(r.host)
    BY <1>1, <1>2, <2>5 DEF Claims
  <2>8. /\ Listed(rows, r.host, 0)
        /\ ~Has(n.todo, "details") => r.done = Len(r.host)
        /\ Agreement(wrote[u], Digits(r.host), ncpRow[u], rows)
    <3>1. rows = {}
      BY <1>5, <1>6 DEF Agreement, Fresh
    <3>2. Listed(rows, r.host, 0)
      BY <3>1, NothingListed
    <3>3. ~Has(n.todo, "details") => r.done = Len(r.host)
      BY <1>1, <1>2, <2>5 DEF Claims
    <3>4. Agreement(wrote[u], Digits(r.host), ncpRow[u], rows)
      <4>1. Digits(r.host) # AccNone
        BY <1>1, RowIsNotNone
      <4>2. QED
        BY <1>5, <1>6, <4>1 DEF Agreement, Fresh
    <3>5. QED
      BY <3>2, <3>3, <3>4
  <2>9. Claims(n, wrote[u], Digits(r.host), ncpRow[u], rows)
    BY <1>5, <2>4, <2>5, <2>6, <2>7, <2>8 DEF Claims
  <2>10. Claims(n, wrote'[u], userRow'[u], ncpRow'[u], RowsOf(details', u))
    BY <1>1, <1>4, <2>3, <2>9
  <2>11. QED
    BY <1>1, <1>4, <2>1, <2>3, <2>4, <2>10, Moves
<1>7. CASE userRow[u] # AccNone
  <2>1. acc' = [acc EXCEPT ![q] = AccIdle] /\ UNCHANGED <<wrote, userRow, ncpRow, details>>
    BY <1>3, <1>7 DEF NewUser, AccRefused
  <2>2. QED
    BY <1>1, <1>5, <2>1, MovesOnly
<1>8. QED
  BY <1>6, <1>7

LEMMA NewNcpKeeps ==
    ASSUME AccTypes, AccAgree, AccAlone, NEW q \in AccRequests, NewNcp(q)
    PROVE  AccTypes' /\ AccAgree'
<1> DEFINE r == acc[q]
           u == r.user
           n == Step(r, r.row, r.ncp, r.done, r.found)
           rows == RowsOf(details, u)
<1>1. /\ r # AccIdle /\ r.todo # <<>> /\ Head(r.todo) = "newNcp" /\ "newNcp" \in StepsOf(r.op)
      /\ RequestOK(r) /\ r.row \in AccRow /\ r.ncp \in AccRow /\ r.done \in 0..Len(r.host)
      /\ FoundOK(r.found, r.user) /\ r.host \in Seq(AccNumbers) /\ u \in AccUsers
      /\ Claims(r, wrote[u], userRow[u], ncpRow[u], rows)
  BY StepHere DEF NewNcp
<1>2. r.op = "signup"
  BY <1>1 DEF StepsOf, RowSteps
<1>3. UNCHANGED <<wrote, userRow, details>>
  BY DEF NewNcp
<1>4. /\ userRow' \in [AccUsers -> AccRow] /\ wrote' \in [AccUsers -> Writings]
      /\ IsFiniteSet(details')
      /\ ncpRow \in [AccUsers -> AccRow]
      /\ \A v \in AccUsers : wrote'[v] = wrote[v] /\ userRow'[v] = userRow[v]
                             /\ RowsOf(details', v) = RowsOf(details, v)
  BY <1>3 DEF AccTypes
<1>5. /\ ncpRow' = [ncpRow EXCEPT ![u] = Digits(r.host)] /\ acc' = [acc EXCEPT ![q] = n]
  BY <1>1, StepForms DEF NewNcp, AccOnward
<1>6. Digits(r.host) \in AccRow
  BY <1>1, RowIsNotNone DEF AccRow
<1>7. /\ ncpRow' \in [AccUsers -> AccRow] /\ ncpRow'[u] = Digits(r.host)
      /\ \A v \in AccUsers \ {u} : ncpRow'[v] = ncpRow[v]
  BY <1>1, <1>4, <1>5, <1>6, Written
<1>8. /\ RequestOK(n) /\ Onward(n, r) /\ n.user = u /\ n # AccIdle /\ n.done = r.done
  BY <1>1, StepOK
<1> HIDE DEF n
<1>9. /\ \A x : Has(r.todo, x) <=> Head(r.todo) = x \/ Has(n.todo, x)
      /\ n.todo # <<>> => Head(n.todo) # "absent"
      /\ n.todo # <<>> => Head(n.todo) # "saveUser" /\ Head(n.todo) # "saveNcp"
  <2>1. /\ \A x : Has(r.todo, x) <=> Head(r.todo) = x \/ Has(n.todo, x)
        /\ (r.op = "signup" /\ n.todo # <<>>) => Head(n.todo) # "absent"
        /\ (r.op \in {"signup", "login", "bizservice"} /\ n.todo # <<>>) =>
              /\ Head(n.todo) = "saveUser" => Head(r.todo) = "readUser"
              /\ Head(n.todo) = "saveNcp" => Head(r.todo) = "readNcp"
    BY <1>1, <1>8, AfterStep
  <2>2. QED
    BY <1>1, <1>2, <2>1
<1>10. ~Has(r.todo, "newUser")
  BY <1>1, <1>2, TakeOff
<1>11. n.op = "signup" /\ n.host = r.host
  BY <1>2, <1>8 DEF Onward
<1>12. /\ userRow[u] = Digits(r.host) /\ Listed(rows, r.host, r.done)
       /\ ~Has(n.todo, "details") => r.done = Len(r.host)
  BY <1>1, <1>2, <1>9, <1>10 DEF Claims
<1>13. Claims(n, wrote[u], userRow[u], Digits(r.host), rows)
  BY <1>8, <1>9, <1>10, <1>11, <1>12 DEF Claims
<1>14. Claims(n, wrote'[u], userRow'[u], ncpRow'[u], RowsOf(details', u))
  BY <1>1, <1>4, <1>7, <1>13
<1>15. QED
  BY <1>1, <1>4, <1>5, <1>7, <1>8, <1>14, Moves

LEMMA SaveUserRowKeeps ==
    ASSUME AccTypes, AccAgree, AccAlone, NEW q \in AccRequests, SaveUserRow(q)
    PROVE  AccTypes' /\ AccAgree'
<1> DEFINE r == acc[q]
           u == r.user
           n == Step(r, r.row, r.ncp, r.done, r.found)
           rows == RowsOf(details, u)
           new == IF Renumbers(r) THEN r.host ELSE r.row
<1>1. /\ r # AccIdle /\ r.todo # <<>> /\ Head(r.todo) = "saveUser"
      /\ RequestOK(r) /\ r.row \in AccRow /\ r.ncp \in AccRow /\ r.done \in 0..Len(r.host)
      /\ FoundOK(r.found, r.user) /\ r.host \in Seq(AccNumbers) /\ u \in AccUsers
      /\ Claims(r, wrote[u], userRow[u], ncpRow[u], rows) /\ r.op \in AccOps
  BY StepHere DEF SaveUserRow
<1>2. UNCHANGED <<wrote, ncpRow, details>>
  BY DEF SaveUserRow
<1>3. /\ ncpRow' \in [AccUsers -> AccRow] /\ wrote' \in [AccUsers -> Writings]
      /\ IsFiniteSet(details')
      /\ userRow \in [AccUsers -> AccRow]
      /\ \A v \in AccUsers : wrote'[v] = wrote[v] /\ ncpRow'[v] = ncpRow[v]
                             /\ RowsOf(details', v) = RowsOf(details, v)
  BY <1>2 DEF AccTypes
<1>4. /\ userRow' = [userRow EXCEPT ![u] = new] /\ acc' = [acc EXCEPT ![q] = n]
  BY <1>1, StepForms DEF SaveUserRow, AccOnward
<1>5. new \in AccRow
  BY <1>1 DEF AccRow
<1>6. /\ userRow' \in [AccUsers -> AccRow] /\ userRow'[u] = new
      /\ \A v \in AccUsers \ {u} : userRow'[v] = userRow[v]
  BY <1>1, <1>3, <1>4, <1>5, Written
<1>7. /\ RequestOK(n) /\ Onward(n, r) /\ n.user = u /\ n # AccIdle
      /\ n.done = r.done /\ n.found = r.found
  BY <1>1, StepOK
<1> HIDE DEF n
<1>8. /\ \A x : Has(r.todo, x) <=> Head(r.todo) = x \/ Has(n.todo, x)
      /\ (r.op = "signup" /\ n.todo # <<>>) => Head(n.todo) # "absent"
      /\ (r.op \in {"signup", "login", "bizservice"} /\ n.todo # <<>>) =>
            /\ Head(n.todo) = "saveUser" => Head(r.todo) = "readUser"
            /\ Head(n.todo) = "saveNcp" => Head(r.todo) = "readNcp"
  BY <1>1, <1>7, AfterStep
<1>9. n.op = r.op /\ n.host = r.host
  BY <1>7 DEF Onward
<1>10. ASSUME Renumbers(r) PROVE Claims(n, wrote[u], new, ncpRow[u], rows)
  <2>1. new = r.host /\ r.host # AccNone
    BY <1>1, <1>10, RowIsNotNone
  <2>2. \A x : x # "saveUser" => (Has(r.todo, x) <=> Has(n.todo, x))
    BY <1>1, <1>8
  <2>3. r.op = "hostnumber" => NumberClaims(n, wrote[u], new, rows)
    <3>1. SUFFICES ASSUME r.op = "hostnumber" PROVE NumberClaims(n, wrote[u], new, rows)
      OBVIOUS
    <3>2. NumberClaims(r, wrote[u], userRow[u], rows) /\ Untouched(r)
      <4>1. Has(r.todo, "saveUser")
        BY <1>1, <1>8
      <4>2. QED
        BY <1>1, <3>1, <4>1 DEF Claims, Untouched, RowSteps
    <3>3. MemosAgree(wrote[u], rows) /\ Fresh(new, rows)
      BY <2>1, <3>2 DEF NumberClaims, Fresh
    <3>4. QED
      BY <1>7, <1>9, <2>2, <3>2, <3>3 DEF NumberClaims
  <2>4. r.op = "update" => MemosAgree(wrote[u], rows) /\ Fresh(r.host, rows)
    BY <1>1, <2>1 DEF Claims, Fresh
  <2>5. Claims(n, wrote[u], r.host, ncpRow[u], rows)
    BY <1>1, <1>9, <1>10, <2>1, <2>2, <2>3, <2>4 DEF Claims, Renumbers
  <2>6. QED
    BY <2>1, <2>5
<1>11. ASSUME ~Renumbers(r) PROVE Claims(n, wrote[u], new, ncpRow[u], rows)
  <2>1. r.op \in {"signup", "login", "bizservice"}
    BY <1>1, <1>11 DEF Renumbers, AccOps
  <2>2. new = userRow[u]
    BY <1>1, <1>11, <2>1 DEF Claims
  <2>3. \A x : x # "saveUser" => (Has(r.todo, x) <=> Has(n.todo, x))
    BY <1>1, <1>8
  <2>4. n.todo # <<>> => Head(n.todo) # "saveUser" /\ Head(n.todo) # "saveNcp"
    BY <1>1, <1>8, <2>1
  <2>5. Claims(n, wrote[u], userRow[u], ncpRow[u], rows)
    BY <1>1, <1>7, <1>8, <1>9, <2>1, <2>3, <2>4 DEF Claims
  <2>6. QED
    BY <2>2, <2>5
<1>12. Claims(n, wrote[u], new, ncpRow[u], rows)
  BY <1>10, <1>11
<1>13. Claims(n, wrote'[u], userRow'[u], ncpRow'[u], RowsOf(details', u))
  BY <1>1, <1>3, <1>6, <1>12
<1> HIDE DEF new
<1>14. QED
  BY <1>1, <1>3, <1>4, <1>6, <1>7, <1>13, Moves

LEMMA SaveNcpRowKeeps ==
    ASSUME AccTypes, AccAgree, AccAlone, NEW q \in AccRequests, SaveNcpRow(q)
    PROVE  AccTypes' /\ AccAgree'
<1> DEFINE r == acc[q]
           u == r.user
           n == Step(r, r.row, r.ncp, r.done, r.found)
           rows == RowsOf(details, u)
           new == IF Renumbers(r) THEN r.host ELSE r.ncp
<1>1. /\ r # AccIdle /\ r.todo # <<>> /\ Head(r.todo) = "saveNcp"
      /\ RequestOK(r) /\ r.row \in AccRow /\ r.ncp \in AccRow /\ r.done \in 0..Len(r.host)
      /\ FoundOK(r.found, r.user) /\ r.host \in Seq(AccNumbers) /\ u \in AccUsers
      /\ Claims(r, wrote[u], userRow[u], ncpRow[u], rows) /\ r.op \in AccOps
  BY StepHere DEF SaveNcpRow
<1>2. UNCHANGED <<wrote, userRow, details>>
  BY DEF SaveNcpRow
<1>3. /\ userRow' \in [AccUsers -> AccRow] /\ wrote' \in [AccUsers -> Writings]
      /\ IsFiniteSet(details')
      /\ ncpRow \in [AccUsers -> AccRow]
      /\ \A v \in AccUsers : wrote'[v] = wrote[v] /\ userRow'[v] = userRow[v]
                             /\ RowsOf(details', v) = RowsOf(details, v)
  BY <1>2 DEF AccTypes
<1>4. /\ ncpRow' = [ncpRow EXCEPT ![u] = new] /\ acc' = [acc EXCEPT ![q] = n]
  BY <1>1, StepForms DEF SaveNcpRow, AccOnward
<1>5. new \in AccRow
  BY <1>1 DEF AccRow
<1>6. /\ ncpRow' \in [AccUsers -> AccRow] /\ ncpRow'[u] = new
      /\ \A v \in AccUsers \ {u} : ncpRow'[v] = ncpRow[v]
  BY <1>1, <1>3, <1>4, <1>5, Written
<1>7. /\ RequestOK(n) /\ Onward(n, r) /\ n.user = u /\ n # AccIdle
      /\ n.done = r.done /\ n.found = r.found
  BY <1>1, StepOK
<1> HIDE DEF n
<1>8. /\ \A x : Has(r.todo, x) <=> Head(r.todo) = x \/ Has(n.todo, x)
      /\ (r.op = "signup" /\ n.todo # <<>>) => Head(n.todo) # "absent"
      /\ (r.op \in {"signup", "login", "bizservice"} /\ n.todo # <<>>) =>
            /\ Head(n.todo) = "saveUser" => Head(r.todo) = "readUser"
            /\ Head(n.todo) = "saveNcp" => Head(r.todo) = "readNcp"
  BY <1>1, <1>7, AfterStep
<1>9. n.op = r.op /\ n.host = r.host
  BY <1>7 DEF Onward
<1>10. ASSUME Renumbers(r) PROVE Claims(n, wrote[u], userRow[u], new, rows)
  <2>1. new = r.host /\ r.host # AccNone
    BY <1>1, <1>10, RowIsNotNone
  <2>2. \A x : x # "saveNcp" => (Has(r.todo, x) <=> Has(n.todo, x))
    BY <1>1, <1>8
  <2>3. r.op = "hostnumber" => NumberClaims(n, wrote[u], userRow[u], rows)
    <3>1. SUFFICES ASSUME r.op = "hostnumber" PROVE NumberClaims(n, wrote[u], userRow[u], rows)
      OBVIOUS
    <3>2. NumberClaims(r, wrote[u], userRow[u], rows) /\ Untouched(r)
      <4>1. Has(r.todo, "saveNcp")
        BY <1>1, <1>8
      <4>2. QED
        BY <1>1, <3>1, <4>1 DEF Claims, Untouched, RowSteps
    <3>3. MemosAgree(wrote[u], rows) /\ Fresh(userRow[u], rows)
      BY <2>1, <3>2 DEF NumberClaims, Fresh
    <3>4. QED
      BY <1>7, <1>9, <2>2, <3>2, <3>3 DEF NumberClaims
  <2>4. Claims(n, wrote[u], userRow[u], r.host, rows)
    BY <1>1, <1>9, <1>10, <2>1, <2>2, <2>3 DEF Claims, Renumbers
  <2>5. QED
    BY <2>1, <2>4
<1>11. ASSUME ~Renumbers(r) PROVE Claims(n, wrote[u], userRow[u], new, rows)
  <2>1. r.op \in {"signup", "login", "bizservice"}
    BY <1>1, <1>11 DEF Renumbers, AccOps
  <2>2. new = ncpRow[u]
    BY <1>1, <1>11, <2>1 DEF Claims
  <2>3. \A x : x # "saveNcp" => (Has(r.todo, x) <=> Has(n.todo, x))
    BY <1>1, <1>8
  <2>4. n.todo # <<>> => Head(n.todo) # "saveUser" /\ Head(n.todo) # "saveNcp"
    BY <1>1, <1>8, <2>1
  <2>5. Claims(n, wrote[u], userRow[u], ncpRow[u], rows)
    BY <1>1, <1>7, <1>8, <1>9, <2>1, <2>3, <2>4 DEF Claims
  <2>6. QED
    BY <2>2, <2>5
<1>12. Claims(n, wrote[u], userRow[u], new, rows)
  BY <1>10, <1>11
<1>13. Claims(n, wrote'[u], userRow'[u], ncpRow'[u], RowsOf(details', u))
  BY <1>1, <1>3, <1>6, <1>12
<1> HIDE DEF new
<1>14. QED
  BY <1>1, <1>3, <1>4, <1>6, <1>7, <1>13, Moves

LEMMA FindDetailsKeeps ==
    ASSUME AccTypes, AccAgree, AccAlone, NEW q \in AccRequests, FindDetails(q)
    PROVE  AccTypes' /\ AccAgree'
<1> DEFINE r == acc[q]
           u == r.user
           rows == RowsOf(details, u)
           n == Step(r, r.row, r.ncp, r.done, rows)
<1>1. /\ r # AccIdle /\ r.todo # <<>> /\ Head(r.todo) = "find" /\ "find" \in StepsOf(r.op)
      /\ RequestOK(r) /\ r.row \in AccRow /\ r.ncp \in AccRow /\ r.done \in 0..Len(r.host)
      /\ Claims(r, wrote[u], userRow[u], ncpRow[u], rows)
  BY StepHere DEF FindDetails
<1>2. r.op = "hostnumber"
  BY <1>1 DEF StepsOf, RowSteps
<1>3. UNCHANGED <<wrote, userRow, ncpRow, details>>
  BY DEF FindDetails
<1>4. acc' = [acc EXCEPT ![q] = n]
  <2>1. acc' = [acc EXCEPT ![q] = [[r EXCEPT !.found = rows] EXCEPT !.todo = Tail([r EXCEPT !.found = rows].todo)]]
    BY DEF FindDetails, AccOnward, RowsOf
  <2> HIDE DEF rows
  <2>2. RequestOK(r)
    BY <1>1
  <2> HIDE DEF r
  <2>3. [[r EXCEPT !.found = rows] EXCEPT !.todo = Tail([r EXCEPT !.found = rows].todo)] = n
    BY <2>2, StepForms
  <2>4. QED
    BY <2>1, <2>3
<1>5. FoundOK(rows, r.user)
  BY FS_Subset DEF RowsOf, FoundOK, AccTypes
<1> HIDE DEF rows
<1>6. /\ RequestOK(n) /\ Onward(n, r) /\ n.user = u /\ n # AccIdle
      /\ n.done = r.done /\ n.found = rows
  BY <1>1, <1>5, StepOK
<1> HIDE DEF n
<1>7. \A x : x # "find" => (Has(r.todo, x) <=> Has(n.todo, x))
  <2>1. \A x : Has(r.todo, x) <=> Head(r.todo) = x \/ Has(n.todo, x)
    BY <1>1, <1>6, AfterStep
  <2>2. QED
    BY <1>1, <2>1
<1>8. n.op = "hostnumber" /\ n.host = r.host
  BY <1>2, <1>6 DEF Onward
<1>9. NumberClaims(n, wrote[u], userRow[u], rows)
  <2>1. NumberClaims(r, wrote[u], userRow[u], rows)
    BY <1>1, <1>2 DEF Claims
  <2>2. Untouched(n) => Untouched(r)
    BY <1>7 DEF Untouched, RowSteps
  <2>3. QED
    BY <1>6, <1>7, <1>8, <2>1, <2>2 DEF NumberClaims
<1>10. Claims(n, wrote[u], userRow[u], ncpRow[u], rows)
  BY <1>1, <1>2, <1>7, <1>8, <1>9 DEF Claims
<1>11. QED
  BY <1>1, <1>3, <1>4, <1>6, <1>10, MovesOnly DEF rows

LEMMA RemoveDetailsKeeps ==
    ASSUME AccTypes, AccAgree, AccAlone, NEW q \in AccRequests, RemoveDetails(q)
    PROVE  AccTypes' /\ AccAgree'
<1> DEFINE r == acc[q]
           u == r.user
           rows == RowsOf(details, u)
           none == {}
           n == Step(r, r.row, r.ncp, r.done, none)
<1>1. /\ r # AccIdle /\ r.todo # <<>> /\ Head(r.todo) = "remove" /\ "remove" \in StepsOf(r.op)
      /\ RequestOK(r) /\ r.row \in AccRow /\ r.ncp \in AccRow /\ r.done \in 0..Len(r.host)
      /\ Claims(r, wrote[u], userRow[u], ncpRow[u], rows)
      /\ FoundOK(r.found, r.user) /\ u \in AccUsers
  BY StepHere DEF RemoveDetails
<1>2. r.op = "hostnumber"
  BY <1>1 DEF StepsOf, RowSteps
<1>3. /\ wrote' = wrote /\ userRow' = userRow /\ ncpRow' = ncpRow /\ details' = details \ r.found
  BY DEF RemoveDetails
<1>4. acc' = [acc EXCEPT ![q] = n]
  <2> DEFINE cleared == [r EXCEPT !.found = none]
  <2>1. [cleared EXCEPT !.todo = Tail(cleared.todo)] = n
    BY <1>1, StepForms
  <2>2. acc' = [acc EXCEPT ![q] = [cleared EXCEPT !.todo = Tail(cleared.todo)]]
    BY DEF RemoveDetails, AccOnward
  <2>3. QED
    BY <2>1, <2>2
<1>5. /\ RequestOK(n) /\ Onward(n, r) /\ n.user = u /\ n # AccIdle
      /\ n.done = r.done /\ n.found = none
  <2>1. FoundOK(none, r.user)
    BY FS_EmptySet DEF FoundOK
  <2>2. QED
    BY <1>1, <2>1, StepOK
<1> HIDE DEF n
<1>6. \A x : x # "remove" => (Has(r.todo, x) <=> Has(n.todo, x))
  <2>1. \A x : Has(r.todo, x) <=> Head(r.todo) = x \/ Has(n.todo, x)
    BY <1>1, <1>5, AfterStep
  <2>2. QED
    BY <1>1, <2>1
<1>7. n.op = "hostnumber" /\ n.host = r.host
  BY <1>2, <1>5 DEF Onward
<1>8. /\ NumberClaims(r, wrote[u], userRow[u], rows)
      /\ ~Has(r.todo, "find") /\ Has(r.todo, "remove") /\ \A x \in RowSteps : ~Has(r.todo, x)
  BY <1>1, <1>2, TakeOff DEF Claims
<1>9. /\ r.done = 0 /\ r.found = rows
      /\ Untouched(n) => MemosAgree(wrote[u], none) /\ Fresh(userRow[u], none)
  <2>1. r.done = 0 /\ r.found = rows
    BY <1>8 DEF NumberClaims
  <2>2. ~Untouched(n)
    BY <1>6, <1>8 DEF Untouched, RowSteps
  <2>3. QED
    BY <2>1, <2>2
<1>10. RowsOf(details', u) = none /\ \A v \in AccUsers \ {u} : RowsOf(details', v) = RowsOf(details, v)
  <2>1. RowsOf(details', u) = none
    BY <1>3, <1>9 DEF RowsOf
  <2>2. \A v \in AccUsers \ {u} : RowsOf(details', v) = RowsOf(details, v)
    BY <1>1, <1>3 DEF RowsOf, FoundOK
  <2>3. QED
    BY <2>1, <2>2
<1>11. NumberClaims(n, wrote[u], userRow[u], none)
  <2>1. Listed(none, r.host, 0)
    BY NothingListed
  <2>2. QED
    BY <1>5, <1>6, <1>7, <1>8, <1>9, <2>1 DEF NumberClaims
<1> HIDE DEF none, rows
<1>12. Claims(n, wrote[u], userRow[u], ncpRow[u], none)
  BY <1>1, <1>2, <1>6, <1>7, <1>11 DEF Claims
<1>13. /\ userRow' \in [AccUsers -> AccRow] /\ ncpRow' \in [AccUsers -> AccRow]
       /\ wrote' \in [AccUsers -> Writings] /\ IsFiniteSet(details')
  BY <1>3, FS_Subset DEF AccTypes
<1>14. Claims(n, wrote'[u], userRow'[u], ncpRow'[u], RowsOf(details', u))
  BY <1>3, <1>10, <1>12
<1>15. \A v \in AccUsers \ {u} :
          /\ wrote'[v] = wrote[v] /\ userRow'[v] = userRow[v] /\ ncpRow'[v] = ncpRow[v]
          /\ RowsOf(details', v) = RowsOf(details, v)
  BY <1>3, <1>10
<1>16. QED
  BY <1>1, <1>4, <1>5, <1>13, <1>14, <1>15, Moves

LEMMA DoneForm ==
    ASSUME NEW r, RequestOK(r), NEW x, x \in 0..Len(r.host), NEW n, n = [r EXCEPT !.done = x]
    PROVE  /\ RequestOK(n) /\ n.op = r.op /\ n.user = r.user /\ n.host = r.host /\ n.todo = r.todo
           /\ n.row = r.row /\ n.ncp = r.ncp /\ n.done = x /\ n.found = r.found /\ n # AccIdle
<1>1. r = Request(r.op, r.user, r.host, r.todo, r.row, r.ncp, r.done, r.found)
  BY DEF RequestOK, Request
<1>2. ASSUME NEW a, NEW b, NEW c, NEW d, NEW e, NEW f, NEW g, NEW h,
             r = Request(a, b, c, d, e, f, g, h)
      PROVE  n = Request(a, b, c, d, e, f, x, h)
  BY <1>2 DEF Request
<1>3. n = Request(r.op, r.user, r.host, r.todo, r.row, r.ncp, x, r.found)
  BY <1>1, <1>2
<1>4. /\ n.op = r.op /\ n.user = r.user /\ n.host = r.host /\ n.todo = r.todo
      /\ n.row = r.row /\ n.ncp = r.ncp /\ n.done = x /\ n.found = r.found
  BY <1>3 DEF Request
<1>5. n = [op |-> n.op, user |-> n.user, host |-> n.host, todo |-> n.todo, row |-> n.row,
           ncp |-> n.ncp, done |-> n.done, found |-> n.found]
  BY <1>3, <1>4 DEF Request
<1>6. RequestOK(n)
  BY <1>4, <1>5 DEF RequestOK
<1>7. n # AccIdle
  <2>1. n.op # "idle" /\ AccIdle.op = "idle"
    BY <1>6 DEF RequestOK, AccOps, AccIdle
  <2>2. QED
    BY <2>1
<1>8. QED
  BY <1>4, <1>6, <1>7

LEMMA SaveDetailKeeps ==
    ASSUME AccTypes, AccAgree, AccAlone, NEW q \in AccRequests, SaveDetail(q)
    PROVE  AccTypes' /\ AccAgree'
<1> DEFINE r == acc[q]
           u == r.user
           rows == RowsOf(details, u)
<1>1. /\ r # AccIdle /\ r.todo # <<>> /\ Head(r.todo) = "details" /\ "details" \in StepsOf(r.op)
      /\ RequestOK(r) /\ r.row \in AccRow /\ r.ncp \in AccRow /\ r.done \in 0..Len(r.host)
      /\ Claims(r, wrote[u], userRow[u], ncpRow[u], rows)
      /\ FoundOK(r.found, r.user) /\ u \in AccUsers
  BY StepHere DEF SaveDetail
<1>2. r.op \in {"signup", "hostnumber"}
  BY <1>1 DEF StepsOf, RowSteps
<1>3. /\ wrote' = wrote /\ userRow' = userRow /\ ncpRow' = ncpRow
      /\ userRow' \in [AccUsers -> AccRow] /\ ncpRow' \in [AccUsers -> AccRow]
      /\ wrote' \in [AccUsers -> Writings] /\ IsFiniteSet(details) /\ r.host \in Seq(AccNumbers)
  BY <1>1 DEF SaveDetail, AccTypes, RequestOK
<1>4. /\ Has(r.todo, "details")
      /\ r.op = "signup" => ~Has(r.todo, "newUser")
      /\ r.op = "hostnumber" => ~Has(r.todo, "remove") /\ NumberClaims(r, wrote[u], userRow[u], rows)
      /\ Listed(rows, r.host, r.done)
  <2>1. /\ Has(r.todo, "details")
        /\ r.op = "signup" => ~Has(r.todo, "newUser")
        /\ r.op = "hostnumber" => ~Has(r.todo, "remove") /\ NumberClaims(r, wrote[u], userRow[u], rows)
    BY <1>1, TakeOff DEF Claims
  <2>2. Listed(rows, r.host, r.done)
    BY <1>1, <1>2, <2>1 DEF Claims, NumberClaims
  <2>3. QED
    BY <2>1, <2>2
<1>5. CASE r.done = Len(r.host)
  <2> DEFINE n == Step(r, r.row, r.ncp, r.done, r.found)
  <2>1. acc' = [acc EXCEPT ![q] = n] /\ details' = details
    BY <1>1, <1>5, StepForms DEF SaveDetail, AccOnward
  <2>2. /\ RequestOK(n) /\ Onward(n, r) /\ n.user = u /\ n # AccIdle
        /\ n.done = r.done /\ n.found = r.found
    BY <1>1, StepOK
  <2> HIDE DEF n
  <2>3. /\ \A x : x # "details" => (Has(r.todo, x) <=> Has(n.todo, x))
        /\ (r.op = "signup" /\ n.todo # <<>>) => Head(n.todo) # "absent"
        /\ (r.op \in {"signup", "login", "bizservice"} /\ n.todo # <<>>) =>
              Head(n.todo) # "saveUser" /\ Head(n.todo) # "saveNcp"
    <3>1. /\ \A x : Has(r.todo, x) <=> Head(r.todo) = x \/ Has(n.todo, x)
          /\ (r.op = "signup" /\ n.todo # <<>>) => Head(n.todo) # "absent"
          /\ (r.op \in {"signup", "login", "bizservice"} /\ n.todo # <<>>) =>
                /\ Head(n.todo) = "saveUser" => Head(r.todo) = "readUser"
                /\ Head(n.todo) = "saveNcp" => Head(r.todo) = "readNcp"
      BY <1>1, <2>2, AfterStep
    <3>2. QED
      BY <1>1, <3>1
  <2>4. n.op = r.op /\ n.host = r.host
    BY <2>2 DEF Onward
  <2>5. r.op = "hostnumber" => NumberClaims(n, wrote[u], userRow[u], rows)
    <3>1. Untouched(n) => Untouched(r)
      BY <2>3 DEF Untouched, RowSteps
    <3>2. QED
      BY <1>4, <1>5, <2>2, <2>3, <2>4, <3>1 DEF NumberClaims
  <2>6. Claims(n, wrote[u], userRow[u], ncpRow[u], rows)
    BY <1>1, <1>2, <1>4, <1>5, <2>2, <2>3, <2>4, <2>5 DEF Claims
  <2>7. UNCHANGED <<wrote, userRow, ncpRow, details>>
    BY <1>3, <2>1
  <2>8. QED
    BY <1>1, <2>1, <2>2, <2>6, <2>7, MovesOnly
<1>6. ASSUME r.done # Len(r.host),
             details' = details \cup {[id |-> NewId, user |-> u, number |-> r.host[r.done + 1]]},
             acc' = [acc EXCEPT ![q].done = @ + 1]
      PROVE  AccTypes' /\ AccAgree'
  <2> DEFINE d == [id |-> NewId, user |-> u, number |-> r.host[r.done + 1]]
             done == r.done + 1
             n == [r EXCEPT !.done = done]
             new == rows \cup {d}
  <2>1. acc' = [acc EXCEPT ![q] = n]
    BY <1>6
  <2>2. done \in 0..Len(r.host) /\ RequestOK(r) /\ n = [r EXCEPT !.done = done]
    BY <1>1, <1>3, <1>6
  <2> HIDE DEF done, n
  <2>3. /\ RequestOK(n) /\ n.op = r.op /\ n.user = u /\ n.host = r.host /\ n.todo = r.todo
        /\ n.row = r.row /\ n.ncp = r.ncp /\ n.done = done /\ n.found = r.found /\ n # AccIdle
    BY <2>2, DoneForm
  <2>4. /\ d.user = u /\ d.number = r.host[r.done + 1] /\ details' = details \cup {d}
        /\ d \notin details
    <3>1. d.id = NewId
      OBVIOUS
    <3>2. d \notin details
      BY <3>1, IdIsNew
    <3>3. QED
      BY <1>6, <3>2
  <2> HIDE DEF d
  <2>5. RowsOf(details', u) = new
    BY <2>4 DEF RowsOf
  <2>6. /\ \A v \in AccUsers \ {u} : RowsOf(details', v) = RowsOf(details, v)
        /\ IsFiniteSet(details')
    <3>1. IsFiniteSet(details')
      BY <1>3, <2>4, FS_AddElement
    <3>2. QED
      BY <2>4, <3>1 DEF RowsOf
  <2>7. Listed(new, r.host, done)
    <3>1. IsFiniteSet(rows) /\ d \notin rows
      BY <1>3, <2>4, FS_Subset DEF RowsOf
    <3> HIDE DEF rows
    <3>2. QED
      BY <1>1, <1>3, <1>4, <1>6, <2>4, <3>1, RowCounted DEF done
  <2>8. r.op = "hostnumber" => NumberClaims(n, wrote[u], userRow[u], new)
    <3>1. SUFFICES ASSUME r.op = "hostnumber" PROVE NumberClaims(n, wrote[u], userRow[u], new)
      OBVIOUS
    <3>2. ~Has(n.todo, "remove") /\ ~Untouched(n) /\ Has(n.todo, "details")
      BY <1>1, <1>4, <2>3, <3>1, TakeOff DEF Untouched
    <3>3. QED
      BY <2>3, <2>7, <3>2 DEF NumberClaims
  <2> HIDE DEF new
  <2>9. Claims(n, wrote[u], userRow[u], ncpRow[u], new)
    BY <1>1, <1>2, <1>4, <2>3, <2>7, <2>8 DEF Claims
  <2>10. Claims(n, wrote'[u], userRow'[u], ncpRow'[u], RowsOf(details', u))
    BY <1>3, <2>5, <2>9
  <2>11. \A v \in AccUsers \ {u} :
            /\ wrote'[v] = wrote[v] /\ userRow'[v] = userRow[v] /\ ncpRow'[v] = ncpRow[v]
            /\ RowsOf(details', v) = RowsOf(details, v)
    BY <1>3, <2>6
  <2>12. QED
    BY <1>1, <1>3, <2>1, <2>3, <2>6, <2>10, <2>11, Moves
<1>7. QED
  BY <1>5, <1>6 DEF SaveDetail

LEMMA Writes ==
    ASSUME NEW row \in AccRow, NEW memos \in AccRow, NEW w, w = [row |-> row, memos |-> memos]
    PROVE  w \in Writings /\ w.row = row /\ w.memos = memos
  BY DEF Writings

\* A request ends, or stops, and w is what it leaves to agree with.
LEMMA EndsWith ==
    ASSUME AccTypes, AccAgree, AccAlone, NEW q \in AccRequests, acc[q] # AccIdle,
           NEW u, u = acc[q].user, NEW w \in Writings,
           wrote' = [wrote EXCEPT ![u] = w], acc' = [acc EXCEPT ![q] = AccIdle],
           UNCHANGED <<userRow, ncpRow, details>>,
           Agreement(w, userRow[u], ncpRow[u], RowsOf(details, u))
    PROVE  AccTypes' /\ AccAgree'
<1>1. u \in AccUsers
  BY RequestHere
<1>2. /\ userRow' = userRow /\ ncpRow' = ncpRow /\ details' = details
      /\ userRow' \in [AccUsers -> AccRow] /\ ncpRow' \in [AccUsers -> AccRow]
      /\ wrote \in [AccUsers -> Writings] /\ IsFiniteSet(details')
  BY DEF AccTypes
<1>3. /\ wrote' \in [AccUsers -> Writings] /\ wrote'[u] = w
      /\ \A v \in AccUsers \ {u} : wrote'[v] = wrote[v]
  BY <1>1, <1>2, Written
<1>4. Agreement(wrote'[u], userRow'[u], ncpRow'[u], RowsOf(details', u))
  BY <1>2, <1>3
<1>5. \A v \in AccUsers \ {u} :
         /\ wrote'[v] = wrote[v] /\ userRow'[v] = userRow[v] /\ ncpRow'[v] = ncpRow[v]
         /\ RowsOf(details', v) = RowsOf(details, v)
  BY <1>2, <1>3
<1>6. QED
  BY <1>2, <1>3, <1>4, <1>5, Moves

\* A request that has ended has done all that it claims.
LEMMA AccEndKeeps ==
    ASSUME AccTypes, AccAgree, AccAlone, NEW q \in AccRequests, AccEnd(q)
    PROVE  AccTypes' /\ AccAgree'
<1> DEFINE r == acc[q]
           u == r.user
           rows == RowsOf(details, u)
           old == wrote[u]
<1>1. /\ r # AccIdle /\ r.todo = <<>> /\ acc' = [acc EXCEPT ![q] = AccIdle]
      /\ UNCHANGED <<userRow, ncpRow, details>>
  BY DEF AccEnd, AccRefused
<1>2. /\ RequestOK(r) /\ u \in AccUsers
      /\ Claims(r, old, userRow[u], ncpRow[u], rows)
      /\ userRow[u] \in AccRow /\ ncpRow[u] \in AccRow /\ old \in Writings
  BY <1>1, RequestHere
<1>3. \A x : ~Has(r.todo, x)
  BY <1>1 DEF Has
<1>4. /\ r.op \in AccOps /\ r.host \in Seq(AccNumbers) /\ r.host # AccNone
      /\ Digits(r.host) # AccNone /\ r.host \in AccRow /\ Digits(r.host) \in AccRow
      /\ AccNone \in AccRow /\ old.memos \in AccRow
  BY <1>2, RowIsNotNone DEF RequestOK, AccRow, Writings
<1>5. CASE r.op = "hostnumber"
  <2> DEFINE w == [row |-> r.host, memos |-> r.host]
  <2>1. wrote' = [wrote EXCEPT ![u] = w]
    BY <1>5 DEF AccEnd, Wrote
  <2>2. w \in Writings /\ w.row = r.host /\ w.memos = r.host
    BY <1>4, Writes
  <2> HIDE DEF w
  <2>3. userRow[u] = r.host /\ ncpRow[u] = r.host /\ NumberClaims(r, old, userRow[u], rows)
    BY <1>2, <1>3, <1>5 DEF Claims
  <2>4. Listed(rows, r.host, Len(r.host))
    BY <1>3, <2>3 DEF NumberClaims
  <2>5. Agreement(w, userRow[u], ncpRow[u], rows)
    BY <1>4, <2>2, <2>3, <2>4 DEF Agreement, MemosAgree, Fresh
  <2>6. QED
    BY <1>1, <2>1, <2>2, <2>5, EndsWith
<1>6. CASE r.op = "update"
  <2> DEFINE w == [row |-> r.host, memos |-> old.memos]
  <2>1. wrote' = [wrote EXCEPT ![u] = w]
    BY <1>6 DEF AccEnd, Wrote
  <2>2. w \in Writings /\ w.row = r.host /\ w.memos = old.memos
    BY <1>4, Writes
  <2> HIDE DEF w
  <2>3. /\ userRow[u] = r.host /\ ncpRow[u] = r.host
        /\ MemosAgree(old, rows) /\ Fresh(userRow[u], rows)
    BY <1>2, <1>3, <1>6 DEF Claims
  <2>4. Agreement(w, userRow[u], ncpRow[u], rows)
    BY <2>2, <2>3 DEF Agreement, MemosAgree
  <2>5. QED
    BY <1>1, <2>1, <2>2, <2>4, EndsWith
<1>7. CASE r.op = "signup"
  <2> DEFINE w == [row |-> Digits(r.host), memos |-> r.host]
  <2>1. wrote' = [wrote EXCEPT ![u] = w]
    BY <1>7 DEF AccEnd, Wrote
  <2>2. w \in Writings /\ w.row = Digits(r.host) /\ w.memos = r.host
    BY <1>4, Writes
  <2> HIDE DEF w
  <2>3. /\ userRow[u] = Digits(r.host) /\ ncpRow[u] = Digits(r.host)
        /\ Listed(rows, r.host, Len(r.host))
    BY <1>2, <1>3, <1>7 DEF Claims
  <2>4. Agreement(w, userRow[u], ncpRow[u], rows)
    BY <1>4, <2>2, <2>3 DEF Agreement, MemosAgree, Fresh
  <2>5. QED
    BY <1>1, <2>1, <2>2, <2>4, EndsWith
<1>8. CASE r.op \in {"login", "bizservice"}
  <2>1. UNCHANGED <<wrote, userRow, ncpRow, details>>
    BY <1>1, <1>8 DEF AccEnd
  <2>2. Agreement(old, userRow[u], ncpRow[u], rows)
    BY <1>2, <1>8 DEF Claims
  <2>3. QED
    BY <1>1, <2>1, <2>2, MovesOnly
<1>9. QED
  BY <1>4, <1>5, <1>6, <1>7, <1>8 DEF AccOps

LEMMA AccStopKeeps ==
    ASSUME AccTypes, AccAgree, AccAlone, NEW q \in AccRequests, AccStop(q)
    PROVE  AccTypes' /\ AccAgree'
<1> DEFINE r == acc[q]
           u == r.user
           rows == RowsOf(details, u)
           old == wrote[u]
<1>1. /\ r # AccIdle /\ acc' = [acc EXCEPT ![q] = AccIdle] /\ UNCHANGED <<userRow, ncpRow, details>>
  BY DEF AccStop, AccIdle, AccRefused
<1>2. /\ RequestOK(r) /\ u \in AccUsers
      /\ Claims(r, old, userRow[u], ncpRow[u], rows)
      /\ userRow[u] \in AccRow /\ ncpRow[u] \in AccRow /\ old \in Writings
  BY <1>1, RequestHere
<1>3. /\ r.op \in AccOps /\ AccNone \in AccRow /\ old.memos \in AccRow
      /\ r.host # AccNone /\ Digits(r.host) # AccNone
  BY <1>2, RowIsNotNone DEF RequestOK, AccRow, Writings
<1>4. CASE r.op \in {"signup", "hostnumber"}
  <2> DEFINE w == [row |-> AccNone, memos |-> AccNone]
  <2>1. wrote' = [wrote EXCEPT ![u] = w]
    BY <1>4 DEF AccStop, Wrote
  <2>2. w \in Writings /\ w.row = AccNone /\ w.memos = AccNone
    BY <1>3, Writes
  <2> HIDE DEF w
  <2>3. Fresh(userRow[u], rows)
    <3>1. CASE r.op = "signup"
      BY <1>2, <1>3, <3>1 DEF Claims, Agreement, Fresh
    <3>2. CASE r.op = "hostnumber"
      <4>1. NumberClaims(r, old, userRow[u], rows) /\ (~Has(r.todo, "saveUser") => userRow[u] = r.host)
        BY <1>2, <3>2 DEF Claims
      <4>2. Has(r.todo, "saveUser") => Untouched(r)
        BY DEF Untouched, RowSteps
      <4>3. QED
        BY <1>3, <4>1, <4>2 DEF NumberClaims, Fresh
    <3>3. QED
      BY <1>4, <3>1, <3>2
  <2>4. Agreement(w, userRow[u], ncpRow[u], rows)
    BY <2>2, <2>3 DEF Agreement, MemosAgree
  <2>5. QED
    BY <1>1, <2>1, <2>2, <2>4, EndsWith
<1>5. CASE r.op = "update"
  <2> DEFINE w == [row |-> AccNone, memos |-> old.memos]
  <2>1. wrote' = [wrote EXCEPT ![u] = w]
    BY <1>5 DEF AccStop, Wrote
  <2>2. w \in Writings /\ w.row = AccNone /\ w.memos = old.memos
    BY <1>3, Writes
  <2> HIDE DEF w
  <2>3. MemosAgree(old, rows) /\ Fresh(userRow[u], rows)
    BY <1>2, <1>5 DEF Claims
  <2>4. Agreement(w, userRow[u], ncpRow[u], rows)
    BY <2>2, <2>3 DEF Agreement, MemosAgree
  <2>5. QED
    BY <1>1, <2>1, <2>2, <2>4, EndsWith
<1>6. CASE r.op \in {"login", "bizservice"}
  <2>1. UNCHANGED <<wrote, userRow, ncpRow, details>>
    BY <1>1, <1>6 DEF AccStop
  <2>2. Agreement(old, userRow[u], ncpRow[u], rows)
    BY <1>2, <1>6 DEF Claims
  <2>3. QED
    BY <1>1, <2>1, <2>2, MovesOnly
<1>7. QED
  BY <1>3, <1>4, <1>5, <1>6 DEF AccOps

\* A request of a user of whom no other is in flight comes in.
LEMMA Received ==
    ASSUME AccTypes, AccAgree, AccAlone', NEW q \in AccRequests, acc[q] = AccIdle,
           NEW u \in AccUsers, NEW host \in Seq(AccNumbers), NEW op \in AccOps,
           NEW todo, PlanOK(op, todo), NEW r, r = AccRequest(op, u, host, todo),
           acc' = [acc EXCEPT ![q] = r], UNCHANGED <<userRow, ncpRow, details, wrote>>,
           \A w \in Writings : \A row, ncp, rows :
              Agreement(w, row, ncp, rows) => Claims(r, w, row, ncp, rows)
    PROVE  AccTypes' /\ AccAgree'
<1>1. /\ r.op = op /\ r.user = u /\ r.host = host /\ r.todo = todo /\ r.row = AccNone
      /\ r.ncp = AccNone /\ r.done = 0 /\ r.found = {}
  BY DEF AccRequest
<1>2. r = [op |-> r.op, user |-> r.user, host |-> r.host, todo |-> r.todo, row |-> r.row,
           ncp |-> r.ncp, done |-> r.done, found |-> r.found]
  BY DEF AccRequest
<1>3. RequestOK(r)
  BY <1>1, <1>2, FS_EmptySet DEF RequestOK, AccRow, FoundOK
<1>4. r # AccIdle
  <2>1. r.op # "idle" /\ AccIdle.op = "idle"
    BY <1>1 DEF AccOps, AccIdle
  <2>2. QED
    BY <2>1
<1>5. \A x \in AccRequests : acc'[x] = IF x = q THEN r ELSE acc[x]
  BY DEF AccTypes
<1>6. \A x \in AccRequests \ {q} : ~Of(acc[x], u)
  BY <1>1, <1>4, <1>5 DEF AccAlone, Of
<1>7. wrote' = wrote /\ userRow' = userRow /\ ncpRow' = ncpRow /\ details' = details
  OBVIOUS
<1>8. Agreement(wrote[u], userRow[u], ncpRow[u], RowsOf(details, u))
  <2>1. \A x \in AccRequests : ~Of(acc[x], u)
    BY <1>6 DEF Of
  <2>2. QED
    BY <2>1 DEF AccAgree
<1>9. Claims(r, wrote[u], userRow[u], ncpRow[u], RowsOf(details, u))
  BY <1>8 DEF AccTypes
<1>10. Claims(r, wrote'[u], userRow'[u], ncpRow'[u], RowsOf(details', u))
  BY <1>7, <1>9
<1>11. \A v \in AccUsers \ {u} :
          /\ wrote'[v] = wrote[v] /\ userRow'[v] = userRow[v] /\ ncpRow'[v] = ncpRow[v]
          /\ RowsOf(details', v) = RowsOf(details, v)
  BY <1>7
<1>12. AccAgree'
  BY <1>1, <1>4, <1>6, <1>10, <1>11, AgreeKept
<1>13. acc' = [x \in AccRequests |-> acc'[x]]
  BY DEF AccTypes
<1>14. \A x \in AccRequests : acc'[x] = AccIdle \/ RequestOK(acc'[x])
  BY <1>3, <1>5 DEF AccTypes
<1>15. AccTypes'
  BY <1>7, <1>13, <1>14 DEF AccTypes
<1>16. QED
  BY <1>12, <1>15

\* What a new request claims follows from what its user's rows agree on.
LEMMA FirstClaims ==
    ASSUME NEW op \in AccOps, NEW u, NEW host, NEW todo, NEW r, r = AccRequest(op, u, host, todo),
           op = "signup" => Has(todo, "newUser") /\ Has(todo, "newNcp") /\ Has(todo, "details"),
           op \in {"update", "hostnumber"} => Has(todo, "saveUser") /\ Has(todo, "saveNcp"),
           op = "hostnumber" => Has(todo, "find") /\ Has(todo, "remove") /\ Has(todo, "details"),
           op \in {"signup", "login", "bizservice"} =>
              Head(todo) # "saveUser" /\ Head(todo) # "saveNcp",
           NEW w, NEW row, NEW ncp, NEW rows, w \in Writings,
           Agreement(w, row, ncp, rows)
    PROVE  Claims(r, w, row, ncp, rows)
<1>1. r.op = op /\ r.host = host /\ r.todo = todo /\ r.done = 0
  BY DEF AccRequest
<1>2. r.op = "hostnumber" => NumberClaims(r, w, row, rows)
  BY <1>1 DEF NumberClaims, Agreement
<1>3. r.op \in {"update", "hostnumber"} => (w.row # AccNone => row # AccNone /\ ncp # AccNone)
  BY DEF Agreement
<1>4. QED
  BY <1>1, <1>2, <1>3 DEF Claims, Agreement

LEMMA HostsAreLists == HostLists \subseteq Seq(AccNumbers)
<1>1. ASSUME NEW k \in 0..AccMaxHosts PROVE [1..k -> AccNumbers] \subseteq Seq(AccNumbers)
  <2>1. k \in Nat
    BY AccAssumption
  <2>2. QED
    BY <2>1, SeqDef
<1>2. QED
  BY <1>1 DEF HostLists

LEMMA AccReceiveKeeps ==
    ASSUME AccTypes, AccAgree, AccAlone', NEW q \in AccRequests, AccReceive(q)
    PROVE  AccTypes' /\ AccAgree'
<1>0. HostLists \subseteq Seq(AccNumbers)
  BY HostsAreLists
<1>1. acc[q] = AccIdle /\ UNCHANGED <<userRow, ncpRow, details, wrote>>
  BY DEF AccReceive
<1>2. ASSUME NEW u \in AccUsers, NEW host \in Seq(AccNumbers), NEW op \in AccOps, NEW todo,
             PlanOK(op, todo), acc' = [acc EXCEPT ![q] = AccRequest(op, u, host, todo)],
             op = "signup" => Has(todo, "newUser") /\ Has(todo, "newNcp") /\ Has(todo, "details"),
             op \in {"update", "hostnumber"} => Has(todo, "saveUser") /\ Has(todo, "saveNcp"),
             op = "hostnumber" => Has(todo, "find") /\ Has(todo, "remove") /\ Has(todo, "details"),
             op \in {"signup", "login", "bizservice"} =>
                Head(todo) # "saveUser" /\ Head(todo) # "saveNcp"
      PROVE  AccTypes' /\ AccAgree'
  <2> DEFINE r == AccRequest(op, u, host, todo)
  <2>1. acc' = [acc EXCEPT ![q] = r]
    BY <1>2
  <2> HIDE DEF r
  <2>2. ASSUME NEW w \in Writings, NEW row, NEW ncp, NEW rows,
               Agreement(w, row, ncp, rows)
        PROVE  Claims(r, w, row, ncp, rows)
    <3>1. r = AccRequest(op, u, host, todo)
      BY DEF r
    <3>2. QED
      BY <1>2, <2>2, <3>1, FirstClaims
  <2>3. \A w \in Writings : \A row, ncp, rows :
              Agreement(w, row, ncp, rows) => Claims(r, w, row, ncp, rows)
    BY <2>2
  <2>4. r = AccRequest(op, u, host, todo)
    BY DEF r
  <2>5. QED
    BY <1>1, <1>2, <2>1, <2>3, <2>4, Received
<1>3. ASSUME NEW u \in AccUsers, NEW host \in HostLists,
             acc' = [acc EXCEPT ![q] = AccRequest("signup", u, host, SignupPlan)]
      PROVE  AccTypes' /\ AccAgree'
  <2>1. /\ PlanOK("signup", SignupPlan) /\ Has(SignupPlan, "newUser") /\ Has(SignupPlan, "newNcp") /\ Has(SignupPlan, "details")
        /\ Head(SignupPlan) # "saveUser" /\ Head(SignupPlan) # "saveNcp" /\ "signup" \in AccOps
    BY SignupPlanOK DEF AccOps
  <2>2. QED
    BY <1>0, <1>2, <1>3, <2>1
<1>4. ASSUME NEW u \in AccUsers, NEW host \in HostLists,
             NEW adv \in BOOLEAN, NEW name \in BOOLEAN, NEW key \in BOOLEAN,
             acc' = [acc EXCEPT ![q] = AccRequest("update", u, host, UpdatePlan(adv, name, key))]
      PROVE  AccTypes' /\ AccAgree'
  <2> DEFINE plan == UpdatePlan(adv, name, key)
  <2>1. /\ PlanOK("update", plan) /\ Has(plan, "saveUser") /\ Has(plan, "saveNcp")
        /\ "update" \in AccOps
    BY UpdatePlanOK DEF AccOps
  <2> HIDE DEF plan
  <2>2. acc' = [acc EXCEPT ![q] = AccRequest("update", u, host, plan)]
    BY <1>4 DEF plan
  <2>3. QED
    BY <1>0, <1>2, <2>1, <2>2
<1>5. ASSUME NEW u \in AccUsers, NEW host \in HostLists,
             acc' = [acc EXCEPT ![q] = AccRequest("hostnumber", u, host, HostnumberPlan)]
      PROVE  AccTypes' /\ AccAgree'
  <2>1. /\ PlanOK("hostnumber", HostnumberPlan)
        /\ Has(HostnumberPlan, "saveUser") /\ Has(HostnumberPlan, "saveNcp")
        /\ Has(HostnumberPlan, "find") /\ Has(HostnumberPlan, "remove")
        /\ Has(HostnumberPlan, "details") /\ "hostnumber" \in AccOps
    BY HostnumberPlanOK DEF AccOps
  <2>2. QED
    BY <1>0, <1>2, <1>5, <2>1
<1>6. ASSUME NEW u \in AccUsers, NEW host \in HostLists,
             \/ acc' = [acc EXCEPT ![q] = AccRequest("login", u, host, Profile)]
             \/ acc' = [acc EXCEPT ![q] = AccRequest("bizservice", u, host, <<"readUser">> \o Keys)]
      PROVE  AccTypes' /\ AccAgree'
  <2> DEFINE plan == <<"readUser">> \o Keys
  <2>1. /\ PlanOK("login", Profile) /\ Head(Profile) # "saveUser" /\ Head(Profile) # "saveNcp"
        /\ PlanOK("bizservice", plan) /\ Head(plan) # "saveUser" /\ Head(plan) # "saveNcp"
        /\ "login" \in AccOps /\ "bizservice" \in AccOps
    BY RowPlansOK DEF AccOps
  <2> HIDE DEF plan
  <2>2. \/ acc' = [acc EXCEPT ![q] = AccRequest("login", u, host, Profile)]
        \/ acc' = [acc EXCEPT ![q] = AccRequest("bizservice", u, host, plan)]
    BY <1>6 DEF plan
  <2>3. QED
    BY <1>0, <1>2, <2>1, <2>2
<1>7. QED
  BY <1>3, <1>4, <1>5, <1>6 DEF AccReceive

LEMMA AccStep ==
    AccTypes /\ AccAgree /\ AccAlone /\ AccAlone' /\ [AccountsNext]_accVars => AccTypes' /\ AccAgree'
<1> SUFFICES ASSUME AccTypes, AccAgree, AccAlone, AccAlone', [AccountsNext]_accVars
             PROVE  AccTypes' /\ AccAgree'
  OBVIOUS
<1>1. CASE UNCHANGED accVars
  BY <1>1 DEF accVars, AccTypes, AccAgree
<1>2. ASSUME NEW q \in AccRequests,
             \/ AccReceive(q) \/ FindNoUser(q) \/ NewUser(q) \/ NewNcp(q) \/ ReadUserRow(q)
             \/ ReadNcpRow(q) \/ SaveUserRow(q) \/ SaveNcpRow(q) \/ FindDetails(q)
             \/ RemoveDetails(q) \/ SaveDetail(q) \/ AccEnd(q) \/ AccStop(q)
      PROVE  AccTypes' /\ AccAgree'
  BY <1>2, AccReceiveKeeps, FindNoUserKeeps, NewUserKeeps, NewNcpKeeps, ReadUserRowKeeps,
     ReadNcpRowKeeps, SaveUserRowKeeps, SaveNcpRowKeeps, FindDetailsKeeps, RemoveDetailsKeeps,
     SaveDetailKeeps, AccEndKeeps, AccStopKeeps
<1>3. QED
  BY <1>1, <1>2 DEF AccountsNext

LEMMA AgreeShown == AccTypes /\ AccAgree => HostnumbersAgree
<1> SUFFICES ASSUME AccTypes, AccAgree, NEW u \in AccUsers, \A q \in AccRequests : acc[q] = AccIdle
             PROVE  LET g == wrote[u] IN
                    /\ g.row # AccNone => userRow[u] = g.row /\ ncpRow[u] = g.row
                    /\ g.memos # AccNone => \A n \in AccNumbers :
                          RowsFor(n, {d \in details : d.user = u}) = Occurs(n, g.memos, Len(g.memos))
  BY DEF HostnumbersAgree
<1>1. Agreement(wrote[u], userRow[u], ncpRow[u], RowsOf(details, u))
  <2>1. \A q \in AccRequests : ~Of(acc[q], u)
    BY DEF Of
  <2>2. QED
    BY <2>1 DEF AccAgree
<1>2. QED
  BY <1>1 DEF Agreement, MemosAgree, Listed, RowsOf

(***************************************************************************)
(* What the last request to write them wrote stands whenever nothing is    *)
(* being answered: the number of the row of the user and of the row at NCP *)
(* agree, and the rows of numbers are the list of a sign-up or of a PATCH  *)
(* of the numbers, entry by entry, those written twice included (PATCH /me *)
(* leaves them as they were).  For any users and numbers, wherever         *)
(* requests stopped, while those of one user do not overlap: the requests  *)
(* of others may.  Between the steps of updateUser and updateHostnumber    *)
(* the places do not agree; Claims says how far each has come.             *)
(***************************************************************************)
THEOREM NumbersAgree == AccountsSpec /\ []AccAlone => []HostnumbersAgree
<1>1. AccountsInit => AccTypes /\ AccAgree
  BY AccStart
<1>2. (AccTypes /\ AccAgree) /\ AccAlone /\ AccAlone' /\ [AccountsNext]_accVars
      => (AccTypes /\ AccAgree)'
  BY AccStep
<1>3. AccTypes /\ AccAgree => HostnumbersAgree
  BY AgreeShown
<1>4. QED
  BY <1>1, <1>2, <1>3, PTL DEF AccountsSpec

-----------------------------------------------------------------------------
(* Phonebooks.  What a request holds, of the contacts cs and the           *)
(* phonebooks bs.                                                          *)

ContactRecords == [user : PbUsers, number : PbNumbers]

BookRecords == [user : PbUsers, title : PbTitles, members : SUBSET Nat, live : BOOLEAN]

PbStages == {"title", "book", "members", "insert", "contact", "number", "save", "delete"}

PbOps == {"create", "add", "remove", "title", "delete", "renumber"}

PbShape ==
    [at : PbStages, op : PbOps, user : PbUsers, title : PbTitles \cup {0}, book : Nat,
     contact : Nat, number : PbNumbers \cup {0}, todo : SUBSET PbNumbers,
     list : SUBSET Nat, copy : BookRecords \cup {NoBook}]

\* Contacts of user u.
Own(u, list, cs) == \A c \in list : c \in 1..Len(cs) /\ cs[c].user = u

\* A request about a phonebook holds its row, and the row is of the user.
HoldsBook(r, cs, bs) ==
    /\ r.copy \in BookRecords
    /\ r.copy.user = r.user /\ bs[r.book].user = r.user
    /\ Own(r.user, r.copy.members, cs)

AboutBook == {"add", "remove", "title", "delete"}

BookRequestOK(r, cs, bs) ==
    /\ r \in PbShape
    /\ Own(r.user, r.list, cs)
    /\ r.op \in AboutBook => r.book \in 1..Len(bs) /\ (r.at # "book" => HoldsBook(r, cs, bs))
    /\ r.op \in {"create", "title"} => r.title \in PbTitles
    /\ r.op \in {"remove", "renumber"} => r.contact \in 1..Len(cs)
    /\ r.op = "renumber" \/ r.at = "insert" => r.number \in PbNumbers
    /\ r.at \in {"delete", "book"} => r.op \in AboutBook
    /\ r.at \in {"members", "insert"} => r.op \in {"create", "add"}
    /\ r.at = "contact" => r.op \in {"remove", "renumber"}
    /\ r.at = "save" => r.op \in {"remove", "title"}
    /\ r.at = "number" => r.op = "renumber"
    /\ r.at = "title" => r.op = "create"

Requests == \A q \in PbRequests : pb[q] = PbIdle \/ BookRequestOK(pb[q], contacts, books)

RowTypes ==
    /\ contacts \in Seq(ContactRecords)
    /\ books \in Seq(BookRecords)
    /\ renumbered \subseteq Contacts
    /\ pb \in [PbRequests -> {PbIdle} \cup PbShape]

Members == \A b \in Books : Own(books[b].user, books[b].members, contacts)

PbInv == RowTypes /\ Requests /\ Members

LEMMA PbInit == PhonebookInit => PbInv
<1> SUFFICES ASSUME PhonebookInit PROVE PbInv
  OBVIOUS
<1>1. Books = {}
  BY DEF PhonebookInit, Books
<1>2. QED
  BY <1>1 DEF PhonebookInit, PbInv, RowTypes, Requests, Members, Contacts

LEMMA PbImplies == PbInv => MembersAreOwnContacts
  BY DEF PbInv, Members, Own, MembersAreOwnContacts, Contacts

-----------------------------------------------------------------------------
(* Rows are added and changed, but never change hands.                     *)

Kept ==
    /\ RowTypes'
    /\ Contacts \subseteq Contacts' /\ \A c \in Contacts : contacts'[c].user = contacts[c].user
    /\ Books \subseteq Books' /\ \A b \in Books : books'[b].user = books[b].user

LEMMA OwnKept ==
    ASSUME Kept, NEW u, NEW list, Own(u, list, contacts)
    PROVE  Own(u, list, contacts')
  BY DEF Own, Kept, Contacts

LEMMA RequestKept ==
    ASSUME Kept, NEW r, BookRequestOK(r, contacts, books)
    PROVE  BookRequestOK(r, contacts', books')
<1>1. Own(r.user, r.list, contacts')
  BY OwnKept DEF BookRequestOK
<1>2. ASSUME HoldsBook(r, contacts, books), r.book \in Books PROVE HoldsBook(r, contacts', books')
  <2>1. Own(r.user, r.copy.members, contacts')
    BY <1>2, OwnKept DEF HoldsBook
  <2>2. QED
    BY <1>2, <2>1 DEF HoldsBook, Kept
<1>3. QED
  BY <1>1, <1>2 DEF BookRequestOK, Kept, Contacts, Books

\* A step of q that keeps the rows, or adds to them.
LEMMA StepKeeps ==
    ASSUME PbInv, Kept, NEW q \in PbRequests, NEW STATE r, PbGo(q, r),
           r = PbIdle \/ BookRequestOK(r, contacts', books'),
           \A b \in Books' : Own(books'[b].user, books'[b].members, contacts')
    PROVE  PbInv'
<1>1. ASSUME NEW x \in PbRequests PROVE pb'[x] = PbIdle \/ BookRequestOK(pb'[x], contacts', books')
  <2>1. pb \in [PbRequests -> {PbIdle} \cup PbShape]
    BY DEF PbInv, RowTypes
  <2>2. CASE x = q
    BY <2>1, <2>2 DEF PbGo
  <2>3. CASE x # q
    <3>1. pb'[x] = pb[x]
      BY <2>1, <2>3 DEF PbGo
    <3>2. QED
      BY <3>1, RequestKept DEF PbInv, Requests
  <2>4. QED
    BY <2>2, <2>3
<1>2. Requests' /\ Members'
  BY <1>1 DEF Requests, Members
<1>3. QED
  BY <1>2 DEF PbInv, Kept

LEMMA Here ==
    ASSUME PbInv, NEW q \in PbRequests, pb[q].at # "idle"
    PROVE  BookRequestOK(pb[q], contacts, books) /\ pb[q] \in PbShape
  BY DEF PbInv, Requests, PbIdle, BookRequestOK

\* A step that only moves q on.
LEMMA MoveKeeps ==
    ASSUME PbInv, NEW q \in PbRequests, NEW STATE r, PbGo(q, r),
           r = PbIdle \/ BookRequestOK(r, contacts, books),
           UNCHANGED <<contacts, books, renumbered>>
    PROVE  PbInv'
<1>1. pb' \in [PbRequests -> {PbIdle} \cup PbShape]
  BY DEF PbInv, RowTypes, PbGo, BookRequestOK
<1>2. Kept
  BY <1>1 DEF PbInv, RowTypes, Kept, Contacts, Books
<1>3. \A b \in Books' : Own(books'[b].user, books'[b].members, contacts')
  BY DEF PbInv, Members, Books
<1>4. QED
  BY <1>2, <1>3, StepKeeps

-----------------------------------------------------------------------------
(* A request at a time.                                                    *)

LEMMA ReceiveKeeps == ASSUME PbInv, NEW q \in PbRequests, PbReceive(q) PROVE PbInv'
<1>1. Contacts \subseteq Nat /\ Books \subseteq Nat
  BY LenProperties DEF PbInv, RowTypes, Contacts, Books
<1>2. PICK u \in PbUsers :
        \/ \E t \in PbTitles, ns \in SUBSET PbNumbers :
             PbGo(q, [PbRequest("title", "create", u) EXCEPT !.title = t, !.todo = ns])
        \/ \E b \in Books, ns \in SUBSET PbNumbers :
             PbGo(q, [PbRequest("book", "add", u) EXCEPT !.book = b, !.todo = ns])
        \/ \E b \in Books, c \in Contacts :
             PbGo(q, [PbRequest("book", "remove", u) EXCEPT !.book = b, !.contact = c])
        \/ \E b \in Books, t \in PbTitles :
             PbGo(q, [PbRequest("book", "title", u) EXCEPT !.book = b, !.title = t])
        \/ \E b \in Books : PbGo(q, [PbRequest("book", "delete", u) EXCEPT !.book = b])
        \/ \E c \in Contacts, n \in PbNumbers :
             PbGo(q, [PbRequest("contact", "renumber", u) EXCEPT !.contact = c, !.number = n])
  BY DEF PbReceive
<1>3. ASSUME NEW STATE r, PbGo(q, r), BookRequestOK(r, contacts, books)
      PROVE  PbInv'
  BY <1>3, MoveKeeps DEF PbReceive
<1> USE DEF PbRequest, BookRequestOK, PbShape, PbStages, PbOps, Own, AboutBook
<1>4. CASE \E t \in PbTitles, ns \in SUBSET PbNumbers :
             PbGo(q, [PbRequest("title", "create", u) EXCEPT !.title = t, !.todo = ns])
  <2>1. PICK t \in PbTitles, ns \in SUBSET PbNumbers :
          PbGo(q, [PbRequest("title", "create", u) EXCEPT !.title = t, !.todo = ns])
    BY <1>4
  <2> DEFINE r == [PbRequest("title", "create", u) EXCEPT !.title = t, !.todo = ns]
  <2>2. BookRequestOK(r, contacts, books)
    OBVIOUS
  <2>3. QED
    BY <1>3, <2>1, <2>2
<1>5. CASE \E b \in Books, ns \in SUBSET PbNumbers :
             PbGo(q, [PbRequest("book", "add", u) EXCEPT !.book = b, !.todo = ns])
  <2>1. PICK b \in Books, ns \in SUBSET PbNumbers :
          PbGo(q, [PbRequest("book", "add", u) EXCEPT !.book = b, !.todo = ns])
    BY <1>5
  <2> DEFINE r == [PbRequest("book", "add", u) EXCEPT !.book = b, !.todo = ns]
  <2>2. BookRequestOK(r, contacts, books)
    BY <1>1 DEF Books
  <2>3. QED
    BY <1>3, <2>1, <2>2
<1>6. CASE \E b \in Books, c \in Contacts :
             PbGo(q, [PbRequest("book", "remove", u) EXCEPT !.book = b, !.contact = c])
  <2>1. PICK b \in Books, c \in Contacts :
          PbGo(q, [PbRequest("book", "remove", u) EXCEPT !.book = b, !.contact = c])
    BY <1>6
  <2> DEFINE r == [PbRequest("book", "remove", u) EXCEPT !.book = b, !.contact = c]
  <2>2. BookRequestOK(r, contacts, books)
    BY <1>1 DEF Books, Contacts
  <2>3. QED
    BY <1>3, <2>1, <2>2
<1>7. CASE \E b \in Books, t \in PbTitles :
             PbGo(q, [PbRequest("book", "title", u) EXCEPT !.book = b, !.title = t])
  <2>1. PICK b \in Books, t \in PbTitles :
          PbGo(q, [PbRequest("book", "title", u) EXCEPT !.book = b, !.title = t])
    BY <1>7
  <2> DEFINE r == [PbRequest("book", "title", u) EXCEPT !.book = b, !.title = t]
  <2>2. BookRequestOK(r, contacts, books)
    BY <1>1 DEF Books
  <2>3. QED
    BY <1>3, <2>1, <2>2
<1>8. CASE \E b \in Books : PbGo(q, [PbRequest("book", "delete", u) EXCEPT !.book = b])
  <2>1. PICK b \in Books : PbGo(q, [PbRequest("book", "delete", u) EXCEPT !.book = b])
    BY <1>8
  <2> DEFINE r == [PbRequest("book", "delete", u) EXCEPT !.book = b]
  <2>2. BookRequestOK(r, contacts, books)
    BY <1>1 DEF Books
  <2>3. QED
    BY <1>3, <2>1, <2>2
<1>9. CASE \E c \in Contacts, n \in PbNumbers :
             PbGo(q, [PbRequest("contact", "renumber", u) EXCEPT !.contact = c, !.number = n])
  <2>1. PICK c \in Contacts, n \in PbNumbers :
          PbGo(q, [PbRequest("contact", "renumber", u) EXCEPT !.contact = c, !.number = n])
    BY <1>9
  <2> DEFINE r == [PbRequest("contact", "renumber", u) EXCEPT !.contact = c, !.number = n]
  <2>2. BookRequestOK(r, contacts, books)
    BY <1>1 DEF Contacts
  <2>3. QED
    BY <1>3, <2>1, <2>2
<1>10. QED
  BY <1>2, <1>4, <1>5, <1>6, <1>7, <1>8, <1>9

LEMMA StopKeeps == ASSUME PbInv, NEW q \in PbRequests, PbStop(q) PROVE PbInv'
  BY MoveKeeps DEF PbStop, Answered

LEMMA TitleKeeps == ASSUME PbInv, NEW q \in PbRequests, CheckTitle(q) PROVE PbInv'
<1>1. BookRequestOK(pb[q], contacts, books) /\ pb[q].at = "title"
  BY Here DEF CheckTitle, PbAt
<1> DEFINE r == [pb[q] EXCEPT !.at = "members"]
<1>2. BookRequestOK(r, contacts, books)
  BY <1>1 DEF BookRequestOK, PbShape, PbStages, AboutBook
<1>3. PbGo(q, PbIdle) \/ PbGo(q, r)
  BY DEF CheckTitle, Answered
<1>4. QED
  BY <1>2, <1>3, MoveKeeps DEF CheckTitle

LEMMA ReadBookKeeps == ASSUME PbInv, NEW q \in PbRequests, ReadBook(q) PROVE PbInv'
<1>1. BookRequestOK(pb[q], contacts, books) /\ pb[q] \in PbShape /\ pb[q].at = "book"
  BY Here DEF ReadBook, PbAt
<1> DEFINE b == pb[q].book
           at == CASE pb[q].op = "add" -> "members"
                   [] pb[q].op = "remove" -> "contact"
                   [] pb[q].op = "title" -> "save"
                   [] OTHER -> "delete"
           r == [pb[q] EXCEPT !.copy = books[b], !.at = at]
<1>2. PbGo(q, PbIdle) \/ (books[b].user = pb[q].user /\ PbGo(q, r))
  BY DEF ReadBook, Answered
<1>3. b \in Books /\ books[b] \in BookRecords
  BY <1>1, ElementOfSeq DEF BookRequestOK, AboutBook, PbInv, RowTypes, Books
<1>4. ASSUME books[b].user = pb[q].user PROVE BookRequestOK(r, contacts, books)
  <2> DEFINE copy == books[b]
  <2>1. at \in PbStages
    BY DEF PbStages
  <2>2. r \in PbShape /\ r.copy = copy /\ r.at = at
    BY <1>1, <1>3, <2>1 DEF PbShape
  <2>3. /\ r.user = pb[q].user /\ r.op = pb[q].op /\ r.book = b /\ r.contact = pb[q].contact
        /\ r.number = pb[q].number /\ r.list = pb[q].list /\ r.title = pb[q].title
    BY <1>1 DEF PbShape
  <2>4. Own(copy.user, copy.members, contacts)
    BY <1>3 DEF PbInv, Members
  <2>5. HoldsBook(r, contacts, books)
    BY <1>3, <1>4, <2>2, <2>3, <2>4 DEF HoldsBook
  <2>6. /\ pb[q].op \in AboutBook
        /\ at = "members" => pb[q].op = "add"
        /\ at = "contact" => pb[q].op = "remove"
        /\ at = "save" => pb[q].op = "title"
        /\ at \notin {"book", "insert", "number", "title"}
    BY <1>1 DEF BookRequestOK, AboutBook
  <2> HIDE DEF at, r
  <2>7. QED
    BY <1>1, <2>2, <2>3, <2>5, <2>6 DEF BookRequestOK
<1>5. QED
  BY <1>2, <1>4, MoveKeeps DEF ReadBook

LEMMA LookUpKeeps == ASSUME PbInv, NEW q \in PbRequests, LookUp(q) PROVE PbInv'
<1>1. BookRequestOK(pb[q], contacts, books) /\ pb[q] \in PbShape /\ pb[q].at = "members"
  BY Here DEF LookUp, PbAt
<1>2. Contacts \subseteq Nat
  BY LenProperties DEF PbInv, RowTypes, Contacts
<1>3. PICK n \in pb[q].todo :
        \/ \E c \in ContactsFor(pb[q].user, n) :
             PbGo(q, [pb[q] EXCEPT !.todo = @ \ {n}, !.list = @ \cup {c}])
        \/ PbGo(q, [pb[q] EXCEPT !.at = "insert", !.todo = @ \ {n}, !.number = n])
  BY DEF LookUp
<1>4. n \in PbNumbers
  BY <1>1 DEF PbShape
<1>5. CASE \E c \in ContactsFor(pb[q].user, n) :
             PbGo(q, [pb[q] EXCEPT !.todo = @ \ {n}, !.list = @ \cup {c}])
  <2>1. PICK c \in ContactsFor(pb[q].user, n) :
          PbGo(q, [pb[q] EXCEPT !.todo = @ \ {n}, !.list = @ \cup {c}])
    BY <1>5
  <2> DEFINE r == [pb[q] EXCEPT !.todo = @ \ {n}, !.list = @ \cup {c}]
  <2>2. c \in Contacts /\ contacts[c].user = pb[q].user
    BY DEF ContactsFor
  <2>3. r \in PbShape
    BY <1>1, <1>2, <2>2 DEF PbShape
  <2>4. Own(r.user, r.list, contacts)
    BY <1>1, <2>2 DEF BookRequestOK, Own, Contacts, PbShape
  <2>5. BookRequestOK(r, contacts, books)
    BY <1>1, <2>3, <2>4 DEF BookRequestOK, HoldsBook, PbShape
  <2>6. QED
    BY <2>1, <2>5, MoveKeeps DEF LookUp
<1>6. CASE PbGo(q, [pb[q] EXCEPT !.at = "insert", !.todo = @ \ {n}, !.number = n])
  <2> DEFINE r == [pb[q] EXCEPT !.at = "insert", !.todo = @ \ {n}, !.number = n]
  <2>1. r \in PbShape
    BY <1>1, <1>4 DEF PbShape, PbStages
  <2>2. BookRequestOK(r, contacts, books)
    BY <1>1, <1>4, <2>1 DEF BookRequestOK, HoldsBook, PbShape
  <2>3. QED
    BY <1>6, <2>2, MoveKeeps DEF LookUp
<1>7. QED
  BY <1>3, <1>5, <1>6

LEMMA ReadContactKeeps == ASSUME PbInv, NEW q \in PbRequests, ReadContact(q) PROVE PbInv'
<1>1. BookRequestOK(pb[q], contacts, books) /\ pb[q] \in PbShape /\ pb[q].at = "contact"
  BY Here DEF ReadContact, PbAt
<1> DEFINE r == [pb[q] EXCEPT !.at = IF pb[q].op = "renumber" THEN "number" ELSE "save"]
<1>2. BookRequestOK(r, contacts, books)
  BY <1>1 DEF BookRequestOK, HoldsBook, PbShape, PbStages
<1>3. PbGo(q, PbIdle) \/ PbGo(q, r)
  BY DEF ReadContact, Answered
<1>4. QED
  BY <1>2, <1>3, MoveKeeps DEF ReadContact

-----------------------------------------------------------------------------
(* The requests that write.                                                *)

LEMMA InsertKeeps == ASSUME PbInv, NEW q \in PbRequests, InsertContact(q) PROVE PbInv'
<1>1. BookRequestOK(pb[q], contacts, books) /\ pb[q] \in PbShape /\ pb[q].at = "insert"
  BY Here DEF InsertContact, PbAt
<1> DEFINE new == [user |-> pb[q].user, number |-> pb[q].number]
           r == [pb[q] EXCEPT !.at = "members", !.list = @ \cup {Len(contacts) + 1}]
<1>2. contacts \in Seq(ContactRecords) /\ new \in ContactRecords
  BY <1>1 DEF PbInv, RowTypes, BookRequestOK, PbShape, ContactRecords
<1>3. contacts' = Append(contacts, new)
  BY DEF InsertContact
<1>4. /\ contacts' \in Seq(ContactRecords) /\ Len(contacts') = Len(contacts) + 1
      /\ \A c \in 1..Len(contacts) : contacts'[c] = contacts[c]
      /\ contacts'[Len(contacts) + 1] = new
  BY <1>2, <1>3, AppendProperties
<1>5. Len(contacts) \in Nat
  BY <1>2, LenProperties
<1>6. Contacts \subseteq Contacts' /\ Len(contacts) + 1 \in Contacts'
  BY <1>4, <1>5 DEF Contacts
<1>7. r \in PbShape
  <2> DEFINE list == pb[q].list \cup {Len(contacts) + 1}
  <2>1. list \in SUBSET Nat
    BY <1>1, <1>5 DEF PbShape
  <2>2. r = [pb[q] EXCEPT !.at = "members", !.list = list]
    BY <1>1 DEF PbShape
  <2> HIDE DEF list, r
  <2>3. QED
    BY <1>1, <2>1, <2>2 DEF PbShape, PbStages
<1>8. pb' \in [PbRequests -> {PbIdle} \cup PbShape]
  BY <1>7 DEF PbInv, RowTypes, InsertContact, PbGo
<1>9. Kept
  BY <1>4, <1>6, <1>8 DEF PbInv, RowTypes, InsertContact, Kept, Contacts, Books
<1>10. BookRequestOK(r, contacts', books')
  <2>1. BookRequestOK(pb[q], contacts', books')
    BY <1>1, <1>9, RequestKept
  <2>2. Own(r.user, r.list, contacts')
    BY <1>1, <1>4, <1>6, <2>1 DEF BookRequestOK, Own, PbShape, Contacts
  <2>3. QED
    BY <1>1, <1>7, <2>1, <2>2 DEF BookRequestOK, HoldsBook, PbShape
<1>11. ASSUME NEW b \in Books' PROVE Own(books'[b].user, books'[b].members, contacts')
  BY <1>9, OwnKept DEF PbInv, Members, InsertContact, Books
<1>12. QED
  BY <1>9, <1>10, <1>11, StepKeeps DEF InsertContact

LEMMA CreateKeeps == ASSUME PbInv, NEW q \in PbRequests, CreateBook(q) PROVE PbInv'
<1>1. BookRequestOK(pb[q], contacts, books) /\ pb[q] \in PbShape /\ pb[q].op = "create"
  BY Here DEF CreateBook, PbAt
<1> DEFINE new == [user |-> pb[q].user, title |-> pb[q].title,
                   members |-> pb[q].list, live |-> TRUE]
<1>2. books \in Seq(BookRecords) /\ new \in BookRecords
  BY <1>1 DEF PbInv, RowTypes, BookRequestOK, PbShape, BookRecords
<1>3. books' = Append(books, new)
  BY DEF CreateBook
<1>4. /\ books' \in Seq(BookRecords) /\ Len(books') = Len(books) + 1
      /\ \A b \in 1..Len(books) : books'[b] = books[b]
      /\ books'[Len(books) + 1] = new
  BY <1>2, <1>3, AppendProperties
<1>5. Len(books) \in Nat
  BY <1>2, LenProperties
<1>6. Books \subseteq Books' /\ \A b \in Books' : b \in Books \/ b = Len(books) + 1
  BY <1>4, <1>5 DEF Books
<1>7. pb' \in [PbRequests -> {PbIdle} \cup PbShape]
  BY DEF PbInv, RowTypes, CreateBook, Answered, PbGo
<1>8. Kept
  BY <1>4, <1>6, <1>7 DEF PbInv, RowTypes, CreateBook, Kept, Contacts, Books
<1>9. ASSUME NEW b \in Books' PROVE Own(books'[b].user, books'[b].members, contacts')
  <2>1. CASE b \in Books
    BY <1>4, <2>1 DEF PbInv, Members, CreateBook, Books
  <2>2. CASE b = Len(books) + 1
    BY <1>1, <1>4, <2>2 DEF BookRequestOK, CreateBook
  <2>3. QED
    BY <1>6, <2>1, <2>2
<1>10. QED
  BY <1>8, <1>9, StepKeeps DEF CreateBook, Answered

LEMMA NumberKeeps == ASSUME PbInv, NEW q \in PbRequests, SaveNumber(q) PROVE PbInv'
<1>1. BookRequestOK(pb[q], contacts, books) /\ pb[q].op = "renumber"
  BY Here DEF SaveNumber, PbAt, BookRequestOK
<1> DEFINE d == pb[q].contact
           new == [contacts[d] EXCEPT !.number = pb[q].number]
<1>2. contacts \in Seq(ContactRecords) /\ d \in 1..Len(contacts) /\ pb[q].number \in PbNumbers
  BY <1>1 DEF PbInv, RowTypes, BookRequestOK
<1>3. contacts[d] \in ContactRecords
  BY <1>2, ElementOfSeq
<1>4. new \in ContactRecords /\ new.user = contacts[d].user
  BY <1>2, <1>3 DEF ContactRecords
<1>5. contacts' = [contacts EXCEPT ![d] = new]
  BY DEF SaveNumber
<1>6. contacts' \in Seq(ContactRecords) /\ Len(contacts') = Len(contacts)
  BY <1>2, <1>4, <1>5, ExceptSeq
<1>7. \A c \in Contacts : contacts'[c].user = contacts[c].user
  BY <1>2, <1>4, <1>5 DEF Contacts
<1>8. pb' \in [PbRequests -> {PbIdle} \cup PbShape]
  BY DEF PbInv, RowTypes, SaveNumber, Answered, PbGo
<1>9. Kept
  BY <1>2, <1>6, <1>7, <1>8 DEF PbInv, RowTypes, SaveNumber, Kept, Contacts, Books
<1>10. ASSUME NEW b \in Books' PROVE Own(books'[b].user, books'[b].members, contacts')
  BY <1>9, OwnKept DEF PbInv, Members, SaveNumber, Books
<1>11. QED
  BY <1>9, <1>10, StepKeeps DEF SaveNumber, Answered

\* A row is replaced by one of its user with members of his own.
LEMMA WriteKeeps ==
    ASSUME PbInv, NEW q \in PbRequests, NEW d \in Books, NEW new \in BookRecords,
           new.user = books[d].user, Own(new.user, new.members, contacts),
           books' = [books EXCEPT ![d] = new], Answered(q), UNCHANGED <<contacts, renumbered>>
    PROVE  PbInv'
<1>1. books \in Seq(BookRecords)
  BY DEF PbInv, RowTypes
<1>2. books' \in Seq(BookRecords) /\ Len(books') = Len(books)
  BY <1>1, ExceptSeq DEF Books
<1>3. \A b \in Books : books'[b] = IF b = d THEN new ELSE books[b]
  BY <1>1 DEF Books
<1>4. pb' \in [PbRequests -> {PbIdle} \cup PbShape]
  BY DEF PbInv, RowTypes, Answered, PbGo
<1>5. Kept
  BY <1>2, <1>3, <1>4 DEF PbInv, RowTypes, Kept, Contacts, Books
<1>6. ASSUME NEW b \in Books' PROVE Own(books'[b].user, books'[b].members, contacts')
  BY <1>2, <1>3 DEF PbInv, Members, Books
<1>7. QED
  BY <1>5, <1>6, StepKeeps DEF Answered

LEMMA SaveKeeps == ASSUME PbInv, NEW q \in PbRequests, SaveBook(q) PROVE PbInv'
<1>1. BookRequestOK(pb[q], contacts, books) /\ pb[q] \in PbShape /\ pb[q].at \in {"save", "members"}
      /\ (pb[q].at = "members" => pb[q].op = "add")
  BY Here DEF SaveBook, PbAt
<1> DEFINE d == pb[q].book
           new == Changed(pb[q])
<1>2. pb[q].op \in {"add", "remove", "title"} /\ d \in Books /\ HoldsBook(pb[q], contacts, books)
  BY <1>1 DEF BookRequestOK, AboutBook, Books
<1>3. pb[q].op = "title" => pb[q].title \in PbTitles
  BY <1>1 DEF BookRequestOK
<1>4. /\ pb[q].copy \in BookRecords /\ pb[q].copy.user = books[d].user
      /\ Own(pb[q].copy.user, pb[q].copy.members, contacts)
      /\ Own(pb[q].copy.user, pb[q].list, contacts)
      /\ pb[q].list \subseteq Nat
  BY <1>1, <1>2 DEF HoldsBook, BookRequestOK, PbShape
<1>5. /\ new \in BookRecords /\ new.user = pb[q].copy.user
      /\ new.members \subseteq pb[q].copy.members \cup pb[q].list
  <2>1. CASE pb[q].op = "add"
    BY <1>4, <2>1 DEF Changed, BookRecords
  <2>2. CASE pb[q].op = "remove"
    BY <1>4, <2>2 DEF Changed, BookRecords
  <2>3. CASE pb[q].op = "title"
    BY <1>3, <1>4, <2>3 DEF Changed, BookRecords
  <2>4. QED
    BY <1>2, <2>1, <2>2, <2>3
<1>6. Own(new.user, new.members, contacts)
  BY <1>4, <1>5 DEF Own
<1>7. QED
  BY <1>2, <1>4, <1>5, <1>6, WriteKeeps DEF SaveBook

LEMMA DeleteKeeps == ASSUME PbInv, NEW q \in PbRequests, DeleteBook(q) PROVE PbInv'
<1>1. BookRequestOK(pb[q], contacts, books) /\ pb[q].at = "delete"
  BY Here DEF DeleteBook, PbAt
<1> DEFINE d == pb[q].book
           new == [books[d] EXCEPT !.live = FALSE]
<1>2. d \in Books /\ books[d] \in BookRecords
  BY <1>1, ElementOfSeq DEF BookRequestOK, AboutBook, Books, PbInv, RowTypes
<1>3. new \in BookRecords /\ new.user = books[d].user /\ new.members = books[d].members
  BY <1>2 DEF BookRecords
<1>4. Own(new.user, new.members, contacts)
  BY <1>2, <1>3 DEF PbInv, Members
<1>5. QED
  BY <1>2, <1>3, <1>4, WriteKeeps DEF DeleteBook

LEMMA PbStep == PbInv /\ [PhonebookNext]_pbVars => PbInv'
<1> SUFFICES ASSUME PbInv, [PhonebookNext]_pbVars PROVE PbInv'
  OBVIOUS
<1>1. CASE UNCHANGED pbVars
  BY <1>1 DEF PbInv, RowTypes, Requests, Members, Books, Contacts, pbVars
<1>2. CASE PhonebookNext
  <2>1. PICK q \in PbRequests :
          \/ PbReceive(q) \/ CheckTitle(q) \/ ReadBook(q) \/ LookUp(q) \/ InsertContact(q)
          \/ CreateBook(q) \/ ReadContact(q) \/ SaveNumber(q) \/ SaveBook(q) \/ DeleteBook(q)
          \/ PbStop(q)
    BY <1>2 DEF PhonebookNext
  <2>2. QED
    BY <2>1, ReceiveKeeps, TitleKeeps, ReadBookKeeps, LookUpKeeps, InsertKeeps, CreateKeeps,
       ReadContactKeeps, NumberKeeps, SaveKeeps, DeleteKeeps, StopKeeps
<1>3. QED
  BY <1>1, <1>2

LEMMA PbHolds == PhonebookSpec => []PbInv
<1>1. QED
  BY PbInit, PbStep, PTL DEF PhonebookSpec

-----------------------------------------------------------------------------
(***************************************************************************)
(* The rows keep their types: a phonebook has only ids of contacts that    *)
(* exist, so that the page of its members finds a row for each.            *)
(***************************************************************************)
THEOREM PhonebookTypes == PhonebookSpec => []PhonebookTypeOK
<1>1. PbInv => PhonebookTypeOK
  <2> SUFFICES ASSUME PbInv PROVE PhonebookTypeOK
    OBVIOUS
  <2> DEFINE R == [user : PbUsers, title : PbTitles, members : SUBSET Contacts, live : BOOLEAN]
  <2>1. books \in Seq(BookRecords)
    BY DEF PbInv, RowTypes
  <2>2. ASSUME NEW b \in 1..Len(books) PROVE books[b] \in R
    <3>1. books[b] \in BookRecords
      BY <2>1, ElementOfSeq
    <3>2. books[b].members \subseteq Contacts
      BY DEF PbInv, Members, Own, Books, Contacts
    <3>3. QED
      BY <3>1, <3>2 DEF BookRecords
  <2>3. Len(books) \in Nat /\ books \in [1..Len(books) -> BookRecords]
    BY <2>1, LenProperties
  <2>4. books \in Seq(R)
    <3> HIDE DEF R
    <3>1. books \in [1..Len(books) -> R]
      BY <2>2, <2>3
    <3>2. QED
      BY <2>3, <3>1, SeqDef
  <2>5. QED
    BY <2>4 DEF PhonebookTypeOK, PbInv, RowTypes, ContactRecords
<1>2. QED
  BY <1>1, PbHolds, PTL

(***************************************************************************)
(* Every member of a phonebook is a contact of its owner, for any number   *)
(* of requests that overlap, write back rows read long before, or stop     *)
(* half way (createPhonebook, addContact, deleteContact, updatePhonebook). *)
(***************************************************************************)
THEOREM MembersOwn == PhonebookSpec => []MembersAreOwnContacts
<1>1. QED
  BY PbHolds, PbImplies, PTL

-----------------------------------------------------------------------------
(* A user whose requests do not overlap; those of other users may.         *)

PbAlone == \A q, x \in PbRequests :
    pb[q].at # "idle" /\ pb[x].at # "idle" /\ pb[q].user = pb[x].user => q = x

(***************************************************************************)
(* What a request has read still holds: nobody has the number it is about  *)
(* to insert, the contact it is about to change is of the user, and the    *)
(* copy it is about to write is the row.                                   *)
(***************************************************************************)
StillTrue(r, cs, bs) ==
    /\ r.at = "insert" =>
          \A c \in 1..Len(cs) : ~(cs[c].user = r.user /\ cs[c].number = r.number)
    /\ r.at = "number" => cs[r.contact].user = r.user
    /\ r.at \notin {"idle", "book"} /\ r.op \in AboutBook => r.copy = bs[r.book]

PbSerial ==
    /\ OneContactPerNumber
    /\ \A q \in PbRequests : StillTrue(pb[q], contacts, books)

LEMMA SerialInit == PhonebookInit => PbSerial
  BY DEF PhonebookInit, PbSerial, OneContactPerNumber, Contacts, StillTrue, PbIdle

\* Nothing of another user's changes, and nothing of a contact but its number.
LEMMA OthersStillTrue ==
    ASSUME PbInv, PbAlone, PbSerial, Kept, NEW q \in PbRequests, pb[q].at # "idle",
           \A c \in Contacts' : \/ c \in Contacts /\ contacts'[c] = contacts[c]
                                \/ contacts'[c].user = pb[q].user,
           \A b \in Books : books'[b] = books[b] \/ books[b].user = pb[q].user,
           NEW x \in PbRequests, x # q
    PROVE  StillTrue(pb[x], contacts', books')
<1>1. CASE pb[x].at = "idle"
  BY <1>1 DEF StillTrue
<1>2. CASE pb[x].at # "idle"
  <2>1. BookRequestOK(pb[x], contacts, books) /\ StillTrue(pb[x], contacts, books)
    BY <1>2, Here DEF PbSerial
  <2>2. pb[x].user # pb[q].user
    BY <1>2 DEF PbAlone
  <2>3. ASSUME pb[x].at = "insert"
        PROVE  \A c \in Contacts' :
                 ~(contacts'[c].user = pb[x].user /\ contacts'[c].number = pb[x].number)
    BY <2>1, <2>2, <2>3 DEF StillTrue, Contacts
  <2>4. ASSUME pb[x].at = "number" PROVE contacts'[pb[x].contact].user = pb[x].user
    <3>1. pb[x].contact \in Contacts
      BY <2>1, <2>4 DEF BookRequestOK, Contacts
    <3>2. QED
      BY <2>1, <2>4, <3>1 DEF StillTrue, Kept
  <2>5. ASSUME pb[x].at # "book", pb[x].op \in AboutBook
        PROVE  pb[x].copy = books'[pb[x].book]
    <3>1. pb[x].book \in Books /\ books[pb[x].book].user = pb[x].user
      BY <2>1, <2>5 DEF BookRequestOK, HoldsBook, Books
    <3>2. QED
      BY <1>2, <2>1, <2>2, <2>5, <3>1 DEF StillTrue
  <2>6. QED
    BY <2>3, <2>4, <2>5 DEF StillTrue, Contacts
<1>3. QED
  BY <1>1, <1>2

\* A step of q, with what it leaves to show.
LEMMA SerialKept ==
    ASSUME PbInv, PbAlone, PbSerial, PbInv', Kept, NEW q \in PbRequests,
           NEW STATE r, PbGo(q, r), StillTrue(r, contacts', books'), OneContactPerNumber',
           \A x \in PbRequests : x # q => StillTrue(pb[x], contacts', books')
    PROVE  PbSerial'
<1>1. pb \in [PbRequests -> {PbIdle} \cup PbShape]
  BY DEF PbInv, RowTypes
<1>2. \A x \in PbRequests : pb'[x] = IF x = q THEN r ELSE pb[x]
  BY <1>1 DEF PbGo
<1>3. QED
  BY <1>2 DEF PbSerial

LEMMA SerialMove ==
    ASSUME PbInv, PbSerial, NEW q \in PbRequests, NEW STATE r, PbGo(q, r),
           StillTrue(r, contacts, books), UNCHANGED <<contacts, books, renumbered>>
    PROVE  PbSerial'
<1>1. pb \in [PbRequests -> {PbIdle} \cup PbShape]
  BY DEF PbInv, RowTypes
<1>2. \A x \in PbRequests : pb'[x] = IF x = q THEN r ELSE pb[x]
  BY <1>1 DEF PbGo
<1>3. \A x \in PbRequests : StillTrue(pb'[x], contacts', books')
  BY <1>2 DEF PbSerial
<1>4. OneContactPerNumber'
  BY DEF PbSerial, OneContactPerNumber, Contacts
<1>5. QED
  BY <1>3, <1>4 DEF PbSerial

LEMMA IdleStillTrue == \A cs, bs : StillTrue(PbIdle, cs, bs)
  BY DEF StillTrue, PbIdle

LEMMA ReceiveSerial == ASSUME PbInv, PbSerial, NEW q \in PbRequests, PbReceive(q) PROVE PbSerial'
<1>1. pb \in [PbRequests -> {PbIdle} \cup PbShape]
  BY DEF PbInv, RowTypes
<1>2. \/ pb'[q].at = "book"
      \/ pb'[q].at = "title" /\ pb'[q].op = "create"
      \/ pb'[q].at = "contact" /\ pb'[q].op = "renumber"
  <2>1. \A r : PbGo(q, r) => pb'[q] = r
    BY <1>1 DEF PbGo
  <2>2. PICK u \in PbUsers :
          \/ \E t \in PbTitles, ns \in SUBSET PbNumbers :
               pb'[q] = [PbRequest("title", "create", u) EXCEPT !.title = t, !.todo = ns]
          \/ \E b \in Books, ns \in SUBSET PbNumbers :
               pb'[q] = [PbRequest("book", "add", u) EXCEPT !.book = b, !.todo = ns]
          \/ \E b \in Books, c \in Contacts :
               pb'[q] = [PbRequest("book", "remove", u) EXCEPT !.book = b, !.contact = c]
          \/ \E b \in Books, t \in PbTitles :
               pb'[q] = [PbRequest("book", "title", u) EXCEPT !.book = b, !.title = t]
          \/ \E b \in Books : pb'[q] = [PbRequest("book", "delete", u) EXCEPT !.book = b]
          \/ \E c \in Contacts, n \in PbNumbers :
               pb'[q] = [PbRequest("contact", "renumber", u) EXCEPT !.contact = c, !.number = n]
    BY <2>1 DEF PbReceive
  <2>3. QED
    BY <2>2 DEF PbRequest
<1>3. PbGo(q, pb'[q])
  BY <1>1 DEF PbReceive, PbGo
<1>4. StillTrue(pb'[q], contacts, books)
  BY <1>2 DEF StillTrue, AboutBook
<1>5. QED
  BY <1>3, <1>4, SerialMove DEF PbReceive

LEMMA TitleSerial == ASSUME PbInv, PbSerial, NEW q \in PbRequests, CheckTitle(q) PROVE PbSerial'
<1>1. BookRequestOK(pb[q], contacts, books) /\ pb[q] \in PbShape /\ pb[q].at = "title"
  BY Here DEF CheckTitle, PbAt
<1> DEFINE r == [pb[q] EXCEPT !.at = "members"]
<1>2. StillTrue(r, contacts, books)
  BY <1>1 DEF StillTrue, BookRequestOK, PbShape, AboutBook
<1>3. QED
  BY <1>2, IdleStillTrue, SerialMove DEF CheckTitle, Answered

LEMMA ReadBookSerial == ASSUME PbInv, PbSerial, NEW q \in PbRequests, ReadBook(q) PROVE PbSerial'
<1>1. BookRequestOK(pb[q], contacts, books) /\ pb[q] \in PbShape /\ pb[q].at = "book"
  BY Here DEF ReadBook, PbAt
<1> DEFINE b == pb[q].book
           at == CASE pb[q].op = "add" -> "members"
                   [] pb[q].op = "remove" -> "contact"
                   [] pb[q].op = "title" -> "save"
                   [] OTHER -> "delete"
           r == [pb[q] EXCEPT !.copy = books[b], !.at = at]
<1>2. PbGo(q, PbIdle) \/ PbGo(q, r)
  BY DEF ReadBook, Answered
<1>3. at \notin {"insert", "number"}
  OBVIOUS
<1>4. r.at = at /\ r.copy = books[b] /\ r.book = b
  BY <1>1 DEF PbShape
<1>5. StillTrue(r, contacts, books)
  <2> HIDE DEF at, r
  <2>1. QED
    BY <1>3, <1>4 DEF StillTrue
<1>6. QED
  BY <1>2, <1>5, IdleStillTrue, SerialMove DEF ReadBook

LEMMA LookUpSerial == ASSUME PbInv, PbSerial, NEW q \in PbRequests, LookUp(q) PROVE PbSerial'
<1>1. BookRequestOK(pb[q], contacts, books) /\ pb[q] \in PbShape /\ pb[q].at = "members"
  BY Here DEF LookUp, PbAt
<1>2. StillTrue(pb[q], contacts, books)
  BY DEF PbSerial
<1>3. PICK n \in pb[q].todo :
        \/ \E c \in ContactsFor(pb[q].user, n) :
             PbGo(q, [pb[q] EXCEPT !.todo = @ \ {n}, !.list = @ \cup {c}])
        \/ /\ ContactsFor(pb[q].user, n) = {}
           /\ PbGo(q, [pb[q] EXCEPT !.at = "insert", !.todo = @ \ {n}, !.number = n])
  BY DEF LookUp
<1>4. CASE \E c \in ContactsFor(pb[q].user, n) :
             PbGo(q, [pb[q] EXCEPT !.todo = @ \ {n}, !.list = @ \cup {c}])
  <2>1. PICK c \in ContactsFor(pb[q].user, n) :
          PbGo(q, [pb[q] EXCEPT !.todo = @ \ {n}, !.list = @ \cup {c}])
    BY <1>4
  <2> DEFINE r == [pb[q] EXCEPT !.todo = @ \ {n}, !.list = @ \cup {c}]
  <2>2. StillTrue(r, contacts, books)
    BY <1>1, <1>2 DEF StillTrue, PbShape
  <2>3. QED
    BY <2>1, <2>2, SerialMove DEF LookUp
<1>5. CASE /\ ContactsFor(pb[q].user, n) = {}
           /\ PbGo(q, [pb[q] EXCEPT !.at = "insert", !.todo = @ \ {n}, !.number = n])
  <2> DEFINE r == [pb[q] EXCEPT !.at = "insert", !.todo = @ \ {n}, !.number = n]
  <2>1. \A c \in Contacts : ~(contacts[c].user = pb[q].user /\ contacts[c].number = n)
    BY <1>5 DEF ContactsFor
  <2>2. StillTrue(r, contacts, books)
    BY <1>1, <1>2, <2>1 DEF StillTrue, PbShape, Contacts
  <2>3. QED
    BY <1>5, <2>2, SerialMove DEF LookUp
<1>6. QED
  BY <1>3, <1>4, <1>5

LEMMA ReadContactSerial ==
    ASSUME PbInv, PbSerial, NEW q \in PbRequests, ReadContact(q) PROVE PbSerial'
<1>1. BookRequestOK(pb[q], contacts, books) /\ pb[q] \in PbShape /\ pb[q].at = "contact"
  BY Here DEF ReadContact, PbAt
<1>2. StillTrue(pb[q], contacts, books)
  BY DEF PbSerial
<1> DEFINE r == [pb[q] EXCEPT !.at = IF pb[q].op = "renumber" THEN "number" ELSE "save"]
<1>3. \/ PbGo(q, PbIdle)
      \/ PbGo(q, r) /\ (pb[q].op = "renumber" => contacts[pb[q].contact].user = pb[q].user)
  BY DEF ReadContact, Answered
<1>4. ASSUME pb[q].op = "renumber" => contacts[pb[q].contact].user = pb[q].user
      PROVE  StillTrue(r, contacts, books)
  BY <1>1, <1>2, <1>4 DEF StillTrue, PbShape, AboutBook
<1>5. QED
  BY <1>3, <1>4, IdleStillTrue, SerialMove DEF ReadContact

LEMMA InsertSerial ==
    ASSUME PbInv, PbInv', PbAlone, PbSerial, NEW q \in PbRequests, InsertContact(q)
    PROVE  PbSerial'
<1>1. BookRequestOK(pb[q], contacts, books) /\ pb[q] \in PbShape /\ pb[q].at = "insert"
  BY Here DEF InsertContact, PbAt
<1>2. StillTrue(pb[q], contacts, books)
  BY DEF PbSerial
<1> DEFINE new == [user |-> pb[q].user, number |-> pb[q].number]
           r == [pb[q] EXCEPT !.at = "members", !.list = @ \cup {Len(contacts) + 1}]
<1>3. contacts \in Seq(ContactRecords) /\ new \in ContactRecords
  BY <1>1 DEF PbInv, RowTypes, BookRequestOK, PbShape, ContactRecords
<1>4. /\ Len(contacts') = Len(contacts) + 1
      /\ \A c \in 1..Len(contacts) : contacts'[c] = contacts[c]
      /\ contacts'[Len(contacts) + 1] = new
  BY <1>3, AppendProperties DEF InsertContact
<1>5. Len(contacts) \in Nat
  BY <1>3, LenProperties
<1>6. \A c \in Contacts' : \/ c \in Contacts /\ contacts'[c] = contacts[c]
                           \/ c = Len(contacts) + 1 /\ contacts'[c] = new
  BY <1>4, <1>5 DEF Contacts
<1>7. Kept
  BY <1>4, <1>5 DEF Kept, PbInv, InsertContact, Contacts, Books
<1>8. \A c \in Contacts : contacts[c] # new
  BY <1>1, <1>2 DEF StillTrue, Contacts
<1>9. OneContactPerNumber'
  <2> HIDE DEF new, r
  <2>1. OneContactPerNumber /\ renumbered' = renumbered
    BY DEF PbSerial, InsertContact
  <2>2. QED
    BY <1>6, <1>8, <2>1 DEF OneContactPerNumber
<1>10. ASSUME NEW x \in PbRequests, x # q PROVE StillTrue(pb[x], contacts', books')
  <2>1. \A c \in Contacts' : \/ c \in Contacts /\ contacts'[c] = contacts[c]
                             \/ contacts'[c].user = pb[q].user
    BY <1>6
  <2>2. books' = books
    BY DEF InsertContact
  <2>3. QED
    BY <1>1, <1>7, <1>10, <2>1, <2>2, OthersStillTrue
<1>11. StillTrue(r, contacts', books')
  BY <1>1, <1>2 DEF StillTrue, PbShape, InsertContact
<1>12. QED
  BY <1>7, <1>9, <1>10, <1>11, SerialKept DEF InsertContact

LEMMA NumberSerial ==
    ASSUME PbInv, PbInv', PbAlone, PbSerial, NEW q \in PbRequests, SaveNumber(q)
    PROVE  PbSerial'
<1>1. BookRequestOK(pb[q], contacts, books) /\ pb[q].at = "number" /\ pb[q].op = "renumber"
  BY Here DEF SaveNumber, PbAt, BookRequestOK
<1> DEFINE d == pb[q].contact
           new == [contacts[d] EXCEPT !.number = pb[q].number]
<1>2. contacts \in Seq(ContactRecords) /\ d \in 1..Len(contacts) /\ pb[q].number \in PbNumbers
  BY <1>1 DEF PbInv, RowTypes, BookRequestOK
<1>3. contacts[d] \in ContactRecords /\ contacts[d].user = pb[q].user
  BY <1>1, <1>2, ElementOfSeq DEF PbSerial, StillTrue
<1>4. new \in ContactRecords /\ new.user = contacts[d].user
  BY <1>2, <1>3 DEF ContactRecords
<1>5. contacts' = [contacts EXCEPT ![d] = new]
  BY DEF SaveNumber
<1>6. Len(contacts') = Len(contacts)
  BY <1>2, <1>4, <1>5, ExceptSeq
<1>7. /\ Contacts' = Contacts
      /\ \A c \in Contacts : contacts'[c] = IF c = d THEN new ELSE contacts[c]
  BY <1>2, <1>5, <1>6 DEF Contacts
<1>8. Kept
  BY <1>4, <1>7 DEF Kept, PbInv, SaveNumber, Books
<1>9. OneContactPerNumber'
  BY <1>7 DEF OneContactPerNumber, PbSerial, SaveNumber
<1>10. ASSUME NEW x \in PbRequests, x # q PROVE StillTrue(pb[x], contacts', books')
  <2>1. \A c \in Contacts' : \/ c \in Contacts /\ contacts'[c] = contacts[c]
                             \/ contacts'[c].user = pb[q].user
    BY <1>3, <1>4, <1>7
  <2>2. books' = books
    BY DEF SaveNumber
  <2>3. QED
    BY <1>1, <1>8, <1>10, <2>1, <2>2, OthersStillTrue
<1>11. QED
  BY <1>8, <1>9, <1>10, IdleStillTrue, SerialKept DEF SaveNumber, Answered

LEMMA CreateSerial ==
    ASSUME PbInv, PbInv', PbAlone, PbSerial, NEW q \in PbRequests, CreateBook(q)
    PROVE  /\ PbSerial'
           /\ \A b \in Books : books'[b] = books[b]
<1>1. BookRequestOK(pb[q], contacts, books) /\ pb[q] \in PbShape /\ pb[q].at = "members"
  BY Here DEF CreateBook, PbAt
<1> DEFINE new == [user |-> pb[q].user, title |-> pb[q].title,
                   members |-> pb[q].list, live |-> TRUE]
<1>2. books \in Seq(BookRecords) /\ new \in BookRecords
  BY <1>1 DEF CreateBook, PbInv, RowTypes, BookRequestOK, PbShape, BookRecords
<1>3. /\ Len(books') = Len(books) + 1 /\ Len(books) \in Nat
      /\ \A b \in 1..Len(books) : books'[b] = books[b]
  BY <1>2, AppendProperties, LenProperties DEF CreateBook
<1>4. \A b \in Books : books'[b] = books[b]
  BY <1>3 DEF Books
<1>5. contacts' = contacts /\ renumbered' = renumbered /\ Contacts' = Contacts
  BY DEF CreateBook, Contacts
<1>6. Kept
  BY <1>3, <1>5 DEF Kept, PbInv, Books
<1>7. \A x \in PbRequests : x # q => StillTrue(pb[x], contacts', books')
  BY <1>1, <1>4, <1>5, <1>6, OthersStillTrue
<1>8. OneContactPerNumber'
  BY <1>5 DEF PbSerial, OneContactPerNumber
<1>9. QED
  BY <1>4, <1>6, <1>7, <1>8, IdleStillTrue, SerialKept DEF CreateBook, Answered

\* A row of the user's is replaced by another.
LEMMA WriteSerial ==
    ASSUME PbInv, PbInv', PbAlone, PbSerial, NEW q \in PbRequests, pb[q].at # "idle",
           NEW d \in Books, NEW new \in BookRecords,
           new.user = books[d].user, books[d].user = pb[q].user,
           books' = [books EXCEPT ![d] = new], Answered(q), UNCHANGED <<contacts, renumbered>>
    PROVE  /\ PbSerial'
           /\ \A b \in Books : books'[b] = IF b = d THEN new ELSE books[b]
<1>1. books \in Seq(BookRecords)
  BY DEF PbInv, RowTypes
<1>2. Len(books') = Len(books)
  BY <1>1, ExceptSeq DEF Books
<1>3. \A b \in Books : books'[b] = IF b = d THEN new ELSE books[b]
  BY <1>1 DEF Books
<1>4. contacts' = contacts /\ renumbered' = renumbered /\ Contacts' = Contacts
  BY DEF Contacts
<1>5. Kept
  BY <1>2, <1>3, <1>4 DEF Kept, PbInv, Books
<1>6. \A x \in PbRequests : x # q => StillTrue(pb[x], contacts', books')
  BY <1>3, <1>4, <1>5, OthersStillTrue
<1>7. OneContactPerNumber'
  BY <1>4 DEF PbSerial, OneContactPerNumber
<1>8. QED
  BY <1>3, <1>5, <1>6, <1>7, IdleStillTrue, SerialKept DEF Answered

KeepStep(b) ==
    /\ books'[b].live => books[b].live
    /\ \A c \in books[b].members \ books'[b].members : RemovedBy(b, c)

LEMMA SaveSerial ==
    ASSUME PbInv, PbInv', PbAlone, PbSerial, NEW q \in PbRequests, SaveBook(q)
    PROVE  PbSerial' /\ \A b \in Books : KeepStep(b)
<1>1. /\ BookRequestOK(pb[q], contacts, books) /\ pb[q] \in PbShape
      /\ pb[q].at \in {"save", "members"} /\ (pb[q].at = "members" => pb[q].op = "add")
  BY Here DEF SaveBook, PbAt
<1> DEFINE d == pb[q].book
           new == Changed(pb[q])
<1>2. pb[q].op \in {"add", "remove", "title"} /\ d \in Books /\ HoldsBook(pb[q], contacts, books)
  BY <1>1 DEF BookRequestOK, AboutBook, Books
<1>3. pb[q].copy = books[d]
  BY <1>1, <1>2 DEF PbSerial, StillTrue, AboutBook
<1>4. /\ pb[q].copy \in BookRecords /\ pb[q].copy.user = pb[q].user
      /\ pb[q].list \subseteq Nat /\ (pb[q].op = "title" => pb[q].title \in PbTitles)
  BY <1>1, <1>2 DEF HoldsBook, BookRequestOK, PbShape
<1>5. /\ new \in BookRecords /\ new.user = books[d].user /\ new.live = books[d].live
      /\ \A c \in books[d].members \ new.members : pb[q].op = "remove" /\ pb[q].contact = c
  <2>1. CASE pb[q].op = "add"
    BY <1>3, <1>4, <2>1 DEF Changed, BookRecords
  <2>2. CASE pb[q].op = "remove"
    BY <1>3, <1>4, <2>2 DEF Changed, BookRecords
  <2>3. CASE pb[q].op = "title"
    BY <1>3, <1>4, <2>3 DEF Changed, BookRecords
  <2>4. QED
    BY <1>2, <2>1, <2>2, <2>3
<1>6. /\ PbSerial'
      /\ \A b \in Books : books'[b] = IF b = d THEN new ELSE books[b]
  <2>1. books' = [books EXCEPT ![d] = new] /\ Answered(q) /\ UNCHANGED <<contacts, renumbered>>
    BY DEF SaveBook
  <2>2. books[d].user = pb[q].user /\ pb[q].at # "idle"
    BY <1>1, <1>3, <1>4
  <2> HIDE DEF d, new
  <2>3. QED
    BY <1>2, <1>5, <2>1, <2>2, WriteSerial
<1>7. ASSUME NEW b \in Books PROVE KeepStep(b)
  <2> HIDE DEF new
  <2>1. QED
    BY <1>5, <1>6 DEF KeepStep, RemovedBy
<1>8. QED
  BY <1>6, <1>7

LEMMA DeleteSerial ==
    ASSUME PbInv, PbInv', PbAlone, PbSerial, NEW q \in PbRequests, DeleteBook(q)
    PROVE  PbSerial' /\ \A b \in Books : KeepStep(b)
<1>1. BookRequestOK(pb[q], contacts, books) /\ pb[q].at = "delete"
  BY Here DEF DeleteBook, PbAt
<1> DEFINE d == pb[q].book
           new == [books[d] EXCEPT !.live = FALSE]
<1>2. d \in Books /\ books[d] \in BookRecords /\ books[d].user = pb[q].user
  BY <1>1, ElementOfSeq DEF BookRequestOK, HoldsBook, AboutBook, Books, PbInv, RowTypes
<1>3. /\ new \in BookRecords /\ new.user = books[d].user /\ new.members = books[d].members
      /\ new.live = FALSE
  BY <1>2 DEF BookRecords
<1>4. /\ PbSerial'
      /\ \A b \in Books : books'[b] = IF b = d THEN new ELSE books[b]
  <2>1. books' = [books EXCEPT ![d] = new] /\ Answered(q) /\ UNCHANGED <<contacts, renumbered>>
    BY DEF DeleteBook
  <2> HIDE DEF d, new
  <2>2. QED
    BY <1>1, <1>2, <1>3, <2>1, WriteSerial
<1>5. ASSUME NEW b \in Books PROVE KeepStep(b)
  <2> HIDE DEF new
  <2>1. QED
    BY <1>3, <1>4 DEF KeepStep
<1>6. QED
  BY <1>4, <1>5

LEMMA SerialStep ==
    PbInv /\ PbInv' /\ PbAlone /\ PbSerial /\ [PhonebookNext]_pbVars
      => PbSerial' /\ \A b \in Books : KeepStep(b)
<1> SUFFICES ASSUME PbInv, PbInv', PbAlone, PbSerial, [PhonebookNext]_pbVars
             PROVE  PbSerial' /\ \A b \in Books : KeepStep(b)
  OBVIOUS
<1>1. ASSUME books' = books, NEW b \in Books PROVE KeepStep(b)
  BY <1>1 DEF KeepStep
<1>2. CASE UNCHANGED pbVars
  <2>1. PbSerial'
    BY <1>2 DEF PbSerial, OneContactPerNumber, Contacts, pbVars
  <2>2. QED
    BY <1>1, <1>2, <2>1 DEF pbVars
<1>3. ASSUME NEW q \in PbRequests, PbStop(q) PROVE PbSerial' /\ books' = books
  BY <1>3, IdleStillTrue, SerialMove DEF PbStop, Answered
<1>4. ASSUME NEW q \in PbRequests,
             \/ PbReceive(q) \/ CheckTitle(q) \/ ReadBook(q) \/ LookUp(q) \/ InsertContact(q)
             \/ ReadContact(q) \/ SaveNumber(q)
      PROVE  PbSerial' /\ books' = books
  <2>1. books' = books
    BY <1>4 DEF PbReceive, CheckTitle, ReadBook, LookUp, InsertContact, ReadContact, SaveNumber
  <2>2. QED
    BY <1>4, <2>1, ReceiveSerial, TitleSerial, ReadBookSerial, LookUpSerial, InsertSerial,
       ReadContactSerial, NumberSerial
<1>5. ASSUME NEW q \in PbRequests, CreateBook(q) PROVE PbSerial' /\ \A b \in Books : KeepStep(b)
  BY <1>5, CreateSerial DEF KeepStep
<1>6. QED
  BY <1>1, <1>2, <1>3, <1>4, <1>5, SaveSerial, DeleteSerial DEF PhonebookNext

LEMMA SerialHolds == PhonebookSpec /\ []PbAlone => []PbSerial
<1>1. QED
  BY PbHolds, SerialInit, SerialStep, PTL DEF PhonebookSpec

(***************************************************************************)
(* A user whose requests do not overlap has one contact per number, apart  *)
(* from numbers that were changed, while other users' requests overlap at  *)
(* will: between the search for a number (createPhonebook, addContact) and *)
(* the insert nothing of the user's is inserted.                           *)
(***************************************************************************)
THEOREM OneContact == PhonebookSpec /\ []PbAlone => []OneContactPerNumber
<1>1. PbSerial => OneContactPerNumber
  BY DEF PbSerial
<1>2. QED
  BY <1>1, SerialHolds, PTL

(***************************************************************************)
(* Nor does such a user lose members or get back a phonebook that was      *)
(* deleted: the row that addContact, deleteContact and updatePhonebook     *)
(* write back whole is still the row that they read.                       *)
(***************************************************************************)
THEOREM OnlyRemoved == PhonebookSpec /\ []PbAlone => MembersKept
<1>1. PbInv /\ PbInv' /\ PbAlone /\ PbSerial /\ [PhonebookNext]_pbVars
        => [\A b \in Books :
              /\ books'[b].live => books[b].live
              /\ \A c \in books[b].members \ books'[b].members : RemovedBy(b, c)]_pbVars
  BY SerialStep DEF KeepStep
<1>2. QED
  BY <1>1, PbHolds, SerialHolds, PTL DEF PhonebookSpec, MembersKept
=============================================================================
