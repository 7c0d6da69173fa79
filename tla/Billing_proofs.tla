---------------------------- MODULE Billing_proofs ----------------------------
(***************************************************************************)
(* Proofs about Billing, for any set of requests, any receiver counts, any *)
(* chunk sizes and any opening balances: first whatever requests overlap,  *)
(* then what needs requests that do not, up to the refinement of Ledger.   *)
(***************************************************************************)
EXTENDS Billing, AbSplit_proofs, FiniteSetTheorems

(***************************************************************************)
(* The parts of a send have a natural number of receivers.                 *)
(***************************************************************************)
LEMMA PartCountNat ==
    ASSUME TypeOK, NEW r \in Requests, NEW p \in Parts
    PROVE  PartCount(r, p) \in Nat
  BY CountsAddUp DEF TypeOK, PartCount, Parts

(***************************************************************************)
(* The row after an UPDATE is a row of integers.                           *)
(***************************************************************************)
LEMMA OverwrittenType ==
    ASSUME TypeOK, NEW r \in Requests
    PROVE  Overwritten(r) \in [point : Int, money : Int]
  BY DEF TypeOK, Overwritten

(***************************************************************************)
(* A deduction leaves a row of integers and takes off exactly the cost;    *)
(* it never takes the points below zero.                                   *)
(***************************************************************************)
LEMMA DeductedExactly ==
    ASSUME NEW u \in [point : Int, money : Int], NEW cost \in Nat
    PROVE  /\ Deducted(u, cost) \in [point : Int, money : Int]
           /\ Deducted(u, cost).point + Deducted(u, cost).money = u.point + u.money - cost
           /\ u.point >= 0 => Deducted(u, cost).point >= 0
  BY DEF Deducted

LEMMA CostNat ==
    ASSUME TypeOK, NEW r \in Requests
    PROVE  Cost(r) \in Nat
  BY DEF TypeOK, Cost, Price

-----------------------------------------------------------------------------

LEMMA InitTypeOK == Init => TypeOK
<1> SUFFICES ASSUME Init PROVE TypeOK
  OBVIOUS
<1>1. user \in [point : Int, money : Int]
  BY OpeningsAssumption DEF Init, Row
<1>2. QED
  BY <1>1 DEF Init, TypeOK, Kinds, SendKinds, SmsKinds, Stages, Parts

LEMMA NextTypeOK == TypeOK /\ [Next]_vars => TypeOK'
<1> SUFFICES ASSUME TypeOK, [Next]_vars PROVE TypeOK'
  OBVIOUS
<1> USE DEF TypeOK, Goto, At
<1>1. ASSUME NEW r \in Requests, ReceiveSms(r) PROVE TypeOK'
  <2>1. \E n \in Nat, k \in SmsKinds : Start(r, k, n, "check")
    BY <1>1, SizesAssumption DEF ReceiveSms, SmsKinds
  <2>2. PICK n \in Nat, k \in SmsKinds : Start(r, k, n, "check")
    BY <2>1
  <2>3. QED
    BY <1>1, <2>2 DEF ReceiveSms, Start, ReadUser, Kinds, SendKinds, Stages, Parts
<1>2. ASSUME NEW r \in Requests, ReceiveBiz(r) PROVE TypeOK'
  <2>1. PICK n \in Nat, k \in {"bizDefault", "bizAb"} : Start(r, k, n, "check")
    BY <1>2, SizesAssumption DEF ReceiveBiz
  <2>2. QED
    BY <1>2, <2>1 DEF ReceiveBiz, Start, entity, Kinds, SendKinds, Stages, Parts
<1>3. ASSUME NEW r \in Requests, ReceiveTopUp(r) PROVE TypeOK'
  <2>1. PICK n \in Nat : Start(r, "topUp", n, "credit")
    BY <1>3, TopUpsAssumption DEF ReceiveTopUp
  <2>2. QED
    BY <1>3, <2>1 DEF ReceiveTopUp, Start, ReadUser, sending, Kinds, Stages
<1>4. ASSUME NEW r \in Requests, ReceiveProfile(r) PROVE TypeOK'
  BY <1>4 DEF ReceiveProfile, Start, ReadUser, sending, Kinds, Stages
<1>5. ASSUME NEW r \in Requests, Check(r) PROVE TypeOK'
  BY <1>5 DEF Check, entity, sending, Stages
<1>6. ASSUME NEW r \in Requests, CreateGroup(r) PROVE TypeOK'
  BY <1>6 DEF CreateGroup, entity, Stages
<1>7. ASSUME NEW r \in Requests, PostChunk(r) PROVE TypeOK'
  <2> DEFINE left == PartCount(r, part[r]) - accepted[r][part[r]]
             chunk == IF Sms(r) THEN SmsChunk ELSE BizChunk
             more == IF left < chunk THEN left ELSE chunk
  <2>1. left \in Int /\ left > 0 /\ chunk \in Nat /\ accepted[r] \in [Parts -> Nat]
    BY <1>7, PartCountNat, ChunkAssumption DEF PostChunk
  <2>2. more \in Nat
    BY <2>1
  <2>3. accepted' = [accepted EXCEPT ![r][part[r]] = @ + more]
    BY <1>7 DEF PostChunk
  <2> HIDE DEF left, chunk, more
  <2>4. accepted' \in [Requests -> [Parts -> Nat]]
    BY <2>1, <2>2, <2>3
  <2>5. stage' \in [Requests -> Stages]
    BY <1>7 DEF PostChunk, AfterPost, Stages
  <2>6. QED
    BY <1>7, <2>4, <2>5 DEF PostChunk, entity
<1>8. ASSUME NEW r \in Requests, PostNothing(r) PROVE TypeOK'
  BY <1>8 DEF PostNothing, entity, sending, Stages
<1>9. ASSUME NEW r \in Requests, InsertMessage(r) PROVE TypeOK'
  BY <1>9 DEF InsertMessage, entity, Stages
<1>10. ASSUME NEW r \in Requests, InsertContent(r) PROVE TypeOK'
  BY <1>10 DEF InsertContent, entity, Stages, Parts
<1>11. ASSUME NEW r \in Requests, BeginTx(r) PROVE TypeOK'
  BY <1>11 DEF BeginTx, DirtyColumns, sending, Stages
<1>12. ASSUME NEW r \in Requests, CommitTx(r) PROVE TypeOK'
  BY <1>12, OverwrittenType DEF CommitTx, entity, Stages
<1>13. ASSUME NEW r \in Requests, Reread(r) PROVE TypeOK'
  BY <1>13 DEF Reread, ReadUser, sending, Stages
<1>14. ASSUME NEW r \in Requests, Deduct(r) PROVE TypeOK'
  BY <1>14, DeductedExactly, CostNat DEF Deduct, DirtyColumns, sending, Stages
<1>15. ASSUME NEW r \in Requests, Pay(r) PROVE TypeOK'
  BY <1>15, CostNat DEF Pay, UsedPayment, entity, sending, Stages
<1>16. ASSUME NEW r \in Requests, Credit(r) PROVE TypeOK'
  BY <1>16 DEF Credit, DirtyColumns, sending, Stages
<1>17. ASSUME NEW r \in Requests, SaveOrder(r) PROVE TypeOK'
  BY <1>17 DEF SaveOrder, entity, sending, Stages
<1>18. ASSUME NEW r \in Requests, SaveProfile(r) PROVE TypeOK'
  BY <1>18 DEF SaveProfile, DirtyColumns, sending, Stages
<1>19. ASSUME NEW r \in Requests, UpdateUser(r) PROVE TypeOK'
  BY <1>19, OverwrittenType DEF UpdateUser, entity, sending, Stages
<1>20. ASSUME NEW r \in Requests, Stop(r) PROVE TypeOK'
  BY <1>20 DEF Stop, entity, sending
<1>21. CASE UNCHANGED vars
  BY <1>21 DEF vars, flow, entity, sending
<1>22. QED
  BY <1>1, <1>2, <1>3, <1>4, <1>5, <1>6, <1>7, <1>8, <1>9, <1>10, <1>11, <1>12,
     <1>13, <1>14, <1>15, <1>16, <1>17, <1>18, <1>19, <1>20, <1>21 DEF Next

(***************************************************************************)
(* The tables, the copies and the stages keep their types.                 *)
(***************************************************************************)
THEOREM TypeCorrect == Spec => []TypeOK
<1>1. QED
  BY InitTypeOK, NextTypeOK, PTL DEF Spec

-----------------------------------------------------------------------------
(***************************************************************************)
(* The inductive invariant of a single request: which rows it has written  *)
(* and what NCP has accepted, as a function of how far it has come.  A     *)
(* stopped request keeps its stage, so the invariant says the same of it.  *)
(***************************************************************************)
Settling == {"reread", "deduct", "debit", "pay", "done"}

Accepted(r, p) == accepted[r][p] = PartCount(r, p)
Stored(r, p) == <<r, p>> \in messages

\* A request that is no send, or that has not come in, has written nothing.
QuietInv(r) ==
    stage[r] = "idle" \/ kind[r] \notin SendKinds =>
        \A p \in Parts : ~Stored(r, p) /\ accepted[r][p] = 0

StageInv(r) ==
    /\ stage[r] \in {"credit", "creditSave", "order"} => kind[r] = "topUp"
    /\ stage[r] \in {"profile", "profileSave"} => kind[r] = "profile"
    /\ stage[r] \in {"txUser", "txCommit"} => kind[r] = "smsDefault"
    /\ stage[r] = "reread" => kind[r] \in {"bizDefault", "bizAb"}
    /\ stage[r] = "content" => kind[r] # "smsDefault"
    /\ stage[r] \in {"check", "rejected", "group", "post", "message", "content", "deduct", "debit", "pay"}
           => kind[r] \in SendKinds

DefaultInv(r) ==
    stage[r] # "idle" /\ kind[r] \in {"smsDefault", "bizDefault"} =>
        /\ part[r] = "Default"
        /\ stage[r] \in {"group", "message", "txUser", "txCommit", "content"} \cup Settling
               => Accepted(r, "Default")
        /\ ~Stored(r, "A") /\ ~Stored(r, "B") /\ ~Stored(r, "N")
        /\ (\/ stage[r] \in {"txUser", "txCommit", "content"}
            \/ stage[r] = "group" /\ kind[r] = "smsDefault") => Stored(r, "Default")
        /\ stage[r] = "content" => <<r, "Default">> \in grouped
        /\ stage[r] \in Settling =>
               /\ Stored(r, "Default")
               /\ <<r, "Default">> \in grouped
               /\ <<r, "Default">> \in contents

AbInv(r) ==
    stage[r] # "idle" /\ kind[r] \in AbKinds =>
        /\ part[r] \in {"A", "B", "N"}
        /\ stage[r] \in {"check", "rejected", "group"} => part[r] = "A"
        /\ stage[r] \in Settling => part[r] = "N"
        /\ stage[r] = "content" => part[r] \in {"A", "B"} /\ Stored(r, part[r])
        /\ stage[r] = "post" => part[r] \in {"A", "B"}
        /\ accepted[r]["B"] <= PartCount(r, "B")
        /\ (\/ part[r] \in {"B", "N"}
            \/ stage[r] \in {"message", "content"}
            \/ stage[r] = "group" /\ kind[r] = "bizAb") => Accepted(r, "A")
        /\ (\/ part[r] = "N"
            \/ part[r] = "B" /\ stage[r] \in {"message", "content"}) => Accepted(r, "B")
        /\ kind[r] = "bizAb" /\ (part[r] \in {"B", "N"} \/ stage[r] \in {"message", "content"})
               => r \in groups
        /\ ~Stored(r, "Default")
        /\ part[r] \in {"B", "N"} => Stored(r, "A") /\ <<r, "A">> \in contents
        /\ part[r] = "N" => Stored(r, "B")
        /\ stage[r] \in Settling => Stored(r, "N")
        /\ \A p \in Parts : Stored(r, p) => <<r, p>> \in grouped

FlowInv == \A r \in Requests : QuietInv(r) /\ StageInv(r) /\ DefaultInv(r) /\ AbInv(r)

\* A payment row belongs to a send that came to its end, and charges its cost.
PaymentInv ==
    \A pay \in payments :
        /\ kind[pay.req] \in SendKinds
        /\ stage[pay.req] = "done"
        /\ pay.usedPoint = Cost(pay.req)
        /\ pay.usedMoney = 0

PointInv ==
    /\ user.point >= 0
    /\ \A r \in Requests : copy[r].point >= 0


ReqInv(r) == QuietInv(r) /\ StageInv(r) /\ DefaultInv(r) /\ AbInv(r)

\* A step of request r leaves what belongs to the other requests alone.
OnlyTouches(r) ==
    \A q \in Requests \ {r} :
        /\ kind'[q] = kind[q] /\ size'[q] = size[q] /\ stage'[q] = stage[q]
        /\ part'[q] = part[q] /\ accepted'[q] = accepted[q]
        /\ q \in groups' <=> q \in groups
        /\ \A p \in Parts :
              /\ <<q, p>> \in messages' <=> <<q, p>> \in messages
              /\ <<q, p>> \in grouped' <=> <<q, p>> \in grouped
              /\ <<q, p>> \in contents' <=> <<q, p>> \in contents

LEMMA OthersKeepInv ==
    ASSUME TypeOK, FlowInv, NEW r \in Requests, OnlyTouches(r),
           NEW q \in Requests, q # r
    PROVE  ReqInv(q)'
<1>1. ReqInv(q)
  BY DEF FlowInv, ReqInv
<1>2. \A p \in Parts : PartCount(q, p)' = PartCount(q, p)
  BY DEF OnlyTouches, PartCount
<1>3. \A p \in Parts : Accepted(q, p)' <=> Accepted(q, p)
  BY <1>2 DEF OnlyTouches, Accepted
<1>4. \A p \in Parts : Stored(q, p)' <=> Stored(q, p)
  BY DEF OnlyTouches, Stored
<1>5. QuietInv(q)'
  BY <1>1, <1>4 DEF OnlyTouches, ReqInv, QuietInv
<1>6. StageInv(q)'
  BY <1>1 DEF OnlyTouches, ReqInv, StageInv
<1>7. DefaultInv(q)'
  BY <1>1, <1>3, <1>4 DEF OnlyTouches, ReqInv, DefaultInv, Parts
<1>8. AbInv(q)'
  BY <1>1, <1>2, <1>3, <1>4 DEF OnlyTouches, ReqInv, AbInv, Parts
<1>9. QED
  BY <1>5, <1>6, <1>7, <1>8 DEF ReqInv

LEMMA FlowStep ==
    ASSUME TypeOK, FlowInv, NEW r \in Requests, OnlyTouches(r), ReqInv(r)'
    PROVE  FlowInv'
  BY OthersKeepInv DEF FlowInv, ReqInv

LEMMA InitFlow == Init => FlowInv
  BY DEF Init, FlowInv, QuietInv, StageInv, DefaultInv, AbInv, Stored, Kinds, SendKinds, SmsKinds, Parts

LEMMA NextFlow == TypeOK /\ FlowInv /\ [Next]_vars => FlowInv'
<1> SUFFICES ASSUME TypeOK, FlowInv, [Next]_vars PROVE FlowInv'
  OBVIOUS
<1> USE DEF Goto, At
<1>1. ASSUME NEW r \in Requests, ReceiveSms(r) PROVE FlowInv'
  <2>1. PICK n \in Nat, k \in SmsKinds : Start(r, k, n, "check")
    BY <1>1, SizesAssumption DEF ReceiveSms, SmsKinds
  <2>2. OnlyTouches(r)
    BY <1>1, <2>1 DEF TypeOK, ReceiveSms, Start, OnlyTouches
  <2>3. ReqInv(r)
    BY DEF FlowInv, ReqInv
  <2>4. \A p \in Parts : PartCount(r, p)' \in Nat
    BY <1>1, <2>1, CountsAddUp DEF TypeOK, ReceiveSms, Start, MayStart, PartCount, Parts
  <2>5. QuietInv(r)'
    BY <1>1, <2>1, <2>3, <2>4 DEF TypeOK, ReceiveSms, Start, MayStart, ReqInv, QuietInv, Stored, Parts, SmsKinds, AbKinds, SendKinds, Settling
  <2>6. StageInv(r)'
    BY <1>1, <2>1, <2>3, <2>4 DEF TypeOK, ReceiveSms, Start, MayStart, ReqInv, StageInv, Parts, SmsKinds, AbKinds, SendKinds, Settling
  <2>7. DefaultInv(r)'
    BY <1>1, <2>1, <2>3, <2>4 DEF TypeOK, ReceiveSms, Start, MayStart, ReqInv, QuietInv, StageInv, DefaultInv, Stored, Accepted, Parts, SmsKinds, AbKinds, SendKinds, Settling
  <2>8. AbInv(r)'
    BY <1>1, <2>1, <2>3, <2>4 DEF TypeOK, ReceiveSms, Start, MayStart, ReqInv, QuietInv, StageInv, AbInv, Stored, Accepted, Parts, SmsKinds, AbKinds, SendKinds, Settling
  <2>9. QED
    BY <2>2, <2>5, <2>6, <2>7, <2>8, FlowStep DEF ReqInv
<1>2. ASSUME NEW r \in Requests, ReceiveBiz(r) PROVE FlowInv'
  <2>1. PICK n \in Nat, k \in {"bizDefault", "bizAb"} : Start(r, k, n, "check")
    BY <1>2, SizesAssumption DEF ReceiveBiz
  <2>2. OnlyTouches(r)
    BY <1>2, <2>1 DEF TypeOK, ReceiveBiz, Start, MayStart, At, OnlyTouches
  <2>3. ReqInv(r)
    BY DEF FlowInv, ReqInv
  <2>4. \A p \in Parts : PartCount(r, p)' \in Nat
    BY <1>2, <2>1, CountsAddUp DEF TypeOK, ReceiveBiz, Start, MayStart, At, PartCount, Parts
  <2>5. QuietInv(r)'
    BY <1>2, <2>1, <2>3, <2>4 DEF TypeOK, ReceiveBiz, Start, MayStart, At, ReqInv, QuietInv, Stored, Parts, SmsKinds, AbKinds, SendKinds, Settling
  <2>6. StageInv(r)'
    BY <1>2, <2>1, <2>3, <2>4 DEF TypeOK, ReceiveBiz, Start, MayStart, At, ReqInv, StageInv, Parts, SmsKinds, AbKinds, SendKinds, Settling
  <2>7. DefaultInv(r)'
    BY <1>2, <2>1, <2>3, <2>4 DEF TypeOK, ReceiveBiz, Start, MayStart, At, ReqInv, QuietInv, StageInv, DefaultInv, Stored, Accepted, Parts, SmsKinds, AbKinds, SendKinds, Settling
  <2>8. AbInv(r)'
    BY <1>2, <2>1, <2>3, <2>4 DEF TypeOK, ReceiveBiz, Start, MayStart, At, ReqInv, QuietInv, StageInv, AbInv, Stored, Accepted, Parts, SmsKinds, AbKinds, SendKinds, Settling
  <2>9. QED
    BY <2>2, <2>5, <2>6, <2>7, <2>8, FlowStep DEF ReqInv
<1>3. ASSUME NEW r \in Requests, ReceiveTopUp(r) PROVE FlowInv'
  <2>1. PICK n \in Nat : Start(r, "topUp", n, "credit")
    BY <1>3, TopUpsAssumption DEF ReceiveTopUp
  <2>2. OnlyTouches(r)
    BY <1>3, <2>1 DEF TypeOK, ReceiveTopUp, Start, MayStart, sending, OnlyTouches
  <2>3. ReqInv(r)'
    BY <1>3, <2>1, CountsAddUp DEF TypeOK, ReceiveTopUp, Start, MayStart, sending, FlowInv, ReqInv, QuietInv, StageInv,
       DefaultInv, AbInv, Stored, Accepted, PartCount, Parts, SmsKinds, AbKinds, SendKinds, Settling
  <2>4. QED
    BY <2>2, <2>3, FlowStep
<1>4. ASSUME NEW r \in Requests, ReceiveProfile(r) PROVE FlowInv'
  <2>1. OnlyTouches(r)
    BY <1>4 DEF TypeOK, ReceiveProfile, Start, MayStart, sending, OnlyTouches
  <2>2. ReqInv(r)'
    BY <1>4, CountsAddUp DEF TypeOK, ReceiveProfile, Start, MayStart, sending, FlowInv, ReqInv, QuietInv, StageInv,
       DefaultInv, AbInv, Stored, Accepted, PartCount, Parts, SmsKinds, AbKinds, SendKinds, Settling
  <2>3. QED
    BY <2>1, <2>2, FlowStep
<1>5. ASSUME NEW r \in Requests, Check(r) PROVE FlowInv'
  <2>1. OnlyTouches(r)
    BY <1>5 DEF TypeOK, Check, sending, OnlyTouches
  <2>2. ReqInv(r)
    BY DEF FlowInv, ReqInv
  <2>3. \A p \in Parts : PartCount(r, p)' = PartCount(r, p) /\ PartCount(r, p) \in Nat
    BY <1>5, PartCountNat DEF Check, sending, PartCount
  <2>4. QuietInv(r)'
    BY <1>5, <2>2, <2>3 DEF TypeOK, Check, sending, ReqInv, QuietInv, Stored, Parts, SmsKinds, AbKinds, SendKinds, Settling
  <2>5. StageInv(r)'
    BY <1>5, <2>2, <2>3 DEF TypeOK, Check, sending, ReqInv, StageInv, Parts, SmsKinds, AbKinds, SendKinds, Settling
  <2>6. DefaultInv(r)'
    BY <1>5, <2>2, <2>3 DEF TypeOK, Check, sending, ReqInv, QuietInv, StageInv, DefaultInv, Stored, Accepted, Parts, SmsKinds, AbKinds, SendKinds, Settling
  <2>7. AbInv(r)'
    BY <1>5, <2>2, <2>3 DEF TypeOK, Check, sending, ReqInv, QuietInv, StageInv, AbInv, Stored, Accepted, Parts, SmsKinds, AbKinds, SendKinds, Settling
  <2>8. QED
    BY <2>1, <2>4, <2>5, <2>6, <2>7, FlowStep DEF ReqInv
<1>6. ASSUME NEW r \in Requests, CreateGroup(r) PROVE FlowInv'
  <2>1. OnlyTouches(r)
    BY <1>6 DEF TypeOK, CreateGroup, Sms, OnlyTouches
  <2>2. ReqInv(r)'
    BY <1>6, PartCountNat DEF TypeOK, CreateGroup, Sms, FlowInv, ReqInv, QuietInv, StageInv,
       DefaultInv, AbInv, Stored, Accepted, PartCount, Parts, SmsKinds, AbKinds, SendKinds, Settling
  <2>3. QED
    BY <2>1, <2>2, FlowStep
<1>7. ASSUME NEW r \in Requests, PostChunk(r) PROVE FlowInv'
  <2> DEFINE left == PartCount(r, part[r]) - accepted[r][part[r]]
             chunk == IF Sms(r) THEN SmsChunk ELSE BizChunk
             more == IF left < chunk THEN left ELSE chunk
  <2>1. OnlyTouches(r)
    BY <1>7 DEF TypeOK, PostChunk, AfterPost, Sms, OnlyTouches
  <2>2. ReqInv(r)
    BY DEF FlowInv, ReqInv
  <2>3. \A p \in Parts : PartCount(r, p)' = PartCount(r, p) /\ PartCount(r, p) \in Nat
    BY <1>7, PartCountNat DEF PostChunk, AfterPost, Sms, PartCount
  <2>4. /\ part[r] \in Parts /\ accepted[r] \in [Parts -> Nat] /\ chunk \in Nat \ {0}
        /\ stage \in [Requests -> Stages] /\ kind[r] \in SendKinds
        /\ accepted \in [Requests -> [Parts -> Nat]]
    BY <1>7, <2>2, ChunkAssumption DEF TypeOK, PostChunk, ReqInv, StageInv
  <2>5. /\ left \in Nat \ {0} /\ more \in Nat /\ more <= left
        /\ left <= chunk => more = left
    <3>1. left \in Int
      BY <2>3, <2>4
    <3>2. left > 0
      BY <1>7 DEF PostChunk
    <3> HIDE DEF left, chunk
    <3>3. QED
      BY <2>4, <3>1, <3>2
  <2>6. /\ stage[r] = "post"
        /\ accepted' = [accepted EXCEPT ![r][part[r]] = @ + more]
        /\ stage' = [stage EXCEPT ![r] = IF left <= chunk THEN AfterPost(r) ELSE "post"]
        /\ UNCHANGED <<kind, size, part, groups, messages, grouped, contents>>
    BY <1>7 DEF PostChunk
  <2>7. /\ accepted'[r][part[r]] = accepted[r][part[r]] + more
        /\ \A p \in Parts \ {part[r]} : accepted'[r][p] = accepted[r][p]
    BY <2>4, <2>6
  <2>8. /\ accepted'[r][part[r]] <= PartCount(r, part[r])
        /\ left <= chunk => accepted'[r][part[r]] = PartCount(r, part[r])
    BY <2>3, <2>4, <2>5, <2>7
  <2>9. \/ left <= chunk /\ stage'[r] = AfterPost(r)
        \/ stage'[r] = "post"
    BY <2>4, <2>6
  <2> HIDE DEF left, chunk, more
  <2>10. QuietInv(r)'
    BY <2>4, <2>6, <2>9 DEF QuietInv, AfterPost
  <2>11. StageInv(r)'
    BY <2>4, <2>6, <2>9 DEF StageInv, AfterPost, SendKinds, SmsKinds
  <2>12. DefaultInv(r)'
    <3>1. SUFFICES ASSUME kind[r] \in {"smsDefault", "bizDefault"} PROVE DefaultInv(r)'
      BY <2>6 DEF DefaultInv
    <3>2. part[r] = "Default" /\ ~Stored(r, "A") /\ ~Stored(r, "B") /\ ~Stored(r, "N")
      BY <2>2, <2>6, <3>1 DEF ReqInv, DefaultInv
    <3>3. stage'[r] # "post" => Accepted(r, "Default")'
      BY <2>3, <2>6, <2>8, <2>9, <3>2 DEF Accepted, Parts
    <3>4. stage'[r] \in {"post", "message"} \/ (stage'[r] = "group" /\ kind[r] # "smsDefault")
      BY <2>9, <3>1 DEF AfterPost, Sms, SmsKinds
    <3>5. QED
      BY <2>6, <3>2, <3>3, <3>4 DEF DefaultInv, Stored, Settling
  <2>13. AbInv(r)'
    <3>1. SUFFICES ASSUME kind[r] \in AbKinds PROVE AbInv(r)'
      BY <2>6 DEF AbInv
    <3>2. /\ part[r] \in {"A", "B"} /\ accepted[r]["B"] <= PartCount(r, "B")
          /\ part[r] = "B" => Accepted(r, "A") /\ Stored(r, "A") /\ <<r, "A">> \in contents
          /\ kind[r] = "bizAb" /\ part[r] = "B" => r \in groups
          /\ ~Stored(r, "Default")
          /\ \A p \in Parts : Stored(r, p) => <<r, p>> \in grouped
      BY <2>2, <2>6, <3>1 DEF ReqInv, AbInv
    <3>3. stage'[r] \in {"post", "message"} \/ (stage'[r] = "group" /\ kind[r] = "bizAb" /\ part[r] = "A")
      BY <2>9, <3>1, <3>2 DEF AfterPost, Sms, SmsKinds, AbKinds
    <3>4. stage'[r] = "message" /\ kind[r] = "bizAb" => r \in groups
      BY <2>9, <3>1, <3>3 DEF AfterPost, Sms, SmsKinds
    <3>5. stage'[r] # "post" => Accepted(r, part[r])'
      BY <2>3, <2>4, <2>6, <2>8, <2>9 DEF Accepted
    <3>6. part[r] = "B" => Accepted(r, "A")'
      BY <2>3, <2>6, <2>7, <3>2 DEF Accepted, Parts
    <3>7. accepted'[r]["B"] <= PartCount(r, "B")'
      BY <2>3, <2>7, <2>8, <3>2 DEF Parts
    <3>8. QED
      BY <2>6, <3>2, <3>3, <3>4, <3>5, <3>6, <3>7 DEF AbInv, Stored, Settling
  <2>14. QED
    BY <2>1, <2>10, <2>11, <2>12, <2>13, FlowStep DEF ReqInv
<1>8. ASSUME NEW r \in Requests, PostNothing(r) PROVE FlowInv'
  <2>1. OnlyTouches(r)
    BY <1>8 DEF TypeOK, PostNothing, sending, Sms, OnlyTouches
  <2>2. ReqInv(r)
    BY DEF FlowInv, ReqInv
  <2>3. \A p \in Parts : PartCount(r, p)' = PartCount(r, p) /\ PartCount(r, p) \in Nat
    BY <1>8, PartCountNat DEF PostNothing, sending, Sms, PartCount
  <2>4. QuietInv(r)'
    BY <1>8, <2>2, <2>3 DEF TypeOK, PostNothing, sending, Sms, ReqInv, QuietInv, Stored, Parts, SmsKinds, AbKinds, SendKinds, Settling
  <2>5. StageInv(r)'
    BY <1>8, <2>2, <2>3 DEF TypeOK, PostNothing, sending, Sms, ReqInv, StageInv, Parts, SmsKinds, AbKinds, SendKinds, Settling
  <2>6. DefaultInv(r)'
    BY <1>8, <2>2, <2>3 DEF TypeOK, PostNothing, sending, Sms, ReqInv, QuietInv, StageInv, DefaultInv, Stored, Accepted, Parts, SmsKinds, AbKinds, SendKinds, Settling
  <2>7. AbInv(r)'
    BY <1>8, <2>2, <2>3 DEF TypeOK, PostNothing, sending, Sms, ReqInv, QuietInv, StageInv, AbInv, Stored, Accepted, Parts, SmsKinds, AbKinds, SendKinds, Settling
  <2>8. QED
    BY <2>1, <2>4, <2>5, <2>6, <2>7, FlowStep DEF ReqInv
<1>9. ASSUME NEW r \in Requests, InsertMessage(r) PROVE FlowInv'
  <2>1. OnlyTouches(r)
    BY <1>9 DEF TypeOK, InsertMessage, Sms, OnlyTouches
  <2>2. ReqInv(r)'
    BY <1>9, PartCountNat DEF TypeOK, InsertMessage, Sms, FlowInv, ReqInv, QuietInv, StageInv,
       DefaultInv, AbInv, Stored, Accepted, PartCount, Parts, SmsKinds, AbKinds, SendKinds, Settling
  <2>3. QED
    BY <2>1, <2>2, FlowStep
<1>10. ASSUME NEW r \in Requests, InsertContent(r) PROVE FlowInv'
  <2>1. OnlyTouches(r)
    BY <1>10 DEF TypeOK, InsertContent, Sms, OnlyTouches
  <2>2. ReqInv(r)
    BY DEF FlowInv, ReqInv
  <2>3. \A p \in Parts : PartCount(r, p)' = PartCount(r, p) /\ PartCount(r, p) \in Nat
    BY <1>10, PartCountNat DEF InsertContent, Sms, PartCount
  <2>4. /\ stage[r] = "content" /\ kind[r] \in {"bizDefault"} \cup AbKinds
        /\ contents' = contents \cup {<<r, part[r]>>}
        /\ UNCHANGED <<kind, size, accepted, groups, messages, grouped>>
    BY <1>10, <2>2 DEF InsertContent, ReqInv, StageInv, SendKinds, SmsKinds, AbKinds
  <2>5. /\ part[r] = "A" => part'[r] = "B" /\ stage'[r] = "post"
        /\ part[r] = "B" => part'[r] = "N" /\ stage'[r] = "message"
        /\ part[r] \notin {"A", "B"} => part'[r] = part[r] /\ stage'[r] = "reread"
    BY <1>10 DEF TypeOK, InsertContent
  <2>6. CASE kind[r] = "bizDefault"
    <3>1. /\ part[r] = "Default" /\ Accepted(r, "Default") /\ Stored(r, "Default")
          /\ <<r, "Default">> \in grouped
          /\ ~Stored(r, "A") /\ ~Stored(r, "B") /\ ~Stored(r, "N")
      BY <2>2, <2>4, <2>6 DEF ReqInv, DefaultInv
    <3>2. part'[r] = "Default" /\ stage'[r] = "reread"
      BY <2>5, <3>1
    <3>3. Accepted(r, "Default")'
      BY <2>3, <2>4, <3>1 DEF Accepted, Parts
    <3>4. ReqInv(r)'
      BY <2>4, <2>6, <3>1, <3>2, <3>3
         DEF ReqInv, QuietInv, StageInv, DefaultInv, AbInv, Stored, SendKinds, AbKinds, Settling
    <3>5. QED
      BY <2>1, <3>4, FlowStep
  <2>7. CASE kind[r] \in AbKinds
    <3>1. /\ part[r] \in {"A", "B"} /\ Stored(r, part[r])
          /\ Accepted(r, "A") /\ (part[r] = "B" => Accepted(r, "B"))
          /\ accepted[r]["B"] <= PartCount(r, "B")
          /\ kind[r] = "bizAb" => r \in groups
          /\ part[r] = "B" => Stored(r, "A") /\ <<r, "A">> \in contents
          /\ ~Stored(r, "Default")
          /\ \A p \in Parts : Stored(r, p) => <<r, p>> \in grouped
      BY <2>2, <2>4, <2>7 DEF ReqInv, AbInv
    <3>2. \/ part[r] = "A" /\ part'[r] = "B" /\ stage'[r] = "post"
          \/ part[r] = "B" /\ part'[r] = "N" /\ stage'[r] = "message"
      BY <2>5, <3>1
    <3>3. /\ Accepted(r, "A")' /\ (part[r] = "B" => Accepted(r, "B")')
          /\ accepted'[r]["B"] <= PartCount(r, "B")'
      BY <2>3, <2>4, <3>1 DEF Accepted, Parts
    <3>4. QuietInv(r)' /\ StageInv(r)' /\ DefaultInv(r)'
      BY <2>4, <2>7, <3>2 DEF QuietInv, StageInv, DefaultInv, SendKinds, SmsKinds, AbKinds
    <3>5. CASE part[r] = "A"
      <4>1. AbInv(r)'
        BY <2>4, <3>1, <3>2, <3>3, <3>5 DEF AbInv, Stored, Settling
      <4>2. QED
        BY <2>1, <3>4, <4>1, FlowStep DEF ReqInv
    <3>6. CASE part[r] = "B"
      <4>1. AbInv(r)'
        BY <2>4, <3>1, <3>2, <3>3, <3>6 DEF AbInv, Stored, Settling
      <4>2. QED
        BY <2>1, <3>4, <4>1, FlowStep DEF ReqInv
    <3>7. QED
      BY <3>1, <3>5, <3>6
  <2>8. QED
    BY <2>4, <2>6, <2>7
<1>11. ASSUME NEW r \in Requests, BeginTx(r) PROVE FlowInv'
  <2>1. OnlyTouches(r)
    BY <1>11 DEF TypeOK, BeginTx, sending, OnlyTouches
  <2>2. ReqInv(r)'
    BY <1>11, PartCountNat DEF TypeOK, BeginTx, sending, FlowInv, ReqInv, QuietInv, StageInv,
       DefaultInv, AbInv, Stored, Accepted, PartCount, Parts, SmsKinds, AbKinds, SendKinds, Settling
  <2>3. QED
    BY <2>1, <2>2, FlowStep
<1>12. ASSUME NEW r \in Requests, CommitTx(r) PROVE FlowInv'
  <2>1. OnlyTouches(r)
    BY <1>12 DEF TypeOK, CommitTx, sending, OnlyTouches
  <2>2. ReqInv(r)
    BY DEF FlowInv, ReqInv
  <2>3. \A p \in Parts : PartCount(r, p)' = PartCount(r, p) /\ PartCount(r, p) \in Nat
    BY <1>12, PartCountNat DEF CommitTx, sending, PartCount
  <2>4. /\ stage[r] = "txCommit" /\ kind[r] = "smsDefault" /\ stage'[r] = "deduct"
        /\ grouped' = grouped \cup {<<r, part[r]>>}
        /\ contents' = contents \cup {<<r, part[r]>>}
        /\ UNCHANGED <<kind, size, part, accepted, groups, messages>>
    BY <1>12, <2>2 DEF TypeOK, CommitTx, ReqInv, StageInv
  <2>5. /\ part[r] = "Default" /\ Accepted(r, "Default") /\ Stored(r, "Default")
        /\ ~Stored(r, "A") /\ ~Stored(r, "B") /\ ~Stored(r, "N")
    BY <2>2, <2>4 DEF ReqInv, DefaultInv
  <2>6. Accepted(r, "Default")'
    BY <2>3, <2>4, <2>5 DEF Accepted, Parts
  <2>7. ReqInv(r)'
    BY <2>4, <2>5, <2>6
       DEF ReqInv, QuietInv, StageInv, DefaultInv, AbInv, Stored, SendKinds, SmsKinds, AbKinds, Settling
  <2>8. QED
    BY <2>1, <2>7, FlowStep
<1>13. ASSUME NEW r \in Requests, Reread(r) PROVE FlowInv'
  <2>1. OnlyTouches(r)
    BY <1>13 DEF TypeOK, Reread, sending, OnlyTouches
  <2>2. ReqInv(r)'
    BY <1>13, PartCountNat DEF TypeOK, Reread, sending, FlowInv, ReqInv, QuietInv, StageInv,
       DefaultInv, AbInv, Stored, Accepted, PartCount, Parts, SmsKinds, AbKinds, SendKinds, Settling
  <2>3. QED
    BY <2>1, <2>2, FlowStep
<1>14. ASSUME NEW r \in Requests, Deduct(r) PROVE FlowInv'
  <2>1. OnlyTouches(r)
    BY <1>14 DEF TypeOK, Deduct, sending, OnlyTouches
  <2>2. ReqInv(r)'
    BY <1>14, PartCountNat DEF TypeOK, Deduct, sending, FlowInv, ReqInv, QuietInv, StageInv,
       DefaultInv, AbInv, Stored, Accepted, PartCount, Parts, SmsKinds, AbKinds, SendKinds, Settling
  <2>3. QED
    BY <2>1, <2>2, FlowStep
<1>15. ASSUME NEW r \in Requests, Pay(r) PROVE FlowInv'
  <2>1. OnlyTouches(r)
    BY <1>15 DEF TypeOK, Pay, sending, OnlyTouches
  <2>2. ReqInv(r)'
    BY <1>15, PartCountNat DEF TypeOK, Pay, sending, FlowInv, ReqInv, QuietInv, StageInv,
       DefaultInv, AbInv, Stored, Accepted, PartCount, Parts, SmsKinds, AbKinds, SendKinds, Settling
  <2>3. QED
    BY <2>1, <2>2, FlowStep
<1>16. ASSUME NEW r \in Requests, Credit(r) PROVE FlowInv'
  <2>1. OnlyTouches(r)
    BY <1>16 DEF TypeOK, Credit, sending, OnlyTouches
  <2>2. ReqInv(r)'
    BY <1>16, PartCountNat DEF TypeOK, Credit, sending, FlowInv, ReqInv, QuietInv, StageInv,
       DefaultInv, AbInv, Stored, Accepted, PartCount, Parts, SmsKinds, AbKinds, SendKinds, Settling
  <2>3. QED
    BY <2>1, <2>2, FlowStep
<1>17. ASSUME NEW r \in Requests, SaveOrder(r) PROVE FlowInv'
  <2>1. OnlyTouches(r)
    BY <1>17 DEF TypeOK, SaveOrder, sending, OnlyTouches
  <2>2. ReqInv(r)'
    BY <1>17, PartCountNat DEF TypeOK, SaveOrder, sending, FlowInv, ReqInv, QuietInv, StageInv,
       DefaultInv, AbInv, Stored, Accepted, PartCount, Parts, SmsKinds, AbKinds, SendKinds, Settling
  <2>3. QED
    BY <2>1, <2>2, FlowStep
<1>18. ASSUME NEW r \in Requests, SaveProfile(r) PROVE FlowInv'
  <2>1. OnlyTouches(r)
    BY <1>18 DEF TypeOK, SaveProfile, sending, OnlyTouches
  <2>2. ReqInv(r)'
    BY <1>18, PartCountNat DEF TypeOK, SaveProfile, sending, FlowInv, ReqInv, QuietInv, StageInv,
       DefaultInv, AbInv, Stored, Accepted, PartCount, Parts, SmsKinds, AbKinds, SendKinds, Settling
  <2>3. QED
    BY <2>1, <2>2, FlowStep
<1>19. ASSUME NEW r \in Requests, UpdateUser(r) PROVE FlowInv'
  <2>1. OnlyTouches(r)
    BY <1>19 DEF TypeOK, UpdateUser, sending, OnlyTouches
  <2>2. ReqInv(r)
    BY DEF FlowInv, ReqInv
  <2>3. \A p \in Parts : PartCount(r, p)' = PartCount(r, p) /\ PartCount(r, p) \in Nat
    BY <1>19, PartCountNat DEF UpdateUser, sending, PartCount
  <2>4. QuietInv(r)'
    BY <1>19, <2>2, <2>3 DEF TypeOK, UpdateUser, sending, ReqInv, QuietInv, Stored, Parts, SmsKinds, AbKinds, SendKinds, Settling
  <2>5. StageInv(r)'
    BY <1>19, <2>2, <2>3 DEF TypeOK, UpdateUser, sending, ReqInv, StageInv, Parts, SmsKinds, AbKinds, SendKinds, Settling
  <2>6. DefaultInv(r)'
    BY <1>19, <2>2, <2>3 DEF TypeOK, UpdateUser, sending, ReqInv, QuietInv, StageInv, DefaultInv, Stored, Accepted, Parts, SmsKinds, AbKinds, SendKinds, Settling
  <2>7. AbInv(r)'
    BY <1>19, <2>2, <2>3 DEF TypeOK, UpdateUser, sending, ReqInv, QuietInv, StageInv, AbInv, Stored, Accepted, Parts, SmsKinds, AbKinds, SendKinds, Settling
  <2>8. QED
    BY <2>1, <2>4, <2>5, <2>6, <2>7, FlowStep DEF ReqInv
<1>20. ASSUME NEW r \in Requests, Stop(r) PROVE FlowInv'
  <2>1. OnlyTouches(r)
    BY <1>20 DEF TypeOK, Stop, InFlight, sending, OnlyTouches
  <2>2. ReqInv(r)'
    BY <1>20, PartCountNat DEF TypeOK, Stop, InFlight, sending, FlowInv, ReqInv, QuietInv, StageInv,
       DefaultInv, AbInv, Stored, Accepted, PartCount, Parts, SmsKinds, AbKinds, SendKinds, Settling
  <2>3. QED
    BY <2>1, <2>2, FlowStep
<1>21. CASE UNCHANGED vars
  <2>1. \A r \in Requests : ReqInv(r)' <=> ReqInv(r)
    BY <1>21 DEF vars, flow, sending, ReqInv, QuietInv, StageInv, DefaultInv, AbInv, Stored, Accepted, PartCount
  <2>2. QED
    BY <2>1 DEF FlowInv, ReqInv
<1>22. QED
  BY <1>1, <1>2, <1>3, <1>4, <1>5, <1>6, <1>7, <1>8, <1>9, <1>10, <1>11, <1>12,
     <1>13, <1>14, <1>15, <1>16, <1>17, <1>18, <1>19, <1>20, <1>21 DEF Next

-----------------------------------------------------------------------------
(***************************************************************************)
(* A request that is done never moves again.                               *)
(***************************************************************************)
LEMMA DoneStays ==
    ASSUME TypeOK, [Next]_vars, NEW q \in Requests, stage[q] = "done"
    PROVE  stage'[q] = "done" /\ kind'[q] = kind[q] /\ size'[q] = size[q]
<1> USE DEF Goto, At, TypeOK
<1>1. ASSUME NEW r \in Requests, ReceiveSms(r)
      PROVE  stage'[q] = "done" /\ kind'[q] = kind[q] /\ size'[q] = size[q]
  BY <1>1 DEF ReceiveSms, Start, MayStart
<1>2. ASSUME NEW r \in Requests, ReceiveBiz(r)
      PROVE  stage'[q] = "done" /\ kind'[q] = kind[q] /\ size'[q] = size[q]
  BY <1>2 DEF ReceiveBiz, Start, MayStart
<1>3. ASSUME NEW r \in Requests, ReceiveTopUp(r)
      PROVE  stage'[q] = "done" /\ kind'[q] = kind[q] /\ size'[q] = size[q]
  BY <1>3 DEF ReceiveTopUp, Start, MayStart
<1>4. ASSUME NEW r \in Requests, ReceiveProfile(r)
      PROVE  stage'[q] = "done" /\ kind'[q] = kind[q] /\ size'[q] = size[q]
  BY <1>4 DEF ReceiveProfile, Start, MayStart
<1>5. ASSUME NEW r \in Requests, Check(r)
      PROVE  stage'[q] = "done" /\ kind'[q] = kind[q] /\ size'[q] = size[q]
  BY <1>5 DEF Check
<1>6. ASSUME NEW r \in Requests, CreateGroup(r)
      PROVE  stage'[q] = "done" /\ kind'[q] = kind[q] /\ size'[q] = size[q]
  BY <1>6 DEF CreateGroup
<1>7. ASSUME NEW r \in Requests, PostChunk(r)
      PROVE  stage'[q] = "done" /\ kind'[q] = kind[q] /\ size'[q] = size[q]
  BY <1>7 DEF PostChunk
<1>8. ASSUME NEW r \in Requests, PostNothing(r)
      PROVE  stage'[q] = "done" /\ kind'[q] = kind[q] /\ size'[q] = size[q]
  BY <1>8 DEF PostNothing
<1>9. ASSUME NEW r \in Requests, InsertMessage(r)
      PROVE  stage'[q] = "done" /\ kind'[q] = kind[q] /\ size'[q] = size[q]
  BY <1>9 DEF InsertMessage
<1>10. ASSUME NEW r \in Requests, InsertContent(r)
      PROVE  stage'[q] = "done" /\ kind'[q] = kind[q] /\ size'[q] = size[q]
  BY <1>10 DEF InsertContent
<1>11. ASSUME NEW r \in Requests, BeginTx(r)
      PROVE  stage'[q] = "done" /\ kind'[q] = kind[q] /\ size'[q] = size[q]
  BY <1>11 DEF BeginTx
<1>12. ASSUME NEW r \in Requests, CommitTx(r)
      PROVE  stage'[q] = "done" /\ kind'[q] = kind[q] /\ size'[q] = size[q]
  BY <1>12 DEF CommitTx
<1>13. ASSUME NEW r \in Requests, Reread(r)
      PROVE  stage'[q] = "done" /\ kind'[q] = kind[q] /\ size'[q] = size[q]
  BY <1>13 DEF Reread
<1>14. ASSUME NEW r \in Requests, Deduct(r)
      PROVE  stage'[q] = "done" /\ kind'[q] = kind[q] /\ size'[q] = size[q]
  BY <1>14 DEF Deduct
<1>15. ASSUME NEW r \in Requests, Pay(r)
      PROVE  stage'[q] = "done" /\ kind'[q] = kind[q] /\ size'[q] = size[q]
  BY <1>15 DEF Pay
<1>16. ASSUME NEW r \in Requests, Credit(r)
      PROVE  stage'[q] = "done" /\ kind'[q] = kind[q] /\ size'[q] = size[q]
  BY <1>16 DEF Credit
<1>17. ASSUME NEW r \in Requests, SaveOrder(r)
      PROVE  stage'[q] = "done" /\ kind'[q] = kind[q] /\ size'[q] = size[q]
  BY <1>17 DEF SaveOrder
<1>18. ASSUME NEW r \in Requests, SaveProfile(r)
      PROVE  stage'[q] = "done" /\ kind'[q] = kind[q] /\ size'[q] = size[q]
  BY <1>18 DEF SaveProfile
<1>19. ASSUME NEW r \in Requests, UpdateUser(r)
      PROVE  stage'[q] = "done" /\ kind'[q] = kind[q] /\ size'[q] = size[q]
  BY <1>19 DEF UpdateUser
<1>20. ASSUME NEW r \in Requests, Stop(r)
      PROVE  stage'[q] = "done" /\ kind'[q] = kind[q] /\ size'[q] = size[q]
  BY <1>20 DEF Stop, InFlight
<1>21. CASE UNCHANGED vars
  BY <1>21 DEF vars, flow
<1>22. QED
  BY <1>1, <1>2, <1>3, <1>4, <1>5, <1>6, <1>7, <1>8, <1>9, <1>10, <1>11, <1>12, <1>13, <1>14, <1>15, <1>16, <1>17, <1>18, <1>19, <1>20, <1>21 DEF Next

(***************************************************************************)
(* Only the last step of a send writes to UsedPayments.                    *)
(***************************************************************************)
LEMMA PaidByPay ==
    ASSUME [Next]_vars
    PROVE  payments' = payments \/ \E r \in Requests : Pay(r)
  BY DEF Next, vars, ReceiveSms, ReceiveBiz, ReceiveTopUp, ReceiveProfile, Check, CreateGroup, PostChunk, PostNothing, InsertMessage, InsertContent, BeginTx, CommitTx, Reread, Deduct, Credit, SaveOrder, SaveProfile, UpdateUser, Stop

LEMMA InitPayment == Init => PaymentInv
  BY DEF Init, PaymentInv

LEMMA NextPayment == TypeOK /\ FlowInv /\ PaymentInv /\ [Next]_vars => PaymentInv'
<1> SUFFICES ASSUME TypeOK, FlowInv, PaymentInv, [Next]_vars,
                    NEW pay \in payments'
             PROVE  /\ kind'[pay.req] \in SendKinds
                    /\ stage'[pay.req] = "done"
                    /\ pay.usedPoint = Cost(pay.req)'
                    /\ pay.usedMoney = 0
  BY DEF PaymentInv
<1>1. CASE pay \in payments
  <2>1. pay.req \in Requests
    BY <1>1 DEF TypeOK
  <2>2. QED
    BY <1>1, <2>1, DoneStays DEF PaymentInv, Cost
<1>2. CASE pay \notin payments
  <2>1. PICK r \in Requests : Pay(r)
    BY <1>2, PaidByPay
  <2>2. pay = UsedPayment(r)
    BY <1>2, <2>1 DEF Pay
  <2>3. kind[r] \in SendKinds
    BY <2>1 DEF Pay, At, FlowInv, StageInv
  <2>4. Cost(r) \in Nat /\ Cost(r)' = Cost(r)
    BY <2>1, CostNat DEF Pay, Goto, Cost
  <2>5. QED
    BY <2>1, <2>2, <2>3, <2>4 DEF Pay, Goto, UsedPayment, TypeOK
<1>3. QED
  BY <1>1, <1>2

LEMMA InitPoint == Init => PointInv
  BY OpeningsAssumption DEF Init, PointInv, Row

(***************************************************************************)
(* Every value written to the point column comes from a copy or from the   *)
(* row, and every copy from a row or from a deduction.                     *)
(***************************************************************************)
LEMMA PointSources ==
    ASSUME TypeOK, [Next]_vars
    PROVE  /\ user' = user \/ \E r \in Requests : user' = Overwritten(r)
           /\ \A q \in Requests :
                 \/ copy'[q] = copy[q]
                 \/ copy'[q] = user
                 \/ copy'[q] = Deducted(copy[q], Cost(q))
                 \/ copy'[q].point = copy[q].point
<1> DEFINE Sources == /\ user' = user \/ \E r \in Requests : user' = Overwritten(r)
                      /\ \A q \in Requests :
                            \/ copy'[q] = copy[q]
                            \/ copy'[q] = user
                            \/ copy'[q] = Deducted(copy[q], Cost(q))
                            \/ copy'[q].point = copy[q].point
<1>1. ASSUME NEW r \in Requests,
             ReceiveSms(r) \/ ReceiveTopUp(r) \/ ReceiveProfile(r) \/ Reread(r)
      PROVE  Sources
  BY <1>1 DEF TypeOK, ReceiveSms, ReceiveTopUp, ReceiveProfile, Reread, ReadUser
<1>2. ASSUME NEW r \in Requests, Deduct(r) PROVE Sources
  BY <1>2 DEF TypeOK, Deduct
<1>3. ASSUME NEW r \in Requests, Credit(r) PROVE Sources
  BY <1>3 DEF TypeOK, Credit
<1>4. ASSUME NEW r \in Requests, CommitTx(r) \/ UpdateUser(r) PROVE Sources
  BY <1>4 DEF CommitTx, UpdateUser, entity
<1>5. ASSUME NEW r \in Requests,
             \/ ReceiveBiz(r) \/ Check(r) \/ CreateGroup(r) \/ PostChunk(r)
             \/ PostNothing(r) \/ InsertMessage(r) \/ InsertContent(r) \/ BeginTx(r)
             \/ Pay(r) \/ SaveOrder(r) \/ SaveProfile(r) \/ Stop(r)
      PROVE  Sources
  BY <1>5 DEF ReceiveBiz, Check, CreateGroup, PostChunk, PostNothing, InsertMessage,
     InsertContent, BeginTx, Pay, SaveOrder, SaveProfile, Stop, entity
<1>6. CASE UNCHANGED vars
  BY <1>6 DEF vars, entity
<1>7. QED
  BY <1>1, <1>2, <1>3, <1>4, <1>5, <1>6 DEF Next

LEMMA NextPoint == TypeOK /\ PointInv /\ [Next]_vars => PointInv'
<1> SUFFICES ASSUME TypeOK, PointInv, [Next]_vars PROVE PointInv'
  OBVIOUS
<1>1. user'.point >= 0
  <2>1. \A r \in Requests : Overwritten(r).point >= 0
    BY DEF TypeOK, PointInv, Overwritten
  <2>2. QED
    BY <2>1, PointSources DEF PointInv
<1>2. ASSUME NEW q \in Requests PROVE copy'[q].point >= 0
  <2>1. Deducted(copy[q], Cost(q)).point >= 0
    BY DeductedExactly, CostNat DEF TypeOK, PointInv
  <2>2. QED
    BY <2>1, PointSources DEF PointInv
<1>3. QED
  BY <1>1, <1>2 DEF PointInv

-----------------------------------------------------------------------------
(***************************************************************************)
(* The point column never goes below zero, however the requests of a user  *)
(* interleave and wherever they stop.                                      *)
(***************************************************************************)
THEOREM PointsStayNatural == Spec => []PointNeverNegative
<1>1. TypeOK /\ PointInv /\ [Next]_vars => TypeOK' /\ PointInv'
  BY NextTypeOK, NextPoint
<1>2. Init => TypeOK /\ PointInv
  BY InitTypeOK, InitPoint
<1>3. PointInv => PointNeverNegative
  BY DEF PointInv, PointNeverNegative
<1>4. QED
  BY <1>1, <1>2, <1>3, PTL DEF Spec

(***************************************************************************)
(* No money from nowhere: whatever row the account opened with, that row   *)
(* and the payments credited so far bound the columns and every copy of    *)
(* them, and a copy that is written back keeps the bound.                  *)
(***************************************************************************)
Units(z, S) == UNION {{r} \X (1..z[r]) : r \in S}

Backed(u, opening, c) == u.point <= opening.point /\ u.money <= opening.money + c

BackedInv ==
    /\ IsFiniteSet(Units(size, PaidIn))
    /\ \E opening \in Openings :
          /\ Backed(user, opening, Cardinality(Units(size, PaidIn)))
          /\ \A r \in Requests : Backed(copy[r], opening, Cardinality(Units(size, PaidIn)))

LEMMA InitBacked == Init => BackedInv
<1> SUFFICES ASSUME Init PROVE BackedInv
  OBVIOUS
<1>1. PaidIn = {}
  BY DEF Init, PaidIn
<1>2. Units(size, PaidIn) = {}
  BY <1>1 DEF Units
<1>3. IsFiniteSet(Units(size, PaidIn)) /\ Cardinality(Units(size, PaidIn)) = 0
  BY <1>2, FS_EmptySet
<1>4. user \in Openings /\ user.point \in Nat /\ user.money \in Nat
  BY OpeningsAssumption DEF Init, Row
<1>5. \A r \in Requests : copy[r].point = 0 /\ copy[r].money = 0
  BY DEF Init
<1>6. Backed(user, user, 0) /\ \A r \in Requests : Backed(copy[r], user, 0)
  BY <1>4, <1>5 DEF Backed
<1>7. QED
  BY <1>3, <1>4, <1>6 DEF BackedInv

\* The credit of one more payment.
LEMMA OnePaymentMore ==
    ASSUME NEW z \in [Requests -> Nat], NEW S \in SUBSET Requests, NEW r \in Requests, r \notin S,
           IsFiniteSet(Units(z, S))
    PROVE  /\ IsFiniteSet(Units(z, S \cup {r}))
           /\ Cardinality(Units(z, S \cup {r})) = Cardinality(Units(z, S)) + z[r]
<1> DEFINE one == {r}
           upto == 1..z[r]
           old == Units(z, S)
           add == one \X upto
<1>1. z[r] \in Nat
  OBVIOUS
<1>2. IsFiniteSet(upto) /\ Cardinality(upto) = z[r]
  BY <1>1, FS_Interval
<1>3. IsFiniteSet(one) /\ Cardinality(one) = 1
  BY FS_Singleton
<1>4. Units(z, S \cup {r}) = old \cup add /\ old \cap add = {}
  BY DEF Units
<1> HIDE DEF one, upto, old
<1>5. IsFiniteSet(add) /\ Cardinality(add) = 1 * z[r]
  BY <1>2, <1>3, FS_Product
<1>6. IsFiniteSet(old) /\ Cardinality(old) \in Nat
  BY FS_CardinalityType DEF old
<1> HIDE DEF add
<1>7. /\ IsFiniteSet(old \cup add)
      /\ Cardinality(old \cup add) = Cardinality(old) + Cardinality(add) - Cardinality(old \cap add)
  BY <1>5, <1>6, FS_Union
<1>8. Cardinality(old \cap add) = 0
  BY <1>4, FS_EmptySet
<1> DEFINE a == Cardinality(old)
           b == Cardinality(old \cup add)
           c == Cardinality(add)
<1>9. a \in Nat /\ c = 1 * z[r] /\ b = a + c - 0
  BY <1>5, <1>6, <1>7, <1>8
<1> HIDE DEF a, b, c
<1>10. b = a + z[r]
  BY <1>1, <1>9
<1>11. QED
  BY <1>4, <1>7, <1>10 DEF a, b, old

\* Only a credit adds to what was paid in.
LEMMA PaidInKept ==
    ASSUME TypeOK, FlowInv, [Next]_vars, ~\E r \in Requests : Credit(r)
    PROVE  PaidIn' = PaidIn /\ \A r \in PaidIn : size'[r] = size[r]
<1> DEFINE Kept == PaidIn' = PaidIn /\ \A r \in PaidIn : size'[r] = size[r]
<1> USE DEF Goto, At
<1>1. ASSUME NEW r \in Requests, NEW k, NEW n, NEW s, Start(r, k, n, s),
             s \in {"check", "credit", "profile"}
      PROVE  Kept
  BY <1>1 DEF Start, MayStart, PaidIn, TypeOK
<1>2. ASSUME NEW r \in Requests,
             ReceiveSms(r) \/ ReceiveBiz(r) \/ ReceiveTopUp(r) \/ ReceiveProfile(r)
      PROVE  Kept
  BY <1>1, <1>2 DEF ReceiveSms, ReceiveBiz, ReceiveTopUp, ReceiveProfile
<1>3. ASSUME NEW r \in Requests, kind' = kind, size' = size, kind[r] # "topUp",
             \A q \in Requests \ {r} : stage'[q] = stage[q]
      PROVE  Kept
  BY <1>3 DEF PaidIn
<1>4. ASSUME NEW r \in Requests,
             \/ Check(r) \/ CreateGroup(r) \/ PostChunk(r) \/ PostNothing(r) \/ InsertMessage(r)
             \/ InsertContent(r) \/ BeginTx(r) \/ CommitTx(r) \/ Reread(r) \/ Deduct(r) \/ Pay(r)
             \/ SaveProfile(r)
      PROVE  Kept
  <2>1. stage[r] \in {"check", "group", "post", "message", "content", "txUser", "txCommit",
                      "reread", "deduct", "pay", "profile"}
    BY <1>4 DEF Check, CreateGroup, PostChunk, PostNothing, InsertMessage, InsertContent, BeginTx,
       CommitTx, Reread, Deduct, Pay, SaveProfile
  <2>2. kind[r] # "topUp"
    BY <2>1 DEF FlowInv, StageInv, SendKinds, SmsKinds
  <2>3. kind' = kind /\ size' = size /\ \A q \in Requests \ {r} : stage'[q] = stage[q]
    BY <1>4 DEF TypeOK, Check, CreateGroup, PostChunk, PostNothing, InsertMessage, InsertContent,
       BeginTx, CommitTx, Reread, Deduct, Pay, SaveProfile
  <2>4. QED
    BY <1>3, <2>2, <2>3
<1>5. ASSUME NEW r \in Requests, SaveOrder(r) \/ UpdateUser(r) PROVE Kept
  BY <1>5 DEF SaveOrder, UpdateUser, PaidIn, TypeOK, FlowInv, StageInv, SendKinds, SmsKinds
<1>6. ASSUME NEW r \in Requests, Stop(r) PROVE Kept
  BY <1>6 DEF Stop, PaidIn
<1>7. CASE UNCHANGED vars
  BY <1>7 DEF vars, flow, PaidIn
<1>8. QED
  BY <1>2, <1>4, <1>5, <1>6, <1>7 DEF Next

\* What is written comes from a copy or from the row, and, but for a credit, a
\* copy from a row or from a deduction.
LEMMA RowSources ==
    ASSUME TypeOK, [Next]_vars, ~\E r \in Requests : Credit(r)
    PROVE  /\ user' = user \/ \E r \in Requests : user' = Overwritten(r)
           /\ \A q \in Requests :
                 \/ copy'[q] = copy[q]
                 \/ copy'[q] = user
                 \/ copy'[q] = Deducted(copy[q], Cost(q))
<1>1. user' = user \/ \E r \in Requests : user' = Overwritten(r)
  BY PointSources
<1> DEFINE Copies == \A q \in Requests :
                 \/ copy'[q] = copy[q]
                 \/ copy'[q] = user
                 \/ copy'[q] = Deducted(copy[q], Cost(q))
<1>2. ASSUME NEW r \in Requests,
             ReceiveSms(r) \/ ReceiveTopUp(r) \/ ReceiveProfile(r) \/ Reread(r)
      PROVE  Copies
  BY <1>2 DEF TypeOK, ReceiveSms, ReceiveTopUp, ReceiveProfile, Reread, ReadUser
<1>3. ASSUME NEW r \in Requests, Deduct(r) PROVE Copies
  BY <1>3 DEF TypeOK, Deduct
<1>4. ASSUME NEW r \in Requests,
             \/ ReceiveBiz(r) \/ Check(r) \/ CreateGroup(r) \/ PostChunk(r) \/ CommitTx(r)
             \/ PostNothing(r) \/ InsertMessage(r) \/ InsertContent(r) \/ BeginTx(r)
             \/ Pay(r) \/ SaveOrder(r) \/ SaveProfile(r) \/ UpdateUser(r) \/ Stop(r)
      PROVE  Copies
  BY <1>4 DEF ReceiveBiz, Check, CreateGroup, PostChunk, PostNothing, InsertMessage, CommitTx,
     InsertContent, BeginTx, Pay, SaveOrder, SaveProfile, UpdateUser, Stop, entity
<1>5. CASE UNCHANGED vars
  BY <1>5 DEF vars, entity
<1>6. Copies
  BY <1>2, <1>3, <1>4, <1>5 DEF Next
<1>7. QED
  BY <1>1, <1>6

LEMMA DeductedBacked ==
    ASSUME NEW u \in [point : Int, money : Int], NEW cost \in Nat,
           NEW opening \in Row, NEW c \in Nat, Backed(u, opening, c)
    PROVE  Backed(Deducted(u, cost), opening, c)
  BY DEF Row, Backed, Deducted

LEMMA NextBacked == TypeOK /\ TypeOK' /\ FlowInv /\ BackedInv /\ [Next]_vars => BackedInv'
<1> SUFFICES ASSUME TypeOK, TypeOK', FlowInv, BackedInv, [Next]_vars PROVE BackedInv'
  OBVIOUS
<1> DEFINE c == Cardinality(Units(size, PaidIn))
           d == Cardinality(Units(size', PaidIn'))
<1>1. PICK opening \in Openings : /\ Backed(user, opening, c)
                                  /\ \A r \in Requests : Backed(copy[r], opening, c)
  BY DEF BackedInv
<1>2. opening \in Row /\ c \in Nat /\ IsFiniteSet(Units(size, PaidIn))
  BY OpeningsAssumption, FS_CardinalityType DEF BackedInv
<1>3. /\ size \in [Requests -> Nat] /\ user \in [point : Int, money : Int]
      /\ \A r \in Requests : copy[r] \in [point : Int, money : Int] /\ Cost(r) \in Nat
  BY CostNat DEF TypeOK
<1>4. CASE ~\E r \in Requests : Credit(r)
  <2>1. Units(size', PaidIn') = Units(size, PaidIn)
    BY <1>4, PaidInKept DEF Units
  <2>2. d = c /\ IsFiniteSet(Units(size', PaidIn'))
    BY <1>2, <2>1
  <2> HIDE DEF c, d
  <2>3. \A r \in Requests : Backed(Overwritten(r), opening, c)
    BY <1>1 DEF Backed, Overwritten
  <2>4. \A r \in Requests : Backed(Deducted(copy[r], Cost(r)), opening, c)
    BY <1>1, <1>2, <1>3, DeductedBacked
  <2>5. Backed(user', opening, c) /\ \A r \in Requests : Backed(copy'[r], opening, c)
    BY <1>1, <1>4, <2>3, <2>4, RowSources
  <2>6. QED
    BY <2>2, <2>5 DEF BackedInv, d
<1>5. ASSUME NEW r \in Requests, Credit(r) PROVE BackedInv'
  <2>1. /\ kind' = kind /\ size' = size /\ user' = user
        /\ stage' = [stage EXCEPT ![r] = "creditSave"] /\ stage[r] = "credit"
        /\ copy' = [copy EXCEPT ![r].money = @ + size[r]]
    BY <1>5 DEF Credit, Goto, At
  <2>2. kind[r] = "topUp"
    BY <2>1 DEF FlowInv, StageInv
  <2>3. PaidIn' = PaidIn \cup {r} /\ r \notin PaidIn /\ PaidIn \in SUBSET Requests
    BY <2>1, <2>2 DEF PaidIn, TypeOK
  <2>4. IsFiniteSet(Units(size, PaidIn \cup {r})) /\ Cardinality(Units(size, PaidIn \cup {r})) = c + size[r]
    BY <1>2, <1>3, <2>3, OnePaymentMore
  <2>5. d = c + size[r] /\ IsFiniteSet(Units(size', PaidIn'))
    BY <2>1, <2>3, <2>4
  <2> HIDE DEF c, d
  <2>6. ASSUME NEW q \in Requests PROVE Backed(copy'[q], opening, d)
    <3>1. /\ copy'[q].point = copy[q].point
          /\ copy'[q].money = copy[q].money \/ copy'[q].money = copy[q].money + size[r]
      BY <1>3, <2>1 DEF TypeOK
    <3>2. /\ copy[q].point \in Int /\ copy[q].money \in Int /\ size[r] \in Nat
          /\ opening.point \in Nat /\ opening.money \in Nat
      BY <1>2, <1>3 DEF Row
    <3>3. copy[q].point <= opening.point /\ copy[q].money <= opening.money + c
      BY <1>1 DEF Backed
    <3>4. QED
      BY <1>2, <2>5, <3>1, <3>2, <3>3 DEF Backed
  <2>7. Backed(user', opening, d)
    <3>1. user.money \in Int /\ size[r] \in Nat /\ opening.money \in Nat
      BY <1>2, <1>3 DEF Row
    <3>2. QED
      BY <1>1, <1>2, <2>1, <2>5, <3>1 DEF Backed
  <2>8. QED
    BY <2>5, <2>6, <2>7 DEF BackedInv, d
<1>6. QED
  BY <1>4, <1>5

(***************************************************************************)
(* However the requests of a user interleave and wherever they stop, the   *)
(* columns never exceed a row the account opened with and the payments     *)
(* whose credit was computed.                                              *)
(***************************************************************************)
THEOREM MoneyHasASource == Spec => []NoMoneyFromNowhere
<1> DEFINE I == TypeOK /\ FlowInv /\ BackedInv
<1>1. Init => I
  BY InitTypeOK, InitFlow, InitBacked
<1>2. I /\ [Next]_vars => I'
  BY NextTypeOK, NextFlow, NextBacked
<1>3. I => NoMoneyFromNowhere
  BY DEF BackedInv, Backed, NoMoneyFromNowhere, UnitsPaidIn, Units
<1> HIDE DEF I
<1>4. QED
  BY <1>1, <1>2, <1>3, PTL DEF Spec

-----------------------------------------------------------------------------
LEMMA FlowAndPayments == Spec => [](TypeOK /\ FlowInv /\ PaymentInv)
<1>1. Init => TypeOK /\ FlowInv /\ PaymentInv
  BY InitTypeOK, InitFlow, InitPayment
<1>2. TypeOK /\ FlowInv /\ PaymentInv /\ [Next]_vars => (TypeOK /\ FlowInv /\ PaymentInv)'
  BY NextTypeOK, NextFlow, NextPayment
<1>3. QED
  BY <1>1, <1>2, PTL DEF Spec

(***************************************************************************)
(* What the invariant says of a request with a payment row.                *)
(***************************************************************************)
LEMMA PaidRequest ==
    ASSUME TypeOK, FlowInv, PaymentInv, NEW pay \in payments, NEW r, r = pay.req
    PROVE  /\ r \in Requests
           /\ \/ /\ Ab(r) /\ Accepted(r, "A") /\ Accepted(r, "B")
                 /\ Stored(r, "A") /\ Stored(r, "B") /\ Stored(r, "N") /\ ~Stored(r, "Default")
                 /\ \A p \in Parts : Stored(r, p) => <<r, p>> \in grouped
                 /\ <<r, "A">> \in contents
              \/ /\ ~Ab(r) /\ Accepted(r, "Default")
                 /\ Stored(r, "Default") /\ ~Stored(r, "A") /\ ~Stored(r, "B") /\ ~Stored(r, "N")
                 /\ <<r, "Default">> \in grouped /\ <<r, "Default">> \in contents
           /\ pay.usedPoint = Cost(r) /\ pay.usedMoney = 0
<1>1. r \in Requests
  BY DEF TypeOK
<1>2. kind[r] \in SendKinds /\ stage[r] = "done" /\ pay.usedPoint = Cost(r) /\ pay.usedMoney = 0
  BY DEF PaymentInv
<1>3. DefaultInv(r) /\ AbInv(r)
  BY <1>1 DEF FlowInv
<1>4. CASE Ab(r)
  BY <1>1, <1>2, <1>3, <1>4 DEF Ab, AbInv, Settling
<1>5. CASE ~Ab(r)
  <2>1. kind[r] \in {"smsDefault", "bizDefault"}
    BY <1>2, <1>5 DEF Ab, SendKinds, SmsKinds, AbKinds
  <2>2. QED
    BY <1>1, <1>2, <1>3, <1>5, <2>1 DEF DefaultInv, Settling
<1>6. QED
  BY <1>4, <1>5

(***************************************************************************)
(* Nobody is charged for a send that NCP did not accept in full.           *)
(***************************************************************************)
THEOREM ChargesFollowAcceptance == Spec => []ChargedOnlyWhenAccepted
<1>1. TypeOK /\ FlowInv /\ PaymentInv => ChargedOnlyWhenAccepted
  BY PaidRequest DEF ChargedOnlyWhenAccepted, Accepted
<1>2. QED
  BY <1>1, FlowAndPayments, PTL

(***************************************************************************)
(* A charge is the price of the receivers of the messages it paid for.     *)
(***************************************************************************)
THEOREM ChargesMatchMessages == Spec => []ChargeMatchesMessages
<1>1. TypeOK /\ FlowInv /\ PaymentInv => ChargeMatchesMessages
  <2> SUFFICES ASSUME TypeOK, FlowInv, PaymentInv, NEW pay \in payments, NEW r, r = pay.req
               PROVE  pay.usedPoint + pay.usedMoney
                        = Price * (  StoredCount(r, "Default") + StoredCount(r, "A")
                                   + StoredCount(r, "B") + StoredCount(r, "N"))
    BY DEF ChargeMatchesMessages
  <2>1. r \in Requests /\ pay.usedPoint = Cost(r) /\ pay.usedMoney = 0
    BY PaidRequest
  <2>2. size[r] \in Nat /\ Cost(r) = size[r] * Price
    BY <2>1 DEF TypeOK, Cost
  <2>3. CASE Ab(r)
    <3>1. /\ StoredCount(r, "Default") = 0 /\ StoredCount(r, "A") = ACount(size[r])
          /\ StoredCount(r, "B") = BCount(size[r]) /\ StoredCount(r, "N") = RemainCount(size[r])
      BY <2>3, PaidRequest DEF StoredCount, Stored, PartCount
    <3>2. /\ ACount(size[r]) \in Nat /\ BCount(size[r]) \in Nat /\ RemainCount(size[r]) \in Nat
          /\ ACount(size[r]) + BCount(size[r]) + RemainCount(size[r]) = size[r]
      BY <2>2, CountsAddUp
    <3>3. QED
      BY <2>1, <2>2, <3>1, <3>2 DEF Price
  <2>4. CASE ~Ab(r)
    <3>1. /\ StoredCount(r, "Default") = size[r] /\ StoredCount(r, "A") = 0
          /\ StoredCount(r, "B") = 0 /\ StoredCount(r, "N") = 0
      BY <2>4, PaidRequest DEF StoredCount, Stored, PartCount
    <3>2. QED
      BY <2>1, <2>2, <3>1 DEF Price
  <2>5. QED
    BY <2>3, <2>4
<1>2. QED
  BY <1>1, FlowAndPayments, PTL

(***************************************************************************)
(* The payment history and the refund job find the rows of a paid send.    *)
(***************************************************************************)
THEOREM PaidRowsAreLinked == Spec => []PaidSendsAreGrouped
<1>1. TypeOK /\ FlowInv /\ PaymentInv => PaidSendsAreGrouped
  <2> SUFFICES ASSUME TypeOK, FlowInv, PaymentInv, NEW pay \in payments
               PROVE  /\ \A m \in messages : m[1] = pay.req => m \in grouped
                      /\ \E m \in contents : m[1] = pay.req
    BY DEF PaidSendsAreGrouped
  <2>1. ASSUME NEW m \in messages, m[1] = pay.req PROVE m \in grouped
    <3>1. m = <<pay.req, m[2]>> /\ m[2] \in Parts
      BY <2>1 DEF TypeOK
    <3>2. Stored(pay.req, m[2])
      BY <3>1 DEF Stored
    <3>3. QED
      BY <3>1, <3>2, PaidRequest DEF Parts
  <2>2. \E m \in contents : m[1] = pay.req
    <3>1. <<pay.req, "A">> \in contents \/ <<pay.req, "Default">> \in contents
      BY PaidRequest
    <3>2. <<pay.req, "A">>[1] = pay.req /\ <<pay.req, "Default">>[1] = pay.req
      OBVIOUS
    <3>3. QED
      BY <3>1, <3>2
  <2>3. QED
    BY <2>1, <2>2
<1>2. QED
  BY <1>1, FlowAndPayments, PTL

-----------------------------------------------------------------------------
(***************************************************************************)
(* When the requests of a user do not overlap, Billing implements Ledger:  *)
(* for any number of requests, any receiver counts, any chunk sizes and    *)
(* any opening balances, and wherever requests stop.                       *)
(***************************************************************************)
Total(u) == u.point + u.money

\* The amounts a request can come in with.
SizeInv ==
    \A r \in Requests :
        /\ stage[r] # "idle" /\ kind[r] \in SendKinds => size[r] \in Sizes \cup AbSizes
        /\ stage[r] # "idle" /\ kind[r] = "topUp" => size[r] \in TopUps

(***************************************************************************)
(* What a request that is being served holds: no other request has written *)
(* the row since it was read, so the copy is the row, or the row with the  *)
(* deduction or the payment applied, and a send past its check is covered. *)
(***************************************************************************)
Covered == {"group", "post", "message", "txUser", "txCommit", "content", "reread", "deduct", "debit"}

Fresh(r) ==
    /\ stage[r] \in Covered => Total(user) >= Cost(r)
    /\ Sms(r) /\ stage[r] \in (Covered \cup {"check"}) \ {"debit"} => copy[r] = user
    /\ stage[r] \in {"deduct", "credit", "profile", "profileSave"} => copy[r] = user
    /\ stage[r] = "debit" =>
           copy[r] = Deducted(user, Cost(r)) /\ dirty[r] = DirtyColumns(copy[r])
    /\ stage[r] = "creditSave" =>
           /\ copy[r] = [point |-> user.point, money |-> user.money + size[r]]
           /\ dirty[r] = DirtyColumns(copy[r])

SerialInv ==
    /\ \A q, r \in Requests : InFlight(q) /\ InFlight(r) => q = r
    /\ \A r \in Requests : InFlight(r) => Fresh(r)
    /\ Total(user) >= 0

Inv == TypeOK /\ FlowInv /\ SizeInv /\ SerialInv

-----------------------------------------------------------------------------

\* A step of r leaves the requests that are not r where they are.
OnlyMoves(r) ==
    /\ \A q \in Requests \ {r} :
          /\ kind'[q] = kind[q] /\ size'[q] = size[q] /\ stage'[q] = stage[q]
          /\ q \in stopped' <=> q \in stopped
    /\ \A q \in Requests \ {r} : ~InFlight(q)

(***************************************************************************)
(* With one request in flight, only that request has anything to preserve. *)
(***************************************************************************)
LEMMA SerialFrame ==
    ASSUME NEW r \in Requests, OnlyMoves(r), InFlight(r)' => Fresh(r)', Total(user)' >= 0
    PROVE  SerialInv'
  BY DEF OnlyMoves, InFlight, SerialInv

(***************************************************************************)
(* A step that posts nothing and leaves the total alone is a stutter of    *)
(* the ledger.                                                             *)
(***************************************************************************)
LEMMA StutterStep ==
    ASSUME Total(user)' = Total(user),
           \A q \in Requests : Posted(q)' <=> Posted(q),
           \A q \in Requests : Posted(q) => Amount(q)' = Amount(q)
    PROVE  UNCHANGED Account!vars
  BY DEF Account!vars, Total

(***************************************************************************)
(* The UPDATE of an entity saved just after its SELECT writes the entity.  *)
(***************************************************************************)
LEMMA SavedEntity ==
    ASSUME TypeOK, NEW r \in Requests, dirty[r] = DirtyColumns(copy[r])
    PROVE  Overwritten(r) = copy[r]
  BY DEF TypeOK, Overwritten, DirtyColumns

LEMMA SavedUnchanged ==
    ASSUME TypeOK, NEW r \in Requests, copy[r] = user
    PROVE  Overwritten(r) = user
  BY DEF TypeOK, Overwritten

LEMMA CheckCoversCost ==
    ASSUME TypeOK, NEW r \in Requests
    PROVE  CheckedAmount(r) >= Cost(r)
  BY DEF TypeOK, CheckedAmount, Cost, Price

LEMMA SerialInit == Init => Inv
<1> SUFFICES ASSUME Init PROVE Inv
  OBVIOUS
<1>1. SizeInv
  BY DEF Init, SizeInv
<1>2. SerialInv
  BY OpeningsAssumption DEF Init, SerialInv, InFlight, Total, Row
<1>3. QED
  BY <1>1, <1>2, InitTypeOK, InitFlow DEF Inv

\* What has to be shown of every step.
StepOK == SizeInv' /\ SerialInv' /\ [Account!Next]_(Account!vars)

(***************************************************************************)
(* A request that is being served is the only one.                         *)
(***************************************************************************)
LEMMA OnlyOne ==
    ASSUME Inv, NEW r \in Requests, InFlight(r), NEW q \in Requests \ {r}
    PROVE  ~InFlight(q)
  BY DEF Inv, SerialInv

(***************************************************************************)
(* A step that neither writes the row nor posts is correct when the        *)
(* request that took it stays fresh.                                       *)
(***************************************************************************)
LEMMA QuietStep ==
    ASSUME Inv, NEW r \in Requests, OnlyMoves(r), user' = user,
           (~Posted(r) /\ ~Posted(r)') \/ (Posted(r) /\ Posted(r)' /\ kind'[r] = kind[r] /\ size'[r] = size[r]),
           stage'[r] # "idle" /\ kind'[r] \in SendKinds => size'[r] \in Sizes \cup AbSizes,
           stage'[r] # "idle" /\ kind'[r] = "topUp" => size'[r] \in TopUps,
           InFlight(r)' => Fresh(r)'
    PROVE  StepOK
<1>1. SizeInv'
  BY DEF Inv, SizeInv, OnlyMoves
<1>2. SerialInv'
  BY SerialFrame DEF Inv, SerialInv, Total
<1>3. \A q \in Requests : /\ Posted(q)' <=> Posted(q)
                          /\ Posted(q) => Amount(q)' = Amount(q)
  BY DEF OnlyMoves, Posted, Amount, Cost
<1>4. UNCHANGED Account!vars
  BY <1>3, StutterStep DEF Total
<1>5. QED
  BY <1>1, <1>2, <1>4 DEF StepOK

(***************************************************************************)
(* The step that writes the row posts the amount of its request.           *)
(***************************************************************************)
LEMMA PostingStep ==
    ASSUME Inv, NEW r \in Requests, OnlyMoves(r), ~InFlight(r)' \/ Fresh(r)',
           ~Posted(r), Posted(r)', UNCHANGED <<kind, size>>,
           kind[r] \in SendKinds \cup {"topUp"}, stage[r] # "idle",
           Total(user)' = Total(user) + Amount(r), Total(user)' >= 0
    PROVE  StepOK
<1>1. SizeInv'
  BY DEF Inv, SizeInv, OnlyMoves
<1>2. SerialInv'
  BY SerialFrame
<1> DEFINE S == TopUps \cup {0 - n * Price : n \in Sizes \cup AbSizes}
<1>3. Amount(r) \in S
  BY DEF Inv, SizeInv, Amount, Cost, SendKinds, SmsKinds
<1> HIDE DEF S
<1>4. PICK a \in S : a = Amount(r)
  BY <1>3
<1>5. \A q \in Requests : /\ Amount(q)' = Amount(q)
                          /\ Posted(q)' <=> Posted(q) \/ q = r
  BY DEF OnlyMoves, Posted, Amount, Cost
<1> DEFINE P == {[req |-> q, amount |-> Amount(q)] : q \in {x \in Requests : Posted(x)}}
<1>6. P' = P \cup {[req |-> r, amount |-> a]}
  BY <1>4, <1>5
<1>7. \A p \in P : p.req # r
  OBVIOUS
<1>8. Account!Next
  <2>1. /\ user.point + user.money + a >= 0
        /\ (user.point + user.money)' = user.point + user.money + a
    BY <1>4 DEF Total
  <2> HIDE DEF P
  <2>2. Account!Post(r, a) <=> /\ \A p \in P : p.req # r
                               /\ user.point + user.money + a >= 0
                               /\ (user.point + user.money)' = user.point + user.money + a
                               /\ P' = P \cup {[req |-> r, amount |-> a]}
    BY DEF Account!Post, P
  <2>3. Account!Post(r, a)
    BY <1>6, <1>7, <2>1, <2>2
  <2>4. QED
    BY <1>4, <2>3, Zenon DEF Account!Next, S
<1>9. QED
  BY <1>1, <1>2, <1>8 DEF StepOK

(***************************************************************************)
(* Every step keeps the invariant and is a step of the ledger or none.     *)
(***************************************************************************)
LEMMA SerialStep ==
    ASSUME Inv, ~Overlap, [Next]_vars
    PROVE  StepOK
<1> USE DEF Goto, At
<1>0. TypeOK /\ FlowInv /\ SizeInv /\ SerialInv
  BY DEF Inv
<1>1. ASSUME NEW r \in Requests, ReceiveSms(r) PROVE StepOK
  <2>1. PICK n \in Sizes \cup AbSizes, k \in SmsKinds : Start(r, k, n, "check")
    BY <1>1 DEF ReceiveSms, SmsKinds
  <2>2. OnlyMoves(r) /\ stage[r] = "idle"
    BY <1>0, <2>1 DEF TypeOK, Start, MayStart, OnlyMoves
  <2>3. user' = user /\ (copy'[r] = user)
    BY <1>0, <1>1, <2>1 DEF TypeOK, ReceiveSms, ReadUser, Start, Sms, SmsKinds
  <2>4. InFlight(r)' => Fresh(r)'
    BY <1>0, <2>1, <2>3 DEF TypeOK, Start, Fresh, Covered, Sms, SmsKinds
  <2>5. QED
    BY <1>0, <2>1, <2>2, <2>3, <2>4, QuietStep
       DEF TypeOK, Start, Posted, SendKinds, SmsKinds
<1>2. ASSUME NEW r \in Requests, ReceiveBiz(r) PROVE StepOK
  <2>1. PICK n \in Sizes, k \in {"bizDefault", "bizAb"} : Start(r, k, n, "check")
    BY <1>2 DEF ReceiveBiz
  <2>2. OnlyMoves(r) /\ stage[r] = "idle"
    BY <1>0, <2>1 DEF TypeOK, Start, MayStart, OnlyMoves
  <2>3. user' = user /\ (copy'[r] = user \/ ~Sms(r)')
    BY <1>0, <1>2, <2>1 DEF TypeOK, ReceiveBiz, ReadUser, Start, Sms, SmsKinds
  <2>4. InFlight(r)' => Fresh(r)'
    BY <1>0, <2>1, <2>3 DEF TypeOK, Start, Fresh, Covered, Sms, SmsKinds
  <2>5. QED
    BY <1>0, <2>1, <2>2, <2>3, <2>4, QuietStep
       DEF TypeOK, Start, Posted, SendKinds, SmsKinds
<1>3. ASSUME NEW r \in Requests, ReceiveTopUp(r) PROVE StepOK
  <2>1. PICK n \in TopUps : Start(r, "topUp", n, "credit")
    BY <1>3 DEF ReceiveTopUp
  <2>2. OnlyMoves(r) /\ stage[r] = "idle"
    BY <1>0, <2>1 DEF TypeOK, Start, MayStart, OnlyMoves
  <2>3. user' = user /\ (copy'[r] = user)
    BY <1>0, <1>3, <2>1 DEF TypeOK, ReceiveTopUp, ReadUser, Start, Sms, SmsKinds
  <2>4. InFlight(r)' => Fresh(r)'
    BY <1>0, <2>1, <2>3 DEF TypeOK, Start, Fresh, Covered, Sms, SmsKinds
  <2>5. QED
    BY <1>0, <2>1, <2>2, <2>3, <2>4, QuietStep
       DEF TypeOK, Start, Posted, SendKinds, SmsKinds
<1>4. ASSUME NEW r \in Requests, ReceiveProfile(r) PROVE StepOK
  <2>1. PICK n \in {0} : Start(r, "profile", n, "profile")
    BY <1>4 DEF ReceiveProfile
  <2>2. OnlyMoves(r) /\ stage[r] = "idle"
    BY <1>0, <2>1 DEF TypeOK, Start, MayStart, OnlyMoves
  <2>3. user' = user /\ (copy'[r] = user)
    BY <1>0, <1>4, <2>1 DEF TypeOK, ReceiveProfile, ReadUser, Start, Sms, SmsKinds
  <2>4. InFlight(r)' => Fresh(r)'
    BY <1>0, <2>1, <2>3 DEF TypeOK, Start, Fresh, Covered, Sms, SmsKinds
  <2>5. QED
    BY <1>0, <2>1, <2>2, <2>3, <2>4, QuietStep
       DEF TypeOK, Start, Posted, SendKinds, SmsKinds
<1>5. ASSUME NEW r \in Requests, Check(r) PROVE StepOK
  <2>1. InFlight(r)
    BY <1>5 DEF Check, InFlight
  <2>2. OnlyMoves(r) /\ user' = user /\ kind' = kind /\ size' = size /\ stage[r] # "idle"
    BY <1>0, <1>5, <2>1, OnlyOne DEF TypeOK, Check, OnlyMoves
  <2>3. Fresh(r) /\ StageInv(r) /\ AbInv(r) /\ DefaultInv(r)
    BY <1>0, <2>1 DEF SerialInv, FlowInv
  <2>4. InFlight(r)' => Fresh(r)'
    <3>1. Total(user) \in Int /\ CheckedAmount(r) \in Int /\ Cost(r) \in Int
      BY <1>0 DEF TypeOK, Total, CheckedAmount, Cost, Price
    <3>2. \/ stage'[r] = "rejected"
          \/ stage'[r] \in {"group", "post"} /\ Total(user) >= CheckedAmount(r)
      BY <1>0, <1>5, <3>1 DEF TypeOK, Check, Total
    <3>3. stage'[r] \in {"group", "post"} => Total(user) >= Cost(r)
      BY <1>0, <3>1, <3>2, CheckCoversCost
    <3>4. Cost(r)' = Cost(r) /\ Total(user)' = Total(user) /\ copy' = copy
      BY <1>5, <2>2 DEF Check, entity, Cost
    <3>5. Sms(r) => copy[r] = user
      BY <1>5, <2>3 DEF Check, Fresh, Covered
    <3>6. CASE stage'[r] = "rejected"
      BY <3>6 DEF InFlight
    <3>7. CASE stage'[r] \in {"group", "post"}
      BY <2>2, <3>3, <3>4, <3>5, <3>7 DEF Fresh, Sms
    <3>8. QED
      BY <3>2, <3>6, <3>7
  <2>5. (~Posted(r) /\ ~Posted(r)') \/ (Posted(r) /\ Posted(r)')
    BY <1>0, <1>5, <2>2, <2>3 DEF TypeOK, Check, Posted, StageInv, SendKinds, SmsKinds
  <2>6. QED
    BY <1>0, <2>2, <2>4, <2>5, QuietStep DEF SizeInv
<1>6. ASSUME NEW r \in Requests, CreateGroup(r) PROVE StepOK
  <2>1. InFlight(r)
    BY <1>6 DEF CreateGroup, InFlight
  <2>2. OnlyMoves(r) /\ user' = user /\ kind' = kind /\ size' = size /\ stage[r] # "idle"
    BY <1>0, <1>6, <2>1, OnlyOne DEF TypeOK, CreateGroup, OnlyMoves, Sms
  <2>3. Fresh(r) /\ StageInv(r) /\ AbInv(r) /\ DefaultInv(r)
    BY <1>0, <2>1 DEF SerialInv, FlowInv
  <2>4. InFlight(r)' => Fresh(r)'
    BY <1>0, <1>6, <2>2, <2>3 DEF TypeOK, CreateGroup, entity, Fresh, Covered, StageInv, InFlight, Total, Cost, DirtyColumns, Sms, SmsKinds, SendKinds
  <2>5. (~Posted(r) /\ ~Posted(r)') \/ (Posted(r) /\ Posted(r)')
    BY <1>0, <1>6, <2>2, <2>3 DEF TypeOK, CreateGroup, Posted, StageInv, SendKinds, SmsKinds, Sms
  <2>6. QED
    BY <1>0, <2>2, <2>4, <2>5, QuietStep DEF SizeInv
<1>7. ASSUME NEW r \in Requests, PostChunk(r) PROVE StepOK
  <2>1. InFlight(r)
    BY <1>7 DEF PostChunk, InFlight
  <2>2. OnlyMoves(r) /\ user' = user /\ kind' = kind /\ size' = size /\ stage[r] # "idle"
    BY <1>0, <1>7, <2>1, OnlyOne DEF TypeOK, PostChunk, OnlyMoves, AfterPost, Sms
  <2>3. Fresh(r) /\ StageInv(r) /\ AbInv(r) /\ DefaultInv(r)
    BY <1>0, <2>1 DEF SerialInv, FlowInv
  <2>4. InFlight(r)' => Fresh(r)'
    BY <1>0, <1>7, <2>2, <2>3 DEF TypeOK, PostChunk, entity, Fresh, Covered, StageInv, InFlight, Total, Cost, DirtyColumns, Sms, SmsKinds, SendKinds, AfterPost
  <2>5. (~Posted(r) /\ ~Posted(r)') \/ (Posted(r) /\ Posted(r)')
    BY <1>0, <1>7, <2>2, <2>3 DEF TypeOK, PostChunk, Posted, StageInv, SendKinds, SmsKinds, AfterPost, Sms
  <2>6. QED
    BY <1>0, <2>2, <2>4, <2>5, QuietStep DEF SizeInv
<1>8. ASSUME NEW r \in Requests, PostNothing(r) PROVE StepOK
  <2>1. InFlight(r)
    BY <1>8 DEF PostNothing, InFlight
  <2>2. OnlyMoves(r) /\ user' = user /\ kind' = kind /\ size' = size /\ stage[r] # "idle"
    BY <1>0, <1>8, <2>1, OnlyOne DEF TypeOK, PostNothing, OnlyMoves, Sms
  <2>3. Fresh(r) /\ StageInv(r) /\ AbInv(r) /\ DefaultInv(r)
    BY <1>0, <2>1 DEF SerialInv, FlowInv
  <2>4. InFlight(r)' => Fresh(r)'
    BY <1>0, <1>8, <2>2, <2>3 DEF TypeOK, PostNothing, entity, Fresh, Covered, StageInv, InFlight, Total, Cost, DirtyColumns, Sms, SmsKinds, SendKinds
  <2>5. (~Posted(r) /\ ~Posted(r)') \/ (Posted(r) /\ Posted(r)')
    BY <1>0, <1>8, <2>2, <2>3 DEF TypeOK, PostNothing, Posted, StageInv, SendKinds, SmsKinds, Sms
  <2>6. QED
    BY <1>0, <2>2, <2>4, <2>5, QuietStep DEF SizeInv
<1>9. ASSUME NEW r \in Requests, InsertMessage(r) PROVE StepOK
  <2>1. InFlight(r)
    BY <1>9 DEF InsertMessage, InFlight
  <2>2. OnlyMoves(r) /\ user' = user /\ kind' = kind /\ size' = size /\ stage[r] # "idle"
    BY <1>0, <1>9, <2>1, OnlyOne DEF TypeOK, InsertMessage, OnlyMoves, Sms
  <2>3. Fresh(r) /\ StageInv(r) /\ AbInv(r) /\ DefaultInv(r)
    BY <1>0, <2>1 DEF SerialInv, FlowInv
  <2>4. InFlight(r)' => Fresh(r)'
    BY <1>0, <1>9, <2>2, <2>3 DEF TypeOK, InsertMessage, entity, Fresh, Covered, StageInv, InFlight, Total, Cost, DirtyColumns, Sms, SmsKinds, SendKinds
  <2>5. (~Posted(r) /\ ~Posted(r)') \/ (Posted(r) /\ Posted(r)')
    BY <1>0, <1>9, <2>2, <2>3 DEF TypeOK, InsertMessage, Posted, StageInv, SendKinds, SmsKinds, Sms
  <2>6. QED
    BY <1>0, <2>2, <2>4, <2>5, QuietStep DEF SizeInv
<1>10. ASSUME NEW r \in Requests, InsertContent(r) PROVE StepOK
  <2>1. InFlight(r)
    BY <1>10 DEF InsertContent, InFlight
  <2>2. OnlyMoves(r) /\ user' = user /\ kind' = kind /\ size' = size /\ stage[r] # "idle"
    BY <1>0, <1>10, <2>1, OnlyOne DEF TypeOK, InsertContent, OnlyMoves, Sms
  <2>3. Fresh(r) /\ StageInv(r) /\ AbInv(r) /\ DefaultInv(r)
    BY <1>0, <2>1 DEF SerialInv, FlowInv
  <2>4. InFlight(r)' => Fresh(r)'
    BY <1>0, <1>10, <2>2, <2>3 DEF TypeOK, InsertContent, entity, Fresh, Covered, StageInv, InFlight, Total, Cost, DirtyColumns, Sms, SmsKinds, SendKinds
  <2>5. (~Posted(r) /\ ~Posted(r)') \/ (Posted(r) /\ Posted(r)')
    BY <1>0, <1>10, <2>2, <2>3 DEF TypeOK, InsertContent, Posted, StageInv, SendKinds, SmsKinds, Sms
  <2>6. QED
    BY <1>0, <2>2, <2>4, <2>5, QuietStep DEF SizeInv
<1>11. ASSUME NEW r \in Requests, BeginTx(r) PROVE StepOK
  <2>1. InFlight(r)
    BY <1>11 DEF BeginTx, InFlight
  <2>2. OnlyMoves(r) /\ user' = user /\ kind' = kind /\ size' = size /\ stage[r] # "idle"
    BY <1>0, <1>11, <2>1, OnlyOne DEF TypeOK, BeginTx, OnlyMoves
  <2>3. Fresh(r) /\ StageInv(r) /\ AbInv(r) /\ DefaultInv(r)
    BY <1>0, <2>1 DEF SerialInv, FlowInv
  <2>4. InFlight(r)' => Fresh(r)'
    BY <1>0, <1>11, <2>2, <2>3 DEF TypeOK, BeginTx, entity, Fresh, Covered, StageInv, InFlight, Total, Cost, DirtyColumns, Sms, SmsKinds, SendKinds
  <2>5. (~Posted(r) /\ ~Posted(r)') \/ (Posted(r) /\ Posted(r)')
    BY <1>0, <1>11, <2>2, <2>3 DEF TypeOK, BeginTx, Posted, StageInv, SendKinds, SmsKinds
  <2>6. QED
    BY <1>0, <2>2, <2>4, <2>5, QuietStep DEF SizeInv
<1>12. ASSUME NEW r \in Requests, Reread(r) PROVE StepOK
  <2>1. InFlight(r)
    BY <1>12 DEF Reread, InFlight
  <2>2. OnlyMoves(r) /\ user' = user /\ kind' = kind /\ size' = size /\ stage[r] # "idle"
    BY <1>0, <1>12, <2>1, OnlyOne DEF TypeOK, Reread, OnlyMoves, ReadUser
  <2>3. Fresh(r) /\ StageInv(r) /\ AbInv(r) /\ DefaultInv(r)
    BY <1>0, <2>1 DEF SerialInv, FlowInv
  <2>4. InFlight(r)' => Fresh(r)'
    BY <1>0, <1>12, <2>2, <2>3 DEF TypeOK, Reread, entity, Fresh, Covered, StageInv, InFlight, Total, Cost, DirtyColumns, Sms, SmsKinds, SendKinds, ReadUser
  <2>5. (~Posted(r) /\ ~Posted(r)') \/ (Posted(r) /\ Posted(r)')
    BY <1>0, <1>12, <2>2, <2>3 DEF TypeOK, Reread, Posted, StageInv, SendKinds, SmsKinds, ReadUser
  <2>6. QED
    BY <1>0, <2>2, <2>4, <2>5, QuietStep DEF SizeInv
<1>13. ASSUME NEW r \in Requests, Deduct(r) PROVE StepOK
  <2>1. InFlight(r)
    BY <1>13 DEF Deduct, InFlight
  <2>2. OnlyMoves(r) /\ user' = user /\ kind' = kind /\ size' = size /\ stage[r] # "idle"
    BY <1>0, <1>13, <2>1, OnlyOne DEF TypeOK, Deduct, OnlyMoves, DirtyColumns
  <2>3. Fresh(r) /\ StageInv(r) /\ AbInv(r) /\ DefaultInv(r)
    BY <1>0, <2>1 DEF SerialInv, FlowInv
  <2>4. InFlight(r)' => Fresh(r)'
    BY <1>0, <1>13, <2>2, <2>3 DEF TypeOK, Deduct, entity, Fresh, Covered, StageInv, InFlight, Total, Cost, DirtyColumns, Sms, SmsKinds, SendKinds
  <2>5. (~Posted(r) /\ ~Posted(r)') \/ (Posted(r) /\ Posted(r)')
    BY <1>0, <1>13, <2>2, <2>3 DEF TypeOK, Deduct, Posted, StageInv, SendKinds, SmsKinds, DirtyColumns
  <2>6. QED
    BY <1>0, <2>2, <2>4, <2>5, QuietStep DEF SizeInv
<1>14. ASSUME NEW r \in Requests, Pay(r) PROVE StepOK
  <2>1. InFlight(r)
    BY <1>14 DEF Pay, InFlight
  <2>2. OnlyMoves(r) /\ user' = user /\ kind' = kind /\ size' = size /\ stage[r] # "idle"
    BY <1>0, <1>14, <2>1, OnlyOne DEF TypeOK, Pay, OnlyMoves
  <2>3. Fresh(r) /\ StageInv(r) /\ AbInv(r) /\ DefaultInv(r)
    BY <1>0, <2>1 DEF SerialInv, FlowInv
  <2>4. InFlight(r)' => Fresh(r)'
    BY <1>0, <1>14, <2>2, <2>3 DEF TypeOK, Pay, entity, Fresh, Covered, StageInv, InFlight, Total, Cost, DirtyColumns, Sms, SmsKinds, SendKinds
  <2>5. (~Posted(r) /\ ~Posted(r)') \/ (Posted(r) /\ Posted(r)')
    BY <1>0, <1>14, <2>2, <2>3 DEF TypeOK, Pay, Posted, StageInv, SendKinds, SmsKinds
  <2>6. QED
    BY <1>0, <2>2, <2>4, <2>5, QuietStep DEF SizeInv
<1>15. ASSUME NEW r \in Requests, Credit(r) PROVE StepOK
  <2>1. InFlight(r)
    BY <1>15 DEF Credit, InFlight
  <2>2. OnlyMoves(r) /\ user' = user /\ kind' = kind /\ size' = size /\ stage[r] # "idle"
    BY <1>0, <1>15, <2>1, OnlyOne DEF TypeOK, Credit, OnlyMoves, DirtyColumns
  <2>3. Fresh(r) /\ StageInv(r) /\ AbInv(r) /\ DefaultInv(r)
    BY <1>0, <2>1 DEF SerialInv, FlowInv
  <2>4. InFlight(r)' => Fresh(r)'
    BY <1>0, <1>15, <2>2, <2>3 DEF TypeOK, Credit, entity, Fresh, Covered, StageInv, InFlight, Total, Cost, DirtyColumns, Sms, SmsKinds, SendKinds
  <2>5. (~Posted(r) /\ ~Posted(r)') \/ (Posted(r) /\ Posted(r)')
    BY <1>0, <1>15, <2>2, <2>3 DEF TypeOK, Credit, Posted, StageInv, SendKinds, SmsKinds, DirtyColumns
  <2>6. QED
    BY <1>0, <2>2, <2>4, <2>5, QuietStep DEF SizeInv
<1>16. ASSUME NEW r \in Requests, SaveOrder(r) PROVE StepOK
  <2>1. InFlight(r)
    BY <1>16 DEF SaveOrder, InFlight
  <2>2. OnlyMoves(r) /\ user' = user /\ kind' = kind /\ size' = size /\ stage[r] # "idle"
    BY <1>0, <1>16, <2>1, OnlyOne DEF TypeOK, SaveOrder, OnlyMoves
  <2>3. Fresh(r) /\ StageInv(r) /\ AbInv(r) /\ DefaultInv(r)
    BY <1>0, <2>1 DEF SerialInv, FlowInv
  <2>4. InFlight(r)' => Fresh(r)'
    BY <1>0, <1>16, <2>2, <2>3 DEF TypeOK, SaveOrder, entity, Fresh, Covered, StageInv, InFlight, Total, Cost, DirtyColumns, Sms, SmsKinds, SendKinds
  <2>5. (~Posted(r) /\ ~Posted(r)') \/ (Posted(r) /\ Posted(r)')
    BY <1>0, <1>16, <2>2, <2>3 DEF TypeOK, SaveOrder, Posted, StageInv, SendKinds, SmsKinds
  <2>6. QED
    BY <1>0, <2>2, <2>4, <2>5, QuietStep DEF SizeInv
<1>17. ASSUME NEW r \in Requests, SaveProfile(r) PROVE StepOK
  <2>1. InFlight(r)
    BY <1>17 DEF SaveProfile, InFlight
  <2>2. OnlyMoves(r) /\ user' = user /\ kind' = kind /\ size' = size /\ stage[r] # "idle"
    BY <1>0, <1>17, <2>1, OnlyOne DEF TypeOK, SaveProfile, OnlyMoves, DirtyColumns
  <2>3. Fresh(r) /\ StageInv(r) /\ AbInv(r) /\ DefaultInv(r)
    BY <1>0, <2>1 DEF SerialInv, FlowInv
  <2>4. InFlight(r)' => Fresh(r)'
    BY <1>0, <1>17, <2>2, <2>3 DEF TypeOK, SaveProfile, entity, Fresh, Covered, StageInv, InFlight, Total, Cost, DirtyColumns, Sms, SmsKinds, SendKinds
  <2>5. (~Posted(r) /\ ~Posted(r)') \/ (Posted(r) /\ Posted(r)')
    BY <1>0, <1>17, <2>2, <2>3 DEF TypeOK, SaveProfile, Posted, StageInv, SendKinds, SmsKinds, DirtyColumns
  <2>6. QED
    BY <1>0, <2>2, <2>4, <2>5, QuietStep DEF SizeInv
<1>18. ASSUME NEW r \in Requests, Stop(r) PROVE StepOK
  <2>1. InFlight(r)
    BY <1>18 DEF Stop, InFlight
  <2>2. OnlyMoves(r) /\ user' = user /\ kind' = kind /\ size' = size /\ stage[r] # "idle"
    BY <1>0, <1>18, <2>1, OnlyOne DEF TypeOK, Stop, OnlyMoves, InFlight
  <2>3. Fresh(r) /\ StageInv(r) /\ AbInv(r) /\ DefaultInv(r)
    BY <1>0, <2>1 DEF SerialInv, FlowInv
  <2>4. InFlight(r)' => Fresh(r)'
    BY <1>0, <1>18, <2>2, <2>3 DEF TypeOK, Stop, entity, Fresh, Covered, StageInv, InFlight, Total, Cost, DirtyColumns, Sms, SmsKinds, SendKinds
  <2>5. (~Posted(r) /\ ~Posted(r)') \/ (Posted(r) /\ Posted(r)')
    BY <1>0, <1>18, <2>2, <2>3 DEF TypeOK, Stop, Posted, StageInv, SendKinds, SmsKinds, InFlight
  <2>6. QED
    BY <1>0, <2>2, <2>4, <2>5, QuietStep DEF SizeInv
<1>19. ASSUME NEW r \in Requests, CommitTx(r) PROVE StepOK
  <2>1. InFlight(r) /\ stage[r] = "txCommit"
    BY <1>19 DEF CommitTx, InFlight
  <2>2. Fresh(r) /\ kind[r] = "smsDefault"
    BY <1>0, <2>1 DEF SerialInv, FlowInv, StageInv
  <2>3. copy[r] = user
    BY <2>1, <2>2 DEF Fresh, Covered, Sms, SmsKinds
  <2>4. user' = user
    BY <1>0, <1>19, <2>3, SavedUnchanged DEF CommitTx
  <2>5. OnlyMoves(r) /\ kind' = kind /\ size' = size
    BY <1>0, <1>19, <2>1, OnlyOne DEF TypeOK, CommitTx, OnlyMoves
  <2>6. Fresh(r)'
    BY <1>0, <1>19, <2>1, <2>2, <2>3, <2>4, <2>5 DEF TypeOK, CommitTx, entity, Fresh, Covered, Total, Cost
  <2>7. ~Posted(r) /\ ~Posted(r)'
    BY <1>0, <1>19, <2>1, <2>2 DEF TypeOK, CommitTx, Posted
  <2>8. QED
    BY <1>0, <2>1, <2>4, <2>5, <2>6, <2>7, QuietStep DEF SizeInv
<1>20. ASSUME NEW r \in Requests, UpdateUser(r) PROVE StepOK
  <2>1. InFlight(r)
    BY <1>20 DEF UpdateUser, InFlight
  <2>2. Fresh(r) /\ StageInv(r)
    BY <1>0, <2>1 DEF SerialInv, FlowInv
  <2>3. OnlyMoves(r) /\ UNCHANGED <<kind, size>> /\ user' = Overwritten(r) /\ stage[r] # "idle"
    BY <1>0, <1>20, <2>1, OnlyOne DEF TypeOK, UpdateUser, OnlyMoves
  <2>4. user \in [point : Int, money : Int] /\ Cost(r) \in Nat /\ size[r] \in Nat
    BY <1>0, CostNat DEF TypeOK
  <2>5. CASE stage[r] = "debit"
    <3>1. user' = Deducted(user, Cost(r)) /\ Total(user) >= Cost(r)
      BY <1>0, <2>2, <2>3, <2>5, SavedEntity DEF Fresh, Covered
    <3>2. kind[r] \in SendKinds /\ kind[r] # "topUp"
      BY <2>2, <2>5 DEF StageInv, SendKinds, SmsKinds
    <3>3. Amount(r) = 0 - Cost(r)
      BY <3>2 DEF Amount
    <3>4. Total(user)' = Total(user) + Amount(r) /\ Total(user)' >= 0
      <4>1. Total(Deducted(user, Cost(r))) = Total(user) - Cost(r)
        BY <2>4, DeductedExactly DEF Total
      <4>2. Total(user)' = Total(Deducted(user, Cost(r)))
        BY <3>1 DEF Total
      <4>3. Total(user) \in Int
        BY <2>4 DEF Total
      <4> QED
        BY <2>4, <3>1, <3>3, <4>1, <4>2, <4>3
    <3>5. stage'[r] = "pay"
      BY <1>0, <1>20, <2>5 DEF TypeOK, UpdateUser
    <3>6. ~Posted(r) /\ Posted(r)' /\ Fresh(r)'
      BY <2>3, <2>5, <3>2, <3>5 DEF Posted, Fresh, Covered
    <3>7. QED
      BY <2>3, <3>2, <3>4, <3>6, PostingStep
  <2>6. CASE stage[r] = "creditSave"
    <3>1. user' = [point |-> user.point, money |-> user.money + size[r]]
      BY <1>0, <2>2, <2>3, <2>6, SavedEntity DEF Fresh
    <3>2. kind[r] = "topUp" /\ Amount(r) = size[r]
      BY <2>2, <2>6 DEF StageInv, Amount
    <3>3. Total(user)' = Total(user) + Amount(r) /\ Total(user)' >= 0
      BY <1>0, <2>4, <3>1, <3>2 DEF Total, SerialInv
    <3>4. stage'[r] = "order"
      BY <1>0, <1>20, <2>6 DEF TypeOK, UpdateUser
    <3>5. ~Posted(r) /\ Posted(r)' /\ Fresh(r)'
      BY <2>3, <2>6, <3>2, <3>4 DEF Posted, Fresh, Covered, Sms, SmsKinds, SendKinds
    <3>6. QED
      BY <2>3, <3>2, <3>3, <3>5, PostingStep
  <2>7. CASE stage[r] = "profileSave"
    <3>1. user' = user
      BY <1>0, <2>2, <2>3, <2>7, SavedUnchanged DEF Fresh
    <3>2. kind[r] = "profile" /\ stage'[r] = "done"
      BY <1>0, <1>20, <2>2, <2>7 DEF TypeOK, StageInv, UpdateUser
    <3>3. ~Posted(r) /\ ~Posted(r)' /\ ~InFlight(r)'
      BY <2>3, <3>2 DEF Posted, SendKinds, SmsKinds, InFlight
    <3>4. QED
      BY <1>0, <2>3, <3>1, <3>3, QuietStep DEF SizeInv
  <2>8. QED
    BY <1>20, <2>5, <2>6, <2>7 DEF UpdateUser
<1>21. CASE UNCHANGED vars
  <2>1. SizeInv'
    BY <1>0, <1>21 DEF vars, flow, SizeInv
  <2>2. SerialInv'
    BY <1>0, <1>21 DEF vars, flow, entity, SerialInv, InFlight, Fresh, Sms, Cost, DirtyColumns, Total
  <2>3. UNCHANGED Account!vars
    BY <1>21, StutterStep DEF vars, flow, Posted, Amount, Cost
  <2>4. QED
    BY <2>1, <2>2, <2>3 DEF StepOK
<1>22. QED
  BY <1>1, <1>2, <1>3, <1>4, <1>5, <1>6, <1>7, <1>8, <1>9, <1>10, <1>11, <1>12, <1>13, <1>14, <1>15, <1>16, <1>17, <1>18, <1>19, <1>20, <1>21 DEF Next

LEMMA SerialNext == Inv /\ ~Overlap /\ [Next]_vars => Inv' /\ [Account!Next]_(Account!vars)
  BY NextTypeOK, NextFlow, SerialStep DEF Inv, StepOK

-----------------------------------------------------------------------------
(***************************************************************************)
(* No send overdraws the account, wherever requests stop, as long as no    *)
(* two requests of the user are served at once.                            *)
(***************************************************************************)
THEOREM SerialNeverOverdrawn ==
    ASSUME ~Overlap
    PROVE  Spec => []NeverOverdrawn
<1>1. Inv /\ [Next]_vars => Inv'
  BY SerialNext
<1>2. Inv => NeverOverdrawn
  BY DEF Inv, SerialInv, NeverOverdrawn, Total
<1>3. QED
  BY <1>1, <1>2, SerialInit, PTL DEF Spec

(***************************************************************************)
(* Then the balance is a ledger: each send and each payment is posted at   *)
(* most once and in full, and nothing else moves the balance.              *)
(***************************************************************************)
THEOREM SerialImplementsLedger ==
    ASSUME ~Overlap
    PROVE  Spec => ImplementsLedger
<1>1. Init => Account!Init
  BY DEF Init, Account!Init, Posted, Kinds, SendKinds, SmsKinds
<1>2. Inv /\ [Next]_vars => Inv' /\ [Account!Next]_(Account!vars)
  BY SerialNext
<1>3. QED
  BY <1>1, <1>2, SerialInit, PTL DEF Spec, ImplementsLedger, Account!Spec
=============================================================================
