--------------------------- MODULE Settlement_proofs ---------------------------
(***************************************************************************)
(* Proofs about Settlement, for any messages, groups and numbers of        *)
(* receivers and any number of crashes.                                    *)
(***************************************************************************)
EXTENDS Settlement, FiniteSetTheorems, TLAPS

\* Every action of the module, for the proofs that look at one action at a time.
LEMMA NextActions ==
    ASSUME [Next]_vars
    PROVE  \/ \E m \in Messages :
                 Age(m) \/ Deliver(m) \/ PollRead(m) \/ PollSkip(m) \/ WinnerPost(m) \/ WinnerLoad(m)
           \/ PollStart \/ PollSave \/ WinnerSave \/ Crash \/ UNCHANGED vars
           \/ \E p \in Pages : PageSave(p) \/ \E m \in Messages : PageRead(p, m)
           \/ \E t \in Ticks : RefundStart(t) \/ RefundUser(t) \/ RefundResult(t) \/ RefundPayment(t)
           \/ \E x \in txs : TxUser(x) \/ TxCommit(x)
  BY DEF Next, TxStep

LEMMA PaymentsForPaid ==
    ASSUME NEW m \in Messages
    PROVE  PaymentsFor(m) \subseteq Paid
  BY DEF PaymentsFor

LEMMA SettlementInit == Init => TypeOK
  BY MessagesAssumption, FlagsAssumption DEF Init, TypeOK, Result, Run

LEMMA SettlementNext == TypeOK /\ [Next]_vars => TypeOK'
<1> SUFFICES ASSUME TypeOK, [Next]_vars PROVE TypeOK'
  OBVIOUS
<1> USE DEF TypeOK, rows, ncp, past
<1>1. ASSUME NEW m \in Messages, Age(m) PROVE TypeOK'
  BY <1>1 DEF Age
<1>2. ASSUME NEW m \in Messages, Deliver(m) PROVE TypeOK'
  BY <1>2 DEF Deliver
<1>0. \A m \in Messages : NcpResult(m) \in Result
  BY MessagesAssumption DEF NcpResult, Reserved, Result
<1>3. ASSUME NEW m \in Messages, PollRead(m) \/ PollSkip(m) PROVE TypeOK'
  <2>1. NcpResult(m) \in Result
    BY <1>0
  <2>2. poll # None => poll.todo \subseteq Messages
    BY DEF Poll
  <2>3. CASE PollRead(m)
    BY <2>1, <2>2, <2>3 DEF PollRead, Poll
  <2>4. CASE PollSkip(m)
    BY <2>2, <2>4 DEF PollSkip, PollOnward, Poll
  <2>5. QED
    BY <1>3, <2>3, <2>4
<1>4. ASSUME PollStart \/ PollSave PROVE TypeOK'
  BY <1>4 DEF PollStart, PollSave, PollOnward, Poll
<1>5. ASSUME NEW m \in Messages, WinnerPost(m) \/ WinnerLoad(m) PROVE TypeOK'
  <2>1. CASE WinnerPost(m)
    BY <2>1 DEF WinnerPost
  <2>2. CASE WinnerLoad(m)
    <3> DEFINE b == m \in checked
    <3>1. b \in BOOLEAN
      OBVIOUS
    <3>2. [msg |-> m, checked |-> b] \in [msg : Messages, checked : BOOLEAN]
      <4> HIDE DEF b
      <4> QED
        BY <3>1, Zenon
    <3>3. QED
      BY <2>2, <3>2 DEF WinnerLoad
  <2>3. QED
    BY <1>5, <2>1, <2>2
<1>16. ASSUME NEW p \in Pages, NEW m \in Messages, PageRead(p, m) PROVE TypeOK'
  <2>1. page' \in [Pages -> {None} \cup [msg : Messages, result : Result]]
    BY <1>0, <1>16 DEF PageRead
  <2>2. QED
    BY <1>16, <2>1 DEF PageRead
<1>17. ASSUME NEW p \in Pages, PageSave(p) PROVE TypeOK'
  BY <1>17 DEF PageSave
<1>6. ASSUME WinnerSave PROVE TypeOK'
  BY <1>6 DEF WinnerSave
<1>7. ASSUME NEW t \in Ticks, RefundStart(t) PROVE TypeOK'
  BY <1>7 DEF RefundStart, Run
<1>8. ASSUME NEW t \in Ticks, RefundUser(t) PROVE TypeOK'
  <2>1. tick[t] \in Run
    BY <1>8 DEF RefundUser, Running
  <2>2. QED
    BY <1>8, <2>1 DEF RefundUser, Run
<1>9. ASSUME NEW t \in Ticks, RefundResult(t) PROVE TypeOK'
  <2>1. tick[t] \in Run
    BY <1>9 DEF RefundResult, Running
  <2>2. QED
    BY <1>9, <2>1 DEF RefundResult, Run, Result, Onward
<1>10. ASSUME NEW t \in Ticks, RefundPayment(t) PROVE TypeOK'
  <2> DEFINE run == tick[t]
  <2>1. /\ run.msg \in Messages /\ run.point \in Nat /\ run.fail \in Nat
        /\ run.todo \subseteq Messages /\ run.sent \subseteq Messages
    BY <1>10 DEF RefundPayment, Running, Run
  <2>2. Onward(run) \in {None} \cup Run
    BY <2>1 DEF Onward, Run
  <2>3. txs' \subseteq Tx /\ announced' \in [Messages -> Nat]
    <3>1. CASE UNCHANGED <<announced, txs>>
      BY <3>1
    <3>2. CASE ~UNCHANGED <<announced, txs>>
      <4>1. PICK g \in PaymentsFor(run.msg) :
              /\ announced' = [announced EXCEPT ![run.msg] = run.fail * Price]
              /\ txs' = txs \cup {[msg |-> run.msg, sent |-> run.msg \in run.sent,
                                   point |-> Credited(run.point, run.fail),
                                   group |-> g, refund |-> Credited(refund[g], run.fail),
                                   begun |-> FALSE, dirty |-> FALSE]}
        BY <1>10, <3>2 DEF RefundPayment
      <4> DEFINE p == Credited(run.point, run.fail)
                 f == Credited(refund[g], run.fail)
                 b == run.msg \in run.sent
                 x == [msg |-> run.msg, sent |-> b, point |-> p, group |-> g, refund |-> f,
                       begun |-> FALSE, dirty |-> FALSE]
      <4>2. g \in Paid
        BY <2>1, PaymentsForPaid
      <4>3. p \in Nat /\ f \in Nat
        BY <2>1, <4>2 DEF Price, Credited
      <4>4. b \in BOOLEAN /\ run.msg \in Messages
        BY <2>1
      <4>5. x \in Tx
        <5> HIDE DEF p, f, b, run
        <5> QED
          BY <4>2, <4>3, <4>4, Zenon DEF Tx
      <4>6. announced' \in [Messages -> Nat]
        BY <2>1, <4>1 DEF Price
      <4>7. QED
        BY <4>1, <4>5, <4>6
    <3>3. QED
      BY <3>1, <3>2
  <2>4. QED
    BY <1>10, <2>2, <2>3 DEF RefundPayment
<1>11. ASSUME NEW x \in txs, TxUser(x) PROVE TypeOK'
  BY <1>11 DEF TxUser, Tx
<1>12. ASSUME NEW x \in txs, TxCommit(x) PROVE TypeOK'
  BY <1>12 DEF TxCommit, Tx
<1>13. ASSUME Crash PROVE TypeOK'
  BY <1>13, FlagsAssumption DEF Crash
<1>14. CASE UNCHANGED vars
  BY <1>14 DEF vars
<1>15. QED
  BY <1>1, <1>2, <1>3, <1>4, <1>5, <1>6, <1>7, <1>8, <1>9, <1>10, <1>11, <1>12, <1>13,
     <1>14, <1>16, <1>17, NextActions

(***************************************************************************)
(* The rows and what the jobs hold in memory keep their types.             *)
(***************************************************************************)
THEOREM SettlementTypes == Spec => []TypeOK
<1>1. QED
  BY SettlementInit, SettlementNext, PTL DEF Spec

-----------------------------------------------------------------------------
(***************************************************************************)
(* The inductive invariant behind SettledOnce: what a run still has on its *)
(* list is neither checked nor in a transaction, the A/B job never saves a *)
(* row as checked that is not, and a row that is not checked was taken     *)
(* back as often as it was settled.                                        *)
(***************************************************************************)
Handles(t) == tick[t].at \in {"result", "payment"}

RunInv(t) ==
    Running(t) =>
        /\ \A m \in tick[t].todo : m \notin checked /\ \A x \in txs : x.msg # m
        /\ Handles(t) =>
              /\ tick[t].msg \notin tick[t].todo
              /\ tick[t].msg \notin checked
              /\ \A x \in txs : x.msg # tick[t].msg

OneRun == \A t, u \in Ticks : Running(t) /\ Running(u) => t = u
WinnerInv == winner # None /\ winner.checked => winner.msg \in checked

Counted == \A m \in Messages : m \notin checked => settled[m] <= retaken[m]

SettleInv == SettledOnce /\ OneRun /\ WinnerInv /\ Counted /\ \A t \in Ticks : RunInv(t)

LEMMA SettleInit == Init => SettleInv
  BY DEF Init, SettleInv, SettledOnce, OneRun, WinnerInv, Counted, RunInv, Running

LEMMA SettleNext == TypeOK /\ SettleInv /\ ~Overlap /\ [Next]_vars => SettleInv'
<1> SUFFICES ASSUME TypeOK, SettleInv, ~Overlap, [Next]_vars PROVE SettleInv'
  OBVIOUS
<1> USE DEF SettleInv, rows, ncp, past
\* The jobs that leave isMoneyCheck, the runs and the transactions alone.
<1>1. ASSUME NEW m \in Messages, Age(m) \/ Deliver(m) \/ PollRead(m) \/ PollSkip(m) \/ WinnerPost(m)
      PROVE  SettleInv'
  BY <1>1 DEF Age, Deliver, PollRead, PollSkip, WinnerPost, SettledOnce, OneRun, WinnerInv, Counted, RunInv, Running, Handles
<1>2. ASSUME PollStart \/ PollSave PROVE SettleInv'
  BY <1>2 DEF PollStart, PollSave, SettledOnce, OneRun, WinnerInv, Counted, RunInv, Running, Handles
<1>14. ASSUME NEW p \in Pages, PageSave(p) \/ \E m \in Messages : PageRead(p, m) PROVE SettleInv'
  BY <1>14 DEF PageSave, PageRead, SettledOnce, OneRun, WinnerInv, Counted, RunInv, Running, Handles
<1>3. ASSUME NEW m \in Messages, WinnerLoad(m) PROVE SettleInv'
  BY <1>3 DEF WinnerLoad, SettledOnce, OneRun, WinnerInv, Counted, RunInv, Running, Handles
\* The A/B job may take the mark away; it sets no new one.
<1>4. ASSUME WinnerSave PROVE SettleInv'
  <2>1. checked' \subseteq checked /\ UNCHANGED <<tick, txs>>
    BY <1>4 DEF WinnerSave, WinnerInv
  <2>2. OneRun' /\ \A t \in Ticks : RunInv(t)'
    BY <2>1 DEF OneRun, RunInv, Running, Handles
  <2>3. WinnerInv'
    BY <1>4 DEF WinnerSave, WinnerInv
  <2>4. \A m \in Messages : settled'[m] = settled[m] /\ settled[m] \in Nat /\ retaken[m] \in Nat
    BY <1>4 DEF WinnerSave, TypeOK
  <2>5. \A m \in Messages : retaken'[m] \in Nat /\ retaken[m] <= retaken'[m]
    BY <1>4, <2>4 DEF WinnerSave, TypeOK
  <2>6. \A m \in Messages : m \in checked /\ m \notin checked' => retaken'[m] = retaken[m] + 1
    BY <1>4 DEF WinnerSave, TypeOK
  <2>7. \A m \in Messages : settled[m] <= 1 + retaken[m]
    BY DEF SettledOnce
  <2>8. Counted'
    <3>1. SUFFICES ASSUME NEW m \in Messages PROVE m \notin checked' => settled'[m] <= retaken'[m]
      BY DEF Counted
    <3>2. CASE m \in checked
      BY <2>4, <2>5, <2>6, <2>7, <3>2
    <3>3. CASE m \notin checked
      BY <2>1, <2>4, <2>5, <3>3 DEF Counted
    <3>4. QED
      BY <3>2, <3>3
  <2>9. SettledOnce'
    <3>1. \A m \in Messages : settled'[m] <= 1 + retaken'[m]
      BY <2>4, <2>5, <2>7
    <3>2. QED
      BY <2>1, <3>1 DEF SettledOnce
  <2>10. QED
    BY <2>2, <2>3, <2>8, <2>9
\* A run that starts finds no other run and no transaction.
<1>5. ASSUME NEW t \in Ticks, RefundStart(t) PROVE SettleInv'
  <2>1. /\ txs = {} /\ \A u \in Ticks : ~Running(u)
        /\ tick' = [tick EXCEPT ![t] = [at |-> "next", todo |-> old \ checked, sent |-> sent]]
        /\ UNCHANGED <<checked, winner, txs, settled, retaken>>
    BY <1>5 DEF RefundStart
  <2>2. tick'[t] = [at |-> "next", todo |-> old \ checked, sent |-> sent]
    BY <2>1 DEF TypeOK
  <2>3. \A u \in Ticks \ {t} : ~Running(u)'
    BY <2>1 DEF TypeOK, Running
  <2>4. OneRun' /\ \A u \in Ticks : RunInv(u)'
    BY <2>1, <2>2, <2>3 DEF OneRun, RunInv, Handles
  <2>5. QED
    BY <2>1, <2>4 DEF SettledOnce, WinnerInv, Counted
<1>6. ASSUME NEW t \in Ticks, RefundUser(t) PROVE SettleInv'
  <2>1. PICK m \in tick[t].todo :
          tick' = [tick EXCEPT ![t] =
              [at |-> "result", todo |-> @.todo \ {m}, sent |-> @.sent, msg |-> m, point |-> point]]
    BY <1>6 DEF RefundUser
  <2>2. tick'[t] = [at |-> "result", todo |-> tick[t].todo \ {m}, sent |-> tick[t].sent,
                    msg |-> m, point |-> point]
    BY <2>1 DEF TypeOK
  <2>3. Running(t) /\ UNCHANGED <<checked, winner, txs, settled, retaken>> /\ \A u \in Ticks \ {t} : tick'[u] = tick[u]
    BY <1>6, <2>1 DEF RefundUser, TypeOK
  <2>4. RunInv(t)'
    BY <2>2, <2>3 DEF RunInv, Handles
  <2>5. OneRun' /\ \A u \in Ticks : RunInv(u)'
    BY <2>3, <2>4 DEF OneRun, RunInv, Running, Handles
  <2>6. QED
    BY <2>3, <2>5 DEF SettledOnce, WinnerInv, Counted
<1>7. ASSUME NEW t \in Ticks, RefundResult(t) PROVE SettleInv'
  <2>1. /\ Running(t) /\ Handles(t) /\ UNCHANGED <<checked, winner, txs, settled, retaken>>
        /\ \A u \in Ticks \ {t} : tick'[u] = tick[u]
    BY <1>7 DEF RefundResult, Handles, TypeOK
  <2>2. \/ tick'[t] = Onward(tick[t])
        \/ tick'[t] = [at |-> "payment", todo |-> tick[t].todo, sent |-> tick[t].sent, msg |-> tick[t].msg,
                       point |-> tick[t].point, fail |-> result[tick[t].msg].fail]
    BY <1>7 DEF RefundResult, TypeOK
  <2>3. RunInv(t)'
    BY <2>1, <2>2 DEF RunInv, Handles, Onward, Running
  <2>4. OneRun' /\ \A u \in Ticks : RunInv(u)'
    BY <2>1, <2>3 DEF OneRun, RunInv, Running, Handles
  <2>5. QED
    BY <2>1, <2>4 DEF SettledOnce, WinnerInv, Counted
\* The transaction that starts is the only one for its message.
<1>8. ASSUME NEW t \in Ticks, RefundPayment(t) PROVE SettleInv'
  <2>1. /\ Running(t) /\ Handles(t) /\ UNCHANGED <<checked, winner, settled, retaken>>
        /\ \A u \in Ticks \ {t} : tick'[u] = tick[u]
        /\ tick'[t] = Onward(tick[t])
    BY <1>8 DEF RefundPayment, Handles, TypeOK
  <2>2. \/ txs' = txs
        \/ \E y : txs' = txs \cup {y} /\ y.msg = tick[t].msg
    <3>1. \A p, g, f, b : [msg |-> tick[t].msg, sent |-> b, point |-> p, group |-> g, refund |-> f,
                           begun |-> FALSE, dirty |-> FALSE].msg = tick[t].msg
      OBVIOUS
    <3>2. QED
      BY <1>8, <3>1 DEF RefundPayment
  <2>3. SettledOnce'
    BY <2>1, <2>2 DEF SettledOnce, RunInv
  <2>4. RunInv(t)'
    BY <2>1, <2>2 DEF RunInv, Handles, Onward, Running
  <2>5. \A u \in Ticks \ {t} : ~Running(u)'
    BY <2>1 DEF OneRun, Running
  <2>6. OneRun' /\ \A u \in Ticks : RunInv(u)'
    BY <2>4, <2>5 DEF OneRun, RunInv
  <2>7. QED
    BY <2>1, <2>3, <2>6 DEF WinnerInv, Counted
<1>9. ASSUME NEW x \in txs, TxUser(x) PROVE SettleInv'
  <2> DEFINE y == [x EXCEPT !.begun = TRUE, !.dirty = x.point # point]
  <2>0. txs' = (txs \ {x}) \cup {y}
    BY <1>9 DEF TxUser
  <2>1. y.msg = x.msg
    <3> DEFINE d == x.point # point
    <3>1. x \in Tx
      BY DEF TypeOK
    <3>2. [x EXCEPT !.begun = TRUE, !.dirty = d].msg = x.msg
      <4> HIDE DEF d
      <4> QED
        BY <3>1 DEF Tx
    <3>3. QED
      BY <3>2
  <2> HIDE DEF y
  <2>2. UNCHANGED <<checked, winner, tick, settled, retaken>>
    BY <1>9 DEF TxUser
  <2>3. SettledOnce'
    BY <2>0, <2>1, <2>2 DEF SettledOnce
  <2>4. OneRun' /\ WinnerInv' /\ Counted' /\ \A t \in Ticks : RunInv(t)'
    BY <2>0, <2>1, <2>2 DEF OneRun, WinnerInv, Counted, RunInv, Running, Handles
  <2>5. QED
    BY <2>3, <2>4
<1>10. ASSUME NEW x \in txs, TxCommit(x) PROVE SettleInv'
  <2>1. /\ checked' = checked \cup {x.msg} /\ txs' = txs \ {x}
        /\ UNCHANGED <<winner, tick, retaken>>
    BY <1>10 DEF TxCommit
  <2>2. \A m \in Messages : settled'[m] = IF m = x.msg THEN settled[m] + 1 ELSE settled[m]
    BY <1>10 DEF TxCommit, TypeOK
  <2>3. \A m \in Messages : settled[m] \in Nat /\ retaken[m] \in Nat
    BY DEF TypeOK
  <2>4. x.msg \notin checked
    BY DEF SettledOnce
  <2>5. \A m \in Messages : settled'[m] <= 1 + retaken[m]
    <3>1. TAKE m \in Messages
    <3>2. CASE m = x.msg
      BY <2>2, <2>3, <2>4, <3>2 DEF Counted
    <3>3. CASE m # x.msg
      BY <2>2, <3>3 DEF SettledOnce
    <3>4. QED
      BY <3>2, <3>3
  <2>6. SettledOnce'
    BY <2>1, <2>5 DEF SettledOnce
  <2>7. Counted'
    BY <2>1, <2>2 DEF Counted
  <2>8. OneRun' /\ WinnerInv' /\ \A t \in Ticks : RunInv(t)'
    BY <2>1 DEF OneRun, WinnerInv, RunInv, Running, Handles
  <2>9. QED
    BY <2>6, <2>7, <2>8
<1>11. ASSUME Crash PROVE SettleInv'
  BY <1>11 DEF Crash, SettledOnce, OneRun, WinnerInv, Counted, RunInv, Running
<1>12. CASE UNCHANGED vars
  BY <1>12 DEF vars, SettledOnce, OneRun, WinnerInv, Counted, RunInv, Running, Handles
<1>13. QED
  BY <1>1, <1>2, <1>3, <1>4, <1>5, <1>6, <1>7, <1>8, <1>9, <1>10, <1>11, <1>12, <1>14, NextActions

(***************************************************************************)
(* As long as a run of the refund job starts only when the last one has    *)
(* ended with its transactions, a message is refunded once, and once more  *)
(* for each time the A/B job saved its row over isMoneyCheck, wherever the *)
(* process dies.                                                           *)
(***************************************************************************)
THEOREM SettlementIsSingle ==
    ASSUME ~Overlap
    PROVE  Spec => []SettledOnce
<1>1. Init => TypeOK /\ SettleInv
  BY SettlementInit, SettleInit
<1>2. TypeOK /\ SettleInv /\ [Next]_vars => (TypeOK /\ SettleInv)'
  BY SettlementNext, SettleNext
<1>3. SettleInv => SettledOnce
  BY DEF SettleInv
<1>4. QED
  BY <1>1, <1>2, <1>3, PTL DEF Spec

-----------------------------------------------------------------------------
(* Counting those who got nothing.                                         *)

Tokens(out, S) == UNION {{m} \X (1..out[m].fail) : m \in S}

Outcomes == [Messages -> [success : Nat, fail : Nat]]

LEMMA OfOne ==
    ASSUME NEW m, NEW k \in Nat
    PROVE  IsFiniteSet({m} \X (1..k)) /\ Cardinality({m} \X (1..k)) = k
<1> DEFINE one == {m}
           upto == 1..k
<1>1. IsFiniteSet(one) /\ Cardinality(one) = 1
  BY FS_Singleton
<1>2. IsFiniteSet(upto) /\ Cardinality(upto) = k
  BY FS_Interval
<1> HIDE DEF one, upto
<1>3. IsFiniteSet(one \X upto) /\ Cardinality(one \X upto) = 1 * k
  BY <1>1, <1>2, FS_Product
<1>4. QED
  BY <1>3 DEF one, upto

\* One more message is counted.
LEMMA OneMore ==
    ASSUME NEW out \in Outcomes, NEW S \in SUBSET Messages, NEW m \in Messages, m \notin S,
           IsFiniteSet(Tokens(out, S))
    PROVE  /\ IsFiniteSet(Tokens(out, S \cup {m}))
           /\ Cardinality(Tokens(out, S \cup {m})) = Cardinality(Tokens(out, S)) + out[m].fail
<1> DEFINE k == out[m].fail
           one == {m} \X (1..k)
<1>1. k \in Nat
  BY DEF Outcomes
<1>2. Tokens(out, S \cup {m}) = Tokens(out, S) \cup one
  BY DEF Tokens
<1>3. Tokens(out, S) \cap one = {}
  BY DEF Tokens
<1> HIDE DEF k
<1>4. IsFiniteSet(one) /\ Cardinality(one) = k
  BY <1>1, OfOne
<1> HIDE DEF one
<1>5. /\ IsFiniteSet(Tokens(out, S) \cup one)
      /\ Cardinality(Tokens(out, S) \cup one) = Cardinality(Tokens(out, S)) + k - Cardinality({})
  BY <1>3, <1>4, FS_Union
<1>6. Cardinality({}) = 0 /\ Cardinality(Tokens(out, S)) \in Nat
  BY FS_EmptySet, FS_CardinalityType
<1> DEFINE before == Cardinality(Tokens(out, S))
           after == Cardinality(Tokens(out, S) \cup one)
<1>7. before \in Nat /\ after = before + k - 0
  BY <1>5, <1>6
<1> HIDE DEF before, after
<1>8. after = before + k
  BY <1>1, <1>7
<1>9. QED
  BY <1>2, <1>5, <1>8 DEF k, before, after

\* Fewer messages have no more failures, and failures do not go away.
LEMMA NoFewer ==
    ASSUME NEW out \in Outcomes, NEW now \in Outcomes, \A m \in Messages : out[m].fail <= now[m].fail,
           NEW S \in SUBSET Messages, NEW U \in SUBSET Messages, S \subseteq U, IsFiniteSet(Tokens(now, U))
    PROVE  /\ IsFiniteSet(Tokens(out, S)) /\ IsFiniteSet(Tokens(now, U))
           /\ Cardinality(Tokens(out, S)) \in Nat /\ Cardinality(Tokens(now, U)) \in Nat
           /\ Cardinality(Tokens(out, S)) <= Cardinality(Tokens(now, U))
<1>1. \A m \in S : out[m].fail \in Nat /\ now[m].fail \in Nat /\ out[m].fail <= now[m].fail
  BY DEF Outcomes
<1>2. Tokens(out, S) \subseteq Tokens(now, U)
  <2>1. ASSUME NEW m \in S, NEW p \in {m} \X (1..out[m].fail) PROVE p \in {m} \X (1..now[m].fail)
    BY <1>1, <2>1
  <2>2. QED
    BY <2>1 DEF Tokens
<1>3. QED
  BY <1>2, FS_Subset, FS_CardinalityType

\* A message that is delivered changes its own part.
LEMMA StillFinite ==
    ASSUME NEW out \in Outcomes, NEW now \in Outcomes, NEW d \in Messages,
           \A m \in Messages \ {d} : now[m].fail = out[m].fail,
           NEW S \in SUBSET Messages, IsFiniteSet(Tokens(out, S))
    PROVE  IsFiniteSet(Tokens(now, S))
<1> DEFINE k == now[d].fail
           one == {d} \X (1..k)
<1>1. k \in Nat
  BY DEF Outcomes
<1>2. Tokens(now, S) \subseteq Tokens(out, S) \cup one
  BY DEF Tokens
<1> HIDE DEF k
<1>3. IsFiniteSet(one)
  BY <1>1, OfOne
<1> HIDE DEF one
<1>4. IsFiniteSet(Tokens(out, S) \cup one)
  BY <1>3, FS_Union
<1>5. QED
  BY <1>2, <1>4, FS_Subset

FailIn(out, S) == Cardinality(Tokens(out, S))

Grows(out, now) == \A m \in Messages : out[m].fail <= now[m].fail

\* What was covered by the failures of S is covered by those of more messages later.
LEMMA Bounds ==
    ASSUME NEW out \in Outcomes, NEW now \in Outcomes, Grows(out, now),
           NEW S \in SUBSET Messages, NEW U \in SUBSET Messages, S \subseteq U,
           IsFiniteSet(Tokens(now, U)), NEW p \in Nat, NEW m \in Messages
    PROVE  /\ p <= Price * FailIn(out, S) => p <= Price * FailIn(now, U)
           /\ p <= Price * (FailIn(out, S) + out[m].fail) => p <= Price * (FailIn(now, U) + now[m].fail)
<1> DEFINE a == FailIn(out, S)
           b == FailIn(now, U)
           c == out[m].fail
           d == now[m].fail
<1>1. a \in Nat /\ b \in Nat /\ a <= b
  BY NoFewer DEF FailIn, Grows
<1>2. c \in Nat /\ d \in Nat /\ c <= d
  BY DEF Outcomes, Grows
<1> HIDE DEF a, b, c, d
<1>3. /\ p <= 3 * a => p <= 3 * b
      /\ p <= 3 * (a + c) => p <= 3 * (b + d)
  BY <1>1, <1>2
<1>4. QED
  BY <1>3 DEF a, b, c, d, Price

-----------------------------------------------------------------------------
(***************************************************************************)
(* What the jobs know of failures has happened, and no more failures are   *)
(* paid for than there are.                                                *)
(***************************************************************************)
Known ==
    /\ \A m \in Messages : result[m] # None => result[m].fail <= outcome[m].fail
    /\ (poll # None /\ poll.at = "save") => poll.result.fail <= outcome[poll.msg].fail
    /\ \A p \in Pages : page[p] # None => page[p].result.fail <= outcome[page[p].msg].fail
    /\ \A t \in Ticks : (Running(t) /\ tick[t].at = "payment") =>
          tick[t].fail <= outcome[tick[t].msg].fail

LEMMA KnownInit == Init => Known
  BY DEF Init, Known, Running

LEMMA OutcomeGrows ==
    ASSUME TypeOK, [Next]_vars
    PROVE  outcome \in Outcomes /\ Grows(outcome, outcome')
<1> USE DEF rows, ncp, past
<1>1. outcome \in Outcomes /\ Grows(outcome, outcome)
  BY DEF TypeOK, Outcomes, Grows
<1>2. ASSUME NEW m \in Messages, Deliver(m) PROVE Grows(outcome, outcome')
  BY <1>1, <1>2 DEF Deliver, Outcomes, Grows
<1>3. ASSUME ~\E m \in Messages : Deliver(m) PROVE outcome' = outcome
  BY <1>3, NextActions DEF Age, PollRead, PollSkip, WinnerPost, WinnerLoad, PollStart, PollSave,
     PageRead, PageSave, WinnerSave, Crash, vars, RefundStart, RefundUser, RefundResult, RefundPayment, TxUser, TxCommit
<1>4. QED
  BY <1>1, <1>2, <1>3

LEMMA KnownNext == TypeOK /\ TypeOK' /\ Known /\ [Next]_vars => Known'
<1> SUFFICES ASSUME TypeOK, TypeOK', Known, [Next]_vars PROVE Known'
  OBVIOUS
<1> USE DEF rows, ncp, past
<1>1. /\ outcome \in Outcomes /\ outcome' \in Outcomes
      /\ \A m \in Messages : outcome[m].fail \in Nat /\ outcome'[m].fail \in Nat
                             /\ outcome[m].fail <= outcome'[m].fail
  BY OutcomeGrows DEF TypeOK, Outcomes, Grows
<1>2. /\ \A m \in Messages : result[m] # None => result[m].fail \in Nat
      /\ (poll # None /\ poll.at = "save") => poll.msg \in Messages /\ poll.result.fail \in Nat
      /\ \A p \in Pages : page[p] # None => page[p].msg \in Messages /\ page[p].result.fail \in Nat
      /\ \A t \in Ticks : Running(t) /\ Handles(t) => tick[t].msg \in Messages
      /\ \A t \in Ticks : (Running(t) /\ tick[t].at = "payment") => tick[t].fail \in Nat
  BY DEF TypeOK, Result, Poll, Run, Running, Handles
<1>3. ASSUME UNCHANGED <<result, poll, page, tick>> PROVE Known'
  BY <1>1, <1>2, <1>3 DEF Known, Running, Handles
<1>4. ASSUME NEW m \in Messages, PollRead(m) \/ PollSkip(m) PROVE Known'
  <2>1. NcpResult(m).fail <= outcome[m].fail
    BY <1>1 DEF NcpResult
  <2>2. (poll' # None /\ poll'.at = "save") => poll'.msg = m /\ poll'.result = NcpResult(m)
    BY <1>4 DEF PollRead, PollSkip, PollOnward
  <2>3. UNCHANGED <<outcome, result, page, tick>>
    BY <1>4 DEF PollRead, PollSkip
  <2>4. QED
    BY <1>1, <2>1, <2>2, <2>3 DEF Known, Running
<1>5. ASSUME PollStart \/ Crash PROVE Known'
  BY <1>5 DEF PollStart, Crash, Known, Running
<1>6. ASSUME PollSave PROVE Known'
  <2>1. /\ result' = [result EXCEPT ![poll.msg] = poll.result] /\ poll.at = "save" /\ poll # None
        /\ ~(poll' # None /\ poll'.at = "save") /\ UNCHANGED <<outcome, page, tick>>
    BY <1>6 DEF PollSave, PollOnward
  <2>2. \A m \in Messages : result'[m] = IF m = poll.msg THEN poll.result ELSE result[m]
    BY <2>1 DEF TypeOK
  <2>3. QED
    BY <1>1, <1>2, <2>1, <2>2 DEF Known, Running
<1>7. ASSUME NEW t \in Ticks, RefundStart(t) \/ RefundUser(t) \/ RefundPayment(t) PROVE Known'
  <2>1. /\ UNCHANGED <<outcome, result, poll, page>> /\ \A u \in Ticks \ {t} : tick'[u] = tick[u]
    BY <1>7 DEF RefundStart, RefundUser, RefundPayment, TypeOK
  <2>2. ~(Running(t)' /\ tick'[t].at = "payment")
    BY <1>7 DEF RefundStart, RefundUser, RefundPayment, TypeOK, Onward, Running
  <2>3. QED
    BY <2>1, <2>2 DEF Known, Running
<1>8. ASSUME NEW t \in Ticks, RefundResult(t) PROVE Known'
  <2>1. /\ UNCHANGED <<outcome, result, poll, page>> /\ \A u \in Ticks \ {t} : tick'[u] = tick[u]
        /\ Running(t) /\ Handles(t)
    BY <1>8 DEF RefundResult, TypeOK, Handles
  <2>2. \/ ~(Running(t)' /\ tick'[t].at = "payment")
        \/ tick'[t].msg = tick[t].msg /\ tick'[t].fail = result[tick[t].msg].fail /\ result[tick[t].msg] # None
    BY <1>8 DEF RefundResult, TypeOK, Onward, Running
  <2>3. QED
    BY <1>2, <2>1, <2>2 DEF Known, Running
<1>10. ASSUME NEW p \in Pages, NEW m \in Messages, PageRead(p, m) PROVE Known'
  <2>1. NcpResult(m).fail <= outcome[m].fail
    BY <1>1 DEF NcpResult
  <2>2. /\ UNCHANGED <<outcome, result, poll, tick>>
        /\ \A q \in Pages \ {p} : page'[q] = page[q]
        /\ page'[p] = [msg |-> m, result |-> NcpResult(m)]
    BY <1>10 DEF PageRead, TypeOK
  <2>3. QED
    BY <2>1, <2>2 DEF Known, Running
<1>11. ASSUME NEW p \in Pages, PageSave(p) PROVE Known'
  <2>1. /\ page[p] # None /\ UNCHANGED <<outcome, poll, tick>>
        /\ \A q \in Pages \ {p} : page'[q] = page[q]
        /\ page'[p] = None
    BY <1>11 DEF PageSave, TypeOK
  <2>2. \A m \in Messages : result'[m] = IF m = page[p].msg THEN page[p].result ELSE result[m]
    BY <1>11 DEF PageSave, TypeOK
  <2>3. QED
    BY <2>1, <2>2 DEF Known, Running
<1>9. QED
  BY <1>3, <1>4, <1>5, <1>6, <1>7, <1>8, <1>10, <1>11, NextActions DEF Age, Deliver, WinnerPost, WinnerLoad,
     WinnerSave, vars, TxUser, TxCommit

\* Messages stay settled as long as no mark is taken back, and those of them
\* that failed can be counted.
LEMMA Progress ==
    ASSUME TypeOK, TypeOK', SettleInv, [Next]_vars, IsFiniteSet(Tokens(outcome, checked))
    PROVE  /\ outcome \in Outcomes /\ outcome' \in Outcomes /\ Grows(outcome, outcome')
           /\ checked \in SUBSET Messages /\ checked' \in SUBSET Messages
           /\ NoneRetaken' => NoneRetaken /\ checked \subseteq checked'
           /\ IsFiniteSet(Tokens(outcome', checked'))
<1> USE DEF rows, ncp, past
<1> DEFINE Forward == NoneRetaken' => NoneRetaken /\ checked \subseteq checked'
<1>1. /\ outcome \in Outcomes /\ outcome' \in Outcomes /\ Grows(outcome, outcome')
      /\ checked \in SUBSET Messages /\ checked' \in SUBSET Messages
  BY OutcomeGrows DEF TypeOK, Outcomes
<1>2. ASSUME NEW m \in Messages, Deliver(m)
      PROVE  Forward /\ IsFiniteSet(Tokens(outcome', checked'))
  <2>1. /\ checked' = checked /\ retaken' = retaken
        /\ \A d \in Messages \ {m} : outcome'[d].fail = outcome[d].fail
    BY <1>2 DEF Deliver, TypeOK
  <2>2. IsFiniteSet(Tokens(outcome', checked))
    BY <1>1, <2>1, StillFinite
  <2>3. QED
    BY <2>1, <2>2 DEF NoneRetaken
<1>3. ASSUME NEW x \in txs, TxCommit(x)
      PROVE  Forward /\ IsFiniteSet(Tokens(outcome', checked'))
  <2>1. /\ checked' = checked \cup {x.msg} /\ outcome' = outcome /\ x.msg \in Messages
        /\ x.msg \notin checked /\ retaken' = retaken
    BY <1>3 DEF TxCommit, SettleInv, SettledOnce, TypeOK, Tx
  <2>2. IsFiniteSet(Tokens(outcome, checked \cup {x.msg}))
    BY <1>1, <2>1, OneMore
  <2>3. QED
    BY <2>1, <2>2 DEF NoneRetaken
<1>4. ASSUME WinnerSave
      PROVE  Forward /\ IsFiniteSet(Tokens(outcome', checked'))
  <2>1. checked' \subseteq checked /\ outcome' = outcome
    BY <1>4 DEF WinnerSave, SettleInv, WinnerInv
  <2>2. Tokens(outcome, checked') \subseteq Tokens(outcome, checked)
    BY <2>1 DEF Tokens
  <2>3. IsFiniteSet(Tokens(outcome', checked'))
    BY <2>1, <2>2, FS_Subset
  <2>4. CASE ~winner.checked /\ winner.msg \in checked
    <3>1. winner.msg \in Messages
      BY <1>4 DEF WinnerSave, TypeOK
    <3>2. retaken[winner.msg] \in Nat /\ retaken'[winner.msg] = retaken[winner.msg] + 1
      BY <1>4, <2>4, <3>1 DEF WinnerSave, TypeOK
    <3>3. ~NoneRetaken'
      BY <3>1, <3>2 DEF NoneRetaken
    <3>4. QED
      BY <2>3, <3>3
  <2>5. CASE ~(~winner.checked /\ winner.msg \in checked)
    <3>1. retaken' = retaken /\ checked' = checked
      BY <1>4, <2>5 DEF WinnerSave, SettleInv, WinnerInv
    <3>2. QED
      BY <2>3, <3>1 DEF NoneRetaken
  <2>6. QED
    BY <2>4, <2>5
<1>5. ASSUME ~WinnerSave, ~(\E m \in Messages : Deliver(m)), ~(\E x \in txs : TxCommit(x))
      PROVE  checked' = checked /\ outcome' = outcome /\ retaken' = retaken
  BY <1>5, NextActions DEF Age, PollRead, PollSkip, WinnerPost, WinnerLoad, PollStart, PollSave,
     PageRead, PageSave, Crash, vars, RefundStart, RefundUser, RefundResult, RefundPayment, TxUser
<1>6. Forward /\ IsFiniteSet(Tokens(outcome', checked'))
  BY <1>2, <1>3, <1>4, <1>5 DEF NoneRetaken
<1>7. QED
  BY <1>1, <1>6

(***************************************************************************)
(* The points, the points a run has read and those a transaction is to     *)
(* write are covered by the failures of what is settled, and, for a        *)
(* transaction, of its own message.                                        *)
(***************************************************************************)
Within ==
    /\ point <= Price * FailIn(outcome, checked)
    /\ \A t \in Ticks : (Running(t) /\ Handles(t)) => tick[t].point <= Price * FailIn(outcome, checked)
    /\ \A x \in txs : x.point <= Price * (FailIn(outcome, checked) + outcome[x.msg].fail)

WithinInv == IsFiniteSet(Tokens(outcome, checked)) /\ (NoneRetaken => Within)

LEMMA NoneYet == \A out : IsFiniteSet(Tokens(out, {})) /\ FailIn(out, {}) = 0
<1>1. \A out : Tokens(out, {}) = {}
  BY DEF Tokens
<1>2. QED
  BY <1>1, FS_EmptySet DEF FailIn

LEMMA WithinInit == Init => WithinInv
<1> SUFFICES ASSUME Init PROVE WithinInv
  OBVIOUS
<1>1. checked = {} /\ point = 0 /\ txs = {} /\ \A t \in Ticks : ~Running(t)
  BY DEF Init, Running
<1>2. IsFiniteSet(Tokens(outcome, checked)) /\ FailIn(outcome, checked) = 0
  BY <1>1, NoneYet
<1>3. QED
  BY <1>1, <1>2 DEF WithinInv, Within, Price

LEMMA WithinNext ==
    ASSUME TypeOK, TypeOK', SettleInv, Known, WithinInv, [Next]_vars
    PROVE  WithinInv'
<1> USE DEF rows, ncp, past
<1>0. IsFiniteSet(Tokens(outcome', checked'))
  BY Progress DEF WithinInv
<1> SUFFICES ASSUME NoneRetaken' PROVE Within'
  BY <1>0 DEF WithinInv
<1>1. /\ outcome \in Outcomes /\ outcome' \in Outcomes /\ Grows(outcome, outcome')
      /\ checked \in SUBSET Messages /\ checked' \in SUBSET Messages
      /\ NoneRetaken /\ checked \subseteq checked'
      /\ IsFiniteSet(Tokens(outcome', checked'))
  BY Progress DEF WithinInv
<1> DEFINE f == FailIn(outcome, checked)
           g == FailIn(outcome', checked')
<1>2. \A p \in Nat : p <= Price * f => p <= Price * g
  <2>1. ASSUME NEW p \in Nat, NEW m \in Messages PROVE p <= Price * f => p <= Price * g
    BY <1>1, Bounds
  <2>2. ASSUME NEW p \in Nat, Messages = {} PROVE p <= Price * f => p <= Price * g
    <3>1. checked = {} /\ checked' = {}
      BY <1>1, <2>2
    <3>2. QED
      BY <3>1, NoneYet
  <2>3. QED
    BY <2>1, <2>2
<1>3. \A p \in Nat, m \in Messages :
         p <= Price * (f + outcome[m].fail) => p <= Price * (g + outcome'[m].fail)
  BY <1>1, Bounds
<1>4. /\ point \in Nat /\ \A t \in Ticks : (Running(t) /\ Handles(t)) => tick[t].point \in Nat
      /\ \A x \in txs : x.point \in Nat /\ x.msg \in Messages
  BY DEF TypeOK, Run, Tx, Running, Handles
<1>5. /\ point <= Price * f
      /\ \A t \in Ticks : (Running(t) /\ Handles(t)) => tick[t].point <= Price * f
      /\ \A x \in txs : x.point <= Price * (f + outcome[x.msg].fail)
  BY <1>1 DEF WithinInv, Within
<1>6. f \in Nat /\ \A m \in Messages : outcome[m].fail \in Nat
  BY <1>1, FS_CardinalityType DEF WithinInv, FailIn, Outcomes
<1> SUFFICES /\ point' <= Price * g
             /\ \A t \in Ticks : (Running(t)' /\ Handles(t)') => tick'[t].point <= Price * g
             /\ \A x \in txs' : x.point <= Price * (g + outcome'[x.msg].fail)
  BY DEF Within
<1> DEFINE Goal == /\ point' <= Price * g
                   /\ \A t \in Ticks : (Running(t)' /\ Handles(t)') => tick'[t].point <= Price * g
                   /\ \A x \in txs' : x.point <= Price * (g + outcome'[x.msg].fail)
<1>7. /\ point <= Price * g
      /\ \A t \in Ticks : (Running(t) /\ Handles(t)) => tick[t].point <= Price * g
      /\ \A x \in txs : x.point <= Price * (g + outcome'[x.msg].fail)
  BY <1>2, <1>3, <1>4, <1>5
<1> HIDE DEF g
<1>8. ASSUME UNCHANGED <<point, tick, txs>> PROVE Goal
  BY <1>7, <1>8 DEF Running, Handles
<1>9. ASSUME NEW t \in Ticks, RefundStart(t) \/ RefundUser(t) \/ RefundResult(t) PROVE Goal
  <2>1. UNCHANGED <<point, txs>> /\ \A u \in Ticks \ {t} : tick'[u] = tick[u]
    BY <1>9 DEF RefundStart, RefundUser, RefundResult, TypeOK
  <2>2. (Running(t)' /\ Handles(t)') =>
          tick'[t].point = point \/ (Running(t) /\ Handles(t) /\ tick'[t].point = tick[t].point)
    <3>1. CASE RefundStart(t)
      BY <3>1 DEF RefundStart, TypeOK, Running, Handles
    <3>2. CASE RefundUser(t)
      <4>1. PICK m \in tick[t].todo :
              tick' = [tick EXCEPT ![t] =
                  [at |-> "result", todo |-> @.todo \ {m}, sent |-> @.sent, msg |-> m, point |-> point]]
        BY <3>2 DEF RefundUser
      <4>2. tick'[t] = [at |-> "result", todo |-> tick[t].todo \ {m}, sent |-> tick[t].sent,
                        msg |-> m, point |-> point]
        BY <4>1 DEF TypeOK
      <4>3. QED
        BY <4>2
    <3>3. CASE RefundResult(t)
      BY <3>3 DEF RefundResult, TypeOK, Running, Handles, Onward
    <3>4. QED
      BY <1>9, <3>1, <3>2, <3>3
  <2>3. QED
    BY <1>7, <2>1, <2>2 DEF Running, Handles
<1>10. ASSUME NEW t \in Ticks, RefundPayment(t) PROVE Goal
  <2> DEFINE run == tick[t]
  <2>1. /\ Running(t) /\ Handles(t) /\ UNCHANGED <<point, checked, outcome>>
        /\ \A u \in Ticks \ {t} : tick'[u] = tick[u]
        /\ ~(Running(t)' /\ Handles(t)') /\ run.at = "payment"
    BY <1>10 DEF RefundPayment, Handles, TypeOK, Onward, Running
  <2>2. /\ run.point \in Nat /\ run.fail \in Nat /\ run.msg \in Messages
        /\ run.point <= Price * f /\ run.fail <= outcome[run.msg].fail
    BY <1>5, <2>1 DEF TypeOK, Run, Running, Handles, Known
  <2>3. Credited(run.point, run.fail) <= Price * (f + outcome[run.msg].fail)
    <3> DEFINE c == outcome[run.msg].fail
    <3>1. c \in Nat /\ f \in Nat
      BY <1>6, <2>2
    <3> HIDE DEF f, c
    <3>2. QED
      BY <2>2, <3>1 DEF Credited, Price, c
  <2>4. g = f
    BY <2>1 DEF g
  <2>5. \A x \in txs' : x \in txs \/ (x.msg = run.msg /\ x.point = Credited(run.point, run.fail))
    BY <1>10 DEF RefundPayment
  <2>6. \A x \in txs' : x.point <= Price * (g + outcome'[x.msg].fail)
    BY <1>7, <2>1, <2>3, <2>4, <2>5
  <2>7. QED
    BY <1>7, <2>1, <2>6 DEF Running, Handles
<1>11. ASSUME NEW x \in txs, TxUser(x) PROVE Goal
  <2> DEFINE d == x.point # point
             y == [x EXCEPT !.begun = TRUE, !.dirty = d]
  <2>1. txs' = (txs \ {x}) \cup {y} /\ UNCHANGED <<point, tick>>
    BY <1>11 DEF TxUser
  <2>2. x \in Tx
    BY DEF TypeOK
  <2> HIDE DEF d
  <2>3. y.msg = x.msg /\ y.point = x.point
    BY <2>2 DEF Tx
  <2> HIDE DEF y
  <2>4. QED
    BY <1>7, <2>1, <2>3 DEF Running, Handles
<1>12. ASSUME NEW x \in txs, TxCommit(x) PROVE Goal
  <2>1. /\ checked' = checked \cup {x.msg} /\ outcome' = outcome /\ x.msg \in Messages
        /\ x.msg \notin checked /\ txs' \subseteq txs /\ UNCHANGED tick
        /\ point' = point \/ point' = x.point
    BY <1>12 DEF TxCommit, SettleInv, SettledOnce, TypeOK, Tx
  <2>2. g = f + outcome[x.msg].fail
    BY <1>1, <2>1, OneMore DEF g, FailIn, WithinInv
  <2>3. point' <= Price * g
    BY <1>5, <1>7, <2>1, <2>2
  <2>4. QED
    BY <1>7, <2>1, <2>3 DEF Running, Handles
<1>13. ASSUME Crash PROVE Goal
  BY <1>7, <1>13 DEF Crash, Running
<1>14. Goal
  BY <1>8, <1>9, <1>10, <1>11, <1>12, <1>13, NextActions DEF Age, Deliver, PollRead, PollSkip,
     WinnerPost, WinnerLoad, PollStart, PollSave, PageRead, PageSave, WinnerSave, vars
<1>15. QED
  BY <1>14

(***************************************************************************)
(* The user gets back no more than the price of what failed among the      *)
(* messages settled, for any messages and failures: a run goes on with     *)
(* copies of the points that other transactions have overwritten, but an   *)
(* old copy is only ever smaller.  It needs runs that do not overlap:      *)
(* otherwise a message is refunded twice.                                  *)
(***************************************************************************)
THEOREM RefundsCovered ==
    ASSUME ~Overlap
    PROVE  Spec => []NoOverRefund
<1> DEFINE I == TypeOK /\ SettleInv /\ Known /\ WithinInv
<1>1. Init => I
  BY SettlementInit, SettleInit, KnownInit, WithinInit
<1>2. I /\ [Next]_vars => I'
  BY SettlementNext, SettleNext, KnownNext, WithinNext
<1>3. I => NoOverRefund
  BY DEF WithinInv, Within, NoOverRefund, FailedIn, FailedReceivers, FailIn, Tokens
<1> HIDE DEF I
<1>4. QED
  BY <1>1, <1>2, <1>3, PTL DEF Spec
-----------------------------------------------------------------------------
(***************************************************************************)
(* The same for each payment: a transaction adds the failures of its       *)
(* message to the payment of the message's own group, or to any payment if *)
(* the message has no group, and no two of them add the same.              *)
(***************************************************************************)
InGroup(S, g) == {m \in S : GroupOf[m] \in {g, NoGroup}}

Grouped ==
    /\ \A g \in Paid : refund[g] <= Price * FailIn(outcome, InGroup(checked, g))
    /\ \A x \in txs : x.refund <= Price * (FailIn(outcome, InGroup(checked, x.group)) + outcome[x.msg].fail)

GroupInv == (\A x \in txs : GroupOf[x.msg] \in {x.group, NoGroup}) /\ (NoneRetaken => Grouped)

LEMMA GroupInit == Init => GroupInv
<1> SUFFICES ASSUME Init, NEW g \in Paid PROVE refund[g] <= Price * FailIn(outcome, InGroup(checked, g))
  BY DEF Init, GroupInv, Grouped
<1>1. InGroup(checked, g) = {} /\ refund[g] = 0
  BY DEF Init, InGroup
<1>2. FailIn(outcome, InGroup(checked, g)) = 0
  BY <1>1, NoneYet
<1>3. QED
  BY <1>1, <1>2 DEF Price

\* What covered an amount of a group before a step covers it afterwards.
LEMMA GroupBounds ==
    ASSUME NEW out \in Outcomes, NEW now \in Outcomes, Grows(out, now),
           NEW S \in SUBSET Messages, NEW U \in SUBSET Messages, S \subseteq U,
           IsFiniteSet(Tokens(now, U)), NEW g, NEW p \in Nat, NEW m \in Messages
    PROVE  /\ p <= Price * FailIn(out, InGroup(S, g)) => p <= Price * FailIn(now, InGroup(U, g))
           /\ p <= Price * (FailIn(out, InGroup(S, g)) + out[m].fail)
                 => p <= Price * (FailIn(now, InGroup(U, g)) + now[m].fail)
<1> DEFINE s == InGroup(S, g)
           u == InGroup(U, g)
<1>1. s \in SUBSET Messages /\ u \in SUBSET Messages /\ s \subseteq u /\ u \subseteq U
  BY DEF InGroup
<1> HIDE DEF s, u
<1>2. \A d \in Messages : now[d].fail <= now[d].fail
  BY DEF Outcomes
<1>3. IsFiniteSet(Tokens(now, u))
  BY <1>1, <1>2, NoFewer
<1>4. /\ p <= Price * FailIn(out, s) => p <= Price * FailIn(now, u)
      /\ p <= Price * (FailIn(out, s) + out[m].fail) => p <= Price * (FailIn(now, u) + now[m].fail)
  BY <1>1, <1>3, Bounds
<1>5. QED
  BY <1>4 DEF s, u

\* The payment a transaction writes is its message's, or its message has no group.
LEMMA GroupKept ==
    ASSUME TypeOK, GroupInv, [Next]_vars
    PROVE  \A x \in txs' : GroupOf[x.msg] \in {x.group, NoGroup}
<1> USE DEF rows, ncp, past
<1>1. ASSUME txs' \subseteq txs PROVE \A x \in txs' : GroupOf[x.msg] \in {x.group, NoGroup}
  BY <1>1 DEF GroupInv
<1>2. ASSUME NEW t \in Ticks, RefundPayment(t)
      PROVE  \A x \in txs' : GroupOf[x.msg] \in {x.group, NoGroup}
  <2> DEFINE m == tick[t].msg
  <2>1. \A x \in txs' : x \in txs \/ \E g \in PaymentsFor(m) : x.msg = m /\ x.group = g
    BY <1>2 DEF RefundPayment
  <2>2. \A g \in PaymentsFor(m) : GroupOf[m] \in {g, NoGroup}
    BY DEF PaymentsFor
  <2>3. QED
    BY <2>1, <2>2 DEF GroupInv
<1>3. ASSUME NEW x \in txs, TxUser(x)
      PROVE  \A z \in txs' : GroupOf[z.msg] \in {z.group, NoGroup}
  <2> DEFINE d == x.point # point
             y == [x EXCEPT !.begun = TRUE, !.dirty = d]
  <2>1. txs' = (txs \ {x}) \cup {y}
    BY <1>3 DEF TxUser
  <2>2. x \in Tx
    BY DEF TypeOK
  <2> HIDE DEF d
  <2>3. y.msg = x.msg /\ y.group = x.group
    BY <2>2 DEF Tx
  <2> HIDE DEF y
  <2>4. QED
    BY <2>1, <2>3 DEF GroupInv
<1>4. QED
  BY <1>1, <1>2, <1>3, NextActions DEF Age, Deliver, PollRead, PollSkip, WinnerPost, WinnerLoad,
     PollStart, PollSave, PageRead, PageSave, WinnerSave, Crash, vars, RefundStart, RefundUser,
     RefundResult, TxCommit

LEMMA GroupNext ==
    ASSUME TypeOK, TypeOK', SettleInv, Known, WithinInv, GroupInv, [Next]_vars
    PROVE  GroupInv'
<1> USE DEF rows, ncp, past
<1>0. \A x \in txs' : GroupOf[x.msg] \in {x.group, NoGroup}
  BY GroupKept
<1> SUFFICES ASSUME NoneRetaken' PROVE Grouped'
  BY <1>0 DEF GroupInv
<1>1. /\ outcome \in Outcomes /\ outcome' \in Outcomes /\ Grows(outcome, outcome')
      /\ checked \in SUBSET Messages /\ checked' \in SUBSET Messages /\ NoneRetaken /\ checked \subseteq checked'
      /\ IsFiniteSet(Tokens(outcome', checked')) /\ IsFiniteSet(Tokens(outcome, checked))
  BY Progress DEF WithinInv
<1> DEFINE F(g) == FailIn(outcome, InGroup(checked, g))
           G(g) == FailIn(outcome', InGroup(checked', g))
<1>2. \A g \in Paid : F(g) \in Nat
  <2>1. \A d \in Messages : outcome[d].fail <= outcome[d].fail
    BY <1>1 DEF Outcomes
  <2>2. TAKE g \in Paid
  <2>3. InGroup(checked, g) \in SUBSET Messages /\ InGroup(checked, g) \subseteq checked
    BY <1>1 DEF InGroup
  <2>4. QED
    BY <1>1, <2>1, <2>3, NoFewer DEF FailIn
<1>3. /\ \A g \in Paid : refund[g] \in Nat
      /\ \A x \in txs : x.refund \in Nat /\ x.msg \in Messages /\ x.group \in Paid
  BY DEF TypeOK, Tx
<1>4. /\ \A g \in Paid : refund[g] <= Price * F(g)
      /\ \A x \in txs : x.refund <= Price * (F(x.group) + outcome[x.msg].fail)
  BY <1>1 DEF GroupInv, Grouped
<1>5. \A g \in Paid : refund[g] <= Price * G(g)
  <2>1. TAKE g \in Paid
  <2>2. CASE Messages = {}
    <3>1. checked = {} /\ checked' = {}
      BY <1>1, <2>2
    <3>2. InGroup(checked, g) = {} /\ InGroup(checked', g) = {}
      BY <3>1 DEF InGroup
    <3>3. F(g) = 0 /\ G(g) = 0
      BY <3>2, NoneYet
    <3>4. QED
      BY <1>4, <3>3
  <2>3. ASSUME NEW m \in Messages PROVE refund[g] <= Price * G(g)
    BY <1>1, <1>3, <1>4, GroupBounds
  <2>4. QED
    BY <2>2, <2>3
<1>6. \A x \in txs : x.refund <= Price * (G(x.group) + outcome'[x.msg].fail)
  <2>1. TAKE x \in txs
  <2>2. x.refund \in Nat /\ x.msg \in Messages /\ x.refund <= Price * (F(x.group) + outcome[x.msg].fail)
    BY <1>3, <1>4
  <2>3. QED
    BY <1>1, <2>2, GroupBounds
<1> DEFINE Goal == /\ \A g \in Paid : refund'[g] <= Price * G(g)
                   /\ \A x \in txs' : x.refund <= Price * (G(x.group) + outcome'[x.msg].fail)
<1> SUFFICES Goal
  BY DEF Grouped
<1> HIDE DEF F, G
<1>7. ASSUME refund' = refund, txs' \subseteq txs PROVE Goal
  BY <1>4, <1>5, <1>6, <1>7
<1>8. ASSUME NEW t \in Ticks, RefundPayment(t) PROVE Goal
  <2> DEFINE m == tick[t].msg
  <2>1. /\ UNCHANGED <<refund, checked, outcome>>
        /\ Running(t) /\ tick[t].at = "payment"
    BY <1>8 DEF RefundPayment
  <2>2. /\ m \in Messages /\ tick[t].fail \in Nat /\ tick[t].fail <= outcome[m].fail /\ outcome[m].fail \in Nat
    BY <2>1 DEF TypeOK, Run, Running, Known
  <2>3. \A g : G(g) = F(g)
    BY <2>1 DEF F, G
  <2>4. \A x \in txs' : x \in txs \/ \E g \in PaymentsFor(m) : /\ x.msg = m /\ x.group = g
                                                            /\ x.refund = Credited(refund[g], tick[t].fail)
    BY <1>8 DEF RefundPayment
  <2>5. \A g \in PaymentsFor(m) : g \in Paid
    BY <2>2, PaymentsForPaid
  <2>6. ASSUME NEW g \in Paid PROVE Credited(refund[g], tick[t].fail) <= Price * (F(g) + outcome[m].fail)
    <3> DEFINE a == F(g)
               b == tick[t].fail
               c == outcome[m].fail
               r == refund[g]
    <3>1. a \in Nat /\ b \in Nat /\ c \in Nat /\ r \in Nat /\ b <= c /\ r <= Price * a
      BY <1>2, <1>3, <1>4, <2>2
    <3> HIDE DEF a, b, c, r
    <3>2. Credited(r, b) <= Price * (a + c)
      BY <3>1 DEF Credited, Price
    <3>3. QED
      BY <3>2 DEF a, b, c, r
  <2>7. \A x \in txs' : x.refund <= Price * (G(x.group) + outcome'[x.msg].fail)
    BY <1>4, <1>6, <2>1, <2>3, <2>4, <2>5, <2>6
  <2>8. QED
    BY <1>5, <2>1, <2>7
<1>9. ASSUME NEW x \in txs, TxUser(x) PROVE Goal
  <2> DEFINE d == x.point # point
             y == [x EXCEPT !.begun = TRUE, !.dirty = d]
  <2>1. txs' = (txs \ {x}) \cup {y} /\ refund' = refund
    BY <1>9 DEF TxUser
  <2>2. x \in Tx
    BY DEF TypeOK
  <2> HIDE DEF d
  <2>3. y.msg = x.msg /\ y.group = x.group /\ y.refund = x.refund
    BY <2>2 DEF Tx
  <2> HIDE DEF y
  <2>4. QED
    BY <1>4, <1>5, <1>6, <2>1, <2>3
<1>10. ASSUME NEW x \in txs, TxCommit(x) PROVE Goal
  <2>1. /\ checked' = checked \cup {x.msg} /\ outcome' = outcome /\ x.msg \in Messages
        /\ x.msg \notin checked /\ txs' \subseteq txs
        /\ x.group \in Paid /\ GroupOf[x.msg] \in {x.group, NoGroup}
        /\ refund' = [refund EXCEPT ![x.group] = x.refund]
    BY <1>3, <1>10 DEF TxCommit, SettleInv, SettledOnce, GroupInv
  <2> DEFINE S == InGroup(checked, x.group)
  <2>2. S \in SUBSET Messages /\ S \subseteq checked /\ x.msg \notin S
        /\ InGroup(checked', x.group) = S \cup {x.msg}
    BY <1>1, <2>1 DEF InGroup
  <2>3. IsFiniteSet(Tokens(outcome, S))
    <3>1. \A d \in Messages : outcome[d].fail <= outcome[d].fail
      BY <1>1 DEF Outcomes
    <3>2. QED
      BY <1>1, <2>2, <3>1, NoFewer
  <2>4. FailIn(outcome, S \cup {x.msg}) = FailIn(outcome, S) + outcome[x.msg].fail
    BY <1>1, <2>1, <2>2, <2>3, OneMore DEF FailIn
  <2>5. G(x.group) = F(x.group) + outcome[x.msg].fail
    BY <2>1, <2>2, <2>4 DEF F, G
  <2>6. \A g \in Paid : refund'[g] <= Price * G(g)
    <3>1. \A g \in Paid : refund'[g] = IF g = x.group THEN x.refund ELSE refund[g]
      BY <2>1 DEF TypeOK
    <3>2. x.refund <= Price * G(x.group)
      BY <1>4, <2>5
    <3>3. QED
      BY <1>5, <3>1, <3>2
  <2>7. QED
    BY <1>4, <1>6, <2>1, <2>6
<1>11. QED
  BY <1>7, <1>8, <1>9, <1>10, NextActions DEF Age, Deliver, PollRead, PollSkip, WinnerPost, WinnerLoad,
     PollStart, PollSave, PageRead, PageSave, WinnerSave, Crash, vars, RefundStart, RefundUser, RefundResult

(***************************************************************************)
(* No payment shows more refunded than failed in its own group and among   *)
(* the messages without a group, for any groups and payments, as long as   *)
(* runs of the refund job do not overlap and no winner's save takes        *)
(* isMoneyCheck back.                                                      *)
(***************************************************************************)
THEOREM GroupsCovered ==
    ASSUME ~Overlap
    PROVE  Spec => []RefundWithinGroup
<1> DEFINE I == TypeOK /\ SettleInv /\ Known /\ WithinInv /\ GroupInv
<1>1. Init => I
  BY SettlementInit, SettleInit, KnownInit, WithinInit, GroupInit
<1>2. I /\ [Next]_vars => I'
  BY SettlementNext, SettleNext, KnownNext, WithinNext, GroupNext
<1>3. I => RefundWithinGroup
  BY DEF GroupInv, Grouped, RefundWithinGroup, InGroup, FailedIn, FailedReceivers, FailIn, Tokens
<1> HIDE DEF I
<1>4. QED
  BY <1>1, <1>2, <1>3, PTL DEF Spec
=============================================================================
