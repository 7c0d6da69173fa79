------------------------------ MODULE MCRequests ------------------------------
(***************************************************************************)
(* The parts of the server that have no state in common with each other:   *)
(* phonebooks, payments, accounts, the connections, and sends with         *)
(* segments.  A behaviour picks one of them and goes on in it; segments    *)
(* are changed beside one send, and two sends are checked without them.    *)
(***************************************************************************)
EXTENDS Phonebook, Segment, Payments, Accounts, ConnPool

CONSTANTS n1, n2,       \* numbers of receivers
          q1, q2,       \* queries of clients; q2 has an OR
            s1,           \* a send
          o1,           \* an order of 1000; the other one is too small
          digits        \* a sender number of digits only

VARIABLE part           \* what the behaviour is about

ReceiverLists == {<<n1, n2>>}
Answers == [q \in SegQueries |-> FtNumbers]
Firsts == [q \in SegQueries |-> IF q = q1 THEN {} ELSE {n2}]
Meeting == [c \in SegConds |-> {n1}]

\* The client writes n1 with a sign in front and n2 without.
LookedUp == [n \in FtNumbers |-> IF n = n1 THEN n1 ELSE SegNone]

Charges == [o \in PayOrders |-> IF o = o1 THEN 1000 ELSE 500]
OnlyDigits == [n \in AccNumbers |-> digits]

Init ==
    /\ part \in {"phonebook", "sends", "segments", "payments", "accounts", "pool"}
    /\ PhonebookInit /\ FatigueInit /\ SegmentInit /\ PaymentsInit /\ AccountsInit /\ ConnPoolInit

\* What a step of each part leaves alone.
Phonebooks == part = "phonebook" /\ UNCHANGED <<part, ftVars, segVars, payVars, accVars, poolVars>>
Charging == part = "payments" /\ UNCHANGED <<part, pbVars, ftVars, segVars, accVars, poolVars>>
Accounting == part = "accounts" /\ UNCHANGED <<part, pbVars, ftVars, segVars, payVars, poolVars>>
Pooling == part = "pool" /\ UNCHANGED <<part, pbVars, ftVars, segVars, payVars, accVars>>
Segmenting == part = "segments" /\ UNCHANGED <<part, pbVars, ftVars, payVars, accVars, poolVars>>
Sending(s) ==
    /\ part = "sends" \/ (part = "segments" /\ s = s1)
    /\ UNCHANGED <<part, pbVars, segVars, payVars, accVars, poolVars>>

\* Segments look at histories, which only an SMS leaves.
OnlyHistories(s) == ft'[s].op = "sms" /\ ~ft'[s].ad

Next ==
    \/ \E q \in PbRequests :
          \/ Phonebooks /\ PbReceive(q)
          \/ Phonebooks /\ CheckTitle(q)
          \/ Phonebooks /\ ReadBook(q)
          \/ Phonebooks /\ LookUp(q)
          \/ Phonebooks /\ InsertContact(q)
          \/ Phonebooks /\ CreateBook(q)
          \/ Phonebooks /\ ReadContact(q)
          \/ Phonebooks /\ SaveNumber(q)
          \/ Phonebooks /\ SaveBook(q)
          \/ Phonebooks /\ DeleteBook(q)
          \/ Phonebooks /\ PbStop(q)
    \/ \E s \in FtSends :
          \/ Sending(s) /\ FtReceive(s) /\ (part = "segments" => OnlyHistories(s))
          \/ Sending(s) /\ FtStep(s)
          \/ Sending(s) /\ DeleteHistory(s)
          \/ Sending(s) /\ InsertHistory(s)
          \/ Sending(s) /\ FtCharge(s)
          \/ Sending(s) /\ SaveAdvert(s)
          \/ Sending(s) /\ FtStop(s)
    \/ Sending(s1) /\ FtTick
    \/ \E q \in SegRequests :
          \/ Segmenting /\ SegReceive(q)
          \/ Segmenting /\ SegCreate(q)
          \/ Segmenting /\ SegCheck(q)
          \/ Segmenting /\ FatigueRows(q)
          \/ Segmenting /\ LookUpHistory(q)
          \/ Segmenting /\ SegFind(q)
          \/ Segmenting /\ SegSave(q)
          \/ Segmenting /\ SegStop(q)
    \/ \E q \in PayRequests, o \in PayOrders :
          \/ Charging /\ CreatePayment(q, o)
          \/ Charging /\ CompletePayment(q, o)
    \/ \E o \in PayOrders : Charging /\ PayAtProvider(o)
    \/ Charging /\ PayDie
    \/ \E q \in PayRequests :
          \/ Charging /\ SavePayment(q)
          \/ Charging /\ RefundPayment(q)
          \/ Charging /\ SaveRefund(q)
          \/ Charging /\ AskProvider(q)
          \/ Charging /\ ReadPayer(q)
          \/ Charging /\ ReadOrder(q)
          \/ Charging /\ CreditUser(q)
          \/ Charging /\ CompleteOrder(q)
          \/ Charging /\ PayCatch(q)
          \/ Charging /\ PayReject(q)
          \/ Charging /\ CancelAsk(q)
          \/ Charging /\ CancelAtProvider(q)
    \/ \E q \in AccRequests :
          \/ Accounting /\ AccReceive(q)
          \/ Accounting /\ FindNoUser(q)
          \/ Accounting /\ NewUser(q)
          \/ Accounting /\ NewNcp(q)
          \/ Accounting /\ ReadUserRow(q)
          \/ Accounting /\ ReadNcpRow(q)
          \/ Accounting /\ SaveUserRow(q)
          \/ Accounting /\ SaveNcpRow(q)
          \/ Accounting /\ FindDetails(q)
          \/ Accounting /\ RemoveDetails(q)
          \/ Accounting /\ SaveDetail(q)
          \/ Accounting /\ AccEnd(q)
          \/ Accounting /\ AccStop(q)
    \/ \E p \in PoolUsers :
          \/ Pooling /\ Ask(p)
          \/ Pooling /\ Begin(p)
          \/ Pooling /\ AskForGroup(p)
          \/ Pooling /\ SaveGroup(p)
          \/ Pooling /\ GroupSaved(p)
          \/ Pooling /\ End(p)

vars == <<part, pbVars, ftVars, segVars, payVars, accVars, poolVars>>

Spec == Init /\ [][Next]_vars
=============================================================================
