-------------------------------- MODULE Fatigue --------------------------------
(***************************************************************************)
(* What a send leaves behind so that nobody gets too many messages.  NCP   *)
(* accepts it chunk by chunk; after each chunk of an SMS, a test message   *)
(* or the winner of a test, its first number gets a history, which         *)
(* segments look at, and after the charge an advertisement gets a row per  *)
(* receiver, which filteredReceivers looks at.  The row of an SMS names    *)
(* its group, but its foreign key points at the message with that id.      *)
(*                                                                         *)
(* The money of a send is left to Billing: the charge is part of the step  *)
(* before the first advertisement row.                                     *)
(*                                                                         *)
(* Time goes in half days; what happens in one happens in the middle of    *)
(* it.                                                                     *)
(***************************************************************************)
EXTENDS Integers, Sequences, AbSplit

CONSTANTS
    FtUsers,    \* users
    FtNumbers,  \* numbers of receivers
    FtLists,    \* receiver lists of sends: sequences of numbers
    FtChunk,    \* receivers in one request to NCP
    FtSends,    \* requests to send
    FtOverlap,  \* may sends be in flight together?
    FtMaxNow    \* bound: the time

ASSUME FtAssumption ==
    /\ FtOverlap \in BOOLEAN
    /\ FtLists \subseteq Seq(FtNumbers)
    /\ FtChunk \in Nat \ {0}

VARIABLES
    ftNow,      \* the time
    history,    \* history[n]: MessageHistory, the times stored for number n
    adverts,    \* advertisement rows, [kind, user, number, at]
    messages,   \* ids of messages
    messageId,  \* the last id given to a message
    groupId,    \* the last id given to a group
    ft,         \* ft[s]: the send s
    accepted,   \* history: <<n, t>>, a chunk with n as its first number was accepted
    ftStopped   \* history: the kinds of sends that stopped, and where; "id" of a message lost

ftRows == <<history, adverts, messages, messageId, groupId>>
ftVars == <<ftNow, ftRows, ft, accepted, ftStopped>>

\* Default sends, A/B tests, their winners, test messages and KakaoTalk sends.
FtKinds == {"sms", "ab", "winner", "test", "kakao"}

\* op: a kind of FtKinds; todo: what is left to do before the charge;
\* number: the one whose history is written; group: the id of the group;
\* left: receivers without an advertisement row; since: the time of the rows.
FtSend(op, u, ad, list, todo) ==
    [at |-> "send", op |-> op, user |-> u, ad |-> ad, list |-> list, todo |-> todo,
     number |-> 0, group |-> 0, left |-> {}, since |-> 0]

NoSend == [at |-> "idle", ad |-> FALSE]

FatigueInit ==
    /\ ftNow = 0
    /\ history = [n \in FtNumbers |-> {}]
    /\ adverts = {}
    /\ messages = {}
    /\ messageId = 0
    /\ groupId = 0
    /\ ft = [s \in FtSends |-> NoSend]
    /\ accepted = {}
    /\ ftStopped = {}

FtAt(s, p) == ft[s].at = p

FtGo(s, r) == ft' = [ft EXCEPT ![s] = r]

FtFree(s) == FtOverlap \/ \A r \in FtSends \ {s} : ft[r].at \in {"idle", "done", "stopped"}

FtListed(list) == {list[i] : i \in 1..Len(list)}

-----------------------------------------------------------------------------

\* The first receivers of the chunks of list[from + 1 .. to]
Posts(list, from, to) ==
    LET n == to - from IN
    [i \in 1..ChunkCount(n, FtChunk) |-> <<"post", list[from + (i - 1) * FtChunk + 1]>>]

\* Variant: the group of a send before its messages.
PlanGroupFirst(op, list) == << <<"group">> >> \o Posts(list, 0, Len(list)) \o << <<"message">> >>

\* What a send does before the charge, in order: sendDefaultMessage posts, and
\* saves its message, then its group; sendAbTestMessage has a group first, and
\* a message for A, for B and for the remainder.  The winner of a test and a
\* test message are only posted, the latter at once.  KakaoTalk sends leave no
\* histories, and have groups of their own.
Plan(op, list) ==
    LET n == Len(list)
        half == TestReceiverNumber(n) \div 2
    IN  CASE op = "sms" -> Posts(list, 0, n) \o << <<"message">>, <<"group">> >>
          [] op = "ab" -> << <<"group">> >>
                          \o Posts(list, 0, half) \o << <<"message">> >>
                          \o Posts(list, half, half + BCount(n)) \o << <<"message">>, <<"message">> >>
          [] op = "winner" -> Posts(list, 0, n)
          [] op = "test" -> << <<"post", list[1]>> >>
          [] op = "kakao" -> <<>>

\* advertiseInfo counts for SMS; a KakaoTalk send stores its receivers always,
\* a winner or a test message never.
FtReceive(s) ==
    /\ FtAt(s, "idle") /\ FtFree(s)
    /\ \E op \in FtKinds, u \in FtUsers, list \in FtLists, ad \in BOOLEAN :
          /\ op = "ab" => Len(list) > 1
          /\ op = "test" => list # <<>>
          /\ op = "kakao" => ad
          /\ op \in {"winner", "test"} => ~ad
          /\ FtGo(s, FtSend(op, u, ad, list, Plan(op, list)))
    /\ UNCHANGED <<ftNow, ftRows, accepted, ftStopped>>

\* Ids are given in order.
FtStep(s) ==
    /\ FtAt(s, "send") /\ ft[s].todo # <<>>
    /\ LET step == Head(ft[s].todo)
           run == [ft[s] EXCEPT !.todo = Tail(@)]
       IN  \/ /\ step[1] = "post"
              /\ FtGo(s, [run EXCEPT !.at = "delete", !.number = step[2], !.since = ftNow])
              /\ accepted' = accepted \cup {<<step[2], ftNow>>}
              /\ UNCHANGED ftRows
           \/ /\ step[1] = "message"
              /\ FtGo(s, run)
              /\ messageId' = messageId + 1
              /\ messages' = messages \cup {messageId + 1}
              /\ UNCHANGED <<history, adverts, groupId, accepted>>
           \/ /\ step[1] = "group"
              /\ FtGo(s, [run EXCEPT !.group = groupId + 1])
              /\ groupId' = groupId + 1
              /\ UNCHANGED <<history, adverts, messages, messageId, accepted>>
    /\ UNCHANGED <<ftNow, ftStopped>>

\* saveMessageHistory: delete ...
DeleteHistory(s) ==
    /\ FtAt(s, "delete")
    /\ history' = [history EXCEPT ![ft[s].number] = {}]
    /\ FtGo(s, [ft[s] EXCEPT !.at = "insert"])
    /\ UNCHANGED <<ftNow, adverts, messages, messageId, groupId, accepted, ftStopped>>

\* Variant: the delete comes last.
InsertThenDelete(s) ==
    /\ FtAt(s, "insert")
    /\ history' = [history EXCEPT ![ft[s].number] = {}]
    /\ FtGo(s, [ft[s] EXCEPT !.at = "send"])
    /\ UNCHANGED <<ftNow, adverts, messages, messageId, groupId, accepted, ftStopped>>

\* ... and insert, with the time of NCP's answer
InsertHistory(s) ==
    /\ FtAt(s, "insert")
    /\ history' = [history EXCEPT ![ft[s].number] = @ \cup {ft[s].since}]
    /\ FtGo(s, [ft[s] EXCEPT !.at = "send"])
    /\ UNCHANGED <<ftNow, adverts, messages, messageId, groupId, accepted, ftStopped>>

\* The charge is made.
FtCharge(s) ==
    /\ FtAt(s, "send") /\ ft[s].todo = <<>>
    /\ FtGo(s, IF ft[s].ad
               THEN [ft[s] EXCEPT !.at = "advert", !.left = FtListed(ft[s].list), !.since = ftNow]
               ELSE [ft[s] EXCEPT !.at = "done"])
    /\ UNCHANGED <<ftNow, ftRows, accepted, ftStopped>>

\* The foreign key of AdvertiseReceiverList holds; that of
\* BizmessageAdReceiverList points at the group.
AdvertPossible(r) == r.op = "kakao" \/ r.group \in messages

\* saveAdvertiseReceiverList, saveAdBizmessageRecieverList: one row at a time
SaveAdvert(s) ==
    /\ FtAt(s, "advert") /\ AdvertPossible(ft[s])
    /\ \E n \in ft[s].left :
          /\ adverts' = adverts \cup {[kind |-> IF ft[s].op = "kakao" THEN "kakao" ELSE "sms",
                                       user |-> ft[s].user, number |-> n, at |-> ft[s].since]}
          /\ FtGo(s, [ft[s] EXCEPT !.left = @ \ {n},
                                   !.at = IF ft[s].left = {n} THEN "done" ELSE "advert"])
    /\ UNCHANGED <<ftNow, history, messages, messageId, groupId, accepted, ftStopped>>

\* A call rejects, a chunk is refused or the process ends; the id of a row that
\* could not be inserted is used up or not.
FtStop(s) ==
    /\ ft[s].at \notin {"idle", "done", "stopped"}
    /\ FtGo(s, [ft[s] EXCEPT !.at = "stopped"])
    /\ LET next == IF ft[s].todo = <<>> THEN "none" ELSE Head(ft[s].todo)[1]
           where == IF ft[s].at = "send" THEN {ft[s].op} ELSE {ft[s].op, ft[s].at}
       IN  \/ /\ ftStopped' = ftStopped \cup where
              /\ UNCHANGED <<messageId, groupId>>
           \/ /\ ft[s].at = "send" /\ next = "message"
              /\ messageId' = messageId + 1
              /\ ftStopped' = ftStopped \cup where \cup {"id"}
              /\ UNCHANGED groupId
           \/ /\ ft[s].at = "send" /\ next = "group"
              /\ groupId' = groupId + 1
              /\ ftStopped' = ftStopped \cup where
              /\ UNCHANGED messageId
    /\ UNCHANGED <<ftNow, history, adverts, messages, accepted>>

FtTick ==
    /\ ftNow < FtMaxNow
    /\ ftNow' = ftNow + 1
    /\ UNCHANGED <<ftRows, ft, accepted, ftStopped>>

FatigueNext ==
    \/ \E s \in FtSends :
          \/ FtReceive(s) \/ FtStep(s) \/ DeleteHistory(s) \/ InsertHistory(s)
          \/ FtCharge(s) \/ SaveAdvert(s) \/ FtStop(s)
    \/ FtTick

FatigueSpec == FatigueInit /\ [][FatigueNext]_ftVars

-----------------------------------------------------------------------------
(* filteredReceivers: who of a list may get an advertisement               *)

\* Variant: the day itself is not counted.
DaysAgoLate(t, day) == 2 * ((t \div 2) - day + 1)

\* DaysAgo: the UTC date of toISOString, that many days back, which the query
\* takes for midnight; in half days, for a process and a database in UTC
DaysAgo(t, day) == 2 * ((t \div 2) - day)

FilteredReceivers(kind, u, list, day) ==
    LET allReceivers == {a \in adverts : /\ a.kind = kind /\ a.user = u
                                         /\ a.at >= DaysAgo(ftNow, day)}
    IN  list \ {a.number : a \in allReceivers}

-----------------------------------------------------------------------------
(* Properties.                                                             *)

(***************************************************************************)
(* Whom a send that ended advertised to is filtered from then on for that  *)
(* many times 24 hours, and free again after a day more at most, where the *)
(* clocks are in UTC.                                                      *)
(***************************************************************************)
Ended(kind, u, n) ==
    {ft[s].since : s \in {x \in FtSends :
        /\ FtAt(x, "done") /\ ft[x].ad /\ ft[x].user = u /\ n \in FtListed(ft[x].list)
        /\ (ft[x].op = "kakao") = (kind = "kakao")}}

AdvertsFiltered == \A kind \in {"sms", "kakao"}, u \in FtUsers, n \in FtNumbers, day \in 0..1 :
    LET free == n \in FilteredReceivers(kind, u, FtNumbers, day) IN
    /\ (\E t \in Ended(kind, u, n) : ftNow - t <= 2 * day) => ~free
    /\ (\A a \in adverts : (a.kind = kind /\ a.user = u /\ a.number = n)
                              => ftNow - a.at >= 2 * (day + 1)) => free

(***************************************************************************)
(* The rows of an advertisement are accepted although their key points at  *)
(* another table than the one the id is of: there is a message with the    *)
(* id of the group, wherever default sends stopped, as long as no A/B test *)
(* did and no id of a message was lost.  It needs sends that do not        *)
(* overlap.                                                                *)
(***************************************************************************)
AdvertsAccepted == \A s \in FtSends :
    (FtAt(s, "advert") /\ ftStopped \cap {"ab", "id"} = {}) => AdvertPossible(ft[s])

(***************************************************************************)
(* The first number of a chunk that NCP accepted has a history, unless a   *)
(* send is about to write it or one stopped there.                         *)
(***************************************************************************)
HistoryKept == \A p \in accepted :
    \/ history[p[1]] # {}
    \/ ftStopped \cap {"delete", "insert"} # {}
    \/ \E s \in FtSends : ft[s].at \in {"delete", "insert"} /\ ft[s].number = p[1]
=============================================================================
