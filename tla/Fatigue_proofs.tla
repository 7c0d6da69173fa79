---------------------------- MODULE Fatigue_proofs ----------------------------
(***************************************************************************)
(* Fatigue and Segment, for any receiver lists, sends and requests.        *)
(***************************************************************************)
EXTENDS Segment, SequenceTheorems, TLAPS

-----------------------------------------------------------------------------
(* The plan of a send: posts to numbers of its list, messages and a group. *)

PostSteps == {"post"} \X FtNumbers
FtSteps == PostSteps \cup {<<"message">>, <<"group">>}

\* The first receiver of a chunk is one of the list.
LEMMA ChunkStarts ==
    ASSUME NEW n \in Nat, NEW c \in Nat \ {0}
    PROVE  /\ ChunkCount(n, c) \in Nat
           /\ \A i \in 1..ChunkCount(n, c) : (i - 1) * c \in Nat /\ (i - 1) * c < n
<1> DEFINE k == ChunkCount(n, c)
<1>1. k \in Int /\ k * c <= n + c - 1 /\ k >= 0
  BY DEF ChunkCount
<1> HIDE DEF k
<1>2. ASSUME NEW i \in 1..k PROVE (i - 1) * c \in Nat /\ (i - 1) * c < n
  <2>1. i * c <= k * c
    BY <1>1
  <2>2. (i - 1) * c = i * c - c
    BY <1>1
  <2>3. (i - 1) * c \in Nat
    BY <1>1
  <2>4. QED
    BY <1>1, <2>1, <2>2, <2>3
<1>3. QED
  BY <1>1, <1>2 DEF k

LEMMA PostsType ==
    ASSUME NEW list \in Seq(FtNumbers), NEW from \in Nat, NEW to \in Nat,
           from <= to, to <= Len(list)
    PROVE  Posts(list, from, to) \in Seq(PostSteps)
<1> DEFINE k == ChunkCount(to - from, FtChunk)
<1>1. FtChunk \in Nat \ {0} /\ to - from \in Nat /\ Len(list) \in Nat
  BY FtAssumption, LenProperties
<1>2. k \in Nat /\ \A i \in 1..k : (i - 1) * FtChunk \in Nat /\ (i - 1) * FtChunk < to - from
  BY <1>1, ChunkStarts
<1> HIDE DEF k
<1>3. ASSUME NEW i \in 1..k PROVE list[from + (i - 1) * FtChunk + 1] \in FtNumbers
  <2> DEFINE j == (i - 1) * FtChunk
  <2>1. j \in Nat /\ j < to - from
    BY <1>2
  <2> HIDE DEF j
  <2>2. from + j + 1 \in 1..Len(list)
    BY <1>1, <2>1
  <2>3. list[from + j + 1] \in FtNumbers
    BY <2>2, ElementOfSeq
  <2>4. QED
    BY <2>3 DEF j
<1>4. Posts(list, from, to) \in [1..k -> PostSteps]
  BY <1>3 DEF Posts, PostSteps, k
<1>5. QED
  BY <1>2, <1>4, SeqDef


\* What is left of the plan of a default send: posts, then <<"message">> and
\* <<"group">>.
SmsRest(todo) ==
    /\ Len(todo) >= 1 => todo[Len(todo)] = <<"group">>
    /\ Len(todo) >= 2 => todo[Len(todo) - 1] = <<"message">>
    /\ \A i \in 1..Len(todo) - 2 : todo[i] \in PostSteps

\* What is left of the plan of an A/B test: the group comes first if at all, and
\* a message last.
AbRest(todo) ==
    /\ Len(todo) >= 1 => todo[Len(todo)] = <<"message">>
    /\ \A i \in 2..Len(todo) : todo[i] # <<"group">>

\* What is left of a winner or a test message.
OnlyPosts(todo) == \A i \in 1..Len(todo) : todo[i] \in PostSteps

\* A group is no post, and neither is a message.
LEMMA StepKinds ==
    /\ <<"message">> # <<"group">>
    /\ \A p \in PostSteps : /\ p # <<"message">> /\ p # <<"group">>
                            /\ p[1] = "post" /\ p[2] \in FtNumbers
<1>1. <<"message">>[1] = "message" /\ <<"group">>[1] = "group"
  OBVIOUS
<1>2. QED
  BY <1>1 DEF PostSteps

\* One sequence of steps after another
LEMMA StepsConcat ==
    ASSUME NEW s \in Seq(FtSteps), NEW t \in Seq(FtSteps)
    PROVE  /\ s \o t \in Seq(FtSteps) /\ Len(s \o t) = Len(s) + Len(t)
           /\ Len(s) \in Nat /\ Len(t) \in Nat
           /\ \A i \in 1..Len(s) + Len(t) :
                 (s \o t)[i] = IF i <= Len(s) THEN s[i] ELSE t[i - Len(s)]
  BY ConcatProperties, LenProperties

\* Once there is a first step, no group comes with steps that are none.
NoGroup(s) == \A i \in 1..Len(s) : s[i] # <<"group">>
NoGroupAfter(s) == Len(s) >= 1 /\ \A i \in 2..Len(s) : s[i] # <<"group">>

LEMMA NoGroupConcat ==
    ASSUME NEW s \in Seq(FtSteps), NEW t \in Seq(FtSteps), NoGroupAfter(s), NoGroup(t)
    PROVE  s \o t \in Seq(FtSteps) /\ NoGroupAfter(s \o t) /\ (s \o t)[1] = s[1]
<1> DEFINE st == s \o t
<1>1. /\ st \in Seq(FtSteps) /\ Len(st) = Len(s) + Len(t) /\ Len(s) \in Nat /\ Len(t) \in Nat
      /\ \A i \in 1..Len(s) + Len(t) : st[i] = IF i <= Len(s) THEN s[i] ELSE t[i - Len(s)]
  BY StepsConcat
<1> HIDE DEF st
<1>2. ASSUME NEW i \in 2..Len(st) PROVE st[i] # <<"group">>
  <2>1. CASE i <= Len(s)
    <3>1. i \in 2..Len(s) /\ st[i] = s[i]
      BY <1>1, <2>1
    <3>2. QED
      BY <3>1 DEF NoGroupAfter
  <2>2. CASE ~(i <= Len(s))
    <3>1. i - Len(s) \in 1..Len(t) /\ st[i] = t[i - Len(s)]
      BY <1>1, <2>2
    <3>2. QED
      BY <3>1 DEF NoGroup
  <2>3. QED
    BY <2>1, <2>2
<1>3. Len(st) >= 1 /\ st[1] = s[1]
  BY <1>1 DEF NoGroupAfter
<1>4. QED
  BY <1>1, <1>2, <1>3 DEF NoGroupAfter, st

\* The test groups are parts of the list.
LEMMA TestGroups ==
    ASSUME NEW n \in Nat, n > 1
    PROVE  /\ TestReceiverNumber(n) \div 2 \in Nat /\ TestReceiverNumber(n) \div 2 <= n
           /\ BCount(n) \in Nat /\ TestReceiverNumber(n) \div 2 + BCount(n) <= n
<1> DEFINE t == TestReceiverNumber(n)
<1>1. t \in Nat /\ t % 2 = 0 /\ 2 * t <= n + 3
  BY DEF TestReceiverNumber, HalfUp
<1>2. BCount(n) = SliceLength(n, t \div 2, t)
  BY DEF BCount
<1> HIDE DEF t
<1>3. PICK k \in Nat : t = 2 * k /\ t \div 2 = k
  BY <1>1
<1>4. QED
  BY <1>1, <1>2, <1>3 DEF SliceLength, t

LEMMA SmsPlan ==
    ASSUME NEW list \in FtLists
    PROVE  /\ Plan("sms", list) \in Seq(FtSteps) /\ SmsRest(Plan("sms", list))
           /\ Len(Plan("sms", list)) >= 2
<1> DEFINE n == Len(list)
           posts == Posts(list, 0, n)
           end == << <<"message">>, <<"group">> >>
<1>1. list \in Seq(FtNumbers) /\ n \in Nat
  BY FtAssumption, LenProperties
<1>2. posts \in Seq(PostSteps)
  BY <1>1, PostsType
<1>3. posts \in Seq(FtSteps) /\ \A i \in 1..Len(posts) : posts[i] \in PostSteps
  BY <1>2, SeqMonotonic, ElementOfSeq DEF FtSteps
<1>4. end \in Seq(FtSteps) /\ Len(end) = 2 /\ end[1] = <<"message">> /\ end[2] = <<"group">>
  BY DEF FtSteps
<1>5. Plan("sms", list) = posts \o end
  BY DEF Plan
<1> HIDE DEF posts, end
<1>6. /\ posts \o end \in Seq(FtSteps) /\ Len(posts \o end) = Len(posts) + 2
      /\ \A i \in 1..Len(posts) + 2 :
            (posts \o end)[i] = IF i <= Len(posts) THEN posts[i] ELSE end[i - Len(posts)]
      /\ Len(posts) \in Nat
  <2>1. /\ posts \o end \in Seq(FtSteps) /\ Len(posts \o end) = Len(posts) + Len(end)
        /\ Len(posts) \in Nat
        /\ \A i \in 1..Len(posts) + Len(end) :
              (posts \o end)[i] = IF i <= Len(posts) THEN posts[i] ELSE end[i - Len(posts)]
    BY <1>3, <1>4, StepsConcat
  <2>2. QED
    BY <1>4, <2>1
<1>7. SmsRest(posts \o end) /\ Len(posts \o end) >= 2
  BY <1>3, <1>4, <1>6 DEF SmsRest
<1>8. QED
  BY <1>5, <1>6, <1>7

LEMMA AbPlan ==
    ASSUME NEW list \in FtLists, Len(list) > 1
    PROVE  /\ Plan("ab", list) \in Seq(FtSteps) /\ AbRest(Plan("ab", list))
           /\ Plan("ab", list) # <<>> /\ Head(Plan("ab", list)) = <<"group">>
<1> DEFINE n == Len(list)
           half == TestReceiverNumber(n) \div 2
           a == Posts(list, 0, half)
           b == Posts(list, half, half + BCount(n))
           first == << <<"group">> >>
           message == << <<"message">> >>
           last == << <<"message">>, <<"message">> >>
           plan == first \o a \o message \o b \o last
<1>1. list \in Seq(FtNumbers) /\ n \in Nat /\ n > 1
  BY FtAssumption, LenProperties
<1>2. half \in Nat /\ half <= n /\ BCount(n) \in Nat /\ half + BCount(n) <= n
  BY <1>1, TestGroups
<1>3. Plan("ab", list) = plan
  BY DEF Plan
<1> HIDE DEF n, half
<1>4. a \in Seq(PostSteps) /\ b \in Seq(PostSteps)
  BY <1>1, <1>2, PostsType DEF n
<1>5. a \in Seq(FtSteps) /\ b \in Seq(FtSteps) /\ NoGroup(a) /\ NoGroup(b)
  BY <1>4, SeqMonotonic, ElementOfSeq, StepKinds DEF FtSteps, NoGroup
<1>6. /\ first \in Seq(FtSteps) /\ NoGroupAfter(first) /\ first[1] = <<"group">>
      /\ message \in Seq(FtSteps) /\ NoGroup(message)
      /\ last \in Seq(FtSteps) /\ Len(last) = 2 /\ NoGroup(last) /\ last[2] = <<"message">>
  <2>1. /\ first \in Seq(FtSteps) /\ Len(first) = 1 /\ first[1] = <<"group">>
        /\ message \in Seq(FtSteps) /\ Len(message) = 1 /\ message[1] = <<"message">>
        /\ last \in Seq(FtSteps) /\ Len(last) = 2
        /\ last[1] = <<"message">> /\ last[2] = <<"message">>
    BY DEF FtSteps
  <2> HIDE DEF first, message, last
  <2>2. QED
    BY <2>1, StepKinds DEF NoGroup, NoGroupAfter
<1> HIDE DEF a, b, first, message, last
<1> DEFINE p2 == first \o a
           p3 == p2 \o message
           p4 == p3 \o b
           p5 == p4 \o last
<1>7. p2 \in Seq(FtSteps) /\ NoGroupAfter(p2) /\ p2[1] = <<"group">>
  BY <1>5, <1>6, NoGroupConcat
<1> HIDE DEF p2
<1>8. p3 \in Seq(FtSteps) /\ NoGroupAfter(p3) /\ p3[1] = <<"group">>
  BY <1>6, <1>7, NoGroupConcat
<1> HIDE DEF p3
<1>9. p4 \in Seq(FtSteps) /\ NoGroupAfter(p4) /\ p4[1] = <<"group">>
  BY <1>5, <1>8, NoGroupConcat
<1> HIDE DEF p4
<1>10. p5 \in Seq(FtSteps) /\ AbRest(p5) /\ p5 # <<>> /\ Head(p5) = <<"group">>
  <2>1. p5 \in Seq(FtSteps) /\ NoGroupAfter(p5) /\ p5[1] = <<"group">>
    BY <1>6, <1>9, NoGroupConcat
  <2>2. /\ Len(p5) = Len(p4) + Len(last) /\ Len(p4) \in Nat
        /\ \A i \in 1..Len(p4) + Len(last) :
              p5[i] = IF i <= Len(p4) THEN p4[i] ELSE last[i - Len(p4)]
    BY <1>6, <1>9, StepsConcat
  <2> HIDE DEF p5
  <2>3. p5[Len(p5)] = <<"message">>
    BY <1>6, <2>2
  <2>4. p5 # <<>> /\ Head(p5) = p5[1]
    BY <2>1, EmptySeq DEF NoGroupAfter
  <2>5. QED
    BY <2>1, <2>3, <2>4 DEF AbRest, NoGroupAfter
<1>11. QED
  BY <1>3, <1>10 DEF p2, p3, p4

LEMMA PostPlans ==
    ASSUME NEW list \in FtLists
    PROVE  /\ Plan("winner", list) \in Seq(FtSteps) /\ OnlyPosts(Plan("winner", list))
           /\ list # <<>> => Plan("test", list) \in Seq(FtSteps) /\ OnlyPosts(Plan("test", list))
<1> DEFINE n == Len(list)
           posts == Posts(list, 0, n)
           post == <<"post", list[1]>>
<1>1. list \in Seq(FtNumbers) /\ n \in Nat
  BY FtAssumption, LenProperties
<1>2. posts \in Seq(PostSteps)
  BY <1>1, PostsType
<1>3. Plan("winner", list) = posts /\ Plan("test", list) = <<post>>
  BY DEF Plan
<1> HIDE DEF posts
<1>4. posts \in Seq(FtSteps) /\ OnlyPosts(posts)
  BY <1>2, SeqMonotonic, ElementOfSeq DEF FtSteps, OnlyPosts
<1>5. ASSUME list # <<>> PROVE <<post>> \in Seq(FtSteps) /\ OnlyPosts(<<post>>)
  <2>1. 1 \in 1..n
    BY <1>1, <1>5, EmptySeq
  <2>2. list[1] \in FtNumbers
    BY <1>1, <2>1, ElementOfSeq
  <2>3. post \in PostSteps
    BY <2>2 DEF PostSteps
  <2> HIDE DEF post
  <2>4. QED
    BY <2>3 DEF FtSteps, OnlyPosts
<1>6. QED
  BY <1>3, <1>4, <1>5

LEMMA KakaoPlan == ASSUME NEW list PROVE Plan("kakao", list) = <<>>
  BY DEF Plan

\* A step is taken off.
LEMMA Rests ==
    ASSUME NEW todo \in Seq(FtSteps), todo # <<>>
    PROVE  /\ Head(todo) \in FtSteps /\ Tail(todo) \in Seq(FtSteps)
           /\ Len(todo) \in Nat \ {0} /\ Len(Tail(todo)) = Len(todo) - 1
           /\ Head(todo) = todo[1]
           /\ SmsRest(todo) => SmsRest(Tail(todo))
           /\ OnlyPosts(todo) => OnlyPosts(Tail(todo)) /\ Head(todo) \in PostSteps
           /\ AbRest(todo) => AbRest(Tail(todo)) /\ \A i \in 1..Len(Tail(todo)) : Tail(todo)[i] # <<"group">>
<1>1. /\ Head(todo) \in FtSteps /\ Tail(todo) \in Seq(FtSteps)
      /\ Len(todo) \in Nat \ {0} /\ Len(Tail(todo)) = Len(todo) - 1
      /\ \A i \in 1..Len(Tail(todo)) : Tail(todo)[i] = todo[i + 1]
  BY HeadTailProperties, EmptySeq
<1>2. Head(todo) = todo[1]
  BY <1>1
<1> DEFINE rest == Tail(todo)
<1> HIDE DEF rest
<1>3. SmsRest(todo) => SmsRest(rest)
  BY <1>1 DEF SmsRest, rest
<1>4. AbRest(todo) => AbRest(rest) /\ \A i \in 1..Len(rest) : rest[i] # <<"group">>
  BY <1>1 DEF AbRest, rest
<1>5. OnlyPosts(todo) => OnlyPosts(rest) /\ todo[1] \in PostSteps
  BY <1>1 DEF OnlyPosts, rest
<1>6. QED
  BY <1>1, <1>2, <1>3, <1>4, <1>5 DEF rest

-----------------------------------------------------------------------------
(* Types, and the plan that a send has left.                               *)

SendStages == {"send", "delete", "insert", "advert", "done", "stopped"}

SendShape ==
    [at : SendStages, op : FtKinds, user : FtUsers, ad : BOOLEAN,
     list : FtLists, todo : Seq(FtSteps), number : FtNumbers \cup {0}, group : Nat,
     left : SUBSET FtNumbers, since : Nat]

SendOK(r) ==
    /\ r \in SendShape
    /\ r.op = "sms" => SmsRest(r.todo)
    /\ r.op = "ab" => AbRest(r.todo)
    /\ r.op \in {"winner", "test"} => OnlyPosts(r.todo) /\ ~r.ad
    /\ r.at = "advert" => r.ad
    /\ r.op = "kakao" \/ r.at \in {"advert", "done"} => r.todo = <<>>
    /\ r.at \in {"delete", "insert"} => r.number \in FtNumbers

AdvertRows == [kind : {"sms", "kakao"}, user : FtUsers, number : FtNumbers, at : Nat]

FtTypes ==
    /\ ftNow \in Nat /\ messageId \in Nat /\ groupId \in Nat
    /\ history \in [FtNumbers -> SUBSET Nat]
    /\ accepted \subseteq FtNumbers \X Nat
    /\ adverts \subseteq AdvertRows
    /\ ft \in [FtSends -> {NoSend} \cup SendShape]
    /\ \A s \in FtSends : ft[s] = NoSend \/ SendOK(ft[s])

LEMMA FtTypesInit == FatigueInit => FtTypes
  BY DEF FatigueInit, FtTypes

LEMMA SendHere ==
    ASSUME FtTypes, NEW s \in FtSends, ft[s].at # "idle"
    PROVE  SendOK(ft[s]) /\ ft[s] \in SendShape
  BY DEF FtTypes, NoSend, SendOK

LEMMA OnlyThisSend ==
    ASSUME FtTypes, NEW s \in FtSends, NEW r, FtGo(s, r)
    PROVE  \A x \in FtSends : ft'[x] = IF x = s THEN r ELSE ft[x]
  BY DEF FtTypes, FtGo

LEMMA FtTypesKept ==
    ASSUME FtTypes, NEW s \in FtSends, NEW r, FtGo(s, r), SendOK(r),
           ftNow' \in Nat, messageId' \in Nat, groupId' \in Nat,
           history' \in [FtNumbers -> SUBSET Nat], accepted' \subseteq FtNumbers \X Nat,
           adverts' \subseteq AdvertRows
    PROVE  FtTypes'
<1>1. ft' \in [FtSends -> {NoSend} \cup SendShape]
  BY DEF FtTypes, FtGo, SendOK
<1>2. QED
  BY <1>1, OnlyThisSend DEF FtTypes

\* The send that comes in.
LEMMA Received ==
    ASSUME FtTypes, NEW s \in FtSends, FtReceive(s)
    PROVE  \E r : /\ FtGo(s, r) /\ SendOK(r) /\ r.at = "send"
                  /\ (r.op = "sms" => r.todo = Plan("sms", r.list))
                  /\ (r.op = "ab" => r.todo = Plan("ab", r.list) /\ Len(r.list) > 1)
<1>1. PICK op \in FtKinds, u \in FtUsers, list \in FtLists, ad \in BOOLEAN :
        /\ op = "ab" => Len(list) > 1
        /\ op = "test" => list # <<>>
        /\ op \in {"winner", "test"} => ~ad
        /\ FtGo(s, FtSend(op, u, ad, list, Plan(op, list)))
  BY DEF FtReceive
<1> DEFINE todo == Plan(op, list)
           r == FtSend(op, u, ad, list, todo)
<1>2. /\ todo \in Seq(FtSteps)
      /\ op = "sms" => SmsRest(todo)
      /\ op = "ab" => AbRest(todo)
      /\ op \in {"winner", "test"} => OnlyPosts(todo)
      /\ op = "kakao" => todo = <<>>
  <2>1. CASE op = "sms"
    BY <2>1, SmsPlan
  <2>2. CASE op = "ab"
    BY <1>1, <2>2, AbPlan
  <2>3. CASE op = "kakao"
    BY <2>3, KakaoPlan, EmptySeq
  <2>4. CASE op \in {"winner", "test"}
    BY <1>1, <2>4, PostPlans
  <2>5. QED
    BY <2>1, <2>2, <2>3, <2>4 DEF FtKinds
<1> HIDE DEF todo
<1>3. /\ r \in SendShape /\ r.op = op /\ r.todo = todo /\ r.at = "send" /\ r.list = list /\ r.ad = ad
  BY <1>2 DEF FtSend, SendShape, SendStages
<1>4. SendOK(r)
  <2> HIDE DEF r
  <2>1. QED
    BY <1>1, <1>2, <1>3 DEF SendOK
<1>5. QED
  BY <1>1, <1>3, <1>4 DEF todo

\* A send that takes the first step of its plan off.
LEMMA PlanGoesOn ==
    ASSUME FtTypes, NEW s \in FtSends, FtAt(s, "send"), ft[s].todo # <<>>,
           NEW r \in SendShape, r.op = ft[s].op, r.todo = Tail(ft[s].todo), r.ad = ft[s].ad,
           r.at = "send" \/ (r.at = "delete" /\ r.number \in FtNumbers)
    PROVE  SendOK(r)
<1>1. SendOK(ft[s]) /\ ft[s] \in SendShape
  BY SendHere DEF FtAt
<1>2. ft[s].todo \in Seq(FtSteps) /\ ft[s].op # "kakao"
  BY <1>1 DEF SendShape, SendOK
<1>3. QED
  BY <1>1, <1>2, Rests DEF SendOK

LEMMA StepTypes == ASSUME FtTypes, NEW s \in FtSends, FtStep(s) PROVE FtTypes'
<1>1. FtAt(s, "send") /\ ft[s].todo # <<>> /\ SendOK(ft[s]) /\ ft[s] \in SendShape
  BY SendHere DEF FtStep, FtAt
<1> DEFINE todo == ft[s].todo
           run == [ft[s] EXCEPT !.todo = Tail(todo)]
<1>2. todo \in Seq(FtSteps)
  BY <1>1 DEF SendShape
<1>3. Head(todo) \in FtSteps /\ Tail(todo) \in Seq(FtSteps)
  BY <1>1, <1>2, Rests
<1>4. CASE /\ Head(todo)[1] = "post"
           /\ FtGo(s, [run EXCEPT !.at = "delete", !.number = Head(todo)[2], !.since = ftNow])
           /\ accepted' = accepted \cup {<<Head(todo)[2], ftNow>>}
           /\ UNCHANGED <<ftNow, ftRows>>
  <2> DEFINE r == [run EXCEPT !.at = "delete", !.number = Head(todo)[2], !.since = ftNow]
  <2>1. Head(todo)[2] \in FtNumbers
    <3>1. <<"message">>[1] = "message" /\ <<"group">>[1] = "group"
      OBVIOUS
    <3>2. QED
      BY <1>3, <1>4, <3>1, StepKinds DEF FtSteps
  <2>2. /\ r \in SendShape /\ r.op = ft[s].op /\ r.todo = Tail(todo) /\ r.at = "delete"
        /\ r.number = Head(todo)[2] /\ r.ad = ft[s].ad
    BY <1>1, <1>3, <2>1 DEF SendShape, SendStages, FtTypes
  <2> HIDE DEF r
  <2>3. SendOK(r)
    BY <1>1, <2>1, <2>2, PlanGoesOn
  <2>4. accepted' \subseteq FtNumbers \X Nat
    BY <1>4, <2>1 DEF FtTypes
  <2>5. QED
    BY <1>4, <2>3, <2>4, FtTypesKept DEF r, FtTypes, ftRows
<1>5. CASE /\ FtGo(s, run)
           /\ messageId' = messageId + 1
           /\ UNCHANGED <<ftNow, history, adverts, groupId, accepted>>
  <2>1. /\ run \in SendShape /\ run.op = ft[s].op /\ run.todo = Tail(todo) /\ run.at = "send"
        /\ run.ad = ft[s].ad
    BY <1>1, <1>3 DEF SendShape, FtAt
  <2> HIDE DEF run
  <2>2. SendOK(run)
    BY <1>1, <2>1, PlanGoesOn
  <2>3. QED
    BY <1>5, <2>2, FtTypesKept DEF FtTypes
<1>6. CASE /\ FtGo(s, [run EXCEPT !.group = groupId + 1])
           /\ groupId' = groupId + 1
           /\ UNCHANGED <<ftNow, history, adverts, messageId, accepted>>
  <2> DEFINE r == [run EXCEPT !.group = groupId + 1]
  <2>1. /\ r \in SendShape /\ r.op = ft[s].op /\ r.todo = Tail(todo) /\ r.at = "send"
        /\ r.ad = ft[s].ad
    <3>1. /\ run \in SendShape /\ run.op = ft[s].op /\ run.todo = Tail(todo) /\ run.at = "send"
          /\ run.ad = ft[s].ad
      BY <1>1, <1>3 DEF SendShape, FtAt
    <3>2. groupId + 1 \in Nat
      BY DEF FtTypes
    <3> HIDE DEF run
    <3>3. QED
      BY <3>1, <3>2 DEF SendShape
  <2> HIDE DEF r
  <2>2. SendOK(r)
    BY <1>1, <2>1, PlanGoesOn
  <2>3. QED
    BY <1>6, <2>2, FtTypesKept DEF FtTypes, r
<1>7. QED
  BY <1>4, <1>5, <1>6 DEF FtStep, ftRows

LEMMA FtTypesStep == FtTypes /\ [FatigueNext]_ftVars => FtTypes'
<1> SUFFICES ASSUME FtTypes, [FatigueNext]_ftVars PROVE FtTypes'
  OBVIOUS
<1>1. CASE UNCHANGED ftVars
  BY <1>1 DEF FtTypes, ftVars, ftRows
<1>2. ASSUME NEW s \in FtSends, FtReceive(s) PROVE FtTypes'
  BY <1>2, Received, FtTypesKept DEF FtReceive, FtTypes, ftRows
<1>3. ASSUME NEW s \in FtSends, DeleteHistory(s) PROVE FtTypes'
  <2>1. SendOK(ft[s]) /\ ft[s] \in SendShape /\ ft[s].at = "delete"
    BY <1>3, SendHere DEF DeleteHistory, FtAt
  <2>2. SendOK([ft[s] EXCEPT !.at = "insert"])
    BY <2>1 DEF SendOK, SendShape, SendStages
  <2>3. QED
    BY <1>3, <2>2, FtTypesKept DEF DeleteHistory, FtTypes
<1>4. ASSUME NEW s \in FtSends, InsertHistory(s) PROVE FtTypes'
  <2>1. SendOK(ft[s]) /\ ft[s] \in SendShape /\ ft[s].at = "insert"
    BY <1>4, SendHere DEF InsertHistory, FtAt
  <2>2. SendOK([ft[s] EXCEPT !.at = "send"]) /\ ft[s].since \in Nat
    BY <2>1 DEF SendOK, SendShape, SendStages
  <2>3. history' \in [FtNumbers -> SUBSET Nat]
    BY <1>4, <2>2 DEF InsertHistory, FtTypes
  <2>4. QED
    BY <1>4, <2>2, <2>3, FtTypesKept DEF InsertHistory, FtTypes
<1>5. ASSUME NEW s \in FtSends, FtCharge(s) PROVE FtTypes'
  <2>1. SendOK(ft[s]) /\ ft[s] \in SendShape /\ ft[s].todo = <<>>
    BY <1>5, SendHere DEF FtCharge, FtAt
  <2>2. FtListed(ft[s].list) \subseteq FtNumbers
    BY <2>1, FtAssumption, ElementOfSeq DEF FtListed, SendShape
  <2> DEFINE a == [ft[s] EXCEPT !.at = "advert", !.left = FtListed(ft[s].list), !.since = ftNow]
             d == [ft[s] EXCEPT !.at = "done"]
  <2>3. ASSUME ft[s].ad PROVE SendOK(a)
    BY <2>1, <2>2, <2>3 DEF SendOK, SendShape, SendStages, FtTypes
  <2>4. SendOK(d)
    BY <2>1 DEF SendOK, SendShape, SendStages
  <2> HIDE DEF a, d
  <2>5. (ft[s].ad /\ FtGo(s, a)) \/ FtGo(s, d)
    BY <1>5 DEF FtCharge, a, d
  <2>6. QED
    BY <1>5, <2>3, <2>4, <2>5, FtTypesKept DEF FtCharge, FtTypes, ftRows
<1>6. ASSUME NEW s \in FtSends, SaveAdvert(s) PROVE FtTypes'
  <2>1. SendOK(ft[s]) /\ ft[s] \in SendShape /\ ft[s].at = "advert"
    BY <1>6, SendHere DEF SaveAdvert, FtAt
  <2>2. PICK n \in ft[s].left :
          /\ adverts' = adverts \cup {[kind |-> IF ft[s].op = "kakao" THEN "kakao" ELSE "sms",
                                       user |-> ft[s].user, number |-> n, at |-> ft[s].since]}
          /\ FtGo(s, [ft[s] EXCEPT !.left = @ \ {n},
                                   !.at = IF ft[s].left = {n} THEN "done" ELSE "advert"])
    BY <1>6 DEF SaveAdvert
  <2>3. adverts' \subseteq AdvertRows
    BY <2>1, <2>2 DEF FtTypes, AdvertRows, SendShape
  <2>4. SendOK([ft[s] EXCEPT !.left = @ \ {n},
                             !.at = IF ft[s].left = {n} THEN "done" ELSE "advert"])
    BY <2>1 DEF SendOK, SendShape, SendStages
  <2>5. QED
    BY <1>6, <2>2, <2>3, <2>4, FtTypesKept DEF SaveAdvert, FtTypes
<1>7. ASSUME NEW s \in FtSends, FtStop(s) PROVE FtTypes'
  <2>1. SendOK(ft[s]) /\ ft[s] \in SendShape
    BY <1>7, SendHere DEF FtStop
  <2>2. SendOK([ft[s] EXCEPT !.at = "stopped"])
    BY <2>1 DEF SendOK, SendShape, SendStages
  <2>3. messageId' \in Nat /\ groupId' \in Nat
    BY <1>7 DEF FtStop, FtTypes
  <2>4. QED
    BY <1>7, <2>2, <2>3, FtTypesKept DEF FtStop, FtTypes
<1>8. CASE FtTick
  BY <1>8 DEF FtTick, FtTypes, ftRows
<1>9. QED
  BY <1>1, <1>2, <1>3, <1>4, <1>5, <1>6, <1>7, <1>8, StepTypes DEF FatigueNext

LEMMA FtTypesHold == FatigueSpec => []FtTypes
<1>1. QED
  BY FtTypesInit, FtTypesStep, PTL DEF FatigueSpec

-----------------------------------------------------------------------------
(* Histories, however many sends overlap.                                  *)

Sent(ps, n) == \E p \in ps : p[1] = n

HistInv ==
    /\ \A n \in FtNumbers : history[n] # {} => Sent(accepted, n)
    /\ \A s \in FtSends : ft[s].at \in {"delete", "insert"} => Sent(accepted, ft[s].number)
    /\ HistoryKept

LEMMA HistInit == FatigueInit => HistInv
  BY DEF FatigueInit, HistInv, HistoryKept, NoSend

\* What a send's step leaves alone when it is not about a history.
LEMMA HistUntouched ==
    ASSUME FtTypes, HistInv, NEW s \in FtSends, NEW r, FtGo(s, r),
           ft[s].at \notin {"delete", "insert"}, r.at \notin {"delete", "insert"},
           UNCHANGED <<history, accepted>>, ftStopped \subseteq ftStopped'
    PROVE  HistInv'
<1>1. \A x \in FtSends : ft'[x] = IF x = s THEN r ELSE ft[x]
  BY OnlyThisSend
<1>2. \A n : Sent(accepted', n) <=> Sent(accepted, n)
  BY DEF Sent
<1>3. HistoryKept'
  BY <1>1 DEF HistInv, HistoryKept
<1>4. QED
  BY <1>1, <1>2, <1>3 DEF HistInv

LEMMA StepHist == ASSUME FtTypes, HistInv, NEW s \in FtSends, FtStep(s) PROVE HistInv'
<1>1. FtAt(s, "send") /\ ft[s].todo # <<>> /\ SendOK(ft[s]) /\ ft[s] \in SendShape
  BY SendHere DEF FtStep, FtAt
<1> DEFINE todo == ft[s].todo
           run == [ft[s] EXCEPT !.todo = Tail(todo)]
<1>2. CASE /\ FtGo(s, [run EXCEPT !.at = "delete", !.number = Head(todo)[2], !.since = ftNow])
           /\ accepted' = accepted \cup {<<Head(todo)[2], ftNow>>}
           /\ UNCHANGED <<history, ftStopped>>
  <2> DEFINE n == Head(todo)[2]
             r == [run EXCEPT !.at = "delete", !.number = n, !.since = ftNow]
  <2>1. r.at = "delete" /\ r.number = n
    BY <1>1 DEF SendShape
  <2> HIDE DEF r, n
  <2>2. \A x \in FtSends : ft'[x] = IF x = s THEN r ELSE ft[x]
    BY <1>2, OnlyThisSend DEF r, n
  <2>3. accepted' = accepted \cup {<<n, ftNow>>}
    BY <1>2 DEF n
  <2>4. Sent(accepted', n) /\ \A m : Sent(accepted, m) => Sent(accepted', m)
    <3>1. <<n, ftNow>> \in accepted' /\ <<n, ftNow>>[1] = n
      BY <2>3
    <3>2. QED
      BY <2>3, <3>1 DEF Sent
  <2>5. ASSUME NEW p \in accepted'
        PROVE  \/ history'[p[1]] # {}
               \/ ftStopped' \cap {"delete", "insert"} # {}
               \/ \E x \in FtSends : ft'[x].at \in {"delete", "insert"} /\ ft'[x].number = p[1]
    <3>1. CASE p = <<n, ftNow>>
      <4>1. p[1] = n /\ ft'[s] = r
        BY <2>2, <3>1
      <4>2. QED
        BY <2>1, <4>1
    <3>2. CASE p \in accepted
      <4>1. CASE \E x \in FtSends : ft[x].at \in {"delete", "insert"} /\ ft[x].number = p[1]
        BY <1>1, <2>2, <4>1 DEF FtAt
      <4>2. CASE history[p[1]] # {} \/ ftStopped \cap {"delete", "insert"} # {}
        BY <1>2, <4>2
      <4>3. QED
        BY <3>2, <4>1, <4>2 DEF HistInv, HistoryKept
    <3>3. QED
      BY <2>3, <3>1, <3>2
  <2>6. HistoryKept'
    BY <2>5 DEF HistoryKept
  <2>7. QED
    BY <1>2, <2>1, <2>2, <2>4, <2>6 DEF HistInv
<1>3. CASE /\ FtGo(s, run) \/ FtGo(s, [run EXCEPT !.group = groupId + 1])
           /\ UNCHANGED <<history, accepted, ftStopped>>
  <2> DEFINE r == [run EXCEPT !.group = groupId + 1]
  <2>1. run \in [at : SendStages, op : FtKinds, user : FtUsers, ad : BOOLEAN,
                 list : FtLists, todo : {Tail(todo)}, number : FtNumbers \cup {0}, group : Nat,
                 left : SUBSET FtNumbers, since : Nat] /\ run.at = "send"
    BY <1>1 DEF SendShape, FtAt
  <2> HIDE DEF run
  <2>2. r.at = "send"
    BY <2>1
  <2> HIDE DEF r
  <2>3. FtGo(s, run) \/ FtGo(s, r)
    BY <1>3 DEF r
  <2>4. QED
    BY <1>1, <1>3, <2>1, <2>2, <2>3, HistUntouched DEF FtAt
<1>4. QED
  BY <1>2, <1>3 DEF FtStep, ftRows

LEMMA DeleteHist == ASSUME FtTypes, HistInv, NEW s \in FtSends, DeleteHistory(s) PROVE HistInv'
<1>1. SendOK(ft[s]) /\ ft[s] \in SendShape /\ ft[s].at = "delete"
  BY SendHere DEF DeleteHistory, FtAt
<1> DEFINE n == ft[s].number
           r == [ft[s] EXCEPT !.at = "insert"]
<1>2. r.at = "insert" /\ r.number = n /\ n \in FtNumbers
  BY <1>1 DEF SendOK, SendShape
<1> HIDE DEF r
<1>3. \A x \in FtSends : ft'[x] = IF x = s THEN r ELSE ft[x]
  BY OnlyThisSend DEF DeleteHistory, r
<1>4. \A m \in FtNumbers : history'[m] = IF m = n THEN {} ELSE history[m]
  BY DEF DeleteHistory, FtTypes
<1>5. accepted' = accepted /\ ftStopped' = ftStopped /\ \A m : Sent(accepted', m) <=> Sent(accepted, m)
  BY DEF DeleteHistory, Sent
<1>6. ASSUME NEW p \in accepted
      PROVE  \/ history'[p[1]] # {}
             \/ ftStopped \cap {"delete", "insert"} # {}
             \/ \E x \in FtSends : ft'[x].at \in {"delete", "insert"} /\ ft'[x].number = p[1]
  <2>1. p[1] \in FtNumbers
    BY DEF FtTypes
  <2>2. CASE p[1] = n
    BY <1>2, <1>3, <2>2
  <2>3. CASE p[1] # n
    BY <1>3, <1>4, <2>1, <2>3 DEF HistInv, HistoryKept
  <2>4. QED
    BY <2>2, <2>3
<1>7. HistoryKept'
  BY <1>5, <1>6 DEF HistoryKept
<1>8. QED
  BY <1>1, <1>2, <1>3, <1>4, <1>5, <1>7 DEF HistInv

LEMMA InsertHist == ASSUME FtTypes, HistInv, NEW s \in FtSends, InsertHistory(s) PROVE HistInv'
<1>1. SendOK(ft[s]) /\ ft[s] \in SendShape /\ ft[s].at = "insert"
  BY SendHere DEF InsertHistory, FtAt
<1> DEFINE n == ft[s].number
           r == [ft[s] EXCEPT !.at = "send"]
<1>2. r.at = "send" /\ n \in FtNumbers
  BY <1>1 DEF SendOK, SendShape
<1> HIDE DEF r
<1>3. \A x \in FtSends : ft'[x] = IF x = s THEN r ELSE ft[x]
  BY OnlyThisSend DEF InsertHistory, r
<1>4. \A m \in FtNumbers : history'[m] = IF m = n THEN history[m] \cup {ft[s].since} ELSE history[m]
  BY DEF InsertHistory, FtTypes
<1>5. accepted' = accepted /\ ftStopped' = ftStopped /\ \A m : Sent(accepted', m) <=> Sent(accepted, m)
  BY DEF InsertHistory, Sent
<1>6. ASSUME NEW p \in accepted
      PROVE  \/ history'[p[1]] # {}
             \/ ftStopped \cap {"delete", "insert"} # {}
             \/ \E x \in FtSends : ft'[x].at \in {"delete", "insert"} /\ ft'[x].number = p[1]
  <2>1. p[1] \in FtNumbers
    BY DEF FtTypes
  <2>2. CASE p[1] = n
    BY <1>4, <2>1, <2>2
  <2>3. CASE p[1] # n
    BY <1>3, <1>4, <2>1, <2>3 DEF HistInv, HistoryKept
  <2>4. QED
    BY <2>2, <2>3
<1>7. HistoryKept'
  BY <1>5, <1>6 DEF HistoryKept
<1>8. QED
  BY <1>1, <1>2, <1>3, <1>4, <1>5, <1>7 DEF HistInv

LEMMA HistStep == FtTypes /\ HistInv /\ [FatigueNext]_ftVars => HistInv'
<1> SUFFICES ASSUME FtTypes, HistInv, [FatigueNext]_ftVars PROVE HistInv'
  OBVIOUS
<1>1. CASE UNCHANGED <<history, ft, accepted, ftStopped>>
  BY <1>1 DEF HistInv, HistoryKept, Sent
<1>2. ASSUME NEW s \in FtSends, FtReceive(s) PROVE HistInv'
  <2>1. ft[s].at = "idle"
    BY <1>2 DEF FtReceive, FtAt
  <2>2. UNCHANGED <<history, accepted, ftStopped>>
    BY <1>2 DEF FtReceive, ftRows
  <2>3. PICK r : FtGo(s, r) /\ r.at = "send"
    BY <1>2, Received
  <2>4. QED
    BY <2>1, <2>2, <2>3, HistUntouched
<1>3. ASSUME NEW s \in FtSends, FtCharge(s) PROVE HistInv'
  <2>1. SendOK(ft[s]) /\ ft[s] \in SendShape /\ ft[s].at = "send"
    BY <1>3, SendHere DEF FtCharge, FtAt
  <2>2. UNCHANGED <<history, accepted, ftStopped>>
    BY <1>3 DEF FtCharge, ftRows
  <2> DEFINE a == [ft[s] EXCEPT !.at = "advert", !.left = FtListed(ft[s].list), !.since = ftNow]
             d == [ft[s] EXCEPT !.at = "done"]
  <2>3. a.at = "advert" /\ d.at = "done"
    BY <2>1 DEF SendShape
  <2> HIDE DEF a, d
  <2>4. FtGo(s, a) \/ FtGo(s, d)
    BY <1>3 DEF FtCharge, a, d
  <2>5. QED
    BY <2>1, <2>2, <2>3, <2>4, HistUntouched
<1>4. ASSUME NEW s \in FtSends, SaveAdvert(s) PROVE HistInv'
  <2>1. SendOK(ft[s]) /\ ft[s] \in SendShape /\ ft[s].at = "advert"
    BY <1>4, SendHere DEF SaveAdvert, FtAt
  <2>2. UNCHANGED <<history, accepted, ftStopped>>
    BY <1>4 DEF SaveAdvert
  <2>3. PICK n : FtGo(s, [ft[s] EXCEPT !.left = @ \ {n},
                                       !.at = IF ft[s].left = {n} THEN "done" ELSE "advert"])
    BY <1>4 DEF SaveAdvert
  <2> DEFINE r == [ft[s] EXCEPT !.left = @ \ {n},
                                !.at = IF ft[s].left = {n} THEN "done" ELSE "advert"]
  <2>4. r.at \in {"done", "advert"}
    BY <2>1 DEF SendShape
  <2> HIDE DEF r
  <2>5. FtGo(s, r)
    BY <2>3 DEF r
  <2>6. QED
    BY <2>1, <2>2, <2>4, <2>5, HistUntouched
<1>5. ASSUME NEW s \in FtSends, FtStop(s) PROVE HistInv'
  <2>1. SendOK(ft[s]) /\ ft[s] \in SendShape
    BY <1>5, SendHere DEF FtStop
  <2> DEFINE r == [ft[s] EXCEPT !.at = "stopped"]
  <2>2. r.at = "stopped"
    BY <2>1 DEF SendShape
  <2>3. FtGo(s, r) /\ UNCHANGED <<history, accepted>>
    BY <1>5 DEF FtStop
  <2>4. ftStopped \subseteq ftStopped'
    BY <1>5 DEF FtStop
  <2> HIDE DEF r
  <2>5. CASE ft[s].at \notin {"delete", "insert"}
    BY <2>2, <2>3, <2>4, <2>5, HistUntouched
  <2>6. CASE ft[s].at \in {"delete", "insert"}
    <3>1. ft[s].at \in ftStopped'
      BY <1>5, <2>6 DEF FtStop
    <3>2. HistoryKept'
      BY <2>6, <3>1 DEF HistoryKept
    <3>3. \A x \in FtSends : ft'[x] = IF x = s THEN r ELSE ft[x]
      BY <2>3, OnlyThisSend
    <3>4. \A m : Sent(accepted', m) <=> Sent(accepted, m)
      BY <2>3 DEF Sent
    <3>5. QED
      BY <2>2, <2>3, <3>2, <3>3, <3>4 DEF HistInv
  <2>7. QED
    BY <2>5, <2>6
<1>6. QED
  BY <1>1, <1>2, <1>3, <1>4, <1>5, StepHist, DeleteHist, InsertHist
     DEF FatigueNext, ftVars, ftRows, FtTick

LEMMA HistHolds == FatigueSpec => []HistInv
<1>1. QED
  BY HistInit, HistStep, FtTypesHold, PTL DEF FatigueSpec

(***************************************************************************)
(* The first number of every chunk that NCP accepted has a history, or is  *)
(* about to get it, unless a send stopped between the delete and the       *)
(* insert of saveMessageHistory: for sends that overlap as well, which     *)
(* delete each other's histories.                                          *)
(***************************************************************************)
THEOREM AcceptedHasHistory == FatigueSpec => []HistoryKept
<1>1. HistInv => HistoryKept
  BY DEF HistInv
<1>2. QED
  BY <1>1, HistHolds, PTL

-----------------------------------------------------------------------------
(* The rows of advertisements, however many sends overlap.                 *)

AdvertOf(r, n) ==
    [kind |-> IF r.op = "kakao" THEN "kakao" ELSE "sms", user |-> r.user, number |-> n,
     at |-> r.since]

\* Whom r has stored so far
Stored(r, rows) ==
    /\ r.at = "advert" => \A n \in FtListed(r.list) \ r.left : AdvertOf(r, n) \in rows
    /\ r.at = "done" /\ r.ad => \A n \in FtListed(r.list) : AdvertOf(r, n) \in rows

AdvertInv == \A s \in FtSends : Stored(ft[s], adverts)

LEMMA AdvertInit == FatigueInit => AdvertInv
  BY DEF FatigueInit, AdvertInv, Stored, NoSend

LEMMA AdvertKept ==
    ASSUME FtTypes, AdvertInv, NEW s \in FtSends, NEW r, FtGo(s, r), Stored(r, adverts'),
           adverts \subseteq adverts'
    PROVE  AdvertInv'
<1>1. \A x \in FtSends : ft'[x] = IF x = s THEN r ELSE ft[x]
  BY OnlyThisSend
<1>2. ASSUME NEW x \in FtSends PROVE Stored(ft[x], adverts')
  <2>1. Stored(ft[x], adverts)
    BY DEF AdvertInv
  <2>2. QED
    BY <2>1 DEF Stored
<1>3. QED
  BY <1>1, <1>2 DEF AdvertInv

LEMMA ChargeAdvert == ASSUME FtTypes, AdvertInv, NEW s \in FtSends, FtCharge(s) PROVE AdvertInv'
<1>1. ft[s] \in SendShape /\ ft[s].at = "send"
  BY SendHere DEF FtCharge, FtAt
<1> DEFINE a == [ft[s] EXCEPT !.at = "advert", !.left = FtListed(ft[s].list), !.since = ftNow]
           d == [ft[s] EXCEPT !.at = "done"]
<1>2. a.at = "advert" /\ a.left = FtListed(a.list)
  BY <1>1 DEF SendShape
<1>3. d.at = "done" /\ d.ad = ft[s].ad
  BY <1>1 DEF SendShape
<1> HIDE DEF a, d
<1>4. FtGo(s, a) \/ (FtGo(s, d) /\ ~ft[s].ad)
  BY DEF FtCharge, a, d
<1>5. Stored(a, adverts) /\ (~ft[s].ad => Stored(d, adverts))
  BY <1>2, <1>3 DEF Stored
<1>6. adverts' = adverts
  BY DEF FtCharge, ftRows
<1>7. QED
  BY <1>4, <1>5, <1>6, AdvertKept

LEMMA SaveAdvertAdvert ==
    ASSUME FtTypes, AdvertInv, NEW s \in FtSends, SaveAdvert(s) PROVE AdvertInv'
<1>1. ft[s] \in SendShape /\ ft[s].at = "advert"
  BY SendHere DEF SaveAdvert, FtAt
<1>2. PICK n \in ft[s].left :
        /\ adverts' = adverts \cup {AdvertOf(ft[s], n)}
        /\ FtGo(s, [ft[s] EXCEPT !.left = @ \ {n},
                                 !.at = IF ft[s].left = {n} THEN "done" ELSE "advert"])
  BY DEF SaveAdvert, AdvertOf
<1> DEFINE r == [ft[s] EXCEPT !.left = @ \ {n},
                              !.at = IF ft[s].left = {n} THEN "done" ELSE "advert"]
<1>3. /\ r.op = ft[s].op /\ r.user = ft[s].user /\ r.since = ft[s].since /\ r.list = ft[s].list
      /\ r.left = ft[s].left \ {n}
      /\ r.at = IF ft[s].left = {n} THEN "done" ELSE "advert"
  BY <1>1 DEF SendShape
<1> HIDE DEF r
<1>4. \A m : AdvertOf(r, m) = AdvertOf(ft[s], m)
  BY <1>3 DEF AdvertOf
<1>5. \A m \in FtListed(ft[s].list) \ ft[s].left : AdvertOf(ft[s], m) \in adverts
  BY <1>1 DEF AdvertInv, Stored
<1>6. \A m \in FtListed(r.list) \ r.left : AdvertOf(r, m) \in adverts'
  BY <1>2, <1>3, <1>4, <1>5
<1>7. r.at = "done" => r.left = {}
  BY <1>3
<1>8. Stored(r, adverts')
  BY <1>6, <1>7 DEF Stored
<1>9. FtGo(s, r)
  BY <1>2 DEF r
<1>10. QED
  BY <1>2, <1>8, <1>9, AdvertKept

\* Any other step leaves a send where nothing is stored.
LEMMA AdvertElsewhere ==
    ASSUME FtTypes, AdvertInv, NEW s \in FtSends, NEW r, FtGo(s, r),
           r.at \notin {"advert", "done"}, adverts' = adverts
    PROVE  AdvertInv'
  BY AdvertKept DEF Stored

LEMMA AdvertStep == FtTypes /\ AdvertInv /\ [FatigueNext]_ftVars => AdvertInv'
<1> SUFFICES ASSUME FtTypes, AdvertInv, [FatigueNext]_ftVars PROVE AdvertInv'
  OBVIOUS
<1>1. CASE UNCHANGED <<ft, adverts>>
  BY <1>1 DEF AdvertInv
<1>2. ASSUME NEW s \in FtSends, FtReceive(s) PROVE AdvertInv'
  BY <1>2, Received, AdvertElsewhere DEF FtReceive, ftRows
<1>3. ASSUME NEW s \in FtSends, FtStep(s) PROVE AdvertInv'
  <2>1. ft[s] \in SendShape /\ ft[s].at = "send" /\ adverts' = adverts
    BY <1>3, SendHere DEF FtStep, FtAt, ftRows
  <2> DEFINE run == [ft[s] EXCEPT !.todo = Tail(ft[s].todo)]
             p == [run EXCEPT !.at = "delete", !.number = Head(ft[s].todo)[2], !.since = ftNow]
             g == [run EXCEPT !.group = groupId + 1]
  <2>2. run.at = "send" /\ g.at = "send"
    BY <2>1 DEF SendShape
  <2>3. p.at = "delete"
    BY <2>1 DEF SendShape
  <2> HIDE DEF run, p, g
  <2>4. FtGo(s, p) \/ FtGo(s, run) \/ FtGo(s, g)
    BY <1>3 DEF FtStep, run, p, g
  <2>5. QED
    BY <2>1, <2>2, <2>3, <2>4, AdvertElsewhere
<1>4. ASSUME NEW s \in FtSends, NEW at, at \in {"insert", "send", "stopped"},
             ft[s].at # "idle", FtGo(s, [ft[s] EXCEPT !.at = at]), adverts' = adverts
      PROVE  AdvertInv'
  <2>1. ft[s] \in SendShape
    BY <1>4, SendHere
  <2>2. [ft[s] EXCEPT !.at = at].at = at
    BY <2>1 DEF SendShape
  <2>3. QED
    BY <1>4, <2>2, AdvertElsewhere
<1>5. ASSUME NEW s \in FtSends, DeleteHistory(s) \/ InsertHistory(s) \/ FtStop(s)
      PROVE  AdvertInv'
  <2>1. CASE DeleteHistory(s)
    BY <1>4, <2>1 DEF DeleteHistory, FtAt
  <2>2. CASE InsertHistory(s)
    BY <1>4, <2>2 DEF InsertHistory, FtAt
  <2>3. CASE FtStop(s)
    BY <1>4, <2>3 DEF FtStop
  <2>4. QED
    BY <1>5, <2>1, <2>2, <2>3
<1>6. QED
  BY <1>1, <1>2, <1>3, <1>5, ChargeAdvert, SaveAdvertAdvert
     DEF FatigueNext, ftVars, ftRows, FtTick

LEMMA AdvertHolds == FatigueSpec => []AdvertInv
<1>1. QED
  BY AdvertInit, AdvertStep, FtTypesHold, PTL DEF FatigueSpec

\* Days are counted from midnight: half a day at most before the time itself.
LEMMA DaysAgoBounds ==
    ASSUME NEW now \in Nat, NEW t \in Nat, NEW day \in 0..1
    PROVE  /\ now - t <= 2 * day => t >= DaysAgo(now, day)
           /\ now - t >= 2 * (day + 1) => ~(t >= DaysAgo(now, day))
  BY DEF DaysAgo

(***************************************************************************)
(* Whom an advertisement was sent to, filteredReceivers takes out for that *)
(* many times 24 hours, and leaves in after a day more: for sends of any   *)
(* kind that overlap and stop, each row by row after its charge.           *)
(***************************************************************************)
THEOREM FilterByAdverts == FatigueSpec => []AdvertsFiltered
<1>1. FtTypes /\ AdvertInv => AdvertsFiltered
  <2> SUFFICES ASSUME FtTypes, AdvertInv, NEW kind \in {"sms", "kakao"}, NEW u \in FtUsers,
                      NEW n \in FtNumbers, NEW day \in 0..1
               PROVE  LET free == n \in FilteredReceivers(kind, u, FtNumbers, day) IN
                      /\ (\E t \in Ended(kind, u, n) : ftNow - t <= 2 * day) => ~free
                      /\ (\A a \in adverts : (a.kind = kind /\ a.user = u /\ a.number = n)
                                                => ftNow - a.at >= 2 * (day + 1)) => free
    BY DEF AdvertsFiltered
  <2> DEFINE hit(a) == a.kind = kind /\ a.user = u /\ a.number = n
  <2>1. n \in FilteredReceivers(kind, u, FtNumbers, day) <=>
          \A a \in adverts : ~(hit(a) /\ a.at >= DaysAgo(ftNow, day))
    BY DEF FilteredReceivers
  <2>2. ftNow \in Nat /\ \A a \in adverts : a.at \in Nat
    BY DEF FtTypes, AdvertRows
  <2>3. ASSUME NEW t \in Ended(kind, u, n), ftNow - t <= 2 * day
        PROVE  \E a \in adverts : hit(a) /\ a.at >= DaysAgo(ftNow, day)
    <3>1. PICK s \in FtSends :
            /\ FtAt(s, "done") /\ ft[s].ad /\ ft[s].user = u /\ n \in FtListed(ft[s].list)
            /\ (ft[s].op = "kakao") = (kind = "kakao")
            /\ t = ft[s].since
      BY DEF Ended
    <3> DEFINE a == AdvertOf(ft[s], n)
    <3>2. a \in adverts
      BY <3>1 DEF AdvertInv, Stored, FtAt
    <3>3. a.user = u /\ a.number = n /\ a.at = t /\ a.kind = kind
      BY <3>1 DEF AdvertOf
    <3> HIDE DEF a
    <3>4. a.at >= DaysAgo(ftNow, day)
      BY <2>2, <2>3, <3>2, <3>3, DaysAgoBounds
    <3>5. QED
      BY <3>2, <3>3, <3>4
  <2>4. ASSUME \A a \in adverts : hit(a) => ftNow - a.at >= 2 * (day + 1)
        PROVE  \A a \in adverts : ~(hit(a) /\ a.at >= DaysAgo(ftNow, day))
    BY <2>2, <2>4, DaysAgoBounds
  <2>5. QED
    BY <2>1, <2>3, <2>4
<1>2. QED
  BY <1>1, FtTypesHold, AdvertHolds, PTL

-----------------------------------------------------------------------------
(* The ids of groups and of messages, when sends do not overlap.           *)

Active(r) == r.at \notin {"idle", "done", "stopped"}

(***************************************************************************)
(* Between sends there are at least as many ids of messages as of groups.  *)
(* A default send takes the message's first; an A/B test takes the group's *)
(* first, and a message's last.                                            *)
(***************************************************************************)
SmsIds(left, group, g, m) ==
    /\ g <= m
    /\ left = 1 => g < m
    /\ left = 0 => group \in 1..m

AbIds(todo, group, g, m) ==
    \/ todo # <<>> /\ Head(todo) = <<"group">> /\ g <= m
    \/ /\ todo = <<>> \/ Head(todo) # <<"group">>
       /\ group \in 1..g /\ g <= m + 1
       /\ todo = <<>> => g <= m

IdsOf(r, g, m) ==
    /\ r.op = "sms" => SmsIds(Len(r.todo), r.group, g, m)
    /\ r.op = "ab" => AbIds(r.todo, r.group, g, m)
    /\ r.op \in {"winner", "test", "kakao"} => g <= m

NoIdLost(stopped) == stopped \cap {"ab", "id"} = {}

IdInv ==
    /\ \A s, x \in FtSends : Active(ft[s]) /\ Active(ft[x]) => s = x
    /\ NoIdLost(ftStopped) =>
          /\ messages = 1..messageId
          /\ \A s \in FtSends : Active(ft[s]) => IdsOf(ft[s], groupId, messageId)
          /\ (\A s \in FtSends : ~Active(ft[s])) => groupId <= messageId

LEMMA IdInit == FatigueInit => IdInv
  BY DEF FatigueInit, IdInv, Active, NoSend

\* A step of the only send there is
LEMMA IdsKept ==
    ASSUME FtTypes, NEW s \in FtSends, NEW r, FtGo(s, r),
           \A x \in FtSends : x # s => ~Active(ft[x]),
           NoIdLost(ftStopped') =>
              /\ messages' = 1..messageId'
              /\ IF Active(r) THEN IdsOf(r, groupId', messageId') ELSE groupId' <= messageId'
    PROVE  IdInv'
<1>1. \A x \in FtSends : ft'[x] = IF x = s THEN r ELSE ft[x]
  BY OnlyThisSend
<1>2. \A x \in FtSends : Active(ft'[x]) => x = s
  BY <1>1
<1>3. QED
  BY <1>1, <1>2 DEF IdInv

LEMMA OnlyActive ==
    ASSUME IdInv, NEW s \in FtSends, Active(ft[s])
    PROVE  /\ \A x \in FtSends : x # s => ~Active(ft[x])
           /\ NoIdLost(ftStopped) => messages = 1..messageId /\ IdsOf(ft[s], groupId, messageId)
  BY DEF IdInv

\* What is left of a plan says which kind its first step is.
LEMMA FirstOfRest ==
    ASSUME NEW todo \in Seq(FtSteps), todo # <<>>
    PROVE  /\ SmsRest(todo) =>
                /\ Head(todo) = <<"group">> => Len(todo) = 1
                /\ Head(todo) = <<"message">> => Len(todo) = 2
                /\ Head(todo) \in PostSteps => Len(todo) >= 3
           /\ AbRest(todo) =>
                /\ Head(todo) # <<"message">> => Tail(todo) # <<>>
                /\ Tail(todo) # <<>> => Head(Tail(todo)) # <<"group">>
<1> DEFINE n == Len(todo)
<1>1. /\ n \in Nat \ {0} /\ Head(todo) = todo[1] /\ Len(Tail(todo)) = n - 1
      /\ Tail(todo) \in Seq(FtSteps)
      /\ AbRest(todo) => \A i \in 1..Len(Tail(todo)) : Tail(todo)[i] # <<"group">>
  BY Rests
<1>2. SmsRest(todo) =>
        /\ n = 1 => todo[1] = <<"group">>
        /\ n = 2 => todo[1] = <<"message">>
        /\ n >= 3 => todo[1] \in PostSteps
  BY <1>1 DEF SmsRest
<1>3. AbRest(todo) /\ n = 1 => todo[1] = <<"message">>
  BY <1>1 DEF AbRest
<1>4. Tail(todo) # <<>> => Len(Tail(todo)) >= 1 /\ Head(Tail(todo)) = Tail(todo)[1]
  BY <1>1, EmptySeq
<1>5. Tail(todo) = <<>> => n = 1
  <2> DEFINE rest == Tail(todo)
             k == Len(rest)
  <2>1. k = n - 1 /\ rest \in Seq(FtSteps) /\ n \in Nat \ {0}
    BY <1>1
  <2> HIDE DEF rest, n
  <2>2. rest = <<>> <=> k = 0
    BY <2>1, EmptySeq
  <2> HIDE DEF k
  <2>3. rest = <<>> => n = 1
    BY <2>1, <2>2
  <2>4. QED
    BY <2>3 DEF rest
<1>6. n = 1 \/ n = 2 \/ n >= 3
  BY <1>1
<1> DEFINE h == todo[1]
           gr == <<"group">>
           me == <<"message">>
<1>7. ASSUME SmsRest(todo)
      PROVE  /\ h = gr => n = 1
             /\ h = me => n = 2
             /\ h \in PostSteps => n >= 3
  <2>1. /\ n = 1 => h = gr
        /\ n = 2 => h = me
        /\ n >= 3 => h \in PostSteps
    BY <1>2, <1>7
  <2>2. gr # me /\ (h \in PostSteps => h # gr /\ h # me)
    BY StepKinds
  <2> HIDE DEF n, h, gr, me
  <2>3. QED
    BY <1>6, <2>1, <2>2
<1>8. ASSUME AbRest(todo) PROVE Head(todo) # <<"message">> => Tail(todo) # <<>>
  BY <1>1, <1>3, <1>5, <1>8
<1>9. ASSUME AbRest(todo), Tail(todo) # <<>> PROVE Head(Tail(todo)) # <<"group">>
  <2> DEFINE rest == Tail(todo)
             k == Len(rest)
  <2>1. k >= 1 /\ k \in Nat /\ Head(rest) = rest[1] /\ \A i \in 1..k : rest[i] # <<"group">>
    BY <1>1, <1>4, <1>9
  <2>2. 1 \in 1..k
    BY <2>1
  <2> HIDE DEF rest, k
  <2>3. Head(rest) # <<"group">>
    BY <2>1, <2>2
  <2>4. QED
    BY <2>3 DEF rest
<1>10. QED
  BY <1>1, <1>7, <1>8, <1>9

\* The three steps of a default send: a post, the message, the group.
LEMMA SmsIdsGoOn ==
    ASSUME NEW k \in Nat, NEW g \in Nat, NEW m \in Nat, NEW group, SmsIds(k, group, g, m)
    PROVE  /\ k >= 3 => SmsIds(k - 1, group, g, m)
           /\ k = 2 => SmsIds(k - 1, group, g, m + 1)
           /\ k = 1 => SmsIds(k - 1, g + 1, g + 1, m)
  BY DEF SmsIds

LEMMA PostIds ==
    ASSUME NEW r \in SendShape, r.todo # <<>>, SendOK(r), Head(r.todo) \in PostSteps,
           NEW next \in SendShape, next.op = r.op, next.todo = Tail(r.todo), next.group = r.group,
           NEW g \in Nat, NEW m \in Nat, IdsOf(r, g, m)
    PROVE  IdsOf(next, g, m)
<1>1. r.todo \in Seq(FtSteps) /\ Head(r.todo) # <<"group">> /\ Head(r.todo) # <<"message">>
  BY StepKinds DEF SendShape
<1> DEFINE k == Len(r.todo)
<1>2. k \in Nat /\ Len(next.todo) = k - 1
  BY <1>1, Rests
<1>3. CASE r.op = "sms"
  <2>1. SmsRest(r.todo) /\ SmsIds(k, r.group, g, m)
    BY <1>3 DEF SendOK, IdsOf
  <2>2. k >= 3
    BY <1>1, <2>1, FirstOfRest
  <2> HIDE DEF k
  <2>3. SmsIds(k - 1, next.group, g, m)
    BY <1>2, <2>1, <2>2, SmsIdsGoOn
  <2>4. QED
    BY <1>2, <1>3, <2>3 DEF IdsOf
<1>4. CASE r.op = "ab"
  <2>1. AbRest(r.todo)
    BY <1>4 DEF SendOK
  <2>2. next.todo # <<>> /\ Head(next.todo) # <<"group">>
    BY <1>1, <2>1, FirstOfRest
  <2>3. AbIds(next.todo, next.group, g, m)
    BY <1>1, <1>4, <2>2 DEF IdsOf, AbIds
  <2>4. QED
    BY <1>4, <2>3 DEF IdsOf
<1>5. CASE r.op \in {"winner", "test"}
  BY <1>5 DEF IdsOf
<1>6. QED
  BY <1>3, <1>4, <1>5 DEF SendOK, SendShape, FtKinds

LEMMA MessageIds ==
    ASSUME NEW r \in SendShape, r.todo # <<>>, SendOK(r), Head(r.todo) = <<"message">>,
           NEW next \in SendShape, next.op = r.op, next.todo = Tail(r.todo), next.group = r.group,
           NEW g \in Nat, NEW m \in Nat, IdsOf(r, g, m)
    PROVE  IdsOf(next, g, m + 1)
<1>1. r.todo \in Seq(FtSteps) /\ Head(r.todo) # <<"group">>
  BY StepKinds DEF SendShape
<1> DEFINE k == Len(r.todo)
<1>2. k \in Nat /\ Len(next.todo) = k - 1
  BY <1>1, Rests
<1>3. CASE r.op = "sms"
  <2>1. SmsRest(r.todo) /\ SmsIds(k, r.group, g, m)
    BY <1>3 DEF SendOK, IdsOf
  <2>2. k = 2
    BY <1>1, <2>1, FirstOfRest
  <2> HIDE DEF k
  <2>3. SmsIds(k - 1, next.group, g, m + 1)
    BY <1>2, <2>1, <2>2, SmsIdsGoOn
  <2>4. QED
    BY <1>2, <1>3, <2>3 DEF IdsOf
<1>4. CASE r.op = "ab"
  <2>1. AbRest(r.todo)
    BY <1>4 DEF SendOK
  <2>2. next.todo # <<>> => Head(next.todo) # <<"group">>
    BY <1>1, <2>1, FirstOfRest
  <2>3. r.group \in 1..g /\ g <= m + 1
    BY <1>1, <1>4 DEF IdsOf, AbIds
  <2>4. AbIds(next.todo, next.group, g, m + 1)
    BY <2>2, <2>3 DEF AbIds
  <2>5. QED
    BY <1>4, <2>4 DEF IdsOf
<1>5. r.op \notin {"winner", "test"}
  BY <1>1, Rests, StepKinds DEF SendOK
<1>6. QED
  BY <1>3, <1>4, <1>5 DEF SendOK, SendShape, FtKinds

LEMMA GroupIds ==
    ASSUME NEW r \in SendShape, r.todo # <<>>, SendOK(r), Head(r.todo) = <<"group">>,
           NEW g \in Nat, NEW m \in Nat, IdsOf(r, g, m),
           NEW next \in SendShape, next.op = r.op, next.todo = Tail(r.todo), next.group = g + 1
    PROVE  IdsOf(next, g + 1, m)
<1>1. r.todo \in Seq(FtSteps) /\ Head(r.todo) # <<"message">>
  BY StepKinds DEF SendShape
<1> DEFINE k == Len(r.todo)
<1>2. k \in Nat /\ Len(next.todo) = k - 1
  BY <1>1, Rests
<1>3. CASE r.op = "sms"
  <2>1. SmsRest(r.todo) /\ SmsIds(k, r.group, g, m)
    BY <1>3 DEF SendOK, IdsOf
  <2>2. k = 1
    BY <1>1, <2>1, FirstOfRest
  <2> HIDE DEF k
  <2>3. SmsIds(k - 1, next.group, g + 1, m)
    BY <1>2, <2>1, <2>2, SmsIdsGoOn
  <2>4. QED
    BY <1>2, <1>3, <2>3 DEF IdsOf
<1>4. CASE r.op = "ab"
  <2>1. AbRest(r.todo) /\ g <= m
    BY <1>4 DEF SendOK, IdsOf, AbIds
  <2>2. next.todo # <<>> /\ Head(next.todo) # <<"group">> /\ g <= m
    BY <1>1, <2>1, FirstOfRest
  <2>3. AbIds(next.todo, next.group, g + 1, m)
    BY <2>2 DEF AbIds
  <2>4. QED
    BY <1>4, <2>3 DEF IdsOf
<1>5. r.op \notin {"winner", "test"}
  BY <1>1, Rests, StepKinds DEF SendOK
<1>6. QED
  BY <1>3, <1>4, <1>5 DEF SendOK, SendShape, FtKinds

LEMMA ReceiveIds == ASSUME FtTypes, IdInv, ~FtOverlap, NEW s \in FtSends, FtReceive(s) PROVE IdInv'
<1>1. /\ \A x \in FtSends : ~Active(ft[x])
      /\ UNCHANGED <<messages, messageId, groupId, ftStopped>>
  BY DEF FtReceive, FtFree, FtAt, Active, ftRows
<1>2. PICK r : /\ FtGo(s, r) /\ SendOK(r) /\ r.at = "send"
               /\ (r.op = "sms" => r.todo = Plan("sms", r.list))
               /\ (r.op = "ab" => r.todo = Plan("ab", r.list) /\ Len(r.list) > 1)
  BY Received
<1>3. r.list \in FtLists /\ Active(r)
  BY <1>2 DEF SendOK, SendShape, Active
<1>4. ASSUME groupId <= messageId PROVE IdsOf(r, groupId, messageId)
  <2>1. ASSUME r.op = "sms" PROVE SmsIds(Len(r.todo), r.group, groupId, messageId)
    <3> DEFINE k == Len(r.todo)
    <3>1. k >= 2 /\ k \in Nat
      BY <1>2, <1>3, <2>1, SmsPlan, LenProperties
    <3> HIDE DEF k
    <3>2. SmsIds(k, r.group, groupId, messageId)
      BY <1>4, <3>1 DEF SmsIds
    <3>3. QED
      BY <3>2 DEF k
  <2>2. ASSUME r.op = "ab" PROVE AbIds(r.todo, r.group, groupId, messageId)
    <3>1. r.todo # <<>> /\ Head(r.todo) = <<"group">>
      BY <1>2, <1>3, <2>2, AbPlan
    <3>2. QED
      BY <1>4, <3>1 DEF AbIds
  <2>3. QED
    BY <1>4, <2>1, <2>2 DEF IdsOf
<1>5. QED
  BY <1>1, <1>2, <1>3, <1>4, IdsKept DEF IdInv

LEMMA StepIds == ASSUME FtTypes, IdInv, NEW s \in FtSends, FtStep(s) PROVE IdInv'
<1> DEFINE r == ft[s]
           todo == r.todo
           run == [r EXCEPT !.todo = Tail(todo)]
           post == [run EXCEPT !.at = "delete", !.number = Head(todo)[2], !.since = ftNow]
           group == [run EXCEPT !.group = groupId + 1]
<1>1. /\ r \in SendShape /\ SendOK(r) /\ r.at = "send" /\ todo # <<>> /\ todo \in Seq(FtSteps)
      /\ Head(todo) \in FtSteps /\ Tail(todo) \in Seq(FtSteps)
  <2>1. /\ r \in SendShape /\ SendOK(r) /\ r.at = "send" /\ todo # <<>>
    BY SendHere DEF FtStep, FtAt
  <2>2. todo \in Seq(FtSteps)
    BY <2>1 DEF SendShape
  <2>3. QED
    BY <2>1, <2>2, Rests
<1>2. Active(r) /\ groupId \in Nat /\ messageId \in Nat /\ ftNow \in Nat
  BY <1>1 DEF Active, FtTypes
<1>3. /\ \A x \in FtSends : x # s => ~Active(ft[x])
      /\ NoIdLost(ftStopped) => messages = 1..messageId /\ IdsOf(r, groupId, messageId)
  BY <1>2, OnlyActive
<1>4. /\ run \in SendShape /\ run.op = r.op /\ run.todo = Tail(todo) /\ run.group = r.group
      /\ run.at = "send"
  BY <1>1 DEF SendShape
<1>5. ftStopped' = ftStopped
  BY DEF FtStep
<1>6. CASE /\ Head(todo)[1] = "post" /\ FtGo(s, post)
           /\ UNCHANGED <<messages, messageId, groupId>>
  <2>1. Head(todo) \in PostSteps
    <3>1. <<"message">>[1] = "message" /\ <<"group">>[1] = "group"
      OBVIOUS
    <3>2. QED
      BY <1>1, <1>6, <3>1 DEF FtSteps
  <2>2. Head(todo)[2] \in FtNumbers
    BY <2>1, StepKinds
  <2> HIDE DEF run
  <2>3. /\ post \in SendShape /\ post.op = r.op /\ post.todo = Tail(todo)
        /\ post.group = r.group /\ post.at = "delete"
    BY <1>2, <1>4, <2>2 DEF SendShape, SendStages
  <2> HIDE DEF post
  <2>4. NoIdLost(ftStopped) => IdsOf(post, groupId, messageId)
    BY <1>1, <1>2, <1>3, <2>1, <2>3, PostIds
  <2>5. Active(post)
    BY <2>3 DEF Active
  <2>6. QED
    BY <1>3, <1>5, <1>6, <2>4, <2>5, IdsKept
<1>7. CASE /\ Head(todo)[1] = "message" /\ FtGo(s, run)
           /\ messageId' = messageId + 1
           /\ messages' = messages \cup {messageId + 1}
           /\ UNCHANGED groupId
  <2>1. Head(todo) = <<"message">>
    <3>1. <<"group">>[1] = "group" /\ \A p \in PostSteps : p[1] = "post"
      BY StepKinds
    <3>2. QED
      BY <1>1, <1>7, <3>1 DEF FtSteps
  <2> HIDE DEF run
  <2>2. NoIdLost(ftStopped) => IdsOf(run, groupId, messageId + 1)
    BY <1>1, <1>2, <1>3, <1>4, <2>1, MessageIds
  <2>3. NoIdLost(ftStopped) => messages' = 1..messageId'
    BY <1>2, <1>3, <1>7
  <2>4. Active(run)
    BY <1>4 DEF Active
  <2>5. QED
    BY <1>3, <1>5, <1>7, <2>2, <2>3, <2>4, IdsKept
<1>8. CASE /\ Head(todo)[1] = "group" /\ FtGo(s, group)
           /\ groupId' = groupId + 1
           /\ UNCHANGED <<messages, messageId>>
  <2>1. Head(todo) = <<"group">>
    <3>1. <<"message">>[1] = "message" /\ \A p \in PostSteps : p[1] = "post"
      BY StepKinds
    <3>2. QED
      BY <1>1, <1>8, <3>1 DEF FtSteps
  <2> HIDE DEF run
  <2>2. /\ group \in SendShape /\ group.op = r.op /\ group.todo = Tail(todo)
        /\ group.group = groupId + 1 /\ group.at = "send"
    BY <1>2, <1>4 DEF SendShape
  <2> HIDE DEF group
  <2>3. NoIdLost(ftStopped) => IdsOf(group, groupId + 1, messageId)
    BY <1>1, <1>2, <1>3, <2>1, <2>2, GroupIds
  <2>4. Active(group)
    BY <2>2 DEF Active
  <2>5. QED
    BY <1>3, <1>5, <1>8, <2>3, <2>4, IdsKept
<1>9. QED
  BY <1>6, <1>7, <1>8 DEF FtStep, ftRows

\* A step that stays with its group and its plan.
LEMMA SameIds ==
    ASSUME FtTypes, IdInv, NEW s \in FtSends, NEW r, FtGo(s, r), Active(ft[s]), Active(r),
           r.op = ft[s].op, r.todo = ft[s].todo, r.group = ft[s].group,
           UNCHANGED <<messages, messageId, groupId, ftStopped>>
    PROVE  IdInv'
<1>1. /\ \A x \in FtSends : x # s => ~Active(ft[x])
      /\ NoIdLost(ftStopped) => messages = 1..messageId /\ IdsOf(ft[s], groupId, messageId)
  BY OnlyActive
<1>2. NoIdLost(ftStopped) => IdsOf(r, groupId, messageId)
  BY <1>1 DEF IdsOf
<1>3. QED
  BY <1>1, <1>2, IdsKept

\* A send that is over.
LEMMA NoMoreIds ==
    ASSUME NEW r, SendOK(r), r.todo = <<>>, NEW g \in Nat, NEW m \in Nat, IdsOf(r, g, m)
    PROVE  g <= m /\ (r.op \in {"sms", "ab"} => r.group \in 1..m)
<1>1. Len(<<>>) = 0
  BY EmptySeq
<1>2. r.op \in FtKinds
  BY DEF SendOK, SendShape
<1>3. CASE r.op = "sms"
  <2>1. SmsIds(0, r.group, g, m)
    BY <1>1, <1>3 DEF IdsOf
  <2>2. QED
    BY <1>3, <2>1 DEF SmsIds
<1>4. CASE r.op = "ab"
  <2>1. AbIds(r.todo, r.group, g, m)
    BY <1>4 DEF IdsOf
  <2>2. QED
    BY <1>4, <2>1 DEF AbIds
<1>5. CASE r.op \in {"winner", "test", "kakao"}
  BY <1>5 DEF IdsOf
<1>6. QED
  BY <1>2, <1>3, <1>4, <1>5 DEF FtKinds

\* A send that ends after its charge.
LEMMA DoneIds ==
    ASSUME FtTypes, IdInv, NEW s \in FtSends, NEW r, FtGo(s, r), Active(ft[s]), ~Active(r),
           SendOK(ft[s]), ft[s].todo = <<>>,
           UNCHANGED <<messages, messageId, groupId, ftStopped>>
    PROVE  IdInv'
<1>1. /\ \A x \in FtSends : x # s => ~Active(ft[x])
      /\ NoIdLost(ftStopped) => messages = 1..messageId /\ IdsOf(ft[s], groupId, messageId)
  BY OnlyActive
<1>2. NoIdLost(ftStopped) => groupId <= messageId
  BY <1>1, NoMoreIds DEF FtTypes
<1>3. QED
  BY <1>1, <1>2, IdsKept

LEMMA ChargeIds == ASSUME FtTypes, IdInv, NEW s \in FtSends, FtCharge(s) PROVE IdInv'
<1>1. /\ ft[s] \in SendShape /\ SendOK(ft[s]) /\ ft[s].at = "send" /\ ft[s].todo = <<>>
      /\ UNCHANGED <<messages, messageId, groupId, ftStopped>>
  BY SendHere DEF FtCharge, FtAt, ftRows
<1> DEFINE a == [ft[s] EXCEPT !.at = "advert", !.left = FtListed(ft[s].list), !.since = ftNow]
           d == [ft[s] EXCEPT !.at = "done"]
<1>2. a.at = "advert" /\ a.op = ft[s].op /\ a.todo = ft[s].todo /\ a.group = ft[s].group
  BY <1>1 DEF SendShape
<1>3. d.at = "done"
  BY <1>1 DEF SendShape
<1> HIDE DEF a, d
<1>4. FtGo(s, a) \/ FtGo(s, d)
  BY DEF FtCharge, a, d
<1>5. Active(ft[s]) /\ Active(a) /\ ~Active(d)
  BY <1>1, <1>2, <1>3 DEF Active
<1>6. QED
  BY <1>1, <1>2, <1>4, <1>5, SameIds, DoneIds

LEMMA SaveAdvertIds == ASSUME FtTypes, IdInv, NEW s \in FtSends, SaveAdvert(s) PROVE IdInv'
<1>1. /\ ft[s] \in SendShape /\ SendOK(ft[s]) /\ ft[s].at = "advert" /\ ft[s].todo = <<>>
      /\ UNCHANGED <<messages, messageId, groupId, ftStopped>>
  BY SendHere DEF SaveAdvert, FtAt, SendOK
<1>2. PICK n : FtGo(s, [ft[s] EXCEPT !.left = @ \ {n},
                                     !.at = IF ft[s].left = {n} THEN "done" ELSE "advert"])
  BY DEF SaveAdvert
<1> DEFINE r == [ft[s] EXCEPT !.left = @ \ {n},
                              !.at = IF ft[s].left = {n} THEN "done" ELSE "advert"]
<1>3. r.at \in {"done", "advert"} /\ r.op = ft[s].op /\ r.todo = ft[s].todo /\ r.group = ft[s].group
  BY <1>1 DEF SendShape
<1> HIDE DEF r
<1>4. FtGo(s, r) /\ Active(ft[s]) /\ (Active(r) \/ ~Active(r))
  BY <1>1, <1>2 DEF r, Active
<1>5. CASE Active(r)
  BY <1>1, <1>3, <1>4, <1>5, SameIds
<1>6. CASE ~Active(r)
  BY <1>1, <1>4, <1>6, DoneIds
<1>7. QED
  BY <1>5, <1>6

\* What a default send leaves when it stops: the message before the group.
LEMMA StopIds == ASSUME FtTypes, IdInv, NEW s \in FtSends, FtStop(s) PROVE IdInv'
<1> DEFINE r == [ft[s] EXCEPT !.at = "stopped"]
           next == IF ft[s].todo = <<>> THEN "none" ELSE Head(ft[s].todo)[1]
<1>1. ft[s] \in SendShape /\ SendOK(ft[s]) /\ Active(ft[s])
  BY SendHere DEF FtStop, Active
<1>2. r.at = "stopped"
  BY <1>1 DEF SendShape
<1> HIDE DEF r
<1>3. FtGo(s, r) /\ messages' = messages /\ ~Active(r)
  BY <1>2 DEF FtStop, r, Active
<1>4. /\ \A x \in FtSends : x # s => ~Active(ft[x])
      /\ NoIdLost(ftStopped) => messages = 1..messageId /\ IdsOf(ft[s], groupId, messageId)
  BY <1>1, OnlyActive
<1>5. ASSUME NoIdLost(ftStopped')
      PROVE  messages' = 1..messageId' /\ groupId' <= messageId'
  <2>1. ft[s].op \in ftStopped' /\ ftStopped \subseteq ftStopped'
    BY DEF FtStop
  <2>2. NoIdLost(ftStopped) /\ ft[s].op # "ab"
    BY <1>5, <2>1 DEF NoIdLost
  <2>3. messages = 1..messageId /\ IdsOf(ft[s], groupId, messageId)
    BY <1>4, <2>2
  <2>4. ft[s].op \in {"sms", "winner", "test", "kakao"}
    BY <1>1, <2>2 DEF SendShape, FtKinds
  <2>5. groupId <= messageId
    BY <2>3, <2>4 DEF IdsOf, SmsIds
  <2>6. CASE UNCHANGED <<messageId, groupId>>
    BY <1>3, <2>3, <2>5, <2>6
  <2>7. CASE next = "message" /\ ftStopped' = ftStopped \cup (IF ft[s].at = "send" THEN {ft[s].op} ELSE {ft[s].op, ft[s].at}) \cup {"id"}
    BY <1>5, <2>7 DEF NoIdLost
  <2>8. CASE next = "group" /\ groupId' = groupId + 1 /\ UNCHANGED messageId
    <3>1. ft[s].todo # <<>> /\ Head(ft[s].todo)[1] = "group" /\ ft[s].todo \in Seq(FtSteps)
      BY <1>1, <2>8 DEF SendShape
    <3>2. Head(ft[s].todo) \in FtSteps
      BY <3>1, Rests
    <3>3. Head(ft[s].todo) = <<"group">>
      <4>1. <<"message">>[1] = "message" /\ \A p \in PostSteps : p[1] = "post"
        BY StepKinds
      <4>2. QED
        BY <3>1, <3>2, <4>1 DEF FtSteps
    <3>4. ft[s].op = "sms" /\ SmsRest(ft[s].todo)
      <4>1. ft[s].op \notin {"winner", "test"}
        BY <1>1, <3>1, <3>3, Rests, StepKinds DEF SendOK
      <4>2. QED
        BY <1>1, <2>4, <3>1, <4>1 DEF SendOK
    <3>5. Len(ft[s].todo) = 1
      BY <3>1, <3>3, <3>4, FirstOfRest
    <3>6. SmsIds(1, ft[s].group, groupId, messageId)
      BY <2>3, <3>4, <3>5 DEF IdsOf
    <3>7. groupId < messageId
      BY <3>6 DEF SmsIds
    <3> HIDE DEF next
    <3>8. groupId + 1 <= messageId
      BY <3>7 DEF FtTypes
    <3>9. QED
      BY <1>3, <2>3, <2>8, <3>8
  <2>9. QED
    BY <2>6, <2>7, <2>8 DEF FtStop
<1>6. QED
  BY <1>3, <1>4, <1>5, IdsKept

LEMMA IdStep == ~FtOverlap /\ FtTypes /\ IdInv /\ [FatigueNext]_ftVars => IdInv'
<1> SUFFICES ASSUME ~FtOverlap, FtTypes, IdInv, [FatigueNext]_ftVars PROVE IdInv'
  OBVIOUS
<1>1. CASE UNCHANGED <<messages, messageId, groupId, ft, ftStopped>>
  BY <1>1 DEF IdInv
<1>2. ASSUME NEW s \in FtSends, DeleteHistory(s) PROVE IdInv'
  <2>1. ft[s] \in SendShape /\ ft[s].at = "delete"
    BY <1>2, SendHere DEF DeleteHistory, FtAt
  <2> DEFINE r == [ft[s] EXCEPT !.at = "insert"]
  <2>2. r.at = "insert" /\ r.op = ft[s].op /\ r.todo = ft[s].todo /\ r.group = ft[s].group
    BY <2>1 DEF SendShape
  <2> HIDE DEF r
  <2>3. FtGo(s, r) /\ UNCHANGED <<messages, messageId, groupId, ftStopped>>
    BY <1>2 DEF DeleteHistory, r
  <2>4. QED
    BY <2>1, <2>2, <2>3, SameIds DEF Active
<1>3. ASSUME NEW s \in FtSends, InsertHistory(s) PROVE IdInv'
  <2>1. ft[s] \in SendShape /\ ft[s].at = "insert"
    BY <1>3, SendHere DEF InsertHistory, FtAt
  <2> DEFINE r == [ft[s] EXCEPT !.at = "send"]
  <2>2. r.at = "send" /\ r.op = ft[s].op /\ r.todo = ft[s].todo /\ r.group = ft[s].group
    BY <2>1 DEF SendShape
  <2> HIDE DEF r
  <2>3. FtGo(s, r) /\ UNCHANGED <<messages, messageId, groupId, ftStopped>>
    BY <1>3 DEF InsertHistory, r
  <2>4. QED
    BY <2>1, <2>2, <2>3, SameIds DEF Active
<1>4. QED
  BY <1>1, <1>2, <1>3, ReceiveIds, StepIds, ChargeIds, SaveAdvertIds, StopIds
     DEF FatigueNext, ftVars, ftRows, FtTick

(***************************************************************************)
(* When sends do not overlap, no A/B test stopped and no id of a message   *)
(* was lost, the rows of an advertisement are accepted: there is a message *)
(* with the id of the group, because every send gives out as many ids of   *)
(* messages as of groups at least, and gave one of its own before it.      *)
(***************************************************************************)
THEOREM AdvertRowsAccepted == ASSUME ~FtOverlap PROVE FatigueSpec => []AdvertsAccepted
<1>1. FtTypes /\ IdInv => AdvertsAccepted
  <2> SUFFICES ASSUME FtTypes, IdInv, NEW s \in FtSends, FtAt(s, "advert"), NoIdLost(ftStopped)
               PROVE  AdvertPossible(ft[s])
    BY DEF AdvertsAccepted, NoIdLost
  <2>1. SendOK(ft[s]) /\ ft[s] \in SendShape /\ ft[s].todo = <<>> /\ Active(ft[s]) /\ ft[s].ad
    BY SendHere DEF FtAt, SendOK, Active
  <2>2. messages = 1..messageId /\ IdsOf(ft[s], groupId, messageId)
    BY <2>1, OnlyActive
  <2>3. ft[s].op \in {"sms", "ab"} => ft[s].group \in 1..messageId
    BY <2>1, <2>2, NoMoreIds DEF FtTypes
  <2>4. ft[s].op \in {"sms", "ab", "kakao"}
    BY <2>1 DEF SendOK, SendShape, FtKinds
  <2>5. QED
    BY <2>2, <2>3, <2>4 DEF AdvertPossible
<1>2. FatigueInit => IdInv
  BY IdInit
<1>3. FtTypes /\ IdInv /\ [FatigueNext]_ftVars => IdInv'
  BY IdStep
<1>4. QED
  BY <1>1, <1>2, <1>3, FtTypesHold, PTL DEF FatigueSpec

-----------------------------------------------------------------------------
(* Segments: types, and what each step of a request does.                  *)

Filters == [base : SegQueries, conds : SUBSET SegConds, excluded : SUBSET FtNumbers]

RowShape ==
    [live : BOOLEAN, user : FtUsers \cup {SegNone}, query : SegQueries \cup {SegNone},
     filter : Filters \cup {SegNone}]

SegOps == {"create", "name", "nofilter", "reset", "delete", "query", "value", "fatigue"}

SegShape ==
    [at : {"create", "check", "rows", "history", "find", "save"}, op : SegOps, user : FtUsers,
     id : SegIds, value : SegQueries \cup SegConds \cup {SegNone}, days : Nat, copy : RowShape,
     new : Filters \cup {SegNone}, todo : SUBSET FtNumbers, now : Nat]

SegOK(r) ==
    /\ r \in SegShape
    /\ r.op = "query" => r.value \in SegQueries
    /\ r.op = "value" => r.value \in SegConds
    /\ r.op = "create" => r.at = "create"
    /\ r.at \in {"rows", "history"} => r.op = "fatigue"
    /\ (r.op \in {"nofilter", "reset", "value", "fatigue"} /\ r.at # "check") => r.new \in Filters

SegTypes ==
    /\ segments \in [SegIds -> RowShape]
    /\ seg \in [SegRequests -> {SegIdle} \cup SegShape]
    /\ \A q \in SegRequests : seg[q] = SegIdle \/ SegOK(seg[q])

LEMMA SegHere ==
    ASSUME SegTypes, NEW q \in SegRequests, seg[q].at # "idle"
    PROVE  SegOK(seg[q]) /\ seg[q] \in SegShape /\ segments[seg[q].id] \in RowShape
<1>1. SegOK(seg[q]) /\ seg[q] \in SegShape
  BY DEF SegTypes, SegIdle, SegOK
<1>2. seg[q].id \in SegIds
  BY <1>1 DEF SegShape
<1>3. QED
  BY <1>1, <1>2 DEF SegTypes

LEMMA OnlyThisRequest ==
    ASSUME SegTypes, NEW q \in SegRequests, NEW r, SegGo(q, r)
    PROVE  \A x \in SegRequests : seg'[x] = IF x = q THEN r ELSE seg[x]
  BY DEF SegTypes, SegGo

LEMMA SegTypesKept ==
    ASSUME SegTypes, NEW q \in SegRequests, NEW r, SegGo(q, r), r = SegIdle \/ SegOK(r),
           segments' \in [SegIds -> RowShape]
    PROVE  SegTypes'
<1>1. seg' \in [SegRequests -> {SegIdle} \cup SegShape]
  BY DEF SegTypes, SegGo, SegOK
<1>2. QED
  BY <1>1, OnlyThisRequest DEF SegTypes

LEMMA NoSegmentRow == NoSegment \in RowShape /\ NoSegment.filter = SegNone /\ ~NoSegment.live
  BY DEF NoSegment, RowShape

\* A request comes in with nothing read yet.
LEMMA SegReceived ==
    ASSUME SegTypes, NEW q \in SegRequests, SegReceive(q)
    PROVE  \E r : /\ SegGo(q, r) /\ SegOK(r) /\ r.new = SegNone /\ r.copy = NoSegment
                  /\ r.at = "check" \/ (r.at = "create" /\ segments[r.id] = NoSegment)
<1>1. PICK u \in FtUsers, g \in SegIds :
        \/ /\ segments[g] = NoSegment
           /\ SegGo(q, [SegRequest("create", u, g) EXCEPT !.at = "create"])
        \/ \E op \in {"name", "nofilter", "reset", "delete"} : SegGo(q, SegRequest(op, u, g))
        \/ \E x \in SegQueries : SegGo(q, [SegRequest("query", u, g) EXCEPT !.value = x])
        \/ \E c \in SegConds : SegGo(q, [SegRequest("value", u, g) EXCEPT !.value = c])
        \/ \E d \in 1..2 : SegGo(q, [SegRequest("fatigue", u, g) EXCEPT !.days = d])
  BY DEF SegReceive
<1>2. ASSUME NEW op \in SegOps
      PROVE  /\ SegRequest(op, u, g) \in SegShape
             /\ SegRequest(op, u, g).op = op /\ SegRequest(op, u, g).id = g
             /\ SegRequest(op, u, g).at = "check" /\ SegRequest(op, u, g).new = SegNone
             /\ SegRequest(op, u, g).copy = NoSegment
  BY NoSegmentRow DEF SegRequest, SegShape
<1>3. ASSUME NEW r \in SegShape, SegGo(q, r), r.new = SegNone, r.copy = NoSegment,
             r.op = "query" => r.value \in SegQueries,
             r.op = "value" => r.value \in SegConds,
             \/ r.at = "check" /\ r.op # "create"
             \/ r.at = "create" /\ r.op = "create" /\ segments[r.id] = NoSegment
      PROVE  \E x : /\ SegGo(q, x) /\ SegOK(x) /\ x.new = SegNone /\ x.copy = NoSegment
                    /\ x.at = "check" \/ (x.at = "create" /\ segments[x.id] = NoSegment)
  <2>1. SegOK(r)
    BY <1>3 DEF SegOK
  <2>2. QED
    BY <1>3, <2>1
<1>4. CASE /\ segments[g] = NoSegment
           /\ SegGo(q, [SegRequest("create", u, g) EXCEPT !.at = "create"])
  <2> DEFINE base == SegRequest("create", u, g)
             r == [base EXCEPT !.at = "create"]
  <2>1. base \in SegShape /\ base.op = "create" /\ base.id = g /\ base.new = SegNone /\ base.copy = NoSegment
    BY <1>2 DEF SegOps
  <2> HIDE DEF base
  <2>2. /\ r \in SegShape /\ r.op = "create" /\ r.id = g /\ r.at = "create"
        /\ r.new = SegNone /\ r.copy = NoSegment
    BY <2>1 DEF SegShape
  <2>3. SegGo(q, r)
    BY <1>4 DEF base
  <2> HIDE DEF r
  <2>4. QED
    BY <1>3, <1>4, <2>2, <2>3
<1>5. ASSUME NEW op \in {"name", "nofilter", "reset", "delete"}, SegGo(q, SegRequest(op, u, g))
      PROVE  \E x : /\ SegGo(q, x) /\ SegOK(x) /\ x.new = SegNone /\ x.copy = NoSegment
                    /\ x.at = "check" \/ (x.at = "create" /\ segments[x.id] = NoSegment)
  <2> DEFINE r == SegRequest(op, u, g)
  <2>1. r \in SegShape /\ r.op = op /\ r.at = "check" /\ r.new = SegNone /\ r.copy = NoSegment
    BY <1>2 DEF SegOps
  <2> HIDE DEF r
  <2>2. SegGo(q, r)
    BY <1>5 DEF r
  <2>3. QED
    BY <1>3, <2>1, <2>2
<1>6. ASSUME NEW op \in {"query", "value"}, NEW x \in SegQueries \cup SegConds,
             op = "query" => x \in SegQueries, op = "value" => x \in SegConds,
             SegGo(q, [SegRequest(op, u, g) EXCEPT !.value = x])
      PROVE  \E y : /\ SegGo(q, y) /\ SegOK(y) /\ y.new = SegNone /\ y.copy = NoSegment
                    /\ y.at = "check" \/ (y.at = "create" /\ segments[y.id] = NoSegment)
  <2> DEFINE base == SegRequest(op, u, g)
             r == [base EXCEPT !.value = x]
  <2>1. base \in SegShape /\ base.op = op /\ base.at = "check" /\ base.new = SegNone /\ base.copy = NoSegment
    BY <1>2 DEF SegOps
  <2> HIDE DEF base
  <2>2. /\ r \in SegShape /\ r.op = op /\ r.at = "check" /\ r.value = x
        /\ r.new = SegNone /\ r.copy = NoSegment
    BY <2>1 DEF SegShape
  <2>3. SegGo(q, r)
    BY <1>6 DEF base
  <2> HIDE DEF r
  <2>4. QED
    BY <1>3, <1>6, <2>2, <2>3
<1>7. ASSUME NEW d \in 1..2, SegGo(q, [SegRequest("fatigue", u, g) EXCEPT !.days = d])
      PROVE  \E y : /\ SegGo(q, y) /\ SegOK(y) /\ y.new = SegNone /\ y.copy = NoSegment
                    /\ y.at = "check" \/ (y.at = "create" /\ segments[y.id] = NoSegment)
  <2> DEFINE base == SegRequest("fatigue", u, g)
             r == [base EXCEPT !.days = d]
  <2>1. base \in SegShape /\ base.op = "fatigue" /\ base.at = "check" /\ base.new = SegNone /\ base.copy = NoSegment
    BY <1>2 DEF SegOps
  <2> HIDE DEF base
  <2>2. /\ r \in SegShape /\ r.op = "fatigue" /\ r.at = "check"
        /\ r.new = SegNone /\ r.copy = NoSegment
    BY <2>1 DEF SegShape
  <2>3. SegGo(q, r)
    BY <1>7 DEF base
  <2> HIDE DEF r
  <2>4. QED
    BY <1>3, <2>2, <2>3
<1>8. QED
  BY <1>1, <1>4, <1>5, <1>6, <1>7

\* The request goes on with the same segment.
SameRequest(r, old) == r.op = old.op /\ r.id = old.id

LEMMA NewFilterType ==
    ASSUME NEW r, SegOK(r), r.at = "check", NEW row \in RowShape, Allowed(r, row)
    PROVE  /\ NewFilter(r, row) \in Filters \cup {SegNone}
           /\ r.op \in {"nofilter", "reset", "value", "fatigue"} => NewFilter(r, row) \in Filters
           /\ r.op \in {"nofilter", "reset"} => NewFilter(r, row).excluded = {}
           /\ r.op \in {"value", "fatigue"} =>
                 row.filter \in Filters /\ NewFilter(r, row).excluded = row.filter.excluded
           /\ r.op \notin {"nofilter", "reset", "value", "fatigue"} => NewFilter(r, row) = SegNone
<1>1. row.query \in SegQueries \cup {SegNone} /\ row.filter \in Filters \cup {SegNone}
  BY DEF RowShape
<1>2. CASE r.op \in {"nofilter", "reset"}
  <2>1. row.query \in SegQueries
    BY <1>1, <1>2 DEF Allowed
  <2>2. Filter(row.query) \in Filters /\ Filter(row.query).excluded = {}
    BY <2>1 DEF Filter, Filters
  <2>3. QED
    BY <1>2, <2>2 DEF NewFilter
<1>3. CASE r.op = "value"
  <2>1. row.filter \in Filters /\ r.value \in SegConds
    BY <1>1, <1>3 DEF Allowed, SegOK
  <2> DEFINE f == row.filter
             e == [f EXCEPT !.conds = @ \cup {r.value}]
  <2>2. e \in Filters /\ e.excluded = f.excluded
    BY <2>1 DEF Filters
  <2>3. NewFilter(r, row) = e
    BY <1>3 DEF NewFilter
  <2>4. QED
    BY <1>3, <2>1, <2>2, <2>3
<1>4. CASE r.op = "fatigue"
  BY <1>1, <1>4 DEF Allowed, NewFilter
<1>5. CASE r.op \notin {"nofilter", "reset", "value", "fatigue"}
  BY <1>5 DEF NewFilter
<1>6. QED
  BY <1>2, <1>3, <1>4, <1>5

LEMMA SegChecked ==
    ASSUME SegTypes, NEW q \in SegRequests, SegCheck(q)
    PROVE  \/ SegAnswered(q)
           \/ \E r : /\ SegGo(q, r) /\ SegOK(r) /\ SameRequest(r, seg[q]) /\ r.copy = seg[q].copy
                     /\ Allowed(seg[q], segments[seg[q].id])
                     /\ r.new = NewFilter(seg[q], segments[seg[q].id])
                     /\ r.at \in {"rows", "find"}
<1> DEFINE old == seg[q]
           row == segments[old.id]
<1>1. SegOK(old) /\ old \in SegShape /\ old.at = "check" /\ row \in RowShape
  BY SegHere DEF SegCheck, SegAt
<1>2. CASE ~Allowed(old, row)
  BY <1>2 DEF SegCheck
<1>3. CASE Allowed(old, row)
  <2> DEFINE new == NewFilter(old, row)
             at == IF old.op = "fatigue" THEN "rows" ELSE "find"
             r == [old EXCEPT !.new = new, !.at = at]
  <2>1. /\ new \in Filters \cup {SegNone}
        /\ old.op \in {"nofilter", "reset", "value", "fatigue"} => new \in Filters
    BY <1>1, <1>3, NewFilterType
  <2>2. SegGo(q, r)
    BY <1>3 DEF SegCheck
  <2> HIDE DEF new
  <2>3. /\ r \in SegShape /\ SameRequest(r, old) /\ r.copy = old.copy /\ r.new = new
        /\ r.at \in {"rows", "find"} /\ r.value = old.value
        /\ r.at = "rows" => old.op = "fatigue"
    BY <1>1, <2>1 DEF SegShape, SameRequest
  <2> HIDE DEF r
  <2>4. SegOK(r)
    BY <1>1, <2>1, <2>3 DEF SegOK, SameRequest
  <2>5. QED
    BY <1>3, <2>2, <2>3, <2>4 DEF new
<1>4. QED
  BY <1>2, <1>3

LEMMA FilterRowsType == ASSUME NEW f \in Filters PROVE FilterRows(f) \subseteq FtNumbers
<1>1. f.base \in SegQueries
  BY DEF Filters
<1>2. SegFirst[f.base] \subseteq SegAnswer[f.base] /\ SegAnswer[f.base] \subseteq FtNumbers
  BY <1>1, SegAssumption
<1>3. QED
  BY <1>2 DEF FilterRows

\* The numbers to look up are those of a filter query.
LEMMA RowsRead ==
    ASSUME SegTypes, FtTypes, NEW q \in SegRequests, FatigueRows(q)
    PROVE  \E r : /\ SegGo(q, r) /\ SegOK(r) /\ SameRequest(r, seg[q]) /\ r.copy = seg[q].copy
                  /\ r.new = seg[q].new /\ r.at = "history"
<1> DEFINE old == seg[q]
           rows == FilterRows(old.new)
           r == [old EXCEPT !.at = "history", !.todo = rows, !.now = ftNow]
<1>1. SegOK(old) /\ old \in SegShape /\ old.at = "rows"
  BY SegHere DEF FatigueRows, SegAt
<1>2. rows \subseteq FtNumbers /\ ftNow \in Nat
  BY <1>1, FilterRowsType DEF SegOK, FtTypes
<1>3. SegGo(q, r)
  BY DEF FatigueRows
<1> HIDE DEF rows
<1>4. /\ r \in SegShape /\ SameRequest(r, old) /\ r.copy = old.copy /\ r.new = old.new
      /\ r.at = "history" /\ r.value = old.value
  BY <1>1, <1>2 DEF SegShape, SameRequest
<1> HIDE DEF r
<1>5. SegOK(r)
  BY <1>1, <1>4 DEF SegOK, SameRequest
<1>6. QED
  BY <1>3, <1>4, <1>5

\* f is e, or excludes a number more, that has a history of its own.
Excludes(f, e) ==
    \/ f = e
    \/ \E n \in FtNumbers : /\ f = [e EXCEPT !.excluded = @ \cup {n}]
                            /\ SegKey[n] \in FtNumbers /\ history[SegKey[n]] # {}

LEMMA LookedUp ==
    ASSUME SegTypes, NEW q \in SegRequests, LookUpHistory(q)
    PROVE  \E r : /\ SegGo(q, r) /\ SegOK(r) /\ SameRequest(r, seg[q]) /\ r.copy = seg[q].copy
                  /\ r.at \in {"history", "find"}
                  /\ seg[q].new \in Filters /\ Excludes(r.new, seg[q].new)
<1> DEFINE old == seg[q]
<1>1. SegOK(old) /\ old \in SegShape /\ old.at = "history" /\ old.new \in Filters
  BY SegHere DEF LookUpHistory, SegAt, SegOK
<1>2. CASE old.todo = {}
  <2> DEFINE r == [old EXCEPT !.at = "find"]
  <2>1. SegGo(q, r)
    BY <1>2 DEF LookUpHistory
  <2>2. /\ r \in SegShape /\ SameRequest(r, old) /\ r.copy = old.copy /\ r.new = old.new
        /\ r.at = "find" /\ r.value = old.value
    BY <1>1 DEF SegShape, SameRequest
  <2> HIDE DEF r
  <2>3. SegOK(r)
    BY <1>1, <2>2 DEF SegOK, SameRequest
  <2>4. QED
    BY <1>1, <2>1, <2>2, <2>3 DEF Excludes
<1>3. CASE old.todo # {}
  <2> DEFINE recent(n) == \E t \in Histories(n) : old.now - t < 2 * old.days
  <2>1. PICK n \in old.todo :
          SegGo(q, [old EXCEPT !.todo = @ \ {n},
                               !.new.excluded = IF recent(n) THEN @ \cup {n} ELSE @])
    BY <1>3 DEF LookUpHistory
  <2> DEFINE f == old.new
             g == [f EXCEPT !.excluded = IF recent(n) THEN @ \cup {n} ELSE @]
             r == [old EXCEPT !.todo = @ \ {n}, !.new = g]
  <2>2. n \in FtNumbers
    BY <1>1 DEF SegShape
  <2>3. g \in Filters
    BY <1>1, <2>2 DEF Filters
  <2>4. Excludes(g, f)
    <3>1. CASE recent(n)
      <4>1. SegKey[n] # SegNone /\ history[SegKey[n]] # {}
        BY <3>1 DEF Histories
      <4>2. SegKey[n] \in FtNumbers
        BY <2>2, <4>1, SegAssumption
      <4>3. QED
        BY <2>2, <3>1, <4>1, <4>2 DEF Excludes
    <3>2. CASE ~recent(n)
      BY <1>1, <3>2 DEF Filters, Excludes
    <3>3. QED
      BY <3>1, <3>2
  <2>5. SegGo(q, r)
    BY <1>1, <2>1 DEF SegShape
  <2> HIDE DEF g
  <2>6. /\ r \in SegShape /\ SameRequest(r, old) /\ r.copy = old.copy /\ r.new = g
        /\ r.at = "history" /\ r.value = old.value
    BY <1>1, <2>3 DEF SegShape, SameRequest
  <2> HIDE DEF r
  <2>7. SegOK(r)
    BY <1>1, <2>3, <2>6 DEF SegOK, SameRequest
  <2>8. QED
    BY <1>1, <2>2, <2>4, <2>5, <2>6, <2>7
<1>4. QED
  BY <1>2, <1>3

LEMMA Found ==
    ASSUME SegTypes, NEW q \in SegRequests, SegFind(q)
    PROVE  \/ SegAnswered(q)
           \/ \E r : /\ SegGo(q, r) /\ SegOK(r) /\ SameRequest(r, seg[q]) /\ r.new = seg[q].new
                     /\ r.at = "save" /\ r.copy = segments[seg[q].id]
                     /\ seg[q].at = "find"
<1> DEFINE old == seg[q]
           row == segments[old.id]
           r == [old EXCEPT !.at = "save", !.copy = row]
<1>1. SegOK(old) /\ old \in SegShape /\ old.at = "find" /\ row \in RowShape
  BY SegHere DEF SegFind, SegAt
<1>2. SegGo(q, r) \/ SegAnswered(q)
  BY DEF SegFind
<1> HIDE DEF row
<1>3. /\ r \in SegShape /\ SameRequest(r, old) /\ r.new = old.new /\ r.at = "save"
      /\ r.value = old.value /\ r.copy = row
  BY <1>1 DEF SegShape, SameRequest
<1> HIDE DEF r
<1>4. SegOK(r)
  BY <1>1, <1>3 DEF SegOK, SameRequest
<1>5. QED
  BY <1>1, <1>2, <1>3, <1>4 DEF row

\* The row of the request's segment is written.
Writes(q, row) == row \in RowShape /\ segments' = [segments EXCEPT ![seg[q].id] = row]

\* What a save makes of the copy of a request.
SavedFilter(r) ==
    CASE r.op \in {"name", "query"} -> r.copy.filter
      [] r.op = "delete" -> SegNone
      [] OTHER -> r.new

LEMMA Saved ==
    ASSUME SegTypes, NEW q \in SegRequests, SegSave(q)
    PROVE  /\ SegAnswered(q) /\ SegOK(seg[q]) /\ seg[q].at = "save"
           /\ \E row : /\ Writes(q, row) /\ row.filter = SavedFilter(seg[q])
                      /\ (seg[q].op = "delete" => ~row.live)
<1> DEFINE old == seg[q]
           copy == old.copy
           row == CASE old.op = "name" -> copy
                    [] old.op = "query" -> [copy EXCEPT !.query = old.value]
                    [] old.op = "delete" -> [NoSegment EXCEPT !.user = copy.user]
                    [] OTHER -> [copy EXCEPT !.filter = old.new]
<1>1. /\ SegOK(old) /\ old.at = "save" /\ copy \in RowShape /\ old.new \in Filters \cup {SegNone}
      /\ old.op \in SegOps
  BY SegHere DEF SegSave, SegAt, SegShape
<1>2. SegAnswered(q) /\ segments' = [segments EXCEPT ![old.id] = row]
  BY DEF SegSave
<1>3. /\ row \in RowShape /\ row.filter = SavedFilter(old)
      /\ old.op = "delete" => ~row.live
  <2>1. CASE old.op = "name"
    BY <1>1, <2>1 DEF SavedFilter
  <2>2. CASE old.op = "query"
    <3>1. old.value \in SegQueries
      BY <1>1, <2>2 DEF SegOK
    <3>2. row = [copy EXCEPT !.query = old.value] /\ SavedFilter(old) = copy.filter
      BY <2>2 DEF SavedFilter
    <3> HIDE DEF row
    <3>3. QED
      BY <1>1, <2>2, <3>1, <3>2 DEF RowShape
  <2>3. CASE old.op = "delete"
    <3>1. row = [NoSegment EXCEPT !.user = copy.user] /\ SavedFilter(old) = SegNone
      BY <2>3 DEF SavedFilter
    <3> HIDE DEF row
    <3>2. QED
      BY <1>1, <2>3, <3>1 DEF RowShape, NoSegment
  <2>4. CASE old.op \notin {"name", "query", "delete"}
    <3>1. row = [copy EXCEPT !.filter = old.new] /\ SavedFilter(old) = old.new
      BY <2>4 DEF SavedFilter
    <3> HIDE DEF row
    <3>2. QED
      BY <1>1, <2>4, <3>1 DEF RowShape
  <2>5. QED
    BY <2>1, <2>2, <2>3, <2>4
<1> HIDE DEF row
<1>4. Writes(q, row)
  BY <1>2, <1>3 DEF Writes
<1>5. QED
  BY <1>1, <1>2, <1>3, <1>4

LEMMA Created ==
    ASSUME SegTypes, NEW q \in SegRequests, SegCreate(q)
    PROVE  /\ SegAnswered(q) /\ seg[q].at = "create" /\ seg[q].id \in SegIds
           /\ \E row : Writes(q, row) /\ row.filter = SegNone
<1> DEFINE row == [NoSegment EXCEPT !.live = TRUE, !.user = seg[q].user]
<1>1. seg[q].at = "create" /\ seg[q].id \in SegIds /\ seg[q].user \in FtUsers
  BY SegHere DEF SegCreate, SegAt, SegShape
<1>2. row \in RowShape /\ row.filter = SegNone
  BY <1>1 DEF NoSegment, RowShape
<1>3. SegAnswered(q) /\ segments' = [segments EXCEPT ![seg[q].id] = row]
  BY DEF SegCreate
<1> HIDE DEF row
<1>4. Writes(q, row)
  BY <1>2, <1>3 DEF Writes
<1>5. QED
  BY <1>1, <1>2, <1>3, <1>4

LEMMA SegTypesInit == SegmentInit => SegTypes
  BY NoSegmentRow DEF SegmentInit, SegTypes

LEMMA SegTypesStep == SegTypes /\ FtTypes /\ [SegmentNext]_<<segVars, ftVars>> => SegTypes'
<1> SUFFICES ASSUME SegTypes, FtTypes, [SegmentNext]_<<segVars, ftVars>> PROVE SegTypes'
  OBVIOUS
<1>1. CASE UNCHANGED segVars
  BY <1>1 DEF SegTypes, segVars
<1>2. ASSUME NEW q \in SegRequests, SegAnswered(q), segments' \in [SegIds -> RowShape] PROVE SegTypes'
  BY <1>2, SegTypesKept DEF SegAnswered
<1>3. ASSUME NEW q \in SegRequests, NEW row, SegAnswered(q), Writes(q, row)
      PROVE  SegTypes'
  <2>1. segments' \in [SegIds -> RowShape]
    BY <1>3 DEF SegTypes, Writes
  <2>2. QED
    BY <1>2, <1>3, <2>1
<1>4. ASSUME NEW q \in SegRequests, segments' = segments, SegReceive(q) PROVE SegTypes'
  BY <1>4, SegReceived, SegTypesKept DEF SegTypes
<1>5. ASSUME NEW q \in SegRequests, segments' = segments,
             SegCheck(q) \/ FatigueRows(q) \/ LookUpHistory(q) \/ SegFind(q) \/ SegStop(q)
      PROVE  SegTypes'
  <2>1. SegAnswered(q) \/ \E r : SegGo(q, r) /\ SegOK(r)
    BY <1>5, SegChecked, RowsRead, LookedUp, Found DEF SegStop
  <2>2. segments' \in [SegIds -> RowShape]
    BY <1>5 DEF SegTypes
  <2>3. QED
    BY <1>2, <2>1, <2>2, SegTypesKept
<1>6. ASSUME NEW q \in SegRequests, SegCreate(q) PROVE SegTypes'
  BY <1>3, <1>6, Created
<1>7. ASSUME NEW q \in SegRequests, SegSave(q) PROVE SegTypes'
  <2>1. SegAnswered(q) /\ \E row : Writes(q, row)
    BY <1>7, Saved
  <2>2. QED
    BY <1>3, <2>1
<1>8. ASSUME NEW q \in SegRequests,
             \/ SegReceive(q) \/ SegCreate(q) \/ SegCheck(q) \/ FatigueRows(q) \/ LookUpHistory(q)
             \/ SegFind(q) \/ SegSave(q) \/ SegStop(q)
      PROVE  SegTypes'
  <2>1. \/ SegReceive(q) \/ SegCheck(q) \/ FatigueRows(q) \/ LookUpHistory(q) \/ SegFind(q) \/ SegStop(q)
        => segments' = segments
    BY DEF SegReceive, SegCheck, FatigueRows, LookUpHistory, SegFind, SegStop
  <2>2. QED
    BY <1>4, <1>5, <1>6, <1>7, <1>8, <2>1
<1>9. QED
  BY <1>1, <1>8 DEF SegmentNext, SegmentStep, segVars

LEMMA FatigueStepHere ==
    [SegmentNext]_<<segVars, ftVars>> => [FatigueNext]_ftVars
  BY DEF SegmentNext

LEMMA SegTypesHold == SegmentSpec => [](FtTypes /\ HistInv /\ SegTypes)
<1>1. SegmentInit /\ FatigueInit => FtTypes /\ HistInv /\ SegTypes
  BY FtTypesInit, HistInit, SegTypesInit
<1>2. (FtTypes /\ HistInv /\ SegTypes) /\ [SegmentNext]_<<segVars, ftVars>> => (FtTypes /\ HistInv /\ SegTypes)'
  BY FtTypesStep, HistStep, SegTypesStep, FatigueStepHere
<1>3. QED
  BY <1>1, <1>2, PTL DEF SegmentSpec

-----------------------------------------------------------------------------
(* Whom segments exclude, however many sends and requests overlap.         *)

\* The numbers a filter excludes were sent to.
ExcludedSent(f, ps) == f # SegNone => \A n \in f.excluded : Sent(ps, SegKey[n])

ExclInv ==
    /\ \A g \in SegIds : ExcludedSent(segments[g].filter, accepted)
    /\ \A q \in SegRequests : seg[q].at # "idle" =>
          ExcludedSent(seg[q].new, accepted) /\ ExcludedSent(seg[q].copy.filter, accepted)

LEMMA ExclInit == SegmentInit /\ FatigueInit => ExclInv
  BY DEF SegmentInit, ExclInv, ExcludedSent, NoSegment, SegIdle

\* A filter, a request or a row in which no number is new.
LEMMA ExclKept ==
    ASSUME SegTypes, ExclInv, NEW q \in SegRequests, NEW r, SegGo(q, r), accepted' = accepted,
           r.at # "idle" => ExcludedSent(r.new, accepted) /\ ExcludedSent(r.copy.filter, accepted),
           \A g \in SegIds : ExcludedSent(segments'[g].filter, accepted)
    PROVE  ExclInv'
<1>1. \A x \in SegRequests : seg'[x] = IF x = q THEN r ELSE seg[x]
  BY OnlyThisRequest
<1>2. \A f : ExcludedSent(f, accepted') <=> ExcludedSent(f, accepted)
  BY DEF ExcludedSent, Sent
<1>3. QED
  BY <1>1, <1>2 DEF ExclInv

LEMMA ExclAnswered ==
    ASSUME SegTypes, ExclInv, NEW q \in SegRequests, SegAnswered(q), accepted' = accepted,
           \A g \in SegIds : ExcludedSent(segments'[g].filter, accepted)
    PROVE  ExclInv'
  BY ExclKept DEF SegAnswered, SegIdle

\* A row is written.
LEMMA ExclWritten ==
    ASSUME SegTypes, ExclInv, NEW q \in SegRequests, SegAnswered(q), accepted' = accepted,
           NEW row, Writes(q, row), ExcludedSent(row.filter, accepted)
    PROVE  ExclInv'
<1>1. ASSUME NEW g \in SegIds PROVE ExcludedSent(segments'[g].filter, accepted)
  BY DEF SegTypes, ExclInv, Writes
<1>2. QED
  BY <1>1, ExclAnswered

LEMMA CheckExcl ==
    ASSUME SegTypes, ExclInv, NEW q \in SegRequests, SegCheck(q), accepted' = accepted PROVE ExclInv'
<1> DEFINE old == seg[q]
           row == segments[old.id]
<1>1. SegOK(old) /\ old \in SegShape /\ old.at = "check" /\ row \in RowShape /\ old.id \in SegIds
  BY SegHere DEF SegCheck, SegAt, SegShape
<1>2. segments' = segments /\ \A g \in SegIds : ExcludedSent(segments[g].filter, accepted)
  BY DEF SegCheck, ExclInv
<1>3. CASE SegAnswered(q)
  BY <1>2, <1>3, ExclAnswered
<1>4. CASE \E r : /\ SegGo(q, r) /\ r.copy = old.copy /\ Allowed(old, row)
                 /\ r.new = NewFilter(old, row)
  <2>1. PICK r : /\ SegGo(q, r) /\ r.copy = old.copy /\ Allowed(old, row)
                 /\ r.new = NewFilter(old, row)
    BY <1>4
  <2>2. /\ old.op \in {"nofilter", "reset"} => r.new.excluded = {}
        /\ old.op \in {"value", "fatigue"} =>
              row.filter \in Filters /\ r.new.excluded = row.filter.excluded
        /\ old.op \notin {"nofilter", "reset", "value", "fatigue"} => r.new = SegNone
    BY <1>1, <2>1, NewFilterType
  <2>3. ExcludedSent(row.filter, accepted) /\ ExcludedSent(old.copy.filter, accepted)
    BY <1>1, <1>2 DEF ExclInv
  <2>4. \A f \in Filters : f # SegNone
    BY SegAssumption DEF Filters
  <2>5. ExcludedSent(r.new, accepted)
    <3>1. CASE old.op \in {"nofilter", "reset"}
      BY <2>2, <3>1 DEF ExcludedSent
    <3>2. CASE old.op \in {"value", "fatigue"}
      BY <2>2, <2>3, <2>4, <3>2 DEF ExcludedSent
    <3>3. CASE old.op \notin {"nofilter", "reset", "value", "fatigue"}
      BY <2>2, <3>3 DEF ExcludedSent
    <3>4. QED
      BY <3>1, <3>2, <3>3
  <2>6. QED
    BY <1>2, <2>1, <2>3, <2>5, ExclKept
<1>5. QED
  BY <1>3, <1>4, SegChecked

LEMMA LookUpExcl ==
    ASSUME SegTypes, HistInv, ExclInv, NEW q \in SegRequests, LookUpHistory(q), accepted' = accepted
    PROVE  ExclInv'
<1> DEFINE f == seg[q].new
<1>1. PICK r : SegGo(q, r) /\ r.copy = seg[q].copy /\ f \in Filters /\ Excludes(r.new, f)
  BY LookedUp
<1>2. /\ segments' = segments /\ \A g \in SegIds : ExcludedSent(segments[g].filter, accepted)
      /\ ExcludedSent(f, accepted) /\ ExcludedSent(r.copy.filter, accepted)
  BY <1>1 DEF LookUpHistory, SegAt, ExclInv
<1>3. f # SegNone
  BY <1>1, SegAssumption DEF Filters
<1>4. ASSUME NEW n \in FtNumbers, r.new = [f EXCEPT !.excluded = @ \cup {n}],
             SegKey[n] \in FtNumbers, history[SegKey[n]] # {}
      PROVE  ExcludedSent(r.new, accepted)
  <2>1. Sent(accepted, SegKey[n])
    BY <1>4 DEF HistInv
  <2>2. r.new.excluded = f.excluded \cup {n}
    BY <1>1, <1>4 DEF Filters
  <2>3. QED
    BY <1>2, <1>3, <2>1, <2>2 DEF ExcludedSent
<1>5. ExcludedSent(r.new, accepted)
  BY <1>1, <1>2, <1>4 DEF Excludes
<1>6. QED
  BY <1>1, <1>2, <1>5, ExclKept

LEMMA SaveExcl ==
    ASSUME SegTypes, ExclInv, NEW q \in SegRequests, SegSave(q), accepted' = accepted PROVE ExclInv'
<1>1. SegAnswered(q) /\ seg[q].at = "save"
  BY Saved
<1>2. PICK row : Writes(q, row) /\ row.filter = SavedFilter(seg[q])
  BY Saved
<1>3. ExcludedSent(SavedFilter(seg[q]), accepted)
  BY <1>1 DEF SavedFilter, ExclInv, ExcludedSent
<1>4. QED
  BY <1>1, <1>2, <1>3, ExclWritten

\* Sends only add to what was accepted.
LEMMA AcceptedGrows == [FatigueNext]_ftVars => accepted \subseteq accepted'
  BY DEF FatigueNext, FtReceive, FtStep, DeleteHistory, InsertHistory, FtCharge, SaveAdvert, FtStop,
         FtTick, ftVars, ftRows

LEMMA ExclStep ==
    SegTypes /\ HistInv /\ FtTypes /\ ExclInv /\ [SegmentNext]_<<segVars, ftVars>> => ExclInv'
<1> SUFFICES ASSUME SegTypes, HistInv, FtTypes, ExclInv, [SegmentNext]_<<segVars, ftVars>>
             PROVE ExclInv'
  OBVIOUS
<1>1. CASE UNCHANGED segVars
  <2>1. accepted \subseteq accepted'
    BY FatigueStepHere, AcceptedGrows
  <2>2. \A f : ExcludedSent(f, accepted) => ExcludedSent(f, accepted')
    BY <2>1 DEF ExcludedSent, Sent
  <2>3. QED
    BY <1>1, <2>2 DEF ExclInv, segVars
<1>2. ASSUME NEW q \in SegRequests, accepted' = accepted,
             \/ SegReceive(q) \/ SegCreate(q) \/ SegCheck(q) \/ FatigueRows(q) \/ LookUpHistory(q)
             \/ SegFind(q) \/ SegSave(q) \/ SegStop(q)
      PROVE  ExclInv'
  <2>1. \A g \in SegIds : ExcludedSent(segments[g].filter, accepted)
    BY DEF ExclInv
  <2>2. CASE SegReceive(q)
    <3>1. PICK r : SegGo(q, r) /\ r.new = SegNone /\ r.copy = NoSegment
      BY <2>2, SegReceived
    <3>2. ExcludedSent(r.new, accepted) /\ ExcludedSent(r.copy.filter, accepted)
      BY <3>1, NoSegmentRow DEF ExcludedSent
    <3>3. segments' = segments
      BY <2>2 DEF SegReceive
    <3>4. QED
      BY <1>2, <2>1, <3>1, <3>2, <3>3, ExclKept
  <2>3. CASE SegCreate(q)
    <3>1. SegAnswered(q)
      BY <2>3, Created
    <3>2. PICK row : Writes(q, row) /\ row.filter = SegNone
      BY <2>3, Created
    <3>3. ExcludedSent(row.filter, accepted)
      BY <3>2 DEF ExcludedSent
    <3>4. QED
      BY <1>2, <3>1, <3>2, <3>3, ExclWritten
  <2>4. CASE FatigueRows(q)
    <3>1. PICK r : SegGo(q, r) /\ r.copy = seg[q].copy /\ r.new = seg[q].new
      BY <2>4, RowsRead
    <3>2. ExcludedSent(r.new, accepted) /\ ExcludedSent(r.copy.filter, accepted)
      BY <2>4, <3>1 DEF FatigueRows, SegAt, ExclInv
    <3>3. segments' = segments
      BY <2>4 DEF FatigueRows
    <3>4. QED
      BY <1>2, <2>1, <3>1, <3>2, <3>3, ExclKept
  <2>5. CASE SegFind(q)
    <3>1. segments' = segments
      BY <2>5 DEF SegFind
    <3>2. CASE SegAnswered(q)
      BY <1>2, <2>1, <3>1, <3>2, ExclAnswered
    <3>3. CASE \E r : SegGo(q, r) /\ r.new = seg[q].new /\ r.copy = segments[seg[q].id]
      <4>1. PICK r : SegGo(q, r) /\ r.new = seg[q].new /\ r.copy = segments[seg[q].id]
        BY <3>3
      <4>2. seg[q].id \in SegIds /\ seg[q].at # "idle"
        BY <2>5, SegHere DEF SegFind, SegAt, SegShape
      <4>3. ExcludedSent(r.new, accepted) /\ ExcludedSent(r.copy.filter, accepted)
        BY <2>1, <4>1, <4>2 DEF ExclInv
      <4>4. QED
        BY <1>2, <2>1, <3>1, <4>1, <4>3, ExclKept
    <3>4. QED
      BY <2>5, <3>2, <3>3, Found
  <2>6. CASE SegStop(q)
    BY <1>2, <2>1, <2>6, ExclAnswered DEF SegStop
  <2>7. QED
    BY <1>2, <2>2, <2>3, <2>4, <2>5, <2>6, CheckExcl, LookUpExcl, SaveExcl
<1>3. QED
  BY <1>1, <1>2 DEF SegmentNext, SegmentStep, segVars, ftVars

(***************************************************************************)
(* A number is excluded from a segment only if NCP accepted a message for  *)
(* the number that its history is kept under: no history is invented by    *)
(* requests, each a read and a write with sends in between, that overlap.  *)
(***************************************************************************)
THEOREM ExcludedHaveHistory == SegmentSpec => []ExcludedWereSent
<1>1. ExclInv => ExcludedWereSent
  BY DEF ExclInv, ExcludedSent, Sent, ExcludedWereSent
<1>2. QED
  BY <1>1, ExclInit, ExclStep, SegTypesHold, PTL DEF SegmentSpec

-----------------------------------------------------------------------------
(* Filters only narrow, when the requests of a segment come one at a time. *)

\* Two requests in flight are about two segments.
SegAlone == \A q, r \in SegRequests :
    (seg[q].at # "idle" /\ seg[r].at # "idle" /\ seg[q].id = seg[r].id) => q = r

\* f exists and returns no number that e does not return.
Narrows(f, e) == e # SegNone /\ f # SegNone /\ FilterRows(f) \subseteq FilterRows(e)

\* What a request on the segment row knows of it.
Knows(r, row) ==
    /\ r.at = "create" => row = NoSegment
    /\ r.at \in {"rows", "history", "find", "save"} =>
          /\ r.op \in {"value", "fatigue"} => Narrows(r.new, row.filter)
          /\ r.op = "nofilter" => row.filter = SegNone
    /\ r.at = "save" => r.copy = row

NarrowInv == \A q \in SegRequests : seg[q].at # "idle" => Knows(seg[q], segments[seg[q].id])

LEMMA NarrowInit == SegmentInit => NarrowInv
  BY DEF SegmentInit, NarrowInv, SegIdle

LEMMA NarrowKept ==
    ASSUME SegTypes, NarrowInv, NEW q \in SegRequests, NEW r, SegGo(q, r), segments' = segments,
           r.at # "idle" => Knows(r, segments[r.id])
    PROVE  NarrowInv'
<1>1. \A x \in SegRequests : seg'[x] = IF x = q THEN r ELSE seg[x]
  BY OnlyThisRequest
<1>2. QED
  BY <1>1 DEF NarrowInv

\* The request that writes a row is the only one of its segment.
LEMMA NarrowWritten ==
    ASSUME SegTypes, NarrowInv, SegAlone, NEW q \in SegRequests, seg[q].at # "idle",
           SegAnswered(q), NEW row, Writes(q, row)
    PROVE  NarrowInv'
<1>1. \A x \in SegRequests : seg'[x] = IF x = q THEN SegIdle ELSE seg[x]
  BY OnlyThisRequest DEF SegAnswered
<1>2. ASSUME NEW x \in SegRequests, seg'[x].at # "idle"
      PROVE  Knows(seg[x], segments'[seg[x].id]) /\ x # q
  <2>1. x # q /\ seg[x].at # "idle"
    BY <1>1, <1>2 DEF SegIdle
  <2>2. seg[x].id # seg[q].id /\ seg[x].id \in SegIds
    BY <2>1, SegHere DEF SegAlone, SegShape
  <2>3. segments'[seg[x].id] = segments[seg[x].id]
    BY <2>2 DEF SegTypes, Writes
  <2>4. QED
    BY <2>1, <2>3 DEF NarrowInv
<1>3. QED
  BY <1>1, <1>2 DEF NarrowInv

\* A condition more, or a number excluded
LEMMA Narrower ==
    ASSUME NEW f \in Filters
    PROVE  /\ \A c \in SegConds : Narrows([f EXCEPT !.conds = @ \cup {c}], f)
           /\ \A n \in FtNumbers : Narrows([f EXCEPT !.excluded = @ \cup {n}], f)
           /\ Narrows(f, f)
<1>1. \A e \in Filters : e # SegNone
  BY SegAssumption DEF Filters
<1>2. ASSUME NEW c \in SegConds PROVE Narrows([f EXCEPT !.conds = @ \cup {c}], f)
  <2> DEFINE e == [f EXCEPT !.conds = @ \cup {c}]
  <2>1. e \in Filters /\ e.base = f.base /\ e.conds = f.conds \cup {c} /\ e.excluded = f.excluded
    BY DEF Filters
  <2> HIDE DEF e
  <2>2. FilterRows(e) \subseteq FilterRows(f)
    BY <2>1 DEF FilterRows
  <2>3. Narrows(e, f)
    BY <1>1, <2>1, <2>2 DEF Narrows
  <2>4. QED
    BY <2>3 DEF e
<1>3. ASSUME NEW n \in FtNumbers PROVE Narrows([f EXCEPT !.excluded = @ \cup {n}], f)
  <2> DEFINE e == [f EXCEPT !.excluded = @ \cup {n}]
  <2>1. e \in Filters /\ e.base = f.base /\ e.conds = f.conds /\ e.excluded = f.excluded \cup {n}
    BY DEF Filters
  <2> HIDE DEF e
  <2>2. FilterRows(e) \subseteq FilterRows(f)
    BY <2>1 DEF FilterRows
  <2>3. Narrows(e, f)
    BY <1>1, <2>1, <2>2 DEF Narrows
  <2>4. QED
    BY <2>3 DEF e
<1>4. QED
  BY <1>1, <1>2, <1>3 DEF Narrows

LEMMA NarrowTwice == ASSUME NEW f, NEW e, NEW d, Narrows(f, e), Narrows(e, d) PROVE Narrows(f, d)
  BY DEF Narrows

LEMMA CheckNarrow ==
    ASSUME SegTypes, NarrowInv, NEW q \in SegRequests, SegCheck(q) PROVE NarrowInv'
<1> DEFINE old == seg[q]
           row == segments[old.id]
<1>1. SegOK(old) /\ old.at = "check" /\ row \in RowShape /\ segments' = segments
  BY SegHere DEF SegCheck, SegAt
<1>2. CASE SegAnswered(q)
  BY <1>1, <1>2, NarrowKept DEF SegAnswered, SegIdle
<1>3. CASE \E r : /\ SegGo(q, r) /\ SameRequest(r, old) /\ Allowed(old, row)
                 /\ r.new = NewFilter(old, row) /\ r.at \in {"rows", "find"}
  <2>1. PICK r : /\ SegGo(q, r) /\ SameRequest(r, old) /\ Allowed(old, row)
                 /\ r.new = NewFilter(old, row) /\ r.at \in {"rows", "find"}
    BY <1>3
  <2>2. r.op = old.op /\ r.id = old.id
    BY <2>1 DEF SameRequest
  <2>3. ASSUME r.op \in {"value", "fatigue"} PROVE Narrows(r.new, row.filter)
    <3>1. row.filter \in Filters
      BY <1>1, <2>1, <2>2, <2>3, NewFilterType
    <3>2. CASE r.op = "value"
      <4>1. r.new = [row.filter EXCEPT !.conds = @ \cup {old.value}] /\ old.value \in SegConds
        BY <1>1, <2>1, <2>2, <3>2 DEF NewFilter, SegOK
      <4>2. QED
        BY <3>1, <4>1, Narrower
    <3>3. CASE r.op = "fatigue"
      BY <2>1, <2>2, <3>1, <3>3, Narrower DEF NewFilter
    <3>4. QED
      BY <2>3, <3>2, <3>3
  <2>4. ASSUME r.op = "nofilter" PROVE row.filter = SegNone
    BY <2>1, <2>2, <2>4 DEF Allowed
  <2>5. Knows(r, row)
    BY <2>1, <2>3, <2>4 DEF Knows
  <2>6. QED
    BY <1>1, <2>1, <2>2, <2>5, NarrowKept
<1>4. QED
  BY <1>2, <1>3, SegChecked

LEMMA LookUpNarrow ==
    ASSUME SegTypes, NarrowInv, NEW q \in SegRequests, LookUpHistory(q) PROVE NarrowInv'
<1> DEFINE old == seg[q]
           row == segments[old.id]
<1>1. /\ SegOK(old) /\ old.at = "history" /\ old.op = "fatigue" /\ segments' = segments
      /\ Narrows(old.new, row.filter)
  BY SegHere DEF LookUpHistory, SegAt, SegOK, NarrowInv, Knows
<1>2. PICK r : /\ SegGo(q, r) /\ SameRequest(r, old) /\ r.at \in {"history", "find"}
               /\ old.new \in Filters /\ Excludes(r.new, old.new)
  BY LookedUp
<1>3. r.op = "fatigue" /\ r.id = old.id
  BY <1>1, <1>2 DEF SameRequest
<1>4. Narrows(r.new, old.new)
  BY <1>2, Narrower DEF Excludes
<1>5. Knows(r, row)
  BY <1>1, <1>2, <1>3, <1>4, NarrowTwice DEF Knows
<1>6. QED
  BY <1>1, <1>2, <1>3, <1>5, NarrowKept

LEMMA NarrowStep ==
    FtTypes /\ SegTypes /\ SegAlone /\ NarrowInv /\ [SegmentNext]_<<segVars, ftVars>> => NarrowInv'
<1> SUFFICES ASSUME FtTypes, SegTypes, SegAlone, NarrowInv, [SegmentNext]_<<segVars, ftVars>>
             PROVE  NarrowInv'
  OBVIOUS
<1>1. CASE UNCHANGED segVars
  BY <1>1 DEF NarrowInv, segVars
<1>2. ASSUME NEW q \in SegRequests,
             \/ SegReceive(q) \/ SegCreate(q) \/ SegCheck(q) \/ FatigueRows(q) \/ LookUpHistory(q)
             \/ SegFind(q) \/ SegSave(q) \/ SegStop(q)
      PROVE  NarrowInv'
  <2>1. CASE SegReceive(q)
    <3>1. PICK r : /\ SegGo(q, r)
                   /\ (r.at = "check" \/ (r.at = "create" /\ segments[r.id] = NoSegment))
      BY <2>1, SegReceived
    <3>2. Knows(r, segments[r.id]) /\ SegGo(q, r)
      BY <3>1 DEF Knows
    <3>3. segments' = segments
      BY <2>1 DEF SegReceive
    <3>4. QED
      BY <3>2, <3>3, NarrowKept
  <2>2. CASE SegCreate(q)
    <3>1. SegAnswered(q) /\ seg[q].at # "idle" /\ \E row : Writes(q, row)
      BY <2>2, Created
    <3>2. QED
      BY <3>1, NarrowWritten
  <2>3. CASE FatigueRows(q)
    <3>1. PICK r : /\ SegGo(q, r) /\ SameRequest(r, seg[q]) /\ r.new = seg[q].new /\ r.at = "history"
      BY <2>3, RowsRead
    <3>2. Knows(seg[q], segments[seg[q].id]) /\ seg[q].at = "rows" /\ segments' = segments
      BY <2>3 DEF FatigueRows, SegAt, NarrowInv
    <3>3. Knows(r, segments[r.id])
      BY <3>1, <3>2 DEF Knows, SameRequest
    <3>4. QED
      BY <3>1, <3>2, <3>3, NarrowKept
  <2>4. CASE SegFind(q)
    <3>1. segments' = segments
      BY <2>4 DEF SegFind
    <3>2. CASE SegAnswered(q)
      BY <3>1, <3>2, NarrowKept DEF SegAnswered, SegIdle
    <3>3. CASE \E r : /\ SegGo(q, r) /\ SameRequest(r, seg[q]) /\ r.new = seg[q].new
                     /\ r.at = "save" /\ r.copy = segments[seg[q].id] /\ seg[q].at = "find"
      <4>1. PICK r : /\ SegGo(q, r) /\ SameRequest(r, seg[q]) /\ r.new = seg[q].new
                     /\ r.at = "save" /\ r.copy = segments[seg[q].id] /\ seg[q].at = "find"
        BY <3>3
      <4>2. Knows(seg[q], segments[seg[q].id])
        BY <4>1 DEF NarrowInv
      <4>3. Knows(r, segments[r.id])
        <5>1. r.id = seg[q].id /\ r.op = seg[q].op
          BY <4>1 DEF SameRequest
        <5>2. QED
          BY <4>1, <4>2, <5>1 DEF Knows
      <4>4. QED
        BY <3>1, <4>1, <4>3, NarrowKept
    <3>4. QED
      BY <2>4, <3>2, <3>3, Found
  <2>5. CASE SegSave(q)
    <3>1. SegAnswered(q) /\ seg[q].at # "idle" /\ \E row : Writes(q, row)
      BY <2>5, Saved
    <3>2. QED
      BY <3>1, NarrowWritten
  <2>6. CASE SegStop(q)
    BY <2>6, NarrowKept DEF SegStop, SegAnswered, SegIdle
  <2>7. QED
    BY <1>2, <2>1, <2>2, <2>3, <2>4, <2>5, <2>6, CheckNarrow, LookUpNarrow
<1>3. QED
  BY <1>1, <1>2 DEF SegmentNext, SegmentStep, segVars

\* What one step makes of a filter, unless the segment is deleted.
NarrowsOrReset(g) ==
    (segments[g].filter # SegNone /\ segments'[g].live) =>
        \/ ResetOf(g)
        \/ /\ segments'[g].filter # SegNone
           /\ FilterRows(segments'[g].filter) \subseteq FilterRows(segments[g].filter)

LEMMA SaveNarrows ==
    ASSUME SegTypes, NarrowInv, NEW q \in SegRequests, SegSave(q), NEW g \in SegIds
    PROVE  NarrowsOrReset(g)
<1>1. SegOK(seg[q]) /\ seg[q].at = "save" /\ seg[q].op \in SegOps
  BY Saved DEF SegOK, SegShape
<1>2. PICK row : /\ Writes(q, row) /\ row.filter = SavedFilter(seg[q])
                 /\ (seg[q].op = "delete" => ~row.live)
  BY Saved
<1>3. CASE g # seg[q].id
  BY <1>2, <1>3 DEF NarrowsOrReset, Writes, SegTypes
<1>4. CASE g = seg[q].id
  <2>1. segments'[g] = row
    BY <1>2, <1>4 DEF SegTypes, Writes
  <2>2. Knows(seg[q], segments[g])
    BY <1>1, <1>4 DEF NarrowInv
  <2>3. CASE seg[q].op \in {"name", "query"}
    <3>1. segments'[g].filter = segments[g].filter
      BY <1>1, <1>2, <2>1, <2>2, <2>3 DEF SavedFilter, Knows
    <3>2. QED
      BY <3>1 DEF NarrowsOrReset
  <2>4. CASE seg[q].op = "delete"
    BY <1>2, <2>1, <2>4 DEF NarrowsOrReset
  <2>5. CASE seg[q].op = "reset"
    BY <1>1, <1>4, <2>5 DEF NarrowsOrReset, ResetOf, SegAt
  <2>6. CASE seg[q].op = "nofilter"
    BY <1>1, <2>2, <2>6 DEF NarrowsOrReset, Knows
  <2>7. CASE seg[q].op \in {"value", "fatigue"}
    <3>1. Narrows(seg[q].new, segments[g].filter)
      BY <1>1, <2>2, <2>7 DEF Knows
    <3>2. segments'[g].filter = seg[q].new
      BY <1>2, <2>1, <2>7 DEF SavedFilter
    <3>3. QED
      BY <3>1, <3>2 DEF NarrowsOrReset, Narrows
  <2>8. seg[q].op # "create"
    BY <1>1 DEF SegOK
  <2>9. QED
    BY <1>1, <2>3, <2>4, <2>5, <2>6, <2>7, <2>8 DEF SegOps
<1>5. QED
  BY <1>3, <1>4

LEMMA CreateNarrows ==
    ASSUME SegTypes, NarrowInv, NEW q \in SegRequests, SegCreate(q), NEW g \in SegIds
    PROVE  NarrowsOrReset(g)
<1>1. seg[q].at = "create"
  BY Created
<1>2. PICK row : Writes(q, row)
  BY Created
<1>3. CASE g # seg[q].id
  BY <1>2, <1>3 DEF NarrowsOrReset, Writes, SegTypes
<1>4. CASE g = seg[q].id
  BY <1>1, <1>4, NoSegmentRow DEF NarrowsOrReset, NarrowInv, Knows
<1>5. QED
  BY <1>3, <1>4

LEMMA StepNarrows ==
    SegTypes /\ NarrowInv /\ [SegmentNext]_<<segVars, ftVars>> =>
        (UNCHANGED segVars \/ \A g \in SegIds : NarrowsOrReset(g))
<1> SUFFICES ASSUME SegTypes, NarrowInv, [SegmentNext]_<<segVars, ftVars>>, ~UNCHANGED segVars,
                    NEW g \in SegIds
             PROVE  NarrowsOrReset(g)
  OBVIOUS
<1>1. segments' = segments => NarrowsOrReset(g)
  BY DEF NarrowsOrReset
<1>2. PICK q \in SegRequests :
        \/ SegReceive(q) \/ SegCreate(q) \/ SegCheck(q) \/ FatigueRows(q) \/ LookUpHistory(q)
        \/ SegFind(q) \/ SegSave(q) \/ SegStop(q)
  BY DEF SegmentNext, SegmentStep, segVars
<1>3. SegCreate(q) \/ SegSave(q) \/ segments' = segments
  BY <1>2 DEF SegReceive, SegCheck, FatigueRows, LookUpHistory, SegFind, SegStop
<1>4. QED
  BY <1>1, <1>3, CreateNarrows, SaveNarrows

LEMMA SegHolds == SegmentSpec /\ []SegAlone => [](SegTypes /\ NarrowInv)
<1>1. QED
  BY SegTypesHold, NarrowInit, NarrowStep, PTL DEF SegmentSpec

(***************************************************************************)
(* While no two requests in flight are about the same segment, only a      *)
(* reset lets numbers back in: each request stores a whole filter made of  *)
(* what it read before its awaits, which is then still the filter in the   *)
(* row.  Requests on other segments, and sends, may overlap with it.       *)
(***************************************************************************)
THEOREM OnlyResetWidens == SegmentSpec /\ []SegAlone => FilterOnlyNarrows
<1>1. SegTypes /\ NarrowInv /\ [SegmentNext]_<<segVars, ftVars>>
        => [\A g \in SegIds :
              (segments[g].filter # SegNone /\ segments'[g].live) =>
                  \/ ResetOf(g)
                  \/ /\ segments'[g].filter # SegNone
                     /\ FilterRows(segments'[g].filter) \subseteq FilterRows(segments[g].filter)]_segVars
  BY StepNarrows DEF NarrowsOrReset
<1>2. QED
  BY <1>1, SegHolds, PTL DEF SegmentSpec, FilterOnlyNarrows
=============================================================================
