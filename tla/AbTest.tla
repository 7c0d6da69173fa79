-------------------------------- MODULE AbTest --------------------------------
(***************************************************************************)
(* The winner of an A/B test.  A send stores three rows, A, B and the      *)
(* unsent remainder N; two hours later a job compares the clicks of A and  *)
(* B and sends the winner's content to the remainder.  Nothing links the   *)
(* three rows: the job takes the ids before that of N for A and B.  Ids    *)
(* come from one sequence shared by all sends of all users.                *)
(*                                                                         *)
(* SMS (sendAbTestMessage, handleAbTestInterval) and KakaoTalk             *)
(* (sendAbTestBizmessage, handleAbTestResultPolling) do the same on tables *)
(* of their own; channel says which of the two is looked at.               *)
(***************************************************************************)
EXTENDS Integers, Sequences, FiniteSets

CONSTANTS
    AbSends,        \* A/B sends of all users
    Defaults,       \* default sends of all users; they only take an id
    Linked,         \* A/B sends with a link (KakaoTalk: a button) to count clicks on
    Short,          \* KakaoTalk A/B sends without a remainder
    Channels,       \* subset of {"sms", "kakao"}
    Ticks,          \* runs of the job that can be in flight together
    Interleave,     \* may sends store their rows in between those of others?
    None,           \* no run
    MaxFailures     \* bound: rejected calls of the job and deaths of the process

Sends == AbSends \cup Defaults

ASSUME SendsAssumption == AbSends \cap Defaults = {} /\ Linked \cup Short \subseteq AbSends
ASSUME ChannelsAssumption == Channels \subseteq {"sms", "kakao"}
ASSUME BoundsAssumption == Interleave \in BOOLEAN /\ MaxFailures \in Nat

VARIABLES
    channel,    \* whose table this is; never changes
    rows,       \* rows[i]: the row with id i, [send, part]
    contents,   \* content rows, as <<send, part>>
    sent,       \* ids of the remainders with isSent
    next,       \* next[s]: what send s stores next
    stopped,    \* sends that ended in a rejected call or with the process
    due,        \* ids of the remainders older than two hours
    posts,      \* what the job sent, in order: [row |-> id of N, from |-> id of the winner]
    job,        \* job[t]: a run of the job, or None
    failures

store == <<rows, contents, sent>>
vars == <<channel, store, next, stopped, due, posts, job, failures>>

Ids == 1..Len(rows)

Init ==
    /\ channel \in Channels
    /\ rows = <<>>
    /\ contents = {}
    /\ sent = {}
    /\ next = [s \in Sends |-> IF s \in AbSends THEN "A" ELSE "Default"]
    /\ stopped = {}
    /\ due = {}
    /\ posts = <<>>
    /\ job = [t \in Ticks |-> None]
    /\ failures = 0

-----------------------------------------------------------------------------
(* The sends.                                                              *)

InFlight(s) == next[s] \in {"A content", "B", "B content", "N"} /\ s \notin stopped

\* The content of a default send has no remainder (the column defaults to []);
\* whether it is stored makes no difference here.
InsertRow(s) ==
    /\ next[s] \in {"A", "B", "N", "Default"} /\ s \notin stopped
    /\ Interleave \/ \A r \in Sends \ {s} : ~InFlight(r)
    /\ rows' = Append(rows, [send |-> s, part |-> next[s]])
    /\ next' = [next EXCEPT ![s] = CASE @ = "A" -> "A content"
                                     [] @ = "B" -> "B content"
                                     [] OTHER -> "done"]
    /\ UNCHANGED <<channel, contents, sent, stopped, due, posts, job, failures>>

InsertContent(s) ==
    /\ next[s] \in {"A content", "B content"} /\ s \notin stopped
    /\ contents' = contents \cup {<<s, IF next[s] = "A content" THEN "A" ELSE "B">>}
    /\ next' = [next EXCEPT ![s] = IF @ = "A content" THEN "B" ELSE "N"]
    /\ UNCHANGED <<channel, rows, sent, stopped, due, posts, job, failures>>

\* NCP or the database rejects a call of the send: it goes no further.
StopSend(s) ==
    /\ InFlight(s)
    /\ stopped' = stopped \cup {s}
    /\ UNCHANGED <<channel, store, next, due, posts, job, failures>>

\* Two hours pass.
Age(i) ==
    /\ i \in Ids \ due /\ rows[i].part = "N"
    /\ due' = due \cup {i}
    /\ UNCHANGED <<channel, store, next, stopped, posts, job, failures>>

-----------------------------------------------------------------------------
(* The job.                                                                *)

\* Variant: the query does not ask for isSent.
NotSendAll == due

\* findNotSend
NotSend == due \ sent

\* Variant: off by one.
AIdBefore(i) == i - 3

\* aMessageId and bMessageId of the remainder i
AId(i) == i - 2
BId(i) == i - 1

\* Is there a link on the row to count the clicks of?
HasLink(i) ==
    /\ rows[i].send \in Linked
    /\ rows[i].part = "N" => i \in sent

\* Can the job read the clicks of the row?  It fails on an id without a row and
\* on a KakaoTalk row without buttons (buttonIdStringList is [], which is true,
\* so the branches for images and contents are never reached).  The idString of
\* an SMS row without a link is null, which is no condition for findOne: the
\* clicks of any link come back, if there is one.
ClicksReadable(i) == i \in Ids /\ (channel = "sms" \/ HasLink(i))
ClicksMissing(i) == i \in Ids => ~HasLink(i)

\* Does the row have a content with a remainder to send it to?  Otherwise the
\* loop makes no pass and using takeBody throws.
HasRemainder(i) ==
    /\ rows[i].part \in {"A", "B"}
    /\ <<rows[i].send, rows[i].part>> \in contents
    /\ channel = "sms" \/ rows[i].send \notin Short

At(t, s) == job[t] # None /\ job[t].at = s

Run(at, todo, row, from) == [at |-> at, todo |-> todo, row |-> row, from |-> from]

\* The run goes on with the next row of its list, or ends.
Onward(todo) == IF todo = {} THEN None ELSE Run("next", todo, 0, 0)

\* Variant: the first row that fails ends the run.
CaughtOutside(todo) == None

\* The catch: a row that throws does not keep the run from the next one.
Caught(todo) == Onward(todo)

TickStart(t) ==
    /\ job[t] = None
    /\ NotSend # {}
    /\ job' = [job EXCEPT ![t] = Run("next", NotSend, 0, 0)]
    /\ UNCHANGED <<channel, store, next, stopped, due, posts, failures>>

\* The clicks of A.
ReadA(t) ==
    /\ At(t, "next")
    /\ \E i \in job[t].todo :
          \/ /\ ClicksReadable(AId(i))
             /\ job' = [job EXCEPT ![t] = Run("b", @.todo \ {i}, i, 0)]
          \/ /\ ClicksMissing(AId(i))
             /\ job' = [job EXCEPT ![t] = Caught(@.todo \ {i})]
    /\ UNCHANGED <<channel, store, next, stopped, due, posts, failures>>

\* The clicks of B, and the comparison.  Either may have more.
ReadB(t) ==
    /\ At(t, "b")
    /\ LET i == job[t].row IN
       \/ /\ ClicksReadable(BId(i))
          /\ \E w \in {AId(i), BId(i)} :
                job' = [job EXCEPT ![t] = Run("post", @.todo, i, w)]
       \/ ClicksMissing(BId(i)) /\ job' = [job EXCEPT ![t] = Caught(@.todo)]
    /\ UNCHANGED <<channel, store, next, stopped, due, posts, failures>>

\* sendAbTestWinnerMessage, sendWinnerBizmessage: the winner's content goes to
\* the receivers in its remainReceiverList.  The step stands for the first
\* request NCP accepts; if a later one fails the call is Rejected next.
Post(t) ==
    /\ At(t, "post")
    /\ LET run == job[t] IN
       \/ /\ HasRemainder(run.from)
          /\ posts' = Append(posts, [row |-> run.row, from |-> run.from])
          /\ job' = [job EXCEPT ![t] = Run("save", run.todo, run.row, run.from)]
       \/ /\ ~HasRemainder(run.from)
          /\ job' = [job EXCEPT ![t] = Caught(@.todo)]
          /\ UNCHANGED posts
    /\ UNCHANGED <<channel, store, next, stopped, due, failures>>

\* Variant: saves the row it took the content from.
SaveWinner(t) ==
    /\ At(t, "save")
    /\ sent' = sent \cup {job[t].from}
    /\ job' = [job EXCEPT ![t] = Run("content", @.todo, @.row, @.from)]
    /\ UNCHANGED <<channel, rows, contents, next, stopped, due, posts, failures>>

\* The row of the remainder: isSent, and the sentType of the winner.
Save(t) ==
    /\ At(t, "save")
    /\ sent' = sent \cup {job[t].row}
    /\ job' = [job EXCEPT ![t] = Run("content", @.todo, @.row, @.from)]
    /\ UNCHANGED <<channel, rows, contents, next, stopped, due, posts, failures>>

\* Its content row.
SaveContent(t) ==
    /\ At(t, "content")
    /\ contents' = contents \cup {<<rows[job[t].row].send, "N">>}
    /\ job' = [job EXCEPT ![t] = Onward(@.todo)]
    /\ UNCHANGED <<channel, rows, sent, next, stopped, due, posts, failures>>

\* A call of the job rejects.
Reject(t) ==
    /\ failures < MaxFailures
    /\ job[t] # None
    /\ job' = [job EXCEPT ![t] = Caught(@.todo)]
    /\ failures' = failures + 1
    /\ UNCHANGED <<channel, store, next, stopped, due, posts>>

\* The process ends, with the runs and the sends it was at.
Crash ==
    /\ failures < MaxFailures
    /\ failures' = failures + 1
    /\ job' = [t \in Ticks |-> None]
    /\ stopped' = stopped \cup {s \in Sends : InFlight(s)}
    /\ UNCHANGED <<channel, store, next, due, posts>>

-----------------------------------------------------------------------------

Work(t) == ReadA(t) \/ ReadB(t) \/ Post(t) \/ Save(t) \/ SaveContent(t)

Next ==
    \/ \E s \in Sends : InsertRow(s) \/ InsertContent(s) \/ StopSend(s)
    \/ \E i \in Ids : Age(i)
    \/ \E t \in Ticks :
          \/ TickStart(t) \/ ReadA(t) \/ ReadB(t) \/ Post(t) \/ Save(t) \/ SaveContent(t)
          \/ Reject(t)
    \/ Crash

Spec == Init /\ [][Next]_vars

\* The timer keeps firing and an awaited call answers, one way or the other.
Fairness == \A t \in Ticks : WF_vars(TickStart(t)) /\ WF_vars(Work(t))

FairSpec == Spec /\ Fairness

-----------------------------------------------------------------------------
(* Properties.                                                             *)

Parts == {"A", "B", "N", "Default"}

Runs == [at : {"next", "b", "post", "save", "content"}, todo : SUBSET (Nat \ {0}),
         row : Nat, from : Int]

ASSUME NoneAssumption == None \notin Runs

TypeOK ==
    /\ channel \in Channels
    /\ rows \in Seq([send : Sends, part : Parts])
    /\ contents \subseteq Sends \X Parts
    /\ due \subseteq {i \in Ids : rows[i].part = "N"}
    /\ sent \subseteq due
    /\ next \in [Sends -> Parts \cup {"A content", "B content", "done"}]
    /\ stopped \subseteq Sends
    /\ posts \in Seq([row : due, from : Ids])
    /\ job \in [Ticks -> {None} \cup Runs]
    /\ failures \in 0..MaxFailures

(***************************************************************************)
(* The rows before a remainder are the A and B rows of the same test.      *)
(***************************************************************************)
Aligned(i) ==
    /\ AId(i) \in Ids /\ rows[AId(i)] = [send |-> rows[i].send, part |-> "A"]
    /\ BId(i) \in Ids /\ rows[BId(i)] = [send |-> rows[i].send, part |-> "B"]

(***************************************************************************)
(* The winner goes to the receivers of its own test and is recorded there: *)
(* the ids the job computes are those of the A and B rows of the send, and *)
(* the list it sends to is the remainder of that send, whichever sends     *)
(* stopped half-way before it.  It needs sends that do not overlap, which  *)
(* the code does not ensure.                                               *)
(***************************************************************************)
WinnerGoesToOwnRemainder ==
    \A k \in 1..Len(posts) :
        /\ rows[posts[k].from].send = rows[posts[k].row].send
        /\ rows[posts[k].from].part \in {"A", "B"}

(***************************************************************************)
(* A remainder gets a second message only if a failure kept the first from *)
(* being recorded.                                                         *)
(***************************************************************************)
ResentOnlyAfterFailure ==
    \A i \in due :
        Cardinality({k \in 1..Len(posts) : posts[k].row = i}) <= 1 + failures

(***************************************************************************)
(* A test with links and a remainder is decided in the end, whatever other *)
(* tests are stuck in the list of every run.                               *)
(***************************************************************************)
Decidable(i) ==
    /\ i \in due
    /\ rows[i].send \in Linked
    /\ channel = "sms" \/ rows[i].send \notin Short

Decided(i) == i \in sent

EventuallyDecided == \A s \in AbSends :
    (\E i \in Ids : rows[i].send = s /\ Decidable(i))
        ~> (\E i \in Ids : rows[i].send = s /\ Decided(i))
=============================================================================
