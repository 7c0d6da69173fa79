----------------------------- MODULE AbTest_proofs -----------------------------
(***************************************************************************)
(* AbTest for any number of sends, runs of the job and failures: its type  *)
(* invariant; that the winner goes to the remainder of its own test as     *)
(* long as sends do not store their rows in between each other's; and that *)
(* a remainder is sent again only after a failure, as long as runs of the  *)
(* job do not overlap.                                                     *)
(***************************************************************************)
EXTENDS AbTest, SequenceTheorems, FiniteSetTheorems, TLAPS

(***************************************************************************)
(* A run only holds ids of remainders that are due, the id of A once its   *)
(* clicks were read, and as winner one of the two ids before.              *)
(***************************************************************************)
HoldsRow(run) ==
    /\ run.row \in due
    /\ run.at = "b" => AId(run.row) \in Ids
    /\ run.at \in {"post", "save"} =>
           run.from \in Ids /\ run.from \in {AId(run.row), BId(run.row)}

RunOK(run) ==
    /\ run \in Runs
    /\ run.todo \subseteq due
    /\ run.at # "next" => HoldsRow(run)

JobInv == \A t \in Ticks : job[t] # None => RunOK(job[t])

PostInv == \A k \in 1..Len(posts) : posts[k].from \in {AId(posts[k].row), BId(posts[k].row)}

TypeInv == TypeOK /\ JobInv /\ PostInv

LEMMA InitTypes == Init => TypeInv
  BY BoundsAssumption
  DEF Init, TypeInv, TypeOK, JobInv, PostInv, Parts, Ids

\* Runs only hold what is due, so what is due may grow, as may the rows.
LEMMA RunsKept ==
    ASSUME TypeInv, NEW run, RunOK(run), due \subseteq due', Ids \subseteq Ids'
    PROVE  RunOK(run)'
  BY DEF RunOK, HoldsRow, AId, BId

LEMMA DueIds ==
    ASSUME TypeOK
    PROVE  Len(rows) \in Nat /\ due \subseteq Ids /\ due \subseteq Nat \ {0}
<1>1. rows \in Seq([send : Sends, part : Parts]) /\ due \subseteq Ids
  BY DEF TypeOK
<1>2. Len(rows) \in Nat
  BY <1>1, LenProperties
<1>3. Ids \subseteq Nat \ {0}
  BY <1>2 DEF Ids
<1>4. QED
  BY <1>1, <1>2, <1>3

LEMMA OnwardOK ==
    ASSUME TypeOK, NEW todo \in SUBSET due
    PROVE  Onward(todo) \in {None} \cup Runs /\ (Onward(todo) # None => RunOK(Onward(todo)))
<1> DEFINE r == Run("next", todo, 0, 0)
<1>1. todo \in SUBSET (Nat \ {0})
  BY DueIds
<1>2. r \in Runs /\ r.todo = todo /\ r.at = "next"
  BY <1>1 DEF Run, Runs
<1>3. RunOK(r)
  BY <1>2 DEF RunOK
<1>4. QED
  BY <1>2, <1>3 DEF Onward

-----------------------------------------------------------------------------
(* One more row, and one more post.                                        *)

LEMMA InsertAppends ==
    ASSUME TypeOK, NEW s \in Sends, InsertRow(s)
    PROVE  /\ rows' \in Seq([send : Sends, part : Parts])
           /\ Len(rows') = Len(rows) + 1
           /\ Ids' = Ids \cup {Len(rows) + 1}
           /\ \A i \in Ids : rows'[i] = rows[i]
           /\ rows'[Len(rows) + 1] = [send |-> s, part |-> next[s]]
<1> DEFINE e == [send |-> s, part |-> next[s]]
           T == [send : Sends, part : Parts]
<1>1. rows \in Seq(T) /\ e \in T
  BY DEF TypeOK, InsertRow, Parts
<1>2. rows' = Append(rows, e)
  BY DEF InsertRow
<1> HIDE DEF e, T
<1>3. /\ rows' \in Seq(T)
      /\ Len(rows') = Len(rows) + 1
      /\ \A i \in 1..Len(rows) : rows'[i] = rows[i]
      /\ rows'[Len(rows) + 1] = e
  BY <1>1, <1>2, AppendProperties
<1>4. Len(rows) \in Nat
  BY <1>1, LenProperties
<1>5. Ids' = Ids \cup {Len(rows) + 1}
  BY <1>3, <1>4 DEF Ids
<1>6. QED
  BY <1>3, <1>5 DEF e, T, Ids

LEMMA PostAppends ==
    ASSUME TypeOK, NEW i \in due, NEW w \in Ids, posts' = Append(posts, [row |-> i, from |-> w])
    PROVE  /\ posts' \in Seq([row : due, from : Ids])
           /\ \A k \in 1..Len(posts') :
                 \/ k \in 1..Len(posts) /\ posts'[k] = posts[k]
                 \/ posts'[k] = [row |-> i, from |-> w]
<1> DEFINE e == [row |-> i, from |-> w]
           T == [row : due, from : Ids]
<1>1. posts \in Seq(T) /\ e \in T
  BY DEF TypeOK
<1> HIDE DEF e, T
<1>2. posts' = Append(posts, e)
  BY DEF e
<1>3. /\ posts' \in Seq(T)
      /\ Len(posts') = Len(posts) + 1
      /\ \A k \in 1..Len(posts) : posts'[k] = posts[k]
      /\ posts'[Len(posts) + 1] = e
  BY <1>1, <1>2, AppendProperties
<1>4. Len(posts) \in Nat
  BY <1>1, LenProperties
<1>5. \A k \in 1..Len(posts') : k \in 1..Len(posts) \/ k = Len(posts) + 1
  BY <1>3, <1>4
<1>6. QED
  BY <1>3, <1>5 DEF e, T

-----------------------------------------------------------------------------
(* The type invariant.                                                     *)

LEMMA JobsKept ==
    ASSUME TypeInv, job' = job, due \subseteq due', Ids \subseteq Ids'
    PROVE  JobInv'
<1> SUFFICES ASSUME NEW t \in Ticks, job[t] # None PROVE RunOK(job[t])'
  BY DEF JobInv
<1>1. RunOK(job[t])
  BY DEF TypeInv, JobInv
<1>2. QED
  BY <1>1 DEF RunOK, HoldsRow, AId, BId

LEMMA JobChanges ==
    ASSUME TypeInv, NEW t \in Ticks, NEW STATE r, r \in {None} \cup Runs, r # None => RunOK(r),
           job' = [job EXCEPT ![t] = r], due' = due, rows' = rows
    PROVE  job' \in [Ticks -> {None} \cup Runs] /\ JobInv'
<1>1. job' \in [Ticks -> {None} \cup Runs]
  BY DEF TypeInv, TypeOK
<1>2. ASSUME NEW u \in Ticks, job'[u] # None PROVE RunOK(job[u])'
  <2>1. RunOK(job'[u])
    <3>1. job \in [Ticks -> {None} \cup Runs]
      BY DEF TypeInv, TypeOK
    <3>2. CASE u = t
      BY <3>1, <3>2, <1>2
    <3>3. CASE u # t
      BY <3>1, <3>3, <1>2 DEF TypeInv, JobInv
    <3>4. QED
      BY <3>2, <3>3
  <2>2. QED
    BY <2>1 DEF RunOK, HoldsRow, AId, BId, Ids
<1>3. QED
  BY <1>1, <1>2 DEF JobInv

\* An action that only moves a run on.
LEMMA JobOnly ==
    ASSUME TypeInv, NEW t \in Ticks, NEW STATE r, r \in {None} \cup Runs, r # None => RunOK(r),
           job' = [job EXCEPT ![t] = r],
           UNCHANGED <<channel, store, next, stopped, due, posts>>, failures' \in 0..MaxFailures
    PROVE  TypeInv'
<1>1. job' \in [Ticks -> {None} \cup Runs] /\ JobInv'
  BY JobChanges DEF store
<1>2. PostInv'
  BY DEF TypeInv, PostInv, store, AId, BId
<1>3. TypeOK'
  BY <1>1 DEF TypeInv, TypeOK, store, Ids
<1>4. QED
  BY <1>1, <1>2, <1>3 DEF TypeInv

\* What the current run of t holds.
LEMMA RunHolds ==
    ASSUME TypeInv, NEW t \in Ticks, job[t] # None
    PROVE  /\ RunOK(job[t])
           /\ Onward(job[t].todo) \in {None} \cup Runs
           /\ Onward(job[t].todo) # None => RunOK(Onward(job[t].todo))
<1>1. RunOK(job[t])
  BY DEF TypeInv, JobInv
<1>2. job[t].todo \in SUBSET due
  BY <1>1 DEF RunOK
<1>3. QED
  BY <1>1, <1>2, OnwardOK DEF TypeInv

LEMMA TypesInsert ==
    ASSUME TypeInv, NEW s \in Sends, InsertRow(s)
    PROVE  TypeInv'
<1> USE DEF TypeInv
<1>1. Ids \subseteq Ids' /\ \A i \in Ids : rows'[i] = rows[i]
  BY InsertAppends
<1>2. rows' \in Seq([send : Sends, part : Parts])
  BY InsertAppends
<1>3. UNCHANGED <<channel, contents, sent, stopped, due, posts, job, failures>>
  BY DEF InsertRow
<1>4. JobInv'
  BY <1>1, <1>3, JobsKept
<1>5. PostInv'
  BY <1>3 DEF PostInv, AId, BId
<1>6. next' \in [Sends -> Parts \cup {"A content", "B content", "done"}]
  BY DEF TypeOK, InsertRow
<1>7. posts' \in Seq([row : due', from : Ids'])
  <2>1. [row : due, from : Ids] \subseteq [row : due', from : Ids']
    BY <1>1, <1>3
  <2>2. posts \in Seq([row : due, from : Ids])
    BY DEF TypeOK
  <2>3. QED
    BY <2>1, <2>2, <1>3, SeqMonotonic
<1>8. due' \subseteq {i \in Ids' : rows'[i].part = "N"}
  BY <1>1, <1>3 DEF TypeOK
<1>9. TypeOK'
  <2>1. /\ channel \in Channels /\ contents \subseteq Sends \X Parts /\ sent \subseteq due
        /\ stopped \subseteq Sends /\ job \in [Ticks -> {None} \cup Runs]
        /\ failures \in 0..MaxFailures
    BY DEF TypeOK
  <2>2. QED
    BY <2>1, <1>2, <1>3, <1>6, <1>7, <1>8 DEF TypeOK
<1>10. QED
  BY <1>4, <1>5, <1>9

LEMMA TypesAge ==
    ASSUME TypeInv, NEW i \in Ids, Age(i)
    PROVE  TypeInv'
<1> USE DEF TypeInv
<1>1. due \subseteq due' /\ Ids' = Ids /\ rows' = rows /\ i \in Ids /\ rows[i].part = "N"
  BY DEF Age, store, Ids
<1>2. UNCHANGED <<channel, rows, contents, sent, next, stopped, posts, job, failures>>
      /\ due' = due \cup {i}
  BY DEF Age, store
<1>3. JobInv'
  BY <1>1, <1>2, JobsKept
<1>4. PostInv'
  BY <1>2 DEF PostInv, AId, BId
<1>5. posts' \in Seq([row : due', from : Ids'])
  <2>1. [row : due, from : Ids] \subseteq [row : due', from : Ids']
    BY <1>1
  <2>2. posts \in Seq([row : due, from : Ids])
    BY DEF TypeOK
  <2>3. posts \in Seq([row : due', from : Ids'])
    BY <2>1, <2>2, SeqMonotonic
  <2>4. QED
    BY <2>3, <1>2
<1>6. due' \subseteq {j \in Ids' : rows'[j].part = "N"}
  BY <1>1, <1>2 DEF TypeOK
<1>7. TypeOK'
  <2>1. /\ channel \in Channels /\ contents \subseteq Sends \X Parts /\ sent \subseteq due
        /\ stopped \subseteq Sends /\ job \in [Ticks -> {None} \cup Runs]
        /\ rows \in Seq([send : Sends, part : Parts])
        /\ next \in [Sends -> Parts \cup {"A content", "B content", "done"}]
        /\ failures \in 0..MaxFailures
    BY DEF TypeOK
  <2>2. QED
    BY <2>1, <1>1, <1>2, <1>5, <1>6 DEF TypeOK
<1>8. QED
  BY <1>3, <1>4, <1>7

LEMMA TypesRead ==
    ASSUME TypeInv, NEW t \in Ticks, TickStart(t) \/ ReadA(t) \/ ReadB(t)
    PROVE  TypeInv'
<1>0. failures \in 0..MaxFailures
  BY DEF TypeInv, TypeOK
<1>1. CASE TickStart(t)
  <2> DEFINE r == Run("next", NotSend, 0, 0)
  <2>1. NotSend \in SUBSET due /\ NotSend \in SUBSET (Nat \ {0})
    BY DueIds DEF NotSend, TypeInv
  <2>2. r \in Runs /\ RunOK(r)
    BY <2>1 DEF Run, Runs, RunOK
  <2>3. job' = [job EXCEPT ![t] = r] /\ UNCHANGED <<channel, store, next, stopped, due, posts, failures>>
    BY <1>1 DEF TickStart
  <2> HIDE DEF r
  <2>4. QED
    BY <1>0, <2>2, <2>3, JobOnly
<1>2. CASE ReadA(t)
  <2>1. job[t] # None /\ job[t].todo \in SUBSET due
    BY <1>2, RunHolds DEF ReadA, At, RunOK
  <2>2. PICK i \in job[t].todo :
          \/ ClicksReadable(AId(i)) /\ job' = [job EXCEPT ![t] = Run("b", @.todo \ {i}, i, 0)]
          \/ job' = [job EXCEPT ![t] = Caught(@.todo \ {i})]
    BY <1>2 DEF ReadA
  <2> DEFINE rest == job[t].todo \ {i}
             r == Run("b", rest, i, 0)
             c == Onward(rest)
  <2>3. rest \in SUBSET due /\ rest \in SUBSET (Nat \ {0}) /\ i \in due /\ i \in Nat
    BY <2>1, DueIds DEF TypeInv
  <2>4. UNCHANGED <<channel, store, next, stopped, due, posts, failures>>
    BY <1>2 DEF ReadA
  <2>5. CASE ClicksReadable(AId(i)) /\ job' = [job EXCEPT ![t] = r]
    <3>1. r \in Runs /\ r.todo = rest /\ r.at = "b" /\ r.row = i
      BY <2>3 DEF Run, Runs
    <3>2. RunOK(r)
      BY <2>3, <2>5, <3>1 DEF RunOK, HoldsRow, ClicksReadable
    <3> HIDE DEF r
    <3>3. QED
      BY <1>0, <2>4, <2>5, <3>1, <3>2, JobOnly
  <2>6. CASE job' = [job EXCEPT ![t] = c]
    <3>1. c \in {None} \cup Runs /\ (c # None => RunOK(c))
      BY <2>3, OnwardOK DEF TypeInv
    <3> HIDE DEF c
    <3>2. QED
      BY <1>0, <2>4, <2>6, <3>1, JobOnly
  <2>7. QED
    BY <2>2, <2>5, <2>6 DEF Caught
<1>3. CASE ReadB(t)
  <2>1. job[t] # None /\ RunOK(job[t]) /\ job[t].at = "b" /\ job[t] \in Runs
    BY <1>3, RunHolds DEF ReadB, At, RunOK
  <2> DEFINE i == job[t].row
  <2>2. i \in due /\ AId(i) \in Ids /\ i \in Nat
    BY <2>1, DueIds DEF RunOK, HoldsRow, TypeInv
  <2>3. UNCHANGED <<channel, store, next, stopped, due, posts, failures>>
    BY <1>3 DEF ReadB
  <2>4. \/ \E w \in {AId(i), BId(i)} :
               BId(i) \in Ids /\ job' = [job EXCEPT ![t] = Run("post", @.todo, i, w)]
        \/ job' = [job EXCEPT ![t] = Caught(@.todo)]
    BY <1>3 DEF ReadB, ClicksReadable
  <2>5. ASSUME NEW w \in {AId(i), BId(i)}, BId(i) \in Ids,
               job' = [job EXCEPT ![t] = Run("post", @.todo, i, w)]
        PROVE  TypeInv'
    <3> DEFINE r == Run("post", job[t].todo, i, w)
    <3>1. w \in Ids /\ w \in Int
      BY <2>2, <2>5 DEF AId, BId
    <3>2. job[t].todo \in SUBSET (Nat \ {0}) /\ job[t].todo \subseteq due
      BY <2>1 DEF Runs, RunOK
    <3>3. r \in Runs /\ r.todo = job[t].todo /\ r.at = "post" /\ r.row = i /\ r.from = w
      BY <2>2, <3>1, <3>2 DEF Run, Runs
    <3>4. RunOK(r)
      BY <2>2, <3>1, <3>2, <3>3 DEF RunOK, HoldsRow
    <3>5. job' = [job EXCEPT ![t] = r]
      BY <2>5
    <3> HIDE DEF r
    <3>6. QED
      BY <1>0, <2>3, <3>3, <3>4, <3>5, JobOnly
  <2>6. CASE job' = [job EXCEPT ![t] = Caught(@.todo)]
    <3> DEFINE c == Onward(job[t].todo)
    <3>1. c \in {None} \cup Runs /\ (c # None => RunOK(c)) /\ job' = [job EXCEPT ![t] = c]
      BY <2>1, <2>6, RunHolds DEF Caught
    <3> HIDE DEF c
    <3>2. QED
      BY <1>0, <2>3, <3>1, JobOnly
  <2>7. QED
    BY <2>4, <2>5, <2>6
<1>4. QED
  BY <1>1, <1>2, <1>3

LEMMA TypesPost ==
    ASSUME TypeInv, NEW t \in Ticks, Post(t)
    PROVE  TypeInv'
<1> DEFINE i == job[t].row
           w == job[t].from
           r == Run("save", job[t].todo, i, w)
           c == Onward(job[t].todo)
<1>0. failures \in 0..MaxFailures
  BY DEF TypeInv, TypeOK
<1>1. job[t] # None /\ RunOK(job[t]) /\ job[t].at = "post" /\ job[t] \in Runs
  BY RunHolds DEF Post, At, RunOK
<1>2. i \in due /\ w \in Ids /\ w \in {AId(i), BId(i)}
  BY <1>1 DEF RunOK, HoldsRow
<1>3. UNCHANGED <<channel, store, next, stopped, due, failures>>
  BY DEF Post
<1>4. CASE posts' = Append(posts, [row |-> i, from |-> w]) /\ job' = [job EXCEPT ![t] = r]
  <2>1. r \in Runs /\ r.todo = job[t].todo /\ r.at = "save" /\ r.row = i /\ r.from = w
    BY <1>1 DEF Run, Runs
  <2>2. RunOK(r)
    BY <1>1, <1>2, <2>1 DEF RunOK, HoldsRow
  <2>3. due' = due /\ rows' = rows
    BY <1>3 DEF store
  <2> HIDE DEF r
  <2>4. job' \in [Ticks -> {None} \cup Runs] /\ JobInv'
    BY <1>4, <2>1, <2>2, <2>3, JobChanges
  <2> HIDE DEF i, w
  <2>5. posts' \in Seq([row : due, from : Ids])
    BY <1>2, <1>4, PostAppends DEF TypeInv
  <2>6. ASSUME NEW k \in 1..Len(posts') PROVE posts'[k].from \in {AId(posts'[k].row), BId(posts'[k].row)}
    <3>1. \/ k \in 1..Len(posts) /\ posts'[k] = posts[k]
          \/ posts'[k] = [row |-> i, from |-> w]
      BY <1>2, <1>4, PostAppends DEF TypeInv
    <3>2. QED
      BY <3>1, <1>2 DEF TypeInv, PostInv
  <2>7. PostInv'
    BY <2>6 DEF PostInv, AId, BId
  <2>8. TypeOK'
    <3>1. /\ channel \in Channels /\ contents \subseteq Sends \X Parts /\ sent \subseteq due
          /\ stopped \subseteq Sends /\ due \subseteq {j \in Ids : rows[j].part = "N"}
          /\ rows \in Seq([send : Sends, part : Parts])
          /\ next \in [Sends -> Parts \cup {"A content", "B content", "done"}]
          /\ failures \in 0..MaxFailures
      BY DEF TypeInv, TypeOK
    <3>2. QED
      BY <3>1, <1>3, <2>4, <2>5 DEF TypeOK, store, Ids
  <2>9. QED
    BY <2>4, <2>7, <2>8 DEF TypeInv
<1>5. CASE job' = [job EXCEPT ![t] = c] /\ UNCHANGED posts
  <2>1. c \in {None} \cup Runs /\ (c # None => RunOK(c))
    BY <1>1, RunHolds
  <2> HIDE DEF c
  <2>2. QED
    BY <1>0, <1>3, <1>5, <2>1, JobOnly
<1>6. QED
  BY <1>4, <1>5 DEF Post, Caught

LEMMA TypesSave ==
    ASSUME TypeInv, NEW t \in Ticks, Save(t) \/ SaveContent(t)
    PROVE  TypeInv'
<1>1. job[t] # None /\ RunOK(job[t]) /\ job[t].at \in {"save", "content"} /\ job[t] \in Runs
  BY RunHolds DEF Save, SaveContent, At, RunOK
<1>2. job[t].row \in due /\ job[t].row \in Ids
  BY <1>1, DueIds DEF RunOK, HoldsRow, TypeInv
<1>3. UNCHANGED <<channel, rows, next, stopped, due, posts, failures>>
  BY DEF Save, SaveContent
<1>4. job' \in [Ticks -> {None} \cup Runs] /\ JobInv'
  <2>1. CASE Save(t)
    <3> DEFINE r == Run("content", job[t].todo, job[t].row, job[t].from)
    <3>1. r \in Runs /\ r.todo = job[t].todo /\ r.at = "content" /\ r.row = job[t].row
      BY <1>1 DEF Run, Runs
    <3>2. RunOK(r) /\ job' = [job EXCEPT ![t] = r]
      BY <1>1, <1>2, <2>1, <3>1 DEF RunOK, HoldsRow, Save
    <3> HIDE DEF r
    <3>3. QED
      BY <1>3, <3>1, <3>2, JobChanges
  <2>2. CASE SaveContent(t)
    <3> DEFINE c == Onward(job[t].todo)
    <3>1. c \in {None} \cup Runs /\ (c # None => RunOK(c)) /\ job' = [job EXCEPT ![t] = c]
      BY <1>1, <2>2, RunHolds DEF SaveContent
    <3> HIDE DEF c
    <3>2. QED
      BY <1>3, <3>1, JobChanges
  <2>3. QED
    BY <2>1, <2>2
<1>5. sent' \subseteq due
  BY <1>2 DEF Save, SaveContent, TypeInv, TypeOK
<1>6. contents' \subseteq Sends \X Parts
  <2>1. rows[job[t].row].send \in Sends
    <3>1. rows \in Seq([send : Sends, part : Parts])
      BY DEF TypeInv, TypeOK
    <3>2. rows[job[t].row] \in [send : Sends, part : Parts]
      BY <1>2, <3>1, ElementOfSeq DEF Ids
    <3>3. QED
      BY <3>2
  <2>2. contents \subseteq Sends \X Parts
    BY DEF TypeInv, TypeOK
  <2>3. contents' = contents \/ contents' = contents \cup {<<rows[job[t].row].send, "N">>}
    BY DEF Save, SaveContent
  <2>4. QED
    BY <2>1, <2>2, <2>3 DEF Parts
<1>7. PostInv'
  BY <1>3 DEF TypeInv, PostInv, AId, BId
<1>8. TypeOK'
  BY <1>3, <1>4, <1>5, <1>6 DEF TypeInv, TypeOK, Ids
<1>9. QED
  BY <1>4, <1>7, <1>8 DEF TypeInv

LEMMA TypesOther ==
    ASSUME TypeInv,
           \/ \E s \in Sends : InsertContent(s) \/ StopSend(s)
           \/ \E t \in Ticks : Reject(t)
           \/ Crash \/ UNCHANGED vars
    PROVE  TypeInv'
<1>1. ASSUME NEW s \in Sends, InsertContent(s) \/ StopSend(s) PROVE TypeInv'
  <2>1. UNCHANGED <<channel, rows, sent, due, posts, job, failures>>
    BY <1>1 DEF InsertContent, StopSend, store
  <2>2. JobInv'
    BY <2>1, JobsKept DEF Ids
  <2>3. PostInv'
    BY <2>1 DEF TypeInv, PostInv, AId, BId
  <2>4. contents' \subseteq Sends \X Parts
    <3>1. contents \subseteq Sends \X Parts
      BY DEF TypeInv, TypeOK
    <3>2. contents' = contents \/ contents' = contents \cup {<<s, "A">>}
          \/ contents' = contents \cup {<<s, "B">>}
      BY <1>1 DEF InsertContent, StopSend, store
    <3>3. QED
      BY <3>1, <3>2 DEF Parts
  <2>5. next' \in [Sends -> Parts \cup {"A content", "B content", "done"}] /\ stopped' \subseteq Sends
    BY <1>1 DEF InsertContent, StopSend, store, TypeInv, TypeOK, Parts
  <2>6. TypeOK'
    BY <2>1, <2>4, <2>5 DEF TypeInv, TypeOK, Ids
  <2>7. QED
    BY <2>2, <2>3, <2>6 DEF TypeInv
<1>2. ASSUME NEW t \in Ticks, Reject(t) PROVE TypeInv'
  <2> DEFINE c == Onward(job[t].todo)
  <2>1. c \in {None} \cup Runs /\ (c # None => RunOK(c)) /\ job' = [job EXCEPT ![t] = c]
    BY <1>2, RunHolds DEF Reject, Caught
  <2>2. failures' \in 0..MaxFailures
    <3>1. failures \in 0..MaxFailures
      BY DEF TypeInv, TypeOK
    <3>2. QED
      BY <1>2, <3>1, BoundsAssumption DEF Reject
  <2>3. UNCHANGED <<channel, store, next, stopped, due, posts>>
    BY <1>2 DEF Reject
  <2> HIDE DEF c
  <2>4. QED
    BY <2>1, <2>2, <2>3, JobOnly
<1>3. CASE Crash
  <2>1. JobInv' /\ job' \in [Ticks -> {None} \cup Runs]
    BY <1>3 DEF Crash, JobInv
  <2>2. failures' \in 0..MaxFailures /\ stopped' \subseteq Sends
    <3>1. failures \in 0..MaxFailures /\ stopped \subseteq Sends
      BY DEF TypeInv, TypeOK
    <3>2. QED
      BY <1>3, <3>1, BoundsAssumption DEF Crash
  <2>3. UNCHANGED <<channel, store, next, due, posts>>
    BY <1>3 DEF Crash
  <2>4. PostInv'
    BY <2>3 DEF TypeInv, PostInv, AId, BId
  <2>5. TypeOK'
    BY <2>1, <2>2, <2>3 DEF TypeInv, TypeOK, Ids, store
  <2>6. QED
    BY <2>1, <2>4, <2>5 DEF TypeInv
<1>4. CASE UNCHANGED vars
  <2>1. JobInv'
    BY <1>4, JobsKept DEF vars, store, Ids
  <2>2. PostInv'
    BY <1>4 DEF TypeInv, PostInv, AId, BId, vars
  <2>3. TypeOK'
    BY <1>4 DEF TypeInv, TypeOK, Ids, vars, store
  <2>4. QED
    BY <2>1, <2>2, <2>3 DEF TypeInv
<1>5. QED
  BY <1>1, <1>2, <1>3, <1>4

LEMMA TypesNext == TypeInv /\ [Next]_vars => TypeInv'
<1> SUFFICES ASSUME TypeInv, [Next]_vars PROVE TypeInv'
  OBVIOUS
<1>1. ASSUME NEW s \in Sends, InsertRow(s) PROVE TypeInv'
  BY <1>1, TypesInsert
<1>2. ASSUME NEW i \in Ids, Age(i) PROVE TypeInv'
  BY <1>2, TypesAge
<1>3. ASSUME NEW t \in Ticks, TickStart(t) \/ ReadA(t) \/ ReadB(t) PROVE TypeInv'
  BY <1>3, TypesRead
<1>4. ASSUME NEW t \in Ticks, Post(t) PROVE TypeInv'
  BY <1>4, TypesPost
<1>5. ASSUME NEW t \in Ticks, Save(t) \/ SaveContent(t) PROVE TypeInv'
  BY <1>5, TypesSave
<1>6. QED
  BY <1>1, <1>2, <1>3, <1>4, <1>5, TypesOther DEF Next

(***************************************************************************)
(* The rows, posts and runs of the job stay what they are: only remainders *)
(* that are due are sent, and only from ids that have a row.               *)
(***************************************************************************)
THEOREM AbTestTypes == Spec => []TypeOK
<1>1. Spec => []TypeInv
  BY InitTypes, TypesNext, PTL DEF Spec
<1>2. QED
  BY <1>1, PTL DEF TypeInv

-----------------------------------------------------------------------------
(* Sends that do not interleave.                                           *)

\* The rows a send in flight has stored are the last ones.
Trailing(s) ==
    /\ next[s] \in {"A content", "B"} =>
          Len(rows) \in Ids /\ rows[Len(rows)] = [send |-> s, part |-> "A"]
    /\ next[s] \in {"B content", "N"} =>
          /\ Len(rows) - 1 \in Ids /\ rows[Len(rows) - 1] = [send |-> s, part |-> "A"]
          /\ Len(rows) \in Ids /\ rows[Len(rows)] = [send |-> s, part |-> "B"]

TrailInv == \A s \in Sends : InFlight(s) => Trailing(s)

OneInFlight == \A s, r \in Sends : InFlight(s) /\ InFlight(r) => s = r

AlignInv == \A i \in Ids : rows[i].part = "N" => Aligned(i)

SerialInv == TypeInv /\ TrailInv /\ OneInFlight /\ AlignInv

LEMMA SerialInit == Init => SerialInv
<1> SUFFICES ASSUME Init PROVE SerialInv
  OBVIOUS
<1>1. \A s \in Sends : ~InFlight(s)
  BY DEF Init, InFlight
<1>2. Ids = {}
  BY DEF Init, Ids
<1>3. QED
  BY <1>1, <1>2, InitTypes DEF SerialInv, TrailInv, OneInFlight, AlignInv

LEMMA SerialInsert ==
    ASSUME SerialInv, ~Interleave, NEW s \in Sends, InsertRow(s)
    PROVE  TrailInv' /\ OneInFlight' /\ AlignInv'
<1> DEFINE n == Len(rows)
<1>1. /\ n \in Nat /\ Len(rows') = n + 1 /\ Ids' = Ids \cup {n + 1}
      /\ \A i \in Ids : rows'[i] = rows[i]
      /\ rows'[n + 1] = [send |-> s, part |-> next[s]]
  BY InsertAppends, DueIds DEF SerialInv, TypeInv
<1>2. /\ next[s] \in {"A", "B", "N", "Default"} /\ s \notin stopped
      /\ \A r \in Sends \ {s} : ~InFlight(r)
  BY DEF InsertRow
<1>3. /\ stopped' = stopped
      /\ \A r \in Sends \ {s} : next'[r] = next[r]
      /\ next'[s] = IF next[s] = "A" THEN "A content"
                    ELSE IF next[s] = "B" THEN "B content" ELSE "done"
  BY DEF InsertRow, SerialInv, TypeInv, TypeOK
<1>4. \A r \in Sends \ {s} : ~InFlight(r)'
  BY <1>2, <1>3 DEF InFlight
<1>5. OneInFlight'
  BY <1>4 DEF OneInFlight
<1>6. next[s] \in {"B", "N"} => Trailing(s)
  BY <1>2 DEF SerialInv, TrailInv, InFlight
<1>7. TrailInv'
  <2>1. SUFFICES ASSUME InFlight(s)' PROVE Trailing(s)'
    BY <1>4 DEF TrailInv
  <2>2. next[s] \in {"A", "B"}
    BY <1>2, <1>3, <2>1 DEF InFlight
  <2>3. CASE next[s] = "A"
    BY <1>1, <1>3, <2>3 DEF Trailing
  <2>4. CASE next[s] = "B"
    <3>1. n \in Ids /\ rows[n] = [send |-> s, part |-> "A"]
      BY <1>6, <2>4 DEF Trailing
    <3>2. Len(rows') - 1 = n /\ rows'[n] = [send |-> s, part |-> "A"]
      BY <1>1, <3>1
    <3>3. n \in Ids' /\ n + 1 \in Ids' /\ next'[s] = "B content"
      BY <1>1, <1>3, <2>4, <3>1
    <3>4. QED
      BY <1>1, <2>4, <3>2, <3>3 DEF Trailing
  <2>5. QED
    BY <2>2, <2>3, <2>4
<1>8. AlignInv'
  <2>1. SUFFICES ASSUME NEW i \in Ids', rows'[i].part = "N" PROVE Aligned(i)'
    BY DEF AlignInv
  <2>2. CASE i \in Ids
    BY <1>1, <2>1, <2>2 DEF SerialInv, AlignInv, Aligned, AId, BId
  <2>3. CASE i = n + 1
    <3>1. next[s] = "N" /\ rows'[i].send = s
      BY <1>1, <2>1, <2>3
    <3>2. AId(i) = n - 1 /\ BId(i) = n
      BY <1>1, <2>3 DEF AId, BId
    <3>3. QED
      BY <1>1, <1>6, <3>1, <3>2 DEF Aligned, Trailing, AId, BId
  <2>4. QED
    BY <1>1, <2>1, <2>2, <2>3
<1>9. QED
  BY <1>5, <1>7, <1>8

\* Every other step stores no row and starts no send.
LEMMA SerialQuiet ==
    ASSUME SerialInv, rows' = rows,
           \A s \in Sends : InFlight(s)' => /\ InFlight(s)
                                            /\ Trailing(s) => Trailing(s)'
    PROVE  TrailInv' /\ OneInFlight' /\ AlignInv'
<1>1. TrailInv' /\ OneInFlight'
  BY DEF SerialInv, TrailInv, OneInFlight
<1>2. AlignInv'
  BY DEF SerialInv, AlignInv, Aligned, AId, BId, Ids
<1>3. QED
  BY <1>1, <1>2

LEMMA SerialNext == SerialInv /\ ~Interleave /\ [Next]_vars => SerialInv'
<1> SUFFICES ASSUME SerialInv, ~Interleave, [Next]_vars PROVE SerialInv'
  OBVIOUS
<1>1. TypeInv'
  BY TypesNext DEF SerialInv
<1>2. ASSUME NEW s \in Sends, InsertRow(s) PROVE TrailInv' /\ OneInFlight' /\ AlignInv'
  BY <1>2, SerialInsert
<1>3. ASSUME NEW s \in Sends, InsertContent(s) PROVE TrailInv' /\ OneInFlight' /\ AlignInv'
  <2>1. rows' = rows /\ stopped' = stopped
    BY <1>3 DEF InsertContent
  <2>2. \A r \in Sends \ {s} : next'[r] = next[r]
    BY <1>3 DEF InsertContent, SerialInv, TypeInv, TypeOK
  <2>3. \/ next[s] = "A content" /\ next'[s] = "B"
        \/ next[s] = "B content" /\ next'[s] = "N"
    BY <1>3 DEF InsertContent, SerialInv, TypeInv, TypeOK
  <2>4. \A r \in Sends : InFlight(r)' => InFlight(r) /\ (Trailing(r) => Trailing(r)')
    BY <2>1, <2>2, <2>3 DEF InFlight, Trailing, Ids
  <2>5. QED
    BY <2>1, <2>4, SerialQuiet
<1>4. ASSUME rows' = rows, next' = next, stopped \subseteq stopped'
      PROVE  TrailInv' /\ OneInFlight' /\ AlignInv'
  <2>1. \A r \in Sends : InFlight(r)' => InFlight(r) /\ (Trailing(r) => Trailing(r)')
    BY <1>4 DEF InFlight, Trailing, Ids
  <2>2. QED
    BY <1>4, <2>1, SerialQuiet
<1>5. \/ \E s \in Sends : InsertRow(s) \/ InsertContent(s)
      \/ rows' = rows /\ next' = next /\ stopped \subseteq stopped'
  BY DEF Next, StopSend, Age, TickStart, ReadA, ReadB, Post, Save, SaveContent, Reject, Crash,
         vars, store
<1>6. QED
  BY <1>1, <1>2, <1>3, <1>4, <1>5 DEF SerialInv

(***************************************************************************)
(* If sends store their rows one send at a time, whichever of them stop on *)
(* the way and however many runs of the job overlap, the ids before a      *)
(* remainder are those of its A and B rows, and what is posted for it goes *)
(* to its own receivers.                                                   *)
(***************************************************************************)
THEOREM WinnersStayHome ==
    ASSUME ~Interleave
    PROVE  Spec => []WinnerGoesToOwnRemainder
<1>1. SerialInv => WinnerGoesToOwnRemainder
  <2> SUFFICES ASSUME SerialInv, NEW k \in 1..Len(posts)
               PROVE  /\ rows[posts[k].from].send = rows[posts[k].row].send
                      /\ rows[posts[k].from].part \in {"A", "B"}
    BY DEF WinnerGoesToOwnRemainder
  <2> DEFINE i == posts[k].row
  <2>1. i \in due /\ posts[k].from \in {AId(i), BId(i)}
    <3>1. posts \in Seq([row : due, from : Ids])
      BY DEF SerialInv, TypeInv, TypeOK
    <3>2. posts[k] \in [row : due, from : Ids]
      BY <3>1, ElementOfSeq
    <3>3. QED
      BY <3>2 DEF SerialInv, TypeInv, PostInv
  <2>2. i \in Ids /\ rows[i].part = "N"
    BY <2>1 DEF SerialInv, TypeInv, TypeOK
  <2>3. Aligned(i)
    BY <2>2 DEF SerialInv, AlignInv
  <2>4. QED
    BY <2>1, <2>3 DEF Aligned
<1>2. Spec => []SerialInv
  BY SerialInit, SerialNext, PTL DEF Spec
<1>3. QED
  BY <1>1, <1>2, PTL
-----------------------------------------------------------------------------
(***************************************************************************)
(* A remainder that is not recorded as sent was posted for no more often   *)
(* than calls failed, but for the one post a run is about to record.  What *)
(* a run still has on its list is not sent, so no post follows a record.   *)
(***************************************************************************)
Posts(ps, i) == {k \in 1..Len(ps) : ps[k].row = i}

RunFresh(run, done) ==
    /\ run.todo \cap done = {}
    /\ run.at \in {"b", "post", "save"} => run.row \notin run.todo /\ run.row \notin done

Saving(j, i) == \E t \in Ticks : j[t] # None /\ j[t].at = "save" /\ j[t].row = i

FreshInv == \A t \in Ticks : job[t] # None => RunFresh(job[t], sent)

CountInv ==
    \A i \in due :
        /\ Cardinality(Posts(posts, i)) <= 1 + failures
        /\ i \in sent \/ Saving(job, i) \/ Cardinality(Posts(posts, i)) <= failures

ResentInv == FreshInv /\ CountInv

LEMMA ResentInit == Init => ResentInv
  BY DEF Init, ResentInv, FreshInv, CountInv

LEMMA PostsFinite ==
    ASSUME TypeOK, NEW i
    PROVE  /\ IsFiniteSet(Posts(posts, i)) /\ Cardinality(Posts(posts, i)) \in Nat
           /\ Len(posts) \in Nat
<1>1. Len(posts) \in Nat
  <2> DEFINE T == [row : due, from : Ids]
  <2>1. posts \in Seq(T)
    BY DEF TypeOK
  <2> HIDE DEF T
  <2>2. QED
    BY <2>1, LenProperties
<1>2. IsFiniteSet(1..Len(posts))
  BY <1>1, FS_Interval
<1>3. Posts(posts, i) \subseteq 1..Len(posts)
  BY DEF Posts
<1>4. QED
  BY <1>1, <1>2, <1>3, FS_Subset, FS_CardinalityType

\* A post counts for the row it was made for, and for no other.
LEMMA OnePostMore ==
    ASSUME TypeOK, NEW i \in due, NEW w \in Ids, posts' = Append(posts, [row |-> i, from |-> w])
    PROVE  /\ Cardinality(Posts(posts', i)) = Cardinality(Posts(posts, i)) + 1
           /\ \A d : d # i => Posts(posts', d) = Posts(posts, d)
<1> DEFINE e == [row |-> i, from |-> w]
           T == [row : due, from : Ids]
           n == Len(posts)
<1>1. posts \in Seq(T) /\ e \in T /\ n \in Nat
  BY PostsFinite DEF TypeOK
<1> HIDE DEF e, T
<1>2. posts' = Append(posts, e)
  BY DEF e
<1>3. /\ Len(posts') = n + 1
      /\ \A k \in 1..n : posts'[k] = posts[k]
      /\ posts'[n + 1] = e
  BY <1>1, <1>2, AppendProperties
<1>4. e.row = i
  BY DEF e
<1> HIDE DEF n
<1>5. 1..(n + 1) = (1..n) \cup {n + 1} /\ n + 1 \notin 1..n
  BY <1>1
<1>6. /\ Posts(posts', i) = Posts(posts, i) \cup {n + 1} /\ n + 1 \notin Posts(posts, i)
      /\ \A d : d # i => Posts(posts', d) = Posts(posts, d)
  BY <1>3, <1>4, <1>5 DEF Posts, n
<1>7. Cardinality(Posts(posts, i) \cup {n + 1}) = Cardinality(Posts(posts, i)) + 1
  BY <1>6, PostsFinite, FS_AddElement
<1>8. QED
  BY <1>6, <1>7

LEMMA OnwardFresh ==
    ASSUME NEW todo, NEW done, todo \cap done = {}
    PROVE  Onward(todo) # None => RunFresh(Onward(todo), done)
  BY DEF Onward, Run, RunFresh

\* The run of the one tick there is moves on, and every other part of FreshInv with it.
LEMMA FreshNext ==
    ASSUME TypeInv, TypeInv', FreshInv, \A t, u \in Ticks : t = u, [Next]_vars
    PROVE  FreshInv'
<1> USE DEF store
<1>0. job \in [Ticks -> {None} \cup Runs]
  BY DEF TypeInv, TypeOK
<1>1. ASSUME UNCHANGED <<job, sent>> PROVE FreshInv'
  BY <1>1 DEF FreshInv
<1>2. ASSUME NEW t \in Ticks, TickStart(t) PROVE FreshInv'
  <2>1. job' = [job EXCEPT ![t] = Run("next", due \ sent, 0, 0)] /\ sent' = sent
    BY <1>2 DEF TickStart, NotSend
  <2>2. RunFresh(Run("next", due \ sent, 0, 0), sent)
    BY DEF RunFresh, Run
  <2>3. QED
    BY <1>0, <2>1, <2>2 DEF FreshInv
<1>3. ASSUME NEW t \in Ticks, ReadA(t) PROVE FreshInv'
  <2>1. PICK i \in job[t].todo :
          \/ job' = [job EXCEPT ![t] = Run("b", job[t].todo \ {i}, i, 0)]
          \/ job' = [job EXCEPT ![t] = Onward(job[t].todo \ {i})]
    BY <1>3 DEF ReadA, Caught
  <2>2. job[t] # None /\ sent' = sent /\ job[t].todo \cap sent = {}
    BY <1>3 DEF ReadA, At, FreshInv, RunFresh
  <2>3. RunFresh(Run("b", job[t].todo \ {i}, i, 0), sent)
    BY <2>2 DEF RunFresh, Run
  <2>4. Onward(job[t].todo \ {i}) # None => RunFresh(Onward(job[t].todo \ {i}), sent)
    <3>1. (job[t].todo \ {i}) \cap sent = {}
      BY <2>2
    <3>2. QED
      BY <3>1, OnwardFresh
  <2>5. QED
    BY <1>0, <2>1, <2>2, <2>3, <2>4 DEF FreshInv
<1>4. ASSUME NEW t \in Ticks, ReadB(t) PROVE FreshInv'
  <2>1. \/ \E w : job' = [job EXCEPT ![t] = Run("post", job[t].todo, job[t].row, w)]
        \/ job' = [job EXCEPT ![t] = Onward(job[t].todo)]
    BY <1>4 DEF ReadB, Caught
  <2>2. /\ job[t] # None /\ sent' = sent /\ job[t].todo \cap sent = {}
        /\ job[t].row \notin job[t].todo /\ job[t].row \notin sent
    BY <1>4 DEF ReadB, At, FreshInv, RunFresh
  <2>3. \A w : RunFresh(Run("post", job[t].todo, job[t].row, w), sent)
    BY <2>2 DEF RunFresh, Run
  <2>4. Onward(job[t].todo) # None => RunFresh(Onward(job[t].todo), sent)
    BY <2>2, OnwardFresh
  <2>5. QED
    BY <1>0, <2>1, <2>2, <2>3, <2>4 DEF FreshInv
<1>5. ASSUME NEW t \in Ticks, Post(t) PROVE FreshInv'
  <2>1. \/ job' = [job EXCEPT ![t] = Run("save", job[t].todo, job[t].row, job[t].from)]
        \/ job' = [job EXCEPT ![t] = Onward(job[t].todo)]
    BY <1>5 DEF Post, Caught
  <2>2. /\ job[t] # None /\ sent' = sent /\ job[t].todo \cap sent = {}
        /\ job[t].row \notin job[t].todo /\ job[t].row \notin sent
    BY <1>5 DEF Post, At, FreshInv, RunFresh
  <2>3. RunFresh(Run("save", job[t].todo, job[t].row, job[t].from), sent)
    BY <2>2 DEF RunFresh, Run
  <2>4. Onward(job[t].todo) # None => RunFresh(Onward(job[t].todo), sent)
    BY <2>2, OnwardFresh
  <2>5. QED
    BY <1>0, <2>1, <2>2, <2>3, <2>4 DEF FreshInv
<1>6. ASSUME NEW t \in Ticks, Save(t) PROVE FreshInv'
  <2>1. /\ job' = [job EXCEPT ![t] = Run("content", job[t].todo, job[t].row, job[t].from)]
        /\ sent' = sent \cup {job[t].row}
    BY <1>6 DEF Save
  <2>2. job[t] # None /\ job[t].todo \cap sent = {} /\ job[t].row \notin job[t].todo
    BY <1>6 DEF Save, At, FreshInv, RunFresh
  <2>3. RunFresh(Run("content", job[t].todo, job[t].row, job[t].from), sent')
    BY <2>1, <2>2 DEF RunFresh, Run
  <2>4. \A u \in Ticks : job'[u] = Run("content", job[t].todo, job[t].row, job[t].from)
    BY <1>0, <2>1
  <2>5. QED
    BY <2>3, <2>4 DEF FreshInv
<1>7. ASSUME NEW t \in Ticks, SaveContent(t) \/ Reject(t) PROVE FreshInv'
  <2>1. job' = [job EXCEPT ![t] = Onward(job[t].todo)] /\ sent' = sent /\ job[t] # None
    BY <1>7 DEF SaveContent, Reject, Caught, At
  <2>2. job[t].todo \cap sent = {}
    BY <2>1 DEF FreshInv, RunFresh
  <2>3. Onward(job[t].todo) # None => RunFresh(Onward(job[t].todo), sent)
    BY <2>2, OnwardFresh
  <2>4. QED
    BY <1>0, <2>1, <2>3 DEF FreshInv
<1>8. ASSUME Crash PROVE FreshInv'
  BY <1>8 DEF Crash, FreshInv
<1>9. QED
  BY <1>1, <1>2, <1>3, <1>4, <1>5, <1>6, <1>7, <1>8
     DEF Next, InsertRow, InsertContent, StopSend, Age, vars

LEMMA CountNext ==
    ASSUME TypeInv, TypeInv', ResentInv, \A t, u \in Ticks : t = u, [Next]_vars
    PROVE  CountInv'
<1> USE DEF store
<1> DEFINE N(i) == Cardinality(Posts(posts, i))
<1>0. /\ job \in [Ticks -> {None} \cup Runs] /\ failures \in Nat
      /\ \A i : N(i) \in Nat
  <2>1. \A i : N(i) \in Nat
    BY PostsFinite DEF TypeInv
  <2> HIDE DEF N
  <2>2. failures \in 0..MaxFailures /\ MaxFailures \in Nat
    BY BoundsAssumption DEF TypeInv, TypeOK
  <2>3. job \in [Ticks -> {None} \cup Runs]
    BY DEF TypeInv, TypeOK
  <2>4. QED
    BY <2>1, <2>2, <2>3
<1>1. \A i \in due : N(i) <= 1 + failures /\ (i \in sent \/ Saving(job, i) \/ N(i) <= failures)
  BY DEF ResentInv, CountInv
<1>2. ASSUME UNCHANGED <<due, sent, posts, failures>>,
             \A i \in due : Saving(job, i) => Saving(job', i)
      PROVE  CountInv'
  BY <1>1, <1>2 DEF CountInv
<1>3. ASSUME UNCHANGED <<due, sent, posts>>, failures' = failures + 1 PROVE CountInv'
  <2>1. \A i \in due : N(i) <= failures' /\ N(i) <= 1 + failures'
    <3> HIDE DEF N
    <3>1. QED
      BY <1>0, <1>1, <1>3
  <2>2. QED
    BY <1>3, <2>1 DEF CountInv
\* Nothing was posted for what has just become due.
<1>4. ASSUME NEW d \in Ids, Age(d) PROVE CountInv'
  <2>1. due' = due \cup {d} /\ d \notin due /\ UNCHANGED <<sent, posts, failures, job>>
    BY <1>4 DEF Age
  <2>2. Posts(posts, d) = {}
    <3> DEFINE T == [row : due, from : Ids]
    <3>1. posts \in Seq(T)
      BY DEF TypeInv, TypeOK
    <3>2. \A k \in 1..Len(posts) : posts[k] \in T
      <4> HIDE DEF T
      <4>1. QED
        BY <3>1, ElementOfSeq
    <3>3. QED
      BY <2>1, <3>2 DEF Posts
  <2>3. N(d) = 0
    BY <2>2, FS_EmptySet
  <2> HIDE DEF N
  <2>4. \A i \in due' : N(i) <= 1 + failures /\ (i \in sent \/ Saving(job, i) \/ N(i) <= failures)
    BY <1>0, <1>1, <2>1, <2>3
  <2>5. QED
    BY <2>1, <2>4 DEF CountInv, N
<1>5. ASSUME NEW t \in Ticks, TickStart(t) \/ ReadA(t) \/ ReadB(t) PROVE CountInv'
  <2>1. job[t] = None \/ job[t].at \in {"next", "b"}
    BY <1>5 DEF TickStart, ReadA, ReadB, At
  <2>2. UNCHANGED <<due, sent, posts, failures>>
    BY <1>5 DEF TickStart, ReadA, ReadB
  <2>3. \A i \in due : ~Saving(job, i)
    BY <2>1 DEF Saving
  <2>4. QED
    BY <1>2, <2>2, <2>3
<1>6. ASSUME NEW t \in Ticks, Post(t) PROVE CountInv'
  <2> DEFINE i == job[t].row
             w == job[t].from
  <2>1. /\ UNCHANGED <<due, sent, failures>> /\ job[t] # None /\ job[t].at = "post"
        /\ \A d : ~Saving(job, d)
    BY <1>6 DEF Post, At, Saving
  <2>2. i \in due /\ w \in Ids /\ i \notin sent
    BY <2>1 DEF TypeInv, JobInv, RunOK, HoldsRow, ResentInv, FreshInv, RunFresh
  <2>3. N(i) <= failures
    BY <1>1, <2>1, <2>2
  <2>4. CASE UNCHANGED posts
    BY <1>2, <2>1, <2>4
  <2>5. CASE ~UNCHANGED posts
    <3>1. /\ posts' = Append(posts, [row |-> i, from |-> w])
          /\ job' = [job EXCEPT ![t] = Run("save", job[t].todo, i, w)]
      BY <1>6, <2>5 DEF Post
    <3>2. job'[t] # None /\ job'[t].at = "save" /\ job'[t].row = i
      <4>1. job'[t] = Run("save", job[t].todo, i, w)
        BY <1>0, <3>1
      <4>2. job'[t] # None
        <5>1. job[t] \in Runs
          BY <1>0, <2>1
        <5>2. job'[t] \in Runs
          BY <2>2, <4>1, <5>1, DueIds DEF Run, Runs, TypeInv
        <5>3. QED
          BY <5>2, NoneAssumption
      <4>3. QED
        BY <4>1, <4>2 DEF Run
    <3>3. Saving(job', i)
      BY <3>2 DEF Saving
    <3>4. Cardinality(Posts(posts', i)) = N(i) + 1 /\ \A d : d # i => Posts(posts', d) = Posts(posts, d)
      BY <2>2, <3>1, OnePostMore DEF TypeInv
    <3> HIDE DEF i
    <3>5. ASSUME NEW d \in due
          PROVE  /\ Cardinality(Posts(posts', d)) <= 1 + failures
                 /\ d \in sent \/ Saving(job', d) \/ Cardinality(Posts(posts', d)) <= failures
      <4>1. CASE d = i
        <5>1. Cardinality(Posts(posts', i)) <= 1 + failures
          <6> DEFINE a == N(i)
                     b == Cardinality(Posts(posts', i))
          <6>1. a \in Nat /\ a <= failures /\ b = a + 1
            BY <1>0, <2>3, <3>4
          <6> HIDE DEF a, b
          <6>2. b <= 1 + failures
            BY <1>0, <6>1
          <6>3. QED
            BY <6>2 DEF b
        <5>2. QED
          BY <4>1, <5>1, <3>3
      <4>2. CASE d # i
        BY <1>1, <2>1, <3>4, <4>2
      <4>3. QED
        BY <4>1, <4>2
    <3>6. QED
      BY <2>1, <3>5 DEF CountInv
  <2>6. QED
    BY <2>4, <2>5
<1>7. ASSUME NEW t \in Ticks, Save(t) PROVE CountInv'
  <2>1. sent' = sent \cup {job[t].row} /\ UNCHANGED <<due, posts, failures>>
    BY <1>7 DEF Save
  <2>2. \A i : Saving(job, i) => i = job[t].row
    BY DEF Saving
  <2>3. QED
    BY <1>1, <2>1, <2>2 DEF CountInv
<1>8. ASSUME NEW t \in Ticks, SaveContent(t) PROVE CountInv'
  <2>1. UNCHANGED <<due, sent, posts, failures>> /\ job[t].at = "content"
    BY <1>8 DEF SaveContent, At
  <2>2. \A i \in due : ~Saving(job, i)
    BY <2>1 DEF Saving
  <2>3. QED
    BY <1>2, <2>1, <2>2
<1>9. ASSUME Crash \/ \E t \in Ticks : Reject(t) PROVE CountInv'
  BY <1>3, <1>9 DEF Crash, Reject
<1>10. ASSUME UNCHANGED <<due, sent, posts, failures, job>> PROVE CountInv'
  BY <1>2, <1>10
<1>11. QED
  BY <1>4, <1>5, <1>6, <1>7, <1>8, <1>9, <1>10
     DEF Next, InsertRow, InsertContent, StopSend, vars

(***************************************************************************)
(* If the runs of the job do not overlap, a remainder gets a second        *)
(* message only for a call that failed or a process that ended between the *)
(* message and its record: never more of them than failures, whatever the  *)
(* other rows of the lists do.                                             *)
(***************************************************************************)
THEOREM NotResent ==
    ASSUME \A t, u \in Ticks : t = u
    PROVE  Spec => []ResentOnlyAfterFailure
<1> DEFINE I == TypeInv /\ ResentInv
<1>1. Init => I
  BY InitTypes, ResentInit
<1>2. I /\ [Next]_vars => I'
  BY TypesNext, FreshNext, CountNext DEF ResentInv
<1>3. I => ResentOnlyAfterFailure
  BY DEF ResentInv, CountInv, ResentOnlyAfterFailure, Posts
<1> HIDE DEF I
<1>4. QED
  BY <1>1, <1>2, <1>3, PTL DEF Spec
=============================================================================
