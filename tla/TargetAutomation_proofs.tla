----------------------- MODULE TargetAutomation_proofs ------------------------
(***************************************************************************)
(* TargetAutomation for any clients, segments, rows, runs and failures:    *)
(* its type invariant; that a run makes targets of its own client's rows   *)
(* only and that no change is lost, however many runs and requests overlap *)
(* (for the events that no user's connect or update disturbs); for runs    *)
(* and requests that do not overlap, that a change becomes a second target *)
(* only after a failure, a request or a throw; and, for runs of the sender *)
(* that do not overlap, that a target is handed over once, and once more   *)
(* for each mark a reservation took back.                                  *)
(***************************************************************************)
EXTENDS TargetAutomation, FiniteSetTheorems, SequenceTheorems, TLAPS

-----------------------------------------------------------------------------
(* Types.                                                                  *)

\* The run of the cron asks for everything, the requests of users for less.
Placed(mode, at) ==
    /\ mode = "content" => at \in {"query", "answer", "insert"}
    /\ mode = "reserve" => at \in {"query", "answer", "numbers", "schedule", "reserve", "copy"}

\* Stages at which a run holds rows still to do.
Holding == {"insert", "schedule", "reserve", "copy"}

\* Stages that a run comes to with nothing of its own to keep for them
Plain == Stages \ {"save", "reserve", "copy"}

\* A run only knows targets of S.
RunGood(run, S) ==
    /\ run \in RunShape /\ Placed(run.mode, run.at)
    /\ run.ev \in (IF run.mode = "reserve" THEN {None} ELSE Events)
    /\ run.ids \subseteq S
    /\ \A n \in DOMAIN run.idOf : run.idOf[n] \in S
    /\ run.left \subseteq run.rows
    /\ run.at \notin Holding => run.left = {}
    /\ run.at = "save" => run.copy \in EventRecords
    /\ run.at \in {"reserve", "copy"} => run.source \in TargetRecords
    /\ run.at = "reserve" => Number[run.row] \in DOMAIN run.idOf

RunOK(run) == RunGood(run, Ids)

JobTypes == job \in [Jobs -> {None} \cup RunShape] /\ \A j \in Jobs : job[j] # None => RunOK(job[j])

SenderRecords == [todo : SUBSET Nat, id : Nat \cup {None}, copy : TargetRecords \cup {None}]

SenderGood(run, S) == run.todo \subseteq S /\ (run.id # None => run.id \in S) /\ (run.copy # None => run.id # None)

SenderTypes ==
    /\ sender \in [Senders -> {None} \cup SenderRecords]
    /\ \A s \in Senders : sender[s] # None => SenderGood(sender[s], Ids)

EventTypes ==
    /\ event \in Lists
    /\ put \in {None} \cup [ev : Events, row : EventRecords]

TargetTypes ==
    /\ targets \in Seq(TargetRecords)
    /\ handed \in Seq(Nat) /\ Len(handed) = Len(targets)
    /\ unmarked \in Seq(Nat) /\ Len(unmarked) = Len(targets)

ClientTypes ==
    /\ ver \in [Rows -> 1..clock]
    /\ clock \in 1..MaxClock
    /\ unseen \subseteq Versions
    /\ made \subseteq Events \X Rows \X Times

SmallTypes ==
    /\ segment \in [Segments -> {"filtered", "unfiltered", "none"}]
    /\ pool \in Dbs \cup {None}
    /\ crossed \subseteq Events /\ retold \subseteq Events
    /\ spoiled \in Nat /\ requests \in Nat /\ failures \in Nat

TypeInv == SmallTypes /\ EventTypes /\ ClientTypes /\ TargetTypes /\ JobTypes /\ SenderTypes

LEMMA InitTypes == Init => TypeInv
<1> SUFFICES ASSUME Init PROVE TypeInv
  OBVIOUS
<1>1. SmallTypes
  BY DEF Init, SmallTypes
<1>2. EventTypes /\ ClientTypes
  BY OpeningAssumption, BoundsAssumption DEF Init, EventTypes, Lists, ClientTypes, Times
<1>3. TargetTypes
  BY DEF Init, TargetTypes
<1>4. JobTypes /\ SenderTypes
  BY DEF Init, JobTypes, SenderTypes
<1>5. QED
  BY <1>1, <1>2, <1>3, <1>4 DEF TypeInv

LEMMA TypesImply == TypeInv => TypeOK
<1> SUFFICES ASSUME TypeInv PROVE TypeOK
  OBVIOUS
<1>1. \A j \in Jobs : job[j] # None => JobOK(job[j])
  <2> SUFFICES ASSUME NEW j \in Jobs, job[j] # None PROVE JobOK(job[j])
    OBVIOUS
  <2>1. RunOK(job[j])
    BY DEF TypeInv, JobTypes
  <2>2. /\ job[j].mode \in {"auto", "content", "reserve"} /\ job[j].at \in Stages
        /\ job[j].then \in Stages \cup {"next"} /\ job[j].todo \subseteq Events
        /\ job[j].list \in Lists /\ job[j].rows \subseteq Versions
        /\ job[j].value \in Times /\ job[j].copies \in 0..MaxDates
    BY <2>1 DEF RunOK, RunGood, RunShape, Stages
  <2>3. QED
    BY <2>1, <2>2 DEF RunOK, RunGood, JobOK
<1>2. handed \in [Ids -> Nat] /\ unmarked \in [Ids -> Nat]
  BY DEF TypeInv, TargetTypes, Ids
<1>3. \A s \in Senders : sender[s] # None => SenderOK(sender[s])
  BY DEF TypeInv, SenderTypes, SenderGood, SenderRecords, SenderOK
<1>4. put # None => put.ev \in Events /\ put.row \in EventRecords
  BY DEF TypeInv, EventTypes
<1>5. QED
  BY <1>1, <1>2, <1>3, <1>4
  DEF TypeInv, TypeOK, SmallTypes, EventTypes, ClientTypes, TargetTypes

-----------------------------------------------------------------------------
(* Runs.                                                                   *)

LEMMA IdsAre == ASSUME TargetTypes PROVE Len(targets) \in Nat /\ Ids \subseteq Nat
  BY LenProperties DEF TargetTypes, Ids

LEMMA NoNumbers == <<>> \in IdMaps /\ DOMAIN <<>> = {}
<1>1. <<>> \in [{} -> Nat]
  OBVIOUS
<1>2. {} \in SUBSET {Number[r] : r \in Rows}
  OBVIOUS
<1>3. QED
  BY <1>1, <1>2 DEF IdMaps

\* Every run starts like this.
LEMMA NewRun ==
    ASSUME NEW mode \in {"auto", "content", "reserve"}, NEW at \in Plain, Placed(mode, at),
           NEW e, e \in (IF mode = "reserve" THEN {None} ELSE Events),
           NEW todo \in SUBSET Events, NEW list \in Lists, NEW g \in Segments, NEW k \in Kinds, NEW S
    PROVE  RunGood(Run(mode, at, e, todo, list, g, k), S)
<1> DEFINE r == Run(mode, at, e, todo, list, g, k)
<1>1. r \in RunShape
  BY NoNumbers, BoundsAssumption DEF Run, RunShape, Versions, Times, Stages, Plain
<1>2. /\ r.ids = {} /\ DOMAIN r.idOf = {} /\ r.left = {} /\ r.at = at /\ r.mode = mode /\ r.ev = e
      /\ r.rows = {}
  BY NoNumbers DEF Run
<1> HIDE DEF r
<1>3. r.at \notin {"save", "reserve", "copy"}
  BY <1>2 DEF Plain
<1>4. /\ Placed(r.mode, r.at) /\ r.ev \in (IF r.mode = "reserve" THEN {None} ELSE Events)
      /\ r.ids \subseteq S /\ r.left \subseteq r.rows
      /\ \A n \in DOMAIN r.idOf : r.idOf[n] \in S
  BY <1>2
<1>5. RunGood(r, S)
  BY <1>1, <1>2, <1>3, <1>4 DEF RunGood
<1>6. QED
  BY <1>5 DEF r

LEMMA OnwardOK ==
    ASSUME NEW todo \in SUBSET Events, NEW list \in Lists, NEW r \in Onward(todo, list), NEW S
    PROVE  r = None \/ RunGood(r, S)
<1>1. CASE todo = {}
  BY <1>1 DEF Onward
<1>2. CASE todo # {}
  <2>1. PICK e \in todo : r = Run("auto", IF list[e].last = None THEN "find" ELSE "segment",
                                  e, todo \ {e}, list, list[e].seg, list[e].kind)
    BY <1>2 DEF Onward
  <2>2. e \in Events /\ todo \ {e} \in SUBSET Events
    BY <2>1
  <2>3. list[e].seg \in Segments /\ list[e].kind \in Kinds
    BY <2>2 DEF Lists, EventRecords
  <2>4. ASSUME NEW at \in {"find", "segment"}
        PROVE  RunGood(Run("auto", at, e, todo \ {e}, list, list[e].seg, list[e].kind), S)
    <3>1. at \in Plain /\ Placed("auto", at)
      BY DEF Plain, Stages, Placed
    <3>2. QED
      BY <2>2, <2>3, <3>1, NewRun
  <2>5. QED
    BY <2>1, <2>4
<1>3. QED
  BY <1>1, <1>2

\* What a run keeps when it goes on
Alike(q, run) ==
    /\ q \in RunShape /\ q.mode = run.mode /\ q.ev = run.ev /\ q.ids = run.ids /\ q.idOf = run.idOf
    /\ q.rows = run.rows /\ q.left = run.left

LEMMA AlikeOK ==
    ASSUME NEW S, NEW run, RunGood(run, S), NEW q, Alike(q, run), run.left = {},
           Placed(run.mode, q.at), q.at \notin {"reserve", "copy"},
           q.at = "save" => q.copy \in EventRecords
    PROVE  RunGood(q, S)
  BY DEF RunGood, Alike

LEMMA MovedOK ==
    ASSUME NEW S, NEW run, RunGood(run, S), run.left = {}, NEW at \in Plain, Placed(run.mode, at)
    PROVE  /\ RunGood([run EXCEPT !.at = at], S)
           /\ RunGood([run EXCEPT !.at = at, !.copy = None], S)
<1>1. at \in Stages /\ at \notin {"save", "reserve", "copy"}
  BY DEF Plain
<1> DEFINE q == [run EXCEPT !.at = at]
           x == [run EXCEPT !.at = at, !.copy = None]
<1>2. Alike(q, run) /\ q.at = at
  BY <1>1 DEF RunGood, RunShape, Alike
<1>3. Alike(x, run) /\ x.at = at
  BY <1>1 DEF RunGood, RunShape, Alike
<1> HIDE DEF q, x
<1>4. RunGood(q, S)
  BY <1>1, <1>2, AlikeOK
<1>5. RunGood(x, S)
  BY <1>1, <1>3, AlikeOK
<1>6. QED
  BY <1>4, <1>5 DEF q, x

LEMMA ThenOK ==
    ASSUME NEW S, NEW run, RunGood(run, S), run.left = {}, NEW at \in Plain, Placed(run.mode, at),
           NEW then \in {"segment", "query", "stamp", "next"}
    PROVE  RunGood([run EXCEPT !.at = at, !.then = then], S)
<1> DEFINE q == [run EXCEPT !.at = at, !.then = then]
<1>1. at \in Stages /\ at \notin {"save", "reserve", "copy"}
  BY DEF Plain
<1>2. Alike(q, run) /\ q.at = at
  BY <1>1 DEF RunGood, RunShape, Alike
<1> HIDE DEF q
<1>3. RunGood(q, S)
  BY <1>1, <1>2, AlikeOK
<1>4. QED
  BY <1>3 DEF q

LEMMA SavingOK ==
    ASSUME NEW S, NEW run, RunGood(run, S), run.left = {}, Placed(run.mode, "save"), NEW c \in EventRecords
    PROVE  RunGood([run EXCEPT !.at = "save", !.copy = c], S)
<1> DEFINE q == [run EXCEPT !.at = "save", !.copy = c]
<1>1. Alike(q, run) /\ q.at = "save" /\ q.copy = c
  BY DEF RunGood, RunShape, Alike, Stages
<1> HIDE DEF q
<1>2. RunGood(q, S)
  BY <1>1, AlikeOK
<1>3. QED
  BY <1>2 DEF q

\* A run that is not a request of a user may go anywhere.
LEMMA AutoPlaced == \A at : Placed("auto", at)
  BY DEF Placed

LEMMA AutoStages ==
    ASSUME NEW S, NEW run, RunGood(run, S)
    PROVE  run.at \in {"find", "save", "segment", "connect", "stamp"} => run.mode = "auto" /\ run.ev \in Events
  BY DEF RunGood, RunShape, Placed

LEMMA ResumeOK ==
    ASSUME NEW S, NEW run, RunGood(run, S), run.left = {}, run.mode = "auto", NEW r \in Resume(run)
    PROVE  r = None \/ RunGood(r, S)
<1>1. CASE run.then = "next"
  <2>1. run.todo \in SUBSET Events /\ run.list \in Lists
    BY DEF RunGood, RunShape
  <2>2. r \in Onward(run.todo, run.list)
    BY <1>1 DEF Resume
  <2>3. QED
    BY <2>1, <2>2, OnwardOK
<1>2. CASE run.then # "next"
  <2>1. run.then \in Plain
    BY <1>2 DEF RunGood, RunShape, Plain, Stages
  <2>2. r = [run EXCEPT !.at = run.then, !.copy = None]
    BY <1>2 DEF Resume
  <2>3. Placed(run.mode, run.then)
    BY AutoPlaced
  <2>4. QED
    BY <2>1, <2>2, <2>3, MovedOK
<1>3. QED
  BY <1>1, <1>2

LEMMA InsertedOK ==
    ASSUME NEW S, NEW run, RunGood(run, S), run.at = "insert"
    PROVE  Inserted(run) = None \/ RunGood(Inserted(run), S)
<1> DEFINE at == IF run.kind = "now" THEN "stamp" ELSE "numbers"
<1>1. at \in Stages /\ at \notin {"save", "reserve", "copy"}
  BY DEF Stages
<1>2. run.mode # "content" => run.mode = "auto"
  BY DEF RunGood, RunShape, Placed
<1>3. CASE run.left # {} \/ run.mode = "content"
  BY <1>3 DEF Inserted
<1>4. CASE run.left = {} /\ run.mode # "content"
  <2>1. Inserted(run) = [run EXCEPT !.at = at]
    BY <1>4 DEF Inserted
  <2> HIDE DEF at
  <2>2. RunGood([run EXCEPT !.at = at], S)
    BY <1>1, <1>2, <1>4 DEF RunGood, RunShape, Placed
  <2>3. QED
    BY <2>1, <2>2
<1>5. QED
  BY <1>3, <1>4

LEMMA ScheduledOK ==
    ASSUME NEW S, NEW run, RunGood(run, S), run.at = "schedule"
    PROVE  Scheduled(run) = None \/ RunGood(Scheduled(run), S)
<1>1. "find" \in Stages /\ "find" \notin {"save", "reserve", "copy"}
  BY DEF Stages
<1>2. run.mode # "reserve" => run.mode = "auto"
  BY DEF RunGood, RunShape, Placed
<1>3. CASE run.left # {} \/ run.mode = "reserve"
  BY <1>3 DEF Scheduled
<1>4. CASE run.left = {} /\ run.mode # "reserve"
  <2>1. Scheduled(run) = [run EXCEPT !.at = "find", !.then = "next"]
    BY <1>4 DEF Scheduled
  <2>2. RunGood([run EXCEPT !.at = "find", !.then = "next"], S)
    BY <1>1, <1>2, <1>4 DEF RunGood, RunShape, Placed
  <2>3. QED
    BY <2>1, <2>2
<1>5. QED
  BY <1>3, <1>4

-----------------------------------------------------------------------------
(* What an action leaves alone, and what it changes.                       *)

LEMMA JobsKept ==
    ASSUME TypeInv, job' = job, Ids \subseteq Ids'
    PROVE  JobTypes'
<1> SUFFICES ASSUME NEW j \in Jobs, job[j] # None PROVE RunOK(job[j])'
  BY DEF TypeInv, JobTypes
<1>1. RunOK(job[j])
  BY DEF TypeInv, JobTypes
<1>2. QED
  BY <1>1 DEF RunOK, RunGood

\* The run in slot j goes on as r, or has thrown.
Step(j, r) == job' = [job EXCEPT ![j] = r] /\ spoiled' \in {spoiled, spoiled + 1}

LEMMA StepsAre ==
    ASSUME NEW j
    PROVE  /\ \A r : Go(j, r) => Step(j, r) /\ spoiled' = spoiled
           /\ Throw(j) => Step(j, None)
  BY DEF Go, Throw, Step

LEMMA JobGoes ==
    ASSUME TypeInv, NEW j \in Jobs, NEW STATE r, r = None \/ RunGood(r, Ids'),
           Step(j, r), Ids \subseteq Ids'
    PROVE  JobTypes'
<1>1. r \in {None} \cup RunShape
  BY DEF RunGood
<1>2. job \in [Jobs -> {None} \cup RunShape] /\ job' = [job EXCEPT ![j] = r]
  BY DEF TypeInv, JobTypes, Step
<1>3. job' \in [Jobs -> {None} \cup RunShape]
  BY <1>1, <1>2
<1>4. ASSUME NEW i \in Jobs, job'[i] # None PROVE RunOK(job[i])'
  <2>1. CASE i = j
    BY <1>2, <1>4, <2>1 DEF RunOK
  <2>2. CASE i # j
    <3>1. job'[i] = job[i]
      BY <1>2, <2>2
    <3>2. RunOK(job[i])
      BY <1>4, <3>1 DEF TypeInv, JobTypes
    <3>3. QED
      BY <3>1, <3>2 DEF RunOK, RunGood
  <2>3. QED
    BY <2>1, <2>2
<1>5. QED
  BY <1>3, <1>4 DEF JobTypes

LEMMA SendersKept ==
    ASSUME TypeInv, sender' = sender, Ids \subseteq Ids'
    PROVE  SenderTypes'
  BY DEF TypeInv, SenderTypes, SenderGood

LEMMA TargetAppended ==
    ASSUME TargetTypes, NEW STATE t, t \in TargetRecords,
           targets' = Append(targets, t), handed' = Append(handed, 0), unmarked' = Append(unmarked, 0)
    PROVE  /\ TargetTypes'
           /\ Len(targets) + 1 \in Nat
           /\ Ids' = Ids \cup {Len(targets) + 1}
           /\ \A i \in Ids : /\ targets'[i] = targets[i] /\ handed'[i] = handed[i]
                             /\ unmarked'[i] = unmarked[i]
           /\ targets'[Len(targets) + 1] = t /\ handed'[Len(targets) + 1] = 0
           /\ unmarked'[Len(targets) + 1] = 0
<1>1. /\ targets \in Seq(TargetRecords) /\ handed \in Seq(Nat) /\ Len(handed) = Len(targets)
      /\ unmarked \in Seq(Nat) /\ Len(unmarked) = Len(targets)
  BY DEF TargetTypes
<1> HIDE DEF TargetRecords
<1>2. /\ targets' \in Seq(TargetRecords)
      /\ Len(targets') = Len(targets) + 1
      /\ \A i \in 1..Len(targets) : targets'[i] = targets[i]
      /\ targets'[Len(targets) + 1] = t
  BY <1>1, AppendProperties
<1>3. /\ handed' \in Seq(Nat)
      /\ Len(handed') = Len(handed) + 1
      /\ \A i \in 1..Len(handed) : handed'[i] = handed[i]
      /\ handed'[Len(handed) + 1] = 0
  BY <1>1, AppendProperties
<1>4. /\ unmarked' \in Seq(Nat)
      /\ Len(unmarked') = Len(unmarked) + 1
      /\ \A i \in 1..Len(unmarked) : unmarked'[i] = unmarked[i]
      /\ unmarked'[Len(unmarked) + 1] = 0
  BY <1>1, AppendProperties
<1>5. Len(targets) \in Nat
  BY <1>1, LenProperties
<1>6. Ids' = Ids \cup {Len(targets) + 1}
  BY <1>2, <1>5 DEF Ids
<1>7. QED
  BY <1>1, <1>2, <1>3, <1>4, <1>5, <1>6 DEF TargetTypes, Ids

LEMMA TargetChanged ==
    ASSUME TargetTypes, NEW i \in Ids, NEW STATE t, t \in TargetRecords,
           targets' = [targets EXCEPT ![i] = t], handed' = handed,
           unmarked' = unmarked \/ unmarked' = [unmarked EXCEPT ![i] = @ + 1]
    PROVE  /\ TargetTypes'
           /\ Ids' = Ids
           /\ \A k \in Ids : targets'[k] = IF k = i THEN t ELSE targets[k]
<1>1. targets \in Seq(TargetRecords) /\ i \in 1..Len(targets)
  BY DEF TargetTypes, Ids
<1>2. /\ targets' \in Seq(TargetRecords)
      /\ Len(targets') = Len(targets)
      /\ \A k \in 1..Len(targets) : targets'[k] = IF k = i THEN t ELSE targets[k]
  BY <1>1, ExceptSeq
<1>3. unmarked' \in Seq(Nat) /\ Len(unmarked') = Len(unmarked)
  <2>1. CASE unmarked' = unmarked
    BY <2>1 DEF TargetTypes
  <2>2. CASE unmarked' = [unmarked EXCEPT ![i] = @ + 1]
    <3>1. unmarked \in Seq(Nat) /\ i \in 1..Len(unmarked)
      BY <1>1 DEF TargetTypes
    <3>2. unmarked[i] + 1 \in Nat
      BY <3>1
    <3>3. unmarked' = [unmarked EXCEPT ![i] = unmarked[i] + 1]
      BY <2>2
    <3>4. QED
      BY <3>1, <3>2, <3>3, ExceptSeq
  <2>3. QED
    BY <2>1, <2>2
<1>4. QED
  BY <1>2, <1>3 DEF TargetTypes, Ids

\* An action that only moves a run on.
LEMMA JobOnly ==
    ASSUME TypeInv, NEW j \in Jobs, NEW STATE r, r = None \/ RunGood(r, Ids), Step(j, r),
           UNCHANGED <<segment, client, way, store, sends, sender, puts, requests, failures>>
    PROVE  TypeInv'
<1>1. Ids' = Ids /\ targets' = targets
  BY DEF store, Ids
<1>2. JobTypes'
  BY <1>1, JobGoes
<1>3. SenderTypes'
  BY <1>1, SendersKept
<1>4. SmallTypes'
  BY DEF TypeInv, SmallTypes, Step, way, puts
<1>5. EventTypes' /\ ClientTypes' /\ TargetTypes'
  BY DEF TypeInv, EventTypes, ClientTypes, TargetTypes, client, store, sends, puts
<1>6. QED
  BY <1>2, <1>3, <1>4, <1>5 DEF TypeInv

LEMMA RunHere ==
    ASSUME TypeInv, NEW j \in Jobs, job[j] # None
    PROVE  /\ RunGood(job[j], Ids) /\ job[j] \in RunShape
           /\ job[j].at \notin Holding => job[j].left = {}
           /\ job[j].at \in {"find", "save", "segment", "connect", "stamp"}
                 => job[j].mode = "auto" /\ job[j].ev \in Events
<1>1. RunGood(job[j], Ids)
  BY DEF TypeInv, JobTypes, RunOK
<1>2. QED
  BY <1>1, AutoStages DEF RunGood

-----------------------------------------------------------------------------
(* The type invariant, an action at a time.                                *)

LEMMA TypesStart == ASSUME TypeInv, NEW j \in Jobs, AutoStart(j) PROVE TypeInv'
<1> DEFINE listed == {e \in Events : event[e].live}
<1>1. event \in Lists
  BY DEF TypeInv, EventTypes
<1>2. PICK r \in Onward(listed, event) : Go(j, r)
  BY DEF AutoStart
<1>3. r = None \/ RunGood(r, Ids)
  BY <1>1, <1>2, OnwardOK
<1>4. QED
  BY <1>2, <1>3, StepsAre, JobOnly DEF AutoStart

\* A request of a user takes a run.
LEMMA RequestOnly ==
    ASSUME TypeInv, NEW j \in Jobs, NEW STATE r, RunGood(r, Ids), Go(j, r), Request,
           UNCHANGED <<segment, client, way, store, sends, sender, puts, failures>>
    PROVE  TypeInv'
<1>1. Ids' = Ids /\ targets' = targets
  BY DEF store, Ids
<1>2. JobTypes'
  BY <1>1, StepsAre, JobGoes
<1>3. SenderTypes'
  BY <1>1, SendersKept
<1>4. SmallTypes'
  BY DEF TypeInv, SmallTypes, Go, way, puts, Request
<1>5. EventTypes' /\ ClientTypes' /\ TargetTypes'
  BY DEF TypeInv, EventTypes, ClientTypes, TargetTypes, client, store, sends, puts
<1>6. QED
  BY <1>2, <1>3, <1>4, <1>5 DEF TypeInv

LEMMA TypesContent ==
    ASSUME TypeInv, NEW j \in Jobs, NEW e \in Events, NEW g \in Segments, ContentRequest(j, e, g)
    PROVE  TypeInv'
<1> DEFINE r == Run("content", "query", e, {}, event, g, "now")
<1>1. event \in Lists /\ "query" \in Plain /\ Placed("content", "query") /\ "now" \in Kinds
  BY DEF TypeInv, EventTypes, Plain, Stages, Placed, Kinds
<1>2. RunGood(r, Ids)
  BY <1>1, NewRun
<1> HIDE DEF r
<1>3. QED
  BY <1>2, RequestOnly DEF ContentRequest, r

LEMMA TypesReserveRequest ==
    ASSUME TypeInv, NEW j \in Jobs, NEW g \in Segments, NEW k \in Kinds, ReserveRequest(j, g, k)
    PROVE  TypeInv'
<1> DEFINE r == Run("reserve", "query", None, {}, event, g, k)
<1>1. event \in Lists /\ "query" \in Plain /\ Placed("reserve", "query")
  BY DEF TypeInv, EventTypes, Plain, Stages, Placed
<1>2. RunGood(r, Ids)
  BY <1>1, NewRun
<1>3. PICK ids \in SUBSET Ids : Go(j, [r EXCEPT !.ids = ids])
  BY DEF ReserveRequest
<1> HIDE DEF r
<1>4. ids \subseteq Ids /\ Ids \subseteq Nat
  BY IdsAre DEF TypeInv
<1> DEFINE q == [r EXCEPT !.ids = ids]
<1>5. RunGood(q, Ids)
  BY <1>2, <1>4 DEF RunGood, RunShape
<1> HIDE DEF q
<1>6. QED
  BY <1>3, <1>5, RequestOnly DEF ReserveRequest, q

LEMMA TypesFind == ASSUME TypeInv, NEW j \in Jobs, FindEvent(j) PROVE TypeInv'
<1> DEFINE row == event[job[j].ev]
           q == [job[j] EXCEPT !.at = "save", !.copy = row]
<1>1. /\ RunGood(job[j], Ids) /\ job[j].left = {} /\ job[j].mode = "auto" /\ job[j].ev \in Events
      /\ job[j].at = "find" /\ job[j].at \in Plain
  BY RunHere DEF FindEvent, At, Stages, Plain, Holding
<1>2. row \in EventRecords
  BY <1>1 DEF TypeInv, EventTypes, Lists
<1>3. RunGood(q, Ids)
  BY <1>1, <1>2, SavingOK, AutoPlaced
<1>4. Throw(j) \/ Go(j, q)
  BY DEF FindEvent
<1> HIDE DEF q
<1>5. QED
  BY <1>3, <1>4, StepsAre, JobOnly DEF FindEvent

LEMMA TypesSave == ASSUME TypeInv, NEW j \in Jobs, SaveEvent(j) PROVE TypeInv'
<1>1. /\ RunGood(job[j], Ids) /\ job[j] \in RunShape /\ job[j].left = {} /\ job[j].mode = "auto"
      /\ job[j].copy \in EventRecords
  BY RunHere DEF SaveEvent, At, Holding, RunGood
<1>2. PICK r \in Resume(job[j]) : Go(j, r)
  BY DEF SaveEvent
<1>3. r = None \/ RunGood(r, Ids)
  BY <1>1, <1>2, ResumeOK
<1>4. Ids' = Ids /\ targets' = targets
  BY DEF SaveEvent, Ids
<1>5. JobTypes' /\ SenderTypes'
  BY <1>2, <1>3, <1>4, StepsAre, JobGoes, SendersKept DEF SaveEvent
<1>6. [job[j].copy EXCEPT !.last = job[j].value] \in EventRecords
  BY <1>1 DEF RunShape, EventRecords
<1>7. EventTypes'
  BY <1>6 DEF TypeInv, EventTypes, Lists, SaveEvent, puts
<1>8. ClientTypes' /\ TargetTypes'
  BY DEF TypeInv, ClientTypes, TargetTypes, SaveEvent, client, sends
<1>9. SmallTypes'
  BY <1>2 DEF TypeInv, SmallTypes, SaveEvent, way, puts, Go
<1>10. QED
  BY <1>5, <1>7, <1>8, <1>9 DEF TypeInv

LEMMA TypesSegment == ASSUME TypeInv, NEW j \in Jobs, ReadSegment(j) PROVE TypeInv'
<1> DEFINE then == IF segment[job[j].seg] = "filtered" THEN "query" ELSE "next"
           q == [job[j] EXCEPT !.at = "connect", !.then = then]
<1>1. /\ RunGood(job[j], Ids) /\ job[j].left = {} /\ "connect" \in Plain /\ job[j].mode = "auto"
      /\ job[j].ev \in Events
  BY RunHere DEF ReadSegment, At, Stages, Plain, Holding
<1>2. then \in {"segment", "query", "stamp", "next"}
  OBVIOUS
<1>3. Throw(j) \/ Go(j, q)
  BY DEF ReadSegment
<1> HIDE DEF then
<1>4. RunGood(q, Ids)
  <2>1. Placed(job[j].mode, "connect")
    BY <1>1, AutoPlaced
  <2>2. QED
    BY <1>1, <1>2, <2>1, ThenOK
<1> HIDE DEF q
<1>5. QED
  BY <1>3, <1>4, StepsAre, JobOnly DEF ReadSegment

\* Whoever connects, only runs that were about to query can be crossed.
LEMMA CrossingEvents == ASSUME TypeInv, NEW d PROVE Crossing(d) \subseteq Events
<1> SUFFICES ASSUME NEW k \in Jobs, At(k, "query"), job[k].mode = "auto" PROVE job[k].ev \in Events
  BY DEF Crossing
<1>1. RunGood(job[k], Ids)
  BY RunHere DEF At
<1>2. QED
  BY <1>1 DEF RunGood

LEMMA TypesConnect == ASSUME TypeInv, NEW j \in Jobs, Connect(j) PROVE TypeInv'
<1>1. /\ RunGood(job[j], Ids) /\ job[j] \in RunShape /\ job[j].left = {} /\ job[j].mode = "auto"
  BY RunHere DEF Connect, At, Holding
<1>2. PICK r \in Resume(job[j]) : Go(j, r)
  BY DEF Connect
<1>3. r = None \/ RunGood(r, Ids)
  BY <1>1, <1>2, ResumeOK
<1>4. Ids' = Ids /\ targets' = targets
  BY DEF Connect, Ids, store
<1>5. JobTypes' /\ SenderTypes'
  BY <1>2, <1>3, <1>4, StepsAre, JobGoes, SendersKept DEF Connect
<1>6. SegDb[job[j].seg] \in Dbs
  BY <1>1, DbsAssumption DEF RunShape
<1>7. SmallTypes'
  BY <1>2, <1>6, CrossingEvents DEF TypeInv, SmallTypes, Connect, PoolFor, Go, puts
<1>8. EventTypes' /\ ClientTypes' /\ TargetTypes'
  BY DEF TypeInv, EventTypes, ClientTypes, TargetTypes, Connect, client, store, sends, puts
<1>9. QED
  BY <1>5, <1>7, <1>8 DEF TypeInv

LEMMA TypesQuery == ASSUME TypeInv, NEW j \in Jobs, Query(j) PROVE TypeInv'
<1> DEFINE rows == {<<r, ver[r]>> : r \in {x \in Rows : RowDb[x] = pool}}
           q == [job[j] EXCEPT !.at = "answer", !.rows = rows]
<1>1. RunGood(job[j], Ids) /\ job[j].left = {} /\ job[j].at = "query"
  BY RunHere DEF Query, At, Holding
<1>2. rows \subseteq Versions
  BY BoundsAssumption DEF TypeInv, ClientTypes, Versions, Times
<1>3. Throw(j) \/ Go(j, q)
  BY DEF Query
<1> HIDE DEF rows
<1>4. Placed(job[j].mode, "answer") /\ "answer" \in Stages /\ "answer" \notin Holding
  BY <1>1 DEF Placed, Stages, Holding, RunGood
<1>5. /\ q \in RunShape /\ q.mode = job[j].mode /\ q.ev = job[j].ev /\ q.at = "answer"
      /\ q.ids = job[j].ids /\ q.idOf = job[j].idOf /\ q.left = {}
  BY <1>1, <1>2, <1>4 DEF RunGood, RunShape
<1> HIDE DEF q
<1>6. RunGood(q, Ids)
  BY <1>1, <1>4, <1>5 DEF RunGood
<1>7. QED
  BY <1>3, <1>6, StepsAre, JobOnly DEF Query

LEMMA TypesAnswer == ASSUME TypeInv, NEW j \in Jobs, Answer(j) PROVE TypeInv'
<1> DEFINE run == job[j]
           kept == IF run.mode = "auto" THEN {p \in run.rows : ChangedSince(p[2], run.list[run.ev].last)}
                                        ELSE run.rows
           a == [run EXCEPT !.at = "numbers"]
           b == [run EXCEPT !.at = "insert", !.rows = kept,
                            !.left = Numbered(kept), !.value = clock + 1]
<1>1. RunGood(run, Ids) /\ run.left = {} /\ run.at = "answer"
  BY RunHere DEF Answer, At, Holding
<1>2. IF run.mode = "reserve" THEN Go(j, a) ELSE Go(j, Inserted(b))
  BY DEF Answer
<1>3. kept \subseteq run.rows /\ Numbered(kept) \subseteq kept /\ clock + 1 \in Times
  BY BoundsAssumption DEF Numbered, TypeInv, ClientTypes, Times
<1> HIDE DEF kept
<1>4. ASSUME run.mode = "reserve" PROVE RunGood(a, Ids)
  BY <1>1, <1>4 DEF RunGood, RunShape, Stages, Placed, Holding
<1>5. ASSUME run.mode # "reserve" PROVE RunGood(b, Ids) /\ b.at = "insert"
  <2>1. /\ b \in RunShape /\ b.mode = run.mode /\ b.ev = run.ev /\ b.at = "insert"
        /\ b.ids = run.ids /\ b.idOf = run.idOf /\ b.left \subseteq b.rows
    BY <1>1, <1>3 DEF RunGood, RunShape, Stages
  <2> HIDE DEF b
  <2>2. Placed(b.mode, b.at) /\ "insert" \in Holding
    BY <1>5, <2>1 DEF Placed, Holding
  <2>3. QED
    BY <1>1, <2>1, <2>2 DEF RunGood
<1> HIDE DEF run, a, b
<1>6. ASSUME run.mode # "reserve" PROVE Inserted(b) = None \/ RunGood(Inserted(b), Ids)
  BY <1>5, <1>6, InsertedOK
<1>7. CASE run.mode = "reserve"
  BY <1>2, <1>4, <1>7, StepsAre, JobOnly DEF Answer
<1>8. CASE run.mode # "reserve"
  BY <1>2, <1>6, <1>8, StepsAre, JobOnly DEF Answer
<1>9. QED
  BY <1>7, <1>8

\* The map from numbers to targets a run reads only holds targets that there are.
LEMMA NumberMaps ==
    ASSUME TypeInv, NEW j \in Jobs, ReadNumbers(j)
    PROVE  \E f \in IdMaps :
              /\ \A n \in DOMAIN f : f[n] \in Ids
              /\ Go(j, Scheduled([job[j] EXCEPT !.at = "schedule", !.left = job[j].rows, !.idOf = f]))
<1> DEFINE ids == {i \in job[j].ids : targets[i].live}
           numbers == {NumberOf(i) : i \in ids}
<1>1. RunGood(job[j], Ids)
  BY RunHere DEF ReadNumbers, At
<1>2. ids \subseteq Ids /\ Ids \subseteq Nat
  BY <1>1, IdsAre DEF RunGood, TypeInv
<1>3. \A i \in Ids : targets[i].row \in Rows
  <2>1. \A i \in Ids : targets[i] \in TargetRecords
    BY DEF TypeInv, TargetTypes, Ids
  <2>2. QED
    BY <2>1 DEF TargetRecords
<1>4. numbers \in SUBSET {Number[r] : r \in Rows}
  BY <1>2, <1>3 DEF NumberOf
<1> HIDE DEF numbers, ids
<1>5. PICK f \in [numbers -> ids] :
         Go(j, Scheduled([job[j] EXCEPT !.at = "schedule", !.left = job[j].rows, !.idOf = f]))
  BY DEF ReadNumbers, numbers, ids
<1>6. f \in IdMaps
  <2>1. f \in [numbers -> Nat]
    BY <1>2
  <2>2. [numbers -> Nat] \in {[D -> Nat] : D \in SUBSET {Number[r] : r \in Rows}}
    BY <1>4
  <2>3. QED
    BY <2>1, <2>2 DEF IdMaps
<1>7. \A n \in DOMAIN f : f[n] \in Ids
  BY <1>2
<1>8. QED
  BY <1>5, <1>6, <1>7

LEMMA TypesNumbers == ASSUME TypeInv, NEW j \in Jobs, ReadNumbers(j) PROVE TypeInv'
<1>1. RunGood(job[j], Ids) /\ job[j].at = "numbers"
  BY RunHere DEF ReadNumbers, At
<1>2. PICK f \in IdMaps :
         /\ \A n \in DOMAIN f : f[n] \in Ids
         /\ Go(j, Scheduled([job[j] EXCEPT !.at = "schedule", !.left = job[j].rows, !.idOf = f]))
  BY NumberMaps
<1> DEFINE q == [job[j] EXCEPT !.at = "schedule", !.left = job[j].rows, !.idOf = f]
<1>3. RunGood(q, Ids) /\ q.at = "schedule"
  <2>1. /\ q \in RunShape /\ q.mode = job[j].mode /\ q.ev = job[j].ev /\ q.at = "schedule"
        /\ q.ids = job[j].ids /\ q.idOf = f /\ q.rows = job[j].rows /\ q.left = job[j].rows
    BY <1>1, <1>2 DEF RunGood, RunShape, Stages
  <2> HIDE DEF q
  <2>2. Placed(q.mode, q.at) /\ "schedule" \in Holding
    BY <1>1, <2>1 DEF RunGood, Placed, Holding
  <2>3. QED
    BY <1>1, <1>2, <2>1, <2>2 DEF RunGood
<1>4. Go(j, Scheduled(q))
  BY <1>2
<1> HIDE DEF q
<1>5. Scheduled(q) = None \/ RunGood(Scheduled(q), Ids)
  BY <1>3, ScheduledOK
<1>6. QED
  BY <1>4, <1>5, StepsAre, JobOnly DEF ReadNumbers

LEMMA TypesFindReserved == ASSUME TypeInv, NEW j \in Jobs, FindReserved(j) PROVE TypeInv'
<1>1. RunGood(job[j], Ids) /\ job[j].at = "schedule"
  BY RunHere DEF FindReserved, At
<1>2. PICK p \in job[j].left :
         \/ /\ Number[p[1]] \in DOMAIN job[j].idOf
            /\ Go(j, [job[j] EXCEPT !.at = "reserve", !.left = @ \ {p}, !.row = p[1],
                                    !.source = targets[job[j].idOf[Number[p[1]]]]])
         \/ Throw(j)
         \/ Go(j, Scheduled([job[j] EXCEPT !.left = @ \ {p}]))
  BY DEF FindReserved
<1> DEFINE i == job[j].idOf[Number[p[1]]]
           a == [job[j] EXCEPT !.at = "reserve", !.left = @ \ {p}, !.row = p[1], !.source = targets[i]]
           b == [job[j] EXCEPT !.left = @ \ {p}]
<1>3. p[1] \in Rows
  BY <1>1 DEF RunGood, RunShape, Versions
<1>4. ASSUME Number[p[1]] \in DOMAIN job[j].idOf PROVE RunGood(a, Ids)
  <2>1. i \in Ids
    BY <1>1, <1>4 DEF RunGood
  <2>2. targets[i] \in TargetRecords
    BY <2>1 DEF TypeInv, TargetTypes, Ids
  <2> HIDE DEF i
  <2>3. a.row = p[1] /\ a.idOf = job[j].idOf
    BY <1>1 DEF RunGood, RunShape
  <2>4. QED
    BY <1>1, <1>3, <1>4, <2>2, <2>3 DEF RunGood, RunShape, Stages, Placed, Holding
<1>5. RunGood(b, Ids) /\ b.at = "schedule"
  BY <1>1 DEF RunGood, RunShape
<1> HIDE DEF b
<1>6. Scheduled(b) = None \/ RunGood(Scheduled(b), Ids)
  BY <1>5, ScheduledOK
<1>7. CASE Number[p[1]] \in DOMAIN job[j].idOf /\ Go(j, a)
  <2> HIDE DEF a
  <2>1. QED
    BY <1>4, <1>7, StepsAre, JobOnly DEF FindReserved
<1>8. CASE Throw(j)
  BY <1>8, StepsAre, JobOnly DEF FindReserved
<1>9. CASE Go(j, Scheduled(b))
  BY <1>6, <1>9, StepsAre, JobOnly DEF FindReserved
<1>10. QED
  BY <1>2, <1>7, <1>8, <1>9 DEF b

LEMMA TypesRecurring == ASSUME TypeInv, NEW j \in Jobs, ReserveRecurring(j) PROVE TypeInv'
<1>1. RunGood(job[j], Ids) /\ job[j].at = "schedule"
  BY RunHere DEF ReserveRecurring, At
<1>2. PICK p \in job[j].left :
         \/ \E i \in FoundFor(job[j], Number[p[1]]), n \in ReservationDates :
               Go(j, [job[j] EXCEPT !.at = "copy", !.left = @ \ {p}, !.row = p[1],
                                    !.source = targets[i], !.copies = n])
         \/ Throw(j)
  BY DEF ReserveRecurring
<1>3. ASSUME NEW i \in FoundFor(job[j], Number[p[1]]), NEW n \in ReservationDates,
             Go(j, [job[j] EXCEPT !.at = "copy", !.left = @ \ {p}, !.row = p[1],
                                  !.source = targets[i], !.copies = n])
      PROVE  TypeInv'
  <2> DEFINE q == [job[j] EXCEPT !.at = "copy", !.left = @ \ {p}, !.row = p[1],
                                 !.source = targets[i], !.copies = n]
  <2>1. i \in Ids
    BY <1>1 DEF FoundFor, RunGood
  <2>2. targets[i] \in TargetRecords
    BY <2>1 DEF TypeInv, TargetTypes, Ids
  <2>3. p[1] \in Rows
    BY <1>1 DEF RunGood, RunShape, Versions
  <2>4. n \in 0..MaxDates
    BY DEF ReservationDates
  <2>5. RunGood(q, Ids)
    <3>1. /\ q \in RunShape /\ q.mode = job[j].mode /\ q.ev = job[j].ev /\ q.at = "copy"
          /\ q.ids = job[j].ids /\ q.idOf = job[j].idOf /\ q.rows = job[j].rows
          /\ q.left = job[j].left \ {p} /\ q.source = targets[i]
      BY <1>1, <2>2, <2>3, <2>4 DEF RunGood, RunShape, Stages
    <3> HIDE DEF q
    <3>2. Placed(q.mode, q.at) /\ "copy" \in Holding
      BY <1>1, <3>1 DEF RunGood, Placed, Holding
    <3>3. QED
      BY <1>1, <2>2, <3>1, <3>2 DEF RunGood
  <2> HIDE DEF q
  <2>6. Go(j, q)
    BY <1>3 DEF q
  <2>7. QED
    BY <2>5, <2>6, StepsAre, JobOnly DEF ReserveRecurring
<1>4. CASE Throw(j)
  BY <1>4, StepsAre, JobOnly DEF ReserveRecurring
<1>5. QED
  BY <1>2, <1>3, <1>4

LEMMA TypesStamp == ASSUME TypeInv, NEW j \in Jobs, Stamp(j) PROVE TypeInv'
<1>1. RunGood(job[j], Ids) /\ job[j].at = "stamp" /\ job[j].left = {} /\ job[j].mode = "auto"
  BY RunHere DEF Stamp, At, Holding
<1>2. CASE \E r \in Onward(job[j].todo, job[j].list) : Go(j, r)
  <2>1. job[j].todo \in SUBSET Events /\ job[j].list \in Lists
    BY <1>1 DEF RunGood, RunShape
  <2>2. PICK r \in Onward(job[j].todo, job[j].list) : Go(j, r)
    BY <1>2
  <2>3. r = None \/ RunGood(r, Ids)
    BY <2>1, OnwardOK
  <2>4. QED
    BY <2>2, <2>3, StepsAre, JobOnly DEF Stamp
<1>3. ASSUME NEW i \in job[j].ids,
             Go(j, [job[j] EXCEPT !.at = "find", !.then = "stamp", !.ids = @ \ {i}])
      PROVE  TypeInv'
  <2> DEFINE q == [job[j] EXCEPT !.at = "find", !.then = "stamp", !.ids = @ \ {i}]
  <2>1. RunGood(q, Ids)
    BY <1>1 DEF RunGood, RunShape, Stages, Placed, Holding
  <2> HIDE DEF q
  <2>2. Go(j, q)
    BY <1>3 DEF q
  <2>3. QED
    BY <2>1, <2>2, StepsAre, JobOnly DEF Stamp
<1>4. CASE Throw(j)
  BY <1>4, StepsAre, JobOnly DEF Stamp
<1>5. QED
  BY <1>2, <1>3, <1>4 DEF Stamp

LEMMA TypesTarget == ASSUME TypeInv, NEW j \in Jobs, SaveTarget(j) PROVE TypeInv'
<1> DEFINE i == Len(targets) + 1
<1>1. RunGood(job[j], Ids) /\ job[j] \in RunShape /\ job[j].at = "insert" /\ job[j].ev \in Events
  BY RunHere DEF SaveTarget, At, RunGood, Placed
<1>2. PICK p \in job[j].left :
          /\ targets' = Append(targets, Target(job[j].ev, p, job[j].mode = "auto"))
          /\ handed' = Append(handed, 0) /\ unmarked' = Append(unmarked, 0)
          /\ made' = made \cup {<<job[j].ev, p[1], p[2]>>}
          /\ Go(j, Inserted([job[j] EXCEPT !.left = @ \ {p}, !.ids = @ \cup {i}]))
  BY DEF SaveTarget
<1>3. p[1] \in Rows /\ p[2] \in Times
  BY <1>1 DEF RunGood, RunShape, Versions
<1> DEFINE t == Target(job[j].ev, p, job[j].mode = "auto")
           q == [job[j] EXCEPT !.left = @ \ {p}, !.ids = @ \cup {i}]
<1>4. t \in TargetRecords
  BY <1>1, <1>3 DEF Target, TargetRecords
<1> HIDE DEF t
<1>5. /\ TargetTypes' /\ i \in Nat /\ Ids' = Ids \cup {i}
      /\ \A k \in Ids : targets'[k] = targets[k]
  BY <1>2, <1>4, TargetAppended DEF TypeInv, t
<1> HIDE DEF i
<1>6. RunGood(q, Ids') /\ q.at = "insert"
  <2>1. /\ q \in RunShape /\ q.mode = job[j].mode /\ q.ev = job[j].ev /\ q.at = "insert"
        /\ q.ids = job[j].ids \cup {i} /\ q.idOf = job[j].idOf /\ q.rows = job[j].rows
        /\ q.left = job[j].left \ {p}
    BY <1>1, <1>5 DEF RunShape
  <2> HIDE DEF q
  <2>2. "insert" \in Holding
    BY DEF Holding
  <2>3. QED
    BY <1>1, <1>5, <2>1, <2>2 DEF RunGood
<1> HIDE DEF q
<1>7. Inserted(q) = None \/ RunGood(Inserted(q), Ids')
  BY <1>6, InsertedOK
<1>8. JobTypes'
  BY <1>2, <1>5, <1>7, StepsAre, JobGoes DEF q, i
<1>9. SenderTypes'
  BY <1>5, SendersKept DEF SaveTarget
<1>10. EventTypes' /\ SmallTypes'
  BY <1>2 DEF SaveTarget, TypeInv, EventTypes, SmallTypes, way, puts, Go
<1>11. ClientTypes'
  BY <1>1, <1>2, <1>3 DEF SaveTarget, TypeInv, ClientTypes, client
<1>12. QED
  BY <1>5, <1>8, <1>9, <1>10, <1>11 DEF TypeInv

LEMMA TypesCopy == ASSUME TypeInv, NEW j \in Jobs, CopyTarget(j) PROVE TypeInv'
<1>1. RunGood(job[j], Ids) /\ job[j] \in RunShape /\ job[j].at = "copy" /\ job[j].copies > 0
  BY RunHere DEF CopyTarget, At
<1> DEFINE t == [job[j].source EXCEPT !.reserved = TRUE, !.copy = TRUE]
           q == [job[j] EXCEPT !.copies = @ - 1]
<1>2. t \in TargetRecords
  BY <1>1 DEF RunGood, TargetRecords
<1>3. /\ targets' = Append(targets, t) /\ handed' = Append(handed, 0)
      /\ unmarked' = Append(unmarked, 0) /\ Go(j, q)
  BY DEF CopyTarget
<1> HIDE DEF t
<1>4. TargetTypes' /\ Ids \subseteq Ids' /\ \A k \in Ids : targets'[k] = targets[k]
  BY <1>2, <1>3, TargetAppended DEF TypeInv
<1>5. job[j].copies - 1 \in 0..MaxDates
  BY <1>1, BoundsAssumption DEF RunShape
<1>6. RunGood(q, Ids')
  BY <1>1, <1>4, <1>5 DEF RunGood, RunShape, Stages
<1> HIDE DEF q
<1>7. JobTypes'
  BY <1>3, <1>4, <1>6, StepsAre, JobGoes
<1>8. SenderTypes'
  BY <1>4, SendersKept DEF CopyTarget
<1>9. EventTypes' /\ SmallTypes' /\ ClientTypes'
  BY <1>3 DEF CopyTarget, TypeInv, EventTypes, SmallTypes, ClientTypes, client, way, puts, Go
<1>10. QED
  BY <1>4, <1>7, <1>8, <1>9 DEF TypeInv

\* An action that moves a run on and changes one target.
LEMMA JobAndTarget ==
    ASSUME TypeInv, NEW j \in Jobs, NEW STATE r, r = None \/ RunGood(r, Ids), Step(j, r),
           NEW i \in Ids, NEW STATE t, t \in TargetRecords,
           targets' = [targets EXCEPT ![i] = t],
           unmarked' = unmarked \/ unmarked' = [unmarked EXCEPT ![i] = @ + 1],
           UNCHANGED <<segment, client, way, event, made, handed, sender, puts, requests, failures>>
    PROVE  TypeInv'
<1>1. /\ TargetTypes' /\ Ids' = Ids
      /\ \A k \in Ids : targets'[k] = IF k = i THEN t ELSE targets[k]
  BY TargetChanged DEF TypeInv
<1>2. JobTypes'
  BY <1>1, JobGoes
<1>3. SenderTypes'
  BY <1>1, SendersKept
<1>4. EventTypes' /\ SmallTypes' /\ ClientTypes'
  BY DEF TypeInv, EventTypes, SmallTypes, ClientTypes, client, way, puts, Step
<1>5. QED
  BY <1>1, <1>2, <1>3, <1>4 DEF TypeInv

LEMMA TargetHere ==
    ASSUME TypeInv, NEW i \in Ids
    PROVE  /\ targets[i] \in TargetRecords
           /\ [targets[i] EXCEPT !.live = FALSE] \in TargetRecords
           /\ [targets EXCEPT ![i].live = FALSE]
                 = [targets EXCEPT ![i] = [targets[i] EXCEPT !.live = FALSE]]
<1>1. targets[i] \in TargetRecords
  BY DEF TypeInv, TargetTypes, Ids
<1>2. QED
  BY <1>1 DEF TargetRecords

LEMMA TypesSaveReserved == ASSUME TypeInv, NEW j \in Jobs, SaveReserved(j) PROVE TypeInv'
<1> DEFINE i == job[j].idOf[Number[job[j].row]]
           t == [job[j].source EXCEPT !.reserved = TRUE]
           q == [job[j] EXCEPT !.at = "schedule", !.row = None, !.source = None]
<1>1. RunGood(job[j], Ids) /\ job[j] \in RunShape /\ job[j].at = "reserve"
  BY RunHere DEF SaveReserved, At
<1>2. i \in Ids /\ t \in TargetRecords
  BY <1>1 DEF RunGood, TargetRecords
<1>3. RunGood(q, Ids) /\ q.at = "schedule"
  <2>1. /\ q \in RunShape /\ q.mode = job[j].mode /\ q.ev = job[j].ev /\ q.at = "schedule"
        /\ q.ids = job[j].ids /\ q.idOf = job[j].idOf /\ q.rows = job[j].rows /\ q.left = job[j].left
    BY <1>1 DEF RunShape, Stages
  <2> HIDE DEF q
  <2>2. Placed(q.mode, q.at) /\ "schedule" \in Holding
    BY <1>1, <2>1 DEF RunGood, Placed, Holding
  <2>3. QED
    BY <1>1, <2>1, <2>2 DEF RunGood
<1>4. /\ targets' = [targets EXCEPT ![i] = t] /\ Go(j, Scheduled(q))
      /\ unmarked' = unmarked \/ unmarked' = [unmarked EXCEPT ![i] = @ + 1]
      /\ UNCHANGED <<segment, client, way, event, made, handed, sender, puts, requests, failures>>
  BY DEF SaveReserved
<1> HIDE DEF i, t, q
<1>5. Scheduled(q) = None \/ RunGood(Scheduled(q), Ids)
  BY <1>3, ScheduledOK
<1>6. QED
  BY <1>2, <1>4, <1>5, StepsAre, JobAndTarget

LEMMA TypesDelete == ASSUME TypeInv, NEW j \in Jobs, DeleteTarget(j) PROVE TypeInv'
<1>1. RunGood(job[j], Ids) /\ job[j] \in RunShape /\ job[j].at = "copy"
  BY RunHere DEF DeleteTarget, At
<1> DEFINE q == [job[j] EXCEPT !.at = "schedule", !.row = None, !.source = None]
           n == Number[job[j].row]
<1>2. RunGood(q, Ids) /\ q.at = "schedule"
  <2>1. /\ q \in RunShape /\ q.mode = job[j].mode /\ q.ev = job[j].ev /\ q.at = "schedule"
        /\ q.ids = job[j].ids /\ q.idOf = job[j].idOf /\ q.rows = job[j].rows /\ q.left = job[j].left
    BY <1>1 DEF RunShape, Stages
  <2> HIDE DEF q
  <2>2. Placed(q.mode, q.at) /\ "schedule" \in Holding
    BY <1>1, <2>1 DEF RunGood, Placed, Holding
  <2>3. QED
    BY <1>1, <2>1, <2>2 DEF RunGood
<1>3. \/ \E i \in FoundFor(job[j], n) :
             targets' = [targets EXCEPT ![i].live = FALSE] /\ Go(j, Scheduled(q))
      \/ Throw(j) /\ UNCHANGED targets
  BY DEF DeleteTarget
<1> HIDE DEF q, n
<1>4. Scheduled(q) = None \/ RunGood(Scheduled(q), Ids)
  BY <1>2, ScheduledOK
<1>5. UNCHANGED <<segment, client, way, event, made, sends, sender, puts, requests, failures>>
  BY DEF DeleteTarget
<1>6. ASSUME NEW i \in FoundFor(job[j], n), targets' = [targets EXCEPT ![i].live = FALSE],
             Go(j, Scheduled(q))
      PROVE  TypeInv'
  <2> DEFINE t == [targets[i] EXCEPT !.live = FALSE]
  <2>1. i \in Ids
    BY <1>1 DEF FoundFor, RunGood
  <2>2. t \in TargetRecords /\ targets' = [targets EXCEPT ![i] = t]
    BY <1>6, <2>1, TargetHere
  <2>3. UNCHANGED <<handed, unmarked>>
    BY <1>5 DEF sends
  <2> HIDE DEF t
  <2>4. QED
    BY <1>4, <1>5, <1>6, <2>1, <2>2, <2>3, StepsAre, JobAndTarget
<1>7. CASE Throw(j) /\ UNCHANGED targets
  BY <1>5, <1>7, StepsAre, JobOnly DEF store
<1>8. QED
  BY <1>3, <1>6, <1>7

LEMMA TypesWork == ASSUME TypeInv, NEW j \in Jobs, Work(j) PROVE TypeInv'
  BY TypesFind, TypesSave, TypesSegment, TypesConnect, TypesQuery, TypesAnswer, TypesTarget,
     TypesNumbers, TypesFindReserved, TypesSaveReserved, TypesRecurring, TypesCopy, TypesDelete,
     TypesStamp
  DEF Work

LEMMA SenderGoes ==
    ASSUME TypeInv, NEW s \in Senders, NEW STATE r,
           r = None \/ (r \in SenderRecords /\ SenderGood(r, Ids)),
           sender' = [sender EXCEPT ![s] = r], Ids' = Ids
    PROVE  SenderTypes'
<1>1. sender \in [Senders -> {None} \cup SenderRecords]
  BY DEF TypeInv, SenderTypes
<1>2. sender' \in [Senders -> {None} \cup SenderRecords]
  BY <1>1
<1>3. ASSUME NEW x \in Senders, sender'[x] # None PROVE SenderGood(sender'[x], Ids')
  <2>1. CASE x = s
    BY <1>1, <1>3, <2>1
  <2>2. CASE x # s
    <3>1. sender'[x] = sender[x]
      BY <1>1, <2>2
    <3>2. SenderGood(sender[x], Ids)
      BY <1>3, <3>1 DEF TypeInv, SenderTypes
    <3>3. QED
      BY <3>1, <3>2
  <2>3. QED
    BY <2>1, <2>2
<1>4. QED
  BY <1>2, <1>3 DEF SenderTypes

LEMMA SenderOnwardOK ==
    ASSUME NEW todo \in SUBSET Nat, SenderOnward(todo) # None
    PROVE  /\ SenderOnward(todo) \in SenderRecords /\ SenderOnward(todo).todo = todo
           /\ SenderOnward(todo).id = None /\ SenderOnward(todo).copy = None
  BY DEF SenderOnward, SenderRecords

LEMMA SenderHere ==
    ASSUME TypeInv, NEW s \in Senders, sender[s] # None
    PROVE  /\ sender[s] \in SenderRecords /\ sender[s].todo \subseteq Ids /\ sender[s].todo \in SUBSET Nat
           /\ sender[s].id # None => sender[s].id \in Ids
           /\ sender[s].copy # None => sender[s].copy \in TargetRecords
  BY DEF TypeInv, SenderTypes, SenderGood, SenderRecords

\* A sender that moves on to the targets S
LEMMA SenderNext ==
    ASSUME TypeInv, NEW S \in SUBSET Ids
    PROVE  SenderOnward(S) = None \/ (SenderOnward(S) \in SenderRecords /\ SenderGood(SenderOnward(S), Ids))
<1>1. S \in SUBSET Nat
  BY IdsAre DEF TypeInv
<1>2. QED
  BY <1>1, SenderOnwardOK DEF SenderGood

LEMMA TypesSenderStart == ASSUME TypeInv, NEW s \in Senders, SenderStart(s) PROVE TypeInv'
<1> DEFINE listed == {i \in Unsent : targets[i].reserved}
           r == SenderOnward(listed)
<1>1. listed \in SUBSET Ids
  BY DEF Unsent
<1>2. sender' = [sender EXCEPT ![s] = r]
  BY DEF SenderStart
<1>3. Ids' = Ids /\ targets' = targets
  BY DEF SenderStart, store, Ids
<1> HIDE DEF listed
<1>4. r = None \/ (r \in SenderRecords /\ SenderGood(r, Ids))
  BY <1>1, <1>3, SenderNext
<1> HIDE DEF r
<1>5. SenderTypes'
  BY <1>2, <1>3, <1>4, SenderGoes
<1>6. JobTypes'
  BY <1>3, JobsKept DEF SenderStart, jobs
<1>7. SmallTypes' /\ EventTypes' /\ ClientTypes' /\ TargetTypes'
  BY DEF SenderStart, TypeInv, SmallTypes, EventTypes, ClientTypes, TargetTypes, client, store,
         way, puts, jobs, sends
<1>8. QED
  BY <1>5, <1>6, <1>7 DEF TypeInv

LEMMA TypesFindMarked == ASSUME TypeInv, NEW s \in Senders, FindMarked(s) PROVE TypeInv'
<1>1. sender[s].todo \subseteq Ids /\ sender[s] # None
  BY SenderHere DEF FindMarked
<1>2. PICK i \in sender[s].todo :
          \/ sender' = [sender EXCEPT ![s] = [todo |-> sender[s].todo \ {i}, id |-> i, copy |-> targets[i]]]
          \/ sender' = [sender EXCEPT ![s] = None]
          \/ sender' = [sender EXCEPT ![s] = SenderOnward(sender[s].todo \ {i})]
  BY DEF FindMarked
<1>3. Ids' = Ids /\ targets' = targets
  BY DEF FindMarked, store, Ids
<1>4. i \in Ids /\ i \in Nat /\ sender[s].todo \ {i} \in SUBSET Ids /\ Ids \subseteq Nat
  BY <1>1, IdsAre DEF TypeInv
<1>5. targets[i] \in TargetRecords
  BY <1>4, TargetHere
<1> DEFINE a == [todo |-> sender[s].todo \ {i}, id |-> i, copy |-> targets[i]]
           c == SenderOnward(sender[s].todo \ {i})
<1>6. a \in SenderRecords /\ SenderGood(a, Ids)
  <2>1. a.todo \subseteq Ids /\ a.id \in Ids /\ a.id # None
    BY <1>4, NoneAssumption
  <2>2. a \in SenderRecords
    BY <1>4, <1>5 DEF SenderRecords
  <2> HIDE DEF a
  <2>3. QED
    BY <2>1, <2>2 DEF SenderGood
<1>7. c = None \/ (c \in SenderRecords /\ SenderGood(c, Ids))
  BY <1>3, <1>4, SenderNext
<1>8. PICK r \in {a, None, c} : sender' = [sender EXCEPT ![s] = r]
  BY <1>2
<1>9. r = None \/ (r \in SenderRecords /\ SenderGood(r, Ids))
  BY <1>6, <1>7, <1>8
<1>10. SenderTypes'
  BY <1>3, <1>8, <1>9, SenderGoes
<1>11. JobTypes'
  BY <1>3, JobsKept DEF FindMarked, jobs
<1>12. SmallTypes' /\ EventTypes' /\ ClientTypes' /\ TargetTypes'
  BY DEF FindMarked, TypeInv, SmallTypes, EventTypes, ClientTypes, TargetTypes, client, store,
         way, puts, jobs, sends
<1>13. QED
  BY <1>10, <1>11, <1>12 DEF TypeInv

LEMMA TypesMark == ASSUME TypeInv, NEW s \in Senders, MarkSent(s) PROVE TypeInv'
<1> DEFINE i == sender[s].id
           t == [sender[s].copy EXCEPT !.sent = TRUE]
           r == [sender[s] EXCEPT !.copy = None]
<1>1. /\ sender[s] \in SenderRecords /\ sender[s].todo \subseteq Ids /\ i \in Ids
      /\ sender[s].copy \in TargetRecords
  BY SenderHere DEF MarkSent
<1>2. t \in TargetRecords
  BY <1>1 DEF TargetRecords
<1>3. r \in SenderRecords /\ r.todo = sender[s].todo /\ r.id = i /\ r.copy = None
  BY <1>1 DEF SenderRecords
<1>4. /\ targets' = [targets EXCEPT ![i] = t] /\ sender' = [sender EXCEPT ![s] = r]
      /\ UNCHANGED <<handed, unmarked>>
  BY DEF MarkSent, sends
<1> HIDE DEF i, t, r
<1>5. TargetTypes' /\ Ids' = Ids
  BY <1>1, <1>2, <1>4, TargetChanged DEF TypeInv
<1>6. SenderGood(r, Ids)
  BY <1>1, <1>3 DEF SenderGood
<1>7. SenderTypes'
  BY <1>3, <1>4, <1>5, <1>6, SenderGoes
<1>8. JobTypes'
  BY <1>5, JobsKept DEF MarkSent, jobs
<1>9. SmallTypes' /\ EventTypes' /\ ClientTypes'
  BY DEF MarkSent, TypeInv, SmallTypes, EventTypes, ClientTypes, client, way, puts, jobs
<1>10. QED
  BY <1>5, <1>7, <1>8, <1>9 DEF TypeInv

LEMMA TypesHand == ASSUME TypeInv, NEW s \in Senders, Hand(s) PROVE TypeInv'
<1> DEFINE r == SenderOnward(sender[s].todo)
           i == sender[s].id
<1>1. sender[s].todo \subseteq Ids /\ i \in Ids
  BY SenderHere DEF Hand
<1>2. sender' = [sender EXCEPT ![s] = r] /\ handed' = [handed EXCEPT ![i] = @ + 1]
  BY DEF Hand
<1>3. Ids' = Ids /\ targets' = targets
  BY DEF Hand, store, Ids
<1>4. r = None \/ (r \in SenderRecords /\ SenderGood(r, Ids))
  BY <1>1, <1>3, SenderNext
<1> HIDE DEF r
<1>5. SenderTypes'
  BY <1>2, <1>3, <1>4, SenderGoes
<1>6. JobTypes'
  BY <1>3, JobsKept DEF Hand, jobs
<1>7. TargetTypes'
  <2>1. handed \in Seq(Nat) /\ Len(handed) = Len(targets) /\ i \in 1..Len(handed)
    BY <1>1 DEF TypeInv, TargetTypes, Ids
  <2>2. handed[i] + 1 \in Nat
    BY <2>1
  <2>3. handed' = [handed EXCEPT ![i] = handed[i] + 1]
    BY <1>2
  <2> HIDE DEF i
  <2>4. handed' \in Seq(Nat) /\ Len(handed') = Len(handed)
    BY <2>1, <2>2, <2>3, ExceptSeq
  <2>5. unmarked' = unmarked
    BY DEF Hand
  <2>6. QED
    BY <1>3, <2>1, <2>4, <2>5 DEF TypeInv, TargetTypes
<1>8. SmallTypes' /\ EventTypes' /\ ClientTypes'
  BY DEF Hand, TypeInv, SmallTypes, EventTypes, ClientTypes, client, store, way, puts, jobs
<1>9. QED
  BY <1>5, <1>6, <1>7, <1>8 DEF TypeInv

LEMMA TypesEdit == ASSUME TypeInv, NEW r \in Rows, Edit(r) PROVE TypeInv'
<1>1. Ids' = Ids /\ targets' = targets
  BY DEF Edit, store, Ids
<1>2. JobTypes' /\ SenderTypes'
  BY <1>1, JobsKept, SendersKept DEF Edit, jobs
<1>3. clock' \in 1..MaxClock /\ clock + 1 \in 1..clock' /\ clock + 1 \in Times /\ 1..clock \subseteq 1..clock'
  BY BoundsAssumption DEF Edit, TypeInv, ClientTypes, Times
<1>4. ClientTypes'
  <2>1. ver' \in [Rows -> 1..clock']
    BY <1>3 DEF Edit, TypeInv, ClientTypes
  <2>2. unseen' \subseteq Versions
    BY <1>3 DEF Edit, TypeInv, ClientTypes, Versions
  <2>3. QED
    BY <1>3, <2>1, <2>2 DEF Edit, TypeInv, ClientTypes, store
<1>5. SmallTypes' /\ EventTypes' /\ TargetTypes'
  BY DEF Edit, TypeInv, SmallTypes, EventTypes, TargetTypes, store, way, puts, jobs, sends
<1>6. QED
  BY <1>2, <1>4, <1>5 DEF TypeInv

\* A user changes events or segments.
LEMMA TypesUser ==
    ASSUME TypeInv, Ids' = Ids,
           UNCHANGED <<targets, handed, unmarked, made, job, spoiled, sender, pool, crossed, client, failures>>,
           segment' \in [Segments -> {"filtered", "unfiltered", "none"}], retold' \subseteq Events,
           requests' \in Nat, EventTypes'
    PROVE  TypeInv'
<1>1. JobTypes' /\ SenderTypes'
  BY JobsKept, SendersKept
<1>2. TargetTypes' /\ ClientTypes' /\ SmallTypes'
  BY DEF TypeInv, TargetTypes, ClientTypes, SmallTypes, client
<1>3. QED
  BY <1>1, <1>2 DEF TypeInv

LEMMA TypesEvent ==
    ASSUME TypeInv, NEW e \in Events, PutRead(e) \/ DeleteEvent(e) PROVE TypeInv'
<1>1. /\ Ids' = Ids /\ segment' = segment /\ retold' = retold
      /\ UNCHANGED <<targets, handed, unmarked, made, job, spoiled, sender, pool, crossed, client, failures>>
  BY DEF PutRead, DeleteEvent, store, Ids, jobs, way, sends, puts
<1>2. EventTypes'
  <2>1. event \in Lists /\ event[e] \in EventRecords /\ put \in {None} \cup [ev : Events, row : EventRecords]
    BY DEF TypeInv, EventTypes, Lists
  <2>2. CASE PutRead(e)
    BY <2>1, <2>2 DEF PutRead, store, EventTypes
  <2>3. CASE DeleteEvent(e)
    <3>1. [event[e] EXCEPT !.live = FALSE] \in EventRecords
      BY <2>1 DEF EventRecords
    <3>2. event' = [event EXCEPT ![e] = [event[e] EXCEPT !.live = FALSE]]
      BY <2>3 DEF DeleteEvent
    <3>3. QED
      BY <2>1, <2>3, <3>1, <3>2 DEF DeleteEvent, puts, EventTypes, Lists
  <2>4. QED
    BY <2>2, <2>3
<1>3. requests' \in Nat
  BY DEF PutRead, DeleteEvent, Request, TypeInv, SmallTypes
<1>4. segment' \in [Segments -> {"filtered", "unfiltered", "none"}] /\ retold' \subseteq Events
  BY <1>1 DEF TypeInv, SmallTypes
<1>5. QED
  BY <1>1, <1>2, <1>3, <1>4, TypesUser

LEMMA TypesSegments ==
    ASSUME TypeInv, NEW g \in Segments, FilterSegment(g) \/ DeleteSegment(g) PROVE TypeInv'
<1>1. /\ Ids' = Ids /\ event' = event /\ put' = put /\ retold' = retold
      /\ UNCHANGED <<targets, handed, unmarked, made, job, spoiled, sender, pool, crossed, client, failures>>
  BY DEF FilterSegment, DeleteSegment, store, Ids, jobs, way, sends, puts
<1>2. EventTypes'
  BY <1>1 DEF TypeInv, EventTypes
<1>3. requests' \in Nat
  BY DEF FilterSegment, DeleteSegment, Request, TypeInv, SmallTypes
<1>4. segment' \in [Segments -> {"filtered", "unfiltered", "none"}] /\ retold' \subseteq Events
  BY <1>1 DEF FilterSegment, DeleteSegment, TypeInv, SmallTypes
<1>5. QED
  BY <1>1, <1>2, <1>3, <1>4, TypesUser

LEMMA TypesPutSave == ASSUME TypeInv, PutSave PROVE TypeInv'
<1>1. /\ Ids' = Ids /\ segment' = segment /\ put' = None
      /\ UNCHANGED <<targets, handed, unmarked, made, job, spoiled, sender, pool, crossed, client, failures>>
      /\ requests' = requests
  BY DEF PutSave, Ids, jobs, way, sends
<1>2. put.ev \in Events /\ put.row \in EventRecords /\ put.row.last \in Times \cup {None}
  BY DEF PutSave, TypeInv, EventTypes, EventRecords
<1>3. PICK last \in PutTimes \cup {put.row.last}, g \in Segments, k \in Kinds :
          /\ event' = [event EXCEPT ![put.ev] = [live |-> TRUE, last |-> last, seg |-> g, kind |-> k]]
          /\ retold' = retold \/ retold' = retold \cup {put.ev}
  BY DEF PutSave
<1>4. [live |-> TRUE, last |-> last, seg |-> g, kind |-> k] \in EventRecords
  BY <1>2, BoundsAssumption DEF EventRecords
<1>5. EventTypes'
  BY <1>1, <1>3, <1>4 DEF TypeInv, EventTypes, Lists
<1>6. retold' \subseteq Events /\ requests' \in Nat
  BY <1>1, <1>2, <1>3 DEF TypeInv, SmallTypes
<1>7. segment' \in [Segments -> {"filtered", "unfiltered", "none"}]
  BY <1>1 DEF TypeInv, SmallTypes
<1>8. QED
  BY <1>1, <1>5, <1>6, <1>7, TypesUser

LEMMA TypesConnectRequest == ASSUME TypeInv, NEW d \in Dbs, ConnectRequest(d) PROVE TypeInv'
<1>1. Ids' = Ids /\ targets' = targets
  BY DEF ConnectRequest, store, Ids
<1>2. JobTypes' /\ SenderTypes'
  BY <1>1, JobsKept, SendersKept DEF ConnectRequest, jobs
<1>3. SmallTypes'
  BY CrossingEvents DEF ConnectRequest, PoolFor, TypeInv, SmallTypes, Request, puts, jobs
<1>4. EventTypes' /\ ClientTypes' /\ TargetTypes'
  BY DEF ConnectRequest, TypeInv, EventTypes, ClientTypes, TargetTypes, client, store, sends, puts
<1>5. QED
  BY <1>2, <1>3, <1>4 DEF TypeInv

LEMMA TypesFailure == ASSUME TypeInv, Reject \/ Crash PROVE TypeInv'
<1>1. CASE Reject
  <2>1. /\ Ids' = Ids
        /\ UNCHANGED <<targets, handed, unmarked, made, event, put, retold, segment, pool, crossed, client, spoiled, requests>>
    BY <1>1 DEF Reject, store, Ids, way, sends, puts, jobs, Go
  <2>2. JobTypes'
    <3>1. CASE \E j \in Jobs : Go(j, None)
      BY <2>1, <3>1, StepsAre, JobGoes
    <3>2. CASE UNCHANGED jobs
      BY <2>1, <3>2, JobsKept DEF jobs
    <3>3. QED
      BY <1>1, <3>1, <3>2 DEF Reject
  <2>3. SenderTypes'
    BY <1>1, <2>1, SenderGoes, SendersKept DEF Reject
  <2>4. failures' \in Nat
    BY <1>1 DEF Reject, TypeInv, SmallTypes
  <2>5. QED
    BY <2>1, <2>2, <2>3, <2>4 DEF TypeInv, SmallTypes, EventTypes, ClientTypes, TargetTypes, client
<1>2. CASE Crash
  <2>1. JobTypes' /\ SenderTypes'
    BY <1>2 DEF Crash, JobTypes, SenderTypes
  <2>2. SmallTypes' /\ EventTypes' /\ ClientTypes' /\ TargetTypes'
    BY <1>2 DEF Crash, TypeInv, SmallTypes, EventTypes, ClientTypes, TargetTypes, client, store, sends
  <2>3. QED
    BY <2>1, <2>2 DEF TypeInv
<1>3. QED
  BY <1>1, <1>2

LEMMA TypesStep == TypeInv /\ [Next]_vars => TypeInv'
<1> SUFFICES ASSUME TypeInv, [Next]_vars PROVE TypeInv'
  OBVIOUS
<1>1. CASE Next
  <2>1. CASE \E j \in Jobs : AutoStart(j) \/ Work(j)
    BY <2>1, TypesStart, TypesWork
  <2>2. CASE \/ \E j \in Jobs, e \in Events, g \in Segments : ContentRequest(j, e, g)
             \/ \E j \in Jobs, g \in Segments, k \in Kinds \ {"now"} : ReserveRequest(j, g, k)
    BY <2>2, TypesContent, TypesReserveRequest
  <2>3. CASE \E s \in Senders : SenderStart(s) \/ FindMarked(s) \/ MarkSent(s) \/ Hand(s)
    BY <2>3, TypesSenderStart, TypesFindMarked, TypesMark, TypesHand
  <2>4. CASE \/ \E r \in Rows : Edit(r)
             \/ \E d \in Dbs : ConnectRequest(d)
             \/ Reject
             \/ Crash
    BY <2>4, TypesEdit, TypesConnectRequest, TypesFailure
  <2>5. CASE \/ \E e \in Events : PutRead(e) \/ DeleteEvent(e)
             \/ \E g \in Segments : FilterSegment(g) \/ DeleteSegment(g)
             \/ PutSave
    BY <2>5, TypesEvent, TypesSegments, TypesPutSave
  <2>6. QED
    BY <1>1, <2>1, <2>2, <2>3, <2>4, <2>5 DEF Next
<1>2. CASE UNCHANGED vars
  <2>1. /\ UNCHANGED <<segment, event, ver, clock, unseen, pool, crossed, targets, made, handed, unmarked>>
        /\ UNCHANGED <<job, spoiled, sender, put, retold, requests, failures>>
    BY <1>2 DEF vars, client, store, way, sends, jobs, puts
  <2>2. Ids' = Ids
    BY <2>1 DEF Ids
  <2>3. JobTypes' /\ SenderTypes'
    BY <2>1, <2>2, JobsKept, SendersKept
  <2>4. QED
    BY <2>1, <2>3 DEF TypeInv, SmallTypes, EventTypes, ClientTypes, TargetTypes
<1>3. QED
  BY <1>1, <1>2

(***************************************************************************)
(* Whatever runs and requests overlap, fail or die: a run only holds rows  *)
(* of client databases, targets that there are and times that have been.   *)
(***************************************************************************)
THEOREM TypesHold == Spec => []TypeInv
<1>1. Init => TypeInv
  BY InitTypes
<1>2. TypeInv /\ [Next]_vars => TypeInv'
  BY TypesStep
<1>3. QED
  BY <1>1, <1>2, PTL DEF Spec

(***************************************************************************)
(* The type invariant the runs check, from the stronger one.               *)
(***************************************************************************)
THEOREM TypeCorrect == Spec => []TypeOK
<1>1. TypeInv => TypeOK
  BY TypesImply
<1>2. QED
  BY <1>1, TypesHold, PTL

-----------------------------------------------------------------------------
(* What the process knows of an event e, of segment g, as long as nobody   *)
(* gives the event another segment or last run and no connect crosses a    *)
(* run of it, in terms of the versions v, the targets made m, the changes  *)
(* unseen u, the time c and the pool p.  Runs may overlap.                 *)

CoveredBy(e, g, t, v, m, u) ==
    \A r \in Rows :
        (RowDb[r] = SegDb[g] /\ Number[r] # None /\ v[r] < t)
            => (<<e, r, v[r]>> \in m \/ <<r, v[r]>> \in u)

\* A row of the event, in the table or copied from it
RowCover(row, e, g, v, m, u, c) ==
    /\ row.seg = g
    /\ row.last # None => row.last <= c + 1 /\ CoveredBy(e, g, row.last, v, m, u)

OwnRow(t, e, g) == t.auto /\ t.event = e => RowDb[t.row] = SegDb[g]

\* The answer holds the client's rows, in their last versions.
Fresh(run, g, v, u) ==
    /\ \A q \in run.rows : RowDb[q[1]] = SegDb[g]
    /\ \A r \in Rows : RowDb[r] = SegDb[g] => <<r, v[r]>> \in run.rows \cup u

\* What is not covered yet is left to do.
Pending(run, e, g, v, m, u) ==
    /\ \A q \in run.left : RowDb[q[1]] = SegDb[g]
    /\ \A r \in Rows :
         (RowDb[r] = SegDb[g] /\ Number[r] # None /\ v[r] < run.value)
            => (<<e, r, v[r]>> \in m \/ <<r, v[r]>> \in u \cup run.left)

Storing == {"numbers", "schedule", "reserve", "copy", "stamp", "find", "save"}

\* A run of the cron at the event
EventCover(run, e, g, v, m, u, c, p) ==
    /\ run.seg = g
    /\ run.value <= c + 1
    /\ run.at = "connect" => run.then \in {"query", "next"}
    /\ run.at = "query" => p = SegDb[g]
    /\ run.at = "answer" => Fresh(run, g, v, u)
    /\ run.at = "insert" => Pending(run, e, g, v, m, u)
    /\ run.at \in Storing => CoveredBy(e, g, run.value, v, m, u)
    /\ run.at \in {"find", "save"} => run.then \in {"segment", "stamp", "next"}
    /\ run.at = "save" => RowCover(run.copy, e, g, v, m, u, c)

AtEvent(run, e) == run.mode = "auto" /\ run.ev = e

RunCover(run, e, g, v, m, u, c, p) ==
    /\ RowCover(run.list[e], e, g, v, m, u, c)
    /\ run.at \in {"reserve", "copy"} => OwnRow(run.source, e, g)
    /\ AtEvent(run, e) => EventCover(run, e, g, v, m, u, c, p)

JobCover(e, g) ==
    \A j \in Jobs : job[j] # None => RunCover(job[j], e, g, ver, made, unseen, clock, pool)

TableCover(e, g) ==
    /\ RowCover(event[e], e, g, ver, made, unseen, clock)
    /\ (put # None /\ put.ev = e) => RowCover(put.row, e, g, ver, made, unseen, clock)

TargetCover(e, g) == \A i \in Ids : OwnRow(targets[i], e, g)

SenderCover(e, g) ==
    \A s \in Senders : (sender[s] # None /\ sender[s].copy # None) => OwnRow(sender[s].copy, e, g)

Known(e, g) == JobCover(e, g) /\ TableCover(e, g) /\ TargetCover(e, g) /\ SenderCover(e, g)

CoverInv == \A e \in Events : Undisturbed(e) => \E g \in Segments : Known(e, g)

LEMMA InitCover == Init => CoverInv
<1> SUFFICES ASSUME Init, NEW e \in Events PROVE \E g \in Segments : Known(e, g)
  BY DEF CoverInv
<1>1. event[e].seg \in Segments /\ event[e].last = None
  BY OpeningAssumption DEF Init, EventRecords
<1>2. Ids = {}
  BY DEF Init, Ids
<1>3. Known(e, event[e].seg)
  BY <1>1, <1>2 DEF Init, Known, JobCover, TableCover, RowCover, TargetCover, SenderCover
<1>4. QED
  BY <1>1, <1>3

LEMMA CoverImplies == TypeInv /\ CoverInv => OwnRowsOnly /\ NoUpdateLost
<1> SUFFICES ASSUME TypeInv, CoverInv PROVE OwnRowsOnly /\ NoUpdateLost
  OBVIOUS
<1>1. ASSUME NEW i \in Ids, targets[i].auto, Undisturbed(targets[i].event)
      PROVE  Own(targets[i].event, targets[i].row)
  <2>1. targets[i].event \in Events
    BY TargetHere DEF TargetRecords
  <2>2. PICK g \in Segments : Known(targets[i].event, g)
    BY <1>1, <2>1 DEF CoverInv
  <2>3. QED
    BY <1>1, <2>2 DEF Known, TableCover, RowCover, TargetCover, OwnRow, Own
<1>2. ASSUME NEW e \in Events, event[e].last # None, Undisturbed(e)
      PROVE  Covered(e, event[e].last)
  <2>1. PICK g \in Segments : Known(e, g)
    BY <1>2 DEF CoverInv
  <2>2. QED
    BY <1>2, <2>1 DEF Known, TableCover, RowCover, CoveredBy, Covered, Own
<1>3. QED
  BY <1>1, <1>2 DEF OwnRowsOnly, NoUpdateLost

-----------------------------------------------------------------------------
(* Where a run goes.                                                       *)

LEMMA NothingBefore ==
    ASSUME TypeInv, NEW e, NEW g
    PROVE  CoveredBy(e, g, 0, ver, made, unseen)
<1>1. \A r \in Rows : ~(ver[r] < 0)
  BY DEF TypeInv, ClientTypes
<1>2. QED
  BY <1>1 DEF CoveredBy

LEMMA OnwardCover ==
    ASSUME TypeInv, NEW e \in Events, NEW g \in Segments, NEW todo, NEW list,
           RowCover(list[e], e, g, ver, made, unseen, clock),
           NEW r \in Onward(todo, list), NEW p
    PROVE  r = None \/ RunCover(r, e, g, ver, made, unseen, clock, p)
<1>1. CASE todo = {}
  BY <1>1 DEF Onward
<1>2. CASE todo # {}
  <2>1. PICK x \in todo : r = Run("auto", IF list[x].last = None THEN "find" ELSE "segment",
                                  x, todo \ {x}, list, list[x].seg, list[x].kind)
    BY <1>2 DEF Onward
  <2>2. /\ r.mode = "auto" /\ r.at \in {"find", "segment"} /\ r.ev = x /\ r.seg = list[x].seg
        /\ r.list = list /\ r.value = 0 /\ r.then = "segment"
    BY <2>1 DEF Run
  <2>3. CoveredBy(e, g, 0, ver, made, unseen)
    BY NothingBefore
  <2>4. 0 <= clock + 1
    BY DEF TypeInv, ClientTypes
  <2>5. x = e => r.seg = g
    BY <2>2 DEF RowCover
  <2>6. QED
    BY <2>2, <2>3, <2>4, <2>5 DEF RunCover, EventCover, AtEvent
<1>3. QED
  BY <1>1, <1>2

LEMMA InsertedCover ==
    ASSUME NEW run \in RunShape, NEW e, NEW g, NEW v, NEW m, NEW u, NEW c, NEW p,
           run.at = "insert", Placed(run.mode, run.at), RunCover(run, e, g, v, m, u, c, p)
    PROVE  Inserted(run) = None \/ RunCover(Inserted(run), e, g, v, m, u, c, p)
<1>1. CASE run.left # {} \/ run.mode = "content"
  BY <1>1 DEF Inserted
<1>2. CASE run.left = {} /\ run.mode # "content"
  <2> DEFINE at == IF run.kind = "now" THEN "stamp" ELSE "numbers"
             q == [run EXCEPT !.at = at]
  <2>1. Inserted(run) = q
    BY <1>2 DEF Inserted
  <2>2. at \in {"stamp", "numbers"}
    OBVIOUS
  <2> HIDE DEF at
  <2>3. /\ q.mode = run.mode /\ q.at = at /\ q.ev = run.ev /\ q.seg = run.seg
        /\ q.list = run.list /\ q.value = run.value
    BY DEF RunShape
  <2>4. AtEvent(run, e) => CoveredBy(e, g, run.value, v, m, u)
    BY <1>2 DEF RunCover, EventCover, Pending, CoveredBy
  <2> HIDE DEF q
  <2>5. RunCover(q, e, g, v, m, u, c, p)
    BY <2>2, <2>3, <2>4 DEF RunCover, EventCover, AtEvent
  <2>6. QED
    BY <2>1, <2>5
<1>3. QED
  BY <1>1, <1>2

LEMMA ScheduledCover ==
    ASSUME NEW run \in RunShape, NEW e, NEW g, NEW v, NEW m, NEW u, NEW c, NEW p,
           run.at = "schedule", RunCover(run, e, g, v, m, u, c, p)
    PROVE  Scheduled(run) = None \/ RunCover(Scheduled(run), e, g, v, m, u, c, p)
<1>1. CASE run.left # {} \/ run.mode = "reserve"
  BY <1>1 DEF Scheduled
<1>2. CASE run.left = {} /\ run.mode # "reserve"
  <2> DEFINE q == [run EXCEPT !.at = "find", !.then = "next"]
  <2>1. Scheduled(run) = q
    BY <1>2 DEF Scheduled
  <2>2. /\ q.mode = run.mode /\ q.at = "find" /\ q.then = "next" /\ q.ev = run.ev
        /\ q.seg = run.seg /\ q.list = run.list /\ q.value = run.value
    BY DEF RunShape
  <2> HIDE DEF q
  <2>3. RunCover(q, e, g, v, m, u, c, p)
    BY <2>2 DEF RunCover, EventCover, AtEvent, Storing
  <2>4. QED
    BY <2>1, <2>3
<1>3. QED
  BY <1>1, <1>2

-----------------------------------------------------------------------------
(* What an action leaves alone.                                            *)

Grow ==
    /\ clock' \in Nat /\ clock' >= clock /\ made \subseteq made' /\ unseen \subseteq unseen'
    /\ \A r \in Rows : ver'[r] = ver[r] \/ ver'[r] = clock + 1

LEMMA CoveredKept ==
    ASSUME TypeInv, Grow, NEW e, NEW g, NEW t \in Times, t <= clock + 1,
           CoveredBy(e, g, t, ver, made, unseen)
    PROVE  t <= clock' + 1 /\ CoveredBy(e, g, t, ver', made', unseen')
<1>1. clock \in Nat /\ clock' \in Nat /\ clock' >= clock
  BY DEF TypeInv, ClientTypes, Grow
<1>2. t \in Nat /\ ~(clock + 1 < t)
  BY <1>1, BoundsAssumption DEF Times
<1>3. ASSUME NEW r \in Rows, RowDb[r] = SegDb[g], Number[r] # None, ver'[r] < t
      PROVE  <<e, r, ver'[r]>> \in made' \/ <<r, ver'[r]>> \in unseen'
  <2>1. ver'[r] = ver[r]
    BY <1>2, <1>3 DEF Grow
  <2>2. QED
    BY <1>3, <2>1 DEF Grow, CoveredBy
<1>4. CoveredBy(e, g, t, ver', made', unseen')
  BY <1>3 DEF CoveredBy
<1>5. t <= clock' + 1
  <2> DEFINE c == clock
             d == clock'
  <2>1. c \in Nat /\ d \in Nat /\ d >= c /\ t \in Nat /\ t <= c + 1
    BY <1>1, <1>2
  <2> HIDE DEF c, d
  <2>2. t <= d + 1
    BY <2>1
  <2>3. QED
    BY <2>2 DEF d
<1>6. QED
  BY <1>4, <1>5

LEMMA Still ==
    ASSUME TypeInv, UNCHANGED client, made \subseteq made'
    PROVE  Grow /\ ver' = ver /\ clock' = clock /\ unseen' = unseen
  BY DEF TypeInv, ClientTypes, client, Grow

LEMMA RowKept ==
    ASSUME TypeInv, Grow, NEW e, NEW g, NEW row \in EventRecords,
           RowCover(row, e, g, ver, made, unseen, clock)
    PROVE  RowCover(row, e, g, ver', made', unseen', clock')
<1>1. row.last # None => row.last \in Times
  BY DEF EventRecords
<1>2. QED
  BY <1>1, CoveredKept DEF RowCover

LEMMA RunKept ==
    ASSUME TypeInv, Grow, NEW e \in Events, NEW g, NEW run, RunGood(run, Ids), NEW p,
           RunCover(run, e, g, ver, made, unseen, clock, pool),
           AtEvent(run, e) /\ run.at = "query" => p = SegDb[g],
           run.at = "answer" => \A r \in Rows : ver'[r] = ver[r] \/ <<r, ver'[r]>> \in unseen'
    PROVE  RunCover(run, e, g, ver', made', unseen', clock', p)
<1>1. run.value \in Times /\ run.list[e] \in EventRecords /\ clock \in Nat
  BY DEF RunGood, RunShape, Lists, TypeInv, ClientTypes
<1>2. RowCover(run.list[e], e, g, ver', made', unseen', clock')
  BY <1>1, RowKept DEF RunCover
<1>3. ASSUME AtEvent(run, e) PROVE EventCover(run, e, g, ver', made', unseen', clock', p)
  <2>1. EventCover(run, e, g, ver, made, unseen, clock, pool)
    BY <1>3 DEF RunCover
  <2>2. run.value <= clock' + 1
    BY <1>1, <2>1, BoundsAssumption DEF EventCover, Grow, Times
  <2>3. ASSUME run.at = "answer" PROVE Fresh(run, g, ver', unseen')
    BY <2>1, <2>3 DEF EventCover, Fresh, Grow
  <2>4. ASSUME run.at = "insert" PROVE Pending(run, e, g, ver', made', unseen')
    <3>1. Pending(run, e, g, ver, made, unseen) /\ run.value <= clock + 1
      BY <2>1, <2>4 DEF EventCover
    <3>2. ASSUME NEW r \in Rows, RowDb[r] = SegDb[g], Number[r] # None, ver'[r] < run.value
          PROVE  <<e, r, ver'[r]>> \in made' \/ <<r, ver'[r]>> \in unseen' \cup run.left
      <4>1. ver'[r] = ver[r]
        BY <1>1, <3>1, <3>2, BoundsAssumption DEF Grow, Times
      <4>2. QED
        BY <3>1, <3>2, <4>1 DEF Pending, Grow
    <3>3. QED
      BY <3>1, <3>2 DEF Pending
  <2>5. ASSUME run.at \in Storing PROVE CoveredBy(e, g, run.value, ver', made', unseen')
    <3>1. CoveredBy(e, g, run.value, ver, made, unseen) /\ run.value <= clock + 1
      BY <2>1, <2>5 DEF EventCover
    <3>2. QED
      BY <1>1, <3>1, CoveredKept
  <2>6. ASSUME run.at = "save" PROVE RowCover(run.copy, e, g, ver', made', unseen', clock')
    <3>1. run.copy \in EventRecords /\ RowCover(run.copy, e, g, ver, made, unseen, clock)
      BY <2>1, <2>6 DEF EventCover, RunGood
    <3>2. QED
      BY <3>1, RowKept
  <2>7. QED
    BY <1>3, <2>1, <2>2, <2>3, <2>4, <2>5, <2>6 DEF EventCover
<1>4. QED
  BY <1>2, <1>3 DEF RunCover

\* Nobody connects to another database just before the query of a run of the event.
Uncrossed(e, g) ==
    \A j \in Jobs : (At(j, "query") /\ AtEvent(job[j], e)) => pool' = SegDb[g]

LEMMA PoolStays ==
    ASSUME TypeInv, NEW e, NEW g, JobCover(e, g), pool' = pool
    PROVE  Uncrossed(e, g)
  BY DEF Uncrossed, At, JobCover, RunCover, EventCover

LEMMA NotCrossed ==
    ASSUME TypeInv, NEW e, NEW g, JobCover(e, g), NEW STATE d, pool' = d,
           crossed' = crossed \cup Crossing(d), Undisturbed(e)'
    PROVE  Uncrossed(e, g)
<1> SUFFICES ASSUME NEW j \in Jobs, At(j, "query"), AtEvent(job[j], e), d # SegDb[g] PROVE FALSE
  BY DEF Uncrossed
<1>1. job[j].seg = g
  BY DEF JobCover, RunCover, EventCover, At
<1>2. job[j].ev \in Crossing(d)
  BY <1>1 DEF Crossing, AtEvent
<1>3. QED
  BY <1>2 DEF Undisturbed, AtEvent

LEMMA JobsStill ==
    ASSUME TypeInv, NEW e \in Events, NEW g, JobCover(e, g), Grow, job' = job, Uncrossed(e, g),
           \A j \in Jobs : At(j, "answer") => \A r \in Rows : ver'[r] = ver[r] \/ <<r, ver'[r]>> \in unseen'
    PROVE  JobCover(e, g)'
<1> SUFFICES ASSUME NEW j \in Jobs, job[j] # None
             PROVE  RunCover(job[j], e, g, ver', made', unseen', clock', pool')
  BY DEF JobCover
<1>1. RunGood(job[j], Ids) /\ RunCover(job[j], e, g, ver, made, unseen, clock, pool)
  BY RunHere DEF JobCover
<1>2. AtEvent(job[j], e) /\ job[j].at = "query" => pool' = SegDb[g]
  BY DEF Uncrossed, At
<1>3. job[j].at = "answer" => \A r \in Rows : ver'[r] = ver[r] \/ <<r, ver'[r]>> \in unseen'
  BY DEF At
<1>4. QED
  BY <1>1, <1>2, <1>3, RunKept

LEMMA JobMoves ==
    ASSUME TypeInv, NEW e \in Events, NEW g, JobCover(e, g), Grow, ver' = ver, Uncrossed(e, g),
           NEW j \in Jobs, NEW STATE r, Step(j, r),
           r = None \/ RunCover(r, e, g, ver', made', unseen', clock', pool')
    PROVE  JobCover(e, g)'
<1> SUFFICES ASSUME NEW i \in Jobs, job'[i] # None
             PROVE  RunCover(job'[i], e, g, ver', made', unseen', clock', pool')
  BY DEF JobCover
<1>1. job \in [Jobs -> {None} \cup RunShape]
  BY DEF TypeInv, JobTypes
<1>2. CASE i = j
  BY <1>1, <1>2 DEF Step
<1>3. CASE i # j
  <2>1. job'[i] = job[i]
    BY <1>1, <1>3 DEF Step
  <2>2. RunGood(job[i], Ids) /\ RunCover(job[i], e, g, ver, made, unseen, clock, pool)
    BY <2>1, RunHere DEF JobCover
  <2>3. AtEvent(job[i], e) /\ job[i].at = "query" => pool' = SegDb[g]
    BY <2>1 DEF Uncrossed, At
  <2>4. QED
    BY <2>1, <2>2, <2>3, RunKept
<1>4. QED
  BY <1>2, <1>3

LEMMA TableStill ==
    ASSUME TypeInv, NEW e \in Events, NEW g, TableCover(e, g), Grow, event' = event,
           put' = put \/ put' = None
    PROVE  TableCover(e, g)'
<1>2. event[e] \in EventRecords
  BY DEF TypeInv, EventTypes, Lists
<1>3. RowCover(event[e], e, g, ver', made', unseen', clock')
  BY <1>2, RowKept DEF TableCover
<1>4. ASSUME put # None, put.ev = e PROVE RowCover(put.row, e, g, ver', made', unseen', clock')
  <2>1. put.row \in EventRecords
    BY <1>4 DEF TypeInv, EventTypes
  <2>2. QED
    BY <1>4, <2>1, RowKept DEF TableCover
<1>5. QED
  BY <1>3, <1>4 DEF TableCover

LEMMA SendersStill ==
    ASSUME NEW e, NEW g, SenderCover(e, g), sender' = sender
    PROVE  SenderCover(e, g)'
  BY DEF SenderCover

LEMMA TargetsStill ==
    ASSUME NEW e, NEW g, TargetCover(e, g), targets' = targets
    PROVE  TargetCover(e, g)'
  BY DEF TargetCover, Ids

\* An action that moves a run on and changes targets, none of them of another row.
LEMMA CoverMoveTargets ==
    ASSUME TypeInv, NEW e \in Events, NEW g \in Segments, Known(e, g),
           NEW j \in Jobs, NEW STATE r, Step(j, r),
           r = None \/ RunCover(r, e, g, ver, made, unseen, clock, pool),
           UNCHANGED <<client, pool, event, made, put, sender>>, TargetCover(e, g)'
    PROVE  Known(e, g)'
<1>1. Grow /\ ver' = ver /\ clock' = clock /\ unseen' = unseen
  BY Still
<1>2. Uncrossed(e, g)
  BY PoolStays DEF Known
<1>3. JobCover(e, g)'
  BY <1>1, <1>2, JobMoves DEF Known
<1>4. TableCover(e, g)' /\ SenderCover(e, g)'
  BY <1>1, TableStill, SendersStill DEF Known
<1>5. QED
  BY <1>3, <1>4 DEF Known

\* An action that only moves a run on.
LEMMA CoverMove ==
    ASSUME TypeInv, NEW e \in Events, NEW g \in Segments, Known(e, g),
           NEW j \in Jobs, NEW STATE r, Step(j, r),
           r = None \/ RunCover(r, e, g, ver, made, unseen, clock, pool),
           UNCHANGED <<client, way, store, puts, sender>>
    PROVE  Known(e, g)'
<1>1. UNCHANGED <<client, pool, event, made, put, sender>> /\ targets' = targets
  BY DEF way, store, puts
<1>2. TargetCover(e, g)'
  BY <1>1, TargetsStill DEF Known
<1>3. QED
  BY <1>1, <1>2, CoverMoveTargets

LEMMA CoverHere ==
    ASSUME TypeInv, NEW e, NEW g, Known(e, g), NEW j \in Jobs, job[j] # None
    PROVE  /\ RunGood(job[j], Ids) /\ job[j] \in RunShape
           /\ RunCover(job[j], e, g, ver, made, unseen, clock, pool)
           /\ AtEvent(job[j], e) => EventCover(job[j], e, g, ver, made, unseen, clock, pool)
  BY RunHere DEF Known, JobCover, RunCover

-----------------------------------------------------------------------------
(* What is known of an event, an action at a time.                         *)

LEMMA CoverStart ==
    ASSUME TypeInv, NEW e \in Events, NEW g \in Segments, Known(e, g), NEW j \in Jobs, AutoStart(j)
    PROVE  Known(e, g)'
<1>1. PICK r \in Onward({x \in Events : event[x].live}, event) : Go(j, r)
  BY DEF AutoStart
<1>2. r = None \/ RunCover(r, e, g, ver, made, unseen, clock, pool)
  BY <1>1, OnwardCover DEF Known, TableCover
<1>3. QED
  BY <1>1, <1>2, StepsAre, CoverMove DEF AutoStart

LEMMA CoverContent ==
    ASSUME TypeInv, NEW e \in Events, NEW g \in Segments, Known(e, g), NEW j \in Jobs,
           NEW x \in Events, NEW h \in Segments, ContentRequest(j, x, h)
    PROVE  Known(e, g)'
<1> DEFINE r == Run("content", "query", x, {}, event, h, "now")
<1>1. RunCover(r, e, g, ver, made, unseen, clock, pool)
  BY DEF RunCover, AtEvent, Run, Known, TableCover
<1>2. Go(j, r)
  BY DEF ContentRequest
<1> HIDE DEF r
<1>3. QED
  BY <1>1, <1>2, StepsAre, CoverMove DEF ContentRequest

LEMMA CoverReserveRequest ==
    ASSUME TypeInv, NEW e \in Events, NEW g \in Segments, Known(e, g), NEW j \in Jobs,
           NEW h \in Segments, NEW k \in Kinds, ReserveRequest(j, h, k)
    PROVE  Known(e, g)'
<1> DEFINE r == Run("reserve", "query", None, {}, event, h, k)
<1>1. PICK ids \in SUBSET Ids : Go(j, [r EXCEPT !.ids = ids])
  BY DEF ReserveRequest
<1> DEFINE q == [r EXCEPT !.ids = ids]
<1>2. q.mode = "reserve" /\ q.at = "query" /\ q.list = event
  BY DEF Run
<1>3. Go(j, q)
  BY <1>1
<1> HIDE DEF q
<1>4. RunCover(q, e, g, ver, made, unseen, clock, pool)
  BY <1>2 DEF RunCover, AtEvent, Known, TableCover
<1>5. QED
  BY <1>3, <1>4, StepsAre, CoverMove DEF ReserveRequest

LEMMA CoverFind ==
    ASSUME TypeInv, NEW e \in Events, NEW g \in Segments, Known(e, g), NEW j \in Jobs, FindEvent(j)
    PROVE  Known(e, g)'
<1> DEFINE run == job[j]
           row == event[run.ev]
           q == [run EXCEPT !.at = "save", !.copy = row]
<1>1. /\ run \in RunShape /\ RunCover(run, e, g, ver, made, unseen, clock, pool) /\ run.at = "find"
      /\ RowCover(event[e], e, g, ver, made, unseen, clock)
  BY CoverHere DEF FindEvent, At, Known, TableCover
<1>2. Throw(j) \/ Go(j, q)
  BY DEF FindEvent
<1>3. /\ q.at = "save" /\ q.copy = row /\ q.mode = run.mode /\ q.ev = run.ev /\ q.seg = run.seg
      /\ q.list = run.list /\ q.value = run.value /\ q.then = run.then
  BY <1>1 DEF RunShape
<1>4. AtEvent(run, e) => RowCover(row, e, g, ver, made, unseen, clock)
  BY <1>1 DEF AtEvent
<1> HIDE DEF q, row, run
<1>5. RunCover(q, e, g, ver, made, unseen, clock, pool)
  BY <1>1, <1>3, <1>4 DEF RunCover, EventCover, AtEvent, Storing
<1>6. QED
  BY <1>2, <1>5, StepsAre, CoverMove DEF FindEvent

LEMMA CoverSegment ==
    ASSUME TypeInv, NEW e \in Events, NEW g \in Segments, Known(e, g), NEW j \in Jobs, ReadSegment(j)
    PROVE  Known(e, g)'
<1> DEFINE run == job[j]
           then == IF segment[job[j].seg] = "filtered" THEN "query" ELSE "next"
           q == [run EXCEPT !.at = "connect", !.then = then]
<1>1. run \in RunShape /\ RunCover(run, e, g, ver, made, unseen, clock, pool) /\ run.at = "segment"
  BY CoverHere DEF ReadSegment, At
<1>2. Throw(j) \/ Go(j, q)
  BY DEF ReadSegment
<1>3. then \in {"query", "next"}
  OBVIOUS
<1> HIDE DEF run, then
<1>4. /\ q.at = "connect" /\ q.then = then /\ q.mode = run.mode /\ q.ev = run.ev /\ q.seg = run.seg
      /\ q.list = run.list /\ q.value = run.value
  BY <1>1 DEF RunShape
<1> HIDE DEF q
<1>5. RunCover(q, e, g, ver, made, unseen, clock, pool)
  BY <1>1, <1>3, <1>4 DEF RunCover, EventCover, AtEvent, Storing
<1>6. QED
  BY <1>2, <1>5, StepsAre, CoverMove DEF ReadSegment

LEMMA CoverQuery ==
    ASSUME TypeInv, NEW e \in Events, NEW g \in Segments, Known(e, g), NEW j \in Jobs, Query(j)
    PROVE  Known(e, g)'
<1> DEFINE run == job[j]
           rows == {<<r, ver[r]>> : r \in {x \in Rows : RowDb[x] = pool}}
           q == [run EXCEPT !.at = "answer", !.rows = rows]
<1>1. run \in RunShape /\ RunCover(run, e, g, ver, made, unseen, clock, pool) /\ run.at = "query"
  BY CoverHere DEF Query, At
<1>2. Throw(j) \/ Go(j, q)
  BY DEF Query
<1>3. /\ \A x \in rows : RowDb[x[1]] = pool
      /\ \A r \in Rows : RowDb[r] = pool => <<r, ver[r]>> \in rows
  OBVIOUS
<1> HIDE DEF run, rows
<1>4. /\ q.at = "answer" /\ q.rows = rows /\ q.mode = run.mode /\ q.ev = run.ev /\ q.seg = run.seg
      /\ q.list = run.list /\ q.value = run.value
  BY <1>1 DEF RunShape
<1> HIDE DEF q
<1>5. AtEvent(run, e) => Fresh(q, g, ver, unseen)
  BY <1>1, <1>3, <1>4 DEF RunCover, EventCover, Fresh
<1>6. RunCover(q, e, g, ver, made, unseen, clock, pool)
  BY <1>1, <1>4, <1>5 DEF RunCover, EventCover, AtEvent, Storing
<1>7. QED
  BY <1>2, <1>6, StepsAre, CoverMove DEF Query

LEMMA CoverNumbers ==
    ASSUME TypeInv, NEW e \in Events, NEW g \in Segments, Known(e, g), NEW j \in Jobs, ReadNumbers(j)
    PROVE  Known(e, g)'
<1> DEFINE run == job[j]
<1>1. RunGood(run, Ids) /\ RunCover(run, e, g, ver, made, unseen, clock, pool) /\ run.at = "numbers"
  BY CoverHere DEF ReadNumbers, At
<1>2. PICK f \in IdMaps :
         Go(j, Scheduled([run EXCEPT !.at = "schedule", !.left = run.rows, !.idOf = f]))
  BY NumberMaps
<1> DEFINE q == [run EXCEPT !.at = "schedule", !.left = run.rows, !.idOf = f]
<1>3. Go(j, Scheduled(q))
  BY <1>2
<1> HIDE DEF run
<1>4. /\ q \in RunShape /\ q.at = "schedule" /\ q.mode = run.mode /\ q.ev = run.ev
      /\ q.seg = run.seg /\ q.list = run.list /\ q.value = run.value
  BY <1>1 DEF RunGood, RunShape, Stages
<1> HIDE DEF q
<1>5. RunCover(q, e, g, ver, made, unseen, clock, pool)
  BY <1>1, <1>4 DEF RunCover, EventCover, AtEvent, Storing
<1>6. Scheduled(q) = None \/ RunCover(Scheduled(q), e, g, ver, made, unseen, clock, pool)
  BY <1>4, <1>5, ScheduledCover
<1>7. QED
  BY <1>3, <1>6, StepsAre, CoverMove DEF ReadNumbers

LEMMA CoverAnswer ==
    ASSUME TypeInv, NEW e \in Events, NEW g \in Segments, Known(e, g), NEW j \in Jobs, Answer(j)
    PROVE  Known(e, g)'
<1> DEFINE run == job[j]
           kept == IF run.mode = "auto" THEN {x \in run.rows : ChangedSince(x[2], run.list[run.ev].last)}
                                        ELSE run.rows
           a == [run EXCEPT !.at = "numbers"]
           b == [run EXCEPT !.at = "insert", !.rows = kept,
                            !.left = Numbered(kept), !.value = clock + 1]
           old == run.list[e].last
<1>1. /\ RunGood(run, Ids) /\ run \in RunShape /\ RunCover(run, e, g, ver, made, unseen, clock, pool)
      /\ run.at = "answer" /\ (AtEvent(run, e) => Fresh(run, g, ver, unseen))
  BY CoverHere DEF Answer, At, EventCover
<1>2. IF run.mode = "reserve" THEN Go(j, a) ELSE Go(j, Inserted(b))
  BY DEF Answer
<1>3. clock \in Nat /\ clock + 1 \in Times /\ \A r \in Rows : ver[r] \in Nat
  BY BoundsAssumption DEF TypeInv, ClientTypes, Times
<1>4. /\ kept \subseteq run.rows /\ Numbered(kept) \subseteq kept
      /\ AtEvent(run, e) =>
            \A x \in run.rows : Number[x[1]] # None => x \in Numbered(kept) \/ ~ChangedSince(x[2], old)
  BY DEF Numbered, AtEvent
<1>5. /\ old \in Times \cup {None}
      /\ old # None => CoveredBy(e, g, old, ver, made, unseen)
  BY <1>1 DEF RunCover, RowCover, RunShape, Lists, EventRecords
<1> HIDE DEF run, kept, old
<1>6. CASE run.mode = "reserve"
  <2>1. /\ a.at = "numbers" /\ a.mode = run.mode /\ a.list = run.list
    BY <1>1 DEF RunShape
  <2> HIDE DEF a
  <2>2. RunCover(a, e, g, ver, made, unseen, clock, pool)
    BY <1>1, <1>6, <2>1 DEF RunCover, AtEvent
  <2>3. QED
    BY <1>2, <1>6, <2>2, StepsAre, CoverMove DEF Answer
<1>7. CASE run.mode # "reserve"
  <2>1. /\ b \in RunShape /\ b.at = "insert" /\ b.left = Numbered(kept) /\ b.value = clock + 1
        /\ b.mode = run.mode /\ b.ev = run.ev /\ b.seg = run.seg /\ b.list = run.list
    BY <1>1, <1>3, <1>4 DEF RunShape, Stages
  <2> HIDE DEF b
  <2>2. ASSUME AtEvent(run, e) PROVE Pending(b, e, g, ver, made, unseen)
    <3>1. ASSUME NEW r \in Rows, RowDb[r] = SegDb[g], Number[r] # None
          PROVE  \/ <<e, r, ver[r]>> \in made
                 \/ <<r, ver[r]>> \in unseen \cup Numbered(kept)
      <4>1. CASE <<r, ver[r]>> \in unseen
        BY <4>1
      <4>2. CASE <<r, ver[r]>> \notin unseen
        <5>1. <<r, ver[r]>> \in run.rows
          BY <1>1, <2>2, <3>1, <4>2 DEF Fresh
        <5>2. CASE ChangedSince(ver[r], old)
          BY <1>4, <2>2, <3>1, <5>1, <5>2
        <5>3. CASE ~ChangedSince(ver[r], old)
          <6>1. old # None /\ ver[r] < old
            BY <1>3, <1>5, <5>3, BoundsAssumption DEF ChangedSince, Times
          <6>2. QED
            BY <1>5, <3>1, <6>1 DEF CoveredBy
        <5>4. QED
          BY <5>2, <5>3
      <4>3. QED
        BY <4>1, <4>2
    <3>2. \A x \in Numbered(kept) : RowDb[x[1]] = SegDb[g]
      BY <1>1, <1>4, <2>2 DEF Fresh
    <3>3. QED
      BY <2>1, <3>1, <3>2 DEF Pending
  <2>3. RunCover(b, e, g, ver, made, unseen, clock, pool)
    BY <1>1, <1>3, <2>1, <2>2 DEF RunCover, EventCover, AtEvent, Storing
  <2>4. Placed(b.mode, b.at)
    BY <1>1, <1>7, <2>1 DEF RunGood, Placed
  <2>5. Inserted(b) = None \/ RunCover(Inserted(b), e, g, ver, made, unseen, clock, pool)
    BY <2>1, <2>3, <2>4, InsertedCover
  <2>6. QED
    BY <1>2, <1>7, <2>5, StepsAre, CoverMove DEF Answer
<1>8. QED
  BY <1>6, <1>7

LEMMA CoverFindReserved ==
    ASSUME TypeInv, NEW e \in Events, NEW g \in Segments, Known(e, g), NEW j \in Jobs, FindReserved(j)
    PROVE  Known(e, g)'
<1> DEFINE run == job[j]
<1>1. RunGood(run, Ids) /\ RunCover(run, e, g, ver, made, unseen, clock, pool) /\ run.at = "schedule"
  BY CoverHere DEF FindReserved, At
<1>2. PICK p \in run.left :
         \/ /\ Number[p[1]] \in DOMAIN run.idOf
            /\ Go(j, [run EXCEPT !.at = "reserve", !.left = @ \ {p}, !.row = p[1],
                                 !.source = targets[run.idOf[Number[p[1]]]]])
         \/ Throw(j)
         \/ Go(j, Scheduled([run EXCEPT !.left = @ \ {p}]))
  BY DEF FindReserved
<1> DEFINE i == run.idOf[Number[p[1]]]
           a == [run EXCEPT !.at = "reserve", !.left = @ \ {p}, !.row = p[1], !.source = targets[i]]
           b == [run EXCEPT !.left = @ \ {p}]
<1>3. ASSUME Number[p[1]] \in DOMAIN run.idOf, Go(j, a) PROVE Known(e, g)'
  <2>1. OwnRow(targets[i], e, g)
    BY <1>1, <1>3 DEF RunGood, Known, TargetCover
  <2>2. Go(j, a)
    BY <1>3
  <2> HIDE DEF run, i
  <2>3. /\ a.at = "reserve" /\ a.source = targets[i] /\ a.mode = run.mode /\ a.ev = run.ev
        /\ a.seg = run.seg /\ a.list = run.list /\ a.value = run.value
    BY <1>1 DEF RunGood, RunShape
  <2> HIDE DEF a
  <2>4. RunCover(a, e, g, ver, made, unseen, clock, pool)
    BY <1>1, <2>1, <2>3 DEF RunCover, EventCover, AtEvent, Storing
  <2>5. QED
    BY <2>2, <2>4, StepsAre, CoverMove DEF FindReserved
<1>4. ASSUME Go(j, Scheduled(b)) PROVE Known(e, g)'
  <2>1. Go(j, Scheduled(b))
    BY <1>4
  <2> HIDE DEF run
  <2>2. /\ b \in RunShape /\ b.at = "schedule" /\ b.mode = run.mode /\ b.ev = run.ev
        /\ b.seg = run.seg /\ b.list = run.list /\ b.value = run.value
    BY <1>1 DEF RunGood, RunShape
  <2> HIDE DEF b
  <2>3. RunCover(b, e, g, ver, made, unseen, clock, pool)
    BY <1>1, <2>2 DEF RunCover, EventCover, AtEvent, Storing
  <2>4. Scheduled(b) = None \/ RunCover(Scheduled(b), e, g, ver, made, unseen, clock, pool)
    BY <2>2, <2>3, ScheduledCover
  <2>5. QED
    BY <2>1, <2>4, StepsAre, CoverMove DEF FindReserved
<1>5. CASE Throw(j)
  BY <1>5, StepsAre, CoverMove DEF FindReserved
<1>6. QED
  BY <1>2, <1>3, <1>4, <1>5

LEMMA CoverRecurring ==
    ASSUME TypeInv, NEW e \in Events, NEW g \in Segments, Known(e, g), NEW j \in Jobs, ReserveRecurring(j)
    PROVE  Known(e, g)'
<1> DEFINE run == job[j]
<1>1. RunGood(run, Ids) /\ RunCover(run, e, g, ver, made, unseen, clock, pool) /\ run.at = "schedule"
  BY CoverHere DEF ReserveRecurring, At
<1>2. PICK x \in run.left :
         \/ \E i \in FoundFor(run, Number[x[1]]), n \in ReservationDates :
               Go(j, [run EXCEPT !.at = "copy", !.left = @ \ {x}, !.row = x[1],
                                 !.source = targets[i], !.copies = n])
         \/ Throw(j)
  BY DEF ReserveRecurring
<1>3. ASSUME NEW i \in FoundFor(run, Number[x[1]]), NEW n \in ReservationDates,
             Go(j, [run EXCEPT !.at = "copy", !.left = @ \ {x}, !.row = x[1],
                               !.source = targets[i], !.copies = n])
      PROVE  Known(e, g)'
  <2> DEFINE q == [run EXCEPT !.at = "copy", !.left = @ \ {x}, !.row = x[1],
                              !.source = targets[i], !.copies = n]
  <2>1. OwnRow(targets[i], e, g)
    BY <1>1 DEF FoundFor, RunGood, Known, TargetCover
  <2>2. Go(j, q)
    BY <1>3
  <2> HIDE DEF run
  <2>3. /\ q.at = "copy" /\ q.source = targets[i] /\ q.value = run.value /\ q.seg = run.seg
        /\ q.mode = run.mode /\ q.ev = run.ev /\ q.list = run.list
    BY <1>1 DEF RunGood, RunShape
  <2> HIDE DEF q
  <2>4. RunCover(q, e, g, ver, made, unseen, clock, pool)
    BY <1>1, <2>1, <2>3 DEF RunCover, EventCover, AtEvent, Storing
  <2>5. QED
    BY <2>2, <2>4, StepsAre, CoverMove DEF ReserveRecurring
<1>4. CASE Throw(j)
  BY <1>4, StepsAre, CoverMove DEF ReserveRecurring
<1>5. QED
  BY <1>2, <1>3, <1>4

LEMMA CoverStamp ==
    ASSUME TypeInv, NEW e \in Events, NEW g \in Segments, Known(e, g), NEW j \in Jobs, Stamp(j)
    PROVE  Known(e, g)'
<1> DEFINE run == job[j]
<1>1. run \in RunShape /\ RunCover(run, e, g, ver, made, unseen, clock, pool) /\ run.at = "stamp"
  BY CoverHere DEF Stamp, At
<1>2. CASE \E r \in Onward(run.todo, run.list) : Go(j, r)
  <2>1. PICK r \in Onward(run.todo, run.list) : Go(j, r)
    BY <1>2
  <2>2. r = None \/ RunCover(r, e, g, ver, made, unseen, clock, pool)
    BY <1>1, OnwardCover DEF RunCover
  <2>3. QED
    BY <2>1, <2>2, StepsAre, CoverMove DEF Stamp
<1>3. ASSUME NEW i \in run.ids, Go(j, [run EXCEPT !.at = "find", !.then = "stamp", !.ids = @ \ {i}])
      PROVE  Known(e, g)'
  <2> DEFINE q == [run EXCEPT !.at = "find", !.then = "stamp", !.ids = @ \ {i}]
  <2>1. Go(j, q)
    BY <1>3
  <2> HIDE DEF run
  <2>2. /\ q.at = "find" /\ q.then = "stamp" /\ q.value = run.value /\ q.seg = run.seg
        /\ q.mode = run.mode /\ q.ev = run.ev /\ q.list = run.list
    BY <1>1 DEF RunShape
  <2> HIDE DEF q
  <2>3. RunCover(q, e, g, ver, made, unseen, clock, pool)
    BY <1>1, <2>2 DEF RunCover, EventCover, AtEvent, Storing
  <2>4. QED
    BY <2>1, <2>3, StepsAre, CoverMove DEF Stamp
<1>4. CASE Throw(j)
  BY <1>4, StepsAre, CoverMove DEF Stamp
<1>5. QED
  BY <1>2, <1>3, <1>4 DEF Stamp

LEMMA TargetsKept ==
    ASSUME TypeInv, NEW e, NEW g, TargetCover(e, g), NEW i \in Ids, NEW STATE t, t \in TargetRecords,
           OwnRow(t, e, g), targets' = [targets EXCEPT ![i] = t], handed' = handed,
           unmarked' = unmarked \/ unmarked' = [unmarked EXCEPT ![i] = @ + 1]
    PROVE  TargetCover(e, g)'
<1>1. Ids' = Ids /\ \A k \in Ids : targets'[k] = IF k = i THEN t ELSE targets[k]
  BY TargetChanged DEF TypeInv
<1>2. \A k \in Ids' : OwnRow(targets'[k], e, g)
  BY <1>1 DEF TargetCover
<1>3. QED
  BY <1>2 DEF TargetCover, OwnRow

LEMMA TargetsMore ==
    ASSUME TypeInv, NEW e, NEW g, TargetCover(e, g), NEW STATE t, t \in TargetRecords, OwnRow(t, e, g),
           targets' = Append(targets, t), handed' = Append(handed, 0), unmarked' = Append(unmarked, 0)
    PROVE  TargetCover(e, g)'
<1> DEFINE i == Len(targets) + 1
<1>1. /\ Ids' = Ids \cup {i} /\ targets'[i] = t
      /\ \A k \in Ids : targets'[k] = targets[k]
  BY TargetAppended DEF TypeInv
<1> HIDE DEF i
<1>2. \A k \in Ids' : OwnRow(targets'[k], e, g)
  BY <1>1 DEF TargetCover
<1>3. QED
  BY <1>2 DEF TargetCover, OwnRow

\* Whatever is written over the other columns
LEMMA OwnCopies ==
    ASSUME NEW e, NEW g, NEW t \in TargetRecords, OwnRow(t, e, g)
    PROVE  /\ [t EXCEPT !.reserved = TRUE] \in TargetRecords
           /\ [t EXCEPT !.reserved = TRUE, !.copy = TRUE] \in TargetRecords
           /\ [t EXCEPT !.sent = TRUE] \in TargetRecords
           /\ [t EXCEPT !.live = FALSE] \in TargetRecords
           /\ OwnRow([t EXCEPT !.reserved = TRUE], e, g)
           /\ OwnRow([t EXCEPT !.reserved = TRUE, !.copy = TRUE], e, g)
           /\ OwnRow([t EXCEPT !.sent = TRUE], e, g)
           /\ OwnRow([t EXCEPT !.live = FALSE], e, g)
  BY DEF OwnRow, TargetRecords

\* A run done with a row, about to look for the next
LEMMA BackToSchedule ==
    ASSUME TypeInv, NEW e \in Events, NEW g \in Segments, Known(e, g), NEW j \in Jobs, job[j] # None,
           job[j].at \in {"reserve", "copy"}
    PROVE  LET q == [job[j] EXCEPT !.at = "schedule", !.row = None, !.source = None]
           IN  Scheduled(q) = None \/ RunCover(Scheduled(q), e, g, ver, made, unseen, clock, pool)
<1> DEFINE run == job[j]
           q == [run EXCEPT !.at = "schedule", !.row = None, !.source = None]
<1>1. run \in RunShape /\ RunCover(run, e, g, ver, made, unseen, clock, pool) /\ run.at \in Storing
  BY CoverHere DEF Storing
<1> HIDE DEF run
<1>2. /\ q \in RunShape /\ q.at = "schedule" /\ q.mode = run.mode /\ q.ev = run.ev
      /\ q.seg = run.seg /\ q.list = run.list /\ q.value = run.value
  BY <1>1 DEF RunShape, Stages
<1> HIDE DEF q
<1>3. RunCover(q, e, g, ver, made, unseen, clock, pool)
  BY <1>1, <1>2 DEF RunCover, EventCover, AtEvent, Storing
<1>4. Scheduled(q) = None \/ RunCover(Scheduled(q), e, g, ver, made, unseen, clock, pool)
  BY <1>2, <1>3, ScheduledCover
<1>5. QED
  BY <1>4 DEF q, run

LEMMA CoverSaveReserved ==
    ASSUME TypeInv, NEW e \in Events, NEW g \in Segments, Known(e, g), NEW j \in Jobs, SaveReserved(j)
    PROVE  Known(e, g)'
<1> DEFINE i == job[j].idOf[Number[job[j].row]]
           t == [job[j].source EXCEPT !.reserved = TRUE]
           q == [job[j] EXCEPT !.at = "schedule", !.row = None, !.source = None]
<1>1. /\ job[j] # None /\ RunGood(job[j], Ids) /\ job[j].at = "reserve"
      /\ RunCover(job[j], e, g, ver, made, unseen, clock, pool)
  BY CoverHere DEF SaveReserved, At
<1>2. i \in Ids /\ t \in TargetRecords /\ OwnRow(t, e, g)
  BY <1>1, OwnCopies DEF RunGood, RunCover
<1>3. Scheduled(q) = None \/ RunCover(Scheduled(q), e, g, ver, made, unseen, clock, pool)
  BY <1>1, BackToSchedule
<1>4. /\ targets' = [targets EXCEPT ![i] = t] /\ Go(j, Scheduled(q))
      /\ unmarked' = unmarked \/ unmarked' = [unmarked EXCEPT ![i] = @ + 1]
      /\ handed' = handed /\ UNCHANGED <<client, pool, event, made, put, sender>>
  BY DEF SaveReserved, way, puts
<1> HIDE DEF i, t, q
<1>5. TargetCover(e, g)'
  BY <1>2, <1>4, TargetsKept DEF Known
<1>6. QED
  BY <1>3, <1>4, <1>5, StepsAre, CoverMoveTargets

LEMMA CoverDelete ==
    ASSUME TypeInv, NEW e \in Events, NEW g \in Segments, Known(e, g), NEW j \in Jobs, DeleteTarget(j)
    PROVE  Known(e, g)'
<1> DEFINE q == [job[j] EXCEPT !.at = "schedule", !.row = None, !.source = None]
           n == Number[job[j].row]
<1>1. job[j] # None /\ RunGood(job[j], Ids) /\ job[j].at = "copy"
  BY CoverHere DEF DeleteTarget, At
<1>2. Scheduled(q) = None \/ RunCover(Scheduled(q), e, g, ver, made, unseen, clock, pool)
  BY <1>1, BackToSchedule
<1>3. \/ \E i \in FoundFor(job[j], n) :
             targets' = [targets EXCEPT ![i].live = FALSE] /\ Go(j, Scheduled(q))
      \/ Throw(j) /\ UNCHANGED targets
  BY DEF DeleteTarget
<1> HIDE DEF q, n
<1>4. UNCHANGED <<client, pool, event, made, put, sender, handed, unmarked>>
  BY DEF DeleteTarget, way, puts, sends
<1>5. ASSUME NEW i \in FoundFor(job[j], n), targets' = [targets EXCEPT ![i].live = FALSE]
      PROVE  TargetCover(e, g)'
  <2> DEFINE t == [targets[i] EXCEPT !.live = FALSE]
  <2>1. i \in Ids
    BY <1>1 DEF FoundFor, RunGood
  <2>2. t \in TargetRecords /\ targets' = [targets EXCEPT ![i] = t] /\ OwnRow(t, e, g)
    BY <1>5, <2>1, TargetHere, OwnCopies DEF Known, TargetCover
  <2> HIDE DEF t
  <2>3. QED
    BY <1>4, <2>1, <2>2, TargetsKept DEF Known
<1>6. UNCHANGED targets => TargetCover(e, g)'
  BY TargetsStill DEF Known
<1>7. QED
  BY <1>2, <1>3, <1>4, <1>5, <1>6, StepsAre, CoverMoveTargets

LEMMA CoverCopy ==
    ASSUME TypeInv, NEW e \in Events, NEW g \in Segments, Known(e, g), NEW j \in Jobs, CopyTarget(j)
    PROVE  Known(e, g)'
<1> DEFINE run == job[j]
           t == [run.source EXCEPT !.reserved = TRUE, !.copy = TRUE]
           q == [run EXCEPT !.copies = @ - 1]
<1>1. RunGood(run, Ids) /\ RunCover(run, e, g, ver, made, unseen, clock, pool) /\ run.at = "copy"
  BY CoverHere DEF CopyTarget, At
<1>2. /\ targets' = Append(targets, t) /\ handed' = Append(handed, 0)
      /\ unmarked' = Append(unmarked, 0) /\ Go(j, q)
      /\ UNCHANGED <<client, pool, event, made, put, sender>>
  BY DEF CopyTarget, way, puts
<1> HIDE DEF run
<1>3. t \in TargetRecords /\ OwnRow(t, e, g)
  BY <1>1, OwnCopies DEF RunGood, RunCover
<1>4. /\ q.at = "copy" /\ q.source = run.source /\ q.value = run.value /\ q.seg = run.seg
      /\ q.mode = run.mode /\ q.ev = run.ev /\ q.list = run.list
  BY <1>1 DEF RunGood, RunShape
<1> HIDE DEF t, q
<1>5. RunCover(q, e, g, ver, made, unseen, clock, pool)
  BY <1>1, <1>4 DEF RunCover, EventCover, AtEvent, Storing
<1>6. TargetCover(e, g)'
  BY <1>2, <1>3, TargetsMore DEF Known
<1>7. QED
  BY <1>2, <1>5, <1>6, StepsAre, CoverMoveTargets

LEMMA CoverTarget ==
    ASSUME TypeInv, NEW e \in Events, NEW g \in Segments, Known(e, g), NEW j \in Jobs, SaveTarget(j)
    PROVE  Known(e, g)'
<1> DEFINE run == job[j]
           i == Len(targets) + 1
<1>1. /\ RunGood(run, Ids) /\ RunCover(run, e, g, ver, made, unseen, clock, pool)
      /\ run.at = "insert" /\ (AtEvent(run, e) => Pending(run, e, g, ver, made, unseen))
  BY CoverHere DEF SaveTarget, At, EventCover
<1>2. PICK x \in run.left :
          /\ targets' = Append(targets, Target(run.ev, x, run.mode = "auto"))
          /\ handed' = Append(handed, 0) /\ unmarked' = Append(unmarked, 0)
          /\ made' = made \cup {<<run.ev, x[1], x[2]>>}
          /\ Go(j, Inserted([run EXCEPT !.left = @ \ {x}, !.ids = @ \cup {i}]))
  BY DEF SaveTarget
<1> DEFINE t == Target(run.ev, x, run.mode = "auto")
           q == [run EXCEPT !.left = @ \ {x}, !.ids = @ \cup {i}]
<1>3. i \in Nat
  BY IdsAre DEF TypeInv
<1>4. x \in Versions /\ run.ev \in Events
  BY <1>1 DEF RunGood, RunShape, Placed
<1>5. Grow /\ UNCHANGED <<ver, clock, unseen, pool, event, put, sender>>
  <2>1. UNCHANGED client /\ made \subseteq made' /\ UNCHANGED <<pool, event, put, sender>>
    BY <1>2 DEF SaveTarget, way, puts
  <2>2. QED
    BY <2>1, Still
<1>6. t \in TargetRecords /\ OwnRow(t, e, g)
  <2>1. t.auto /\ t.event = e => AtEvent(run, e)
    BY <1>1 DEF Target, AtEvent
  <2>2. t.row = x[1]
    BY DEF Target
  <2>3. OwnRow(t, e, g)
    BY <1>1, <2>1, <2>2 DEF OwnRow, Pending
  <2>4. t \in TargetRecords
    BY <1>1, <1>4 DEF Target, TargetRecords, Versions
  <2>5. QED
    BY <2>3, <2>4
<1>7. TargetCover(e, g)'
  <2> HIDE DEF t
  <2>1. QED
    BY <1>2, <1>6, TargetsMore DEF Known, t
<1>8. JobCover(e, g) /\ Uncrossed(e, g)
  BY <1>5, PoolStays DEF Known
<1> HIDE DEF run, i, t
<1>9. /\ q \in RunShape /\ q.at = "insert" /\ q.left = run.left \ {x} /\ q.value = run.value
      /\ q.mode = run.mode /\ q.ev = run.ev /\ q.seg = run.seg /\ q.list = run.list
  BY <1>1, <1>3 DEF RunGood, RunShape
<1> HIDE DEF q
<1>10. RunCover(run, e, g, ver, made', unseen, clock, pool)
  BY <1>1, <1>5, RunKept
<1>11. ASSUME AtEvent(run, e) PROVE Pending(q, e, g, ver, made', unseen)
  <2>1. Pending(run, e, g, ver, made', unseen)
    BY <1>1, <1>10, <1>11 DEF RunCover, EventCover
  <2>2. ASSUME NEW r \in Rows, <<r, ver[r]>> = x
        PROVE  <<e, r, ver[r]>> \in made'
    BY <1>2, <1>11, <2>2 DEF AtEvent
  <2>3. QED
    BY <1>9, <2>1, <2>2 DEF Pending
<1>12. RunCover(q, e, g, ver, made', unseen, clock, pool)
  BY <1>1, <1>9, <1>10, <1>11 DEF RunCover, EventCover, AtEvent, Storing
<1>13. Placed(q.mode, q.at)
  BY <1>1, <1>9 DEF RunGood
<1>14. Inserted(q) = None \/ RunCover(Inserted(q), e, g, ver, made', unseen, clock, pool)
  BY <1>9, <1>12, <1>13, InsertedCover
<1>15. Step(j, Inserted(q))
  BY <1>2, StepsAre DEF q
<1>16. JobCover(e, g)'
  BY <1>5, <1>8, <1>14, <1>15, JobMoves
<1>17. TableCover(e, g)' /\ SenderCover(e, g)'
  BY <1>5, TableStill, SendersStill DEF Known
<1>18. QED
  BY <1>7, <1>16, <1>17 DEF Known

\* A run of the cron that has done with the event at hand, or with a detour
LEMMA ResumeCover ==
    ASSUME TypeInv, NEW e \in Events, NEW g \in Segments, NEW run \in RunShape, NEW p,
           RunCover(run, e, g, ver, made, unseen, clock, pool), run.at \in {"save", "connect"},
           AtEvent(run, e) /\ run.at = "connect" => p = SegDb[g], NEW r \in Resume(run)
    PROVE  r = None \/ RunCover(r, e, g, ver, made, unseen, clock, p)
<1>1. CASE run.then = "next"
  BY <1>1, OnwardCover DEF Resume, RunCover
<1>2. CASE run.then # "next"
  <2>1. r = [run EXCEPT !.at = run.then, !.copy = None]
    BY <1>2 DEF Resume
  <2>2. /\ r.at = run.then /\ r.value = run.value /\ r.list = run.list /\ r.mode = run.mode
        /\ r.ev = run.ev /\ r.seg = run.seg /\ run.then \in {"segment", "query", "stamp"}
    BY <1>2, <2>1 DEF RunShape
  <2>3. QED
    BY <1>2, <2>2 DEF RunCover, EventCover, AtEvent, Storing
<1>3. QED
  BY <1>1, <1>2

LEMMA CoverSave ==
    ASSUME TypeInv, NEW e \in Events, NEW g \in Segments, Known(e, g), NEW j \in Jobs, SaveEvent(j)
    PROVE  Known(e, g)'
<1> DEFINE run == job[j]
           row == [run.copy EXCEPT !.last = run.value]
<1>1. /\ run \in RunShape /\ RunCover(run, e, g, ver, made, unseen, clock, pool) /\ run.at = "save"
      /\ run.mode = "auto" /\ run.copy \in EventRecords
      /\ (AtEvent(run, e) => EventCover(run, e, g, ver, made, unseen, clock, pool))
  BY CoverHere, RunHere DEF SaveEvent, At, RunGood
<1>2. Grow /\ UNCHANGED <<ver, clock, unseen, made, pool, targets, put, sender>>
  <2>1. UNCHANGED client /\ UNCHANGED <<pool, targets, put, made, sender>>
    BY DEF SaveEvent, way, puts
  <2>2. QED
    BY <2>1, Still
<1>3. PICK r \in Resume(run) : Go(j, r)
  BY DEF SaveEvent
<1>4. r = None \/ RunCover(r, e, g, ver, made, unseen, clock, pool)
  BY <1>1, <1>3, ResumeCover
<1>5. JobCover(e, g) /\ Uncrossed(e, g) /\ Step(j, r)
  BY <1>2, <1>3, StepsAre, PoolStays DEF Known
<1>6. JobCover(e, g)'
  BY <1>2, <1>4, <1>5, JobMoves
<1>7. TableCover(e, g)'
  <2>1. event \in Lists /\ event' = [event EXCEPT ![run.ev] = row]
    BY DEF TypeInv, EventTypes, SaveEvent
  <2>2. row.last = run.value /\ row.seg = run.copy.seg
    BY <1>1 DEF EventRecords
  <2>3. AtEvent(run, e) => RowCover(row, e, g, ver, made, unseen, clock)
    BY <1>1, <2>2 DEF EventCover, RowCover, Storing
  <2>4. run.ev = e => event'[e] = row
    BY <2>1 DEF Lists
  <2>5. run.ev # e => event'[e] = event[e]
    BY <2>1 DEF Lists
  <2> HIDE DEF row, run
  <2>6. RowCover(event'[e], e, g, ver, made, unseen, clock)
    BY <1>1, <2>3, <2>4, <2>5 DEF AtEvent, Known, TableCover
  <2>7. QED
    BY <1>2, <2>6 DEF Known, TableCover
<1>8. TargetCover(e, g)' /\ SenderCover(e, g)'
  BY <1>2, TargetsStill, SendersStill DEF Known
<1>9. QED
  BY <1>6, <1>7, <1>8 DEF Known

LEMMA CoverConnect ==
    ASSUME TypeInv, NEW e \in Events, NEW g \in Segments, Known(e, g), Undisturbed(e)',
           NEW j \in Jobs, Connect(j)
    PROVE  Known(e, g)'
<1> DEFINE run == job[j]
           d == SegDb[run.seg]
<1>1. run \in RunShape /\ RunCover(run, e, g, ver, made, unseen, clock, pool) /\ run.at = "connect"
  BY CoverHere DEF Connect, At
<1>2. Grow /\ UNCHANGED <<ver, clock, unseen, made, event, targets, put, sender>>
  <2>1. UNCHANGED client /\ UNCHANGED <<event, targets, put, made, sender>>
    BY DEF Connect, store, puts
  <2>2. QED
    BY <2>1, Still
<1>3. pool' = d /\ crossed' = crossed \cup Crossing(d)
  BY DEF Connect, PoolFor
<1>4. AtEvent(run, e) => d = SegDb[g]
  BY <1>1 DEF RunCover, EventCover
<1>5. PICK r \in Resume(run) : Go(j, r)
  BY DEF Connect
<1> HIDE DEF d, run
<1>6. JobCover(e, g) /\ Uncrossed(e, g) /\ Step(j, r)
  BY <1>3, <1>5, StepsAre, NotCrossed DEF Known
<1>7. r = None \/ RunCover(r, e, g, ver, made, unseen, clock, pool')
  BY <1>1, <1>3, <1>4, <1>5, ResumeCover
<1>8. JobCover(e, g)'
  BY <1>2, <1>6, <1>7, JobMoves
<1>9. TableCover(e, g)' /\ TargetCover(e, g)' /\ SenderCover(e, g)'
  BY <1>2, TableStill, TargetsStill, SendersStill DEF Known
<1>10. QED
  BY <1>8, <1>9 DEF Known

LEMMA CoverWork ==
    ASSUME TypeInv, NEW e \in Events, NEW g \in Segments, Known(e, g), Undisturbed(e)',
           NEW j \in Jobs, Work(j)
    PROVE  Known(e, g)'
  BY CoverFind, CoverSave, CoverSegment, CoverConnect, CoverQuery, CoverAnswer, CoverTarget,
     CoverNumbers, CoverFindReserved, CoverSaveReserved, CoverRecurring, CoverCopy, CoverDelete,
     CoverStamp
  DEF Work

\* An action that leaves runs, versions, events and the pool alone.
LEMMA CoverStill ==
    ASSUME TypeInv, NEW e \in Events, NEW g \in Segments, Known(e, g),
           UNCHANGED <<client, pool, event, made, job, put>>, TargetCover(e, g)', SenderCover(e, g)'
    PROVE  Known(e, g)'
<1>1. Grow /\ ver' = ver
  BY Still
<1>2. Uncrossed(e, g)
  BY PoolStays DEF Known
<1>3. JobCover(e, g)' /\ TableCover(e, g)'
  BY <1>1, <1>2, JobsStill, TableStill DEF Known
<1>4. QED
  BY <1>3 DEF Known

LEMMA CoverSender ==
    ASSUME TypeInv, NEW e \in Events, NEW g \in Segments, Known(e, g), NEW s \in Senders,
           SenderStart(s) \/ FindMarked(s) \/ MarkSent(s) \/ Hand(s)
    PROVE  Known(e, g)'
<1>1. UNCHANGED <<client, pool, event, made, job, put>>
  BY DEF SenderStart, FindMarked, MarkSent, Hand, store, way, puts, jobs
<1>2. sender \in [Senders -> {None} \cup SenderRecords]
  BY DEF TypeInv, SenderTypes
<1>3. \A todo : SenderOnward(todo) # None => SenderOnward(todo).copy = None
  BY DEF SenderOnward
<1>4. CASE SenderStart(s) \/ Hand(s)
  <2>1. PICK todo : sender' = [sender EXCEPT ![s] = SenderOnward(todo)]
    BY <1>4 DEF SenderStart, Hand
  <2>2. SenderCover(e, g)'
    BY <1>2, <1>3, <2>1 DEF Known, SenderCover
  <2>3. TargetCover(e, g)'
    BY <1>4, TargetsStill DEF SenderStart, Hand, store, Known
  <2>4. QED
    BY <1>1, <2>2, <2>3, CoverStill
<1>5. CASE FindMarked(s)
  <2>1. PICK i \in sender[s].todo :
           \/ sender' = [sender EXCEPT ![s] = [todo |-> sender[s].todo \ {i}, id |-> i, copy |-> targets[i]]]
           \/ sender' = [sender EXCEPT ![s] = None]
           \/ sender' = [sender EXCEPT ![s] = SenderOnward(sender[s].todo \ {i})]
    BY <1>5 DEF FindMarked
  <2>2. i \in Ids
    BY <1>5, <2>1, SenderHere DEF FindMarked
  <2>3. OwnRow(targets[i], e, g)
    BY <2>2 DEF Known, TargetCover
  <2>4. SenderCover(e, g)'
    BY <1>2, <1>3, <2>1, <2>3 DEF Known, SenderCover
  <2>5. TargetCover(e, g)'
    BY <1>5, TargetsStill DEF FindMarked, store, Known
  <2>6. QED
    BY <1>1, <2>4, <2>5, CoverStill
<1>6. CASE MarkSent(s)
  <2> DEFINE i == sender[s].id
             t == [sender[s].copy EXCEPT !.sent = TRUE]
  <2>1. /\ i \in Ids /\ sender[s].copy \in TargetRecords /\ OwnRow(sender[s].copy, e, g)
        /\ targets' = [targets EXCEPT ![i] = t] /\ handed' = handed /\ unmarked' = unmarked
    BY <1>6, SenderHere DEF MarkSent, sends, Known, SenderCover
  <2>2. t \in TargetRecords /\ OwnRow(t, e, g)
    BY <2>1, OwnCopies
  <2> HIDE DEF i, t
  <2>3. TargetCover(e, g)'
    BY <2>1, <2>2, TargetsKept DEF Known
  <2>4. sender' = [sender EXCEPT ![s] = [sender[s] EXCEPT !.copy = None]] /\ sender[s] \in SenderRecords
    BY <1>6, SenderHere DEF MarkSent
  <2>5. SenderCover(e, g)'
    BY <1>2, <2>4 DEF Known, SenderCover, SenderRecords
  <2>6. QED
    BY <1>1, <2>3, <2>5, CoverStill
<1>7. QED
  BY <1>4, <1>5, <1>6

LEMMA CoverEdit ==
    ASSUME TypeInv, NEW e \in Events, NEW g \in Segments, Known(e, g), NEW r \in Rows, Edit(r)
    PROVE  Known(e, g)'
<1>1. UNCHANGED <<pool, event, targets, made, job, put, sender>>
  BY DEF Edit, store, way, puts, jobs
<1>2. Grow
  BY <1>1 DEF Edit, Grow, TypeInv, ClientTypes
<1>3. ASSUME NEW j \in Jobs, At(j, "answer"), NEW x \in Rows
      PROVE  ver'[x] = ver[x] \/ <<x, ver'[x]>> \in unseen'
  <2>1. ver' = [ver EXCEPT ![r] = clock + 1] /\ unseen' = unseen \cup {<<r, clock + 1>>}
    BY <1>3 DEF Edit
  <2>2. QED
    BY <2>1 DEF TypeInv, ClientTypes
<1>4. Uncrossed(e, g)
  BY <1>1, PoolStays DEF Known
<1>5. JobCover(e, g)'
  BY <1>1, <1>2, <1>3, <1>4, JobsStill DEF Known
<1>6. TableCover(e, g)' /\ TargetCover(e, g)' /\ SenderCover(e, g)'
  BY <1>1, <1>2, TableStill, TargetsStill, SendersStill DEF Known
<1>7. QED
  BY <1>5, <1>6 DEF Known

\* A user changes events or segments.
LEMMA CoverUser ==
    ASSUME TypeInv, NEW e \in Events, NEW g \in Segments, Known(e, g), Undisturbed(e)',
           \/ \E x \in Events : PutRead(x) \/ DeleteEvent(x)
           \/ \E h \in Segments : FilterSegment(h) \/ DeleteSegment(h)
           \/ PutSave
    PROVE  Known(e, g)'
<1>1. UNCHANGED <<client, pool, targets, made, job, sender>>
  BY DEF PutRead, DeleteEvent, FilterSegment, DeleteSegment, PutSave, store, way, jobs
<1>2. Grow /\ ver' = ver /\ clock' = clock /\ unseen' = unseen
  BY <1>1, Still
<1>3. Uncrossed(e, g)
  BY <1>1, PoolStays DEF Known
<1>4. JobCover(e, g)'
  BY <1>1, <1>2, <1>3, JobsStill DEF Known
<1>5. TargetCover(e, g)' /\ SenderCover(e, g)'
  BY <1>1, TargetsStill, SendersStill DEF Known
<1>6. event \in Lists /\ (put # None => put.ev \in Events)
  BY DEF TypeInv, EventTypes
<1>7. TableCover(e, g)'
  <2>1. CASE event' = event /\ (put' = put \/ put' = None)
    BY <1>2, <2>1, TableStill DEF Known
  <2>2. ASSUME NEW x \in Events, PutRead(x) PROVE TableCover(e, g)'
    <3>1. put' = [ev |-> x, row |-> event[x]] /\ event' = event
      BY <2>2 DEF PutRead, store
    <3>2. QED
      BY <1>1, <1>2, <3>1 DEF Known, TableCover
  <2>3. ASSUME NEW x \in Events, DeleteEvent(x) PROVE TableCover(e, g)'
    <3>1. event' = [event EXCEPT ![x] = [event[x] EXCEPT !.live = FALSE]] /\ put' = put
      BY <2>3 DEF DeleteEvent, puts
    <3>2. event[e] \in EventRecords
      BY <1>6 DEF Lists
    <3>3. event'[e].last = event[e].last /\ event'[e].seg = event[e].seg
      BY <1>6, <3>1, <3>2 DEF Lists, EventRecords
    <3>4. QED
      BY <1>1, <1>2, <3>1, <3>3 DEF Known, TableCover, RowCover
  <2>4. CASE PutSave
    <3>1. PICK last \in PutTimes \cup {put.row.last}, h \in Segments, k \in Kinds :
             /\ event' = [event EXCEPT ![put.ev] = [live |-> TRUE, last |-> last, seg |-> h, kind |-> k]]
             /\ retold' = IF last # put.row.last \/ h # put.row.seg
                          THEN retold \cup {put.ev} ELSE retold
      BY <2>4 DEF PutSave
    <3>2. put' = None /\ put # None
      BY <2>4 DEF PutSave
    <3>3. CASE put.ev = e
      <4>1. last = put.row.last /\ h = put.row.seg
        BY <3>1, <3>3 DEF Undisturbed
      <4>2. event'[e].last = put.row.last /\ event'[e].seg = put.row.seg
        BY <1>6, <3>1, <3>3, <4>1 DEF Lists
      <4>3. QED
        BY <1>1, <1>2, <3>2, <3>3, <4>2 DEF Known, TableCover, RowCover
    <3>4. CASE put.ev # e
      <4>1. event'[e] = event[e]
        BY <1>6, <3>1, <3>4 DEF Lists
      <4>2. QED
        BY <1>1, <1>2, <3>2, <4>1 DEF Known, TableCover
    <3>5. QED
      BY <3>3, <3>4
  <2>5. ASSUME NEW h \in Segments, FilterSegment(h) \/ DeleteSegment(h) PROVE TableCover(e, g)'
    BY <2>1, <2>5 DEF FilterSegment, DeleteSegment, store, puts
  <2>6. QED
    BY <2>2, <2>3, <2>4, <2>5
<1>8. QED
  BY <1>4, <1>5, <1>7 DEF Known

LEMMA CoverConnectRequest ==
    ASSUME TypeInv, NEW e \in Events, NEW g \in Segments, Known(e, g), Undisturbed(e)',
           NEW d \in Dbs, ConnectRequest(d)
    PROVE  Known(e, g)'
<1>1. UNCHANGED <<client, event, targets, made, job, put, sender>>
  BY DEF ConnectRequest, store, jobs, puts
<1>2. Grow /\ ver' = ver
  BY <1>1, Still
<1>3. pool' = d /\ crossed' = crossed \cup Crossing(d)
  BY DEF ConnectRequest, PoolFor
<1>4. Uncrossed(e, g)
  BY <1>3, NotCrossed DEF Known
<1>5. JobCover(e, g)'
  BY <1>1, <1>2, <1>4, JobsStill DEF Known
<1>6. TableCover(e, g)' /\ TargetCover(e, g)' /\ SenderCover(e, g)'
  BY <1>1, <1>2, TableStill, TargetsStill, SendersStill DEF Known
<1>7. QED
  BY <1>5, <1>6 DEF Known

LEMMA CoverFailure ==
    ASSUME TypeInv, NEW e \in Events, NEW g \in Segments, Known(e, g), Reject \/ Crash
    PROVE  Known(e, g)'
<1>1. UNCHANGED <<client, event, targets, made>>
  BY DEF Reject, Crash, store
<1>2. Grow /\ ver' = ver /\ clock' = clock /\ unseen' = unseen
  BY <1>1, Still
<1>3. TargetCover(e, g)'
  BY <1>1, TargetsStill DEF Known
<1>4. TableCover(e, g)'
  BY <1>1, <1>2, TableStill DEF Known, Reject, Crash, puts
<1>5. sender \in [Senders -> {None} \cup SenderRecords]
  BY DEF TypeInv, SenderTypes
<1>6. SenderCover(e, g)'
  BY <1>5 DEF Reject, Crash, Known, SenderCover
<1>7. JobCover(e, g)'
  <2>1. CASE Crash
    <3>1. \A j \in Jobs : job'[j] = None
      BY <2>1 DEF Crash
    <3>2. QED
      BY <3>1 DEF JobCover
  <2>2. CASE Reject
    <3>1. Uncrossed(e, g)
      BY <2>2, PoolStays DEF Reject, way, Known
    <3>2. CASE \E j \in Jobs : Go(j, None)
      BY <1>2, <3>1, <3>2, StepsAre, JobMoves DEF Known
    <3>3. CASE UNCHANGED jobs
      BY <1>2, <3>1, <3>3, JobsStill DEF jobs, Known
    <3>4. QED
      BY <2>2, <3>2, <3>3 DEF Reject
  <2>3. QED
    BY <2>1, <2>2
<1>8. QED
  BY <1>3, <1>4, <1>6, <1>7 DEF Known

LEMMA KnownStep ==
    ASSUME TypeInv, NEW e \in Events, NEW g \in Segments, Known(e, g), Undisturbed(e)', [Next]_vars
    PROVE  Known(e, g)'
<1>1. CASE Next
  <2>1. CASE \E j \in Jobs : AutoStart(j) \/ Work(j)
    BY <2>1, CoverStart, CoverWork
  <2>2. CASE \/ \E j \in Jobs, x \in Events, h \in Segments : ContentRequest(j, x, h)
             \/ \E j \in Jobs, h \in Segments, k \in Kinds \ {"now"} : ReserveRequest(j, h, k)
    BY <2>2, CoverContent, CoverReserveRequest
  <2>3. CASE \E s \in Senders : SenderStart(s) \/ FindMarked(s) \/ MarkSent(s) \/ Hand(s)
    BY <2>3, CoverSender
  <2>4. CASE \/ \E r \in Rows : Edit(r)
             \/ \E d \in Dbs : ConnectRequest(d)
             \/ Reject
             \/ Crash
    BY <2>4, CoverEdit, CoverConnectRequest, CoverFailure
  <2>5. CASE \/ \E x \in Events : PutRead(x) \/ DeleteEvent(x)
             \/ \E h \in Segments : FilterSegment(h) \/ DeleteSegment(h)
             \/ PutSave
    BY <2>5, CoverUser
  <2>6. QED
    BY <1>1, <2>1, <2>2, <2>3, <2>4, <2>5 DEF Next
<1>2. CASE UNCHANGED vars
  <2>1. UNCHANGED <<client, pool, event, made, job, put>> /\ targets' = targets /\ sender' = sender
    BY <1>2 DEF vars, store, way, jobs, puts
  <2>2. TargetCover(e, g)' /\ SenderCover(e, g)'
    BY <2>1, TargetsStill, SendersStill DEF Known
  <2>3. QED
    BY <2>1, <2>2, CoverStill
<1>3. QED
  BY <1>1, <1>2

\* Nothing is forgotten: an event that was disturbed stays so.
LEMMA StaysDisturbed ==
    ASSUME [Next]_vars, NEW e, Undisturbed(e)'
    PROVE  Undisturbed(e)
<1>1. crossed \subseteq crossed'
  BY DEF Next, Work, AutoStart, FindEvent, SaveEvent, ReadSegment, Connect, Query, Answer, SaveTarget,
     ReadNumbers, FindReserved, SaveReserved, ReserveRecurring, CopyTarget, DeleteTarget, Stamp,
     ContentRequest, ReserveRequest, SenderStart, FindMarked, MarkSent, Hand, Edit, ConnectRequest,
     PutRead, PutSave, DeleteEvent, FilterSegment, DeleteSegment, Reject, Crash, way, vars
<1>2. retold \subseteq retold'
  BY DEF Next, Work, AutoStart, FindEvent, SaveEvent, ReadSegment, Connect, Query, Answer, SaveTarget,
     ReadNumbers, FindReserved, SaveReserved, ReserveRecurring, CopyTarget, DeleteTarget, Stamp,
     ContentRequest, ReserveRequest, SenderStart, FindMarked, MarkSent, Hand, Edit, ConnectRequest,
     PutRead, PutSave, DeleteEvent, FilterSegment, DeleteSegment, Reject, Crash, puts, vars
<1>3. QED
  BY <1>1, <1>2 DEF Undisturbed

LEMMA CoverHolds == Spec => []CoverInv
<1>1. Init => CoverInv
  BY InitCover
<1>2. TypeInv /\ CoverInv /\ [Next]_vars => CoverInv'
  <2> SUFFICES ASSUME TypeInv, CoverInv, [Next]_vars, NEW e \in Events, Undisturbed(e)'
               PROVE  \E g \in Segments : Known(e, g)'
    BY DEF CoverInv
  <2>1. PICK g \in Segments : Known(e, g)
    BY StaysDisturbed DEF CoverInv
  <2>2. QED
    BY <2>1, KnownStep
<1>3. QED
  BY <1>1, <1>2, TypesHold, PTL DEF Spec

(***************************************************************************)
(* For any databases and any runs and requests that overlap, a run only    *)
(* makes targets of its own client's rows, although connectToPg replaces   *)
(* the one pool of all: unless somebody connects between its own connect   *)
(* and its query, or a user gives the event another segment.               *)
(***************************************************************************)
THEOREM OwnRows == Spec => []OwnRowsOnly
<1>1. TypeInv /\ CoverInv => OwnRowsOnly
  BY CoverImplies
<1>2. QED
  BY <1>1, TypesHold, CoverHolds, PTL

(***************************************************************************)
(* For any runs that overlap, throw or die, and whichever of its old rows  *)
(* was saved back: a change of a client's row that the stored time is past *)
(* became a target of the event, or came while a query was being answered. *)
(* Only a user who gives the event another time or segment, or a connect   *)
(* that crosses a run of it, loses a change.                               *)
(***************************************************************************)
THEOREM UpdatesKept == Spec => []NoUpdateLost
<1>1. TypeInv /\ CoverInv => NoUpdateLost
  BY CoverImplies
<1>2. QED
  BY <1>1, TypesHold, CoverHolds, PTL

-----------------------------------------------------------------------------
(* Runs of sendReservedMessage that do not overlap.                        *)

HandInv ==
    /\ \A i \in Ids : handed[i] <= 1 + unmarked[i] /\ (~targets[i].sent => handed[i] <= unmarked[i])
    /\ \A s \in Senders : sender[s] # None =>
          /\ \A i \in sender[s].todo : handed[i] <= unmarked[i]
          /\ sender[s].id # None =>
                /\ handed[sender[s].id] <= unmarked[sender[s].id] /\ sender[s].id \notin sender[s].todo
                /\ (sender[s].copy = None /\ ~targets[sender[s].id].sent)
                      => handed[sender[s].id] + 1 <= unmarked[sender[s].id]

\* Targets come unhanded, only the sender marks and hands, and taking back a
\* mark is counted.
Unhanded ==
    /\ sender' = sender /\ Ids \subseteq Ids'
    /\ \A i \in Ids : /\ handed'[i] = handed[i]
                      /\ \/ unmarked'[i] = unmarked[i] /\ (targets[i].sent => targets'[i].sent)
                         \/ unmarked'[i] = unmarked[i] + 1
    /\ \A i \in Ids' \ Ids : handed'[i] = 0 /\ unmarked'[i] = 0

LEMMA CountsAre == ASSUME TypeInv, NEW i \in Ids PROVE handed[i] \in Nat /\ unmarked[i] \in Nat
  BY DEF TypeInv, TargetTypes, Ids

LEMMA AppendedUnhanded ==
    ASSUME TypeInv, NEW STATE t, t \in TargetRecords, sender' = sender,
           targets' = Append(targets, t), handed' = Append(handed, 0), unmarked' = Append(unmarked, 0)
    PROVE  Unhanded
<1> DEFINE i == Len(targets) + 1
<1>1. /\ Ids' = Ids \cup {i} /\ handed'[i] = 0 /\ unmarked'[i] = 0
      /\ \A k \in Ids : targets'[k] = targets[k] /\ handed'[k] = handed[k] /\ unmarked'[k] = unmarked[k]
  BY TargetAppended DEF TypeInv
<1> HIDE DEF i
<1>2. QED
  BY <1>1 DEF Unhanded

LEMMA ChangedUnhanded ==
    ASSUME TypeInv, NEW i \in Ids, NEW STATE t, t \in TargetRecords, sender' = sender, handed' = handed,
           targets' = [targets EXCEPT ![i] = t],
           \/ unmarked' = unmarked /\ (targets[i].sent => t.sent)
           \/ unmarked' = [unmarked EXCEPT ![i] = @ + 1]
    PROVE  Unhanded
<1>1. Ids' = Ids /\ \A k \in Ids : targets'[k] = IF k = i THEN t ELSE targets[k]
  BY TargetChanged DEF TypeInv
<1>2. \A k \in Ids : k \in DOMAIN unmarked
  BY DEF TypeInv, TargetTypes, Ids
<1>3. CASE unmarked' = unmarked /\ (targets[i].sent => t.sent)
  BY <1>1, <1>3 DEF Unhanded
<1>4. CASE unmarked' = [unmarked EXCEPT ![i] = @ + 1]
  <2>1. \A k \in Ids : unmarked'[k] = IF k = i THEN unmarked[i] + 1 ELSE unmarked[k]
    BY <1>2, <1>4
  <2>2. QED
    BY <1>1, <2>1 DEF Unhanded
<1>5. QED
  BY <1>3, <1>4

LEMMA WorkUnhanded == ASSUME TypeInv, NEW j \in Jobs, Work(j) PROVE Unhanded
<1>1. CASE SaveTarget(j)
  <2>1. RunGood(job[j], Ids) /\ job[j] \in RunShape /\ sender' = sender /\ job[j].at = "insert"
    BY <1>1, RunHere DEF SaveTarget, At
  <2>2. PICK p \in job[j].left :
            /\ targets' = Append(targets, Target(job[j].ev, p, job[j].mode = "auto"))
            /\ handed' = Append(handed, 0) /\ unmarked' = Append(unmarked, 0)
    BY <1>1 DEF SaveTarget
  <2> DEFINE t == Target(job[j].ev, p, job[j].mode = "auto")
  <2>3. job[j].ev \in Events
    BY <2>1 DEF RunGood, Placed
  <2>4. t \in TargetRecords
    BY <2>1, <2>3 DEF Target, TargetRecords, RunGood, RunShape, Versions
  <2> HIDE DEF t
  <2>5. QED
    BY <2>1, <2>2, <2>4, AppendedUnhanded DEF t
<1>2. CASE CopyTarget(j)
  <2>1. RunGood(job[j], Ids) /\ job[j].at = "copy" /\ sender' = sender
    BY <1>2, RunHere DEF CopyTarget, At
  <2> DEFINE t == [job[j].source EXCEPT !.reserved = TRUE, !.copy = TRUE]
  <2>2. targets' = Append(targets, t) /\ handed' = Append(handed, 0) /\ unmarked' = Append(unmarked, 0)
    BY <1>2 DEF CopyTarget
  <2>3. t \in TargetRecords
    BY <2>1 DEF TargetRecords, RunGood
  <2> HIDE DEF t
  <2>4. QED
    BY <2>1, <2>2, <2>3, AppendedUnhanded
<1>3. CASE UNCHANGED <<targets, handed, unmarked, sender>>
  BY <1>3 DEF Unhanded, Ids
<1>4. CASE SaveReserved(j)
  <2> DEFINE i == job[j].idOf[Number[job[j].row]]
             t == [job[j].source EXCEPT !.reserved = TRUE]
  <2>1. RunGood(job[j], Ids) /\ job[j].at = "reserve" /\ sender' = sender /\ handed' = handed
    BY <1>4, RunHere DEF SaveReserved, At
  <2>2. i \in Ids /\ t \in TargetRecords /\ t.sent = job[j].source.sent
    BY <2>1 DEF RunGood, TargetRecords
  <2>3. /\ targets' = [targets EXCEPT ![i] = t]
        /\ unmarked' = IF targets[i].sent /\ ~job[j].source.sent
                       THEN [unmarked EXCEPT ![i] = @ + 1] ELSE unmarked
    BY <1>4 DEF SaveReserved
  <2> HIDE DEF i, t
  <2>4. QED
    BY <2>1, <2>2, <2>3, ChangedUnhanded
<1>5. CASE DeleteTarget(j) /\ targets' # targets
  <2>1. PICK i \in FoundFor(job[j], Number[job[j].row]) : targets' = [targets EXCEPT ![i].live = FALSE]
    BY <1>5 DEF DeleteTarget
  <2> DEFINE t == [targets[i] EXCEPT !.live = FALSE]
  <2>2. i \in Ids
    BY <1>5, <2>1, RunHere DEF DeleteTarget, At, RunGood, FoundFor
  <2>3. t \in TargetRecords /\ targets' = [targets EXCEPT ![i] = t]
    BY <2>1, <2>2, TargetHere
  <2>4. t.sent = targets[i].sent
    BY <2>2, TargetHere DEF TargetRecords
  <2> HIDE DEF t
  <2>5. sender' = sender /\ handed' = handed /\ unmarked' = unmarked
    BY <1>5 DEF DeleteTarget, sends
  <2>6. QED
    BY <2>2, <2>3, <2>4, <2>5, ChangedUnhanded
<1>6. CASE \/ FindEvent(j) \/ SaveEvent(j) \/ ReadSegment(j) \/ Connect(j) \/ Query(j)
           \/ Answer(j) \/ ReadNumbers(j) \/ FindReserved(j) \/ ReserveRecurring(j) \/ Stamp(j)
           \/ DeleteTarget(j) /\ targets' = targets
  BY <1>3, <1>6 DEF FindEvent, SaveEvent, ReadSegment, Connect, Query, Answer, ReadNumbers,
         FindReserved, ReserveRecurring, Stamp, DeleteTarget, store, sends
<1>7. QED
  BY <1>1, <1>2, <1>3, <1>4, <1>5, <1>6 DEF Work

LEMMA HandKept == ASSUME TypeInv, HandInv, Unhanded PROVE HandInv'
<1>1. ASSUME NEW i \in Ids' PROVE handed'[i] <= 1 + unmarked'[i] /\ (~targets'[i].sent => handed'[i] <= unmarked'[i])
  <2>1. CASE i \in Ids
    BY <2>1, CountsAre DEF HandInv, Unhanded
  <2>2. CASE i \notin Ids
    BY <2>2 DEF Unhanded
  <2>3. QED
    BY <2>1, <2>2
<1>2. ASSUME NEW s \in Senders, sender'[s] # None
      PROVE  /\ \A i \in sender'[s].todo : handed'[i] <= unmarked'[i]
             /\ sender'[s].id # None =>
                   /\ handed'[sender'[s].id] <= unmarked'[sender'[s].id]
                   /\ sender'[s].id \notin sender'[s].todo
                   /\ (sender'[s].copy = None /\ ~targets'[sender'[s].id].sent)
                         => handed'[sender'[s].id] + 1 <= unmarked'[sender'[s].id]
  <2>1. sender'[s] = sender[s] /\ sender[s].todo \subseteq Ids
        /\ (sender[s].id # None => sender[s].id \in Ids)
    BY <1>2, SenderHere DEF Unhanded
  <2>2. \A i \in Ids : handed[i] \in Nat /\ unmarked[i] \in Nat
    BY CountsAre
  <2>3. \A i \in sender'[s].todo : handed'[i] <= unmarked'[i]
    BY <1>2, <2>1, <2>2 DEF HandInv, Unhanded
  <2>4. ASSUME sender[s].id # None
        PROVE  /\ handed'[sender[s].id] <= unmarked'[sender[s].id]
               /\ (sender[s].copy = None /\ ~targets'[sender[s].id].sent)
                     => handed'[sender[s].id] + 1 <= unmarked'[sender[s].id]
    <3> DEFINE i == sender[s].id
    <3>1. /\ i \in Ids /\ handed[i] <= unmarked[i]
          /\ (sender[s].copy = None /\ ~targets[i].sent) => handed[i] + 1 <= unmarked[i]
      BY <1>2, <2>1, <2>4 DEF HandInv
    <3> HIDE DEF i
    <3>2. /\ handed[i] \in Nat /\ unmarked[i] \in Nat /\ handed'[i] = handed[i]
          /\ \/ unmarked'[i] = unmarked[i] /\ (targets[i].sent => targets'[i].sent)
             \/ unmarked'[i] = unmarked[i] + 1
      BY <2>2, <3>1 DEF Unhanded
    <3>3. /\ handed'[i] <= unmarked'[i]
          /\ (sender[s].copy = None /\ ~targets'[i].sent) => handed'[i] + 1 <= unmarked'[i]
      BY <3>1, <3>2
    <3>4. QED
      BY <3>3 DEF i
  <2>5. sender[s].id # None => sender[s].id \notin sender[s].todo
    BY <1>2, <2>1 DEF HandInv
  <2>6. QED
    BY <2>1, <2>3, <2>4, <2>5
<1>3. QED
  BY <1>1, <1>2 DEF HandInv

\* The one run of the sender moves on, and counts stay what they were.
LEMMA HandMoves ==
    ASSUME TypeInv, HandInv, NEW s \in Senders, \A x \in Senders : x = s,
           NEW STATE r, sender' = [sender EXCEPT ![s] = r],
           UNCHANGED <<targets, handed, unmarked>>,
           r # None =>
              /\ \A i \in r.todo : handed[i] <= unmarked[i]
              /\ r.id # None => /\ handed[r.id] <= unmarked[r.id] /\ r.id \notin r.todo
                                /\ r.copy # None
    PROVE  HandInv'
<1>1. Ids' = Ids /\ \A x \in Senders : sender'[x] = r
  BY DEF TypeInv, SenderTypes, Ids
<1>2. QED
  BY <1>1 DEF HandInv

\* What the one run of the sender does.
LEMMA HandSender ==
    ASSUME TypeInv, HandInv, NEW s \in Senders, \A x \in Senders : x = s,
           SenderStart(s) \/ FindMarked(s) \/ MarkSent(s) \/ Hand(s)
    PROVE  HandInv'
<1>1. sender \in [Senders -> {None} \cup SenderRecords] /\ Ids \subseteq Nat
  BY IdsAre DEF TypeInv, SenderTypes
<1>2. CASE SenderStart(s)
  <2> DEFINE listed == {i \in Unsent : targets[i].reserved}
             r == SenderOnward(listed)
  <2>1. sender' = [sender EXCEPT ![s] = r] /\ UNCHANGED <<targets, handed, unmarked>>
    BY <1>2 DEF SenderStart, store, sends
  <2>2. listed \in SUBSET Nat /\ \A i \in listed : handed[i] <= unmarked[i]
    BY <1>1 DEF Unsent, HandInv
  <2> HIDE DEF listed
  <2>3. r # None => r.todo = listed /\ r.id = None
    BY <2>2, SenderOnwardOK
  <2> HIDE DEF r
  <2>4. QED
    BY <2>1, <2>2, <2>3, HandMoves
<1>3. CASE FindMarked(s)
  <2>1. /\ sender[s] # None /\ sender[s].todo \subseteq Ids /\ sender[s].todo \in SUBSET Nat
        /\ \A i \in sender[s].todo : handed[i] <= unmarked[i]
    BY <1>3, SenderHere DEF FindMarked, HandInv
  <2>2. PICK i \in sender[s].todo :
          \/ sender' = [sender EXCEPT ![s] = [todo |-> sender[s].todo \ {i}, id |-> i, copy |-> targets[i]]]
          \/ sender' = [sender EXCEPT ![s] = None]
          \/ sender' = [sender EXCEPT ![s] = SenderOnward(sender[s].todo \ {i})]
    BY <1>3 DEF FindMarked
  <2> DEFINE a == [todo |-> sender[s].todo \ {i}, id |-> i, copy |-> targets[i]]
             c == SenderOnward(sender[s].todo \ {i})
  <2>3. targets[i] # None
    BY <2>1, TargetHere, IdleAssumption
  <2>4. a.id = i /\ a.todo = sender[s].todo \ {i} /\ a.copy # None
    BY <2>3
  <2>5. c # None => c.todo = sender[s].todo \ {i} /\ c.id = None
    BY <2>1, SenderOnwardOK
  <2>6. PICK r \in {a, None, c} : sender' = [sender EXCEPT ![s] = r]
    BY <2>2
  <2> HIDE DEF a, c
  <2>7. UNCHANGED <<targets, handed, unmarked>>
    BY <1>3 DEF FindMarked, store, sends
  <2>8. r # None =>
              /\ \A k \in r.todo : handed[k] <= unmarked[k]
              /\ r.id # None => /\ handed[r.id] <= unmarked[r.id] /\ r.id \notin r.todo
                                /\ r.copy # None
    BY <2>1, <2>4, <2>5, <2>6
  <2>9. QED
    BY <2>6, <2>7, <2>8, HandMoves
<1>4. CASE MarkSent(s)
  <2> DEFINE i == sender[s].id
             t == [sender[s].copy EXCEPT !.sent = TRUE]
             r == [sender[s] EXCEPT !.copy = None]
  <2>1. /\ sender[s] # None /\ sender[s] \in SenderRecords /\ i \in Ids /\ i # None
        /\ sender[s].copy \in TargetRecords
    BY <1>4, SenderHere DEF MarkSent
  <2>2. /\ targets' = [targets EXCEPT ![i] = t] /\ sender' = [sender EXCEPT ![s] = r]
        /\ UNCHANGED <<handed, unmarked>>
    BY <1>4 DEF MarkSent, sends
  <2>3. t \in TargetRecords /\ t.sent
    BY <2>1 DEF TargetRecords
  <2>4. r.todo = sender[s].todo /\ r.id = i /\ r.copy = None
    BY <2>1 DEF SenderRecords
  <2>5. /\ \A k \in sender[s].todo : handed[k] <= unmarked[k]
        /\ handed[i] <= unmarked[i] /\ i \notin sender[s].todo
    BY <2>1 DEF HandInv
  <2> HIDE DEF i, t, r
  <2>6. Ids' = Ids /\ \A k \in Ids : targets'[k] = IF k = i THEN t ELSE targets[k]
    BY <2>1, <2>2, <2>3, TargetChanged DEF TypeInv
  <2>7. \A x \in Senders : sender'[x] = r
    BY <1>1, <2>2
  <2>8. \A k \in Ids : handed[k] <= 1 + unmarked[k] /\ (~targets'[k].sent => handed[k] <= unmarked[k])
    BY <2>3, <2>6 DEF HandInv
  <2>9. targets'[i].sent
    BY <2>1, <2>3, <2>6
  <2>10. QED
    BY <2>2, <2>4, <2>5, <2>6, <2>7, <2>8, <2>9 DEF HandInv
<1>5. CASE Hand(s)
  <2> DEFINE r == SenderOnward(sender[s].todo)
             i == sender[s].id
  <2>1. /\ sender[s].todo \in SUBSET Nat /\ sender[s].todo \subseteq Ids /\ i \in Ids /\ i # None
        /\ sender[s] # None /\ sender[s].copy = None
    BY <1>5, SenderHere DEF Hand
  <2>2. /\ sender' = [sender EXCEPT ![s] = r] /\ handed' = [handed EXCEPT ![i] = @ + 1]
        /\ targets' = targets /\ unmarked' = unmarked /\ Ids' = Ids
    BY <1>5 DEF Hand, store, Ids
  <2>3. r # None => r.todo = sender[s].todo /\ r.id = None
    BY <2>1, SenderOnwardOK
  <2>4. /\ \A k \in sender[s].todo : handed[k] <= unmarked[k]
        /\ handed[i] <= unmarked[i] /\ i \notin sender[s].todo
        /\ ~targets[i].sent => handed[i] + 1 <= unmarked[i]
    BY <2>1 DEF HandInv
  <2> HIDE DEF r, i
  <2>5. \A x \in Senders : sender'[x] = r
    BY <1>1, <2>2
  <2>6. \A k \in Ids : handed[k] \in Nat /\ unmarked[k] \in Nat /\ k \in DOMAIN handed
    BY CountsAre DEF TypeInv, TargetTypes, Ids
  <2>7. \A k \in Ids : handed'[k] = IF k = i THEN handed[i] + 1 ELSE handed[k]
    BY <2>2, <2>6
  <2>8. \A k \in Ids : handed'[k] <= 1 + unmarked[k] /\ (~targets[k].sent => handed'[k] <= unmarked[k])
    <3> SUFFICES ASSUME NEW k \in Ids
                 PROVE  handed'[k] <= 1 + unmarked[k] /\ (~targets[k].sent => handed'[k] <= unmarked[k])
      OBVIOUS
    <3>1. CASE k = i
      BY <2>1, <2>4, <2>6, <2>7, <3>1
    <3>2. CASE k # i
      BY <2>6, <2>7, <3>2 DEF HandInv
    <3>3. QED
      BY <3>1, <3>2
  <2>9. \A k \in sender[s].todo : handed'[k] <= unmarked[k]
    BY <2>1, <2>4, <2>7
  <2>10. QED
    BY <2>1, <2>2, <2>3, <2>5, <2>8, <2>9 DEF HandInv
<1>6. QED
  BY <1>2, <1>3, <1>4, <1>5

LEMMA HandStep ==
    ASSUME \A s, x \in Senders : s = x, TypeInv, HandInv, [Next]_vars
    PROVE  HandInv'
<1>1. CASE UNCHANGED <<targets, handed, unmarked, sender>>
  BY <1>1, HandKept DEF Unhanded, Ids
<1>2. CASE \E j \in Jobs : Work(j)
  BY <1>2, WorkUnhanded, HandKept
<1>3. CASE \E s \in Senders : SenderStart(s) \/ FindMarked(s) \/ MarkSent(s) \/ Hand(s)
  BY <1>3, HandSender
<1>4. ASSUME UNCHANGED <<targets, handed, unmarked>>, NEW s \in Senders, sender' = [sender EXCEPT ![s] = None]
      PROVE  HandInv'
  BY <1>4, HandMoves
<1>5. CASE Reject
  BY <1>1, <1>4, <1>5 DEF Reject, store, sends
<1>6. CASE Crash
  <2>1. Ids' = Ids /\ UNCHANGED <<targets, handed, unmarked>> /\ \A x \in Senders : sender'[x] = None
    BY <1>6 DEF Crash, store, Ids, sends
  <2>2. QED
    BY <2>1 DEF HandInv
<1>7. CASE UNCHANGED vars
  BY <1>1, <1>7 DEF vars, store, sends
<1>8. CASE \/ \E j \in Jobs : AutoStart(j)
           \/ \E j \in Jobs, e \in Events, g \in Segments : ContentRequest(j, e, g)
           \/ \E j \in Jobs, g \in Segments, k \in Kinds \ {"now"} : ReserveRequest(j, g, k)
  BY <1>1, <1>8 DEF AutoStart, ContentRequest, ReserveRequest, store, sends
<1>9. CASE (\E r \in Rows : Edit(r)) \/ (\E d \in Dbs : ConnectRequest(d))
  BY <1>1, <1>9 DEF Edit, ConnectRequest, store, sends
<1>10. CASE \/ PutSave \/ \E e \in Events : PutRead(e) \/ DeleteEvent(e)
            \/ \E g \in Segments : FilterSegment(g) \/ DeleteSegment(g)
  BY <1>1, <1>10 DEF PutSave, PutRead, DeleteEvent, FilterSegment, DeleteSegment, store, sends
<1>11. QED
  BY <1>2, <1>3, <1>5, <1>6, <1>7, <1>8, <1>9, <1>10 DEF Next

(***************************************************************************)
(* As long as runs of sendReservedMessage do not overlap, they hand a      *)
(* target to the send once, wherever they stop, and whatever runs of the   *)
(* cron and requests are about: and once more for each reservation that    *)
(* read it before the mark was saved and was saved after.                  *)
(***************************************************************************)
THEOREM Handed == ASSUME \A s, x \in Senders : s = x PROVE Spec => []HandedOnce
<1>1. Init => HandInv
  BY DEF Init, HandInv, Ids
<1>2. TypeInv /\ HandInv /\ [Next]_vars => HandInv'
  BY HandStep
<1>3. HandInv => HandedOnce
  BY DEF HandInv, HandedOnce
<1>4. QED
  BY <1>1, <1>2, <1>3, TypesHold, PTL DEF Spec

-----------------------------------------------------------------------------
(* How often a change becomes a target, when runs and requests do not      *)
(* overlap.                                                                *)

Made(ts, e, p) ==
    Cardinality({i \in 1..Len(ts) : /\ ts[i].auto /\ ~ts[i].copy
                                    /\ ts[i].event = e /\ ts[i].row = p[1] /\ ts[i].ver = p[2]})

\* The repetitions that failures, requests and throws allow; an update of an
\* event that is under way has yet to write back its old time.
Allowed == failures + requests + spoiled - (IF put = None THEN 0 ELSE 1)

Before(v, t) == t # None /\ v < t

\* The run has no answer for its event yet.
Early(run) ==
    \/ run.at \in {"segment", "connect", "query", "answer"}
    \/ run.at \in {"find", "save"} /\ run.then = "segment"

Late(run, e) == run.mode = "auto" /\ run.ev = e /\ ~Early(run)

\* The run is yet to ask for rows for e.
Ahead(run, e) == run.mode = "auto" /\ (e \in run.todo \/ (run.ev = e /\ Early(run)))

\* It stores the time of its answer before it leaves e, or throws with targets made.
WillStore(run, e) == Late(run, e) /\ (run.at \in {"find", "save"} \/ run.ids # {})

Gone(run, row, e) ==
    ~row.live /\ (run # None => ~(run.mode = "auto" /\ (run.ev = e \/ e \in run.todo)))

\* The event at hand is not to come again.
Apart(run) == run.mode = "auto" => run.ev \notin run.todo

(***************************************************************************)
(* Version p[2] of row p[1] was made a target of e n times.  If that is    *)
(* more than the k repetitions allowed, the row is older than the time     *)
(* stored, or the time will be stored, or e is gone; and the run is not    *)
(* going to make it another time.                                          *)
(***************************************************************************)
Tally(run, n, k, row, e, p) ==
    /\ n <= k \/ Before(p[2], row.last) \/ (run # None /\ WillStore(run, e)) \/ Gone(run, row, e)
    /\ run # None =>
          /\ Ahead(run, e) => n <= k \/ Before(p[2], run.list[e].last)
          /\ Late(run, e) => n <= k \/ p[2] < run.value
          /\ (Late(run, e) /\ run.at = "insert" /\ p \in run.left) => n <= k
          /\ Apart(run)

TallyInv == \A e \in Events, p \in Versions :
    /\ Made(targets, e, p) <= 1 + Allowed
    /\ \A j \in Jobs : Tally(job[j], Made(targets, e, p), Allowed, event[e], e, p)

\* What a run knows of its rows, at time c, and of where it goes.
Knows(run, c) ==
    /\ run.at \in {"answer", "insert"} => \A q \in run.rows : q[2] <= c
    /\ run.at = "insert" => \A q \in run.rows : q[2] < run.value
    /\ run.at = "connect" => run.then \in {"query", "next"}
    /\ run.at \in {"find", "save"} => /\ run.then \in {"segment", "stamp", "next"}
                                      /\ run.then = "segment" => run.list[run.ev].last = None

KnowsInv == \A j \in Jobs : job[j] # None => Knows(job[j], clock)

\* No target is of a version still to come.
DatedInv == \A i \in Ids : ~targets[i].copy => targets[i].ver <= clock

\* What never changes of a target
Like(t, u) == /\ t.auto = u.auto /\ t.copy = u.copy
              /\ t.event = u.event /\ t.row = u.row /\ t.ver = u.ver

\* A row read is a row of the target it will be saved to.
Source(run, ts) == run.at = "reserve" => Like(run.source, ts[run.idOf[Number[run.row]]])

Marked(run, ts) == run.copy # None => Like(run.copy, ts[run.id])

CopiesInv ==
    /\ \A j \in Jobs : job[j] # None => Source(job[j], targets)
    /\ \A s \in Senders : sender[s] # None => Marked(sender[s], targets)

\* An update under way was counted.
PutInv == put # None => requests > 0

CountInv == TallyInv /\ KnowsInv /\ DatedInv /\ CopiesInv /\ PutInv

LEMMA MadeNone == ASSUME NEW e, NEW p PROVE Made(<<>>, e, p) = 0
<1>1. {i \in 1..Len(<<>>) : /\ <<>>[i].auto /\ ~<<>>[i].copy
                            /\ <<>>[i].event = e /\ <<>>[i].row = p[1] /\ <<>>[i].ver = p[2]} = {}
  OBVIOUS
<1>2. QED
  BY <1>1, FS_EmptySet DEF Made

LEMMA CountInit == Init => CountInv
<1> SUFFICES ASSUME Init PROVE CountInv
  OBVIOUS
<1>1. targets = <<>> /\ Allowed = 0
  BY DEF Init, Allowed
<1>2. TallyInv
  <2> SUFFICES ASSUME NEW e \in Events, NEW p \in Versions
               PROVE  /\ Made(targets, e, p) <= 1 + Allowed
                      /\ \A j \in Jobs : Tally(job[j], Made(targets, e, p), Allowed, event[e], e, p)
    BY DEF TallyInv
  <2>1. Made(targets, e, p) = 0
    BY <1>1, MadeNone
  <2>2. QED
    BY <1>1, <2>1 DEF Init, Tally
<1>3. KnowsInv /\ DatedInv /\ CopiesInv /\ PutInv
  BY <1>1 DEF Init, KnowsInv, DatedInv, CopiesInv, PutInv, Ids
<1>4. QED
  BY <1>2, <1>3 DEF CountInv

\* Whatever else, n is allowed.
LEMMA Enough ==
    ASSUME NEW run, NEW n, NEW k, NEW row, NEW e, NEW p, n <= k, run = None \/ Apart(run)
    PROVE  Tally(run, n, k, row, e, p)
  BY DEF Tally

LEMMA AllowedInt == ASSUME TypeInv PROVE Allowed \in Int
  BY DEF TypeInv, SmallTypes, Allowed

LEMMA AllowedNat == ASSUME TypeInv, PutInv PROVE Allowed \in Nat
  BY DEF TypeInv, SmallTypes, Allowed, PutInv

-----------------------------------------------------------------------------
(* What is counted.                                                        *)

LEMMA MadeNat == ASSUME TypeInv, NEW e, NEW p PROVE Made(targets, e, p) \in Nat
<1> DEFINE S == {i \in 1..Len(targets) : /\ targets[i].auto /\ ~targets[i].copy
                                         /\ targets[i].event = e /\ targets[i].row = p[1] /\ targets[i].ver = p[2]}
<1>1. Len(targets) \in Nat
  BY IdsAre DEF TypeInv
<1>2. IsFiniteSet(1..Len(targets)) /\ S \subseteq 1..Len(targets)
  BY <1>1, FS_Interval
<1>3. Made(targets, e, p) = Cardinality(S)
  BY DEF Made
<1> HIDE DEF S
<1>4. QED
  BY <1>2, <1>3, FS_Subset, FS_CardinalityType

\* What was made a target is not still to come.
LEMMA MadeDated ==
    ASSUME TypeInv, DatedInv, NEW e, NEW p, Made(targets, e, p) > 0
    PROVE  p[2] <= clock
<1> DEFINE S == {i \in 1..Len(targets) : /\ targets[i].auto /\ ~targets[i].copy
                                         /\ targets[i].event = e /\ targets[i].row = p[1] /\ targets[i].ver = p[2]}
<1>1. Made(targets, e, p) = Cardinality(S)
  BY DEF Made
<1>2. S # {}
  <2>1. Cardinality(S) > 0
    BY <1>1
  <2> HIDE DEF S
  <2>2. QED
    BY <2>1, FS_EmptySet
<1>3. PICK i \in Ids : targets[i].ver = p[2] /\ ~targets[i].copy
  BY <1>2 DEF Ids
<1>4. QED
  BY <1>3 DEF DatedInv

\* No target comes, and none changes in what is counted.
Steady == Ids' = Ids /\ \A i \in Ids : Like(targets'[i], targets[i])

LEMMA SteadyMade ==
    ASSUME TypeInv, Ids' = Ids, Steady, NEW e, NEW p
    PROVE  Made(targets', e, p) = Made(targets, e, p)
<1>1. {i \in Ids' : /\ targets'[i].auto /\ ~targets'[i].copy
                    /\ targets'[i].event = e /\ targets'[i].row = p[1] /\ targets'[i].ver = p[2]}
      = {i \in Ids : /\ targets[i].auto /\ ~targets[i].copy
                     /\ targets[i].event = e /\ targets[i].row = p[1] /\ targets[i].ver = p[2]}
  BY DEF Steady, Like
<1>2. QED
  BY <1>1 DEF Made, Ids

\* One more target counts for the event and the version of the row it is of.
LEMMA MadeAppended ==
    ASSUME TypeInv, NEW STATE t, t \in TargetRecords, NEW e, NEW p,
           targets' = Append(targets, t), handed' = Append(handed, 0), unmarked' = Append(unmarked, 0)
    PROVE  /\ (t.auto /\ ~t.copy /\ t.event = e /\ t.row = p[1] /\ t.ver = p[2]) =>
                  Made(targets', e, p) = Made(targets, e, p) + 1
           /\ ~(t.auto /\ ~t.copy /\ t.event = e /\ t.row = p[1] /\ t.ver = p[2]) =>
                  Made(targets', e, p) = Made(targets, e, p)
<1> DEFINE S == {i \in 1..Len(targets) : /\ targets[i].auto /\ ~targets[i].copy
                                         /\ targets[i].event = e /\ targets[i].row = p[1] /\ targets[i].ver = p[2]}
           T == {i \in 1..Len(targets') : /\ targets'[i].auto /\ ~targets'[i].copy
                                          /\ targets'[i].event = e /\ targets'[i].row = p[1] /\ targets'[i].ver = p[2]}
           m == Len(targets) + 1
           hit == t.auto /\ ~t.copy /\ t.event = e /\ t.row = p[1] /\ t.ver = p[2]
<1>1. /\ Len(targets) \in Nat /\ 1..Len(targets') = (1..Len(targets)) \cup {m}
      /\ \A i \in 1..Len(targets) : targets'[i] = targets[i]
      /\ targets'[m] = t
  BY TargetAppended, IdsAre DEF TypeInv, Ids
<1>2. m \notin S /\ IsFiniteSet(S)
  <2>1. IsFiniteSet(1..Len(targets)) /\ S \subseteq 1..Len(targets)
    BY <1>1, FS_Interval
  <2>2. m \notin 1..Len(targets)
    BY <1>1
  <2>3. QED
    BY <2>1, <2>2, FS_Subset
<1>3. hit => T = S \cup {m}
  BY <1>1
<1>4. ~hit => T = S
  BY <1>1
<1>5. Made(targets, e, p) = Cardinality(S) /\ Made(targets', e, p) = Cardinality(T)
  BY DEF Made
<1> HIDE DEF S, T, m, hit
<1>6. Cardinality(S \cup {m}) = Cardinality(S) + 1
  BY <1>2, FS_AddElement
<1>7. QED
  BY <1>3, <1>4, <1>5, <1>6 DEF hit

-----------------------------------------------------------------------------
(* Where a run goes.                                                       *)

LEMMA RunIsOne == ASSUME NEW r \in RunShape PROVE r # None
  BY IdleAssumption

\* It goes on at the same event, on the same side of its answer.
LEMMA TallyOn ==
    ASSUME NEW run, NEW r \in RunShape, NEW n, NEW k, NEW row, NEW e, NEW p, run # None,
           r.mode = run.mode, r.ev = run.ev, r.todo = run.todo, r.list = run.list, r.value = run.value,
           Early(r) <=> Early(run), WillStore(run, e) => WillStore(r, e),
           r.at = "insert" => run.at = "insert" /\ r.left \subseteq run.left,
           Tally(run, n, k, row, e, p)
    PROVE  Tally(r, n, k, row, e, p)
<1>1. r # None
  BY RunIsOne
<1>2. (Ahead(r, e) <=> Ahead(run, e)) /\ (Late(r, e) <=> Late(run, e)) /\ (Gone(r, row, e) <=> Gone(run, row, e))
  BY <1>1 DEF Ahead, Late, Gone
<1>3. Apart(r)
  BY DEF Tally, Apart
<1>4. QED
  BY <1>1, <1>2, <1>3 DEF Tally

\* A request of a user
LEMMA TallyElse ==
    ASSUME NEW run, NEW r, NEW n, NEW k, NEW row, NEW e, NEW p, run # None, run.mode # "auto",
           r = None \/ r.mode # "auto", Tally(run, n, k, row, e, p)
    PROVE  Tally(r, n, k, row, e, p)
<1>1. ~WillStore(run, e) /\ (r # None => ~Ahead(r, e) /\ ~Late(r, e))
  BY DEF WillStore, Late, Ahead
<1>2. (Gone(run, row, e) => Gone(r, row, e)) /\ (r # None => Apart(r))
  BY DEF Gone, Apart
<1>3. QED
  BY <1>1, <1>2 DEF Tally

LEMMA OnwardRun ==
    ASSUME NEW todo, NEW list, NEW r \in Onward(todo, list)
    PROVE  \/ r = None
           \/ /\ r.mode = "auto" /\ Early(r) /\ r.at \in {"find", "segment"} /\ r.list = list
              /\ r.then = "segment" /\ (r.at = "find" => list[r.ev].last = None)
              /\ r.ev \in todo /\ r.todo = todo \ {r.ev}
<1>1. CASE todo = {}
  BY <1>1 DEF Onward
<1>2. CASE todo # {}
  <2>1. PICK e \in todo : r = Run("auto", IF list[e].last = None THEN "find" ELSE "segment",
                                  e, todo \ {e}, list, list[e].seg, list[e].kind)
    BY <1>2 DEF Onward
  <2>2. QED
    BY <2>1 DEF Run, Early
<1>3. QED
  BY <1>1, <1>2

LEMMA OnwardKnows ==
    ASSUME NEW todo, NEW list, NEW r \in Onward(todo, list), NEW c, NEW ts
    PROVE  r = None \/ (Knows(r, c) /\ Source(r, ts))
  BY OnwardRun DEF Knows, Source

LEMMA OnwardTally ==
    ASSUME NEW todo, NEW list, NEW r \in Onward(todo, list), NEW n, NEW k, NEW row, NEW e, NEW p,
           n <= k \/ Before(p[2], row.last) \/ (~row.live /\ e \notin todo),
           e \in todo => n <= k \/ Before(p[2], list[e].last)
    PROVE  Tally(r, n, k, row, e, p)
<1>1. CASE r = None
  BY <1>1 DEF Tally, Gone
<1>2. CASE r # None
  <2>1. /\ r.mode = "auto" /\ Early(r) /\ r.list = list
        /\ r.ev \in todo /\ r.todo = todo \ {r.ev}
    BY <1>2, OnwardRun
  <2>2. (~row.live /\ e \notin todo) => Gone(r, row, e)
    BY <2>1 DEF Gone
  <2>3. ~Late(r, e) /\ (Ahead(r, e) => e \in todo) /\ Apart(r)
    BY <2>1 DEF Late, Ahead, Apart
  <2>4. QED
    BY <2>1, <2>2, <2>3 DEF Tally
<1>3. QED
  BY <1>1, <1>2

\* It leaves an event with nothing left to store.
LEMMA LeaveTally ==
    ASSUME NEW run, NEW r \in Onward(run.todo, run.list), NEW n, NEW k, NEW row, NEW e, NEW p,
           run # None, run.mode = "auto", ~WillStore(run, e), Tally(run, n, k, row, e, p)
    PROVE  Tally(r, n, k, row, e, p)
<1>1. n <= k \/ Before(p[2], row.last) \/ (~row.live /\ e \notin run.todo)
  BY DEF Tally, Gone
<1>2. e \in run.todo => n <= k \/ Before(p[2], run.list[e].last)
  BY DEF Tally, Ahead
<1>3. QED
  BY <1>1, <1>2, OnwardTally

LEMMA ScheduledTally ==
    ASSUME NEW run \in RunShape, run.at = "schedule", NEW n, NEW k, NEW row, NEW e, NEW p,
           Tally(run, n, k, row, e, p)
    PROVE  Tally(Scheduled(run), n, k, row, e, p)
<1>0. run # None
  BY RunIsOne
<1>1. CASE run.left # {}
  BY <1>1 DEF Scheduled
<1>2. CASE run.left = {} /\ run.mode = "reserve"
  BY <1>0, <1>2, TallyElse DEF Scheduled
<1>3. CASE run.left = {} /\ run.mode # "reserve"
  <2> DEFINE q == [run EXCEPT !.at = "find", !.then = "next"]
  <2>1. Scheduled(run) = q
    BY <1>3 DEF Scheduled
  <2>2. /\ q \in RunShape /\ q.mode = run.mode /\ q.ev = run.ev /\ q.todo = run.todo /\ q.list = run.list
        /\ q.value = run.value /\ q.at = "find" /\ q.then = "next"
    BY DEF RunShape, Stages
  <2> HIDE DEF q
  <2>3. ~Early(q) /\ ~Early(run)
    BY <2>2 DEF Early
  <2>4. WillStore(run, e) => WillStore(q, e)
    BY <2>2, <2>3 DEF WillStore, Late
  <2>5. QED
    BY <1>0, <2>1, <2>2, <2>3, <2>4, TallyOn
<1>4. QED
  BY <1>1, <1>2, <1>3

LEMMA ScheduledKnows ==
    ASSUME NEW run \in RunShape, run.at = "schedule", NEW c, NEW ts
    PROVE  Scheduled(run) = None \/ (Knows(Scheduled(run), c) /\ Source(Scheduled(run), ts))
<1>1. CASE run.left # {}
  BY <1>1 DEF Scheduled, Knows, Source
<1>2. CASE run.left = {} /\ run.mode = "reserve"
  BY <1>2 DEF Scheduled
<1>3. CASE run.left = {} /\ run.mode # "reserve"
  <2> DEFINE q == [run EXCEPT !.at = "find", !.then = "next"]
  <2>1. Scheduled(run) = q /\ q.at = "find" /\ q.then = "next"
    BY <1>3 DEF Scheduled, RunShape
  <2> HIDE DEF q
  <2>2. QED
    BY <2>1 DEF Knows, Source
<1>4. QED
  BY <1>1, <1>2, <1>3

LEMMA InsertedTally ==
    ASSUME NEW run \in RunShape, run.at = "insert", Placed(run.mode, run.at),
           NEW n, NEW k, NEW row, NEW e, NEW p, Tally(run, n, k, row, e, p)
    PROVE  Tally(Inserted(run), n, k, row, e, p)
<1>0. run # None
  BY RunIsOne
<1>1. CASE run.left # {}
  BY <1>1 DEF Inserted
<1>2. CASE run.left = {} /\ run.mode = "content"
  BY <1>0, <1>2, TallyElse DEF Inserted
<1>3. CASE run.left = {} /\ run.mode # "content"
  <2> DEFINE at == IF run.kind = "now" THEN "stamp" ELSE "numbers"
             q == [run EXCEPT !.at = at]
  <2>1. Inserted(run) = q
    BY <1>3 DEF Inserted
  <2>2. at \in {"stamp", "numbers"}
    OBVIOUS
  <2> HIDE DEF at
  <2>3. /\ q \in RunShape /\ q.mode = run.mode /\ q.ev = run.ev /\ q.todo = run.todo /\ q.list = run.list
        /\ q.value = run.value /\ q.at = at /\ q.ids = run.ids
    BY <2>2 DEF RunShape, Stages
  <2> HIDE DEF q
  <2>4. ~Early(q) /\ ~Early(run)
    BY <2>2, <2>3 DEF Early
  <2>5. WillStore(run, e) => WillStore(q, e)
    BY <2>3, <2>4 DEF WillStore, Late
  <2>6. QED
    BY <1>0, <2>1, <2>2, <2>3, <2>4, <2>5, TallyOn
<1>4. QED
  BY <1>1, <1>2, <1>3

LEMMA InsertedKnows ==
    ASSUME NEW run \in RunShape, run.at = "insert", NEW c, NEW ts, Knows(run, c)
    PROVE  Inserted(run) = None \/ (Knows(Inserted(run), c) /\ Source(Inserted(run), ts))
<1>1. CASE run.left # {}
  BY <1>1 DEF Inserted, Source
<1>2. CASE run.left = {} /\ run.mode = "content"
  BY <1>2 DEF Inserted
<1>3. CASE run.left = {} /\ run.mode # "content"
  <2> DEFINE at == IF run.kind = "now" THEN "stamp" ELSE "numbers"
             q == [run EXCEPT !.at = at]
  <2>1. Inserted(run) = q
    BY <1>3 DEF Inserted
  <2>2. at \in {"stamp", "numbers"}
    OBVIOUS
  <2> HIDE DEF at
  <2>3. q.at = at
    BY DEF RunShape
  <2> HIDE DEF q
  <2>4. QED
    BY <2>1, <2>2, <2>3 DEF Knows, Source
<1>4. QED
  BY <1>1, <1>2, <1>3

-----------------------------------------------------------------------------
(* The count, an action at a time.                                         *)

\* Rows read stay rows of their targets.
LEMMA MarkedKept ==
    ASSUME TypeInv, CountInv, NEW s \in Senders, sender[s] # None, Ids \subseteq Ids',
           \A i \in Ids : Like(targets'[i], targets[i])
    PROVE  Marked(sender[s], targets')
<1>1. sender[s].copy # None => sender[s].id \in Ids
  BY DEF TypeInv, SenderTypes, SenderGood
<1>2. sender[s].copy # None => Like(sender[s].copy, targets[sender[s].id])
  BY DEF CountInv, CopiesInv, Marked
<1>3. QED
  BY <1>1, <1>2 DEF Marked, Like

LEMMA SourceKept ==
    ASSUME TypeInv, CountInv, NEW j \in Jobs, job[j] # None, Ids \subseteq Ids',
           \A i \in Ids : Like(targets'[i], targets[i])
    PROVE  Source(job[j], targets')
<1>1. RunGood(job[j], Ids)
  BY RunHere
<1>2. job[j].at = "reserve" => Like(job[j].source, targets[job[j].idOf[Number[job[j].row]]])
  BY DEF CountInv, CopiesInv, Source
<1>3. job[j].at = "reserve" => job[j].idOf[Number[job[j].row]] \in Ids
  BY <1>1 DEF RunGood
<1>4. QED
  BY <1>2, <1>3 DEF Source, Like

LEMMA MoreAllowed == \A n \in Nat, k, m \in Int : n <= 1 + k /\ k <= m => n <= 1 + m
  OBVIOUS

\* What a step of the only job has to show.
LEMMA CountMove ==
    ASSUME TypeInv, CountInv, \A i, x \in Jobs : i = x, NEW j \in Jobs, NEW STATE r, Step(j, r), Steady,
           UNCHANGED <<clock, sender, put, requests, failures>>,
           r = None \/ (Knows(r, clock) /\ Source(r, targets')),
           \A e \in Events, p \in Versions, n \in Nat :
              (/\ n <= 1 + Allowed
               /\ n > 0 => p[2] <= clock
               /\ Tally(job[j], n, Allowed, event[e], e, p)) => Tally(r, n, Allowed', event'[e], e, p)
    PROVE  CountInv'
<1>1. \A x \in Jobs : job'[x] = r
  BY DEF Step, TypeInv, JobTypes
<1>2. Ids' = Ids /\ \A i \in Ids : Like(targets'[i], targets[i])
  BY DEF Steady
<1>3. Allowed \in Int /\ Allowed' \in Int /\ Allowed <= Allowed'
  <2>1. spoiled \in Nat /\ requests \in Nat /\ failures \in Nat
    BY DEF TypeInv, SmallTypes
  <2>2. spoiled' = spoiled \/ spoiled' = spoiled + 1
    BY DEF Step
  <2>3. put' = put /\ requests' = requests /\ failures' = failures
    OBVIOUS
  <2>4. QED
    BY <2>1, <2>2, <2>3 DEF Allowed
<1>4. TallyInv'
  <2> SUFFICES ASSUME NEW e \in Events, NEW p \in Versions
               PROVE  /\ Made(targets', e, p) <= 1 + Allowed'
                      /\ \A x \in Jobs : Tally(r, Made(targets', e, p), Allowed', event'[e], e, p)
    BY <1>1 DEF TallyInv
  <2> DEFINE n == Made(targets, e, p)
  <2>1. Made(targets', e, p) = n /\ n \in Nat /\ (n > 0 => p[2] <= clock)
    BY <1>2, SteadyMade, MadeNat, MadeDated DEF CountInv
  <2>2. n <= 1 + Allowed /\ Tally(job[j], n, Allowed, event[e], e, p)
    BY DEF CountInv, TallyInv
  <2> HIDE DEF n
  <2>3. Tally(r, n, Allowed', event'[e], e, p)
    BY <2>1, <2>2
  <2>4. n <= 1 + Allowed
    BY <2>2
  <2>5. n <= 1 + Allowed'
    BY <1>3, <2>1, <2>4, MoreAllowed
  <2>6. QED
    BY <2>1, <2>3, <2>5
<1>5. KnowsInv'
  BY <1>1 DEF KnowsInv
<1>6. DatedInv'
  BY <1>2 DEF CountInv, DatedInv, Like
<1>7. CopiesInv'
  BY <1>1, <1>2, MarkedKept DEF CopiesInv
<1>8. PutInv'
  BY DEF CountInv, PutInv
<1>9. QED
  BY <1>4, <1>5, <1>6, <1>7, <1>8 DEF CountInv

LEMMA NothingSteady == ASSUME targets' = targets PROVE Steady
  BY DEF Steady, Like, Ids

\* A run that throws: if it had targets to store the time for, that is counted.
LEMMA ThrowTally ==
    ASSUME TypeInv, NEW j \in Jobs, job[j] # None, Throw(j), UNCHANGED <<put, requests, failures>>,
           NEW e \in Events, NEW p \in Versions, NEW n \in Nat, n <= 1 + Allowed,
           Tally(job[j], n, Allowed, event[e], e, p),
           WillStore(job[j], e) => job[j].ids # {} \/ ~event[e].live
    PROVE  Tally(None, n, Allowed', event[e], e, p)
<1>1. Allowed \in Int
  BY AllowedInt
<1>2. CASE WillStore(job[j], e) /\ job[j].ids # {}
  <2>1. spoiled' = spoiled + 1
    BY <1>2 DEF Throw, WillStore, Late
  <2>2. Allowed' = Allowed + 1
    BY <2>1 DEF Allowed, TypeInv, SmallTypes
  <2>3. QED
    BY <1>1, <2>2, Enough
<1>3. CASE ~(WillStore(job[j], e) /\ job[j].ids # {})
  <2>1. Allowed <= Allowed' /\ Allowed' \in Int
    BY DEF Allowed, TypeInv, SmallTypes, Throw
  <2>2. n <= Allowed \/ Before(p[2], event[e].last) \/ ~event[e].live
    BY <1>3 DEF Tally, Gone
  <2>3. QED
    BY <1>1, <2>1, <2>2 DEF Tally, Gone
<1>4. QED
  BY <1>2, <1>3

LEMMA CountHere ==
    ASSUME TypeInv, CountInv, NEW j \in Jobs, job[j] # None
    PROVE  /\ RunGood(job[j], Ids) /\ job[j] \in RunShape
           /\ Knows(job[j], clock) /\ Source(job[j], targets)
           /\ job[j].at \notin Holding => job[j].left = {}
           /\ job[j].at \in {"find", "save", "segment", "connect", "stamp"} => job[j].mode = "auto"
  BY RunHere DEF CountInv, KnowsInv, CopiesInv

LEMMA CountStart ==
    ASSUME TypeInv, CountInv, \A i, x \in Jobs : i = x, NEW j \in Jobs, AutoStart(j)
    PROVE  CountInv'
<1> DEFINE listed == {e \in Events : event[e].live}
<1>1. PICK r \in Onward(listed, event) : Go(j, r)
  BY DEF AutoStart
<1>2. UNCHANGED <<targets, event, clock, sender, put, requests, failures>> /\ Allowed' = Allowed
  BY <1>1 DEF AutoStart, client, store, puts, Go, Allowed
<1>3. job[j] = None
  BY DEF AutoStart
<1>4. ASSUME NEW e \in Events, NEW p \in Versions, NEW n \in Nat, Tally(job[j], n, Allowed, event[e], e, p)
      PROVE  Tally(r, n, Allowed, event[e], e, p)
  <2>1. n <= Allowed \/ Before(p[2], event[e].last) \/ ~event[e].live
    BY <1>3, <1>4 DEF Tally, Gone
  <2>2. e \in listed => n <= Allowed \/ Before(p[2], event[e].last)
    BY <2>1
  <2>3. ~event[e].live => e \notin listed
    OBVIOUS
  <2> HIDE DEF listed
  <2>4. QED
    BY <2>1, <2>2, <2>3, OnwardTally
<1> HIDE DEF listed
<1>5. r = None \/ (Knows(r, clock) /\ Source(r, targets'))
  BY OnwardKnows
<1>6. QED
  BY <1>1, <1>2, <1>4, <1>5, CountMove, StepsAre, NothingSteady

LEMMA CountFind ==
    ASSUME TypeInv, CountInv, \A i, x \in Jobs : i = x, NEW j \in Jobs, FindEvent(j)
    PROVE  CountInv'
<1> DEFINE run == job[j]
           row == event[run.ev]
           q == [run EXCEPT !.at = "save", !.copy = row]
<1>1. run # None /\ run \in RunShape /\ Knows(run, clock) /\ run.at = "find"
  BY CountHere DEF FindEvent, At
<1>2. UNCHANGED <<targets, event, clock, sender, put, requests, failures>>
  BY DEF FindEvent, client, store, puts
<1>3. (~row.live /\ Throw(j)) \/ Go(j, q)
  BY DEF FindEvent
<1>4. row \in EventRecords
  BY <1>1, RunHere DEF TypeInv, EventTypes, Lists
<1>5. CASE ~row.live /\ Throw(j)
  <2>1. ASSUME NEW e \in Events, WillStore(run, e) PROVE ~event[e].live
    BY <1>5, <2>1 DEF WillStore, Late
  <2>2. QED
    BY <1>1, <1>2, <1>5, <2>1, CountMove, StepsAre, NothingSteady, ThrowTally
<1>6. CASE Go(j, q)
  <2> HIDE DEF row, run
  <2>1. /\ q \in RunShape /\ q.mode = run.mode /\ q.ev = run.ev /\ q.todo = run.todo /\ q.list = run.list
        /\ q.value = run.value /\ q.at = "save" /\ q.then = run.then
    BY <1>1, <1>4 DEF RunShape, Stages
  <2> HIDE DEF q
  <2>2. Early(q) <=> Early(run)
    BY <1>1, <2>1 DEF Early
  <2>3. \A e : WillStore(run, e) => WillStore(q, e)
    BY <2>1, <2>2 DEF WillStore, Late
  <2>4. Knows(q, clock) /\ Source(q, targets')
    BY <1>1, <2>1 DEF Knows, Source
  <2>5. ASSUME NEW e \in Events, NEW p \in Versions, NEW n \in Nat, Tally(run, n, Allowed, event[e], e, p)
        PROVE  Tally(q, n, Allowed, event[e], e, p)
    BY <1>1, <2>1, <2>2, <2>3, <2>5, TallyOn
  <2>6. Allowed' = Allowed
    BY <1>2, <1>6 DEF Go, Allowed
  <2>7. QED
    BY <1>2, <1>6, <2>4, <2>5, <2>6, CountMove, StepsAre, NothingSteady DEF run
<1>7. QED
  BY <1>3, <1>5, <1>6

LEMMA CountSave ==
    ASSUME TypeInv, CountInv, \A i, x \in Jobs : i = x, NEW j \in Jobs, SaveEvent(j)
    PROVE  CountInv'
<1> DEFINE run == job[j]
           row == [run.copy EXCEPT !.last = run.value]
<1>1. /\ run # None /\ run \in RunShape /\ Knows(run, clock) /\ run.at = "save" /\ run.mode = "auto"
      /\ run.copy \in EventRecords
  BY CountHere DEF SaveEvent, At, RunGood
<1>2. UNCHANGED <<targets, clock, sender, put, requests, failures>>
  BY DEF SaveEvent, client, puts
<1>3. PICK r \in Resume(run) : Go(j, r)
  BY DEF SaveEvent
<1>4. Allowed' = Allowed
  BY <1>2, <1>3 DEF Go, Allowed
<1>5. event \in Lists /\ event' = [event EXCEPT ![run.ev] = row]
  BY DEF TypeInv, EventTypes, SaveEvent
<1>6. row.last = run.value /\ run.value # None
  BY <1>1, BoundsAssumption, NoneAssumption DEF EventRecords, RunShape, Times
<1>7. /\ run.then \in {"segment", "stamp", "next"}
      /\ run.then = "segment" => run.list[run.ev].last = None
      /\ Early(run) <=> run.then = "segment"
  BY <1>1 DEF Knows, Early
<1>8. \A e \in Events : event'[e] = IF e = run.ev THEN row ELSE event[e]
  BY <1>5 DEF Lists
<1> HIDE DEF run, row
\* What n is about before the run moves on, with the time stored
<1>9. ASSUME NEW e \in Events, NEW p \in Versions, NEW n \in Nat, Tally(run, n, Allowed, event[e], e, p)
      PROVE  /\ n <= Allowed \/ Before(p[2], event'[e].last) \/ (~event'[e].live /\ run.ev # e /\ e \notin run.todo)
             /\ (e \in run.todo \/ (run.ev = e /\ Early(run))) => n <= Allowed \/ Before(p[2], run.list[e].last)
             /\ Late(run, e) => n <= Allowed \/ p[2] < run.value
  <2>1. (e \in run.todo \/ (run.ev = e /\ Early(run))) => n <= Allowed \/ Before(p[2], run.list[e].last)
    BY <1>1, <1>9 DEF Tally, Ahead
  <2>2. Late(run, e) => n <= Allowed \/ p[2] < run.value
    BY <1>1, <1>9 DEF Tally
  <2>3. CASE run.ev # e
    <3>1. ~WillStore(run, e) /\ event'[e] = event[e]
      BY <1>8, <2>3 DEF WillStore, Late
    <3>2. QED
      BY <1>1, <1>9, <2>1, <2>2, <2>3, <3>1 DEF Tally, Gone
  <2>4. CASE run.ev = e /\ Early(run)
    <3>1. n <= Allowed
      BY <1>7, <2>1, <2>4 DEF Before
    <3>2. QED
      BY <2>1, <2>2, <3>1
  <2>5. CASE run.ev = e /\ ~Early(run)
    <3>1. n <= Allowed \/ p[2] < run.value
      BY <1>1, <2>2, <2>5 DEF Late
    <3>2. event'[e].last = run.value
      BY <1>6, <1>8, <2>5
    <3>3. QED
      BY <1>6, <2>1, <2>2, <3>1, <3>2 DEF Before
  <2>6. QED
    BY <2>3, <2>4, <2>5
<1>10. CASE run.then = "next"
  <2>1. r \in Onward(run.todo, run.list)
    BY <1>3, <1>10 DEF Resume
  <2>2. ASSUME NEW e \in Events, NEW p \in Versions, NEW n \in Nat, Tally(run, n, Allowed, event[e], e, p)
        PROVE  Tally(r, n, Allowed, event'[e], e, p)
    BY <1>9, <2>1, <2>2, OnwardTally
  <2>3. r = None \/ (Knows(r, clock) /\ Source(r, targets'))
    BY <2>1, OnwardKnows
  <2>4. QED
    BY <1>2, <1>3, <1>4, <2>2, <2>3, CountMove, StepsAre, NothingSteady DEF run
<1>11. CASE run.then # "next"
  <2>1. r = [run EXCEPT !.at = run.then, !.copy = None]
    BY <1>3, <1>11 DEF Resume
  <2>2. /\ r \in RunShape /\ r.mode = "auto" /\ r.ev = run.ev /\ r.todo = run.todo /\ r.list = run.list
        /\ r.value = run.value /\ r.at = run.then
    BY <1>1, <1>7, <1>11, <2>1 DEF RunShape, Stages
  <2>3. r # None
    BY <2>2, RunIsOne
  <2>4. r.at \in {"segment", "stamp"} /\ (Early(r) <=> Early(run))
    BY <1>7, <1>11, <2>2 DEF Early
  <2>5. Knows(r, clock) /\ Source(r, targets')
    BY <2>4 DEF Knows, Source
  <2>6. ASSUME NEW e \in Events, NEW p \in Versions, NEW n \in Nat, Tally(run, n, Allowed, event[e], e, p)
        PROVE  Tally(r, n, Allowed, event'[e], e, p)
    <3>1. ~event'[e].live /\ run.ev # e /\ e \notin run.todo => Gone(r, event'[e], e)
      BY <2>2 DEF Gone
    <3>2. Ahead(r, e) => e \in run.todo \/ (run.ev = e /\ Early(run))
      BY <2>2, <2>4 DEF Ahead
    <3>3. (Late(r, e) => Late(run, e)) /\ Apart(r)
      BY <1>1, <2>2, <2>4, <2>6 DEF Late, Apart, Tally
    <3>4. QED
      BY <1>9, <2>2, <2>3, <2>4, <2>6, <3>1, <3>2, <3>3 DEF Tally
  <2>7. QED
    BY <1>2, <1>3, <1>4, <2>5, <2>6, CountMove, StepsAre, NothingSteady DEF run
<1>12. QED
  BY <1>10, <1>11

LEMMA CountSegment ==
    ASSUME TypeInv, CountInv, \A i, x \in Jobs : i = x, NEW j \in Jobs, ReadSegment(j)
    PROVE  CountInv'
<1> DEFINE run == job[j]
           then == IF segment[job[j].seg] = "filtered" THEN "query" ELSE "next"
           q == [run EXCEPT !.at = "connect", !.then = then]
<1>1. run # None /\ run \in RunShape /\ run.at = "segment"
  BY CountHere DEF ReadSegment, At
<1>2. UNCHANGED <<targets, event, clock, sender, put, requests, failures>>
  BY DEF ReadSegment, client, store, puts
<1>3. Throw(j) \/ Go(j, q)
  BY DEF ReadSegment
<1>4. then \in {"query", "next"}
  OBVIOUS
<1>5. CASE Throw(j)
  <2>1. \A e : ~WillStore(run, e)
    BY <1>1 DEF WillStore, Late, Early
  <2>2. QED
    BY <1>1, <1>2, <1>5, <2>1, CountMove, StepsAre, NothingSteady, ThrowTally
<1>6. CASE Go(j, q)
  <2> HIDE DEF run, then
  <2>1. /\ q \in RunShape /\ q.mode = run.mode /\ q.ev = run.ev /\ q.todo = run.todo /\ q.list = run.list
        /\ q.value = run.value /\ q.at = "connect" /\ q.then = then
    BY <1>1, <1>4 DEF RunShape, Stages
  <2> HIDE DEF q
  <2>2. Early(q) /\ Early(run)
    BY <1>1, <2>1 DEF Early
  <2>3. \A e : ~WillStore(run, e)
    BY <2>2 DEF WillStore, Late
  <2>4. Knows(q, clock) /\ Source(q, targets')
    BY <1>4, <2>1 DEF Knows, Source
  <2>5. ASSUME NEW e \in Events, NEW p \in Versions, NEW n \in Nat, Tally(run, n, Allowed, event[e], e, p)
        PROVE  Tally(q, n, Allowed, event[e], e, p)
    BY <1>1, <2>1, <2>2, <2>3, <2>5, TallyOn
  <2>6. Allowed' = Allowed
    BY <1>2, <1>6 DEF Go, Allowed
  <2>7. QED
    BY <1>2, <1>6, <2>4, <2>5, <2>6, CountMove, StepsAre, NothingSteady DEF run
<1>7. QED
  BY <1>3, <1>5, <1>6

LEMMA CountConnect ==
    ASSUME TypeInv, CountInv, \A i, x \in Jobs : i = x, NEW j \in Jobs, Connect(j)
    PROVE  CountInv'
<1> DEFINE run == job[j]
<1>1. run # None /\ run \in RunShape /\ Knows(run, clock) /\ run.at = "connect" /\ run.mode = "auto"
  BY CountHere DEF Connect, At
<1>2. UNCHANGED <<targets, event, clock, sender, put, requests, failures>>
  BY DEF Connect, client, store, puts
<1>3. PICK r \in Resume(run) : Go(j, r)
  BY DEF Connect
<1>4. Allowed' = Allowed
  BY <1>2, <1>3 DEF Go, Allowed
<1> HIDE DEF run
<1>5. run.then \in {"query", "next"} /\ Early(run)
  BY <1>1 DEF Knows, Early
<1>6. \A e : ~WillStore(run, e)
  BY <1>5 DEF WillStore, Late
<1>7. CASE run.then = "next"
  <2>1. r \in Onward(run.todo, run.list)
    BY <1>3, <1>7 DEF Resume
  <2>2. ASSUME NEW e \in Events, NEW p \in Versions, NEW n \in Nat, Tally(run, n, Allowed, event[e], e, p)
        PROVE  Tally(r, n, Allowed, event[e], e, p)
    BY <1>1, <1>6, <2>1, <2>2, LeaveTally
  <2>3. r = None \/ (Knows(r, clock) /\ Source(r, targets'))
    BY <2>1, OnwardKnows
  <2>4. QED
    BY <1>2, <1>3, <1>4, <2>2, <2>3, CountMove, StepsAre, NothingSteady DEF run
<1>8. CASE run.then = "query"
  <2>1. r = [run EXCEPT !.at = run.then, !.copy = None]
    BY <1>3, <1>8 DEF Resume
  <2>2. /\ r \in RunShape /\ r.mode = run.mode /\ r.ev = run.ev /\ r.todo = run.todo /\ r.list = run.list
        /\ r.value = run.value /\ r.at = "query"
    BY <1>1, <1>8, <2>1 DEF RunShape, Stages
  <2>3. Early(r)
    BY <2>2 DEF Early
  <2>4. Knows(r, clock) /\ Source(r, targets')
    BY <2>2 DEF Knows, Source
  <2>5. ASSUME NEW e \in Events, NEW p \in Versions, NEW n \in Nat, Tally(run, n, Allowed, event[e], e, p)
        PROVE  Tally(r, n, Allowed, event[e], e, p)
    BY <1>1, <1>5, <1>6, <2>2, <2>3, <2>5, TallyOn
  <2>6. QED
    BY <1>2, <1>3, <1>4, <2>4, <2>5, CountMove, StepsAre, NothingSteady DEF run
<1>9. QED
  BY <1>5, <1>7, <1>8

LEMMA CountQuery ==
    ASSUME TypeInv, CountInv, \A i, x \in Jobs : i = x, NEW j \in Jobs, Query(j)
    PROVE  CountInv'
<1> DEFINE run == job[j]
           rows == {<<r, ver[r]>> : r \in {x \in Rows : RowDb[x] = pool}}
           q == [run EXCEPT !.at = "answer", !.rows = rows]
<1>1. run # None /\ run \in RunShape /\ run.at = "query"
  BY CountHere DEF Query, At
<1>2. UNCHANGED <<targets, event, clock, sender, put, requests, failures>>
  BY DEF Query, client, store, puts
<1>3. Throw(j) \/ Go(j, q)
  BY DEF Query
<1>4. rows \subseteq Versions /\ \A x \in rows : x[2] <= clock
  BY BoundsAssumption DEF TypeInv, ClientTypes, Versions, Times
<1>5. CASE Throw(j)
  <2>1. \A e : ~WillStore(run, e)
    BY <1>1 DEF WillStore, Late, Early
  <2>2. QED
    BY <1>1, <1>2, <1>5, <2>1, CountMove, StepsAre, NothingSteady, ThrowTally
<1>6. CASE Go(j, q)
  <2> HIDE DEF run, rows
  <2>1. /\ q \in RunShape /\ q.mode = run.mode /\ q.ev = run.ev /\ q.todo = run.todo /\ q.list = run.list
        /\ q.value = run.value /\ q.at = "answer" /\ q.rows = rows
    BY <1>1, <1>4 DEF RunShape, Stages
  <2> HIDE DEF q
  <2>2. Early(q) /\ Early(run)
    BY <1>1, <2>1 DEF Early
  <2>3. \A e : ~WillStore(run, e)
    BY <2>2 DEF WillStore, Late
  <2>4. Knows(q, clock) /\ Source(q, targets')
    BY <1>4, <2>1 DEF Knows, Source
  <2>5. ASSUME NEW e \in Events, NEW p \in Versions, NEW n \in Nat, Tally(run, n, Allowed, event[e], e, p)
        PROVE  Tally(q, n, Allowed, event[e], e, p)
    BY <1>1, <2>1, <2>2, <2>3, <2>5, TallyOn
  <2>6. Allowed' = Allowed
    BY <1>2, <1>6 DEF Go, Allowed
  <2>7. QED
    BY <1>2, <1>6, <2>4, <2>5, <2>6, CountMove, StepsAre, NothingSteady DEF run
<1>7. QED
  BY <1>3, <1>5, <1>6

LEMMA CountAnswer ==
    ASSUME TypeInv, CountInv, \A i, x \in Jobs : i = x, NEW j \in Jobs, Answer(j)
    PROVE  CountInv'
<1> DEFINE run == job[j]
           kept == IF run.mode = "auto" THEN {x \in run.rows : ChangedSince(x[2], run.list[run.ev].last)}
                                        ELSE run.rows
           a == [run EXCEPT !.at = "numbers"]
           b == [run EXCEPT !.at = "insert", !.rows = kept,
                            !.left = Numbered(kept), !.value = clock + 1]
<1>1. run # None /\ RunGood(run, Ids) /\ run \in RunShape /\ Knows(run, clock) /\ run.at = "answer"
  BY CountHere DEF Answer, At
<1>2. UNCHANGED <<targets, event, clock, sender, put, requests, failures>>
  BY DEF Answer, client, store, puts
<1>3. IF run.mode = "reserve" THEN Go(j, a) ELSE Go(j, Inserted(b))
  BY DEF Answer
<1>4. clock \in Nat /\ clock + 1 \in Times
  BY BoundsAssumption DEF TypeInv, ClientTypes, Times
<1>5. /\ kept \subseteq run.rows /\ Numbered(kept) \subseteq kept
      /\ run.mode = "auto" => \A x \in kept : ChangedSince(x[2], run.list[run.ev].last)
  BY DEF Numbered
<1>6. Allowed' = Allowed /\ Allowed \in Nat
  BY <1>2, <1>3, AllowedNat DEF Go, Allowed, CountInv
<1> HIDE DEF run, kept
<1>7. CASE run.mode = "reserve"
  <2>1. a.at = "numbers" /\ a.mode = run.mode
    BY <1>1 DEF RunShape
  <2> HIDE DEF a
  <2>2. ASSUME NEW e \in Events, NEW p \in Versions, NEW n \in Nat, Tally(run, n, Allowed, event[e], e, p)
        PROVE  Tally(a, n, Allowed, event[e], e, p)
    BY <1>1, <1>7, <2>1, <2>2, TallyElse
  <2>3. Knows(a, clock) /\ Source(a, targets')
    BY <2>1 DEF Knows, Source
  <2>4. QED
    BY <1>2, <1>3, <1>6, <1>7, <2>2, <2>3, CountMove, StepsAre, NothingSteady DEF run
<1>8. CASE run.mode # "reserve"
  <2>1. /\ b \in RunShape /\ b.at = "insert" /\ b.left = Numbered(kept) /\ b.value = clock + 1
        /\ b.mode = run.mode /\ b.ev = run.ev /\ b.todo = run.todo /\ b.list = run.list /\ b.rows = kept
    BY <1>1, <1>4, <1>5 DEF RunShape, Stages
  <2> HIDE DEF b
  <2>2. Placed(b.mode, b.at) /\ ~Early(b) /\ Early(run) /\ b # None
    BY <1>1, <1>8, <2>1, RunIsOne DEF Placed, Early
  <2>3. Knows(b, clock)
    <3>1. \A x \in kept : x[2] <= clock /\ x[2] \in Nat
      BY <1>1, <1>5, BoundsAssumption DEF Knows, RunShape, Versions, Times
    <3>2. \A x \in kept : x[2] < clock + 1
      BY <1>4, <3>1
    <3>3. QED
      BY <2>1, <3>1, <3>2 DEF Knows
  <2>4. ASSUME NEW e \in Events, NEW p \in Versions, NEW n \in Nat, Tally(run, n, Allowed, event[e], e, p),
               n > 0 => p[2] <= clock
        PROVE  Tally(b, n, Allowed, event[e], e, p)
    <3>1. CASE run.mode # "auto"
      BY <1>1, <2>1, <2>4, <3>1, TallyElse
    <3>2. CASE run.mode = "auto"
      <4>1. ~WillStore(run, e) /\ (Gone(run, event[e], e) => Gone(b, event[e], e))
        BY <1>1, <2>1, <2>2 DEF WillStore, Late, Gone
      <4>2. e \in run.todo \/ run.ev = e => n <= Allowed \/ Before(p[2], run.list[e].last)
        BY <1>1, <2>2, <2>4, <3>2 DEF Tally, Ahead
      <4>3. n <= Allowed \/ p[2] < clock + 1
        <5>1. p[2] \in Nat
          BY BoundsAssumption DEF Versions, Times
        <5>2. QED
          BY <1>4, <1>6, <2>4, <5>1
      <4>4. ASSUME run.ev = e, p \in Numbered(kept) PROVE n <= Allowed
        <5>1. ChangedSince(p[2], run.list[e].last)
          BY <1>5, <3>2, <4>4
        <5>2. run.list[e].last \in Times \cup {None} /\ p[2] \in Nat
          BY <1>1, BoundsAssumption DEF RunShape, Lists, EventRecords, Versions, Times
        <5>3. ~Before(p[2], run.list[e].last)
          BY <5>1, <5>2, BoundsAssumption DEF ChangedSince, Before, Times
        <5>4. QED
          BY <4>2, <4>4, <5>3
      <4>5. (Ahead(b, e) => e \in run.todo) /\ (Late(b, e) => run.ev = e)
        BY <2>1, <2>2 DEF Ahead, Late
      <4>6. (n <= Allowed \/ Before(p[2], event[e].last) \/ Gone(b, event[e], e)) /\ Apart(b)
        BY <1>1, <2>1, <2>4, <4>1 DEF Tally, Apart
      <4>7. QED
        BY <2>1, <2>2, <4>2, <4>3, <4>4, <4>5, <4>6 DEF Tally
    <3>3. QED
      BY <3>1, <3>2
  <2>5. ASSUME NEW e \in Events, NEW p \in Versions, NEW n \in Nat, Tally(run, n, Allowed, event[e], e, p),
               n > 0 => p[2] <= clock
        PROVE  Tally(Inserted(b), n, Allowed, event[e], e, p)
    BY <2>1, <2>2, <2>4, <2>5, InsertedTally
  <2>6. Inserted(b) = None \/ (Knows(Inserted(b), clock) /\ Source(Inserted(b), targets'))
    BY <2>1, <2>3, InsertedKnows
  <2>7. Go(j, Inserted(b))
    BY <1>3, <1>8
  <2>8. QED
    BY <1>2, <1>6, <2>5, <2>6, <2>7, CountMove, StepsAre, NothingSteady DEF run
<1>9. QED
  BY <1>7, <1>8

LEMMA CountNumbers ==
    ASSUME TypeInv, CountInv, \A i, x \in Jobs : i = x, NEW j \in Jobs, ReadNumbers(j)
    PROVE  CountInv'
<1> DEFINE run == job[j]
<1>1. run # None /\ run \in RunShape /\ run.at = "numbers"
  BY CountHere DEF ReadNumbers, At
<1>2. UNCHANGED <<targets, event, clock, sender, put, requests, failures>>
  BY DEF ReadNumbers, client, store, puts
<1>3. PICK f \in IdMaps :
         Go(j, Scheduled([run EXCEPT !.at = "schedule", !.left = run.rows, !.idOf = f]))
  BY NumberMaps
<1> DEFINE q == [run EXCEPT !.at = "schedule", !.left = run.rows, !.idOf = f]
<1>4. Go(j, Scheduled(q))
  BY <1>3
<1>5. Allowed' = Allowed
  BY <1>2, <1>4 DEF Go, Allowed
<1> HIDE DEF run
<1>6. /\ q \in RunShape /\ q.mode = run.mode /\ q.ev = run.ev /\ q.todo = run.todo /\ q.list = run.list
      /\ q.value = run.value /\ q.at = "schedule" /\ q.ids = run.ids
  BY <1>1 DEF RunShape, Stages
<1> HIDE DEF q
<1>7. ~Early(q) /\ ~Early(run)
  BY <1>1, <1>6 DEF Early
<1>8. \A e : WillStore(run, e) => WillStore(q, e)
  BY <1>1, <1>6, <1>7 DEF WillStore, Late
<1>9. ASSUME NEW e \in Events, NEW p \in Versions, NEW n \in Nat, Tally(run, n, Allowed, event[e], e, p)
      PROVE  Tally(Scheduled(q), n, Allowed, event[e], e, p)
  <2>1. Tally(q, n, Allowed, event[e], e, p)
    BY <1>1, <1>6, <1>7, <1>8, <1>9, TallyOn
  <2>2. QED
    BY <1>6, <2>1, ScheduledTally
<1>10. Scheduled(q) = None \/ (Knows(Scheduled(q), clock) /\ Source(Scheduled(q), targets'))
  BY <1>6, ScheduledKnows
<1>11. QED
  BY <1>2, <1>4, <1>5, <1>9, <1>10, CountMove, StepsAre, NothingSteady DEF run

\* It goes on after its answer, with its targets.
LEMMA TallyLate ==
    ASSUME NEW run, NEW r \in RunShape, NEW n, NEW k, NEW row, NEW e, NEW p, run # None,
           r.mode = run.mode, r.ev = run.ev, r.todo = run.todo, r.list = run.list, r.value = run.value,
           r.ids = run.ids, run.at \in {"schedule", "reserve", "copy"}, r.at \in {"schedule", "reserve", "copy"},
           Tally(run, n, k, row, e, p)
    PROVE  Tally(r, n, k, row, e, p)
<1>1. ~Early(r) /\ ~Early(run)
  BY DEF Early
<1>2. WillStore(run, e) => WillStore(r, e)
  BY <1>1 DEF WillStore, Late
<1>3. QED
  BY <1>1, <1>2, TallyOn

\* A run with targets that throws is counted; one without has nothing to store.
LEMMA CountThrow ==
    ASSUME TypeInv, CountInv, \A i, x \in Jobs : i = x, NEW j \in Jobs, job[j] # None, Throw(j),
           job[j].at \notin {"find", "save"},
           UNCHANGED <<targets, event, clock, sender, put, requests, failures>>
    PROVE  CountInv'
<1>1. \A e : WillStore(job[j], e) => job[j].ids # {}
  BY DEF WillStore
<1>2. QED
  BY <1>1, CountMove, StepsAre, NothingSteady, ThrowTally

LEMMA CountFindReserved ==
    ASSUME TypeInv, CountInv, \A i, x \in Jobs : i = x, NEW j \in Jobs, FindReserved(j)
    PROVE  CountInv'
<1> DEFINE run == job[j]
<1>1. run # None /\ RunGood(run, Ids) /\ run \in RunShape /\ run.at = "schedule"
  BY CountHere DEF FindReserved, At
<1>2. UNCHANGED <<targets, event, clock, sender, put, requests, failures>>
  BY DEF FindReserved, client, store, puts
<1>3. PICK p \in run.left :
         \/ /\ Number[p[1]] \in DOMAIN run.idOf
            /\ Go(j, [run EXCEPT !.at = "reserve", !.left = @ \ {p}, !.row = p[1],
                                 !.source = targets[run.idOf[Number[p[1]]]]])
         \/ Throw(j)
         \/ Go(j, Scheduled([run EXCEPT !.left = @ \ {p}]))
  BY DEF FindReserved
<1> DEFINE i == run.idOf[Number[p[1]]]
           a == [run EXCEPT !.at = "reserve", !.left = @ \ {p}, !.row = p[1], !.source = targets[i]]
           b == [run EXCEPT !.left = @ \ {p}]
<1>4. ASSUME Number[p[1]] \in DOMAIN run.idOf, Go(j, a) PROVE CountInv'
  <2>1. targets[i] \in TargetRecords /\ p[1] \in Rows
    BY <1>1, <1>4, TargetHere DEF RunGood, RunShape, Versions
  <2>2. Go(j, a) /\ Allowed' = Allowed
    BY <1>2, <1>4 DEF Go, Allowed
  <2>3. i = run.idOf[Number[p[1]]]
    OBVIOUS
  <2> HIDE DEF run, i
  <2>4. /\ a \in RunShape /\ a.at = "reserve" /\ a.source = targets[i] /\ a.mode = run.mode /\ a.ev = run.ev
        /\ a.todo = run.todo /\ a.list = run.list /\ a.value = run.value /\ a.ids = run.ids
        /\ a.row = p[1] /\ a.idOf = run.idOf
    BY <1>1, <2>1 DEF RunShape, Stages
  <2> HIDE DEF a
  <2>5. Knows(a, clock) /\ Source(a, targets')
    BY <1>2, <2>3, <2>4 DEF Knows, Source, Like
  <2>6. ASSUME NEW e \in Events, NEW x \in Versions, NEW n \in Nat, Tally(run, n, Allowed, event[e], e, x)
        PROVE  Tally(a, n, Allowed, event[e], e, x)
    BY <1>1, <2>4, <2>6, TallyLate
  <2>7. QED
    BY <1>2, <2>2, <2>5, <2>6, CountMove, StepsAre, NothingSteady DEF run
<1>5. ASSUME Go(j, Scheduled(b)) PROVE CountInv'
  <2>1. Go(j, Scheduled(b)) /\ Allowed' = Allowed
    BY <1>2, <1>5 DEF Go, Allowed
  <2> HIDE DEF run
  <2>2. /\ b \in RunShape /\ b.at = "schedule" /\ b.mode = run.mode /\ b.ev = run.ev
        /\ b.todo = run.todo /\ b.list = run.list /\ b.value = run.value /\ b.ids = run.ids
    BY <1>1 DEF RunShape
  <2> HIDE DEF b
  <2>3. ASSUME NEW e \in Events, NEW x \in Versions, NEW n \in Nat, Tally(run, n, Allowed, event[e], e, x)
        PROVE  Tally(Scheduled(b), n, Allowed, event[e], e, x)
    <3>1. Tally(b, n, Allowed, event[e], e, x)
      BY <1>1, <2>2, <2>3, TallyLate
    <3>2. QED
      BY <2>2, <3>1, ScheduledTally
  <2>4. Scheduled(b) = None \/ (Knows(Scheduled(b), clock) /\ Source(Scheduled(b), targets'))
    BY <2>2, ScheduledKnows
  <2>5. QED
    BY <1>2, <2>1, <2>3, <2>4, CountMove, StepsAre, NothingSteady DEF run
<1>6. CASE Throw(j)
  BY <1>1, <1>2, <1>6, CountThrow
<1>7. QED
  BY <1>3, <1>4, <1>5, <1>6

LEMMA CountRecurring ==
    ASSUME TypeInv, CountInv, \A i, x \in Jobs : i = x, NEW j \in Jobs, ReserveRecurring(j)
    PROVE  CountInv'
<1> DEFINE run == job[j]
<1>1. run # None /\ RunGood(run, Ids) /\ run \in RunShape /\ run.at = "schedule"
  BY CountHere DEF ReserveRecurring, At
<1>2. UNCHANGED <<targets, event, clock, sender, put, requests, failures>>
  BY DEF ReserveRecurring, client, store, puts
<1>3. PICK x \in run.left :
         \/ \E i \in FoundFor(run, Number[x[1]]), n \in ReservationDates :
               Go(j, [run EXCEPT !.at = "copy", !.left = @ \ {x}, !.row = x[1],
                                 !.source = targets[i], !.copies = n])
         \/ Throw(j)
  BY DEF ReserveRecurring
<1>4. ASSUME NEW i \in FoundFor(run, Number[x[1]]), NEW n \in ReservationDates,
             Go(j, [run EXCEPT !.at = "copy", !.left = @ \ {x}, !.row = x[1],
                               !.source = targets[i], !.copies = n])
      PROVE  CountInv'
  <2> DEFINE q == [run EXCEPT !.at = "copy", !.left = @ \ {x}, !.row = x[1],
                              !.source = targets[i], !.copies = n]
  <2>1. i \in Ids /\ x[1] \in Rows /\ n \in 0..MaxDates
    BY <1>1 DEF FoundFor, RunGood, RunShape, Versions, ReservationDates
  <2>2. targets[i] \in TargetRecords
    BY <2>1, TargetHere
  <2>3. Go(j, q) /\ Allowed' = Allowed
    BY <1>2, <1>4 DEF Go, Allowed
  <2> HIDE DEF run
  <2>4. /\ q \in RunShape /\ q.at = "copy" /\ q.mode = run.mode /\ q.ev = run.ev
        /\ q.todo = run.todo /\ q.list = run.list /\ q.value = run.value /\ q.ids = run.ids
    BY <1>1, <2>1, <2>2 DEF RunShape, Stages
  <2> HIDE DEF q
  <2>5. Knows(q, clock) /\ Source(q, targets')
    BY <2>4 DEF Knows, Source
  <2>6. ASSUME NEW e \in Events, NEW p \in Versions, NEW m \in Nat, Tally(run, m, Allowed, event[e], e, p)
        PROVE  Tally(q, m, Allowed, event[e], e, p)
    BY <1>1, <2>4, <2>6, TallyLate
  <2>7. QED
    BY <1>2, <2>3, <2>5, <2>6, CountMove, StepsAre, NothingSteady DEF run
<1>5. CASE Throw(j)
  BY <1>1, <1>2, <1>5, CountThrow
<1>6. QED
  BY <1>3, <1>4, <1>5

LEMMA CountStamp ==
    ASSUME TypeInv, CountInv, \A i, x \in Jobs : i = x, NEW j \in Jobs, Stamp(j)
    PROVE  CountInv'
<1> DEFINE run == job[j]
<1>1. run # None /\ run \in RunShape /\ run.at = "stamp" /\ run.mode = "auto"
  BY CountHere DEF Stamp, At
<1>2. UNCHANGED <<targets, event, clock, sender, put, requests, failures>>
  BY DEF Stamp, client, store, puts
<1>3. ASSUME run.ids = {}, NEW r \in Onward(run.todo, run.list), Go(j, r) PROVE CountInv'
  <2>1. Allowed' = Allowed
    BY <1>2, <1>3 DEF Go, Allowed
  <2>2. \A e : ~WillStore(run, e)
    BY <1>1, <1>3 DEF WillStore
  <2>3. ASSUME NEW e \in Events, NEW p \in Versions, NEW n \in Nat, Tally(run, n, Allowed, event[e], e, p)
        PROVE  Tally(r, n, Allowed, event[e], e, p)
    BY <1>1, <1>3, <2>2, <2>3, LeaveTally
  <2>4. r = None \/ (Knows(r, clock) /\ Source(r, targets'))
    BY <1>3, OnwardKnows
  <2>5. QED
    BY <1>2, <1>3, <2>1, <2>3, <2>4, CountMove, StepsAre, NothingSteady
<1>4. ASSUME NEW i \in run.ids, Go(j, [run EXCEPT !.at = "find", !.then = "stamp", !.ids = @ \ {i}])
      PROVE  CountInv'
  <2> DEFINE q == [run EXCEPT !.at = "find", !.then = "stamp", !.ids = @ \ {i}]
  <2>1. Go(j, q) /\ Allowed' = Allowed
    BY <1>2, <1>4 DEF Go, Allowed
  <2> HIDE DEF run
  <2>2. /\ q \in RunShape /\ q.mode = run.mode /\ q.ev = run.ev /\ q.todo = run.todo /\ q.list = run.list
        /\ q.value = run.value /\ q.at = "find" /\ q.then = "stamp"
    BY <1>1 DEF RunShape, Stages
  <2> HIDE DEF q
  <2>3. ~Early(q) /\ ~Early(run)
    BY <1>1, <2>2 DEF Early
  <2>4. \A e : WillStore(run, e) => WillStore(q, e)
    BY <2>2, <2>3 DEF WillStore, Late
  <2>5. Knows(q, clock) /\ Source(q, targets')
    BY <2>2 DEF Knows, Source
  <2>6. ASSUME NEW e \in Events, NEW p \in Versions, NEW n \in Nat, Tally(run, n, Allowed, event[e], e, p)
        PROVE  Tally(q, n, Allowed, event[e], e, p)
    BY <1>1, <2>2, <2>3, <2>4, <2>6, TallyOn
  <2>7. QED
    BY <1>2, <2>1, <2>5, <2>6, CountMove, StepsAre, NothingSteady DEF run
<1>5. CASE Throw(j)
  BY <1>1, <1>2, <1>5, CountThrow
<1>6. QED
  BY <1>3, <1>4, <1>5 DEF Stamp

LEMMA TargetSteady ==
    ASSUME TypeInv, NEW i \in Ids, NEW STATE t, t \in TargetRecords, Like(t, targets[i]),
           targets' = [targets EXCEPT ![i] = t], handed' = handed,
           unmarked' = unmarked \/ unmarked' = [unmarked EXCEPT ![i] = @ + 1]
    PROVE  Steady
<1>1. Ids' = Ids /\ \A k \in Ids : targets'[k] = IF k = i THEN t ELSE targets[k]
  BY TargetChanged DEF TypeInv
<1>2. QED
  BY <1>1 DEF Steady, Like

\* The run is done with its row, and goes back to the others.
LEMMA CountBack ==
    ASSUME TypeInv, CountInv, \A i, x \in Jobs : i = x, NEW j \in Jobs, job[j] # None,
           job[j].at \in {"reserve", "copy"}, Steady,
           Go(j, Scheduled([job[j] EXCEPT !.at = "schedule", !.row = None, !.source = None])),
           UNCHANGED <<event, clock, sender, put, requests, failures>>
    PROVE  CountInv'
<1> DEFINE run == job[j]
           q == [run EXCEPT !.at = "schedule", !.row = None, !.source = None]
<1>1. run # None /\ run \in RunShape /\ run.at \in {"reserve", "copy"}
  BY CountHere
<1>2. Go(j, Scheduled(q)) /\ Allowed' = Allowed
  BY DEF Go, Allowed
<1> HIDE DEF run
<1>3. /\ q \in RunShape /\ q.at = "schedule" /\ q.mode = run.mode /\ q.ev = run.ev
      /\ q.todo = run.todo /\ q.list = run.list /\ q.value = run.value /\ q.ids = run.ids
  BY <1>1 DEF RunShape, Stages
<1> HIDE DEF q
<1>4. ASSUME NEW e \in Events, NEW x \in Versions, NEW n \in Nat, Tally(run, n, Allowed, event[e], e, x)
      PROVE  Tally(Scheduled(q), n, Allowed, event[e], e, x)
  <2>1. Tally(q, n, Allowed, event[e], e, x)
    BY <1>1, <1>3, <1>4, TallyLate
  <2>2. QED
    BY <1>3, <2>1, ScheduledTally
<1>5. Scheduled(q) = None \/ (Knows(Scheduled(q), clock) /\ Source(Scheduled(q), targets'))
  BY <1>3, ScheduledKnows
<1>6. QED
  BY <1>2, <1>4, <1>5, CountMove, StepsAre DEF run

LEMMA CountSaveReserved ==
    ASSUME TypeInv, CountInv, \A i, x \in Jobs : i = x, NEW j \in Jobs, SaveReserved(j)
    PROVE  CountInv'
<1> DEFINE i == job[j].idOf[Number[job[j].row]]
           t == [job[j].source EXCEPT !.reserved = TRUE]
<1>1. job[j] # None /\ RunGood(job[j], Ids) /\ job[j].at = "reserve" /\ Source(job[j], targets)
  BY CountHere DEF SaveReserved, At
<1>2. i \in Ids /\ t \in TargetRecords /\ Like(t, targets[i])
  BY <1>1 DEF RunGood, TargetRecords, Source, Like
<1>3. /\ targets' = [targets EXCEPT ![i] = t] /\ handed' = handed
      /\ unmarked' = unmarked \/ unmarked' = [unmarked EXCEPT ![i] = @ + 1]
      /\ UNCHANGED <<event, clock, sender, put, requests, failures>>
      /\ Go(j, Scheduled([job[j] EXCEPT !.at = "schedule", !.row = None, !.source = None]))
  BY DEF SaveReserved, client, puts
<1> HIDE DEF i, t
<1>4. Steady
  BY <1>2, <1>3, TargetSteady
<1>5. QED
  BY <1>1, <1>3, <1>4, CountBack

LEMMA CountDelete ==
    ASSUME TypeInv, CountInv, \A i, x \in Jobs : i = x, NEW j \in Jobs, DeleteTarget(j)
    PROVE  CountInv'
<1>1. job[j] # None /\ RunGood(job[j], Ids) /\ job[j].at = "copy"
  BY CountHere DEF DeleteTarget, At
<1>2. UNCHANGED <<event, clock, sender, put, requests, failures, handed, unmarked>>
  BY DEF DeleteTarget, client, puts, sends
<1>3. ASSUME NEW i \in FoundFor(job[j], Number[job[j].row]), targets' = [targets EXCEPT ![i].live = FALSE],
             Go(j, Scheduled([job[j] EXCEPT !.at = "schedule", !.row = None, !.source = None]))
      PROVE  CountInv'
  <2> DEFINE t == [targets[i] EXCEPT !.live = FALSE]
  <2>1. i \in Ids
    BY <1>1 DEF FoundFor, RunGood
  <2>2. t \in TargetRecords /\ targets' = [targets EXCEPT ![i] = t]
    BY <1>3, <2>1, TargetHere
  <2>3. Like(t, targets[i])
    BY <2>1, TargetHere DEF Like, TargetRecords
  <2> HIDE DEF t
  <2>4. Steady
    BY <1>2, <2>1, <2>2, <2>3, TargetSteady
  <2>5. QED
    BY <1>1, <1>2, <1>3, <2>4, CountBack
<1>4. CASE Throw(j) /\ UNCHANGED targets
  BY <1>1, <1>2, <1>4, CountThrow
<1>5. QED
  BY <1>3, <1>4 DEF DeleteTarget

\* What a step that makes a target has to show.
LEMMA CountAppend ==
    ASSUME TypeInv, CountInv, \A i, x \in Jobs : i = x, NEW j \in Jobs, NEW STATE r, Go(j, r),
           NEW STATE t, t \in TargetRecords, ~t.copy => t.ver <= clock,
           targets' = Append(targets, t), handed' = Append(handed, 0), unmarked' = Append(unmarked, 0),
           UNCHANGED <<event, clock, sender, put, requests, failures>>,
           r = None \/ (Knows(r, clock) /\ Source(r, targets')),
           \A e \in Events, p \in Versions, n \in Nat :
              Tally(job[j], n, Allowed, event[e], e, p) =>
                 LET hit == t.auto /\ ~t.copy /\ t.event = e /\ t.row = p[1] /\ t.ver = p[2]
                     m == IF hit THEN n + 1 ELSE n
                 IN  (hit => n <= Allowed) /\ Tally(r, m, Allowed, event[e], e, p)
    PROVE  CountInv'
<1>1. \A x \in Jobs : job'[x] = r
  BY DEF Go, TypeInv, JobTypes
<1>2. /\ Ids' = Ids \cup {Len(targets) + 1} /\ \A i \in Ids : targets'[i] = targets[i]
      /\ targets'[Len(targets) + 1] = t
  BY TargetAppended DEF TypeInv
<1>3. Ids \subseteq Ids' /\ \A i \in Ids : Like(targets'[i], targets[i])
  BY <1>2 DEF Like
<1>4. Allowed \in Int /\ Allowed' = Allowed
  BY AllowedInt DEF Allowed, Go
<1>5. TallyInv'
  <2> SUFFICES ASSUME NEW e \in Events, NEW p \in Versions
               PROVE  /\ Made(targets', e, p) <= 1 + Allowed
                      /\ Tally(r, Made(targets', e, p), Allowed, event[e], e, p)
    BY <1>1, <1>4 DEF TallyInv
  <2> DEFINE n == Made(targets, e, p)
             hit == t.auto /\ ~t.copy /\ t.event = e /\ t.row = p[1] /\ t.ver = p[2]
             m == IF hit THEN n + 1 ELSE n
  <2>1. Made(targets', e, p) = m
    BY MadeAppended
  <2>2. n \in Nat
    BY MadeNat
  <2>3. n <= 1 + Allowed /\ Tally(job[j], n, Allowed, event[e], e, p)
    BY DEF CountInv, TallyInv
  <2>4. (hit => n <= Allowed) /\ Tally(r, m, Allowed, event[e], e, p)
    BY <2>2, <2>3
  <2> HIDE DEF n, hit
  <2>5. m <= 1 + Allowed
    BY <1>4, <2>2, <2>3, <2>4
  <2>6. QED
    BY <2>1, <2>4, <2>5
<1>6. KnowsInv'
  BY <1>1 DEF KnowsInv
<1>7. DatedInv'
  BY <1>2 DEF CountInv, DatedInv
<1>8. CopiesInv'
  BY <1>1, <1>3, MarkedKept DEF CopiesInv
<1>9. PutInv'
  BY DEF CountInv, PutInv
<1>10. QED
  BY <1>5, <1>6, <1>7, <1>8, <1>9 DEF CountInv

LEMMA CountCopy ==
    ASSUME TypeInv, CountInv, \A i, x \in Jobs : i = x, NEW j \in Jobs, CopyTarget(j)
    PROVE  CountInv'
<1> DEFINE run == job[j]
           t == [run.source EXCEPT !.reserved = TRUE, !.copy = TRUE]
           q == [run EXCEPT !.copies = @ - 1]
<1>1. run # None /\ RunGood(run, Ids) /\ run \in RunShape /\ run.at = "copy" /\ run.copies > 0
  BY CountHere DEF CopyTarget, At
<1>2. /\ targets' = Append(targets, t) /\ handed' = Append(handed, 0) /\ unmarked' = Append(unmarked, 0)
      /\ UNCHANGED <<event, clock, sender, put, requests, failures>> /\ Go(j, q)
  BY DEF CopyTarget, client, puts
<1>3. t \in TargetRecords /\ t.copy
  BY <1>1 DEF TargetRecords, RunGood
<1> HIDE DEF run, t
<1>4. /\ q \in RunShape /\ q.at = "copy" /\ q.mode = run.mode /\ q.ev = run.ev
      /\ q.todo = run.todo /\ q.list = run.list /\ q.value = run.value /\ q.ids = run.ids
  BY <1>1, BoundsAssumption DEF RunShape
<1> HIDE DEF q
<1>5. ASSUME NEW e \in Events, NEW p \in Versions, NEW n \in Nat, Tally(run, n, Allowed, event[e], e, p)
      PROVE  Tally(q, n, Allowed, event[e], e, p)
  BY <1>1, <1>4, <1>5, TallyLate
<1>6. Knows(q, clock) /\ Source(q, targets')
  BY <1>4 DEF Knows, Source
<1>7. QED
  BY <1>2, <1>3, <1>5, <1>6, CountAppend DEF run

LEMMA CountTarget ==
    ASSUME TypeInv, CountInv, \A i, x \in Jobs : i = x, NEW j \in Jobs, SaveTarget(j)
    PROVE  CountInv'
<1> DEFINE run == job[j]
           m == Len(targets) + 1
<1>1. /\ run # None /\ RunGood(run, Ids) /\ run \in RunShape /\ run.at = "insert" /\ Knows(run, clock)
      /\ m \in Nat
  BY CountHere, IdsAre DEF SaveTarget, At, TypeInv
<1>2. UNCHANGED <<event, clock, sender, put, requests, failures>>
  BY DEF SaveTarget, client, puts
<1>3. PICK x \in run.left :
          /\ targets' = Append(targets, Target(run.ev, x, run.mode = "auto"))
          /\ handed' = Append(handed, 0) /\ unmarked' = Append(unmarked, 0)
          /\ Go(j, Inserted([run EXCEPT !.left = @ \ {x}, !.ids = @ \cup {m}]))
  BY DEF SaveTarget
<1> DEFINE t == Target(run.ev, x, run.mode = "auto")
           q == [run EXCEPT !.left = @ \ {x}, !.ids = @ \cup {m}]
<1>4. run.ev \in Events /\ x \in Versions /\ x \in run.rows /\ run.mode \in {"auto", "content"}
  BY <1>1 DEF RunGood, Placed, RunShape
<1>5. /\ t \in TargetRecords /\ ~t.copy /\ t.event = run.ev /\ t.row = x[1] /\ t.ver = x[2]
      /\ t.auto <=> run.mode = "auto"
  BY <1>4 DEF Target, TargetRecords, Versions
<1>6. x[2] <= clock /\ x[2] < run.value
  BY <1>1, <1>4 DEF Knows
<1>7. Go(j, Inserted(q)) /\ targets' = Append(targets, t) /\ Allowed \in Int
  BY <1>3, AllowedInt
<1> HIDE DEF run, m, t
<1>8. /\ q \in RunShape /\ q.at = "insert" /\ q.mode = run.mode /\ q.ev = run.ev
      /\ q.todo = run.todo /\ q.list = run.list /\ q.value = run.value /\ q.ids # {}
      /\ q.left = run.left \ {x} /\ q.rows = run.rows
  BY <1>1 DEF RunShape
<1> HIDE DEF q
<1>9. q # None /\ ~Early(q) /\ ~Early(run) /\ Placed(q.mode, q.at) /\ Knows(q, clock)
  BY <1>1, <1>8, RunIsOne DEF Early, RunGood, Knows
<1>10. ASSUME NEW e \in Events, NEW p \in Versions, NEW n \in Nat, Tally(run, n, Allowed, event[e], e, p)
       PROVE  LET hit == t.auto /\ ~t.copy /\ t.event = e /\ t.row = p[1] /\ t.ver = p[2]
                  k == IF hit THEN n + 1 ELSE n
              IN  (hit => n <= Allowed) /\ Tally(Inserted(q), k, Allowed, event[e], e, p)
  <2> DEFINE hit == t.auto /\ ~t.copy /\ t.event = e /\ t.row = p[1] /\ t.ver = p[2]
             k == IF hit THEN n + 1 ELSE n
  <2>1. CASE hit
    <3>1. p = x /\ run.ev = e /\ run.mode = "auto"
      <4>1. x = <<x[1], x[2]>> /\ p = <<p[1], p[2]>>
        BY <1>4 DEF Versions
      <4>2. x[1] = p[1] /\ x[2] = p[2] /\ run.ev = e /\ run.mode = "auto"
        BY <1>5, <2>1
      <4>3. QED
        BY <4>1, <4>2
    <3>2. Late(run, e) /\ Late(q, e) /\ WillStore(q, e)
      BY <1>8, <1>9, <3>1 DEF Late, WillStore
    <3>3. n <= Allowed /\ Apart(run)
      BY <1>1, <1>3, <1>10, <3>1, <3>2 DEF Tally
    <3>4. ~Ahead(q, e) /\ Apart(q)
      BY <1>8, <1>9, <3>1, <3>3 DEF Ahead, Apart
    <3>5. p \notin q.left /\ p[2] < q.value
      BY <1>6, <1>8, <3>1
    <3>6. Tally(q, k, Allowed, event[e], e, p)
      BY <1>9, <3>2, <3>4, <3>5 DEF Tally
    <3> HIDE DEF k
    <3>7. Tally(Inserted(q), k, Allowed, event[e], e, p)
      BY <1>8, <1>9, <3>6, InsertedTally
    <3>8. QED
      BY <3>3, <3>7 DEF k
  <2>2. CASE ~hit
    <3>1. WillStore(run, e) => WillStore(q, e)
      BY <1>8, <1>9 DEF WillStore, Late
    <3>2. Tally(q, n, Allowed, event[e], e, p)
      BY <1>1, <1>8, <1>9, <1>10, <3>1, TallyOn
    <3>3. Tally(Inserted(q), n, Allowed, event[e], e, p)
      BY <1>8, <1>9, <3>2, InsertedTally
    <3>4. QED
      BY <2>2, <3>3
  <2>3. QED
    BY <2>1, <2>2
<1>11. Inserted(q) = None \/ (Knows(Inserted(q), clock) /\ Source(Inserted(q), targets'))
  BY <1>8, <1>9, InsertedKnows
<1>12. QED
  BY <1>2, <1>3, <1>5, <1>6, <1>7, <1>10, <1>11, CountAppend DEF run

LEMMA CountWork ==
    ASSUME TypeInv, CountInv, \A i, x \in Jobs : i = x, NEW j \in Jobs, Work(j)
    PROVE  CountInv'
  BY CountFind, CountSave, CountSegment, CountConnect, CountQuery, CountAnswer, CountTarget, CountNumbers,
     CountFindReserved, CountSaveReserved, CountRecurring, CountCopy, CountDelete, CountStamp DEF Work

\* A step that no job takes: every run knows what it knew.
LEMMA CountStill ==
    ASSUME TypeInv, CountInv, UNCHANGED <<job, event>>, Allowed' = Allowed, Steady,
           clock' \in Nat, clock <= clock', put' # None => requests' > 0,
           \A s \in Senders : sender'[s] # None => Marked(sender'[s], targets')
    PROVE  CountInv'
<1>1. Ids' = Ids /\ \A i \in Ids : Like(targets'[i], targets[i])
  BY DEF Steady
<1>2. TallyInv'
  BY <1>1, SteadyMade DEF CountInv, TallyInv
<1>3. KnowsInv'
  <2> SUFFICES ASSUME NEW j \in Jobs, job[j] # None PROVE Knows(job[j], clock')
    BY DEF KnowsInv
  <2>1. job[j] \in RunShape /\ Knows(job[j], clock)
    BY CountHere
  <2>2. \A q \in job[j].rows : q[2] \in Nat
    BY <2>1, BoundsAssumption DEF RunShape, Versions, Times
  <2>3. clock \in Nat
    BY DEF TypeInv, ClientTypes
  <2>4. QED
    BY <2>1, <2>2, <2>3 DEF Knows
<1>4. DatedInv'
  <2> SUFFICES ASSUME NEW i \in Ids, ~targets[i].copy PROVE targets[i].ver <= clock'
    BY <1>1 DEF DatedInv, Like
  <2>1. targets[i].ver <= clock
    BY DEF CountInv, DatedInv
  <2>2. targets[i].ver \in Nat /\ clock \in Nat
    <3>1. targets[i].ver \in Times
      BY <1>1, TargetHere DEF TargetRecords
    <3>2. QED
      BY <3>1, BoundsAssumption DEF Times, TypeInv, ClientTypes
  <2>3. QED
    BY <2>1, <2>2
<1>5. CopiesInv'
  BY <1>1, SourceKept DEF CopiesInv
<1>6. PutInv'
  BY DEF PutInv
<1>7. QED
  BY <1>2, <1>3, <1>4, <1>5, <1>6 DEF CountInv

LEMMA CountSender ==
    ASSUME TypeInv, CountInv, NEW s \in Senders, SenderStart(s) \/ FindMarked(s) \/ MarkSent(s) \/ Hand(s)
    PROVE  CountInv'
<1>1. /\ UNCHANGED <<job, event, clock, put, requests>> /\ Allowed' = Allowed
      /\ clock \in Nat /\ (put # None => requests > 0)
  BY DEF SenderStart, FindMarked, MarkSent, Hand, jobs, client, store, puts, Allowed,
         TypeInv, ClientTypes, CountInv, PutInv
<1>2. sender \in [Senders -> {None} \cup SenderRecords]
  BY DEF TypeInv, SenderTypes
\* The row read is the one of its target.
<1>3. ASSUME NEW STATE r, sender' = [sender EXCEPT ![s] = r], Steady,
             r # None => Marked(r, targets')
      PROVE  CountInv'
  <2>1. ASSUME NEW x \in Senders, sender'[x] # None PROVE Marked(sender'[x], targets')
    <3>1. CASE x = s
      BY <1>2, <1>3, <2>1, <3>1
    <3>2. CASE x # s
      <4>1. sender'[x] = sender[x]
        BY <1>2, <1>3, <3>2
      <4>2. QED
        BY <1>3, <2>1, <4>1, MarkedKept DEF Steady
    <3>3. QED
      BY <3>1, <3>2
  <2>2. QED
    BY <1>1, <1>3, <2>1, CountStill
<1>4. CASE SenderStart(s) \/ Hand(s)
  <2>1. targets' = targets /\ Steady
    BY <1>4, NothingSteady DEF SenderStart, Hand, store
  <2>2. PICK todo \in SUBSET Nat : sender' = [sender EXCEPT ![s] = SenderOnward(todo)]
    <3>1. CASE SenderStart(s)
      <4>1. {i \in Unsent : targets[i].reserved} \in SUBSET Nat
        BY IdsAre DEF Unsent, TypeInv
      <4>2. QED
        BY <3>1, <4>1 DEF SenderStart
    <3>2. CASE Hand(s)
      BY <3>2, SenderHere DEF Hand, SenderRecords
    <3>3. QED
      BY <1>4, <3>1, <3>2
  <2>3. SenderOnward(todo) # None => SenderOnward(todo).copy = None
    BY DEF SenderOnward
  <2>4. QED
    BY <1>3, <2>1, <2>2, <2>3 DEF Marked
<1>5. CASE FindMarked(s)
  <2>1. targets' = targets /\ Steady
    BY <1>5, NothingSteady DEF FindMarked, store
  <2>2. PICK i \in sender[s].todo :
          \/ sender' = [sender EXCEPT ![s] = [todo |-> sender[s].todo \ {i}, id |-> i, copy |-> targets[i]]]
          \/ sender' = [sender EXCEPT ![s] = None]
          \/ sender' = [sender EXCEPT ![s] = SenderOnward(sender[s].todo \ {i})]
    BY <1>5 DEF FindMarked
  <2> DEFINE a == [todo |-> sender[s].todo \ {i}, id |-> i, copy |-> targets[i]]
             c == SenderOnward(sender[s].todo \ {i})
  <2>3. Marked(a, targets) /\ (c # None => c.copy = None)
    BY DEF Marked, Like, SenderOnward
  <2>4. PICK r \in {a, None, c} : sender' = [sender EXCEPT ![s] = r]
    BY <2>2
  <2> HIDE DEF a, c
  <2>5. r # None => Marked(r, targets')
    BY <2>1, <2>3, <2>4 DEF Marked
  <2>6. QED
    BY <1>3, <2>1, <2>4, <2>5
<1>6. CASE MarkSent(s)
  <2> DEFINE i == sender[s].id
             t == [sender[s].copy EXCEPT !.sent = TRUE]
             r == [sender[s] EXCEPT !.copy = None]
  <2>1. /\ sender[s] # None /\ sender[s] \in SenderRecords /\ i \in Ids
        /\ sender[s].copy # None /\ sender[s].copy \in TargetRecords
    BY <1>6, SenderHere DEF MarkSent
  <2>2. /\ targets' = [targets EXCEPT ![i] = t] /\ sender' = [sender EXCEPT ![s] = r]
        /\ UNCHANGED <<handed, unmarked>>
    BY <1>6 DEF MarkSent, sends
  <2>3. Like(sender[s].copy, targets[i])
    BY <2>1 DEF CountInv, CopiesInv, Marked
  <2>4. t \in TargetRecords /\ Like(t, targets[i])
    BY <2>1, <2>3 DEF TargetRecords, Like
  <2>5. r.copy = None
    BY <2>1 DEF SenderRecords
  <2> HIDE DEF i, t, r
  <2>6. Steady
    BY <2>1, <2>2, <2>4, TargetSteady
  <2>7. QED
    BY <1>3, <2>2, <2>5, <2>6 DEF Marked
<1>7. QED
  BY <1>4, <1>5, <1>6

\* A failure or a request allows one more.
LEMMA CountFree ==
    ASSUME TypeInv, CountInv, UNCHANGED <<targets, clock>>, Allowed' \in Int, Allowed + 1 <= Allowed',
           put' # None => requests' > 0,
           \A x \in Jobs : \/ job'[x] \in {None, job[x]}
                           \/ Apart(job'[x]) /\ Knows(job'[x], clock) /\ Source(job'[x], targets),
           \A s \in Senders : sender'[s] \in {None, sender[s]}
    PROVE  CountInv'
<1>1. Allowed \in Int /\ Ids' = Ids
  BY AllowedInt DEF Ids
<1>2. TallyInv'
  <2> SUFFICES ASSUME NEW e \in Events, NEW p \in Versions
               PROVE  /\ Made(targets, e, p) <= 1 + Allowed'
                      /\ \A j \in Jobs : Tally(job'[j], Made(targets, e, p), Allowed', event'[e], e, p)
    BY DEF TallyInv
  <2>1. /\ Made(targets, e, p) <= 1 + Allowed
        /\ \A j \in Jobs : Tally(job[j], Made(targets, e, p), Allowed, event[e], e, p)
    BY DEF CountInv, TallyInv
  <2>2. Made(targets, e, p) \in Nat
    BY MadeNat
  <2>3. Made(targets, e, p) <= Allowed'
    BY <1>1, <2>1, <2>2
  <2>4. ASSUME NEW j \in Jobs PROVE job'[j] = None \/ Apart(job'[j])
    BY <2>1 DEF Tally
  <2>5. QED
    BY <1>1, <2>2, <2>3, <2>4, Enough
<1>3. KnowsInv' /\ DatedInv' /\ CopiesInv' /\ PutInv'
  BY <1>1 DEF CountInv, KnowsInv, DatedInv, CopiesInv, PutInv
<1>4. QED
  BY <1>2, <1>3 DEF CountInv

LEMMA CountRequest ==
    ASSUME TypeInv, CountInv, Request, UNCHANGED <<targets, clock, put, sender, failures, spoiled>>,
           \A x \in Jobs : \/ job'[x] = job[x]
                           \/ Apart(job'[x]) /\ Knows(job'[x], clock) /\ Source(job'[x], targets)
    PROVE  CountInv'
<1>1. Allowed \in Int /\ Allowed' = Allowed + 1 /\ requests' > 0
  BY AllowedInt DEF Allowed, Request, TypeInv, SmallTypes
<1>2. QED
  BY <1>1, CountFree

LEMMA CountRuns ==
    ASSUME TypeInv, CountInv,
           \/ \E j \in Jobs, e \in Events, g \in Segments : ContentRequest(j, e, g)
           \/ \E j \in Jobs, g \in Segments, k \in Kinds \ {"now"} : ReserveRequest(j, g, k)
    PROVE  CountInv'
<1>1. Request /\ UNCHANGED <<targets, clock, put, sender, failures, spoiled>>
  BY DEF ContentRequest, ReserveRequest, Go, client, store, puts
<1>2. PICK j \in Jobs : \E r : Go(j, r) /\ r.mode # "auto" /\ r.at = "query"
  <2>1. ASSUME NEW j \in Jobs, NEW e \in Events, NEW g \in Segments, ContentRequest(j, e, g)
        PROVE  \E r : Go(j, r) /\ r.mode # "auto" /\ r.at = "query"
    BY <2>1 DEF ContentRequest, Run
  <2>2. ASSUME NEW j \in Jobs, NEW g \in Segments, NEW k \in Kinds \ {"now"}, ReserveRequest(j, g, k)
        PROVE  \E r : Go(j, r) /\ r.mode # "auto" /\ r.at = "query"
    <3>1. PICK ids : Go(j, [Run("reserve", "query", None, {}, event, g, k) EXCEPT !.ids = ids])
      BY <2>2 DEF ReserveRequest
    <3>2. QED
      BY <3>1 DEF Run
  <2>3. QED
    BY <2>1, <2>2
<1>3. PICK r : Go(j, r) /\ r.mode # "auto" /\ r.at = "query"
  BY <1>2
<1>4. Apart(r) /\ Knows(r, clock) /\ Source(r, targets)
  BY <1>3 DEF Apart, Knows, Source
<1>5. \A x \in Jobs : job'[x] \in {job[x], r}
  BY <1>3 DEF Go, TypeInv, JobTypes
<1>6. QED
  BY <1>1, <1>4, <1>5, CountRequest

LEMMA CountUser ==
    ASSUME TypeInv, CountInv,
           \/ \E e \in Events : PutRead(e) \/ DeleteEvent(e)
           \/ \E g \in Segments : FilterSegment(g) \/ DeleteSegment(g)
           \/ \E d \in Dbs : ConnectRequest(d)
           \/ PutSave
    PROVE  CountInv'
<1>1. UNCHANGED <<targets, clock, job, sender, spoiled, failures>>
  BY DEF PutRead, DeleteEvent, FilterSegment, DeleteSegment, ConnectRequest, PutSave, client, store, jobs
<1>2. CASE Request /\ put' = put
  BY <1>1, <1>2, CountRequest
<1>3. CASE \E e \in Events : PutRead(e)
  <2>1. Request /\ put = None /\ event' = event
    BY <1>3 DEF PutRead, store
  <2>2. requests \in Nat /\ requests' = requests + 1 /\ failures \in Nat /\ spoiled \in Nat
    BY <2>1 DEF Request, TypeInv, SmallTypes
  <2>3. CASE put' = None
    BY <1>1, <2>1, <2>3, CountRequest
  <2>4. CASE put' # None
    <3>1. Allowed' = Allowed
      BY <1>1, <2>1, <2>2, <2>4 DEF Allowed
    <3>2. clock \in Nat /\ Steady
      BY <1>1, NothingSteady DEF TypeInv, ClientTypes
    <3>3. \A s \in Senders : sender[s] # None => Marked(sender[s], targets)
      BY DEF CountInv, CopiesInv
    <3>4. QED
      BY <1>1, <2>1, <2>2, <3>1, <3>2, <3>3, CountStill
  <2>5. QED
    BY <2>3, <2>4
<1>4. CASE PutSave
  <2>1. put # None /\ put' = None /\ requests' = requests
    BY <1>4 DEF PutSave
  <2>2. Allowed \in Int /\ Allowed' = Allowed + 1
    BY <1>1, <2>1, AllowedInt DEF Allowed, TypeInv, SmallTypes
  <2>3. QED
    BY <1>1, <2>1, <2>2, CountFree
<1>5. QED
  BY <1>2, <1>3, <1>4 DEF DeleteEvent, FilterSegment, DeleteSegment, ConnectRequest, puts

LEMMA CountFailure == ASSUME TypeInv, CountInv, Reject \/ Crash PROVE CountInv'
<1>1. UNCHANGED <<targets, clock, requests, spoiled>> /\ failures' = failures + 1 /\ put' \in {put, None}
  BY DEF Reject, Crash, client, store, puts, jobs, Go
<1>2. /\ spoiled \in Nat /\ requests \in Nat /\ failures \in Nat
      /\ Allowed \in Int
  BY AllowedInt DEF TypeInv, SmallTypes
<1>3. Allowed' \in Int /\ Allowed + 1 <= Allowed'
  BY <1>1, <1>2 DEF Allowed
<1>4. put' # None => requests' > 0
  BY <1>1 DEF CountInv, PutInv
<1>5. \A x \in Jobs : job'[x] \in {None, job[x]}
  BY DEF Reject, Crash, Go, jobs, TypeInv, JobTypes
<1>6. \A s \in Senders : sender'[s] \in {None, sender[s]}
  BY DEF Reject, Crash, TypeInv, SenderTypes
<1>7. QED
  BY <1>1, <1>3, <1>4, <1>5, <1>6, CountFree

LEMMA CountStep ==
    ASSUME TypeInv, CountInv, \A i, x \in Jobs : i = x, [Next]_vars
    PROVE  CountInv'
<1>1. CASE Next
  <2>1. CASE \E j \in Jobs : AutoStart(j) \/ Work(j)
    BY <2>1, CountStart, CountWork
  <2>2. CASE \/ \E j \in Jobs, e \in Events, g \in Segments : ContentRequest(j, e, g)
             \/ \E j \in Jobs, g \in Segments, k \in Kinds \ {"now"} : ReserveRequest(j, g, k)
    BY <2>2, CountRuns
  <2>3. CASE \E s \in Senders : SenderStart(s) \/ FindMarked(s) \/ MarkSent(s) \/ Hand(s)
    BY <2>3, CountSender
  <2>4. CASE \E r \in Rows : Edit(r)
    <3>1. UNCHANGED <<job, event, targets, put, requests, failures, spoiled, sender>>
      BY <2>4 DEF Edit, store, jobs, puts
    <3>2. clock \in Nat /\ clock' = clock + 1
      BY <2>4 DEF Edit, TypeInv, ClientTypes
    <3>3. Allowed' = Allowed /\ Steady /\ clock' \in Nat /\ clock <= clock'
      BY <3>1, <3>2, NothingSteady DEF Allowed
    <3>4. /\ put' # None => requests' > 0
          /\ \A s \in Senders : sender'[s] # None => Marked(sender'[s], targets')
      BY <3>1 DEF CountInv, PutInv, CopiesInv
    <3>5. QED
      BY <3>1, <3>3, <3>4, CountStill
  <2>5. CASE Reject \/ Crash
    BY <2>5, CountFailure
  <2>6. CASE \/ \E e \in Events : PutRead(e) \/ DeleteEvent(e)
             \/ \E g \in Segments : FilterSegment(g) \/ DeleteSegment(g)
             \/ \E d \in Dbs : ConnectRequest(d)
             \/ PutSave
    BY <2>6, CountUser
  <2>7. QED
    BY <1>1, <2>1, <2>2, <2>3, <2>4, <2>5, <2>6 DEF Next
<1>2. CASE UNCHANGED vars
  <2>1. UNCHANGED <<job, event, targets, put, requests, failures, spoiled, sender, clock>>
    BY <1>2 DEF vars, store, jobs, puts, client
  <2>2. Allowed' = Allowed /\ Steady /\ clock \in Nat
    BY <2>1, NothingSteady DEF Allowed, TypeInv, ClientTypes
  <2>3. /\ put' # None => requests' > 0
        /\ \A s \in Senders : sender'[s] # None => Marked(sender'[s], targets')
    BY <2>1 DEF CountInv, PutInv, CopiesInv
  <2>4. QED
    BY <2>1, <2>2, <2>3, CountStill
<1>3. QED
  BY <1>1, <1>2

LEMMA CountImplies == ASSUME TypeInv, CountInv PROVE RepeatedOnlyAfterFailure
<1> SUFFICES ASSUME NEW e \in Events, NEW r \in Rows, NEW v \in 1..clock
             PROVE  Repeats(e, r, v) <= 1 + failures + requests + spoiled
  BY DEF RepeatedOnlyAfterFailure
<1> DEFINE p == <<r, v>>
<1>1. v \in Times
  BY BoundsAssumption DEF TypeInv, ClientTypes, Times
<1>2. p \in Versions /\ p[1] = r /\ p[2] = v
  BY <1>1 DEF Versions
<1> HIDE DEF p
<1>3. Repeats(e, r, v) = Made(targets, e, p)
  BY <1>2 DEF Repeats, Made, Ids
<1>4. Made(targets, e, p) <= 1 + Allowed /\ Made(targets, e, p) \in Nat
  BY <1>2, MadeNat DEF CountInv, TallyInv
<1>5. Allowed \in Int /\ Allowed <= failures + requests + spoiled
  BY AllowedInt DEF Allowed, TypeInv, SmallTypes
<1> DEFINE n == Made(targets, e, p)
           all == failures + requests + spoiled
<1>6. n \in Nat /\ n <= 1 + Allowed /\ Allowed <= all /\ all \in Nat
  BY <1>4, <1>5 DEF TypeInv, SmallTypes
<1>7. Repeats(e, r, v) = n
  BY <1>3
<1>8. 1 + failures + requests + spoiled = 1 + all
  BY DEF TypeInv, SmallTypes
<1> HIDE DEF n, all
<1>9. n <= 1 + all
  BY <1>5, <1>6
<1>10. QED
  BY <1>7, <1>8, <1>9

(***************************************************************************)
(* As long as runs of the cron and requests of users do not overlap, a     *)
(* change becomes a second target of an event only after a failure, beside *)
(* a request or after a run that threw with its targets made, and each     *)
(* lets it happen once: whatever the sender is about.                      *)
(***************************************************************************)
THEOREM RepeatsCounted == ASSUME \A i, x \in Jobs : i = x PROVE Spec => []RepeatedOnlyAfterFailure
<1>1. Init => CountInv
  BY CountInit
<1>2. TypeInv /\ CountInv /\ [Next]_vars => CountInv'
  BY CountStep
<1>3. TypeInv /\ CountInv => RepeatedOnlyAfterFailure
  BY CountImplies
<1>4. QED
  BY <1>1, <1>2, <1>3, TypesHold, PTL DEF Spec
===============================================================================
