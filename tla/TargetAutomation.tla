--------------------------- MODULE TargetAutomation ---------------------------
(***************************************************************************)
(* Automatic messages.  A cron server posts /target/auto: every event runs *)
(* the filter query of its segment against the database of its client and  *)
(* turns the rows changed since the event's last run into targets, which   *)
(* it may schedule.  The cron server also posts /target/reserved-message:  *)
(* the scheduled targets that are due are handed to the send.  Users       *)
(* create targets by hand, edit and delete events and segments, and        *)
(* connect to client databases; clients change their rows at any time.     *)
(*                                                                         *)
(* ClientDbService keeps one pool for the whole process: a query goes to   *)
(* the database somebody connected to last.                                *)
(*                                                                         *)
(* Time is the number of changes of client rows so far.  0 is 2000-01-01.  *)
(***************************************************************************)
EXTENDS Integers, Sequences, FiniteSets

CONSTANTS
    Events,         \* automatic message events
    Segments,
    Dbs,            \* client databases
    SegDb,          \* SegDb[g]: the database of segment g
    Opening,        \* the tables of events to start from
    Rows,           \* rows of all clients; a filter query keeps every row of a database
    RowDb,          \* RowDb[r]: the database r is in
    Number,         \* Number[r]: the receiver in row r, or None
    Unfiltered,     \* segments without a filterQuery to start with
    Jobs,           \* runs of /target/auto and requests of users in flight together
    Senders,        \* runs of /target/reserved-message in flight together
    None,
    MaxClock,       \* bound: the time
    PutTimes,       \* bound: last run times users give to events
    MaxDates,       \* bound: dates of a recurring reservation
    MaxTargets,     \* bound: targets there may be when a run starts that is Derailed
    MaxRequests,    \* bound: requests of users
    MaxIncidents    \* bound: requests of users, rejected calls and deaths of the process

\* isReserved and isRecurring: not reserved, reserved once, on many days
Kinds == {"now", "once", "recurring"}

Times == 0..MaxClock + 1

\* live: is there a row; last: autoMessageEventLastRunTime; seg: segmentId
EventRecords == [live : BOOLEAN, last : Times \cup {None}, seg : Segments, kind : Kinds]

ASSUME DbsAssumption == SegDb \in [Segments -> Dbs] /\ RowDb \in [Rows -> Dbs]
ASSUME NoneAssumption == None \notin Dbs \cup Events \cup Nat
ASSUME OpeningAssumption == \A table \in Opening :
    table \in [Events -> EventRecords] /\ \A e \in Events : table[e].last = None
ASSUME BoundsAssumption ==
    /\ MaxClock \in Nat \ {0} /\ MaxDates \in Nat
    /\ PutTimes \subseteq Times \cup {None}

VARIABLES
    segment,    \* segment[g]: "filtered", "unfiltered" (no filterQuery), "none" (deleted)
    event,      \* event[e]: its row
    ver,        \* ver[r]: the time row r was changed last
    clock,
    pool,       \* connectionPoolPg: the database it leads to, or None
    targets,    \* targets[i]: the row with id i
    handed,     \* handed[i]: how often target i was handed to the send
    job,        \* job[j]: a run or a request, or None
    sender,     \* sender[s]: a run of sendReservedMessage, or None
    put,        \* an update of an event by a user: what it read, or None
    made,       \* history: <<e, r, v>>, version v of row r became a target of event e
    unseen,     \* history: <<r, v>>, r was changed while a query of a job was answered
    crossed,    \* history: events whose run lost its database before its query
    retold,     \* history: events a user gave another segment or last run time
    unmarked,   \* history: how often a save of target i took back its sentStatus
    spoiled,    \* history: runs of the cron that threw with targets made, the time not stored
    requests,
    failures

client == <<ver, clock, unseen>>
store == <<event, targets, made>>
way == <<pool, crossed>>
sends == <<handed, unmarked>>
jobs == <<job, spoiled>>
puts == <<put, retold>>
vars == <<segment, client, way, store, sends, jobs, sender, puts, requests, failures>>

Ids == 1..Len(targets)

Init ==
    /\ segment = [g \in Segments |-> IF g \in Unfiltered THEN "unfiltered" ELSE "filtered"]
    /\ event \in Opening
    /\ ver = [r \in Rows |-> 1]
    /\ clock = 1
    /\ pool = None
    /\ targets = <<>>
    /\ handed = <<>>
    /\ unmarked = <<>>
    /\ job = [j \in Jobs |-> None]
    /\ sender = [s \in Senders |-> None]
    /\ put = None
    /\ made = {}
    /\ unseen = {}
    /\ crossed = {}
    /\ retold = {}
    /\ spoiled = 0
    /\ requests = 0
    /\ failures = 0

-----------------------------------------------------------------------------
(* The process.  A job is a record: where it is, what is left to do, and   *)
(* what it keeps of what it read.                                          *)

At(j, s) == job[j] # None /\ job[j].at = s

Go(j, run) == job' = [job EXCEPT ![j] = run] /\ UNCHANGED spoiled

\* Nothing catches a throw.
Throw(j) ==
    /\ job' = [job EXCEPT ![j] = None]
    /\ spoiled' = IF job[j].mode = "auto" /\ job[j].ids # {} THEN spoiled + 1 ELSE spoiled

\* todo: events of the run still to come; list: the events as listed at the
\* start; ev, seg, kind: the event at hand and what the list or the request says
\* of it; copy: its row as read; rows: the answer, as <<r, v>>; left: rows of it
\* still to do; ids: targets made; idOf: receiver -> target; row, source, copies:
\* the row at hand, its target as read and the dates still to copy it to; value:
\* the time to store; then: where to go after that.
Run(mode, at, e, todo, list, g, k) ==
    [mode |-> mode, at |-> at, ev |-> e, todo |-> todo, list |-> list, seg |-> g, kind |-> k,
     copy |-> None, rows |-> {}, left |-> {}, ids |-> {}, idOf |-> <<>>, row |-> None,
     source |-> None, copies |-> 0, value |-> 0, then |-> "segment"]

\* Variant: a run does one event.
OnwardOnce(todo, list) == {None}

\* The run goes on with one of the events left, in whatever order the table gave
\* them, or ends.  An event that never ran gets a last run first; the copy at
\* hand stays null.
Onward(todo, list) ==
    IF todo = {} THEN {None}
    ELSE {Run("auto", IF list[e].last = None THEN "find" ELSE "segment",
              e, todo \ {e}, list, list[e].seg, list[e].kind) : e \in todo}

\* A recurring reservation of a row without a receiver, or of two rows with the
\* same, deletes a target it has nothing to do with or throws in every run, and
\* then every run inserts its targets again.
Derailed == \E r \in Rows :
    /\ \E e \in Events : event[e].kind = "recurring" /\ SegDb[event[e].seg] = RowDb[r]
    /\ \/ Number[r] = None
       \/ \E q \in Rows \ {r} : RowDb[q] = RowDb[r] /\ Number[q] = Number[r]

\* automateTargetDataProcessing: one list of all events, read once
AutoStart(j) ==
    /\ job[j] = None
    /\ Derailed => Len(targets) <= MaxTargets
    /\ LET listed == {e \in Events : event[e].live} IN
       /\ listed # {}
       /\ \E run \in Onward(listed, event) : Go(j, run)
    /\ UNCHANGED <<segment, client, way, store, sends, sender, puts, requests, failures>>

Resume(run) ==
    IF run.then = "next" THEN Onward(run.todo, run.list)
    ELSE {[run EXCEPT !.at = run.then, !.copy = None]}

\* updateAutoMessageEventById: findOneBy, NotFoundException if there is no row
FindEvent(j) ==
    /\ At(j, "find")
    /\ LET row == event[job[j].ev] IN
       IF row.live THEN Go(j, [job[j] EXCEPT !.at = "save", !.copy = row]) ELSE Throw(j)
    /\ UNCHANGED <<segment, client, way, store, sends, sender, puts, requests, failures>>

\* ... and save, which writes every column that differs from the copy by now, and
\* inserts a row that was deleted
SaveEvent(j) ==
    /\ At(j, "save")
    /\ event' = [event EXCEPT ![job[j].ev] = [job[j].copy EXCEPT !.last = job[j].value]]
    /\ \E run \in Resume(job[j]) : Go(j, run)
    /\ UNCHANGED <<segment, client, way, targets, made, sends, sender, puts, requests, failures>>

\* getSegmentDetails throws without a segment: the events behind wait for the
\* next run.
ReadSegment(j) ==
    /\ At(j, "segment")
    /\ LET found == segment[job[j].seg] IN
       IF found = "none"
       THEN Throw(j)
       ELSE Go(j, [job[j] EXCEPT !.at = "connect",
                                 !.then = IF found = "filtered" THEN "query" ELSE "next"])
    /\ UNCHANGED <<segment, client, way, store, sends, sender, puts, requests, failures>>

\* Variant: keeps the pool there is.
PoolKept(d) == IF pool = None THEN d ELSE pool

\* connectToPg: the pool of the process is replaced, whoever uses the old one
PoolFor(d) == d

\* Events whose run is about to query, and not d.
Crossing(d) ==
    {job[k].ev : k \in {i \in Jobs : At(i, "query") /\ job[i].mode = "auto" /\ SegDb[job[i].seg] # d}}

\* connectToClientDatabase; an event without a filter query is left here.
Connect(j) ==
    /\ At(j, "connect")
    /\ pool' = PoolFor(SegDb[job[j].seg])
    /\ crossed' = crossed \cup Crossing(SegDb[job[j].seg])
    /\ \E run \in Resume(job[j]) : Go(j, run)
    /\ UNCHANGED <<segment, client, store, sends, sender, puts, requests, failures>>

\* executeQueryPg: the rows of the database the pool leads to, as they are now
Query(j) ==
    /\ At(j, "query")
    /\ IF pool = None
       THEN Throw(j)
       ELSE Go(j, [job[j] EXCEPT !.at = "answer",
                                 !.rows = {<<r, ver[r]>> : r \in {x \in Rows : RowDb[x] = pool}}])
    /\ UNCHANGED <<segment, client, way, store, sends, sender, puts, requests, failures>>

-----------------------------------------------------------------------------

\* Variant: a row changed at the very time of the last run is old.
ChangedAfter(v, last) == last = None \/ v > last

\* updatedAtValue >= autoMessageEventLastRunTime; null counts as 1970
ChangedSince(v, last) == last = None \/ v >= last

Numbered(rows) == {p \in rows : Number[p[1]] # None}

\* When the last target is saved it is time to schedule them, to store the time,
\* or to answer the request.
Inserted(run) ==
    IF run.left # {} THEN run
    ELSE IF run.mode = "content" THEN None
    ELSE [run EXCEPT !.at = IF run.kind = "now" THEN "stamp" ELSE "numbers"]

\* The answer arrives.  A run of the cron keeps the rows changed since the last
\* run, and takes the time; a request of a user takes all rows.
Answer(j) ==
    /\ At(j, "answer")
    /\ LET run == job[j]
           kept == IF run.mode = "auto"
                   THEN {p \in run.rows : ChangedSince(p[2], run.list[run.ev].last)}
                   ELSE run.rows
       IN  Go(j, IF run.mode = "reserve"
                 THEN [run EXCEPT !.at = "numbers"]
                 ELSE Inserted([run EXCEPT !.at = "insert", !.rows = kept,
                                           !.left = Numbered(kept), !.value = clock + 1]))
    /\ UNCHANGED <<segment, client, way, store, sends, sender, puts, requests, failures>>

Target(e, p, auto) ==
    [event |-> e, row |-> p[1], ver |-> p[2], auto |-> auto,
     copy |-> FALSE, reserved |-> FALSE, sent |-> FALSE, live |-> TRUE]

\* processAndSaveMessageContent: one insert per row that has a receiver
SaveTarget(j) ==
    /\ At(j, "insert")
    /\ \E p \in job[j].left :
          /\ targets' = Append(targets, Target(job[j].ev, p, job[j].mode = "auto"))
          /\ handed' = Append(handed, 0) /\ unmarked' = Append(unmarked, 0)
          /\ made' = made \cup {<<job[j].ev, p[1], p[2]>>}
          /\ Go(j, Inserted([job[j] EXCEPT !.left = @ \ {p}, !.ids = @ \cup {Len(targets) + 1}]))
    /\ UNCHANGED <<segment, client, way, event, sender, puts, requests, failures>>

-----------------------------------------------------------------------------
(* scheduleTargetReservedAt                                                *)

NumberOf(i) == Number[targets[i].row]

\* When the last row is done it is time to store the time.
Scheduled(run) ==
    IF run.left # {} THEN run
    ELSE IF run.mode = "reserve" THEN None
    ELSE [run EXCEPT !.at = "find", !.then = "next"]

\* getReceiverNumbers: the last of the targets with a number, in no order
ReadNumbers(j) ==
    /\ At(j, "numbers")
    /\ LET ids == {i \in job[j].ids : targets[i].live}
           numbers == {NumberOf(i) : i \in ids}
       IN  \E f \in [numbers -> ids] :
              /\ \A n \in numbers : NumberOf(f[n]) = n
              /\ Go(j, Scheduled([job[j] EXCEPT !.at = "schedule", !.left = job[j].rows, !.idOf = f]))
    /\ UNCHANGED <<segment, client, way, store, sends, sender, puts, requests, failures>>

\* handleNonRecurringReservations: a row whose number has no target is left out;
\* updateTargetReservationTime reads the target, which throws if it is gone, ...
FindReserved(j) ==
    /\ At(j, "schedule") /\ job[j].kind # "recurring"
    /\ \E p \in job[j].left :
         LET n == Number[p[1]] IN
         IF n \in DOMAIN job[j].idOf
         THEN LET t == targets[job[j].idOf[n]] IN
              IF t.live
              THEN Go(j, [job[j] EXCEPT !.at = "reserve", !.left = @ \ {p}, !.row = p[1], !.source = t])
              ELSE Throw(j)
         ELSE Go(j, Scheduled([job[j] EXCEPT !.left = @ \ {p}]))
    /\ UNCHANGED <<segment, client, way, store, sends, sender, puts, requests, failures>>

\* ... and saves it as read, sentStatus included
SaveReserved(j) ==
    LET i == job[j].idOf[Number[job[j].row]] IN
    /\ At(j, "reserve")
    /\ targets' = [targets EXCEPT ![i] = [job[j].source EXCEPT !.reserved = TRUE]]
    /\ unmarked' = IF targets[i].sent /\ ~job[j].source.sent
                   THEN [unmarked EXCEPT ![i] = @ + 1] ELSE unmarked
    /\ Go(j, Scheduled([job[j] EXCEPT !.at = "schedule", !.row = None, !.source = None]))
    /\ UNCHANGED <<segment, client, way, event, made, handed, sender, puts, requests, failures>>

\* findOne by the target of a number; without one the id is undefined, which is
\* no condition for findOne: any row comes back.
FoundFor(run, n) ==
    IF n \in DOMAIN run.idOf
    THEN {i \in {run.idOf[n]} : targets[i].live}
    ELSE {i \in Ids : targets[i].live}

\* getReservationDates: the days of the week from today to the end, a day later
\* with every row; how many those are is left open.
ReservationDates == 0..MaxDates

\* handleRecurringReservations: getTargetData, then a copy per date.  Without
\* a row, a copy has no content and the delete finds nothing: both throw.
ReserveRecurring(j) ==
    /\ At(j, "schedule") /\ job[j].kind = "recurring"
    /\ \E p \in job[j].left :
         LET found == FoundFor(job[j], Number[p[1]]) IN
         \/ \E i \in found, n \in ReservationDates :
               Go(j, [job[j] EXCEPT !.at = "copy", !.left = @ \ {p}, !.row = p[1],
                                    !.source = targets[i], !.copies = n])
         \/ found = {} /\ Throw(j)
    /\ UNCHANGED <<segment, client, way, store, sends, sender, puts, requests, failures>>

\* Variant: one date too many.
CopyTargetMore(j) ==
    /\ At(j, "copy") /\ job[j].copies >= 0
    /\ targets' = Append(targets, [job[j].source EXCEPT !.reserved = TRUE, !.copy = TRUE])
    /\ handed' = Append(handed, 0) /\ unmarked' = Append(unmarked, 0)
    /\ Go(j, [job[j] EXCEPT !.copies = @ - 1])
    /\ UNCHANGED <<segment, client, way, event, made, sender, puts, requests, failures>>

\* createTarget, once per date
CopyTarget(j) ==
    /\ At(j, "copy") /\ job[j].copies > 0
    /\ targets' = Append(targets, [job[j].source EXCEPT !.reserved = TRUE, !.copy = TRUE])
    /\ handed' = Append(handed, 0) /\ unmarked' = Append(unmarked, 0)
    /\ Go(j, [job[j] EXCEPT !.copies = @ - 1])
    /\ UNCHANGED <<segment, client, way, event, made, sender, puts, requests, failures>>

\* deleteTarget
DeleteTarget(j) ==
    /\ At(j, "copy") /\ job[j].copies = 0
    /\ LET found == FoundFor(job[j], Number[job[j].row]) IN
       \/ \E i \in found :
             /\ targets' = [targets EXCEPT ![i].live = FALSE]
             /\ Go(j, Scheduled([job[j] EXCEPT !.at = "schedule", !.row = None, !.source = None]))
       \/ found = {} /\ Throw(j) /\ UNCHANGED targets
    /\ UNCHANGED <<segment, client, way, event, made, sends, sender, puts, requests, failures>>

\* Variant: the time is not stored.
StampNot(j) ==
    /\ At(j, "stamp")
    /\ \E run \in Onward(job[j].todo, job[j].list) : Go(j, run)
    /\ UNCHANGED <<segment, client, way, store, sends, sender, puts, requests, failures>>

\* An event that is not reserved stores the time once per target, so not at all
\* if there is none; a target that is gone throws.  (The send in this loop is
\* commented out.)
Stamp(j) ==
    /\ At(j, "stamp")
    /\ \/ job[j].ids = {} /\ \E run \in Onward(job[j].todo, job[j].list) : Go(j, run)
       \/ \E i \in job[j].ids :
             IF targets[i].live
             THEN Go(j, [job[j] EXCEPT !.at = "find", !.then = "stamp", !.ids = @ \ {i}])
             ELSE Throw(j)
    /\ UNCHANGED <<segment, client, way, store, sends, sender, puts, requests, failures>>

-----------------------------------------------------------------------------
(* sendReservedMessage                                                     *)

\* Variant: the query does not ask for sentStatus.
Targets == {i \in Ids : targets[i].live}

\* getUnsentTargets
Unsent == {i \in Ids : targets[i].live /\ ~targets[i].sent}

\* id: the target at hand; copy: its row as read, until the mark is saved
SenderOnward(todo) == IF todo = {} THEN None ELSE [todo |-> todo, id |-> None, copy |-> None]

SenderStart(s) ==
    LET listed == {i \in Unsent : targets[i].reserved} IN
    /\ sender[s] = None /\ listed # {}
    /\ sender' = [sender EXCEPT ![s] = SenderOnward(listed)]
    /\ UNCHANGED <<segment, client, way, store, sends, jobs, puts, requests, failures>>

\* A target that is due, or not (whether it is, is left open): updateSentStatus
\* reads it, which throws if it is gone, ...
FindMarked(s) ==
    /\ sender[s] # None /\ sender[s].id = None
    /\ \E i \in sender[s].todo :
          LET rest == sender[s].todo \ {i} IN
          \/ sender' = [sender EXCEPT ![s] = IF targets[i].live
                                             THEN [todo |-> rest, id |-> i, copy |-> targets[i]]
                                             ELSE None]
          \/ sender' = [sender EXCEPT ![s] = SenderOnward(rest)]
    /\ UNCHANGED <<segment, client, way, store, sends, jobs, puts, requests, failures>>

\* ... and saves it as read, which inserts it if it was deleted
MarkSent(s) ==
    /\ sender[s] # None /\ sender[s].id # None /\ sender[s].copy # None
    /\ targets' = [targets EXCEPT ![sender[s].id] = [sender[s].copy EXCEPT !.sent = TRUE]]
    /\ sender' = [sender EXCEPT ![s].copy = None]
    /\ UNCHANGED <<segment, client, way, event, made, sends, jobs, puts, requests, failures>>

\* The message is built for sendDefaultMessage (the call is commented out).
Hand(s) ==
    /\ sender[s] # None /\ sender[s].id # None /\ sender[s].copy = None
    /\ handed' = [handed EXCEPT ![sender[s].id] = @ + 1]
    /\ sender' = [sender EXCEPT ![s] = SenderOnward(@.todo)]
    /\ UNCHANGED <<segment, client, way, store, unmarked, jobs, puts, requests, failures>>

-----------------------------------------------------------------------------
(* Users and clients.                                                      *)

\* The client changes a row.
Edit(r) ==
    /\ clock < MaxClock
    /\ clock' = clock + 1
    /\ ver' = [ver EXCEPT ![r] = clock + 1]
    /\ unseen' = IF \E j \in Jobs : At(j, "answer") THEN unseen \cup {<<r, clock + 1>>} ELSE unseen
    /\ UNCHANGED <<segment, way, store, sends, jobs, sender, puts, requests, failures>>

Request ==
    /\ requests < MaxRequests /\ requests + failures < MaxIncidents
    /\ requests' = requests + 1

\* POST /client-db/connect/pg
ConnectRequest(d) ==
    /\ Request
    /\ pool' = PoolFor(d)
    /\ crossed' = crossed \cup Crossing(d)
    /\ UNCHANGED <<segment, client, store, sends, jobs, sender, puts, failures>>

\* createMessageContent: any event and any segment; it uses whatever pool there is.
ContentRequest(j, e, g) ==
    /\ Request
    /\ job[j] = None /\ segment[g] = "filtered"
    /\ Go(j, Run("content", "query", e, {}, event, g, "now"))
    /\ UNCHANGED <<segment, client, way, store, sends, sender, puts, failures>>

\* createTargetReservationTime: any targets, those reserved or sent included
ReserveRequest(j, g, k) ==
    /\ Request
    /\ job[j] = None /\ segment[g] = "filtered"
    /\ \E ids \in SUBSET Ids \ {{}} :
          Go(j, [Run("reserve", "query", None, {}, event, g, k) EXCEPT !.ids = ids])
    /\ UNCHANGED <<segment, client, way, store, sends, sender, puts, failures>>

\* updateAutoMessageEvent: findOneBy copies the row ...
PutRead(e) ==
    /\ Request
    /\ put = None /\ event[e].live
    /\ put' = [ev |-> e, row |-> event[e]]
    /\ UNCHANGED <<segment, client, way, store, sends, jobs, sender, retold, failures>>

\* ... and save writes what the request gives and every other column as read:
\* the time of the last run either way, the segment and the kind too.
PutSave ==
    /\ put # None
    /\ \E last \in PutTimes \cup {put.row.last}, g \in Segments, k \in Kinds :
          /\ event' = [event EXCEPT ![put.ev] = [live |-> TRUE, last |-> last, seg |-> g, kind |-> k]]
          /\ retold' = IF last # put.row.last \/ g # put.row.seg
                       THEN retold \cup {put.ev} ELSE retold
    /\ put' = None
    /\ UNCHANGED <<segment, client, way, targets, made, sends, jobs, sender, requests, failures>>

DeleteEvent(e) ==
    /\ Request
    /\ event[e].live
    /\ event' = [event EXCEPT ![e].live = FALSE]
    /\ UNCHANGED <<segment, client, way, targets, made, sends, jobs, sender, puts, failures>>

\* createFilterQueryWhenNoFilter
FilterSegment(g) ==
    /\ Request
    /\ segment[g] = "unfiltered"
    /\ segment' = [segment EXCEPT ![g] = "filtered"]
    /\ UNCHANGED <<client, way, store, sends, jobs, sender, puts, failures>>

DeleteSegment(g) ==
    /\ Request
    /\ segment' = [segment EXCEPT ![g] = "none"]
    /\ UNCHANGED <<client, way, store, sends, jobs, sender, puts, failures>>

\* A call of a job or of a run of the sender rejects.
Reject ==
    /\ requests + failures < MaxIncidents
    /\ failures' = failures + 1
    /\ \/ \E j \in Jobs : job[j] # None /\ Go(j, None) /\ UNCHANGED sender
       \/ \E s \in Senders : /\ sender[s] # None
                             /\ sender' = [sender EXCEPT ![s] = None]
                             /\ UNCHANGED jobs
    /\ UNCHANGED <<segment, client, way, store, sends, puts, requests>>

\* The process ends: no pool, and nothing in flight.
Crash ==
    /\ requests + failures < MaxIncidents
    /\ failures' = failures + 1
    /\ pool' = None
    /\ job' = [j \in Jobs |-> None]
    /\ sender' = [s \in Senders |-> None]
    /\ put' = None
    /\ UNCHANGED <<segment, client, crossed, store, sends, spoiled, retold, requests>>

-----------------------------------------------------------------------------

Work(j) ==
    \/ FindEvent(j) \/ SaveEvent(j) \/ ReadSegment(j) \/ Connect(j) \/ Query(j)
    \/ Answer(j) \/ SaveTarget(j) \/ ReadNumbers(j) \/ FindReserved(j)
    \/ SaveReserved(j) \/ ReserveRecurring(j) \/ CopyTarget(j) \/ DeleteTarget(j) \/ Stamp(j)

Next ==
    \/ \E j \in Jobs : AutoStart(j) \/ Work(j)
    \/ \E j \in Jobs, e \in Events, g \in Segments : ContentRequest(j, e, g)
    \/ \E j \in Jobs, g \in Segments, k \in Kinds \ {"now"} : ReserveRequest(j, g, k)
    \/ \E s \in Senders : SenderStart(s) \/ FindMarked(s) \/ MarkSent(s) \/ Hand(s)
    \/ \E r \in Rows : Edit(r)
    \/ \E d \in Dbs : ConnectRequest(d)
    \/ \E e \in Events : PutRead(e) \/ DeleteEvent(e)
    \/ \E g \in Segments : FilterSegment(g) \/ DeleteSegment(g)
    \/ PutSave
    \/ Reject
    \/ Crash

Spec == Init /\ [][Next]_vars

\* The cron server keeps posting, and an awaited call answers.
Fairness == \A j \in Jobs : WF_vars(AutoStart(j)) /\ WF_vars(Work(j))

FairSpec == Spec /\ Fairness

-----------------------------------------------------------------------------
(* Properties.                                                             *)

Versions == Rows \X Times

Stages == {"find", "save", "segment", "connect", "query", "answer", "insert", "numbers",
           "schedule", "reserve", "copy", "stamp"}

TargetRecords == [event : Events, row : Rows, ver : Times, auto : BOOLEAN, copy : BOOLEAN,
                  reserved : BOOLEAN, sent : BOOLEAN, live : BOOLEAN]

IdMaps == UNION {[D -> Nat] : D \in SUBSET {Number[r] : r \in Rows}}

Lists == [Events -> EventRecords]

RunShape ==
    [mode : {"auto", "content", "reserve"}, at : Stages, ev : Events \cup {None},
     todo : SUBSET Events, list : Lists, seg : Segments, kind : Kinds,
     copy : EventRecords \cup {None}, rows : SUBSET Versions, left : SUBSET Versions,
     ids : SUBSET Nat, idOf : IdMaps, row : Rows \cup {None},
     source : TargetRecords \cup {None}, copies : 0..MaxDates, value : Times,
     then : {"segment", "query", "stamp", "next"}]

ASSUME IdleAssumption ==
    None \notin RunShape \cup EventRecords \cup TargetRecords

JobOK(run) ==
    /\ run.mode \in {"auto", "content", "reserve"}
    /\ run.at \in Stages /\ run.then \in Stages \cup {"next"}
    /\ run.todo \subseteq Events /\ run.list \in Lists
    /\ run.ev \in (IF run.mode = "reserve" THEN {None} ELSE Events)
    /\ run.at = "save" => run.copy \in EventRecords
    /\ run.rows \subseteq Versions /\ run.left \subseteq run.rows
    /\ run.ids \subseteq Ids
    /\ run.at = "reserve" => Number[run.row] \in DOMAIN run.idOf
    /\ run.at \in {"reserve", "copy"} => run.source \in TargetRecords
    /\ run.value \in Times
    /\ run.copies \in 0..MaxDates

SenderOK(run) ==
    /\ run.todo \subseteq Ids
    /\ run.id = None \/ run.id \in Ids
    /\ run.copy # None => run.id # None /\ run.copy \in TargetRecords

TypeOK ==
    /\ segment \in [Segments -> {"filtered", "unfiltered", "none"}]
    /\ event \in Lists
    /\ ver \in [Rows -> 1..clock]
    /\ clock \in 1..MaxClock
    /\ pool \in Dbs \cup {None}
    /\ targets \in Seq(TargetRecords)
    /\ handed \in [Ids -> Nat] /\ unmarked \in [Ids -> Nat]
    /\ \A j \in Jobs : job[j] # None => JobOK(job[j])
    /\ \A s \in Senders : sender[s] # None => SenderOK(sender[s])
    /\ put # None => put.ev \in Events /\ put.row \in EventRecords
    /\ made \subseteq Events \X Rows \X Times
    /\ unseen \subseteq Versions
    /\ crossed \subseteq Events /\ retold \subseteq Events
    /\ spoiled \in Nat /\ requests \in Nat /\ failures \in Nat

\* Users may give an event another segment or last run time, and may connect the
\* process to another database between a run's own connect and its query.
Undisturbed(e) == e \notin retold \cup crossed

Own(e, r) == RowDb[r] = SegDb[event[e].seg]

(***************************************************************************)
(* All queries share one pool, but a run of the cron makes targets of an   *)
(* event only of rows of the event's own client: unless somebody else      *)
(* connects after the run has connected and before it asks for its query.  *)
(* No other step of a run or a request, and no death or restart of the     *)
(* process, gives a client's rows to another.                              *)
(***************************************************************************)
OwnRowsOnly ==
    \A i \in Ids : LET t == targets[i] IN
        t.auto /\ Undisturbed(t.event) => Own(t.event, t.row)

(***************************************************************************)
(* No change is lost: what changed before the time stored as the last run  *)
(* of the event has become a target of it, wherever runs threw or died,    *)
(* and whichever old row of the event a run or a user saved back; except   *)
(* for a change made while a query was being answered, which is older than *)
(* the time taken after.  A user who gives the event another time or       *)
(* another segment, or whose connect crosses a run of it, does lose some.  *)
(***************************************************************************)
Covered(e, t) ==
    \A r \in Rows :
        (Own(e, r) /\ Number[r] # None /\ ver[r] < t)
            => (<<e, r, ver[r]>> \in made \/ <<r, ver[r]>> \in unseen)

NoUpdateLost == \A e \in Events :
    event[e].last # None /\ Undisturbed(e) => Covered(e, event[e].last)

(***************************************************************************)
(* A target is handed to the send once, and once more only for each time a *)
(* reservation that had read it before it was marked was saved after: no   *)
(* stop of the sender, deletion or other stale row makes it go out again.  *)
(* It needs runs of sendReservedMessage that do not overlap.               *)
(***************************************************************************)
HandedOnce == \A i \in Ids : handed[i] <= 1 + unmarked[i]

(***************************************************************************)
(* A change becomes a second target of an event only after a failure,      *)
(* beside a request (an update of the event may write back an old time) or *)
(* after a run that threw once its targets were made: each lets it happen  *)
(* once.  The copies of a recurring reservation do not count.  It needs    *)
(* runs and requests that do not overlap.                                  *)
(***************************************************************************)
Repeats(e, r, v) ==
    Cardinality({i \in Ids : /\ targets[i].auto /\ ~targets[i].copy
                             /\ targets[i].event = e /\ targets[i].row = r /\ targets[i].ver = v})

RepeatedOnlyAfterFailure == \A e \in Events, r \in Rows, v \in 1..clock :
    Repeats(e, r, v) <= 1 + failures + requests + spoiled

(***************************************************************************)
(* A row with a receiver becomes a target of every event of its client     *)
(* that has a filter, in its last version: no event keeps the others from  *)
(* being run, except one whose segment is gone (getSegmentDetails throws   *)
(* in every run) or one that is Derailed.                                  *)
(***************************************************************************)
Waiting(e, r) ==
    /\ Own(e, r) /\ Number[r] # None
    /\ ver[r] = MaxClock \/ clock = MaxClock
    /\ segment[event[e].seg] = "filtered" /\ event[e].live

Blocked == Derailed \/ \E e \in Events : event[e].live /\ segment[event[e].seg] = "none"

EventuallyTargeted == \A e \in Events, r \in Rows :
    Waiting(e, r) ~> (\/ <<e, r, ver[r]>> \in made \/ <<r, ver[r]>> \in unseen
                      \/ ~event[e].live \/ ~Undisturbed(e) \/ Blocked)
=============================================================================
