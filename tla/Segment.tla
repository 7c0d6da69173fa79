-------------------------------- MODULE Segment --------------------------------
(***************************************************************************)
(* Segments: a query on a client's database, and the filter query that is  *)
(* made of it, condition by condition, until it is reset.  Every request   *)
(* reads the segment twice, to check its owner and to change it, and       *)
(* writes the whole row back; the fatigue filter awaits a query and the    *)
(* history of every number in between (module Fatigue).                    *)
(*                                                                         *)
(* A filter query is its base and what was appended to it.                 *)
(***************************************************************************)
EXTENDS Fatigue

CONSTANTS
    SegIds,         \* segments, of FtUsers
    SegQueries,     \* queries of clients
    SegAnswer,      \* SegAnswer[q]: the numbers in the rows of q
    SegFirst,       \* SegFirst[q]: those among them in a part before OR, which
                    \* AND (...) at the end of the query does not weaken or keep out
    SegConds,       \* conditions on a column
    SegMeets,       \* SegMeets[c]: the numbers in rows that meet c
    SegKey,         \* SegKey[n]: the number whose history is looked up for n, or SegNone
    SegRequests,    \* requests in flight together
    SegNone

ASSUME SegAssumption ==
    /\ SegAnswer \in [SegQueries -> SUBSET FtNumbers]
    /\ \A q \in SegQueries : SegFirst[q] \subseteq SegAnswer[q]
    /\ SegKey \in [FtNumbers -> FtNumbers \cup {SegNone}]
    /\ SegNone \notin [base : SegQueries, conds : SUBSET SegConds, excluded : SUBSET FtNumbers]

VARIABLES
    segments,   \* segments[g]: the row, [live, user, query, filter]
    seg         \* seg[q]: the request in slot q

segVars == <<segments, seg>>

\* filterQuery: the query it was made of and what was appended to it
Filter(base) == [base |-> base, conds |-> {}, excluded |-> {}]

NoSegment == [live |-> FALSE, user |-> SegNone, query |-> SegNone, filter |-> SegNone]

\* value: the query or condition of the request; copy: the segment as read; new:
\* the filter to store; todo: numbers still to look up; now: the time it took;
\* days: fatigueLevelDays.
SegRequest(op, u, g) ==
    [at |-> "check", op |-> op, user |-> u, id |-> g, value |-> SegNone, days |-> 0,
     copy |-> NoSegment, new |-> SegNone, todo |-> {}, now |-> 0]

SegIdle == [at |-> "idle", op |-> "none", id |-> SegNone]

SegmentInit ==
    /\ segments = [g \in SegIds |-> NoSegment]
    /\ seg = [q \in SegRequests |-> SegIdle]

SegAt(q, p) == seg[q].at = p
SegGo(q, r) == seg' = [seg EXCEPT ![q] = r]
SegAnswered(q) == SegGo(q, SegIdle)

\* The numbers in the rows that a filter query returns.
FilterRows(f) ==
    SegFirst[f.base] \cup
    {n \in SegAnswer[f.base] \ f.excluded : \A c \in f.conds : n \in SegMeets[c]}

-----------------------------------------------------------------------------

SegReceive(q) ==
    /\ SegAt(q, "idle")
    /\ \E u \in FtUsers, g \in SegIds :
          \/ /\ segments[g] = NoSegment
             /\ \A r \in SegRequests : seg[r].id # g
             /\ SegGo(q, [SegRequest("create", u, g) EXCEPT !.at = "create"])
          \/ \E op \in {"name", "nofilter", "reset", "delete"} : SegGo(q, SegRequest(op, u, g))
          \/ \E x \in SegQueries : SegGo(q, [SegRequest("query", u, g) EXCEPT !.value = x])
          \/ \E c \in SegConds : SegGo(q, [SegRequest("value", u, g) EXCEPT !.value = c])
          \/ \E d \in 1..2 : SegGo(q, [SegRequest("fatigue", u, g) EXCEPT !.days = d])
    /\ UNCHANGED segments

\* createSegment
SegCreate(q) ==
    /\ SegAt(q, "create")
    /\ segments' = [segments EXCEPT ![seg[q].id] = [NoSegment EXCEPT !.live = TRUE, !.user = seg[q].user]]
    /\ SegAnswered(q)

\* checkUserIsSegmentCreator, and what each request then asks of the segment;
\* without a filter query, value and fatigue throw.
Allowed(r, row) ==
    /\ row.live /\ row.user = r.user
    /\ CASE r.op = "nofilter" -> row.query # SegNone /\ row.filter = SegNone
         [] r.op = "reset" -> row.query # SegNone /\ row.filter # SegNone
         [] r.op \in {"value", "fatigue"} -> row.filter # SegNone
         [] OTHER -> TRUE

\* Variant: the filter is made of the query anew.
NewFilterAnew(r, row) ==
    CASE r.op \in {"nofilter", "reset"} -> Filter(row.query)
      [] r.op = "value" -> [Filter(row.filter.base) EXCEPT !.conds = {r.value}]
      [] r.op = "fatigue" -> row.filter
      [] OTHER -> SegNone

\* The filter to store, as far as it is known by now.
NewFilter(r, row) ==
    CASE r.op \in {"nofilter", "reset"} -> Filter(row.query)
      [] r.op = "value" -> [row.filter EXCEPT !.conds = @ \cup {r.value}]
      [] r.op = "fatigue" -> row.filter
      [] OTHER -> SegNone

SegCheck(q) ==
    /\ SegAt(q, "check")
    /\ LET row == segments[seg[q].id] IN
       IF Allowed(seg[q], row)
       THEN SegGo(q, [seg[q] EXCEPT !.new = NewFilter(seg[q], row),
                                    !.at = IF seg[q].op = "fatigue" THEN "rows" ELSE "find"])
       ELSE SegAnswered(q)
    /\ UNCHANGED segments

\* createFilterQueryByFatigueLevel: the rows of the filter query.  It runs on
\* the pool that was connected last, which the answers here do not tell apart.
FatigueRows(q) ==
    /\ SegAt(q, "rows")
    /\ SegGo(q, [seg[q] EXCEPT !.at = "history", !.todo = FilterRows(seg[q].new), !.now = ftNow])
    /\ UNCHANGED segments

\* Variant: any history counts.
HistoriesOfAny(n) == UNION {history[m] : m \in FtNumbers}

\* getMessageHistoryByPhoneNumber: under the number without its first character
Histories(n) == IF SegKey[n] = SegNone THEN {} ELSE history[SegKey[n]]

\* A number with a history of less than that many days is excluded.
LookUpHistory(q) ==
    /\ SegAt(q, "history")
    /\ IF seg[q].todo = {}
       THEN SegGo(q, [seg[q] EXCEPT !.at = "find"])
       ELSE \E n \in seg[q].todo :
              LET recent == \E t \in Histories(n) : seg[q].now - t < 2 * seg[q].days IN
              SegGo(q, [seg[q] EXCEPT !.todo = @ \ {n},
                                      !.new.excluded = IF recent THEN @ \cup {n} ELSE @])
    /\ UNCHANGED segments

\* findOneBy: 'Segment not found'
SegFind(q) ==
    /\ SegAt(q, "find")
    /\ LET row == segments[seg[q].id] IN
       IF row.live
       THEN SegGo(q, [seg[q] EXCEPT !.at = "save", !.copy = row])
       ELSE SegAnswered(q)
    /\ UNCHANGED segments

\* save: updateSegment changes the name only; a new query leaves the filter made
\* of the old one; a row that was deleted in between is inserted.
SegSave(q) ==
    /\ SegAt(q, "save")
    /\ LET copy == seg[q].copy
           row == CASE seg[q].op = "name" -> copy
                    [] seg[q].op = "query" -> [copy EXCEPT !.query = seg[q].value]
                    [] seg[q].op = "delete" -> [NoSegment EXCEPT !.user = copy.user]
                    [] OTHER -> [copy EXCEPT !.filter = seg[q].new]
       IN  segments' = [segments EXCEPT ![seg[q].id] = row]
    /\ SegAnswered(q)

\* A call rejects or the process ends.
SegStop(q) ==
    /\ seg[q].at # "idle"
    /\ SegAnswered(q)
    /\ UNCHANGED segments

SegmentStep == \E q \in SegRequests :
    \/ SegReceive(q) \/ SegCreate(q) \/ SegCheck(q) \/ FatigueRows(q) \/ LookUpHistory(q)
    \/ SegFind(q) \/ SegSave(q) \/ SegStop(q)

SegmentNext ==
    \/ SegmentStep /\ UNCHANGED ftVars
    \/ FatigueNext /\ UNCHANGED segVars

SegmentSpec == SegmentInit /\ FatigueInit /\ [][SegmentNext]_<<segVars, ftVars>>

-----------------------------------------------------------------------------
(* Properties.                                                             *)

(***************************************************************************)
(* Only a reset lets numbers back in: every other request leaves the rows  *)
(* of the filter query as they are or narrows them, though each writes a   *)
(* whole filter made of what it read before.  It needs requests that do    *)
(* not overlap (SegRequests has one element).                              *)
(***************************************************************************)
ResetOf(g) == \E q \in SegRequests : SegAt(q, "save") /\ seg[q].op = "reset" /\ seg[q].id = g

FilterOnlyNarrows == [][\A g \in SegIds :
    (segments[g].filter # SegNone /\ segments'[g].live) =>
        \/ ResetOf(g)
        \/ /\ segments'[g].filter # SegNone
           /\ FilterRows(segments'[g].filter) \subseteq FilterRows(segments[g].filter)]_segVars

(***************************************************************************)
(* A number is excluded only if NCP accepted a message for the number that *)
(* its history is kept under, through requests and sends that overlap.     *)
(***************************************************************************)
ExcludedWereSent == \A g \in SegIds :
    segments[g].filter # SegNone =>
        \A n \in segments[g].filter.excluded : \E p \in accepted : p[1] = SegKey[n]
=============================================================================
