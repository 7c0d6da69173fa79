-------------------------------- MODULE ConnPool --------------------------------
(***************************************************************************)
(* The connections of the process to its database.  A default send opens a *)
(* transaction, which holds a connection, and inside of it saves a group   *)
(* by the repository, which asks the pool for another.  Everything else    *)
(* holds one at a time and asks for none while it does.  The pool gives    *)
(* out what is free and lets the others wait without a timeout.            *)
(***************************************************************************)
EXTENDS Integers, FiniteSets

CONSTANTS
    PoolConns,      \* connections (max of pg.Pool)
    PoolSends,      \* sends in saveMessageInfo
    PoolOthers,     \* other queries and transactions
    PoolNone

\* Nothing keeps as many sends as there are connections from coming.
ASSUME PoolAssumption ==
    /\ IsFiniteSet(PoolConns) /\ IsFiniteSet(PoolSends)
    /\ PoolNone \notin PoolSends \cup PoolOthers

VARIABLES
    holder,     \* holder[c]: who holds connection c, or PoolNone
    poolAt      \* poolAt[p]: where p is

poolVars == <<holder, poolAt>>

PoolUsers == PoolSends \cup PoolOthers

ConnPoolInit ==
    /\ holder = [c \in PoolConns |-> PoolNone]
    /\ poolAt = [p \in PoolUsers |-> "idle"]

Free == {c \in PoolConns : holder[c] = PoolNone}

PoolMove(p, from, to) == poolAt[p] = from /\ poolAt' = [poolAt EXCEPT ![p] = to]

Acquire(p) == \E c \in Free : holder' = [holder EXCEPT ![c] = p]

\* Variant: the connection is not given back.
ReleaseNothing(p) == UNCHANGED holder

\* One of the connections p holds goes back.
Release(p) == \E c \in PoolConns : holder[c] = p /\ holder' = [holder EXCEPT ![c] = PoolNone]

\* A query or a transaction asks for a connection.
Ask(p) == PoolMove(p, "idle", "waiting") /\ UNCHANGED holder

\* BEGIN of saveMessageInfo, after the message was saved by itself
Begin(p) == PoolMove(p, "waiting", "begun") /\ Acquire(p)

\* createMessageGroup asks for a connection of its own ...
AskForGroup(p) == p \in PoolSends /\ PoolMove(p, "begun", "grouping") /\ UNCHANGED holder

\* ... gets one, saves the group ...
SaveGroup(p) == p \in PoolSends /\ PoolMove(p, "grouping", "grouped") /\ Acquire(p)

\* ... and gives it back.
GroupSaved(p) == p \in PoolSends /\ PoolMove(p, "grouped", "ending") /\ Release(p)

\* COMMIT, ROLLBACK or the end of a query
End(p) ==
    /\ PoolMove(p, "begun", "idle") \/ PoolMove(p, "ending", "idle")
    /\ Release(p)

ConnPoolNext == \E p \in PoolUsers :
    Ask(p) \/ Begin(p) \/ AskForGroup(p) \/ SaveGroup(p) \/ GroupSaved(p) \/ End(p)

ConnPoolSpec == ConnPoolInit /\ [][ConnPoolNext]_poolVars

-----------------------------------------------------------------------------
(* Properties.                                                             *)

Stuck == Free = {} /\ \A c \in PoolConns : poolAt[holder[c]] = "grouping"

(***************************************************************************)
(* Everybody waits for everybody (no connection is free, and whoever holds *)
(* one asks for another before giving it back) only when as many default   *)
(* sends as the pool has connections are saving a group at once: nothing   *)
(* else that takes connections, and no smaller number of sends, does it.   *)
(***************************************************************************)
StuckOnlyBySends ==
    Stuck => Cardinality({p \in PoolSends : poolAt[p] = "grouping"}) >= Cardinality(PoolConns)
=============================================================================
