----------------------------- MODULE MCTargeting ------------------------------
(***************************************************************************)
(* TargetAutomation for up to three clients with a database and a segment  *)
(* each, and two events.  One row can change once.                         *)
(***************************************************************************)
EXTENDS TargetAutomation

CONSTANTS e1, e2,       \* events
          g1, g2, g3,   \* segments
          d1, d2, d3,   \* their databases
          r1, r2,       \* rows of d1; r2 has no receiver
          r3,           \* the row of d2
          r4, r5,       \* rows of d3, with the same receiver
          n1, n3        \* receivers

SegDbs == [g \in Segments |-> CASE g = g1 -> d1 [] g = g2 -> d2 [] g = g3 -> d3]
RowDbs == [r \in Rows |-> CASE r \in {r1, r2} -> d1 [] r = r3 -> d2 [] r \in {r4, r5} -> d3]
Numbers == [r \in Rows |-> CASE r = r2 -> None [] r = r3 -> n3 [] OTHER -> n1]

Table(g, k1, k2) == [e \in Events |->
    [live |-> TRUE, last |-> None, seg |-> IF e = e1 THEN g ELSE g2,
     kind |-> IF e = e1 THEN k1 ELSE k2]]

\* The first event is not reserved, or reserved once for the rows with the same
\* receiver; the second recurring, or not reserved.
Recurrent == {Table(g1, "now", "recurring"), Table(g3, "once", "now")}

\* The first is reserved once.  A user may make it recurring, with r2 in its way.
Reserved == {Table(g1, "once", "now")}

\* Clients change r1 or r3, and leave their rows alone while reservations of the
\* other rows meet the reserved send.
StillNext ==
    /\ Next
    /\ UNCHANGED <<ver[r4], ver[r5]>>
    /\ (\E e \in Events : event[e].kind = "once") => UNCHANGED client

StillSpec == Init /\ [][StillNext]_vars
=============================================================================
