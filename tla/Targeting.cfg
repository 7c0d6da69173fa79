CONSTANTS
    e1 = e1
    e2 = e2
    g1 = g1
    g2 = g2
    g3 = g3
    d1 = d1
    d2 = d2
    d3 = d3
    r1 = r1
    r2 = r2
    r3 = r3
    r4 = r4
    r5 = r5
    n1 = n1
    n3 = n3
    None = None
    Events = {e1, e2}
    Dbs = {d1, d2, d3}
    Segments = {g1, g2, g3}
    SegDb <- SegDbs
    Rows = {r1, r3, r4, r5}
    RowDb <- RowDbs
    Number <- Numbers
    Opening <- Recurrent
    Unfiltered = {}
    Jobs = {j1}
    Senders = {s1}
    MaxClock = 2
    PutTimes = {0, 3}
    MaxDates = 1
    MaxTargets = 4
    MaxRequests = 0
    MaxIncidents = 1
SPECIFICATION StillSpec
CHECK_DEADLOCK FALSE
INVARIANT TypeOK
INVARIANT NoUpdateLost
INVARIANT HandedOnce
INVARIANT RepeatedOnlyAfterFailure
