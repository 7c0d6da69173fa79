CONSTANTS
    e1 = e1
    e2 = e2
    g1 = g1
    g2 = g2
    g3 = g3
    d1 = d1
    d2 = d2
    d3 = d3
    r1 = r1
    r2 = r2
    r3 = r3
    r4 = r4
    r5 = r5
    n1 = n1
    n3 = n3
    None = None
    Events = {e1, e2}
    Dbs = {d1, d2}
    Segments = {g1, g2}
    SegDb <- SegDbs
    Rows = {r1, r2, r3}
    RowDb <- RowDbs
    Number <- Numbers
    Opening <- Reserved
    Unfiltered = {g2}
    Jobs = {j1}
    Senders = {}
    MaxClock = 2
    PutTimes = {0, 3}
    MaxDates = 1
    MaxTargets = 2
    MaxRequests = 1
    MaxIncidents = 1
SPECIFICATION FairSpec
CHECK_DEADLOCK FALSE
INVARIANT OwnRowsOnly
INVARIANT NoUpdateLost
PROPERTY EventuallyTargeted
