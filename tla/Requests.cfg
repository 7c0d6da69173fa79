CONSTANTS
    n1 = n1
    n2 = n2
    q1 = q1
    q2 = q2
    s1 = s1
    o1 = o1
    digits = digits
    PbUsers = {u1, u2}
    PbTitles = {t1}
    PbNumbers = {n1, n2}
    PbRequests = {r1}
    PbMaxBooks = 2
    PbMaxContacts = 2
    FtUsers = {u1}
    FtNumbers = {n1, n2}
    FtLists <- ReceiverLists
    FtChunk = 1
    FtSends = {s1, s2}
    FtOverlap = FALSE
    FtMaxNow = 2
    SegIds = {g1}
    SegQueries = {q1, q2}
    SegAnswer <- Answers
    SegFirst <- Firsts
    SegConds = {c1}
    SegMeets <- Meeting
    SegKey <- LookedUp
    SegRequests = {r1}
    SegNone = SegNone
    PayOrders = {o1, o2}
    PayMoney <- Charges
    PayRequests = {r1, r2}
    PayMaxMoney = 2
    PayMaxRefunds = 1
    AccUsers = {u1}
    AccNumbers = {digits, dashed}
    AccDigits <- OnlyDigits
    AccValid = {digits}
    AccRequests = {r1}
    AccNone = AccNone
    AccMaxHosts = 2
    PoolConns = {p1, p2}
    PoolSends = {s1, s2, s3}
    PoolOthers = {r1}
    PoolNone = PoolNone
SPECIFICATION Spec
CHECK_DEADLOCK FALSE
INVARIANT MembersAreOwnContacts
INVARIANT OneContactPerNumber
PROPERTY MembersKept
INVARIANT AdvertsFiltered
INVARIANT AdvertsAccepted
INVARIANT HistoryKept
INVARIANT ExcludedWereSent
PROPERTY FilterOnlyNarrows
INVARIANT CompletedWasCredited
INVARIANT PaymentNotKept
INVARIANT HostnumbersAgree
INVARIANT StuckOnlyBySends
