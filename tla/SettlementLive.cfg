CONSTANTS
    mB = mB
    mN = mN
    mU = mU
    gAb = gAb
    gOther = gOther
    NoGroup = NoGroup
    None = None
    Messages = {mB, mN}
    Remainders = {mN}
    Receivers <- OneEach
    Groups = {gAb, gOther}
    Paid = {gAb}
    GroupOf <- Grouping
    Ticks = {t1}
    Pages = {}
    Overlap = FALSE
    MaxCrashes = 1
SPECIFICATION FairSpec
CHECK_DEADLOCK FALSE
INVARIANT SettledOnce
INVARIANT NoOverRefund
PROPERTY SettledEventually
