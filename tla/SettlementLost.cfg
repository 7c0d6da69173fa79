CONSTANTS
    mB = mB
    mN = mN
    mU = mU
    gAb = gAb
    gOther = gOther
    NoGroup = NoGroup
    None = None
    Messages = {mB, mN}
    Remainders = {}
    Receivers <- OneEach
    Groups = {gAb, gOther}
    Paid = {gAb}
    GroupOf <- Grouping
    Ticks = {t1}
    Pages = {}
    Overlap = FALSE
    MaxCrashes = 0
SPECIFICATION Spec
CHECK_DEADLOCK FALSE
INVARIANT CompletedMeansRefunded
