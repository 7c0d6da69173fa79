CONSTANTS
    mB = mB
    mN = mN
    mU = mU
    gAb = gAb
    gOther = gOther
    NoGroup = NoGroup
    None = None
    Messages = {mN, mU}
    Remainders = {mN}
    Receivers <- OneEach
    Groups = {gAb, gOther}
    Paid = {gAb, gOther}
    GroupOf <- Grouping
    Ticks = {t1}
    Pages = {p1}
    Overlap = FALSE
    MaxCrashes = 1
SPECIFICATION Spec
CHECK_DEADLOCK FALSE
INVARIANT TypeOK
INVARIANT NoOverRefund
INVARIANT RefundWithinGroup
