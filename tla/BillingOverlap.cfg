CONSTANTS
    Requests = {r1, r2, r3}
    Openings <- RichOpening
    Sizes = {0, 1}
    AbSizes = {10}
    TopUps = {20}
    SmsChunk = 2
    BizChunk = 2
    Overlap = TRUE
SPECIFICATION Spec
SYMMETRY Symmetry
CHECK_DEADLOCK FALSE
INVARIANT TypeOK
INVARIANT PointNeverNegative
INVARIANT ChargedOnlyWhenAccepted
INVARIANT ChargeMatchesMessages
INVARIANT PaidSendsAreGrouped
INVARIANT NoMoneyFromNowhere
