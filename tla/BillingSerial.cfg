CONSTANTS
    Requests = {r1, r2, r3}
    Openings <- SerialOpenings
    Sizes = {3}
    AbSizes = {10}
    TopUps = {20}
    SmsChunk = 10
    BizChunk = 3
    Overlap = FALSE
SPECIFICATION Spec
SYMMETRY Symmetry
CHECK_DEADLOCK FALSE
INVARIANT NeverOverdrawn
PROPERTY ImplementsLedger
