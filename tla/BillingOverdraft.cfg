CONSTANTS
    Requests = {r1, r2}
    Openings <- PoorOpening
    Sizes = {3}
    AbSizes = {10}
    TopUps = {20}
    SmsChunk = 4
    BizChunk = 2
    Overlap = TRUE
SPECIFICATION Spec
SYMMETRY Symmetry
CHECK_DEADLOCK FALSE
INVARIANT NeverOverdrawn
