CONSTANTS
    Requests = {r1}
    Openings <- RichOpening
    Sizes = {3}
    AbSizes = {11}
    TopUps = {20}
    SmsChunk = 4
    BizChunk = 2
    Overlap = FALSE
SPECIFICATION Spec
CHECK_DEADLOCK FALSE
PROPERTY RefusedOnlyWhenShort
