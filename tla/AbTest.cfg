CONSTANTS
    s1 = s1
    s2 = s2
    d1 = d1
    None = None
    AbSends = {s1, s2}
    Defaults = {d1}
    Linked = {s1}
    Short = {s2}
    Channels = {"sms", "kakao"}
    Ticks = {t1}
    Interleave = FALSE
    MaxFailures = 2
SPECIFICATION FairSpec
CHECK_DEADLOCK FALSE
INVARIANT TypeOK
INVARIANT WinnerGoesToOwnRemainder
INVARIANT ResentOnlyAfterFailure
PROPERTY EventuallyDecided
