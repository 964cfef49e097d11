\* Rate-limited path: the wording of conflict warnings against the report.
CONSTANTS
    a = a
    b = b
    x = x
    m1 = m1
    m2 = m2
    None = None
    Ip = {a, b, x}
    Mac = {m1, m2}
    Targets <- TwoTargets
    AcceptedSenders = {a, b}
    RateLimited = TRUE
    Rounds = 2
    ReceiveWindow <- GrowingWindow
    Interval = 3
    Pacing = 1
    TicksPerMillisecond = 2
    MaxPollMilliseconds = 1
    MaxTimestamp = 14
    Frames <- RivalFrames
    MaxFrames = 3
    MaxLate = 1
SPECIFICATION FairSpec
INVARIANT WarningNamesReportedHost
