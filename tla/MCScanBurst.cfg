\* Burst path: two rounds of two targets, one window of 2.5 ms.
CONSTANTS
    a = a
    b = b
    x = x
    m1 = m1
    m2 = m2
    None = None
    Ip = {a, b, x}
    Mac = {m1, m2}
    Targets <- TwoTargets
    AcceptedSenders = {a, b}
    RateLimited = FALSE
    Rounds = 2
    ReceiveWindow <- BurstWindow
    Interval = 0
    Pacing = 1
    TicksPerMillisecond = 2
    MaxPollMilliseconds = 1
    MaxTimestamp = 7
    Frames <- MixedFrames
    MaxFrames = 2
    MaxLate = 2
SPECIFICATION FairSpec
INVARIANTS TypeOK WarningNamesReportedHost
PROPERTIES RoundPacing WindowNotCutShort Terminates
