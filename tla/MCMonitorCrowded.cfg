\* A flood of packets and malformed frames against a list of two records.
CONSTANTS
    l = l
    f = f
    z = z
    me = me
    m1 = m1
    t1 = t1
    Packets <- CrowdingPackets
    Reasons = {"short"}
    LocalIps = {l}
    LocalMac = me
    ZeroIp = z
    RecordLimit = 2
    MaxCount = 2
    Timeouts = {0, 3, 9}
    TicksPerMillisecond = 2
    MaxPollMilliseconds = 1
    MaxTimestamp = 8
    BufferCapacity = 1
SPECIFICATION FairSpec
INVARIANTS TypeOK RecordsFaithful DuplicatesReported OverrunBounded ListenNotCutShort QuietOnlyWithoutConflict
PROPERTY Terminates
