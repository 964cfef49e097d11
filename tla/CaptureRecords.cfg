\* Both endpoints under both clients: buffers of two records, cut or whole.
CONSTANTS
    Platforms = {"linux", "macos"}
    Clients = {"scan", "monitor"}
    Sizes = {60, 62}
    BufferOctets = 158
    Cuts = {0, 1, 70}
    KernelFrames = 2
    MaxFrames = 4
    MaxWindows = 2
SPECIFICATION FairSpec
INVARIANT PollSeesEverything
PROPERTIES ImplementsCaptureQueue NothingLeftBehind
