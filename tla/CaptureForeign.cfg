\* The Linux endpoint while it is opened: frames of another interface.
CONSTANTS
    Platforms = {"linux"}
    Clients = {"scan", "monitor"}
    Sizes = {60}
    BufferOctets = 158
    Cuts = {0}
    KernelFrames = 2
    MaxFrames = 2
    MaxWindows = 2
SPECIFICATION FairSpec
INVARIANT OnlySelectedInterface
