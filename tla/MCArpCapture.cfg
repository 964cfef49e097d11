\* Both platforms, all framings, the limits of the client data.
CONSTANTS
    Platforms = {"linux", "macos"}
    Wires <- WiresAtLimits
    ForeignFrames <- FramesAround
SPECIFICATION Spec
INVARIANTS FilterAdmitsExactlyArp MirroredReplyRead RequestReadsBack SendProtocolOnWire
