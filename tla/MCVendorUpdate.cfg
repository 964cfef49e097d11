SPECIFICATION Spec
CONSTANTS
    Registry = {Large, Small}
    AllRegistries <- MCAllRegistries
    AssignmentDigits <- MCDigits
    Hex <- MCHex
    Separator <- MCSeparator
    MinPrefixDigits = 1
    AddressDigits = 2
    MultiLine = {TwoLines}
    NoVendor = NoVendor
    None = None
    Large = Large
    Small = Small
    Acme = Acme
    Bolt = Bolt
    Corp = Corp
    TwoLines = TwoLines
    Updater = {u1, u2}
    Reader = {r1}
    OldText <- MCOldText
    Published <- MCPublished
    Directories <- MCDirectories
    Chunk = 3
    MaxRuns = 2
    MaxPowerLosses = 1
INVARIANTS TypeOK WholeListings
PROPERTIES ImplementsRegistryFile ExposedTextsStay
CHECK_DEADLOCK FALSE
SYMMETRY MCSymmetry
