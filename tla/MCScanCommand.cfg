SPECIFICATION Spec
CONSTANTS
    None = None
    Absent = Absent
    Zero = Zero
    Name <- MCName
    InvalidName <- MCInvalidName
    Width = 4
    ParsedVid = 4095
    ParsedPcp = 7
    MaxVid = 4095
    MaxPcp = 7
    MaxRate = 2000000
    ClientLimit = 1500
    ArpOctets = 28
    SnapOctets = 8
    Platform = {"linux", "macos", "other"}
    Start <- MCStart
    Changed <- MCChanged
    MaxChanges = 2
    MaxFaults = 1
INVARIANTS TypeOK ProbesWhatItAccepts EndsAsFound FailuresOnlyHide OneInterface ParsedLinesConvert
CHECK_DEADLOCK FALSE
