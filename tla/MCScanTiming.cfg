\* Schedules whose windows stay within the word, below and above the largest
\* duration.
CONSTANTS
    WordBits = 12
    SignificandBits = 3
    MaxExponent = 20
    MaxPower = 4
    DurationMax = 63
    Second = 4
    MinimumOctets = 6
    CheckOctets = 2
    Timeouts <- AllTimeouts
    Pacings = {0, 50}
    Attempts = {1, 2, 4, 6}
    Factors <- SmallFactors
    Intervals = {1, 20}
    BitRates = {2, 7, 20}
    FrameLengths = {3, 5, 6}
SPECIFICATION Spec
INVARIANTS IntervalCoversBitBudget WindowIsCeiling WindowsNeverShrink AcceptedScheduleFits
