\* Schedules whose last window is past the word.
CONSTANTS
    WordBits = 12
    SignificandBits = 3
    MaxExponent = 20
    MaxPower = 40
    DurationMax = 63
    Second = 4
    MinimumOctets = 6
    CheckOctets = 2
    Timeouts <- AllTimeouts
    Pacings = {0, 50}
    Attempts = {2, 3}
    Factors <- LargeFactors
    Intervals = {1, 20}
    BitRates = {2, 7, 20}
    FrameLengths = {3, 5, 6}
SPECIFICATION Spec
INVARIANT AcceptedScheduleFits
