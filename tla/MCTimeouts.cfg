SPECIFICATION Spec
CONSTANTS
    Word = 32
    Overflow = 16
    Stamp = 8
    Starts = {0, 27}
    FirstRoundTrips = {1, 2}
    TimeoutLimits = {1, 16}
    TimeoutMinimum = 3
    TimeoutMaximum = 4
    MaxCommands = 2
    MaxPause = 2
    MaxTime = 15
    Lifetime = 7
INVARIANTS
    RoundTripTrue
    GivenUpInTime
CHECK_DEADLOCK FALSE
