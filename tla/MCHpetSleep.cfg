SPECIFICATION FairSpec
CONSTANTS
    NumTimers = 2
    NumVectors = 4
    NumIrqs = 3
    Wirings <- MCWirings
    Capabilities <- MCTimerCapabilities
    HpetFound = TRUE
    OtherIrqs = {1}
    TicksPerMs = 2
    TicksPerUs = 1
    UsPerMs = 2
    MinSleep = 0
    MaxSleep = 2
INVARIANTS NotEarly
PROPERTIES SleepEnds
