SPECIFICATION FairSpec
CONSTANTS
    Size = 3
    Keys <- MCKeys
    NoKey = NoKey
    NoByte = NoByte
    MaxTicks = 1
INVARIANTS NoLostWakeup
PROPERTIES KeyWakesReader ImplementsKeyFifo
CHECK_DEADLOCK FALSE
