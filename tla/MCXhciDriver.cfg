SPECIFICATION DriverFairSpec
CONSTANTS
    Hcs <- MCHcs
    ExtCaps <- MCExtCaps
    HaltTries = 2
    ResetTries = 2
    StartTries = 1
    PortTries = 2
    MaxHotplug = 5
    MaxChanges = 1
INVARIANTS SlotsDistinct ChangesKept
PROPERTIES RegisterRules BringUpEnds
