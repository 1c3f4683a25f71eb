SPECIFICATION FairSpec
CONSTANTS
    GivesUp = TRUE
    NumSlots = 3
    MaxNoise = 1
INVARIANTS SlotIsFree NoCommandLost QuietOnSuccess
PROPERTIES Returns
