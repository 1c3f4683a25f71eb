SPECIFICATION PortSpec
CONSTANTS
    GivesUp = FALSE
    NumSlots = 1
    MaxNoise = 0
INVARIANTS SuccessIsReal
