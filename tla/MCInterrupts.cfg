SPECIFICATION FairSpec
CONSTANTS
    Order <- MCOrder
    Kind <- MCKind
    Lines <- MCLines
    Madt <- MCMadt
    SciIrq = 9
    NumIrqs = 24
    MaxHandlers = 4
    Target = 2
    Locks = {"gpe", "namespace"}
INVARIANTS LockExclusive CalibrationBound
PROPERTIES Served BootEnds
