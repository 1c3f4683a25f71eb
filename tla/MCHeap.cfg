SPECIFICATION Spec
CONSTANTS
    HeapStart = 48
    HeapSize = 256
    Word = 1024
    NULL = NULL
    Requests <- MCRequests
INVARIANTS Tiling Coalesced Aligned
PROPERTIES Returns ImplementsAllocator
