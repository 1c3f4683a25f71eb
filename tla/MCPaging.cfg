SPECIFICATION Spec
CONSTANTS
    PageSize = 8
    Fanout = 2
    Frames = {1, 2, 3, 4, 5, 6, 7}
    Root = 0
    Requests <- MCRequests
    MaxCalls = 4
INVARIANTS RangeMapped
PROPERTY OnlyThisPage
CHECK_DEADLOCK FALSE
