SPECIFICATION Spec
CONSTANTS
    Base = 4
    MaxMessage = 18
    RequestSizes = {0, 1, 3, 4, 5, 8, 9}
    ReplySizes = {0, 1, 3, 4, 9}
    DebugSizes = {2, 5}
    Numbers = 3
    MaxFrames = 2
INVARIANTS RequestsIntact RepliesIntact
CHECK_DEADLOCK FALSE
