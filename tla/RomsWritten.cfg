SPECIFICATION Spec
CONSTANTS
    Chunk = 2
    MaxBinaries = 2
    MaxSize = 5
    MaxPos = 3
    MaxEdits = 0
INVARIANT RomsWritten
CHECK_DEADLOCK FALSE
