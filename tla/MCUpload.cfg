SPECIFICATION Spec
CONSTANTS
    Chunk = 2
    MaxBinaries = 2
    MaxSize = 4
    MaxPos = 2
    MaxEdits = 1
INVARIANTS TypeOK RomWritten
PROPERTY UploadEnds
CHECK_DEADLOCK FALSE
