SPECIFICATION SessionSpec
CONSTANTS
    MaxBreakpoints = 1
    MaxEventsStatus = 3
    MaxEventsStep = 1
    RunSteps = 1
    AddrCount = 2
    KeyTextSize = 2
    Callbacks = {"write_memory"}
    MaxBurst = 1
    MaxOut = 0
    MaxInput = 0
    MaxPending = 1
    ChunkCount = 2
    PageReads = 1
    KeysPerFrame = 0
    MaxEdits = 1
    MaxRestarts = 1
INVARIANTS LockStep KnownEndings
CHECK_DEADLOCK FALSE
