SPECIFICATION SessionSpec
CONSTANTS
    MaxBreakpoints = 1
    MaxEventsStatus = 3
    MaxEventsStep = 1
    RunSteps = 1
    AddrCount = 2
    KeyTextSize = 2
    Callbacks = {"on_keypress", "write_memory", "run_forever"}
    MaxBurst = 1
    MaxOut = 0
    MaxInput = 1
    MaxPending = 0
    ChunkCount = 1
    PageReads = 1
    KeysPerFrame = 1
    MaxEdits = 0
    MaxRestarts = 0
INVARIANT NoKeyLost
PROPERTIES CallsReturn StopNoticed PausePauses
CHECK_DEADLOCK FALSE
