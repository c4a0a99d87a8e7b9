SPECIFICATION SessionSpec
CONSTANTS
    MaxBreakpoints = 1
    MaxEventsStatus = 3
    MaxEventsStep = 1
    RunSteps = 1
    AddrCount = 3
    KeyTextSize = 2
    Callbacks = {"write_memory", "interrupt", "cycle"}
    MaxBurst = 1
    MaxOut = 2
    MaxInput = 0
    MaxPending = 0
    ChunkCount = 2
    PageReads = 2
    KeysPerFrame = 0
    MaxEdits = 0
    MaxRestarts = 0
INVARIANTS SessionTypeOK RunningAgrees BreakpointsAgree PcShown TerminalComplete
CHECK_DEADLOCK FALSE
