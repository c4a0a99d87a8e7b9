SPECIFICATION Spec
CONSTANTS
    MaxBreakpoints = 2
    MaxEventsStatus = 3
    MaxEventsStep = 1
    RunSteps = 2
    AddrCount = 3
    KeyTextSize = 2
    Callbacks = {"cycle", "write_memory", "run_forever", "interrupt"}
    MaxBurst = 1
    MaxOut = 3
    MaxInput = 2
    MaxPending = 1
INVARIANTS TypeOK StopsWhereAsked EventsInOrder
PROPERTIES NoTextRefusedWhileRunning FaultIsKept
CHECK_DEADLOCK FALSE
