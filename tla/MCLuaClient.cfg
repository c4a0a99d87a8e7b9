SPECIFICATION Spec
CONSTANTS
    Cell <- MCCell
    UInt8 = 4
    Chunk = 2
    Addresses = {1, 2}
    MaxBreakpoints = 1
    Writes <- MCWrites
    Reads <- MCReads
    Programs <- MCPrograms
INVARIANTS ScriptMemory ScriptKnows
CHECK_DEADLOCK FALSE
