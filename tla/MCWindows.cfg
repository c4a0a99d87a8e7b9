SPECIFICATION Spec
CONSTANTS
    Programs <- MCPrograms
    MemorySizes <- MCMemorySizes
    PageSize = 2
    Block = 1
    Addr = {0, 1}
    Registers = {r1, r2}
    Cleared = Cleared
    MaxEdits = 1
    MaxStores = 1
SYMMETRY MCSymmetry
INVARIANTS TypeOK CodeShowsPc MemoryShown RegistersShown
CHECK_DEADLOCK FALSE
