SPECIFICATION Spec
CONSTANTS
    Order <- MCOrder
    Number <- MCNumber
    MachinePaths <- MCMachinePaths
    SourcePaths <- MCSourcePaths
    SerialPorts <- MCSerialPorts
    EmulatorPaths <- MCEmulatorPaths
    BoxChoices <- MCChoices
    Windows = {}
    MemoryWindows <- MCMemoryWindows
    ComputerRegisters = 1
    Definitions <- MCDefinitions
    MaxStarts = 3
    MaxRegisters = 2
INVARIANTS Endings SessionIsWhole NoDeadEnd WindowsAsSaved
PROPERTIES RestartRemembers
CHECK_DEADLOCK FALSE
