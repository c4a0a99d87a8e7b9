SPECIFICATION Spec
CONSTANTS
    Files = {asm, include}
    VerifyEvery = 2
    MaxEdits = 3
INVARIANTS TypeOK NothingForgotten
PROPERTY EditsAreCompiled
CHECK_DEADLOCK FALSE
