SPECIFICATION EchoSpec
CONSTANTS
    Printable = {" ", "a"}
    Blank = " "
    BS = "BS"
    CR = "CR"
    LF = "LF"
    Other = "BEL"
    NUL = "NUL"
    Sizes <- MCSizes
    Texts <- MCTexts
    Frames <- MCFrames
    MaxChars = 4
    MaxKeys = 2
    EventsMax = 2
INVARIANTS CursorOnScreen OptionsAgree EchoedOnce
PROPERTIES  LastKeyEchoed
CHECK_DEADLOCK FALSE
