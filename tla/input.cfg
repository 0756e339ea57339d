SPECIFICATION InputSpec
CONSTANTS
    Letters = {x, y}
    NL = NL
    N = 9
    MaxLine = 3
    MaxFiles = 2
    MaxTyped = 5
INVARIANTS
    InputTypeOK
    BufferIsWhatWasTyped
    ParserMeetsWhatWasTyped
CHECK_DEADLOCK FALSE
