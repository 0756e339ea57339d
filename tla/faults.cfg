SPECIFICATION EvalSpec
CONSTANTS
    Symbols <- MCSymbols
    Values <- MCValues
    IntHalf = 8
    Numbers <- MCNumbers
    Inputs <- FaultyInputs
    MaxFiles = 1
    MaxLines = 1
CHECK_DEADLOCK FALSE
PROPERTIES
    ProgramEnds
