SPECIFICATION EvalSpec
CONSTANTS
    Symbols <- MCSymbols
    Values <- MCValues
    IntHalf = 8
    Numbers <- MCNumbers
    Inputs <- ReadmeListInputs
    MaxFiles = 0
    MaxLines = 1
CHECK_DEADLOCK FALSE
INVARIANTS
    NeverUndefined
