SPECIFICATION EvalSpec
CONSTANTS
    Symbols <- MCSymbols
    Values <- MCValues
    IntHalf = 64
    Numbers <- MCNumbers
    Inputs <- ReadmeEvalInputs
    MaxFiles = 0
    MaxLines = 1
CHECK_DEADLOCK FALSE
INVARIANTS
    ReadmeEvalExample
