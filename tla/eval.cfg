SPECIFICATION EvalSpec
CONSTANTS
    Symbols <- MCSymbols
    Values <- MCValues
    IntHalf = 8
    Numbers <- MCNumbers
    Inputs <- LegalInputs
    MaxFiles = 1
    MaxLines = 1
CHECK_DEADLOCK FALSE
INVARIANTS
    EvalTypeOK
    ContextsMatchCalls
    ActivationsBelowGlobal
    BodySeesItsArguments
    NeverUndefined
PROPERTIES
    ScopesArePrivate
    DataRunsOnlyByEval
    EnvSpec
    ProgramEnds
