SPECIFICATION BoundedSpec
CONSTANTS
    Symbols = {x, y}
    Values = {v1, v2}
    MaxEnvs = 3
SYMMETRY EnvSymmetry
INVARIANTS
    EnvTypeOK
    ChainsWellFormed
PROPERTIES
    ResolutionStable
    SetReachesExactlyItsReaders
