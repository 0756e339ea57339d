SPECIFICATION MarkedSpec
CONSTANTS
    Keys <- MCKeys
    Values <- MCValues
INVARIANTS
    TreeTypeOK
    ParentsAgree
    EveryKeyIsFound
    NoRedBelowRed
    BlackHeightsAgree
    IterationIsPostOrder
PROPERTIES
    IsMap
    BalancingEnds
