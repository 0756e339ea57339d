SPECIFICATION MemorySpec
CONSTANTS
    Count = 2
    MaxPools = 3
    MaxDepth = 3
    Names <- MCNames
    NameLen <- MCNameLen
    BumpSize = 4
    SymCapacity = 2
INVARIANTS
    PoolTypeOK
    SlotsAccountedFor
    ReachablePoolsExist
    NamesReadBack
    OnlyEndsBehindPools
PROPERTIES
    IsAllocator
    SymbolsKeepTheirPlace
CHECK_DEADLOCK FALSE
