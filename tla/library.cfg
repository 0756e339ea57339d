SPECIFICATION LibrarySpec
CONSTANTS
    Items = {1, 2}
    ListCapacity = 4
    MaxItems = 8
    Keys <- MCKeys
    Values <- MCValues
    Hash <- MCHash
    InitCap = 2
    EntriesCapacity = 4
    MaxEntries = 5
    Pointers = {p1}
    StackSize = 2
    STACK_GROWTH = 2
    MaxCells = 5
    IntHalf = 4
    MaxArgs = 4
INVARIANTS
    DictTypeOK
    LookupsAgree
    StackTypeOK
    ArithmeticIsExact
PROPERTIES
    ListIsSequence
    EntryStable
    DictIsMap
    StackIsFrames
CHECK_DEADLOCK FALSE
