SPECIFICATION NodeInfoSpec
CONSTANTS
    Addr <- MCAddr
    Entry <- MCEntry
    Longest = 2
    FirstLists <- MCFirstLists
    SecondLists <- MCSecondLists
    Ends <- MCEnds
    NULL = NULL
    WILD = WILD
    k1 = k1
    k2 = k2
    k3 = k3
    k4 = k4
    v1 = v1
    v2 = v2
    NIL = NIL
    Key <- MCKey
    Value <- MCValue
    size <- MCsize
    hash <- MChash
INVARIANTS
    TypeOK
    NodeMergeIsMerge
    IpListMergeKeeps
    AddressesOnce
    ConflictIsReported
    SurvivesIffListsEnd
    TableTypeOK
    BoundOnce
PROPERTIES
    MergeEnds
    MergeAdvances
    IsMap
CHECK_DEADLOCK FALSE
