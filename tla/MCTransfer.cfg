SPECIFICATION FairSpec
CONSTANTS
    Addr <- MCAddr
    Lists <- MCLists
    MaxBehind <- MCMaxBehind
    MaxConnections <- MCMaxConnections
    MaxDeaths <- MCMaxDeaths
INVARIANTS
    TypeOK
    NothingHalf
    FileHoldsWholeNodes
    ParserSurvives
    NobodyWaitsInVain
PROPERTY RecvReturns
CHECK_DEADLOCK FALSE
