SPECIFICATION FairSpec
CONSTANTS
    Addr <- MCAddr
    Client <- MCClient
    Server <- MCServer
    Nothing = Nothing
    Ids <- MCIds
    Interfaces <- MCInterfaces
    OldServer <- MCOldServer
    MaxRuns = 4
    MaxDeaths = 1
INVARIANTS
    TypeOK
    NoDuplicateNode
    ToldIsKept
PROPERTIES
    Remembers
    WaitEnds
    OldServerAnswers
CHECK_DEADLOCK FALSE
