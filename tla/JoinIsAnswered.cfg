SPECIFICATION FairSpec
CONSTANTS
    Addr <- MCAddr
    Client <- MCClient
    Server <- MCServer
    Nothing = Nothing
    Ids <- MCIds
    Interfaces <- MCInterfaces
    OldServer <- MCNobody
    MaxRuns = 2
    MaxDeaths = 0
PROPERTY JoinIsAnswered
CHECK_DEADLOCK FALSE
