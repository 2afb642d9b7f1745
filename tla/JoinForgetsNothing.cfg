SPECIFICATION Spec
CONSTANTS
    Addr <- MCAddr
    Client <- ChainClient
    Server <- ChainServer
    Nothing = Nothing
    Ids <- MCIds
    Interfaces <- ChainInterfaces
    OldServer <- ChainServer
    MaxRuns = 4
    MaxDeaths = 0
PROPERTY JoinForgetsNothing
CHECK_DEADLOCK FALSE
