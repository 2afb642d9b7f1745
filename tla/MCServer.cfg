SPECIFICATION LiveSpec
CONSTANTS
    Addr <- MCAddr
    Obj <- MCObj
    NULL <- MCNULL
    LocalIps <- MCLocalIps
    GenIds <- MCGenIds
    Messages <- MCMessages
    FirstFile <- MCFirstFile
    DstNodes = 1
    MaxFd = 4
INVARIANTS
    TypeOK
    NoDuplicateNode
    RegistrationKeepsEveryone
    RegistrationInventsNothing
    ReplyIsWhatWasSaved
PROPERTIES
    FileKeepsEveryone
    HandlingEnds
