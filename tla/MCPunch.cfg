SPECIFICATION FairSpec
CONSTANTS
    Client <- MCClient
    Server <- MCServer
    Stranger <- MCStranger
    type <- MCType
    SRV_IP <- MCPeer
    send_string <- MCSend
    recv_string <- MCRecv
    Listen_PORT <- MCListen
    respond_string <- MCRespond
    Party <- PairOrCall
    PORT = 2
    NatPort <- MCNatPort
    FixedPort = 1
    WIRE = 2
    Reachable <- MCOnlyA
    Noise <- MCNoise
    Restartable <- MCRestart
    MaxTroubles = 1
    MaxCopies = 1
INVARIANTS
    TypeOK
    FewPunchesAfterSuccess
    HeartbeatsStayWithPeer
PROPERTIES
    LinkHeals
    SweepersConnect
    CallersAreAnswered
