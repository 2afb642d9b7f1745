SPECIFICATION FairSpec
CONSTANTS
    Client <- MCClient
    Server <- MCServer
    Stranger <- MCStranger
    type <- MCType
    SRV_IP <- MCPeer
    send_string <- MCSend
    recv_string <- MCRecv
    Listen_PORT <- MCListen
    respond_string <- MCRespond
    Party <- Pair
    PORT = 2
    NatPort <- MCNatPort
    FixedPort = 1
    WIRE = 2
    Reachable <- MCBoth
    Noise <- MCNoise
    Restartable <- MCNobody
    MaxTroubles = 2
    MaxCopies = 0
PROPERTY LinkHeals
