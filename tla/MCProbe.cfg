SPECIFICATION Spec
CONSTANTS
    NULL = NULL
    addresses <- MCaddresses
    MaxFd <- MCMaxFd
    Ticks <- MCTicks
    size <- MCsize
    hash <- MChash
INVARIANTS
    TypeOK
    EachAddressItsOwn
    LeaksOnePerAddress
CHECK_DEADLOCK FALSE
