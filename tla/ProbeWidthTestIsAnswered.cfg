SPECIFICATION FairSpec
CONSTANTS
    NULL = NULL
    addresses <- MCaddresses
    MaxFd <- MCMaxFd
    Ticks <- MCTicks
    size <- MCsize
    hash <- MChash
PROPERTY WidthTestIsAnswered
CHECK_DEADLOCK FALSE
