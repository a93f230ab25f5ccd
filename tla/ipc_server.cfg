CONSTANTS
    c1 = c1  c2 = c2
    None = None
    Conns <- TwoConns
    Leaving <- OneConn
    Fds <- SomeFds
    Shapes <- EveryShape
    HeadLen = 2
    Block = 1
    PipeCap = 1
    SendCap = 1
    MaxMessages = 3
    MaxFaults = 1
SPECIFICATION FairSpec
INVARIANTS TypeOK MapsToOwnSocket TablesAgree FramesWhole DeliveredInOrder
PROPERTIES ImplementsIpcService EveryRequestServed
CHECK_DEADLOCK FALSE
