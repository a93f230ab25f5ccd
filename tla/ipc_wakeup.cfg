CONSTANTS
    c1 = c1  c2 = c2
    f1 = f1  f2 = f2
    None = None
    Callers <- TwoCallers
    Kinds <- AckedKinds
    Waits <- ForeverOnly
    SeqMin = 2
    SeqTop = 8
    Seeds <- SomeSeeds
    Fds <- OneFd
    MaxCalls = 2
    MaxDrops = 0
    Faults = FALSE
SPECIFICATION FairSpec
PROPERTY ReplyIsTaken
CHECK_DEADLOCK FALSE
