CONSTANTS
    c1 = c1  c2 = c2
    f1 = f1  f2 = f2
    None = None
    Callers <- TwoCallers
    Kinds <- AllKinds
    Waits <- EveryWait
    SeqMin = 2
    SeqTop = 8
    Seeds <- SomeSeeds
    Fds <- TwoFds
    MaxCalls = 3
    MaxDrops = 1
    Faults = TRUE
SPECIFICATION Spec
INVARIANTS TypeOK OwnReply ReplyFindsCall NumbersNotReserved EntriesOwned
CHECK_DEADLOCK FALSE
SYMMETRY InterchangeableFds
