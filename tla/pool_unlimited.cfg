CONSTANTS
    w1 = w1  w2 = w2  w3 = w3
    c1 = c1  c2 = c2  c3 = c3
    t1 = t1  t2 = t2  t3 = t3
    None = None
    Workers <- ThreeWorkers
    Callers <- TwoCallers
    Tasks <- ThreeTasks
    ThreadMin = 0
    ThreadMax = 3
    MaxChoices <- NoneOf
    Closers <- OneCaller
    Endless <- FirstTask
    Faults = FALSE
SPECIFICATION FairSpec
INVARIANT NoLostWakeup
PROPERTIES ImplementsTaskQueue  CloseReturns
CHECK_DEADLOCK FALSE
