CONSTANTS
    w1 = w1  w2 = w2  w3 = w3
    c1 = c1  c2 = c2  c3 = c3
    t1 = t1  t2 = t2  t3 = t3
    None = None
    Workers <- TwoWorkers
    Callers <- OneCaller
    Tasks <- ThreeTasks
    ThreadMin = 2
    ThreadMax = 2
    MaxChoices <- OnlyOne
    Closers <- NoneOf
    Endless <- NoneOf
    Faults = FALSE
SPECIFICATION FairSpec
PROPERTY BlockedAddReturns
