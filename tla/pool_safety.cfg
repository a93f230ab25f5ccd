CONSTANTS
    w1 = w1  w2 = w2  w3 = w3
    c1 = c1  c2 = c2  c3 = c3
    t1 = t1  t2 = t2  t3 = t3
    None = None
    Workers <- ThreeWorkers
    Callers <- ThreeCallers
    Tasks <- ThreeTasks
    ThreadMin = 1
    ThreadMax = 2
    MaxChoices <- ZeroOne
    Closers <- ThreeCallers
    Endless <- NoneOf
    Faults = TRUE
SYMMETRY Interchangeable
SPECIFICATION Spec
INVARIANTS TypeOK TaskConservation ThreadAccounting  DrainedClose
PROPERTY QueueBound
CHECK_DEADLOCK FALSE
