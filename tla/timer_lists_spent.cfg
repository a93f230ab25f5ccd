CONSTANTS
    n1 = n1  n2 = n2  n3 = n3
    h1 = h1  h2 = h2
    Nodes <- ThreeNodes
    Heads <- TwoHeads
    DeletesSpent = TRUE
SPECIFICATION ListsSpec
INVARIANTS ListsIntact
