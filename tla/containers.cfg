CONSTANTS
    k1 = k1  k2 = k2  k3 = k3  k4 = k4
    v1 = v1  v2 = v2  v3 = v3
    n1 = n1  n2 = n2  n3 = n3
    h1 = h1  h2 = h2
    NULL = NULL  Header = Header  Nil = Nil
    Keys <- FourKeys
    Vals <- ThreeVals
    Height = 3
    Hash <- Colliding
    Randoms <- SomeRandoms
    Scores <- SomeScores
    Objs <- SomeObjs
    Ranks <- SomeRanks
    MaxLevel = 3
    Nodes <- ThreeNodes
    Heads <- TwoHeads
    DeletesSpent = FALSE
SPECIFICATION EitherSpec
INVARIANTS
    TypeOK ChainsSound ValuesOwned LoopVisitsAll RandomFindsNode
    ListSound SpansExact SearchSound
    ListsIntact
  
CHECK_DEADLOCK FALSE
