SPECIFICATION Spec
CONSTANTS
    h1 = h1
    h2 = h2
    Handlers <- MCTwoHandlers
    Methods <- MCMethods
    PathLevel <- MCPathLevel
    OpParams <- MCOpParams
    Capacities <- MCCapacities
    Nil = Nil
INVARIANTS
    TypeOK
    OwnParamsWhenFull
    SeesDeclared
