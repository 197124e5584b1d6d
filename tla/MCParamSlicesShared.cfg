SPECIFICATION Spec
CONSTANTS
    h1 = h1
    h2 = h2
    Handlers <- MCTwoHandlers
    Methods <- MCMethods
    PathLevel <- MCPathLevel
    OpParams <- MCOpParams
    Capacities <- MCRoom
    Nil = Nil
INVARIANT
    OwnParams
