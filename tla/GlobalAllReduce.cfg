CONSTANTS
    N = 3
    Arity = 1
    MaxRounds = 2
    Sizes = {2, 4}
SPECIFICATION Spec
INVARIANTS
    TypeOK
    SumIsComplete
    NoEarlyLeave
    NothingOverwritten
PROPERTIES
    ImplementsBarrier
CHECK_DEADLOCK FALSE
