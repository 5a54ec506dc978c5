CONSTANTS
    N = 2
    Arity = 1
    MaxRounds = 2
    Sizes = {2}
SPECIFICATION Spec
INVARIANT
    ListIsOfThisSync
CHECK_DEADLOCK FALSE
