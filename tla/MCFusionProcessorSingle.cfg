CONSTANTS
    Streams = {s1}
    Kinds = {k1, k2}
    Tensors = {t1, t2}
    NoStream = NoStream
    MaxOps = 4
SPECIFICATION FairSpec
INVARIANTS
    PlansDistinct
    PolicyComplete
PROPERTIES
    CallsReturn
