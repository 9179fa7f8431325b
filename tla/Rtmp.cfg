SPECIFICATION Spec
CONSTANTS
    Conns = {c1, c2}
    Streams <- Carried
    c1 = c1
    c2 = c2
INVARIANT NothingMadeUp
PROPERTY NothingMissed
CHECK_DEADLOCK FALSE
