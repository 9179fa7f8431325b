CONSTANTS
    a = a
    b = b
    s1 = s1
    Conns = {a, b}
    Dpid <- TwoOfOne
    NoCon = NoCon
    MaxUnits = 6
SPECIFICATION FairSpec
INVARIANT IInv
INVARIANT MissingOnlyToATwin
PROPERTY DownIsFinal
PROPERTY ImplementsOrderedChannel
PROPERTY Drained
PROPERTY UpsHaveDowns
CONSTRAINT Reconnects
CHECK_DEADLOCK FALSE
