SPECIFICATION FairSpec
CONSTANTS
    Hosts = {h1, h2}
    Ports = {p1, p2, p3}
    Groups = {group}
    Filtered = {filtered}
    Transparent = FALSE
    Unknown = Unknown
    Idle = 2
    Hard = 3
    Drop = 2
    MaxMoves = 2
    MaxReconnects = 1
    h1 = h1
    p1 = p1
    p2 = p2
INVARIANT IInv
INVARIANT StaleEndsInTime
INVARIANT HomeFound
CONSTRAINT Small
PROPERTY Reachable
CHECK_DEADLOCK FALSE
