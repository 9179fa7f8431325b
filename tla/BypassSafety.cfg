CONSTANTS
    hb = hb
    hv = hv
    hs = hs
    h2 = h2
    Hosts = {hb, hv, hs, h2}
    Service = hs
    Nobody = Nobody
    Port <- MCPort
    Ephemeral <- MCEphemeral
    Traffic <- AllPlays
    RemoteStream = TRUE
    MaxQueue = 1
    MaxReconnects = 1
SPECIFICATION Spec
CONSTRAINT OnePlay
INVARIANT IInv
INVARIANT RolesKnown
INVARIANT MutedOnlyAfterTold
INVARIANT WatchedUntilDecided
PROPERTY DecisionIsFinal
PROPERTY ToldTheOtherRole
PROPERTY ImplementsSteering
