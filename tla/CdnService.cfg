CONSTANTS
    Clients = {hb, hv1}
    Free = Free
    SockCap = 2
    Faults <- FaultKinds
SPECIFICATION FairSpec
INVARIANT LostOnlyToABreak
PROPERTY EveryoneAccepted
PROPERTY CleanUpCompletes
PROPERTY SoundMeansHeartbeats
CHECK_DEADLOCK FALSE
