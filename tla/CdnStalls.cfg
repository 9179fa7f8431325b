CONSTANTS
    Clients = {hb, hv1}
    Free = Free
    SockCap = 2
    Faults <- Losses
SPECIFICATION FairSpec
PROPERTY HeartbeatsGoOn
CHECK_DEADLOCK FALSE
