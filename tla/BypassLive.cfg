CONSTANTS
    hb = hb
    hv = hv
    hs = hs
    h2 = h2
    Hosts = {hb, hv, hs}
    Service = hs
    Nobody = Nobody
    Port <- MCPort
    Ephemeral <- MCEphemeral
    Traffic <- BriefDialogueAndChannels
    RemoteStream = FALSE
    MaxQueue = 1
    MaxReconnects = 0
SPECIFICATION FairSpec
PROPERTY EventuallyDecided
PROPERTY BothTold
PROPERTY VideoOffloaded
