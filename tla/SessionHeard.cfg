CONSTANTS
    Viewer = hv
    Broadcaster = hb
    Nowhere = nowhere
    FullLength = {}
    Sleeps <- Delays
    Merge = 1
    MaxInbox = 1
    MaxWire = 2
    Lossy = FALSE
SPECIFICATION FairSpec
INVARIANT MutedHasHeard
PROPERTY PeerStreams
CHECK_DEADLOCK FALSE
