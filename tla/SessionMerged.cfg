CONSTANTS
    Viewer = hv
    Broadcaster = hb
    Nowhere = nowhere
    FullLength = {}
    Sleeps <- Delays
    Merge = 2
    MaxInbox = 2
    MaxWire = 2
    Lossy = FALSE
SPECIFICATION Spec
INVARIANT MutedHasHeard
CHECK_DEADLOCK FALSE
