CONSTANTS
    Viewer = hv
    Broadcaster = hb
    Nowhere = nowhere
    FullLength = {}
    Sleeps <- NoSleeps
    Merge = 2
    MaxInbox = 2
    MaxWire = 2
    Lossy = TRUE
SPECIFICATION Spec
INVARIANT OneSource
INVARIANT StreamsToTheViewer
PROPERTY ImplementsSwitchover
CHECK_DEADLOCK FALSE
