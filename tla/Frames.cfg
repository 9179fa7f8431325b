SPECIFICATION FairSpec
CONSTANTS
    Video <- Pictures
    Stamp <- ThreeBytes
    FRAME_SIZE = 4
    TIMESTAMP_LEN = 3
    MaxFrames = 3
    Buffer = 6
INVARIANT FramesInOrder
INVARIANT DoneMeansWhole
PROPERTY GetsThrough
CHECK_DEADLOCK FALSE
