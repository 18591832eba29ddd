SPECIFICATION BlkSpec
CONSTANTS
    NumQueues = 1
    QueueSize = 5
    IdxMod = 10
    HeaderSize = 2
    InputQueues <- MCNoInput
    MaxReqs = 3
    MaxChain = 3
    Sectors <- MCSectors
INVARIANTS WalkComplete DiskCurrent ReadsRight ResetSparesImage
CHECK_DEADLOCK FALSE
