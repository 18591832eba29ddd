SPECIFICATION NetSpec
CONSTANTS
    NumQueues = 2
    QueueSize = 2
    IdxMod = 4
    HeaderSize = 2
    InputQueues <- MCReceiveQueue
    MaxReqs = 2
    MaxChain = 2
    MaxPackets = 2
INVARIANTS NoLostWakeup StaleBounded HeaderOwn SendsAll ReceivesAll
PROPERTIES CatchesUp ExitReturns
CHECK_DEADLOCK FALSE
