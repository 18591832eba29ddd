SPECIFICATION Spec
CONSTANTS
    NumQueues = 1
    QueueSize = 2
    IdxMod = 4
    HeaderSize = 2
    InputQueues <- MCNoInput
    MaxReqs = 6
    MaxChain = 2
INVARIANTS QueueInv StatusBeforeIrq
PROPERTIES ImplementsQueue Answered
CHECK_DEADLOCK FALSE
