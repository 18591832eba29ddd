SPECIFICATION Spec
CONSTANTS
    NumDevices = 2
    Slots <- MCSlots
    Pool = 6
    MaxResets = 1
INVARIANTS PoolSuffices PulseWhole
PROPERTIES OneStaleRound ExitEnds ComesBack
CHECK_DEADLOCK FALSE
