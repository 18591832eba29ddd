SPECIFICATION Spec
CONSTANTS
    NumQueues = 2
    AddrRegs = 6
    FeatureWords <- MCFeatureWords
    Pacing <- MCUnpaced
INVARIANT AddressesRecorded
CHECK_DEADLOCK FALSE
