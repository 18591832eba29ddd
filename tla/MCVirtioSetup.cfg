SPECIFICATION Spec
CONSTANTS
    NumQueues = 3
    AddrRegs = 6
    FeatureWords <- MCFeatureWords
    Pacing <- MCAnyPacing
INVARIANTS TurnTaking FeaturesMatch AddressesNotMixed RecordedWhenPaced
PROPERTIES SetupCompletes
CHECK_DEADLOCK FALSE
