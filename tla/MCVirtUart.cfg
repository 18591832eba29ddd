SPECIFICATION Spec
CONSTANTS
    a = a
    b = b
    NoChar = NoChar
    Chars <- MCChars
    N = 3
    MaxSent = 7
    MaxKills = 2
INVARIANTS RingInv
PROPERTIES ImplementsFifo Delivered PushReturns
CHECK_DEADLOCK FALSE
