SPECIFICATION Spec
CONSTANTS
    N = 2
    KeyChars <- MCKeyChars
    OutChars <- MCOutChars
    NoChar = NoChar
    MaxKeys = 4
    MaxOut = 2
    MaxResets = 0
INVARIANTS KeysForwarded ScreenFaithful PopNeverWaits
PROPERTIES QuitWorks KeysDelivered
CHECK_DEADLOCK FALSE
