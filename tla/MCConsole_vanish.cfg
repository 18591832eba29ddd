SPECIFICATION Spec
CONSTANTS
    N = 2
    KeyChars <- MCKeyChars
    OutChars <- MCOutChars
    NoChar = NoChar
    MaxKeys = 1
    MaxOut = 0
    MaxResets = 1
INVARIANTS RetriesAfterVanish
CHECK_DEADLOCK FALSE
