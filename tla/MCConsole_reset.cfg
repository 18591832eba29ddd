SPECIFICATION Spec
CONSTANTS
    N = 2
    KeyChars <- MCKeyChars
    OutChars <- MCOutChars
    NoChar = NoChar
    MaxKeys = 2
    MaxOut = 1
    MaxResets = 2
INVARIANTS TerminalRestored 
 
CHECK_DEADLOCK FALSE
