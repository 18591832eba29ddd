SPECIFICATION SpecGuestMayHang
CONSTANTS
    N = 2
    KeyChars <- MCKeyChars
    OutChars <- MCOutChars
    NoChar = NoChar
    MaxKeys = 4
    MaxOut = 0
    MaxResets = 0
PROPERTIES QuitWorks
CHECK_DEADLOCK FALSE
