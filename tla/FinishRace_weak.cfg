CONSTANTS
    Msg = "decrypted"
    Stale = "stale"
    Reorder = TRUE
SPECIFICATION Spec
INVARIANT
    TypeOK
    FinalMsgSeen
CHECK_DEADLOCK FALSE
