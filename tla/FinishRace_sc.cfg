CONSTANTS
    Msg = "decrypted"
    Stale = "stale"
    Reorder = FALSE
SPECIFICATION Spec
INVARIANT
    TypeOK
    FinalMsgSeen
CHECK_DEADLOCK FALSE
