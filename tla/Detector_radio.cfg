SPECIFICATION Spec
CONSTANTS
    Configs <- BothRadios
    UintSize = 8
    Lines = 1
    AllocMayFail = FALSE
    ReplyMayBeLost = TRUE
    DisableMayFail = FALSE
INVARIANTS
    RadioOffAtExit
