SPECIFICATION Spec
CONSTANTS
    Configs <- LostReplay
    UintSize = 8
    Lines = 1
    AllocMayFail = FALSE
    ReplyMayBeLost = FALSE
    DisableMayFail = FALSE
INVARIANTS
    CompleteOnlyIfRead
