SPECIFICATION Spec
CONSTANTS
    Configs <- FiniteReplay
    UintSize = 8
    Lines = 2
    AllocMayFail = FALSE
    ReplyMayBeLost = FALSE
    DisableMayFail = FALSE
INVARIANTS
    FinalReportIsFinal
