SPECIFICATION FairSpec
CONSTANTS
    Configs <- AllConfigs
    UintSize = 8
    Lines = 2
    AllocMayFail = TRUE
    ReplyMayBeLost = FALSE
    DisableMayFail = FALSE
INVARIANTS
    TypeOK
    NoUseAfterFree
    NoIoOnClosedSocket
    CleanExit
    RadioOffAtExit
    OwnDescriptorsClosed
    CompleteMeansConsumed
PROPERTIES
    CyclesAreSpaced
    SignalTerminates
    FiniteReplayEnds
