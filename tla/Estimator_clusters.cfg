SPECIFICATION Spec
CONSTANTS
    Snapshots <- AllSnapshots
    RssiCutoff <- DefaultCutoff
    WindowMs = 500
INVARIANTS
    TypeOK
    DedupCountsClusters
    MergesFollowRule
    NothingLeftToMerge
    WindowTolerance
    PairsCountOnce
    WorkedExample
    PortAgrees
