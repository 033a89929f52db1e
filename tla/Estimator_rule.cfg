SPECIFICATION Spec
CONSTANTS
    Snapshots <- SmallSnapshots
    RssiCutoff <- DefaultCutoff
    WindowMs = 500
INVARIANTS
    RuleMerges
