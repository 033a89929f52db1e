SPECIFICATION HistorySpec
CONSTANTS
    b = b
    v = v
    m1 = m1
    m2 = m2
    d1 = d1
    d2 = d2
    Main = Main
    None = None
    Writers = {b, v}
    Macs = {m1, m2}
    Digests = {d1, d2}
    Digest <- TwoDigests
    Protocols = {"ble", "wifi"}
    Reports <- Overlapping
    Signals = {"s1"}
    Nodes = {n1, n2}
    MaxTime = 1
    Ttl = 0
    CounterSize = 1
    ClockMayStepBack = TRUE
SYMMETRY NodeSymmetry
INVARIANTS
    TypeOK
    OneRecordPerDigest
    CountMatchesTable
    SnapshotFits
    NoDanglingNode
    EveryNodeOwned
PROPERTIES
    SoleReporterEviction
