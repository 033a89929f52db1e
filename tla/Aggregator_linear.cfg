SPECIFICATION FairSpec
CONSTANTS
    b = b
    v = v
    m1 = m1
    m2 = m2
    d1 = d1
    d2 = d2
    Main = Main
    None = None
    Writers = {b, v}
    Macs = {m1, m2}
    Digests = {d1, d2}
    Digest <- TwoDigests
    Protocols = {"ble", "wifi"}
    Reports <- SharedDevice
    Signals = {"s1", "s2"}
    Nodes = {n1, n2}
    MaxTime = 1
    Ttl = 0
    CounterSize = 2
    ClockMayStepBack = FALSE
PROPERTIES
    Linearizable
    LockReleased
