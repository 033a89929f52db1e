SPECIFICATION Spec
CONSTANTS
    Events <- McEvents
    Leftovers <- McLeftovers
    BufSize = 80
    Frames <- McFrames
    Recordings <- McRecordings
    LineMax = 17
    SliceMax = 6
    Cut <- McCut
    Loggers = {"main", "ble", "wifi"}
    Levels = {0, 1}
    MaxCalls = 2
    Nodes = {n1, n2, n3}
    NULL = NULL
    Hashes = {1, 2, 3}
    NBuckets = 2
    BucketOf <- McBucketOf
INVARIANTS
    RandomizationDetected
