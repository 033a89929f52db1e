SPECIFICATION ReplaySpec
CONSTANTS
    Recordings <- McRecordings
    LineMax = 8
    SliceMax = 5
    Cut <- McCut
INVARIANTS
    RecordingIngested
