SPECIFICATION FairSpec
CONSTANTS
    Uploads = {u}
    Plain = {p}
    Writers = {x}
    Cleaners = {c}
    Window = 1
    MinAge = 1
    MaxTime = 1
    MaxFaults = 1
INVARIANTS
    LiveBytesKept
    MissingIsReal
PROPERTY DeadBytesReclaimed
