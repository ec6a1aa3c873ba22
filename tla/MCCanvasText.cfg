SPECIFICATION Spec
CONSTANTS
    Pages = {1, 2}
    Late = {2}
    MaxEdits = 2
    MaxLength = 2
    Attempts = 2
    Resyncs = 1
    MaxRare = 2
INVARIANTS
    ReplicasConverge
    NothingTypedIsLost
    NothingRefused
CHECK_DEADLOCK FALSE
