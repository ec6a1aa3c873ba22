CONSTANTS
    a = a
    b = b
    Replicas = {a}
    MaxRequests = 3
    Capacity = 2
    MaxTroubles = 1
SPECIFICATION FairSpec
INVARIANT AcceptedIsForwarded
PROPERTIES EventuallyDrained ServedDirectlyAgain
