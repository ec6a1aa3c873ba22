CONSTANTS
    u = u
    v = v
    Workers = {u, v}
    MaxEvents = 2
    Limit = 2
    MaxFaults = 2
SPECIFICATION FairSpec
INVARIANTS SentBeforeAcked NoSelfInflictedLoss NothingStranded
PROPERTY EventuallyDelivered
CHECK_DEADLOCK FALSE
