SPECIFICATION FairSpec
CONSTANTS
    Connections = {a, b, c}
    Spare = {c}
    MaxEvents = 2
    Interactions = {x}
    Fanout <- MCFanout
    Limit = 2
    InFlight = 1
    MaxRetries = 1
    MaxFaults = 1
INVARIANTS
    WithinLimit
    RetriesAsPromised
    AcksCountOnce
PROPERTY EveryItemEnds
