CONSTANTS
    a = a
    b = b
    Replicas = {a, b}
    MaxRequests = 2
    Capacity = 2
    MaxTroubles = 1
SPECIFICATION Spec
SYMMETRY Symmetry
INVARIANTS DuplicatesAreFaults OutcomeReachesCaller
PROPERTY OlderWereClaimed
