CONSTANTS
    u = u  v = v  s = s  m = m  q = q  r = r  a = a
    Workers = {u, v}
    Senders = {s}
    Scheduled = {m}
    Channel = {q, r}
    WebReminders = {a}
    Limit = 2
    MaxTime = 2
    Together = {{m}, {q, r}, {a}}
    MaxEdits = 1
    MaxFaults = 2
SPECIFICATION FairSpec
INVARIANT PostsAreDeliveries
PROPERTIES NoOccurrenceSkipped NothingForgotten PostIsRecorded
CHECK_DEADLOCK FALSE
