\* Resends, overlapping handlers and a restart while index and flag are introduced.
SPECIFICATION FairSpec
CONSTANTS
    s1 = s1
    s2 = s2
    None = None
    Sessions <- TwoSessions
    N = 3
    MaxBatch = 2
    Storable <- SomeStorable
    Time <- LateRecord
    Ignition <- SomeIgnition
    Assigned = TRUE
    MaxFailures = 1
    MaxDrops = 2
    MaxRestarts = 1
INVARIANTS
    NothingLost
    LiveKeepsUp
    IgnitionRight
PROPERTIES
    RefinesQueue
    AllDelivered
CHECK_DEADLOCK FALSE
