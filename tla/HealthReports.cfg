\* Polls race each other through a loop that sticks and a database that fails.
SPECIFICATION FairSpec
CONSTANTS
    t1 = t1
    t2 = t2
    None = None
    Threads <- TwoThreads
    LoopTimeout = 1
    SlowTicks = 0
    DbProbeTimeout = 1
    ProbeTimeout = 2
    TtlFail = 3
    TtlOk = 4
INVARIANTS
    AnsweredInTime
    ReportIsCurrent
PROPERTIES
    ProbesSpaced
    EveryPollAnswered
