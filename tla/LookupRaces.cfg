\* Three concurrent logins on a pool of two connections.
SPECIFICATION FairSpec
CONSTANTS
    t1 = t1
    t2 = t2
    t3 = t3
    i1 = i1
    i2 = i2
    None = None
    Tasks <- ThreeTasks
    Imeis <- TwoImeis
    PoolSize = 2
INVARIANTS
    OneDevicePerImei
    OnlyAdmitted
    PoolConserved
PROPERTIES
    LookupsEnd
