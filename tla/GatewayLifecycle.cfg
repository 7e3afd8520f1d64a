\* Reconnects with a healthy database: registry, slots, and closed sockets forgotten.
SPECIFICATION FairSpec
CONSTANTS
    c1 = c1
    c2 = c2
    c3 = c3
    i1 = i1
    i2 = i2
    None = None
    Conns <- ThreeConns
    Imeis <- OneImei
    Protocols <- TwoProtocols
    MaxConnections = 2
    DbFails = FALSE
    Rebinds = FALSE
    Restarts = FALSE
INVARIANTS
    NoStaleEntry
    SlotsMatchLive
PROPERTIES
    ClosedNeverRegisters
    RefinesSlots
    ClosedIsForgotten
