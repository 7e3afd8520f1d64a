\* Violated: a failed offline write keeps the slot.
SPECIFICATION Spec
CONSTANTS
    c1 = c1
    c2 = c2
    c3 = c3
    i1 = i1
    i2 = i2
    None = None
    Conns <- TwoConns
    Imeis <- OneImei
    Protocols <- TwoProtocols
    MaxConnections = 2
    DbFails = TRUE
    Rebinds = FALSE
    Restarts = FALSE
INVARIANT
    SlotsMatchLive
