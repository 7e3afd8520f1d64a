\* Database failures, restarts and sockets that log in twice: registry and cap.
SPECIFICATION Spec
CONSTANTS
    c1 = c1
    c2 = c2
    c3 = c3
    i1 = i1
    i2 = i2
    None = None
    Conns <- ThreeConns
    Imeis <- TwoImeis
    Protocols <- BinaryProtocols
    MaxConnections = 2
    DbFails = TRUE
    Rebinds = TRUE
    Restarts = TRUE
SYMMETRY Symmetry
INVARIANTS
    BindingAgrees
    UnboundUntilLogin
    CapRespected
