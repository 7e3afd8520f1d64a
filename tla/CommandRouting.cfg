\* Three requests race each other and a device that changes sockets.
SPECIFICATION FairSpec
CONSTANTS
    c1 = c1
    c2 = c2
    i1 = i1
    r1 = r1
    r2 = r2
    r3 = r3
    None = None
    Conns <- TwoConns
    Imeis <- OneImei
    Requests <- ThreeRequests
    Commands <- SomeCommands
    Gps103Commands <- WhereOnly
    Family <- Gt06AndGps103
    MaxSerial = 2
INVARIANTS
    FamilyRespected
    AnswersTruthful
PROPERTIES
    EveryRequestAnswered
