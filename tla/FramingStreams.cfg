\* Streams of every family, cut everywhere.
SPECIFICATION Spec
CONSTANTS
    None = None
    Setups <- AllSetups
    MaxRead = 4
    MaxUnframed = 4
    MaxPacket = 2
    LoginLen = 4
    PreambleLen = 2
    LengthLen = 1
    TrailerLen = 1
INVARIANTS
    FramedAsOneStream
    BufferBounded
    DetectionStands
PROPERTIES
    RefusedForGood
CHECK_DEADLOCK FALSE
