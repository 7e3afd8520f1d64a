\* Every kind of message, intact, malformed, or with one byte changed.
SPECIFICATION DecodingSpec
CONSTANTS
    None = None
    Samples <- AllSamples
    Masks <- SomeMasks
    MaxUnframed = 2048
    MaxPacket = 114
    LoginLen = 17
    PreambleLen = 4
    LengthLen = 4
    TrailerLen = 4
INVARIANTS
    DecodedIsSent
    TextIsRead
    DamageRefused
    AckMatches
