\* Every kind of message with every combination of failing steps.
SPECIFICATION Spec
CONSTANTS
    None = None
    RawModes <- AllModes
INVARIANTS
    Answered
    WritesIndependent
    BadFixKeepsAlarm
