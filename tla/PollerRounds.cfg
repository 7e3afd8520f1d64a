\* Trackers and a GT06 device come and go while the poller works through its list.
SPECIFICATION FairSpec
CONSTANTS
    c1 = c1
    c2 = c2
    c3 = c3
    i1 = i1
    i2 = i2
    i3 = i3
    None = None
    Conns <- ThreeConns
    Imeis <- ThreeImeis
    Family <- MixedFamily
    ImeiFamilies <- KeptFamilies
    PollTicks = 1
    IdleTicks = 2
PROPERTIES
    PollsSpaced
    SilentIsAsked
