SPECIFICATION ClientFairSpec
CONSTANTS
    Printable <- FourBytes
    Draws <- NearTheBanner
    MaxLineLength = 7
    Delay = 3
    MaxTime = 8
INVARIANTS
    TimeSpentIsReal
    AtMostOneDelayLost
    LinesAreSpaced
    LineIsNoBanner
PROPERTIES
    GoneIsNoticed
    CancelEndsSession
CHECK_DEADLOCK FALSE
