SPECIFICATION GeoFairSpec
CONSTANTS
    Attempts = 5
    MaxVersion = 3
    MaxCrashes = 2
INVARIANTS
    CachedHasEtag
    EtagIsOfDatabase
    CleanStartLoads
    CurrentUnlessCutOff
PROPERTIES
    StartEnds
CHECK_DEADLOCK FALSE
