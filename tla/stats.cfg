SPECIFICATION StatsSpec
CONSTANTS
    c1 = c1
    c2 = c2
    Absent = Absent
    Invalid = Invalid
    OpenEnd = OpenEnd
    Conns <- TwoConns
    CountryOf <- OwnCountries
    Tiers <- SmallTiers
    Origin = 1
    Week = 8
    WeeklyAfter = 6
    DefaultSpan = 3
    Lag = 1
    Inputs <- SomeTimes
    MaxTime = 8
INVARIANTS
    TierCovers
    AnswerIsComplete
    PointsAreTheGrid
CHECK_DEADLOCK FALSE
