SPECIFICATION HookFairSpec
CONSTANTS
    w1 = w1
    w2 = w2
    Sockets <- TwoSockets
    BaseBackoff = 1
    MaxBackoff = 3
    MaxNudges = 2
    NoSocket = NoSocket
INVARIANTS
    NeverGivesUp
    OneAtATime
PROPERTIES
    DeadIsReplaced
    CleanupIsFinal
CHECK_DEADLOCK FALSE
