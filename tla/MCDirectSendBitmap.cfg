SPECIFICATION FairSpec
PROPERTY SearchConverges
CONSTANTS
    Base = 1
    MaxWindow = 4
    Bump = 2
    Cut = 1
    TickBase = 3
    MaxTicks = 4
    Interval = 1
    Ttl = 2
    Short = 1
    Long = 2
    Sizes = 2
    MaxTime = 0
    MaxCalls = 1
    Meets <- BitmapOrLocks
CHECK_DEADLOCK FALSE
