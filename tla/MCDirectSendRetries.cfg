SPECIFICATION FairSpec
PROPERTY CallReturns
CONSTANTS
    Base = 1
    MaxWindow = 6
    Bump = 2
    Cut = 1
    TickBase = 2
    MaxTicks = 3
    Interval = 1
    Ttl = 1
    Short = 1
    Long = 2
    Sizes = 2
    MaxTime = 0
    MaxCalls = 1
    Meets <- AnyError
CHECK_DEADLOCK FALSE
