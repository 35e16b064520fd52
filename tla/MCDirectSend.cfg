SPECIFICATION FairSpec
INVARIANTS
    TypeOK
    UnitsAreOfThisPlan
    SearchBetween
PROPERTIES
    CooldownsHold
    AttemptsSpaced
    CallReturns
CONSTANTS
    Base = 1
    MaxWindow = 3
    Bump = 2
    Cut = 1
    TickBase = 2
    MaxTicks = 3
    Interval = 1
    Ttl = 1
    Short = 1
    Long = 2
    Sizes = 2
    MaxTime = 1
    MaxCalls = 3
    Meets <- AnySize
CHECK_DEADLOCK FALSE
