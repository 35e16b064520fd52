SPECIFICATION Spec
INVARIANTS
    ListedInPairs
    ListedSeenLately
    OwnPoolsOnly
CONSTANTS
    Programs = {"api", "onchain", "jd6"}
    Pools <- MCPools
    TokenOf <- MCTokenOf
    VenueOf <- MCVenueOf
    Readings <- MCReadings
    MinLiquidity = 2
    MinPair = 2
    MinTrades = 2
    ApiMinTrades = 1
    MostOf <- MCMostOf
    MaxTokens = 1
    MaxMisses = 2
    MaxCrashes = 3
CHECK_DEADLOCK FALSE
