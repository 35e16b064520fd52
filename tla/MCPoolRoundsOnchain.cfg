SPECIFICATION Spec
PROPERTIES
    OnchainLists
CONSTANTS
    Programs = {"onchain"}
    Pools <- MCPools
    TokenOf <- MCTokenOf
    VenueOf <- MCVenueOf
    Readings <- MCReadings
    MinLiquidity = 2
    MinPair = 2
    MinTrades = 1
    ApiMinTrades = 1
    MostOf <- MCMostOf
    MaxTokens = 1
    MaxMisses = 2
    MaxCrashes = 0
CHECK_DEADLOCK FALSE
