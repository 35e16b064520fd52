SPECIFICATION Spec
INVARIANTS
    TypeOK
    KnownIsCurrent
PROPERTIES
    SnapshotSettles
    TradedIsKnown
CONSTANTS
    Accounts <- MCPools
    TokenOf <- MCTokenOf
    VenueOf <- MCVenueOf
    Excluded = {}
    Prices = {1, 2}
    Start <- MCStart
    MostOf <- MCMostOf
    MaxTokens = 1
    DirtyFlush = 2
    LookupBatch = 1
    MaxStream = 2
    MaxTrades = 1
    MaxWrites = 2
    MaxFaults = 1
