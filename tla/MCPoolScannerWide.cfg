SPECIFICATION Spec
INVARIANTS
    TypeOK
    KnownIsCurrent
CONSTANTS
    Accounts <- MCAccounts
    TokenOf <- MCTokenOf
    VenueOf <- MCVenueOf
    Excluded = {"barred"}
    Prices = {0, 1}
    Start <- MCStart
    MostOf <- MCMostOf
    MaxTokens = 1
    DirtyFlush = 1
    LookupBatch = 2
    MaxStream = 2
    MaxTrades = 2
    MaxWrites = 2
    MaxFaults = 1
