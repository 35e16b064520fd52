SPECIFICATION Spec
INVARIANTS
    BestFirst
    SendsPay
    OthersOnlyAsFallback
PROPERTIES
    SendingEncourages
CONSTANTS
    Tokens <- MCTokens
    Excluded = {"stable"}
    VenuesOf <- MCVenuesOf
    Profiles <- MCProfiles
    MinScore = 80
    Selecting = TRUE
    Paths <- MCPaths
    TokenOf <- MCTokenOf
    Enabled = {1, 2, 3}
    Supported = {1, 3}
    SolQuoted = {1, 2}
    Unwatched = {2}
    Sizes = {1, 2}
    Samples = 2
    Offers <- MCOffers
    Wealth = {1}
    Base = 3
    MaxAdjust = 1
    Margin = 2
    SelectedMost = 2
    NearAfter = 1
    MissedAfter = 1
    PoorAfter = 2
    NearBest <- MCNearBest
    PoorBest <- MCPoorBest
    Ttl = 2
    MaxScan = 2
    MaxSend = 1
    MaxTime = 2
    MaxRounds = 3
CHECK_DEADLOCK FALSE
