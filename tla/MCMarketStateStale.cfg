SPECIFICATION Spec
CONSTANTS
    p1 = p1
    p2 = p2
    None = None
    Pools <- MCPools
    VenueChoices <- MCVenueChoices
    PerVenue = 1
    MinVenues = 2
    MaxTracked = 1
    MaxVersion <- MCMaxVersion
INVARIANTS AlwaysCurrent
