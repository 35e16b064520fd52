SPECIFICATION FairSpec
CONSTANTS
    p1 = p1
    r1 = r1
    r2 = r2
    t1 = t1
    t2 = t2
    Markets <- MCMarkets
    Venue <- MCVenue
    MinVenues = 2
    Snapshots <- MCSnapshots
    Tokens <- MCTokens
    TokenOf <- MCTokenOf
    High = 2
    Low = 1
    MaxRev = 2
PROPERTIES LaterChangesRead MarksAreScanned
