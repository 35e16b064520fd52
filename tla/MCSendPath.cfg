SPECIFICATION FairSpec
CONSTANTS
    a = a
    b = b
    c = c
    d = d
    x = x
    y = y
    z = z
    Addresses <- MCAddresses
    Plans <- MCPlans
    Needs <- MCNeeds
    Slack <- MCSlack
    HasSetup <- MCHasSetup
    HasWindow <- MCHasWindow
    NTables = 2
    Capacity = 2
    ChunkSize = 1
    FirstTable <- MCFirstTable
    Forks = FALSE
    MaxCalls = 2
CHECK_DEADLOCK FALSE
INVARIANTS TypeOK OneCanLand ExhaustedMeansFull
PROPERTIES CallEnds SecondSendFits
