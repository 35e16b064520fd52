SPECIFICATION FairSpec
CONSTANTS
    a1 = a1
    a2 = a2
    Accounts <- MCAccounts
    Capacity = 1
    FlushBatch = 2
    DrainMax = 1
    BackoffInit = 2
    BackoffMax = 2
    MaxVersion = 2
PROPERTIES DroppedReceiverStopsTask
CHECK_DEADLOCK FALSE
