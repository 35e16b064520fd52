SPECIFICATION FairSpec
CONSTANTS
    a1 = a1
    a2 = a2
    Accounts <- MCAccounts
    Capacity = 2
    FlushBatch = 1
    DrainMax = 2
    BackoffInit = 1
    BackoffMax = 2
    MaxVersion = 3
INVARIANTS TypeOK InOrder TaskOutlivesReceiver FreshBackoffAfterTraffic
PROPERTIES NeverBack NothingLostWhileUp IsMailbox BufferedReachesReader BufferedTaskStops
CHECK_DEADLOCK FALSE
