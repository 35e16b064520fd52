SPECIFICATION FundingSpec
CONSTANTS
    Families <- Builders
    Inputs = {2}
    Gains <- Changes
    Cap = 3
    RaiseBps = 50
    ProfitPct = 1
    SlippagePct = 1
    Cost = 0
    AllowInit = TRUE
    Balances = {1}
    MaxBalance = 2
    MaxFlights = 2
INVARIANT
    OutputRecovered
CHECK_DEADLOCK FALSE
