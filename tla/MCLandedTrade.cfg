SPECIFICATION Spec
CONSTANTS
    LastBin = 7
    BinsPerArray = 2
    Price <- MCPrices
    Unit = 4
    FeeNum = 1
    FeeDen = 16
    Safety = 1
    WindowSize = 3
    Strict = TRUE
    Directions = {"PumpSwapToMeteora", "MeteoraToPumpSwap"}
    Sizes = {12, 20}
    Rates = {1, 2}
    PumpFee = 2
    BuySlip = 10
    SellSlip = 5
    SellSlipWide = 10
    Slip = 5
    MaxTouched = 3
    Costs = 1
    ProfitPerMille = 5
    ConfiguredTip = 0
    MinTip = 1
    MaxTip = 4
    DefaultTip = 1
    MinShare = 10
    MaxShare = 40
    FullSharePct = 3
    SignatureFee = 1
    Depths <- MCDepths
    Deep = 11
    MaxDrift = 2
INVARIANTS
    TypeOK
    PromiseKept
    MissingOnlyIfNew
    LandedPays
CHECK_DEADLOCK FALSE
