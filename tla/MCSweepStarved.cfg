SPECIFICATION SweepSpec
CONSTANTS
    ann = ann
    bob = bob
    cy = cy
    Users <- MCUsers
    InitialCash = 30
    InitialFundCash <- MCInitialFundCash
    InitialPrice = 10
    MinPrice = 7
    ImpactK <- MCImpactK
    LiquidationThreshold <- MCLiquidationThreshold
    CooldownTime = 1
    FreezeAge = 1
    PenaltyTime = 2
    BaseApy = 15
    PenaltyApr = 5
    PeriodsPerYear = 1
    VoiceStayBoost <- MCVoiceStayBoost
    DecayKeep <- MCDecayKeep
    StallWindow = 3
    StallNearest = 1
    OptOutBlocksTrading = TRUE
    SundayBuyAllowed = TRUE
    Calendar <- MCCalendar
    MaxWait = 1
    FirstsOfMonth = {}
    TradePairs <- MCTradePairs
    Rank <- MCRank
    Investments = {}
    Shares = {1, 2}
    Amounts = {}
    MaxTime = 1
    MaxOps = 4
PROPERTY PayableShortsLiquidated
