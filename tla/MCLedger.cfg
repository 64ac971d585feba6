SPECIFICATION Spec
CONSTANTS
    ann = ann
    bob = bob
    Users <- MCUsers
    InitialCash = 30
    InitialFundCash <- MCInitialFundCash
    InitialPrice = 10
    MinPrice = 7
    ImpactK <- MCImpactK
    LiquidationThreshold <- MCLiquidationThreshold
    CooldownTime = 1
    FreezeAge = 2
    PenaltyTime = 2
    BaseApy = 15
    PenaltyApr = 5
    PeriodsPerYear = 1
    VoiceStayBoost <- MCVoiceStayBoost
    DecayKeep <- MCDecayKeep
    StallWindow = 3
    StallNearest = 1
    OptOutBlocksTrading = TRUE
    SundayBuyAllowed = TRUE
    Calendar <- MCCalendar
    MaxWait = 1
    FirstsOfMonth = {2}
    TradePairs <- MCTradePairs
    Investments <- MCInvestments
    Shares = {1, 2}
    Amounts = {10}
    MaxTime = 3
    MaxOps = 6
INVARIANTS TypeOK NoOverdraft CollateralBacksEntry FrozenOnlyAged
PROPERTIES MoneyAccountedFor FrozenOnlyLiquidated PrincipalOnlyLentToShorts
CHECK_DEADLOCK FALSE
