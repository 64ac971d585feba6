CONSTANTS
    ann = ann
    Members = {ann}
    HasStock = {ann}
    Moderators = {mod}
    Unknown = unknown
    Handlers = {h1, h2}
    Commands <- MCCommands
    MinPrice = 70
    InitialPrice = 100
    ReturnPerPoint = 10
    Keep <- MCKeep
    Boost <- MCBoost
    Penalised <- MCPenalised
    StallWindow = 10
    StallNearest = 1
    IdleAfter = 0
    ClaimWindow = 2
    BonusLength = 2
    DailyReward = 3
    StreakBonus = 5
    Cooldown = 2
    MaxTime = 4
    MaxCalls = 3
    MaxFailures = 1
    MaxRestarts = 1
SYMMETRY MCSymmetry
SPECIFICATION Spec
INVARIANTS TypeOK DailiesPaid IntroOnce PenaltiesPaced PricesLogged
PROPERTIES ServicesKeepOut
CHECK_DEADLOCK FALSE
