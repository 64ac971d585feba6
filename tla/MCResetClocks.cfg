SPECIFICATION Spec
CONSTANTS
    NumFunds = 2
    MaxDay = 2
    WeekOf <- MCWeekOf
    MonthOf <- MCMonthOf
    CountTo = 1
    MaxFailures = 1
INVARIANTS TypeOK ClocksFollowWork BaselineBeforeInterest
PROPERTY ClocksConverge
CHECK_DEADLOCK FALSE
