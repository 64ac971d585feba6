SPECIFICATION Spec
CONSTANTS
    NumFunds = 2
    MaxDay = 2
    WeekOf <- MCWeekOf
    MonthOf <- MCMonthOf
    CountTo = 2
    MaxFailures = 1
CHECK_DEADLOCK FALSE
INVARIANT InterestOncePerMonth
