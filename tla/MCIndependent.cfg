SPECIFICATION Spec
CONSTANTS
    NumFunds = 2
    MaxDay = 2
    WeekOf <- MCWeekOf
    MonthOf <- MCMonthOf
    CountTo = 1
    MaxFailures = 0
CHECK_DEADLOCK FALSE
PROPERTY ClocksNeverGoBack
