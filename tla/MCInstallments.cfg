SPECIFICATION Spec
CONSTANTS
    Amounts <- MCAmounts
    MaxInstallments = 14
    Dates <- MCDates
INVARIANTS
    PartsAddUp
    OneEachMonth
    DayIsKept
CHECK_DEADLOCK FALSE
