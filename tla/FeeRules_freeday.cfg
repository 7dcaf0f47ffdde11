SPECIFICATION BillSpec
CONSTANTS
    Minute = 2
    Day = 16
    MaxDays = 3
    RuleTables <- OneRule
    Weekends = {2}
    Enters <- AllDay
    MaxStay = 50
    Vehicles = {"small", "big"}
    Discounts = {100}
INVARIANT FreeTimeOnFirstDayOnly
CHECK_DEADLOCK FALSE
