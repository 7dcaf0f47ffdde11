\* Bills: stays of up to three days and a bit from every tick of a day, on and off the
\* borders of daylight and of whole minutes; more than three periods are a long stay.
\* Customers: tables of up to two rows; entry and exit before, on, in and after the
\* period from 2 to 4.  Search: plates of up to three characters, up to three rows.
SPECIFICATION Spec
CONSTANTS
    Minute = 2
    Day = 16
    MaxDays = 3
    RuleTables <- AllRuleTables
    Weekends = {2}
    Enters <- AllDay
    MaxStay = 50
    Vehicles = {"small", "big"}
    Discounts = {100}
    Plates <- AllPlates
    VipTables <- AllVipTables
    Wide <- Chinese
    AnyChar = AnyChar
    Times = {1, 2, 3, 4, 5}
    Queries <- AllQueries
    InnerTables <- AllInnerTables
    Words <- AllWords
    Fold <- UpperCase
    Near = 2
INVARIANTS TypeOK ValidTimeExact ChargedCoversValid CappedPerDay
           ChargedOutsidePaidPeriod FreeStayIsCustomer AnnouncedPeriodUsed FuzzyIsOneCharacter
           NearPlatesFound BestAndNewestFirst
CHECK_DEADLOCK FALSE
