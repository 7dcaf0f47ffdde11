------------------------------ MODULE FeeRules ------------------------------
(***************************************************************************)
(* What a stay costs: ChargeByTime and its two patterns.  Pattern 0 cuts   *)
(* the stay into periods of 24 hours from the entry, pattern 1 at every    *)
(* midnight.  A period is split into daylight and night time, the free     *)
(* sections of the rule are taken out, one of the two parts is completed   *)
(* to a multiple of its fee unit with minutes borrowed from the other      *)
(* (pattern 1: the night also borrows from the next day), and the fee of   *)
(* the period is capped.                                                   *)
(*                                                                         *)
(* Times are ticks (the code's seconds) since the midnight before the      *)
(* first day, Minute ticks a minute, so that the truncation of a duration  *)
(* to whole minutes is part of the model.  A behaviour is one call of      *)
(* ChargeByTime; pattern 1 takes one step per period, as its loop does.    *)
(* Money is in units in which every rate is an integer; a discount is a    *)
(* percentage and a fee is in hundredths.                                  *)
(***************************************************************************)
EXTENDS Integers, Sequences, FiniteSets, FiniteSetsExt

CONSTANTS Minute,      \* ticks per minute
          Day,         \* ticks per day
          MaxDays,     \* stays of more periods than this pay the cap of every day
          RuleTables,  \* contents of park_rule_config to charge with
          Weekends,    \* dates with dayofweek in (1,7)
          Enters,      \* entry times
          MaxStay,     \* bound: longest stay, in ticks
          Vehicles,    \* vehicle types: "big" (plate type 1) or "small"
          Discounts    \* discounts, in percent

(* A row of the table: when it applies, and the rule.  Fee units are       *)
(* positive (handle_query_rule_func turns a unit of 0 into 1).  Nothing    *)
(* else is checked when a rule is read: a section of free time may end     *)
(* before it begins (22:00-06:00) or after midnight, sections may overlap, *)
(* and the night may begin before the daylight.  (The sections are a set:  *)
(* one that is listed twice is left out.)                                  *)
Fees == [day_fee_unit : Nat \ {0}, day_fee_rate : Nat,
         night_fee_unit : Nat \ {0}, night_fee_rate : Nat, max_fee : Nat]

WellFormed(rule) ==
    /\ rule.daylight_begin \in Nat /\ rule.night_begin \in Nat
    /\ rule.free_time_length \in Nat
    /\ rule.fees \in [Vehicles -> Fees]
    /\ IsFiniteSet(rule.free_time_sections) /\ rule.free_time_sections \subseteq Nat \X Nat

ASSUME FeeAssumption ==
    /\ Minute \in Nat \ {0} /\ Day \in Nat \ {0} /\ Day % Minute = 0
    /\ MaxDays \in Nat /\ MaxStay \in Nat
    /\ Enters \subseteq 0 .. Day - 1
    /\ Vehicles \subseteq {"big", "small"}
    /\ Discounts \subseteq 0 .. 100
    /\ \A table \in RuleTables : IsFiniteSet(table)
    /\ \A table \in RuleTables : \A row \in table :
         /\ WellFormed(row.rule) /\ row.priority \in Nat
         /\ row.valid \in BOOLEAN /\ row.dates \subseteq Nat

VARIABLES
    stay,       \* the arguments of the call
    bill_pc,    \* "start", "pattern0", "pattern1" or "done"
    periods,    \* pattern 1: the periods the loop has still to visit
    borrowed,   \* borrowed_time, in minutes
    first_day,  \* no period has been charged yet
    details,    \* the details of the bill
    fee         \* bill.total_fee_, in hundredths

bill_vars == <<stay, bill_pc, periods, borrowed, first_day, details, fee>>

-----------------------------------------------------------------------------
(* Time.                                                                   *)
Date(t) == t \div Day
TimeOfDay(t) == t % Day
MidnightOf(date) == date * Day
Smaller(a, b) == IF a <= b THEN a ELSE b
Larger(a, b) == IF a >= b THEN a ELSE b

(* boost's time_period <<begin, end>>: intersects, intersection and the    *)
(* length of the intersection.  A period that ends before it begins has a  *)
(* negative length and intersects what its begin lies in.                  *)
Intersects(p, q) ==
    (p[1] <= q[1] /\ q[1] < p[2]) \/ (q[1] <= p[1] /\ p[1] < q[2])
Whole(p, q) == <<Larger(p[1], q[1]), Smaller(p[2], q[2])>>
Overlap(p, q) ==
    IF Intersects(p, q) THEN Smaller(p[2], q[2]) - Larger(p[1], q[1]) ELSE 0

DivideTimeByDay0(begin, end) ==
    [i \in 1 .. (end - begin + Day - 1) \div Day |->
       <<begin + (i - 1) * Day, Smaller(end, begin + i * Day)>>]

(* A stay of no length intersects the day it is in; a stay that ends at    *)
(* midnight does not intersect the day that begins there.                  *)
DivideTimeByDay1(begin, end) ==
    LET last == IF begin < end THEN Date(end - 1) ELSE Date(end) IN
    [i \in 1 .. last - Date(begin) + 1 |->
       Whole(<<begin, end>>,
             <<MidnightOf(Date(begin) + i - 1), MidnightOf(Date(begin) + i)>>)]

(* The quotient of C++, which is truncated toward zero.                    *)
Quotient(a, b) == IF a >= 0 THEN a \div b ELSE -((-a) \div b)

(* Slip: a whole number of units is completed by one more. *)
CompleteOneMore(time, unit) == unit - (time - unit * Quotient(time, unit))

CompleteTime(time, unit) ==
    LET mod == time - unit * Quotient(time, unit) IN IF mod = 0 THEN 0 ELSE unit - mod

-----------------------------------------------------------------------------
(* The rule.  The lowest priority is looked up among all rows, valid or    *)
(* not; on a weekend every row applies.                                    *)
LowestPriority(table) == Min({row.priority : row \in table})

Applicable(table, date) ==
    {row \in table : /\ row.valid
                     /\ \/ row.priority = LowestPriority(table)
                        \/ date \in row.dates \/ date \in Weekends}

(* The set of the rules found: none or one.                                *)
QueryChargeRule(table, date) ==
    {row.rule : row \in {r \in Applicable(table, date) :
                           \A s \in Applicable(table, date) : s.priority <= r.priority}}

QueryMinPriorityRule(table) ==
    {row.rule : row \in {r \in table : r.valid /\ r.priority = LowestPriority(table)}}

TheRule(found) == CHOOSE rule \in found : TRUE

-----------------------------------------------------------------------------
(* Pattern 0: the valid time of a period, which lies in two dates.         *)

(* The night and daylight sections of two days running.                    *)
NightPeriods(date, rule) ==
    {<<MidnightOf(date), MidnightOf(date) + rule.daylight_begin>>,
     <<MidnightOf(date) + rule.night_begin, MidnightOf(date + 1) + rule.daylight_begin>>,
     <<MidnightOf(date + 1) + rule.night_begin, MidnightOf(date + 2)>>}

DaylightPeriods(date, rule) ==
    {<<MidnightOf(d) + rule.daylight_begin, MidnightOf(d) + rule.night_begin>> :
       d \in {date, date + 1}}

(* SubstrctFreeTimeSection: the part of the sections of parked time that   *)
(* is free on one date.  (The code's clamp to zero has no effect.)         *)
FreeTime(parked, date, rule) ==
    SumFunction([f \in rule.free_time_sections \X DOMAIN parked |->
        LET s == f[1] IN
        Overlap(parked[f[2]], <<MidnightOf(date) + s[1], MidnightOf(date) + s[2]>>)])

(* The part of the period in each of the sections it intersects.           *)
Parked(period, sections) ==
    [s \in {t \in sections : Intersects(period, t)} |-> Whole(period, s)]

ValidLength(period, sections, date, rule) ==
    LET parked == Parked(period, sections) IN
    SumFunction([s \in DOMAIN parked |-> parked[s][2] - parked[s][1]])
      - FreeTime(parked, date, rule) - FreeTime(parked, date + 1, rule)

CalInvalidParkingTime(period, rule) ==
    LET date == Date(period[1]) IN
    [daylight |-> ValidLength(period, DaylightPeriods(date, rule), date, rule),
     night |-> ValidLength(period, NightPeriods(date, rule), date, rule)]

(* A time after k more minutes, in whole minutes.                          *)
Minutes(time, k) == Quotient(time + k * Minute, Minute)

(* Slip: the part that lends may become negative. *)
BorrowUnclamped(time, begin, rule, fees) ==
    IF TimeOfDay(begin) < rule.daylight_begin \/ TimeOfDay(begin) >= rule.night_begin
    THEN LET borrow == CompleteTime(Minutes(time.night, 0), fees.night_fee_unit) IN
         [night |-> Minutes(time.night, borrow), daylight |-> Minutes(time.daylight, -borrow)]
    ELSE LET borrow == CompleteTime(Minutes(time.daylight, 0), fees.day_fee_unit) IN
         [daylight |-> Minutes(time.daylight, borrow), night |-> Minutes(time.night, -borrow)]

(* BorrowTime: the part the period begins in is completed with minutes of  *)
(* the other one.  The result is in minutes.                               *)
BorrowTime(time, begin, rule, fees) ==
    IF TimeOfDay(begin) < rule.daylight_begin \/ TimeOfDay(begin) >= rule.night_begin
    THEN LET borrow == CompleteTime(Minutes(time.night, 0), fees.night_fee_unit) IN
         [night |-> Minutes(time.night, borrow),
          daylight |-> Larger(0, Minutes(time.daylight, -borrow))]
    ELSE LET borrow == CompleteTime(Minutes(time.daylight, 0), fees.day_fee_unit) IN
         [daylight |-> Minutes(time.daylight, borrow),
          night |-> Larger(0, Minutes(time.night, -borrow))]

Units(minutes, unit) == (minutes + unit - 1) \div unit

(* Slip: no cap. *)
UncappedDay(minutes, fees) ==
    Units(minutes.daylight, fees.day_fee_unit) * fees.day_fee_rate
      + Units(minutes.night, fees.night_fee_unit) * fees.night_fee_rate

CalOneDayCharge(minutes, fees) ==
    Smaller(fees.max_fee,
            Units(minutes.daylight, fees.day_fee_unit) * fees.day_fee_rate
              + Units(minutes.night, fees.night_fee_unit) * fees.night_fee_rate)

-----------------------------------------------------------------------------
(* A line of the bill: the period, the minutes of it paid for the day      *)
(* before, where charging begins, the valid time in ticks, the minutes     *)
(* charged and the fee.                                                    *)
NoTime == [daylight |-> 0, night |-> 0]
Detail(period, unbilled, from, found, valid, minutes, amount) ==
    [period |-> period, unbilled |-> unbilled, from |-> from, rule |-> found,
     valid |-> valid, minutes |-> minutes, fee |-> amount]
FreeDetail(period, unbilled, found) ==
    Detail(period, unbilled, period[2], found, NoTime, NoTime, 0)

(* Where the charged part of a first period begins: free_time_mode 1 lets  *)
(* the free time off.                                                      *)
AfterFreeTime(begin, rule, first) ==
    IF first /\ stay.free_time_mode = 1
    THEN begin + rule.free_time_length * Minute ELSE begin

CalChargeByTime(rule, period, first) ==
    LET fees == rule.fees[stay.vehicle]
        begin == AfterFreeTime(period[1], rule, first)
        valid == CalInvalidParkingTime(<<begin, period[2]>>, rule)
        minutes == BorrowTime(valid, begin, rule, fees) IN
    IF begin >= period[2] THEN FreeDetail(period, 0, {rule})
    ELSE Detail(period, 0, begin, {rule}, valid, minutes, CalOneDayCharge(minutes, fees))

-----------------------------------------------------------------------------
(* Pattern 1: the valid time of a period of one date.                      *)
Part(daylight, night) == [daylight |-> daylight, night |-> night]

(* Slip: a section that reaches into the night counts as daylight. *)
SectionAllDaylight(period, s, date, rule) ==
    LET In(b, e) == Overlap(period, <<MidnightOf(date) + b, MidnightOf(date) + e>>) IN
    IF s[2] <= rule.daylight_begin \/ s[1] >= rule.night_begin
    THEN Part(0, In(s[1], s[2])) ELSE Part(In(s[1], s[2]), 0)

(* The daylight and night part of a free section, case by case on where it *)
(* begins and ends.                                                        *)
FreeParts(period, s, date, rule) ==
    LET In(b, e) == Overlap(period, <<MidnightOf(date) + b, MidnightOf(date) + e>>)
        day == rule.daylight_begin
        night == rule.night_begin IN
    CASE s[1] < day /\ s[2] <= day -> Part(0, In(s[1], s[2]))
      [] s[1] < day /\ s[2] > day /\ s[2] > night ->
           Part(In(day, night), In(s[1], day) + In(night, s[2]))
      [] s[1] < day /\ s[2] > day /\ s[2] <= night -> Part(In(day, s[2]), In(s[1], day))
      [] s[1] >= day /\ s[1] < night /\ s[2] <= night -> Part(In(s[1], s[2]), 0)
      [] s[1] >= day /\ s[1] < night /\ s[2] > night ->
           Part(In(s[1], night), In(night, s[2]))
      [] OTHER -> Part(0, In(s[1], s[2]))

ValidTime1(period, date, rule) ==
    LET In(b, e) == Overlap(period, <<MidnightOf(date) + b, MidnightOf(date) + e>>)
        Free(part) == SumFunction([s \in rule.free_time_sections |->
                                     FreeParts(period, s, date, rule)[part]]) IN
    Part(In(rule.daylight_begin, rule.night_begin) - Free("daylight"),
         In(0, rule.daylight_begin) + In(rule.night_begin, Day) - Free("night"))

(* The daylight borrows from the night; what is left of the night borrows  *)
(* from the next day.  When nothing is left, borrowed_time keeps the value *)
(* of the day before.                                                      *)
Borrow1(time, fees) ==
    LET lent == CompleteTime(Minutes(time.daylight, 0), fees.day_fee_unit)
        daylight == Minutes(time.daylight, lent)
        left == time.night - lent * Minute
        tomorrow == CompleteTime(Minutes(left, 0), fees.night_fee_unit) IN
    IF left < 0
    THEN [minutes |-> Part(daylight, 0), borrowed |-> borrowed]
    ELSE [minutes |-> Part(daylight, Minutes(left, tomorrow)), borrowed |-> tomorrow]

-----------------------------------------------------------------------------
(* The call.                                                               *)
Stays ==
    {[enter |-> e, exit |-> e + length, pattern |-> p, free_time_mode |-> m,
      vehicle |-> v, discount |-> d, table |-> table] :
       e \in Enters, length \in 0 .. MaxStay, p \in {0, 1}, m \in {0, 1},
       v \in Vehicles, d \in Discounts, table \in RuleTables}

BillInit ==
    /\ stay \in Stays
    /\ bill_pc = "start"
    /\ periods = <<>> /\ borrowed = 0 /\ first_day = TRUE
    /\ details = <<>> /\ fee = 0

Total(lines) == SumFunction([i \in DOMAIN lines |-> lines[i].fee])
Return(lines, discount) ==
    /\ details' = lines
    /\ fee' = Total(lines) * discount
    /\ bill_pc' = "done"

EntryRule == QueryChargeRule(stay.table, Date(stay.enter))

(* ChargeByTime: a stay shorter than the free time of the entry's rule     *)
(* costs nothing; otherwise the pattern decides.                           *)
InFreeTime ==
    \E rule \in EntryRule : stay.exit - stay.enter < rule.free_time_length * Minute

ChargeByTime ==
    /\ bill_pc = "start"
    /\ \/ /\ InFreeTime
          /\ Return(<<FreeDetail(<<stay.enter, stay.exit>>, 0, EntryRule)>>, 100)
          /\ UNCHANGED periods
       \/ /\ ~InFreeTime /\ stay.pattern # 1
          /\ bill_pc' = "pattern0"
          /\ periods' = DivideTimeByDay0(stay.enter, stay.exit)
          /\ UNCHANGED <<details, fee>>
       \/ /\ ~InFreeTime /\ stay.pattern = 1
          /\ bill_pc' = "pattern1"
          /\ periods' = DivideTimeByDay1(stay.enter, stay.exit)
          /\ UNCHANGED <<details, fee>>
    /\ UNCHANGED <<stay, borrowed, first_day>>

(* More periods than MaxDays: the cap of the rule of lowest priority for   *)
(* each, without discount.                                                 *)
CalChargeTooDays ==
    /\ bill_pc \in {"pattern0", "pattern1"} /\ details = <<>>
    /\ Len(periods) > MaxDays
    /\ LET found == QueryMinPriorityRule(stay.table)
           amount == IF found = {} THEN 0
                     ELSE Len(periods) * TheRule(found).fees[stay.vehicle].max_fee IN
       Return(<<[FreeDetail(<<stay.enter, stay.exit>>, 0, found) EXCEPT !.fee = amount]>>,
              100)
    /\ UNCHANGED <<stay, periods, borrowed, first_day>>

(* No period, or no rule for the time of entry.                            *)
NoChargeBill ==
    /\ bill_pc = "pattern0" /\ Len(periods) <= MaxDays
    /\ periods = <<>> \/ EntryRule = {}
    /\ Return(<<FreeDetail(<<stay.enter, stay.exit>>, 0, {})>>, 100)
    /\ UNCHANGED <<stay, periods, borrowed, first_day>>

(* The first and the last period are computed; those in between cost what  *)
(* the first one costs.                                                    *)
ChargeByTime0 ==
    /\ bill_pc = "pattern0" /\ Len(periods) \in 1 .. MaxDays
    /\ \E rule \in EntryRule :
         LET first == CalChargeByTime(rule, periods[1], TRUE)
             Line(i) == IF i = 1 THEN first
                        ELSE IF i < Len(periods) THEN [first EXCEPT !.period = periods[i]]
                        ELSE CalChargeByTime(rule, periods[i], FALSE) IN
         Return([i \in DOMAIN periods |-> Line(i)], stay.discount)
    /\ UNCHANGED <<stay, periods, borrowed, first_day>>

(* One iteration of pattern 1's loop.                                      *)
LoopBegin == periods[1][1] + borrowed * Minute
LoopRule == QueryChargeRule(stay.table, Date(LoopBegin))

Looping ==
    /\ bill_pc = "pattern1" /\ periods # <<>>
    /\ Len(periods) + Len(details) <= MaxDays
    /\ periods' = Tail(periods)
    /\ UNCHANGED <<stay, bill_pc, fee>>

(* The whole period was paid for the day before, or there is no rule.      *)
SkipPeriod ==
    /\ Looping
    /\ LoopBegin >= periods[1][2] \/ LoopRule = {}
    /\ details' = Append(details, FreeDetail(periods[1], borrowed, {}))
    /\ UNCHANGED <<borrowed, first_day>>

FreePeriod ==
    /\ Looping
    /\ LoopBegin < periods[1][2]
    /\ \E rule \in LoopRule :
         /\ AfterFreeTime(LoopBegin, rule, first_day) >= periods[1][2]
         /\ details' = Append(details, FreeDetail(periods[1], borrowed, {rule}))
    /\ first_day' = FALSE
    /\ UNCHANGED borrowed

ChargePeriod ==
    /\ Looping
    /\ LoopBegin < periods[1][2]
    /\ \E rule \in LoopRule :
         LET fees == rule.fees[stay.vehicle]
             begin == AfterFreeTime(LoopBegin, rule, first_day)
             valid == ValidTime1(<<begin, periods[1][2]>>, Date(LoopBegin), rule)
             charged == Borrow1(valid, fees) IN
         /\ begin < periods[1][2]
         /\ details' = Append(details,
                         Detail(periods[1], borrowed, begin, {rule}, valid,
                                charged.minutes, CalOneDayCharge(charged.minutes, fees)))
         /\ borrowed' = charged.borrowed
    /\ first_day' = FALSE

ChargeByTime1Returns ==
    /\ bill_pc = "pattern1" /\ periods = <<>>
    /\ Return(details, stay.discount)
    /\ UNCHANGED <<stay, periods, borrowed, first_day>>

BillNext ==
    \/ ChargeByTime \/ CalChargeTooDays \/ NoChargeBill \/ ChargeByTime0
    \/ SkipPeriod \/ FreePeriod \/ ChargePeriod \/ ChargeByTime1Returns

BillSpec == BillInit /\ [][BillNext]_bill_vars

-----------------------------------------------------------------------------
Lines == {details[i] : i \in DOMAIN details}
Charged == {d \in Lines : d.from < d.period[2] /\ d.rule # {}}

(* The rules of the table are as a manager means them: the daylight begins *)
(* before the night, and the sections of free time are disjoint and lie    *)
(* within a day.  The code does not check it and miscounts otherwise.      *)
InOrder(rule) ==
    /\ rule.daylight_begin <= rule.night_begin /\ rule.night_begin <= Day
    /\ \A s \in rule.free_time_sections : s[1] < s[2] /\ s[2] <= Day
    /\ \A s, u \in rule.free_time_sections : s = u \/ s[2] <= u[1] \/ u[2] <= s[1]
Orderly == \A row \in stay.table : InOrder(row.rule)

(* Every variable holds a value of its type; when the rules are in order   *)
(* no minutes and no amount of a bill are negative.                        *)
TypeOK ==
    /\ stay.exit - stay.enter \in 0 .. MaxStay
    /\ bill_pc \in {"start", "pattern0", "pattern1", "done"}
    /\ borrowed \in Nat /\ first_day \in BOOLEAN /\ fee \in Int
    /\ \A d \in Lines : /\ d.fee \in Int /\ d.unbilled \in Nat
                        /\ d.valid \in [daylight : Int, night : Int]
                        /\ d.minutes \in [daylight : Int, night : Int]
    /\ Orderly => /\ fee >= 0
                  /\ \A d \in Lines : /\ d.fee >= 0
                                      /\ d.valid.daylight >= 0 /\ d.valid.night >= 0
                                      /\ d.minutes.daylight >= 0 /\ d.minutes.night >= 0

(* The reference: tick by tick, which ticks of a period are daylight, and  *)
(* which are free.                                                         *)
IsDaylight(t, rule) == TimeOfDay(t) >= rule.daylight_begin /\ TimeOfDay(t) < rule.night_begin
IsFree(t, rule) ==
    \E s \in rule.free_time_sections : TimeOfDay(t) >= s[1] /\ TimeOfDay(t) < s[2]
ValidTicks(d, rule, daylight) ==
    {t \in d.from .. d.period[2] - 1 :
       ~IsFree(t, rule) /\ IsDaylight(t, rule) = daylight}

(* The valid time of a computed period ("parking time minus the free       *)
(* sections") is exactly the time parked outside the free sections, told   *)
(* apart into daylight and night, for every position of the stay around    *)
(* the two boundaries and midnight, in both patterns, when the rules are   *)
(* in order.  (A period between the first and the last of pattern 0 is not *)
(* computed.)                                                              *)
ValidTimeExact ==
    Orderly => \A i \in DOMAIN details :
      (details[i] \in Charged /\ (stay.pattern = 1 \/ i \in {1, Len(details)})) =>
        \A rule \in details[i].rule :
          /\ details[i].valid.daylight = Cardinality(ValidTicks(details[i], rule, TRUE))
          /\ details[i].valid.night = Cardinality(ValidTicks(details[i], rule, FALSE))

(* Borrowing neither loses nor invents more than what completes one fee    *)
(* unit: the minutes charged are at least the valid ones and fewer than a  *)
(* unit more, when the rules are in order.                                 *)
ChargedCoversValid ==
    Orderly => \A d \in Charged : \A rule \in d.rule :
      LET fees == rule.fees[stay.vehicle]
          valid == d.valid.daylight \div Minute + d.valid.night \div Minute
          minutes == d.minutes.daylight + d.minutes.night IN
      /\ valid <= minutes
      /\ minutes < valid + Larger(fees.day_fee_unit, fees.night_fee_unit)

(* Whatever the path through the two patterns and the sections of the      *)
(* rules, the stay costs at most the cap of a rule of the table for every  *)
(* day or part of a day parked.                                            *)
CappedPerDay ==
    bill_pc = "done" =>
      fee <= 100 * Len(DivideTimeByDay1(stay.enter, stay.exit))
               * Max({0} \cup {row.rule.fees[stay.vehicle].max_fee : row \in stay.table})

(* A day of pattern 0 runs from the time of entry to the same time of the  *)
(* next day and is charged as such, and the free time is let off on the    *)
(* first day: the days that follow cost what they cost without it.         *)
FreeTimeOnFirstDayOnly ==
    (bill_pc = "done" /\ stay.pattern = 0 /\ Len(details) > 1) =>
      \A i \in 2 .. Len(details) : \A rule \in details[i].rule :
        details[i].fee = CalChargeByTime(rule, details[i].period, FALSE).fee
=============================================================================
