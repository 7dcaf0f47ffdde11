----------------------------- MODULE MCFeeRules -----------------------------
(* Small instances of the fee rules for TLC: a day of eight minutes of two   *)
(* ticks, daylight from the third to the sixth minute.                       *)
EXTENDS FeeRules

FeesOf(day_unit, day_rate, night_unit, night_rate, cap) ==
    [day_fee_unit |-> day_unit, day_fee_rate |-> day_rate,
     night_fee_unit |-> night_unit, night_fee_rate |-> night_rate, max_fee |-> cap]

Rule(begin, end, free, sections) ==
    [daylight_begin |-> begin, night_begin |-> end, free_time_length |-> free,
     free_time_sections |-> sections,
     fees |-> [v \in Vehicles |-> IF v = "big" THEN FeesOf(3, 5, 2, 2, 11)
                                  ELSE FeesOf(2, 3, 3, 1, 7)]]

RuleRow(rule, priority, dates, valid) ==
    [rule |-> rule, priority |-> priority, dates |-> dates, valid |-> valid]

(* Free sections in the night, in daylight and across one or both borders; *)
(* and sections out of order: two that overlap, one that ends before it    *)
(* begins and one that ends after midnight.                                *)
Sections == {{}, {<<1, 4>>}, {<<7, 10>>}, {<<3, 8>>}, {<<9, 13>>}, {<<2, 15>>},
             {<<0, 6>>, <<12, 16>>}, {<<3, 9>>, <<7, 11>>}, {<<14, 4>>}, {<<14, 18>>}}

(* One rule for every day; a rule for the second date besides; a rule of   *)
(* lowest priority that is not valid any more; a rule whose night begins   *)
(* before the daylight.                                                    *)
AllRuleTables ==
    {{RuleRow(Rule(6, 12, free, s), 1, {}, TRUE)} : free \in {0, 2}, s \in Sections}
      \cup {{RuleRow(Rule(6, 12, 1, {}), 1, {}, TRUE),
             RuleRow(Rule(4, 10, 1, {<<8, 12>>}), 2, {1}, TRUE)}}
      \cup {{RuleRow(Rule(6, 12, 0, {}), 1, {}, FALSE), RuleRow(Rule(4, 10, 0, {}), 2, {1}, TRUE)}}
      \cup {{RuleRow(Rule(12, 6, 0, {<<7, 10>>}), 1, {}, TRUE)}}
      \cup {{}}

AllDay == 0 .. Day - 1
OneRule == {{RuleRow(Rule(6, 12, 2, {}), 1, {}, TRUE)}}
=============================================================================
