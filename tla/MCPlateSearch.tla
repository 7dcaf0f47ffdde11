---------------------------- MODULE MCPlateSearch ----------------------------
(* Small instances of the plate search for TLC.                              *)
EXTENDS PlateSearch

(* One letter in both cases and another one in upper case.                 *)
UpperCase(c) == IF c = "a" THEN "A" ELSE c

AllWords == UNION {[1 .. n -> {"a", "A", "B"}] : n \in 0 .. 3}
RowWords == {<<>>, <<"A">>, <<"B", "A">>, <<"A", "B", "A">>, <<"B", "B", "B">>}

Maybe(S) == {{}} \cup {{x} : x \in S}

AllQueries == [plate : Maybe(AllWords), start : Maybe({2}), end : Maybe({1}), colour : Maybe({"red"})]

InnerRows == [plate : RowWords, time : {1, 2}, colour : {"red"}, detected : {TRUE}]
          \cup {[plate |-> <<"A">>, time |-> 2, colour |-> "blue", detected |-> TRUE],
                [plate |-> <<>>, time |-> 0, colour |-> "none", detected |-> FALSE]}

AllInnerTables == UNION {[1 .. n -> InnerRows] : n \in 0 .. 2}
              \cup {<<r, s, t>> : r \in [plate : RowWords, time : {1}, colour : {"red"}, detected : {TRUE}],
                                  s \in [plate : RowWords, time : {2}, colour : {"red"}, detected : {TRUE}],
                                  t \in [plate : RowWords, time : {1}, colour : {"red"}, detected : {TRUE}]}
==============================================================================
