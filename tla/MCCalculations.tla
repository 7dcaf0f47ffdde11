--------------------------- MODULE MCCalculations ---------------------------
(* The three computations of the server in one instance for TLC: what a stay *)
(* costs, who leaves and what of the stay is charged, and which parked       *)
(* vehicles a search finds.  A behaviour is one call of one of them with one *)
(* of its arguments; the other two rest.                                     *)
EXTENDS MCFeeRules, MCCustomers, MCPlateSearch

NoBill ==
    /\ stay = [pattern |-> 0, free_time_mode |-> 0, enter |-> 0, exit |-> 0,
               vehicle |-> "small", discount |-> 100, table |-> {}]
    /\ bill_pc = "done" /\ periods = <<>> /\ borrowed = 0 /\ first_day = TRUE
    /\ details = <<>> /\ fee = 0

NoExit ==
    /\ exit = [plate |-> <<>>, enter |-> 0, time |-> 0, mode |-> "ExactMatch", table |-> <<>>]
    /\ exit_pc = "thrown"
    /\ parking_type = Temporary /\ class = Temporary /\ vip = {} /\ charged = <<>>

NoSearch ==
    /\ query = [plate |-> {}, start |-> {}, end |-> {}, colour |-> {}]
    /\ table = <<>> /\ records = <<>> /\ reply = <<>>
    /\ search_pc = "thrown"

Init ==
    \/ BillInit /\ NoExit /\ NoSearch
    \/ NoBill /\ ExitInit /\ NoSearch
    \/ NoBill /\ NoExit /\ SearchInit

Next ==
    \/ BillNext /\ UNCHANGED <<exit_vars, search_vars>>
    \/ ExitNext /\ UNCHANGED <<bill_vars, search_vars>>
    \/ SearchNext /\ UNCHANGED <<bill_vars, exit_vars>>

Spec == Init /\ [][Next]_<<bill_vars, exit_vars, search_vars>>
=============================================================================
