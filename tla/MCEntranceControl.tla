-------------------------- MODULE MCEntranceControl --------------------------
(* Small instances of the entrance control for TLC. *)
EXTENDS EntranceControl

CONSTANTS customer, a, b

(* One place by the count of all cars; two, one of them the customer's, by *)
(* the count of temporary places; no count.                                *)
AllConfigs == {[judge |-> 1, berths |-> 2, rectify |-> -1],
               [judge |-> 2, berths |-> 4, rectify |-> -1],
               [judge |-> 0, berths |-> 1, rectify |-> 0]}

Symmetry == Permutations(Threads) \cup Permutations({a, b}) \cup Permutations(Entrances)
==============================================================================
