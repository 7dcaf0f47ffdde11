----------------------------- MODULE DeviceLine -----------------------------
(***************************************************************************)
(* What the threads of the server are promised when they talk to a device: *)
(* the line to it is theirs alone from the request to the answer.  A user  *)
(* asks for one line at a time, takes it when nobody has it, and gives it  *)
(* back, after which it may already be asking for the next one.            *)
(***************************************************************************)
CONSTANTS Lines, Users, Nobody, NoLine

VARIABLES
    want,  \* want[u]: the line user u waits for or holds
    line   \* line[l]: who holds line l

Init ==
    /\ want = [u \in Users |-> NoLine]
    /\ line = [l \in Lines |-> Nobody]

Ask(u, l) ==
    /\ want[u] = NoLine
    /\ want' = [want EXCEPT ![u] = l]
    /\ UNCHANGED line

Take(u) ==
    /\ want[u] \in Lines
    /\ line[want[u]] = Nobody
    /\ line' = [line EXCEPT ![want[u]] = u]
    /\ UNCHANGED want

Give(u, next) ==
    /\ want[u] \in Lines
    /\ line[want[u]] = u
    /\ line' = [line EXCEPT ![want[u]] = Nobody]
    /\ want' = [want EXCEPT ![u] = next]

Next ==
    \/ \E u \in Users, l \in Lines : Ask(u, l)
    \/ \E u \in Users : Take(u)
    \/ \E u \in Users, next \in Lines \cup {NoLine} : Give(u, next)

Spec == Init /\ [][Next]_<<want, line>>
=============================================================================
