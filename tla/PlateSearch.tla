----------------------------- MODULE PlateSearch -----------------------------
(***************************************************************************)
(* QueryParkingVehicle: a terminal looks for a parked vehicle.  The query  *)
(* filters by detection time and colour; when it gives a plate, every      *)
(* record is scored against it (matchscore) and the near ones are sent,    *)
(* best match first.                                                       *)
(*                                                                         *)
(* A plate is the sequence of its characters and Fold maps a character to  *)
(* its upper case.  The table is park_inner_cars joined with the detection *)
(* records: detected is FALSE for an inner row whose detection record is   *)
(* missing, which the right join fills with nulls.                         *)
(***************************************************************************)
EXTENDS Integers, Sequences, FiniteSets, FiniteSetsExt

CONSTANTS Queries,    \* requests: plate, start, end, colour; each a set of at most one value
          InnerTables,  \* contents of the joined table: sequences of rows
          Words,      \* the plates in requests and rows
          Fold(_),    \* towupper
          Near        \* the worst score that is still sent (2 in the code)

IsSequence(s) == s \in Seq({s[i] : i \in DOMAIN s})

ASSUME PlateSearchAssumption ==
    /\ Near \in Nat
    /\ \A w \in Words : IsSequence(w)
    /\ \A q \in Queries : q.plate \subseteq Words /\ \A v, w \in q.plate : v = w
    /\ \A rows \in InnerTables : IsSequence(rows)
    /\ \A rows \in InnerTables : \A i \in DOMAIN rows :
         /\ rows[i].plate \in Words
         /\ rows[i].detected \in BOOLEAN
         /\ rows[i].detected => rows[i].time \in Nat

VARIABLES
    query,     \* the request
    table,     \* what the database holds
    records,   \* the list of pairs (score, record)
    reply,     \* EnterVehicleList of the response
    search_pc  \* "select", "newest", "best", "send", "done" or "thrown"

search_vars == <<query, table, records, reply, search_pc>>

SearchInit ==
    /\ query \in Queries /\ table \in InnerTables
    /\ records = <<>> /\ reply = <<>>
    /\ search_pc = "select"

-----------------------------------------------------------------------------
(* Slip: only insertions and deletions are counted. *)
ScoreWithoutReplacement(s, t) ==
    LET d[x \in (0 .. Len(s)) \X (0 .. Len(t))] ==
          LET i == x[1]
              j == x[2]
          IN  IF i = 0 \/ j = 0 THEN i + j
              ELSE IF Fold(s[i]) = Fold(t[j]) THEN d[<<i - 1, j - 1>>]
              ELSE Min({d[<<i - 1, j>>], d[<<i, j - 1>>]}) + 1
    IN  d[<<Len(s), Len(t)>>]

(* matchscore: the table d of the scores of all pairs of prefixes.         *)
matchscore(s, t) ==
    LET d[x \in (0 .. Len(s)) \X (0 .. Len(t))] ==
          LET i == x[1]
              j == x[2]
          IN  IF i = 0 \/ j = 0 THEN i + j
              ELSE IF Fold(s[i]) = Fold(t[j]) THEN d[<<i - 1, j - 1>>]
              ELSE Min({d[<<i - 1, j>>], d[<<i, j - 1>>], d[<<i - 1, j - 1>>]}) + 1
    IN  d[<<Len(s), Len(t)>>]

(* The where clause; a comparison with a null is not true.                 *)
Selected(row) ==
    /\ \A start \in query.start : row.detected /\ start <= row.time
    /\ \A end \in query.end : row.detected /\ row.time <= end
    /\ \A colour \in query.colour : row.detected /\ row.colour = colour

Score(row) ==
    IF query.plate = {} THEN 0
    ELSE matchscore(CHOOSE p \in query.plate : TRUE, row.plate)

(* list::sort is stable.                                                   *)
StableSort(s, Before(_, _)) ==
    LET Rank(i) == Cardinality({j \in DOMAIN s : \/ Before(s[j], s[i])
                                                 \/ ~Before(s[i], s[j]) /\ j <= i})
    IN  [k \in DOMAIN s |-> s[CHOOSE i \in DOMAIN s : Rank(i) = k]]

(* The elements of s at the positions in P, in their order.                *)
Kept(s, P) ==
    [k \in 1 .. Cardinality(P) |-> s[CHOOSE i \in P : Cardinality({j \in P : j <= i}) = k]]

SelectRecords ==
    LET rows == Kept(table, {i \in DOMAIN table : Selected(table[i])}) IN
    /\ search_pc = "select"
    /\ \A i \in DOMAIN rows : rows[i].detected
    /\ records' = [i \in DOMAIN rows |-> [score |-> Score(rows[i]), row |-> rows[i]]]
    /\ search_pc' = "newest"
    /\ UNCHANGED <<query, table, reply>>

(* stoi of a null column throws; the terminal gets an error instead.       *)
SelectThrows ==
    /\ search_pc = "select"
    /\ \E i \in DOMAIN table : Selected(table[i]) /\ ~table[i].detected
    /\ search_pc' = "thrown"
    /\ UNCHANGED <<query, table, records, reply>>

(* Slip: the oldest record first. *)
SortOldestFirst ==
    /\ search_pc = "newest"
    /\ records' = StableSort(records, LAMBDA a, b : a.row.time < b.row.time)
    /\ search_pc' = IF query.plate = {} THEN "send" ELSE "best"
    /\ UNCHANGED <<query, table, reply>>

SortNewestFirst ==
    /\ search_pc = "newest"
    /\ records' = StableSort(records, LAMBDA a, b : a.row.time > b.row.time)
    /\ search_pc' = IF query.plate = {} THEN "send" ELSE "best"
    /\ UNCHANGED <<query, table, reply>>

SortBestFirst ==
    /\ search_pc = "best"
    /\ LET sorted == StableSort(records, LAMBDA a, b : a.score < b.score)
       IN  records' = Kept(sorted, {i \in DOMAIN sorted : sorted[i].score <= Near})
    /\ search_pc' = "send"
    /\ UNCHANGED <<query, table, reply>>

on_query_parkingvehicle ==
    /\ search_pc = "send"
    /\ reply' = [i \in DOMAIN records |-> records[i].row]
    /\ search_pc' = "done"
    /\ UNCHANGED <<query, table, records>>

SearchNext == SelectRecords \/ SelectThrows \/ SortNewestFirst \/ SortBestFirst
          \/ on_query_parkingvehicle

SearchSpec == SearchInit /\ [][SearchNext]_search_vars

-----------------------------------------------------------------------------
(* The reference: what two plates differ by, without the table d.          *)
Folded(w) == [i \in DOMAIN w |-> Fold(w[i])]
Chars == UNION {{Fold(w[i]) : i \in DOMAIN w} : w \in Words}
Front(w, i) == SubSeq(w, 1, i)
Back(w, i) == SubSeq(w, i + 1, Len(w))

Deleted(w, i) == Front(w, i - 1) \o Back(w, i)
Replaced(w, i, c) == Front(w, i - 1) \o <<c>> \o Back(w, i)
Inserted(w, i, c) == Front(w, i) \o <<c>> \o Back(w, i)

(* The words one character deleted, replaced or inserted away from w.      *)
OneEdit(w) ==
    (UNION {{Deleted(w, i)} \cup {Replaced(w, i, c) : c \in Chars} : i \in DOMAIN w})
      \cup (UNION {{Inserted(w, i, c) : c \in Chars} : i \in 0 .. Len(w)})

FoldedWords == {Folded(w) : w \in Words}

(* Ball[k][w]: the words at most k edits away from w.                      *)
Ball ==
    LET B[k \in 0 .. Near] ==
          IF k = 0 THEN [w \in FoldedWords |-> {w}]
          ELSE [w \in FoldedWords |-> B[k - 1][w] \cup UNION {OneEdit(v) : v \in B[k - 1][w]}]
    IN  B

EditsApart(p, q, k) == Folded(q) \in Ball[k][Folded(p)]

(* A plate query returns exactly the parked vehicles whose detection       *)
(* passes the filters and whose plate is at most Near edits away from the  *)
(* one asked for, whatever the case of the letters: the scores of          *)
(* matchscore, the second sort and remove_if together lose, add and repeat *)
(* none.                                                                   *)
NearPlatesFound ==
    (search_pc = "done" /\ query.plate # {}) =>
      \A i \in DOMAIN table :
        LET near == \A p \in query.plate : EditsApart(p, table[i].plate, Near)
            Copies(rows) == Cardinality({k \in DOMAIN rows : rows[k] = table[i]})
        IN  Copies(reply) = IF Selected(table[i]) /\ near THEN Copies(table) ELSE 0

(* Of two vehicles in a reply the one with fewer edits comes first, and of *)
(* two equally good ones the one detected last: the second list::sort must *)
(* not undo the first.                                                     *)
BestAndNewestFirst ==
    search_pc = "done" =>
      \A i \in DOMAIN reply, k \in DOMAIN reply : i < k =>
        LET Closer(a, b, n) == \A p \in query.plate :
                                 EditsApart(p, b.plate, n) => EditsApart(p, a.plate, n)
            Tied == \A n \in 0 .. Near : Closer(reply[k], reply[i], n)
        IN  /\ \A n \in 0 .. Near : Closer(reply[i], reply[k], n)
            /\ Tied => reply[i].time >= reply[k].time
=============================================================================
