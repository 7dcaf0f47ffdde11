---------------------------- MODULE PlatesProofs ----------------------------
(***************************************************************************)
(* What is found by a plate: which part of a stay is charged, and to whom, *)
(* for any tables, plates and times (Customers); and which parked vehicles *)
(* a search returns, and in which order, for any table and any request     *)
(* (PlateSearch).                                                          *)
(*                                                                         *)
(* The invariant of an exit (ExitInv) says what the steps so far have      *)
(* computed.  The one of a search (SearchInv) says that the list holds the *)
(* entries of exactly the records to be sent, in some order, and which     *)
(* order that is: the sorts are permutations (Arranged), so nothing is     *)
(* lost or repeated, and the second one keeps what the first has done      *)
(* where the scores are equal.  What a score means is a fact about two     *)
(* words: the table d of matchscore holds at every cell the number of      *)
(* edits between two beginnings.  It changes by at most one from a cell to *)
(* the next (Neighbours), so one edit changes the last cell by at most one *)
(* (EditScore), and a path of cells back to the first one is a list of as  *)
(* many edits as the score says (ScoreReaches).                            *)
(***************************************************************************)
EXTENDS Customers, PlateSearch, FiniteSetTheorems, SequenceTheorems, WellFoundedInduction,
        TLAPS

-----------------------------------------------------------------------------
(* The results of the queries.                                             *)

(* A set of positions that is not empty has a first one: a query with rows *)
(* has a first row.                                                        *)
LEMMA FirstIsThere ==
    ASSUME NEW S \in SUBSET Nat, S # {}
    PROVE  \E i \in S : First(S) = {i}
  <1> DEFINE R == OpToRel(<, Nat)
  <1>1. PICK i \in S : \A j \in S : ~(<<j, i>> \in R)
    BY NatLessThanWellFounded, WFMin
  <1>2. \A j \in S : ~(j < i)
    BY <1>1 DEF OpToRel
  <1>3. i \in Nat /\ \A j \in S : j \in Nat
    OBVIOUS
  <1>4. \A j \in S : i <= j
    BY <1>2, <1>3
  <1>5. i \in First(S)
    BY <1>4 DEF First
  <1>6. ASSUME NEW k \in First(S) PROVE k = i
    <2>1. k \in S /\ k <= i /\ i <= k
      BY <1>4 DEF First
    <2> QED BY <2>1, <1>3
  <1> QED BY <1>5, <1>6

(* The first of no positions is none.                                      *)
LEMMA FirstOfNone == First({}) = {}
  BY DEF First

(* What CustomersAssumption says of the exit that is charged.              *)
LEMMA ExitTyped ==
    ASSUME exit \in Exits
    PROVE  /\ exit.plate \in Plates /\ exit.mode \in Modes
           /\ exit.table \in VipTables
           /\ exit.enter \in Nat /\ exit.time \in Nat
           /\ DOMAIN exit.table \subseteq Nat
           /\ \A i \in DOMAIN exit.table :
                /\ exit.table[i].type \in VipTypes /\ exit.table[i].deleted \in BOOLEAN
                /\ exit.table[i].begin \in Nat /\ exit.table[i].expiry \in Nat
                /\ exit.table[i].begin <= exit.table[i].expiry
  <1>1. PICK p \in Plates, s \in Times, e \in Times, m \in Modes, rows \in VipTables :
          exit = [plate |-> p, enter |-> s, time |-> e, mode |-> m, table |-> rows]
    BY DEF Exits
  <1>2. /\ exit.plate \in Plates /\ exit.mode \in Modes
        /\ exit.table \in VipTables
        /\ exit.enter \in Times /\ exit.time \in Times
    BY <1>1
  <1>3. IsWord(exit.table)
    BY <1>2, CustomersAssumption
  <1> DEFINE T == {exit.table[i] : i \in DOMAIN exit.table}
  <1>4. exit.table \in Seq(T)
    BY <1>3 DEF IsWord
  <1>5. DOMAIN exit.table = 1 .. Len(exit.table) /\ Len(exit.table) \in Nat
    <2> HIDE DEF T
    <2> QED BY <1>4
  <1>6. DOMAIN exit.table \subseteq Nat
    BY <1>5
  <1> QED BY <1>2, <1>6, CustomersAssumption

(* The row that ChargeFactory::Create takes from the rows at positions S:  *)
(* one of them, with a paid period if there is such a row.                 *)
LEMMA ChosenIs ==
    ASSUME exit \in Exits, NEW S \in SUBSET DOMAIN exit.table
    PROVE  \/ S = {} /\ ChosenRow(S) = {}
           \/ \E i \in S :
                /\ ChosenRow(S) = {exit.table[i]}
                /\ \/ exit.table[i].type \in TimeBased
                   \/ \A j \in S : exit.table[j].type \notin TimeBased
  <1> DEFINE paid == {i \in S : exit.table[i].type \in TimeBased}
             from == IF paid # {} THEN paid ELSE S
  <1>1. ChosenRow(S) = Rows(First(from))
    BY DEF ChosenRow
  <1>2. CASE S = {}
    <2>1. from = {}
      BY <1>2
    <2>2. First(from) = {}
      BY <2>1, FirstOfNone
    <2>3. Rows(First(from)) = {}
      BY <2>2 DEF Rows
    <2> QED BY <1>1, <1>2, <2>3
  <1>3. CASE S # {}
    <2>1. from # {} /\ from \subseteq S /\ from \in SUBSET Nat
      BY <1>3, ExitTyped
    <2>2. PICK i \in from : First(from) = {i}
      <3> HIDE DEF from
      <3> QED BY <2>1, FirstIsThere
    <2>3. ChosenRow(S) = {exit.table[i]}
      BY <1>1, <2>2 DEF Rows
    <2>4. \/ exit.table[i].type \in TimeBased
          \/ \A j \in S : exit.table[j].type \notin TimeBased
      BY <2>2
    <2> QED BY <2>1, <2>2, <2>3, <2>4
  <1> QED BY <1>2, <1>3

(* The rows a query finds are rows of the table.                           *)
LEMMA FoundInTable == Found \subseteq DOMAIN exit.table
  BY DEF Found, Matching, First

-----------------------------------------------------------------------------
(* The invariant: each step has computed its result from the arguments of  *)
(* the call, which no step changes, and nothing is computed before its     *)
(* turn.                                                                   *)
ValidPositions == {i \in Found : IsValidVIP(exit.table[i], exit.time)}

Announced ==
    LET valid == Rows(First(ValidPositions)) IN
    IF valid = {} \/ exit.mode \notin WhitelistMatchMode THEN Temporary ELSE (CHOOSE row \in valid : TRUE).type

Class == IF vip = {} THEN Temporary ELSE (CHOOSE row \in vip : TRUE).type

Charged ==
    IF class \in TimeBased
    THEN CalTimeBasedVIPCharge(CHOOSE row \in vip : TRUE, exit.enter, exit.time)
    ELSE <<<<exit.enter, exit.time>>>>

ArgumentsOK == exit \in Exits /\ 0 < exit.enter /\ exit.enter < exit.time

ResultsOK ==
    /\ exit_pc \in {"query", "create", "charge", "done", "thrown"}
    /\ exit_pc \in {"create", "charge", "done"} => parking_type = Announced
    /\ exit_pc \in {"charge", "done"} => vip = ChosenRow(Found) /\ class = Class
    /\ exit_pc \notin {"charge", "done"} => class = Temporary
    /\ exit_pc = "done" => charged = Charged

ExitInv == ArgumentsOK /\ ResultsOK

(* The two queries of one exit see the same table.                         *)
LEMMA SameQuery ==
    ASSUME exit' = exit
    PROVE  /\ Found' = Found /\ ChosenRow(Found)' = ChosenRow(Found)
           /\ Announced' = Announced
  <1>1. Matching' = Matching
    BY DEF Matching
  <1>2. Found' = Found
    BY <1>1 DEF Found, First
  <1>3. ValidPositions' = ValidPositions
    BY <1>2 DEF ValidPositions, IsValidVIP
  <1>4. ChosenRow(Found)' = ChosenRow(Found)
    BY <1>2 DEF ChosenRow, Rows, First
  <1>5. Announced' = Announced
    BY <1>3 DEF Announced, Rows, First
  <1> QED BY <1>2, <1>4, <1>5

(* ExitInv holds in the first state of every call.                         *)
LEMMA ExitInvInit == ExitInit => ExitInv
  BY DEF ExitInit, ExitInv, ArgumentsOK, ResultsOK

(* Every step preserves ExitInv.                                           *)
LEMMA ExitInvStep == ExitInv /\ [ExitNext]_exit_vars => ExitInv'
  <1> SUFFICES ASSUME ExitInv, [ExitNext]_exit_vars PROVE ExitInv'
    OBVIOUS
  <1>1. exit' = exit
    BY DEF ExitNext, exit_vars, GetParkingType, GetParkingTypeThrows, ChargeFactoryCreate,
           CalCharge
  <1>2. ArgumentsOK'
    BY <1>1 DEF ExitInv, ArgumentsOK, Exits
  <1>3. ResultsOK'
    <2> USE SameQuery, <1>1 DEF ExitInv, ResultsOK
    <2>1. CASE GetParkingType
      <3>1. parking_type' = Announced
        BY <2>1 DEF GetParkingType, Announced, ValidPositions
      <3> QED BY <2>1, <3>1 DEF GetParkingType
    <2>2. CASE GetParkingTypeThrows
      BY <2>2 DEF GetParkingTypeThrows
    <2>3. CASE ChargeFactoryCreate
      BY <2>3 DEF ChargeFactoryCreate, Class
    <2>4. CASE CalCharge
      <3>1. charged' = Charged
        BY <2>4 DEF CalCharge, Charged
      <3>2. Charged' = Charged /\ Class' = Class
        BY <2>4 DEF CalCharge, Charged, Class, CalTimeBasedVIPCharge
      <3> QED BY <2>4, <3>1, <3>2 DEF CalCharge
    <2>5. CASE UNCHANGED exit_vars
      <3>1. Charged' = Charged /\ Class' = Class
        BY <2>5 DEF exit_vars, Charged, Class, CalTimeBasedVIPCharge
      <3> QED BY <2>5, <3>1 DEF exit_vars
    <2> QED BY <2>1, <2>2, <2>3, <2>4, <2>5 DEF ExitNext
  <1> QED BY <1>2, <1>3 DEF ExitInv

(* ExitInv holds throughout.                                               *)
LEMMA ExitInvariant == ExitSpec => []ExitInv
  BY ExitInvInit, ExitInvStep, PTL DEF ExitSpec

-----------------------------------------------------------------------------
(* The row a charge was created with: it is one of those found, and the    *)
(* class is its type.                                                      *)
LEMMA ClassRow ==
    ASSUME ExitInv, class # Temporary
    PROVE  \E i \in Found :
             /\ vip = {exit.table[i]} /\ class = exit.table[i].type
             /\ (CHOOSE row \in vip : TRUE) = exit.table[i]
             /\ \/ class \in TimeBased
                \/ \A j \in Found : exit.table[j].type \notin TimeBased
  <1>1. vip = ChosenRow(Found) /\ class = Class
    BY DEF ExitInv, ResultsOK
  <1>2. vip # {}
    BY <1>1 DEF Class
  <1>3. PICK i \in Found :
          /\ vip = {exit.table[i]}
          /\ \/ exit.table[i].type \in TimeBased
             \/ \A j \in Found : exit.table[j].type \notin TimeBased
    BY <1>1, <1>2, ChosenIs, FoundInTable DEF ExitInv, ArgumentsOK
  <1>4. (CHOOSE row \in vip : TRUE) = exit.table[i]
    BY <1>3
  <1>5. class = exit.table[i].type
    BY <1>1, <1>2, <1>4 DEF Class
  <1> QED BY <1>3, <1>4, <1>5

(* What GetParkingType announces: nothing, or the type of one of the rows  *)
(* found.                                                                  *)
LEMMA AnnouncedRow ==
    ASSUME ExitInv, Announced # Temporary
    PROVE  \E k \in Found : Announced = exit.table[k].type
  <1>1. Rows(First(ValidPositions)) # {} /\ ValidPositions \subseteq Found
    BY DEF Announced, ValidPositions
  <1>2. ValidPositions # {} /\ ValidPositions \in SUBSET Nat
    <2>1. ValidPositions # {}
      BY <1>1, FirstOfNone DEF Rows
    <2> QED BY <2>1, <1>1, FoundInTable, ExitTyped DEF ExitInv, ArgumentsOK
  <1>3. PICK k \in ValidPositions : First(ValidPositions) = {k}
    BY <1>2, FirstIsThere
  <1>4. Rows(First(ValidPositions)) = {exit.table[k]}
    BY <1>3 DEF Rows
  <1>5. Announced = exit.table[k].type
    BY <1>4 DEF Announced
  <1> QED BY <1>1, <1>3, <1>5

(* A vehicle announced as that of a customer with a paid period is charged *)
(* as one: the announced row is among those that ChargeFactory::Create     *)
(* finds, and it looks for such a row among all of them before it falls    *)
(* back on the first.                                                      *)
THEOREM PeriodBeforeBalance == ExitSpec => []AnnouncedPeriodUsed
  <1>1. ExitInv => AnnouncedPeriodUsed
    <2> SUFFICES ASSUME ExitInv, exit_pc \in {"charge", "done"}, parking_type \in TimeBased
                 PROVE  class \in TimeBased
      BY DEF AnnouncedPeriodUsed
    <2>1. /\ parking_type = Announced /\ vip = ChosenRow(Found) /\ class = Class
          /\ Announced # Temporary
      BY DEF ExitInv, ResultsOK, TimeBased, VipTypes, Temporary
    <2>2. PICK k \in Found : Announced = exit.table[k].type
      BY <2>1, AnnouncedRow
    <2>3. PICK i \in Found : /\ vip = {exit.table[i]}
                            /\ exit.table[i].type \in TimeBased
      BY <2>1, <2>2, ChosenIs, FoundInTable DEF ExitInv, ArgumentsOK
    <2> QED BY <2>1, <2>3 DEF Class
  <1> QED BY <1>1, ExitInvariant, PTL

-----------------------------------------------------------------------------
(* A row that makes a stay free is valid at the exit, so the type that     *)
(* GetParkingType announces under a match mode is that of some valid row.  *)
THEOREM FreeIsAnnounced == ExitSpec => []FreeStayIsCustomer
  <1>1. ExitInv => FreeStayIsCustomer
    <2> SUFFICES ASSUME ExitInv, exit_pc = "done", charged = <<>>,
                        exit.mode \in WhitelistMatchMode
                 PROVE  parking_type # Temporary
      BY DEF FreeStayIsCustomer
    <2>1. charged = Charged /\ parking_type = Announced
      BY DEF ExitInv, ResultsOK
    <2>2. class \in TimeBased
      BY <2>1 DEF Charged
    <2>3. class # Temporary
      BY <2>2 DEF TimeBased, VipTypes, Temporary
    <2>4. PICK i \in Found : (CHOOSE row \in vip : TRUE) = exit.table[i]
      BY <2>3, ClassRow
    <2>5. CalTimeBasedVIPCharge(exit.table[i], exit.enter, exit.time) = <<>>
      BY <2>1, <2>2, <2>4 DEF Charged
    <2>6. /\ exit.enter \in Nat /\ exit.time \in Nat
          /\ i \in DOMAIN exit.table /\ DOMAIN exit.table \subseteq Nat
          /\ exit.table[i].begin \in Nat /\ exit.table[i].expiry \in Nat
      BY ExitTyped, FoundInTable DEF ExitInv, ArgumentsOK
    <2>7. IsValidVIP(exit.table[i], exit.time)
      BY <2>5, <2>6 DEF CalTimeBasedVIPCharge, IsValidVIP
    <2>8. ValidPositions # {} /\ ValidPositions \in SUBSET Nat
      BY <2>6, <2>7, FoundInTable DEF ValidPositions
    <2>9. PICK k \in ValidPositions : First(ValidPositions) = {k}
      BY <2>8, FirstIsThere
    <2>10. Rows(First(ValidPositions)) = {exit.table[k]}
      BY <2>9 DEF Rows
    <2>11. Announced = exit.table[k].type
      BY <2>10 DEF Announced
    <2>12. exit.table[k].type \in VipTypes
      BY <2>9, FoundInTable, ExitTyped DEF ValidPositions, ExitInv, ArgumentsOK
    <2> QED BY <2>1, <2>11, <2>12 DEF VipTypes, Temporary
  <1> QED BY <1>1, ExitInvariant, PTL

-----------------------------------------------------------------------------
(* How often a list of at most two intervals covers a moment.              *)
Covers(list, t) == {i \in DOMAIN list : list[i][1] <= t /\ t < list[i][2]}

(* No interval covers no moment.                                           *)
LEMMA CoverNone == \A t : Cardinality(Covers(<<>>, t)) = 0
  <1> SUFFICES ASSUME NEW t PROVE Cardinality(Covers(<<>>, t)) = 0
    OBVIOUS
  <1>1. Covers(<<>>, t) = {}
    BY DEF Covers
  <1> QED BY <1>1, FS_EmptySet

(* One interval covers a moment once or not at all.                        *)
LEMMA CoverOne ==
    ASSUME NEW t \in Int, NEW a \in Int, NEW b \in Int
    PROVE  Cardinality(Covers(<<<<a, b>>>>, t)) = IF a <= t /\ t < b THEN 1 ELSE 0
  <1>1. Covers(<<<<a, b>>>>, t) = (IF a <= t /\ t < b THEN {1} ELSE {})
    BY DEF Covers
  <1>2. Cardinality({}) = 0 /\ Cardinality({1}) = 1
    BY FS_EmptySet, FS_Singleton
  <1> QED BY <1>1, <1>2

(* Two intervals one of which ends before the other begins cover it once   *)
(* at most.                                                                *)
LEMMA CoverTwo ==
    ASSUME NEW t \in Int, NEW a \in Int, NEW b \in Int, NEW c \in Int, NEW d \in Int,
           b <= c
    PROVE  Cardinality(Covers(<<<<a, b>>, <<c, d>>>>, t)) =
             IF (a <= t /\ t < b) \/ (c <= t /\ t < d) THEN 1 ELSE 0
  <1>1. Covers(<<<<a, b>>, <<c, d>>>>, t) =
          (IF a <= t /\ t < b THEN {1} ELSE IF c <= t /\ t < d THEN {2} ELSE {})
    BY DEF Covers
  <1>2. Cardinality({}) = 0 /\ Cardinality({1}) = 1 /\ Cardinality({2}) = 1
    BY FS_EmptySet, FS_Singleton
  <1> QED BY <1>1, <1>2

(* Every moment of the stay outside the paid period is charged exactly     *)
(* once, and none inside it: the cases of CalTimeBasedVIPCharge, taken     *)
(* with the row ChargeFactory::Create chose.                               *)
THEOREM PaidPeriodIsFree == ExitSpec => []ChargedOutsidePaidPeriod
  <1>1. ExitInv => ChargedOutsidePaidPeriod
    <2> SUFFICES ASSUME ExitInv, exit_pc = "done",
                        NEW t \in exit.enter .. exit.time - 1
                 PROVE  Charges(t) =
                          IF class \in TimeBased /\ \E row \in vip : Paid(row, t) THEN 0 ELSE 1
      BY DEF ChargedOutsidePaidPeriod
    <2> DEFINE enter == exit.enter
               time == exit.time
    <2>1. /\ enter \in Nat /\ time \in Nat /\ enter < time
          /\ t \in Int /\ enter <= t /\ t < time
      BY ExitTyped DEF ExitInv, ArgumentsOK
    <2>2. Charges(t) = Cardinality(Covers(Charged, t))
      <3>1. charged = Charged
        BY DEF ExitInv, ResultsOK
      <3> QED BY <3>1 DEF Charges, Covers
    <2>3. Cardinality(Covers(<<<<enter, time>>>>, t)) = 1
      <3> HIDE DEF enter, time
      <3> QED BY <2>1, CoverOne
    <2>4. CASE class \notin TimeBased
      <3>1. Charged = <<<<enter, time>>>>
        BY <2>4 DEF Charged
      <3> QED BY <2>2, <2>3, <2>4, <3>1
    <2>5. CASE class \in TimeBased
      <3>1. class # Temporary
        BY <2>5 DEF TimeBased, VipTypes, Temporary
      <3>2. PICK i \in Found : vip = {exit.table[i]} /\ (CHOOSE row \in vip : TRUE) = exit.table[i]
        BY <3>1, ClassRow
      <3> DEFINE row == exit.table[i]
                 begin == row.begin
                 expiry == row.expiry
      <3>3. /\ begin \in Nat /\ expiry \in Nat /\ begin <= expiry
            /\ row.deleted \in BOOLEAN
        BY ExitTyped, FoundInTable DEF ExitInv, ArgumentsOK
      <3>4. Charged = CalTimeBasedVIPCharge(row, enter, time)
        BY <2>5, <3>2 DEF Charged
      <3>5. Cardinality(Covers(CalTimeBasedVIPCharge(row, enter, time), t)) =
              IF Paid(row, t) THEN 0 ELSE 1
        <4>1. CASE row.deleted \/ expiry = 0 \/ time <= begin
          <5>1. CalTimeBasedVIPCharge(row, enter, time) = <<<<enter, time>>>>
            BY <4>1 DEF CalTimeBasedVIPCharge
          <5>2. ~Paid(row, t)
            BY <4>1, <2>1, <3>3 DEF Paid
          <5> QED BY <5>1, <5>2, <2>3
        <4>2. CASE ~(row.deleted \/ expiry = 0 \/ time <= begin)
          <5>1. Paid(row, t) <=> begin <= t /\ t < expiry
            BY <4>2, <3>3 DEF Paid
          <5>2. CASE time <= expiry /\ enter < begin
            <6>1. CalTimeBasedVIPCharge(row, enter, time) = <<<<enter, begin>>>>
              BY <4>2, <5>2 DEF CalTimeBasedVIPCharge
            <6>2. Cardinality(Covers(<<<<enter, begin>>>>, t)) =
                    (IF enter <= t /\ t < begin THEN 1 ELSE 0)
              <7> HIDE DEF enter, begin
              <7> QED BY <2>1, <3>3, CoverOne
            <6> QED BY <6>1, <6>2, <5>1, <5>2, <2>1, <3>3
          <5>3. CASE time <= expiry /\ ~(enter < begin)
            <6>1. CalTimeBasedVIPCharge(row, enter, time) = <<>>
              BY <4>2, <5>3 DEF CalTimeBasedVIPCharge
            <6>2. Cardinality(Covers(<<>>, t)) = 0
              BY CoverNone
            <6> QED BY <6>1, <6>2, <5>1, <5>3, <2>1, <3>3
          <5>4. CASE ~(time <= expiry) /\ enter < begin
            <6>1. CalTimeBasedVIPCharge(row, enter, time) =
                    <<<<enter, begin>>, <<expiry, time>>>>
              BY <4>2, <5>4 DEF CalTimeBasedVIPCharge
            <6>2. Cardinality(Covers(<<<<enter, begin>>, <<expiry, time>>>>, t)) =
                    (IF (enter <= t /\ t < begin) \/ (expiry <= t /\ t < time) THEN 1 ELSE 0)
              <7> HIDE DEF enter, begin, expiry, time
              <7> QED BY <2>1, <3>3, CoverTwo
            <6> QED BY <6>1, <6>2, <5>1, <5>4, <2>1, <3>3
          <5>5. CASE ~(time <= expiry) /\ ~(enter < begin) /\ enter < expiry
            <6>1. CalTimeBasedVIPCharge(row, enter, time) = <<<<expiry, time>>>>
              BY <4>2, <5>5 DEF CalTimeBasedVIPCharge
            <6>2. Cardinality(Covers(<<<<expiry, time>>>>, t)) =
                    (IF expiry <= t /\ t < time THEN 1 ELSE 0)
              <7> HIDE DEF expiry, time
              <7> QED BY <2>1, <3>3, CoverOne
            <6> QED BY <6>1, <6>2, <5>1, <5>5, <2>1, <3>3
          <5>6. CASE ~(time <= expiry) /\ ~(enter < begin) /\ ~(enter < expiry)
            <6>1. CalTimeBasedVIPCharge(row, enter, time) = <<<<enter, time>>>>
              BY <4>2, <5>6 DEF CalTimeBasedVIPCharge
            <6> QED BY <6>1, <5>1, <5>6, <2>1, <2>3, <3>3
          <5> QED BY <5>2, <5>3, <5>4, <5>5, <5>6
        <4> QED BY <4>1, <4>2
      <3>6. (\E r \in vip : Paid(r, t)) <=> Paid(row, t)
        BY <3>2
      <3> QED BY <2>2, <2>5, <3>4, <3>5, <3>6
    <2> QED BY <2>4, <2>5
  <1> QED BY <1>1, ExitInvariant, PTL

-----------------------------------------------------------------------------
(* The match of one plate with the pattern of another.                     *)

(* The characters of a plate are numbered from one.                        *)
LEMMA WordDomain ==
    ASSUME NEW w, IsWord(w)
    PROVE  Len(w) \in Nat /\ DOMAIN w = 1 .. Len(w)
  <1> DEFINE T == {w[i] : i \in DOMAIN w}
  <1>1. w \in Seq(T)
    BY DEF IsWord
  <1> HIDE DEF T
  <1> QED BY <1>1

(* LIKE with a pattern that has one blank compares all other characters.   *)
LEMMA LikeBlank ==
    ASSUME NEW w, NEW p, IsWord(w), IsWord(p), \A i \in DOMAIN p : p[i] # AnyChar,
           NEW k \in DOMAIN p
    PROVE  Like(w, Blank(p, k)) <=>
             /\ Len(w) = Len(p)
             /\ \A i \in DOMAIN p : i = k \/ w[i] = p[i]
  <1> DEFINE T == {p[i] : i \in DOMAIN p} \cup {AnyChar}
             q == Blank(p, k)
  <1>1. Len(p) \in Nat /\ DOMAIN p = 1 .. Len(p)
    BY WordDomain
  <1>2. p \in Seq(T) /\ AnyChar \in T
    BY <1>1 DEF IsWord
  <1>3. /\ Len(q) = Len(p) /\ DOMAIN q = 1 .. Len(p)
        /\ \A i \in 1 .. Len(p) : q[i] = IF i = k THEN AnyChar ELSE p[i]
    <2> HIDE DEF T
    <2> QED BY <1>1, <1>2, ExceptSeq DEF Blank
  <1> HIDE DEF q
  <1>4. Like(w, q) <=> /\ Len(w) = Len(p)
                       /\ \A i \in 1 .. Len(p) : q[i] = AnyChar \/ q[i] = w[i]
    BY <1>3 DEF Like
  <1>5. \A i \in 1 .. Len(p) : (q[i] = AnyChar \/ q[i] = w[i]) <=> (i = k \/ w[i] = p[i])
    BY <1>1, <1>3
  <1> QED BY <1>1, <1>4, <1>5 DEF q

(* The bytes of a regular plate: the province ends at offset three and     *)
(* every later character is one byte.                                      *)
LEMMA RegularOffsets ==
    ASSUME NEW p, IsWord(p), Regular(p)
    PROVE  /\ DOMAIN p = 1 .. 7 /\ Len(p) = 7
           /\ Offset(p, 1) = 0 /\ \A k \in 2 .. 8 : Offset(p, k) = k + 1
  <1>1. DOMAIN p = 1 .. 7 /\ Len(p) = 7 /\ \A i \in 1 .. 7 : p[i] \in Wide <=> i = 1
    BY WordDomain DEF Regular
  <1>2. {k \in 1 .. 1 - 1 : p[k] \in Wide} = {}
    OBVIOUS
  <1>3. Offset(p, 1) = 0
    BY <1>2, FS_EmptySet DEF Offset
  <1>4. ASSUME NEW k \in 2 .. 8 PROVE Offset(p, k) = k + 1
    <2>1. {i \in 1 .. k - 1 : p[i] \in Wide} = {1}
      BY <1>1
    <2>2. Cardinality({1}) = 1
      BY FS_Singleton
    <2>3. Offset(p, k) = k - 1 + 2 * Cardinality({i \in 1 .. k - 1 : p[i] \in Wide})
      BY Zenon DEF Offset
    <2>4. Offset(p, k) = k - 1 + 2 * 1
      BY <2>1, <2>2, <2>3
    <2> QED BY <2>4
  <1> QED BY <1>1, <1>3, <1>4

(* A sequence whose first element is replaced.                             *)
WithFirst(s, c) == <<c>> \o SubSeq(s, 2, Len(s))

(* It is as long, and every other element is the same.                     *)
LEMMA NewFirst ==
    ASSUME NEW T, NEW s \in Seq(T), s # <<>>, NEW c \in T
    PROVE  /\ WithFirst(s, c) \in Seq(T) /\ Len(WithFirst(s, c)) = Len(s)
           /\ \A i \in 1 .. Len(s) : WithFirst(s, c)[i] = IF i = 1 THEN c ELSE s[i]
  <1>1. PICK first : first = <<c>> /\ first \in Seq(T) /\ Len(first) = 1 /\ first[1] = c
    <2>1. <<c>> \in Seq(T) /\ Len(<<c>>) = 1 /\ <<c>>[1] = c
      OBVIOUS
    <2> QED BY <2>1
  <1>2. Len(s) \in Nat \ {0} /\ \A i \in 2 .. Len(s) : s[i] \in T
    OBVIOUS
  <1>3. PICK rest : rest = SubSeq(s, 2, Len(s))
    OBVIOUS
  <1>4. /\ rest \in Seq(T) /\ Len(rest) = Len(s) - 1
        /\ \A i \in 1 .. Len(s) - 1 : rest[i] = s[i + 1]
    <2>1. /\ rest \in Seq(T) /\ Len(rest) = IF 2 <= Len(s) THEN Len(s) - 2 + 1 ELSE 0
          /\ \A i \in 1 .. Len(s) - 2 + 1 : rest[i] = s[2 + i - 1]
      BY <1>2, <1>3, SubSeqProperties
    <2>2. /\ Len(s) - 2 + 1 = Len(s) - 1
          /\ (IF 2 <= Len(s) THEN Len(s) - 2 + 1 ELSE 0) = Len(s) - 1
          /\ \A i \in 1 .. Len(s) - 1 : 2 + i - 1 = i + 1
      <3>1. PICK n \in Nat \ {0} : n = Len(s)
        BY <1>2
      <3>2. n - 2 + 1 = n - 1 /\ (IF 2 <= n THEN n - 2 + 1 ELSE 0) = n - 1
        OBVIOUS
      <3>3. \A i \in 1 .. n - 1 : 2 + i - 1 = i + 1
        OBVIOUS
      <3> QED BY <3>1, <3>2, <3>3
    <2>3. Len(rest) = Len(s) - 1
      BY <2>1, <2>2
    <2>4. ASSUME NEW i \in 1 .. Len(s) - 1 PROVE rest[i] = s[i + 1]
      BY <2>1, <2>2
    <2> QED BY <2>1, <2>3, <2>4
  <1>5. /\ first \o rest \in Seq(T) /\ Len(first \o rest) = Len(first) + Len(rest)
        /\ \A i \in 1 .. Len(first) + Len(rest) :
             (first \o rest)[i] = IF i <= Len(first) THEN first[i] ELSE rest[i - Len(first)]
    BY <1>1, <1>4, ConcatProperties
  <1>6. ASSUME NEW i \in 1 .. Len(s)
        PROVE  (first \o rest)[i] = IF i = 1 THEN c ELSE s[i]
    <2>1. CASE i = 1 BY <1>1, <1>2, <1>4, <1>5, <2>1
    <2>2. CASE i # 1
      <3>1. i - 1 \in 1 .. Len(s) - 1 /\ (i - 1) + 1 = i /\ ~(i <= 1)
        BY <1>2, <2>2
      <3> QED BY <1>1, <1>2, <1>4, <1>5, <2>2, <3>1
    <2> QED BY <2>1, <2>2
  <1>7. WithFirst(s, c) = first \o rest
    BY <1>1, <1>3 DEF WithFirst
  <1>8. Len(first \o rest) = Len(s)
    BY <1>1, <1>2, <1>4, <1>5
  <1> QED BY <1>5, <1>6, <1>7, <1>8

(* What follows the province behind a '_' is the plate with its first      *)
(* character blank.                                                        *)
LEMMA ProvinceBlank ==
    ASSUME NEW p, IsWord(p), Regular(p)
    PROVE  WithoutProvince(p) = {Blank(p, 1)}
  <1> DEFINE T == {p[i] : i \in DOMAIN p} \cup {AnyChar}
             q == <<AnyChar>> \o SubSeq(p, 2, 7)
             b == Blank(p, 1)
  <1>1. p \in Seq(T) /\ AnyChar \in T
    BY WordDomain DEF IsWord
  <1>2. /\ DOMAIN p = 1 .. 7 /\ Len(p) = 7
        /\ Offset(p, 1) = 0 /\ \A k \in 2 .. 8 : Offset(p, k) = k + 1
    BY RegularOffsets
  <1>3. {k \in 1 .. Len(p) + 1 : Offset(p, k) = 3} = {2}
    BY <1>2
  <1>4. WithoutProvince(p) = {q}
    BY <1>2, <1>3 DEF WithoutProvince
  <1> HIDE DEF T
  <1>5. /\ q \in Seq(T) /\ Len(q) = 7
        /\ \A i \in 1 .. 7 : q[i] = IF i = 1 THEN AnyChar ELSE p[i]
    <2>1. p # <<>>
      <3>1. Len(p) # 0
        BY <1>2
      <3> QED BY <3>1
    <2>2. Len(p) = 7
      BY <1>2
    <2>3. q = WithFirst(p, AnyChar)
      <3>1. SubSeq(p, 2, Len(p)) = SubSeq(p, 2, 7)
        BY <2>2, Zenon
      <3> QED BY <3>1, Zenon DEF WithFirst
    <2> HIDE DEF q
    <2>4. /\ WithFirst(p, AnyChar) \in Seq(T) /\ Len(WithFirst(p, AnyChar)) = Len(p)
          /\ \A i \in 1 .. Len(p) : WithFirst(p, AnyChar)[i] = IF i = 1 THEN AnyChar ELSE p[i]
      BY <1>1, <2>1, NewFirst
    <2> QED BY <2>2, <2>3, <2>4
  <1>6. /\ b \in Seq(T) /\ Len(b) = 7
        /\ \A i \in 1 .. 7 : b[i] = IF i = 1 THEN AnyChar ELSE p[i]
    BY <1>1, <1>2, ExceptSeq DEF Blank
  <1> HIDE DEF q, b
  <1>7. q = b
    BY <1>5, <1>6, SeqEqual
  <1> QED BY <1>4, <1>7 DEF b

(* The bytes from the third to the eighth are the other six characters, so *)
(* the patterns of a regular plate are the seven with one character blank. *)
LEMMA RegularPatterns ==
    ASSUME NEW p, IsWord(p), Regular(p)
    PROVE  FuzzyPatterns(p) = {Blank(p, k) : k \in 1 .. 7}
  <1>1. /\ DOMAIN p = 1 .. 7 /\ Len(p) = 7
        /\ Offset(p, 1) = 0 /\ \A k \in 2 .. 8 : Offset(p, k) = k + 1
        /\ \A i \in 1 .. 7 : p[i] \in Wide <=> i = 1
    BY RegularOffsets DEF Regular
  <1>2. Bytes(p) = 9
    BY <1>1 DEF Bytes
  <1>3. ASSUME NEW c \in 3 .. 8 PROVE ByteReplaced(p, c) = {Blank(p, c - 1)}
    <2>1. {k \in DOMAIN p : p[k] \notin Wide /\ Offset(p, k) = c} = {c - 1}
      BY <1>1
    <2>2. Bytes(p) # c
      BY <1>2
    <2> QED BY <2>1, <2>2 DEF ByteReplaced
  <1>4. UNION {ByteReplaced(p, c) : c \in 3 .. 8} = {Blank(p, k) : k \in 2 .. 7}
    <2>1. ASSUME NEW k \in 2 .. 7 PROVE k + 1 \in 3 .. 8 /\ (k + 1) - 1 = k
      OBVIOUS
    <2>2. ASSUME NEW c \in 3 .. 8 PROVE c - 1 \in 2 .. 7
      OBVIOUS
    <2>3. ASSUME NEW k \in 2 .. 7 PROVE Blank(p, k) \in ByteReplaced(p, k + 1)
      BY <1>3, <2>1
    <2> QED BY <1>3, <2>1, <2>2, <2>3
  <1>5. 1 .. 7 = {1} \cup 2 .. 7
    OBVIOUS
  <1> QED BY <1>4, <1>5, ProvinceBlank DEF FuzzyPatterns

(* The patterns of a fuzzy query for a regular plate find exactly the      *)
(* plates of seven characters with one other character at most: each of    *)
(* them has the pattern that is blank where they differ.                   *)
THEOREM FuzzyMatchExact == ExitSpec => []FuzzyIsOneCharacter
  <1>1. ExitInv => FuzzyIsOneCharacter
    <2> SUFFICES ASSUME ExitInv, exit.mode = "FuzzyMatch", Regular(exit.plate),
                        NEW i \in DOMAIN exit.table
                 PROVE  (i \in Matching) <=>
                          /\ Len(exit.table[i].plate) = 7
                          /\ Differences(exit.table[i].plate, exit.plate) <= 1
      BY DEF FuzzyIsOneCharacter
    <2> DEFINE p == exit.plate
               w == exit.table[i].plate
               D == {k \in DOMAIN w : w[k] # p[k]}
    <2>1. IsWord(p) /\ IsWord(w) /\ \A k \in DOMAIN p : p[k] # AnyChar
      BY ExitTyped, CustomersAssumption DEF ExitInv, ArgumentsOK
    <2>2. DOMAIN p = 1 .. 7 /\ Len(p) = 7
      BY <2>1, RegularOffsets
    <2>3. Len(w) \in Nat /\ DOMAIN w = 1 .. Len(w)
      BY <2>1, WordDomain
    <2>4. Patterns(p, exit.mode) = {Blank(p, k) : k \in 1 .. 7}
      <3>1. Patterns(p, exit.mode) = FuzzyPatterns(p)
        BY DEF Patterns
      <3> QED BY <3>1, <2>1, RegularPatterns
    <2>5. i \in Matching <=> \E k \in 1 .. 7 : Like(w, Blank(p, k))
      BY <2>4 DEF Matching
    <2>6. \A k \in 1 .. 7 :
            Like(w, Blank(p, k)) <=> Len(w) = 7 /\ \A j \in 1 .. 7 : j = k \/ w[j] = p[j]
      <3> HIDE DEF p, w
      <3>1. ASSUME NEW k \in DOMAIN p
            PROVE  Like(w, Blank(p, k)) <=>
                     Len(w) = Len(p) /\ \A j \in DOMAIN p : j = k \/ w[j] = p[j]
        BY <2>1, LikeBlank
      <3> QED BY <3>1, <2>2
    <2>7. Differences(w, p) = Cardinality(D)
      BY DEF Differences
    <2>8. IsFiniteSet(D)
      <3>1. IsFiniteSet(1 .. Len(w))
        <4>1. 1 \in Int /\ Len(w) \in Int
          BY <2>3
        <4> QED BY <4>1, FS_Interval, Zenon
      <3>2. D \subseteq 1 .. Len(w)
        BY <2>3
      <3> QED BY <3>1, <3>2, FS_Subset
    <2>9. ASSUME NEW k \in 1 .. 7, Like(w, Blank(p, k))
          PROVE  Len(w) = 7 /\ Cardinality(D) <= 1
      <3>1. Len(w) = 7 /\ D \subseteq {k}
        BY <2>3, <2>6, <2>9
      <3>2. IsFiniteSet({k}) /\ Cardinality({k}) = 1
        BY FS_Singleton
      <3>3. Cardinality(D) <= Cardinality({k})
        <4> HIDE DEF D
        <4> QED BY <3>1, <3>2, FS_Subset
      <3> QED BY <3>1, <3>2, <3>3
    <2>10. ASSUME Len(w) = 7, Cardinality(D) <= 1
           PROVE  \E k \in 1 .. 7 : Like(w, Blank(p, k))
      <3>1. Cardinality(D) = 0 \/ Cardinality(D) = 1
        <4>1. Cardinality(D) \in Nat
          BY <2>8, FS_CardinalityType
        <4> QED BY <4>1, <2>10
      <3>2. CASE Cardinality(D) = 0
        <4>1. D = {}
          BY <2>8, <3>2, FS_EmptySet
        <4>2. 1 \in 1 .. 7 /\ \A j \in 1 .. 7 : j = 1 \/ w[j] = p[j]
          BY <4>1, <2>1, <2>3, <2>10
        <4> QED BY <4>2, <2>6, <2>10
      <3>3. CASE Cardinality(D) = 1
        <4>1. PICK k : D = {k}
          <5> HIDE DEF D
          <5> QED BY <2>8, <3>3, FS_Singleton
        <4>2. k \in 1 .. 7 /\ \A j \in 1 .. 7 : j = k \/ w[j] = p[j]
          BY <4>1, <2>3, <2>10
        <4> QED BY <4>2, <2>6, <2>10
      <3> QED BY <3>1, <3>2, <3>3
    <2> QED BY <2>5, <2>7, <2>9, <2>10
  <1> QED BY <1>1, ExitInvariant, PTL

-----------------------------------------------------------------------------
(* The score of two plates.                                                *)

(* A set of numbers that is not empty has a smallest one: the inductions   *)
(* below look at the smallest counterexample.                              *)
LEMMA LeastNumber ==
    ASSUME NEW S, S \subseteq Nat, S # {}
    PROVE  \E i \in S : \A j \in S : i <= j
  <1> DEFINE R == OpToRel(<, Nat)
  <1>1. PICK i \in S : \A j \in S : ~(<<j, i>> \in R)
    BY NatLessThanWellFounded, WFMin
  <1>2. \A j \in S : ~(j < i)
    BY <1>1 DEF OpToRel
  <1>3. i \in Nat /\ \A j \in S : j \in Nat
    OBVIOUS
  <1> QED BY <1>2, <1>3

(* A cell of B on the smallest diagonal.                                   *)
SmallestIn(B, m, n, i, j) ==
    /\ i \in 0 .. m /\ j \in 0 .. n /\ <<i, j>> \in B
    /\ \A k \in 0 .. m, l \in 0 .. n : k + l < i + j => <<k, l>> \notin B

(* Of some cells of a table one is on the smallest diagonal.               *)
LEMMA LeastCell ==
    ASSUME NEW m \in Nat, NEW n \in Nat, NEW B, B \subseteq (0 .. m) \X (0 .. n), B # {}
    PROVE  \E i, j : SmallestIn(B, m, n, i, j)
  <1> DEFINE S == {x[1] + x[2] : x \in B}
  <1>1. \A x \in B : x[1] \in 0 .. m /\ x[2] \in 0 .. n /\ x = <<x[1], x[2]>>
    OBVIOUS
  <1>2. S \subseteq Nat /\ S # {}
    BY <1>1
  <1>3. \A k \in 0 .. m, l \in 0 .. n : <<k, l>> \in B => k + l \in S
    OBVIOUS
  <1>4. PICK v \in S : \A w \in S : v <= w
    <2> HIDE DEF S
    <2> QED BY <1>2, LeastNumber
  <1>5. PICK x \in B : v = x[1] + x[2]
    OBVIOUS
  <1> HIDE DEF S
  <1>6. \A k \in 0 .. m, l \in 0 .. n : k + l < x[1] + x[2] => <<k, l>> \notin B
    BY <1>1, <1>2, <1>3, <1>4, <1>5
  <1> QED BY <1>1, <1>5, <1>6 DEF SmallestIn

LeastOf(l, x, y, z) == l \in {x, y, z} /\ l <= x /\ l <= y /\ l <= z

(* std::min of three numbers.                                              *)
LEMMA MinOfThree ==
    ASSUME NEW x \in Nat, NEW y \in Nat, NEW z \in Nat
    PROVE  LeastOf(Min({x, y, z}), x, y, z)
  <1>1. \E l \in {x, y, z} : \A v \in {x, y, z} : l <= v
    OBVIOUS
  <1>2. Min({x, y, z}) \in {x, y, z} /\ \A v \in {x, y, z} : Min({x, y, z}) <= v
    BY <1>1 DEF Min
  <1> QED BY <1>2 DEF LeastOf

Cells(s, t) == (0 .. Len(s)) \X (0 .. Len(t))

(* What matchscore writes into a cell of the table d for two words in      *)
(* upper case.                                                             *)
CellOf(d, s, t, i, j) ==
    IF i = 0 \/ j = 0 THEN i + j
    ELSE IF s[i] = t[j] THEN d[<<i - 1, j - 1>>]
    ELSE Min({d[<<i - 1, j>>], d[<<i, j - 1>>], d[<<i - 1, j - 1>>]}) + 1

(* The cells up to the diagonal n are computed.                            *)
UpTo(d, s, t, n) ==
    /\ d \in [Cells(s, t) -> Nat]
    /\ \A i \in 0 .. Len(s), j \in 0 .. Len(t) :
         i + j <= n => d[<<i, j>>] = CellOf(d, s, t, i, j)

(* A cell is a number, if the ones before it are.                          *)
LEMMA CellIsNumber ==
    ASSUME NEW s, NEW t, Len(s) \in Nat, Len(t) \in Nat,
           NEW i \in 0 .. Len(s), NEW j \in 0 .. Len(t), NEW d,
           \A k \in 0 .. Len(s), l \in 0 .. Len(t) : k + l < i + j => d[<<k, l>>] \in Nat
    PROVE  CellOf(d, s, t, i, j) \in Nat
  <1>1. CASE i = 0 \/ j = 0
    BY <1>1 DEF CellOf
  <1>2. CASE ~(i = 0 \/ j = 0)
    <2>1. /\ i - 1 \in 0 .. Len(s) /\ j - 1 \in 0 .. Len(t)
          /\ (i - 1) + (j - 1) < i + j /\ (i - 1) + j < i + j /\ i + (j - 1) < i + j
      BY <1>2
    <2> DEFINE x == d[<<i - 1, j>>]
               y == d[<<i, j - 1>>]
               z == d[<<i - 1, j - 1>>]
    <2>2. x \in Nat /\ y \in Nat /\ z \in Nat
      BY <2>1
    <2>3. CellOf(d, s, t, i, j) = IF s[i] = t[j] THEN z ELSE Min({x, y, z}) + 1
      BY <1>2 DEF CellOf
    <2> HIDE DEF x, y, z
    <2>4. Min({x, y, z}) \in Nat
      <3>1. LeastOf(Min({x, y, z}), x, y, z)
        BY <2>2, MinOfThree
      <3>2. Min({x, y, z}) \in {x, y, z}
        BY <3>1 DEF LeastOf
      <3> QED BY <2>2, <3>2
    <2> QED BY <2>2, <2>3, <2>4
  <1> QED BY <1>1, <1>2

(* The next diagonal can be computed.                                      *)
LEMMA NextDiagonal ==
    ASSUME NEW s, NEW t, Len(s) \in Nat, Len(t) \in Nat, NEW n \in Nat,
           NEW e, UpTo(e, s, t, n)
    PROVE  \E d : UpTo(d, s, t, n + 1)
  <1> DEFINE d == [x \in Cells(s, t) |->
                     IF x[1] + x[2] = n + 1 THEN CellOf(e, s, t, x[1], x[2]) ELSE e[x]]
  <1>1. e \in [Cells(s, t) -> Nat]
    BY DEF UpTo
  <1>2. \A x \in Cells(s, t) : x[1] \in 0 .. Len(s) /\ x[2] \in 0 .. Len(t)
    BY DEF Cells
  <1>3. \A i \in 0 .. Len(s), j \in 0 .. Len(t) :
          /\ <<i, j>> \in Cells(s, t)
          /\ d[<<i, j>>] = IF i + j = n + 1 THEN CellOf(e, s, t, i, j) ELSE e[<<i, j>>]
    BY DEF Cells
  <1>4. d \in [Cells(s, t) -> Nat]
    <2>1. \A i \in 0 .. Len(s), j \in 0 .. Len(t) : e[<<i, j>>] \in Nat
      BY <1>1, <1>3
    <2>2. \A i \in 0 .. Len(s), j \in 0 .. Len(t) : CellOf(e, s, t, i, j) \in Nat
      BY <2>1, CellIsNumber
    <2> QED BY <1>1, <1>2, <2>2
  <1> HIDE DEF d
  <1>5. ASSUME NEW i \in 0 .. Len(s), NEW j \in 0 .. Len(t), i + j <= n + 1
        PROVE  CellOf(d, s, t, i, j) = CellOf(e, s, t, i, j)
    <2>1. CASE i = 0 \/ j = 0
      BY <2>1 DEF CellOf
    <2>2. CASE ~(i = 0 \/ j = 0)
      <3>1. /\ i - 1 \in 0 .. Len(s) /\ j - 1 \in 0 .. Len(t)
            /\ (i - 1) + j # n + 1 /\ i + (j - 1) # n + 1 /\ (i - 1) + (j - 1) # n + 1
        BY <1>5, <2>2
      <3>2. /\ d[<<i - 1, j>>] = e[<<i - 1, j>>] /\ d[<<i, j - 1>>] = e[<<i, j - 1>>]
            /\ d[<<i - 1, j - 1>>] = e[<<i - 1, j - 1>>]
        BY <3>1, <1>3
      <3> QED BY <2>2, <3>2 DEF CellOf
    <2> QED BY <2>1, <2>2
  <1>6. ASSUME NEW i \in 0 .. Len(s), NEW j \in 0 .. Len(t), i + j <= n + 1
        PROVE  d[<<i, j>>] = CellOf(d, s, t, i, j)
    <2>1. CASE i + j = n + 1
      BY <2>1, <1>3, <1>5
    <2>2. CASE i + j # n + 1
      <3>1. i + j <= n
        BY <1>6, <2>2
      <3>2. e[<<i, j>>] = CellOf(e, s, t, i, j)
        BY <3>1 DEF UpTo
      <3> QED BY <2>2, <3>2, <1>3, <1>5, <1>6
    <2> QED BY <2>1, <2>2
  <1> QED BY <1>4, <1>6 DEF UpTo

(* The cells of every two words can be computed, diagonal by diagonal.     *)
LEMMA TableExists ==
    ASSUME NEW s, NEW t, Len(s) \in Nat, Len(t) \in Nat, NEW n \in Nat
    PROVE  \E d : UpTo(d, s, t, n)
  <1> DEFINE S == {k \in Nat : ~ \E d : UpTo(d, s, t, k)}
  <1> SUFFICES ASSUME S # {} PROVE FALSE
    OBVIOUS
  <1>1. PICK k \in S : \A l \in S : k <= l
    <2>1. S \subseteq Nat
      OBVIOUS
    <2> HIDE DEF S
    <2> QED BY <2>1, LeastNumber
  <1>2. CASE k = 0
    <2> DEFINE d == [x \in Cells(s, t) |-> 0]
    <2>1. ASSUME NEW i \in 0 .. Len(s), NEW j \in 0 .. Len(t), i + j <= 0
          PROVE  d[<<i, j>>] = CellOf(d, s, t, i, j)
      <3>1. i = 0 /\ j = 0 /\ <<i, j>> \in Cells(s, t)
        BY <2>1 DEF Cells
      <3> QED BY <3>1 DEF CellOf
    <2>2. d \in [Cells(s, t) -> Nat]
      OBVIOUS
    <2> HIDE DEF d
    <2>3. UpTo(d, s, t, 0)
      BY <2>1, <2>2 DEF UpTo
    <2> QED BY <2>3, <1>2
  <1>3. CASE k # 0
    <2>1. k - 1 \in Nat /\ k - 1 \notin S
      BY <1>1, <1>3
    <2>2. PICK e : UpTo(e, s, t, k - 1)
      BY <2>1
    <2>3. \E d : UpTo(d, s, t, (k - 1) + 1)
      BY <2>1, <2>2, NextDiagonal
    <2>4. (k - 1) + 1 = k
      OBVIOUS
    <2> QED BY <2>3, <2>4
  <1> QED BY <1>2, <1>3

(* A plate is a sequence, and so is its upper case.                        *)
LEMMA FoldedIs ==
    ASSUME NEW w \in Words
    PROVE  /\ Len(w) \in Nat /\ DOMAIN w = 1 .. Len(w)
           /\ Folded(w) \in Seq(Chars) /\ Len(Folded(w)) = Len(w)
           /\ \A i \in 1 .. Len(w) : Folded(w)[i] = Fold(w[i])
  <1> DEFINE T == {w[i] : i \in DOMAIN w}
  <1>1. w \in Seq(T)
    BY PlateSearchAssumption DEF IsSequence
  <1>2. DOMAIN w = 1 .. Len(w) /\ Len(w) \in Nat
    <2> HIDE DEF T
    <2> QED BY <1>1
  <1>3. \A i \in DOMAIN w : Fold(w[i]) \in Chars
    BY DEF Chars
  <1>4. Folded(w) \in [1 .. Len(w) -> Chars]
    BY <1>2, <1>3 DEF Folded
  <1>5. Folded(w) \in Seq(Chars) /\ Len(Folded(w)) = Len(w)
    BY <1>4, <1>2
  <1> QED BY <1>2, <1>5 DEF Folded

(* d is the score table of the words a and b.                              *)
IsTable(d, a, b) ==
    /\ d \in [(0 .. Len(a)) \X (0 .. Len(b)) -> Nat]
    /\ \A i \in 0 .. Len(a), j \in 0 .. Len(b) :
         /\ i = 0 \/ j = 0 => d[<<i, j>>] = i + j
         /\ i > 0 /\ j > 0 /\ a[i] = b[j] => d[<<i, j>>] = d[<<i - 1, j - 1>>]
         /\ i > 0 /\ j > 0 /\ a[i] # b[j] =>
              /\ d[<<i, j>>] \in {d[<<i - 1, j>>] + 1, d[<<i, j - 1>>] + 1, d[<<i - 1, j - 1>>] + 1}
              /\ d[<<i, j>>] <= d[<<i - 1, j>>] + 1
              /\ d[<<i, j>>] <= d[<<i, j - 1>>] + 1
              /\ d[<<i, j>>] <= d[<<i - 1, j - 1>>] + 1

(* A function that matchscore computes from itself is the table of the two *)
(* words.                                                                  *)
LEMMA ComputedIsTable ==
    ASSUME NEW a, NEW b, Len(a) \in Nat, Len(b) \in Nat,
           NEW d, UpTo(d, a, b, Len(a) + Len(b))
    PROVE  IsTable(d, a, b)
  <1>2. d \in [(0 .. Len(a)) \X (0 .. Len(b)) -> Nat]
    BY DEF UpTo, Cells
  <1>3. ASSUME NEW i \in 0 .. Len(a), NEW j \in 0 .. Len(b)
        PROVE  /\ i = 0 \/ j = 0 => d[<<i, j>>] = i + j
               /\ i > 0 /\ j > 0 /\ a[i] = b[j] => d[<<i, j>>] = d[<<i - 1, j - 1>>]
               /\ i > 0 /\ j > 0 /\ a[i] # b[j] =>
                    /\ d[<<i, j>>] \in {d[<<i - 1, j>>] + 1, d[<<i, j - 1>>] + 1,
                                        d[<<i - 1, j - 1>>] + 1}
                    /\ d[<<i, j>>] <= d[<<i - 1, j>>] + 1
                    /\ d[<<i, j>>] <= d[<<i, j - 1>>] + 1
                    /\ d[<<i, j>>] <= d[<<i - 1, j - 1>>] + 1
    <2>1. d[<<i, j>>] = CellOf(d, a, b, i, j)
      BY DEF UpTo
    <2>2. CASE i = 0 \/ j = 0
      BY <2>1, <2>2 DEF CellOf
    <2>3. CASE i > 0 /\ j > 0
      <3> DEFINE x == d[<<i - 1, j>>]
                 y == d[<<i, j - 1>>]
                 z == d[<<i - 1, j - 1>>]
      <3>1. x \in Nat /\ y \in Nat /\ z \in Nat
        BY <1>2, <2>3
      <3>2. d[<<i, j>>] = IF a[i] = b[j] THEN z ELSE Min({x, y, z}) + 1
        BY <2>1, <2>3 DEF CellOf
      <3> HIDE DEF x, y, z
      <3>3. /\ Min({x, y, z}) \in {x, y, z}
            /\ Min({x, y, z}) <= x /\ Min({x, y, z}) <= y /\ Min({x, y, z}) <= z
        <4>1. LeastOf(Min({x, y, z}), x, y, z)
          BY <3>1, MinOfThree
        <4> QED BY <4>1 DEF LeastOf
      <3>4. /\ a[i] = b[j] => d[<<i, j>>] = z
            /\ a[i] # b[j] => /\ d[<<i, j>>] \in {x + 1, y + 1, z + 1}
                              /\ d[<<i, j>>] <= x + 1 /\ d[<<i, j>>] <= y + 1
                              /\ d[<<i, j>>] <= z + 1
        BY <3>1, <3>2, <3>3
      <3> QED BY <3>4, <2>3 DEF x, y, z
    <2> QED BY <2>2, <2>3
  <1> QED BY <1>2, <1>3 DEF IsTable

(* Every two words have a score table.                                     *)
LEMMA HasTable ==
    ASSUME NEW a, NEW b, Len(a) \in Nat, Len(b) \in Nat
    PROVE  \E d : IsTable(d, a, b)
  <1>1. Len(a) + Len(b) \in Nat
    OBVIOUS
  <1>2. PICK d : UpTo(d, a, b, Len(a) + Len(b))
    BY <1>1, TableExists
  <1> QED BY <1>2, ComputedIsTable

(* A function that is computed from itself holds numbers only.             *)
LEMMA ComputedIsComplete ==
    ASSUME NEW s, NEW t, Len(s) \in Nat, Len(t) \in Nat, NEW d,
           d = [x \in Cells(s, t) |-> CellOf(d, s, t, x[1], x[2])]
    PROVE  UpTo(d, s, t, Len(s) + Len(t))
  <1> DEFINE B == {x \in (0 .. Len(s)) \X (0 .. Len(t)) : d[x] \notin Nat}
  <1>1. \A i \in 0 .. Len(s), j \in 0 .. Len(t) : d[<<i, j>>] = CellOf(d, s, t, i, j)
    BY DEF Cells
  <1>2. \A i \in 0 .. Len(s), j \in 0 .. Len(t) : <<i, j>> \in B <=> d[<<i, j>>] \notin Nat
    OBVIOUS
  <1>3. \A i \in 0 .. Len(s), j \in 0 .. Len(t) : d[<<i, j>>] \in Nat
    <2> SUFFICES ASSUME B # {} PROVE FALSE
      BY <1>2
    <2>1. B \subseteq (0 .. Len(s)) \X (0 .. Len(t))
      OBVIOUS
    <2> HIDE DEF B
    <2>2. PICK i, j : SmallestIn(B, Len(s), Len(t), i, j)
      BY <2>1, LeastCell
    <2>3. i \in 0 .. Len(s) /\ j \in 0 .. Len(t) /\ d[<<i, j>>] \notin Nat
      BY <1>2, <2>2 DEF SmallestIn
    <2>4. \A k \in 0 .. Len(s), l \in 0 .. Len(t) : k + l < i + j => d[<<k, l>>] \in Nat
      BY <1>2, <2>2 DEF SmallestIn
    <2>5. CellOf(d, s, t, i, j) \in Nat
      BY <2>3, <2>4, CellIsNumber
    <2> QED BY <2>3, <2>5, <1>1
  <1>4. d \in [Cells(s, t) -> Nat]
    <2>1. \A x \in Cells(s, t) : d[x] \in Nat
      BY <1>3 DEF Cells
    <2> QED BY <2>1
  <1> QED BY <1>1, <1>4 DEF UpTo

(* matchscore returns the last cell of the table of the two plates in      *)
(* upper case.                                                             *)
LEMMA MatchscoreIs ==
    ASSUME NEW s \in Words, NEW t \in Words
    PROVE  \E d : /\ IsTable(d, Folded(s), Folded(t))
                  /\ matchscore(s, t) = d[<<Len(Folded(s)), Len(Folded(t))>>]
  <1>1. Len(s) \in Nat /\ Len(t) \in Nat
    BY FoldedIs
  <1> DEFINE Rec(d) == [x \in (0 .. Len(s)) \X (0 .. Len(t)) |->
                          LET i == x[1]
                              j == x[2]
                          IN  IF i = 0 \/ j = 0 THEN i + j
                              ELSE IF Fold(s[i]) = Fold(t[j]) THEN d[<<i - 1, j - 1>>]
                              ELSE Min({d[<<i - 1, j>>], d[<<i, j - 1>>], d[<<i - 1, j - 1>>]}) + 1]
             h == CHOOSE d : d = Rec(d)
  <1>2. matchscore(s, t) = h[<<Len(s), Len(t)>>]
    BY Zenon DEF matchscore
  <1> DEFINE a == Folded(s)
             b == Folded(t)
  <1>3. /\ Len(a) = Len(s) /\ Len(b) = Len(t)
        /\ \A i \in 1 .. Len(s) : a[i] = Fold(s[i])
        /\ \A j \in 1 .. Len(t) : b[j] = Fold(t[j])
    BY FoldedIs
  <1> HIDE DEF a, b
  <1>4. \A d : Rec(d) = [x \in Cells(a, b) |-> CellOf(d, a, b, x[1], x[2])]
    BY <1>1, <1>3 DEF CellOf, Cells
  <1>5. \E d : d = Rec(d)
    <2>1. PICK d : UpTo(d, a, b, Len(a) + Len(b))
      BY <1>1, <1>3, TableExists
    <2>2. \A x \in Cells(a, b) : d[x] = CellOf(d, a, b, x[1], x[2])
      BY <2>1, <1>1, <1>3 DEF UpTo, Cells
    <2>3. d = [x \in Cells(a, b) |-> CellOf(d, a, b, x[1], x[2])]
      BY <2>1, <2>2 DEF UpTo
    <2> HIDE DEF Rec
    <2> QED BY <2>3, <1>4
  <1>6. h = Rec(h)
    <2> HIDE DEF Rec
    <2> QED BY <1>5
  <1>7. h = [x \in Cells(a, b) |-> CellOf(h, a, b, x[1], x[2])]
    <2> HIDE DEF Rec, h
    <2> QED BY <1>4, <1>6
  <1> HIDE DEF h, Rec
  <1>8. IsTable(h, a, b)
    BY <1>1, <1>3, <1>7, ComputedIsComplete, ComputedIsTable
  <1> QED BY <1>2, <1>3, <1>8 DEF a, b

-----------------------------------------------------------------------------
(* How the score changes with the words.                                   *)

NextTo(d, i, j) ==
    /\ j > 0 => d[<<i, j>>] <= d[<<i, j - 1>>] + 1 /\ d[<<i, j - 1>>] <= d[<<i, j>>] + 1
    /\ i > 0 => d[<<i, j>>] <= d[<<i - 1, j>>] + 1 /\ d[<<i - 1, j>>] <= d[<<i, j>>] + 1

(* Two neighbouring cells of a table differ by one at most.                *)
LEMMA Neighbours ==
    ASSUME NEW a, NEW b, Len(a) \in Nat, Len(b) \in Nat, NEW d, IsTable(d, a, b)
    PROVE  \A i \in 0 .. Len(a), j \in 0 .. Len(b) : NextTo(d, i, j)
  <1> DEFINE m == Len(a)
             n == Len(b)
             B == {x \in (0 .. m) \X (0 .. n) : ~NextTo(d, x[1], x[2])}
  <1>1. B \subseteq (0 .. m) \X (0 .. n)
    OBVIOUS
  <1>2. \A i \in 0 .. m, j \in 0 .. n : <<i, j>> \in B <=> ~NextTo(d, i, j)
    OBVIOUS
  <1>3. m \in Nat /\ n \in Nat
    OBVIOUS
  <1> HIDE DEF B
  <1> SUFFICES ASSUME B # {} PROVE FALSE
    BY <1>2
  <1>4. PICK i, j : SmallestIn(B, m, n, i, j)
    <2> HIDE DEF m, n
    <2> QED BY <1>1, <1>3, LeastCell
  <1>5. i \in 0 .. m /\ j \in 0 .. n /\ ~NextTo(d, i, j)
    BY <1>2, <1>4 DEF SmallestIn
  <1>6. \A k \in 0 .. m, l \in 0 .. n : k + l < i + j => NextTo(d, k, l)
    BY <1>2, <1>4 DEF SmallestIn
  <1>7. d \in [(0 .. m) \X (0 .. n) -> Nat]
    BY DEF IsTable
  <1>8. i = 0 \/ j = 0 => NextTo(d, i, j)
    <2>1. \A k \in 0 .. m, l \in 0 .. n : k = 0 \/ l = 0 => d[<<k, l>>] = k + l
      BY DEF IsTable
    <2> QED BY <1>3, <1>5, <2>1 DEF NextTo
  <1>9. ASSUME i > 0, j > 0 PROVE NextTo(d, i, j)
    <2> DEFINE x == d[<<i - 1, j>>]
               y == d[<<i, j - 1>>]
               z == d[<<i - 1, j - 1>>]
               v == d[<<i, j>>]
    <2>1. /\ i - 1 \in 0 .. m /\ j - 1 \in 0 .. n
          /\ (i - 1) + j < i + j /\ i + (j - 1) < i + j
      BY <1>3, <1>5, <1>9
    <2>2. x \in Nat /\ y \in Nat /\ z \in Nat /\ v \in Nat
      BY <1>5, <1>7, <2>1
    <2>3. x <= z + 1 /\ z <= x + 1
      BY <1>5, <1>6, <1>9, <2>1 DEF NextTo
    <2>4. y <= z + 1 /\ z <= y + 1
      BY <1>5, <1>6, <1>9, <2>1 DEF NextTo
    <2>5. \/ v = z
          \/ v \in {x + 1, y + 1, z + 1} /\ v <= x + 1 /\ v <= y + 1 /\ v <= z + 1
      BY <1>5, <1>9 DEF IsTable
    <2> HIDE DEF x, y, z, v
    <2>6. v <= y + 1 /\ y <= v + 1 /\ v <= x + 1 /\ x <= v + 1
      BY <2>2, <2>3, <2>4, <2>5
    <2> QED BY <2>6 DEF NextTo, x, y, z, v
  <1> QED BY <1>3, <1>5, <1>8, <1>9

(* Two words agree up to position c, two tables up to column c.            *)
SameWords(b, w, c) ==
    c \in Nat /\ c <= Len(b) /\ c <= Len(w) /\ \A j \in 1 .. c : b[j] = w[j]
SameColumns(d, e, m, c) == \A i \in 0 .. m, j \in 0 .. c : d[<<i, j>>] = e[<<i, j>>]

(* The scores of the same beginnings of two words are the same.            *)
LEMMA SameBeginning ==
    ASSUME NEW a, NEW b, NEW w, Len(a) \in Nat, Len(b) \in Nat, Len(w) \in Nat,
           NEW d, IsTable(d, a, b), NEW e, IsTable(e, a, w),
           NEW c, SameWords(b, w, c)
    PROVE  SameColumns(d, e, Len(a), c)
  <1> c \in Nat /\ c <= Len(b) /\ c <= Len(w)
    BY DEF SameWords
  <1> DEFINE m == Len(a)
             B == {x \in (0 .. m) \X (0 .. c) : d[x] # e[x]}
  <1>1. B \subseteq (0 .. m) \X (0 .. c)
    OBVIOUS
  <1>2. \A i \in 0 .. m, j \in 0 .. c : <<i, j>> \in B <=> d[<<i, j>>] # e[<<i, j>>]
    OBVIOUS
  <1>3. m \in Nat
    OBVIOUS
  <1> HIDE DEF B
  <1> SUFFICES ASSUME B # {} PROVE FALSE
    BY <1>2 DEF SameColumns
  <1>4. PICK i, j : SmallestIn(B, m, c, i, j)
    <2> HIDE DEF m
    <2> QED BY <1>1, <1>3, LeastCell
  <1>5. i \in 0 .. m /\ j \in 0 .. c /\ d[<<i, j>>] # e[<<i, j>>]
    BY <1>2, <1>4 DEF SmallestIn
  <1>6. \A k \in 0 .. m, l \in 0 .. c : k + l < i + j => d[<<k, l>>] = e[<<k, l>>]
    BY <1>2, <1>4 DEF SmallestIn
  <1>7. j \in 0 .. Len(b) /\ j \in 0 .. Len(w)
    BY <1>5
  <1>8. i > 0 /\ j > 0
    <2>1. i = 0 \/ j = 0 => d[<<i, j>>] = i + j /\ e[<<i, j>>] = i + j
      BY <1>5, <1>7 DEF IsTable
    <2> QED BY <1>3, <1>5, <2>1
  <1> DEFINE x == d[<<i - 1, j>>]
             y == d[<<i, j - 1>>]
             z == d[<<i - 1, j - 1>>]
             v == d[<<i, j>>]
             u == e[<<i, j>>]
  <1>9. /\ i - 1 \in 0 .. m /\ j - 1 \in 0 .. c /\ j - 1 \in 0 .. Len(b)
        /\ (i - 1) + j < i + j /\ i + (j - 1) < i + j /\ (i - 1) + (j - 1) < i + j
    BY <1>3, <1>5, <1>7, <1>8
  <1>10. x = e[<<i - 1, j>>] /\ y = e[<<i, j - 1>>] /\ z = e[<<i - 1, j - 1>>]
    BY <1>5, <1>6, <1>9
  <1>11. x \in Nat /\ y \in Nat /\ z \in Nat
    BY <1>5, <1>7, <1>9 DEF IsTable
  <1>12. b[j] = w[j]
    BY <1>5, <1>8 DEF SameWords
  <1>13. \/ a[i] = b[j] /\ v = z
         \/ a[i] # b[j] /\ v \in {x + 1, y + 1, z + 1} /\ v <= x + 1 /\ v <= y + 1 /\ v <= z + 1
    BY <1>5, <1>7, <1>8 DEF IsTable
  <1>14. \/ a[i] = b[j] /\ u = z
         \/ a[i] # b[j] /\ u \in {x + 1, y + 1, z + 1} /\ u <= x + 1 /\ u <= y + 1 /\ u <= z + 1
    <2> HIDE DEF x, y, z
    <2> QED BY <1>5, <1>7, <1>8, <1>10, <1>12 DEF IsTable
  <1>15. v # u
    BY <1>5
  <1> HIDE DEF x, y, z, u, v
  <1> QED BY <1>11, <1>13, <1>14, <1>15

(* The word u is v up to its position h; from v's position i and u's       *)
(* position f on they are the same again.                                  *)
Aligned(v, u, h, i, f) ==
    /\ i \in 0 .. Len(v) /\ f \in 0 .. Len(u) /\ Len(u) - f = Len(v) - i
    /\ h <= Len(u) /\ \A k \in 1 .. h : v[k] = u[k]
    /\ \A r \in 1 .. (Len(v) - i) : v[i + r] = u[f + r]

(* In column f of e the scores are at most one worse than in column i of d.*)
ColumnNear(d, e, m, i, f) == \A k \in 0 .. m : e[<<k, f>>] <= d[<<k, i>>] + 1

(* Where the rest of two words is the same, the scores of one are at most  *)
(* one worse, if they are where the rest begins.                           *)
LEMMA SameRest ==
    ASSUME NEW a, NEW b, NEW w, Len(a) \in Nat, Len(b) \in Nat, Len(w) \in Nat,
           NEW d, IsTable(d, a, b), NEW e, IsTable(e, a, w),
           NEW h, NEW c, NEW f, Aligned(b, w, h, c, f), ColumnNear(d, e, Len(a), c, f)
    PROVE  ColumnNear(d, e, Len(a), Len(b), Len(w))
  <1> DEFINE m == Len(a)
             n == Len(b) - c
  <1>a. c \in 0 .. Len(b) /\ f \in 0 .. Len(w) /\ n \in Nat /\ n = Len(b) - c /\ n = Len(w) - f
    BY DEF Aligned
  <1>b. \A r \in 1 .. n : b[c + r] = w[f + r]
    BY DEF Aligned
  <1>c. \A i \in 0 .. Len(a) : e[<<i, f>>] <= d[<<i, c>>] + 1
    BY DEF ColumnNear
  <1>d. c + n = Len(b) /\ f + n = Len(w)
    BY <1>a
  <1> HIDE DEF n
  <1> SUFFICES \A i \in 0 .. Len(a), r \in 0 .. n : e[<<i, f + r>>] <= d[<<i, c + r>>] + 1
    <2>1. n \in 0 .. n
      BY <1>a
    <2>2. \A i \in 0 .. Len(a) : e[<<i, f + n>>] <= d[<<i, c + n>>] + 1
      BY <2>1
    <2> QED BY <1>d, <2>2 DEF ColumnNear
  <1> USE <1>a
  <1> DEFINE B == {x \in (0 .. m) \X (0 .. n) : ~(e[<<x[1], f + x[2]>>] <= d[<<x[1], c + x[2]>>] + 1)}
  <1>1. B \subseteq (0 .. m) \X (0 .. n)
    OBVIOUS
  <1>2. \A i \in 0 .. m, r \in 0 .. n :
          <<i, r>> \in B <=> ~(e[<<i, f + r>>] <= d[<<i, c + r>>] + 1)
    OBVIOUS
  <1>3. m \in Nat
    OBVIOUS
  <1> HIDE DEF B
  <1> SUFFICES ASSUME B # {} PROVE FALSE
    BY <1>2
  <1>4. PICK i, r : SmallestIn(B, m, n, i, r)
    <2> HIDE DEF m
    <2> QED BY <1>1, <1>3, LeastCell
  <1>5. i \in 0 .. m /\ r \in 0 .. n /\ ~(e[<<i, f + r>>] <= d[<<i, c + r>>] + 1)
    BY <1>2, <1>4 DEF SmallestIn
  <1>6. \A k \in 0 .. m, l \in 0 .. n :
          k + l < i + r => e[<<k, f + l>>] <= d[<<k, c + l>>] + 1
    BY <1>2, <1>4 DEF SmallestIn
  <1>7. c + r \in 0 .. Len(b) /\ f + r \in 0 .. Len(w)
    BY <1>5
  <1>8. r > 0
    <2> SUFFICES ASSUME r = 0 PROVE FALSE
      BY <1>5
    <2>1. f + r = f /\ c + r = c
      OBVIOUS
    <2> QED BY <1>5, <2>1, <1>c
  <1>9. i > 0
    <2> SUFFICES ASSUME i = 0 PROVE FALSE
      BY <1>5
    <2>1. /\ \A j \in 0 .. Len(w) : e[<<i, j>>] = j
          /\ \A j \in 0 .. Len(b) : d[<<i, j>>] = j
      <3>1. /\ \A k \in 0 .. m, j \in 0 .. Len(w) : k = 0 \/ j = 0 => e[<<k, j>>] = k + j
            /\ \A k \in 0 .. m, j \in 0 .. Len(b) : k = 0 \/ j = 0 => d[<<k, j>>] = k + j
        BY DEF IsTable
      <3> QED BY <1>3, <3>1
    <2>2. f <= c + 1
      BY <1>5, <2>1, <1>c
    <2> QED BY <1>5, <1>7, <2>1, <2>2
  <1> DEFINE x == d[<<i - 1, c + r>>]
             y == d[<<i, (c + r) - 1>>]
             z == d[<<i - 1, (c + r) - 1>>]
             v == d[<<i, c + r>>]
             p == e[<<i - 1, f + r>>]
             q == e[<<i, (f + r) - 1>>]
             s == e[<<i - 1, (f + r) - 1>>]
             u == e[<<i, f + r>>]
  <1>10. /\ i - 1 \in 0 .. m /\ r - 1 \in 0 .. n
         /\ (i - 1) + r < i + r /\ i + (r - 1) < i + r /\ (i - 1) + (r - 1) < i + r
         /\ (c + r) - 1 = c + (r - 1) /\ (f + r) - 1 = f + (r - 1)
         /\ (c + r) - 1 \in 0 .. Len(b) /\ (f + r) - 1 \in 0 .. Len(w)
    BY <1>3, <1>5, <1>7, <1>8, <1>9
  <1>11. p <= x + 1 /\ q <= y + 1 /\ s <= z + 1
    BY <1>5, <1>6, <1>10
  <1>12. x \in Nat /\ y \in Nat /\ z \in Nat /\ v \in Nat
    BY <1>5, <1>7, <1>10 DEF IsTable
  <1>13. p \in Nat /\ q \in Nat /\ s \in Nat /\ u \in Nat
    BY <1>5, <1>7, <1>10 DEF IsTable
  <1>14. b[c + r] = w[f + r]
    BY <1>5, <1>8, <1>b
  <1>15. \/ a[i] = b[c + r] /\ v = z
         \/ a[i] # b[c + r] /\ v \in {x + 1, y + 1, z + 1}
    <2> DEFINE j == c + r
    <2>1. j \in 0 .. Len(b) /\ j > 0
      BY <1>5, <1>7, <1>8
    <2> HIDE DEF j
    <2>2. \/ a[i] = b[j] /\ d[<<i, j>>] = d[<<i - 1, j - 1>>]
          \/ /\ a[i] # b[j]
             /\ d[<<i, j>>] \in {d[<<i - 1, j>>] + 1, d[<<i, j - 1>>] + 1, d[<<i - 1, j - 1>>] + 1}
      BY <1>5, <1>9, <2>1 DEF IsTable
    <2> QED BY <2>2 DEF j
  <1>16. \/ a[i] = w[f + r] /\ u = s
         \/ a[i] # w[f + r] /\ u <= p + 1 /\ u <= q + 1 /\ u <= s + 1
    <2> DEFINE j == f + r
    <2>1. j \in 0 .. Len(w) /\ j > 0
      BY <1>5, <1>7, <1>8
    <2> HIDE DEF j
    <2>2. \/ a[i] = w[j] /\ e[<<i, j>>] = e[<<i - 1, j - 1>>]
          \/ /\ a[i] # w[j]
             /\ e[<<i, j>>] <= e[<<i - 1, j>>] + 1 /\ e[<<i, j>>] <= e[<<i, j - 1>>] + 1
             /\ e[<<i, j>>] <= e[<<i - 1, j - 1>>] + 1
      BY <1>5, <1>9, <2>1 DEF IsTable
    <2> QED BY <2>2 DEF j
  <1>17. ~(u <= v + 1)
    BY <1>5
  <1> HIDE DEF x, y, z, v, p, q, s, u
  <1>18. CASE a[i] = b[c + r]
    <2>1. v = z /\ u = s
      BY <1>14, <1>15, <1>16, <1>18
    <2> QED BY <1>11, <1>12, <1>13, <1>17, <2>1
  <1>19. CASE a[i] # b[c + r]
    <2>1. v \in {x + 1, y + 1, z + 1} /\ u <= p + 1 /\ u <= q + 1 /\ u <= s + 1
      BY <1>14, <1>15, <1>16, <1>19
    <2> QED BY <1>11, <1>12, <1>13, <1>17, <2>1
  <1> QED BY <1>18, <1>19

(* x is the beginning of v of length h, and z is what follows i.           *)
IsFront(x, v, h) == x \in Seq(Chars) /\ Len(x) = h /\ \A k \in 1 .. h : x[k] = v[k]
IsBack(z, v, i) ==
    z \in Seq(Chars) /\ Len(z) = Len(v) - i /\ \A r \in 1 .. (Len(v) - i) : z[r] = v[i + r]

(* u is x and z one after the other, or with the character c between them. *)
IsJoin(u, x, z) ==
    /\ u \in Seq(Chars) /\ Len(u) = Len(x) + Len(z)
    /\ \A k \in 1 .. Len(x) : u[k] = x[k]
    /\ \A r \in 1 .. Len(z) : u[Len(x) + r] = z[r]
IsJoinBy(u, x, c, z) ==
    /\ u \in Seq(Chars) /\ Len(u) = Len(x) + 1 + Len(z)
    /\ \A k \in 1 .. Len(x) : u[k] = x[k]
    /\ u[Len(x) + 1] = c
    /\ \A r \in 1 .. Len(z) : u[Len(x) + 1 + r] = z[r]

(* A word is a front part and the rest.                                    *)
LEMMA Parts ==
    ASSUME NEW v \in Seq(Chars), NEW i \in 0 .. Len(v)
    PROVE  IsFront(Front(v, i), v, i) /\ IsBack(Back(v, i), v, i)
  <1>1. /\ Len(v) \in Nat /\ i \in Nat /\ i <= Len(v)
        /\ \A k \in 1 .. Len(v) : v[k] \in Chars
    OBVIOUS
  <1>2. Front(v, i) \in Seq(Chars) /\ Len(Front(v, i)) = i
    BY <1>1, SubSeqProperties DEF Front
  <1>3. Back(v, i) \in Seq(Chars) /\ Len(Back(v, i)) = Len(v) - i
    BY <1>1, SubSeqProperties DEF Back
  <1>4. \A k \in 1 .. i : Front(v, i)[k] = v[k]
    BY <1>1, SubSeqProperties DEF Front
  <1>5. \A r \in 1 .. (Len(v) - i) : Back(v, i)[r] = v[i + r]
    BY <1>1, SubSeqProperties DEF Back
  <1> QED BY <1>2, <1>3, <1>4, <1>5 DEF IsFront, IsBack

(* Two words one after the other.                                          *)
LEMMA Joined ==
    ASSUME NEW x \in Seq(Chars), NEW z \in Seq(Chars)
    PROVE  IsJoin(x \o z, x, z)
  BY DEF IsJoin

(* Two words with a character between them.                                *)
LEMMA JoinedBy ==
    ASSUME NEW x \in Seq(Chars), NEW c \in Chars, NEW z \in Seq(Chars)
    PROVE  IsJoinBy(x \o <<c>> \o z, x, c, z)
  <1> DEFINE y == x \o <<c>>
             u == y \o z
  <1>1. /\ y \in Seq(Chars) /\ Len(y) = Len(x) + 1
        /\ \A k \in 1 .. Len(x) : y[k] = x[k]
        /\ y[Len(x) + 1] = c
    OBVIOUS
  <1> HIDE DEF y
  <1>2. IsJoin(u, y, z)
    BY <1>1, Joined
  <1> HIDE DEF u
  <1>3. /\ u \in Seq(Chars) /\ Len(u) = Len(y) + Len(z)
        /\ \A k \in 1 .. Len(y) : u[k] = y[k]
        /\ \A r \in 1 .. Len(z) : u[Len(y) + r] = z[r]
    BY <1>2 DEF IsJoin
  <1>4. Len(x) \in Nat /\ Len(x) + 1 \in 1 .. Len(y) /\ \A k \in 1 .. Len(x) : k \in 1 .. Len(y)
    BY <1>1
  <1>5. IsJoinBy(u, x, c, z)
    BY <1>1, <1>3, <1>4 DEF IsJoinBy
  <1> QED BY <1>5 DEF u, y

(* Words put together from the same parts are aligned.                     *)
LEMMA AlignedDelete ==
    ASSUME NEW v, Len(v) \in Nat, NEW u, NEW x, NEW z, NEW i \in 1 .. Len(v),
           IsFront(x, v, i - 1), IsBack(z, v, i), IsJoin(u, x, z)
    PROVE  u \in Seq(Chars) /\ Aligned(v, u, i - 1, i, i - 1)
  <1>1. i \in Nat /\ i - 1 \in Nat
    OBVIOUS
  <1>2. Len(x) = i - 1 /\ Len(z) = Len(v) - i /\ Len(u) = (i - 1) + (Len(v) - i) /\ u \in Seq(Chars)
    BY DEF IsFront, IsBack, IsJoin
  <1>3. \A k \in 1 .. (i - 1) : v[k] = u[k]
    BY <1>2 DEF IsFront, IsJoin
  <1>4. \A r \in 1 .. (Len(v) - i) : v[i + r] = u[(i - 1) + r]
    BY <1>2 DEF IsBack, IsJoin
  <1> QED BY <1>1, <1>2, <1>3, <1>4 DEF Aligned

(* The same for a word with a character between the parts.                 *)
LEMMA AlignedInsert ==
    ASSUME NEW v, Len(v) \in Nat, NEW u, NEW x, NEW c, NEW z,
           NEW h \in 0 .. Len(v), NEW i \in 0 .. Len(v),
           IsFront(x, v, h), IsBack(z, v, i), IsJoinBy(u, x, c, z)
    PROVE  u \in Seq(Chars) /\ Aligned(v, u, h, i, h + 1)
  <1>1. h \in Nat /\ i \in Nat
    OBVIOUS
  <1>2. Len(x) = h /\ Len(z) = Len(v) - i /\ Len(u) = (h + 1) + (Len(v) - i) /\ u \in Seq(Chars)
    BY DEF IsFront, IsBack, IsJoinBy
  <1>3. \A k \in 1 .. h : v[k] = u[k]
    BY <1>2 DEF IsFront, IsJoinBy
  <1>4. \A r \in 1 .. (Len(v) - i) : v[i + r] = u[(h + 1) + r]
    BY <1>2 DEF IsBack, IsJoinBy
  <1> QED BY <1>1, <1>2, <1>3, <1>4 DEF Aligned

(* The three kinds of edits of a word: a character deleted, replaced or    *)
(* inserted.                                                               *)
LEMMA EditIs ==
    ASSUME NEW v \in Seq(Chars), NEW u \in OneEdit(v)
    PROVE  /\ u \in Seq(Chars)
           /\ \/ \E i \in 1 .. Len(v) : Aligned(v, u, i - 1, i, i - 1)
              \/ \E i \in 1 .. Len(v) : Aligned(v, u, i - 1, i, i)
              \/ \E i \in 0 .. Len(v) : Aligned(v, u, i, i, i + 1)
  <1>1. Len(v) \in Nat /\ DOMAIN v = 1 .. Len(v)
    OBVIOUS
  <1>2. ASSUME NEW i \in 1 .. Len(v), u = Front(v, i - 1) \o Back(v, i)
        PROVE  u \in Seq(Chars) /\ Aligned(v, u, i - 1, i, i - 1)
    <2>1. i - 1 \in 0 .. Len(v) /\ i \in 0 .. Len(v)
      BY <1>1
    <2>2. IsFront(Front(v, i - 1), v, i - 1) /\ IsBack(Back(v, i), v, i)
      BY <2>1, Parts
    <2>3. Front(v, i - 1) \in Seq(Chars) /\ Back(v, i) \in Seq(Chars)
      BY <2>2 DEF IsFront, IsBack
    <2>4. IsJoin(u, Front(v, i - 1), Back(v, i))
      BY <1>2, <2>3, Joined
    <2> QED BY <1>1, <2>2, <2>4, AlignedDelete
  <1>3. ASSUME NEW h \in 0 .. Len(v), NEW i \in 0 .. Len(v), NEW c \in Chars,
               u = Front(v, h) \o <<c>> \o Back(v, i)
        PROVE  u \in Seq(Chars) /\ Aligned(v, u, h, i, h + 1)
    <2>1. IsFront(Front(v, h), v, h) /\ IsBack(Back(v, i), v, i)
      BY Parts
    <2>2. Front(v, h) \in Seq(Chars) /\ Back(v, i) \in Seq(Chars)
      BY <2>1 DEF IsFront, IsBack
    <2>3. IsJoinBy(u, Front(v, h), c, Back(v, i))
      BY <1>3, <2>2, JoinedBy
    <2> QED BY <1>1, <2>1, <2>3, AlignedInsert
  <1>4. \/ \E i \in DOMAIN v : u = Deleted(v, i)
        \/ \E i \in DOMAIN v : \E c \in Chars : u = Replaced(v, i, c)
        \/ \E i \in 0 .. Len(v) : \E c \in Chars : u = Inserted(v, i, c)
    BY DEF OneEdit
  <1>5. CASE \E i \in DOMAIN v : u = Deleted(v, i)
    BY <1>1, <1>2, <1>5 DEF Deleted
  <1>6. CASE \E i \in DOMAIN v : \E c \in Chars : u = Replaced(v, i, c)
    <2>1. PICK i \in 1 .. Len(v), c \in Chars : u = Front(v, i - 1) \o <<c>> \o Back(v, i)
      BY <1>1, <1>6 DEF Replaced
    <2>2. i - 1 \in 0 .. Len(v) /\ i \in 0 .. Len(v) /\ (i - 1) + 1 = i
      BY <1>1
    <2>3. u \in Seq(Chars) /\ Aligned(v, u, i - 1, i, (i - 1) + 1)
      BY <1>3, <2>1, <2>2
    <2> QED BY <2>2, <2>3
  <1>7. CASE \E i \in 0 .. Len(v) : \E c \in Chars : u = Inserted(v, i, c)
    BY <1>3, <1>7 DEF Inserted
  <1> QED BY <1>4, <1>5, <1>6, <1>7

(* A deleted character makes a score at most one worse.                    *)
LEMMA DeleteScore ==
    ASSUME NEW a, NEW v, NEW u, Len(a) \in Nat, Len(v) \in Nat, Len(u) \in Nat,
           NEW d, IsTable(d, a, v), NEW e, IsTable(e, a, u),
           NEW i \in 1 .. Len(v), Aligned(v, u, i - 1, i, i - 1)
    PROVE  ColumnNear(d, e, Len(a), i, i - 1)
  <1> DEFINE h == i - 1
  <1>1. h \in Nat /\ h <= Len(v) /\ h <= Len(u) /\ \A j \in 1 .. h : v[j] = u[j]
    BY DEF Aligned
  <1>2. h \in 0 .. h /\ i \in 0 .. Len(v) /\ i > 0
    BY <1>1
  <1> HIDE DEF h
  <1>3. SameColumns(d, e, Len(a), h)
    BY <1>1, SameBeginning DEF SameWords
  <1>4. \A k \in 0 .. Len(a) : NextTo(d, k, i)
    BY <1>2, Neighbours
  <1>5. \A k \in 0 .. Len(a) : d[<<k, i - 1>>] <= d[<<k, i>>] + 1
    BY <1>2, <1>4 DEF NextTo
  <1>6. \A k \in 0 .. Len(a) : d[<<k, h>>] = e[<<k, h>>]
    BY <1>2, <1>3 DEF SameColumns
  <1> QED BY <1>5, <1>6 DEF ColumnNear, h

(* So does an inserted one.                                                *)
LEMMA InsertScore ==
    ASSUME NEW a, NEW v, NEW u, Len(a) \in Nat, Len(v) \in Nat, Len(u) \in Nat,
           NEW d, IsTable(d, a, v), NEW e, IsTable(e, a, u),
           NEW i \in 0 .. Len(v), Aligned(v, u, i, i, i + 1)
    PROVE  ColumnNear(d, e, Len(a), i, i + 1)
  <1>1. i \in Nat /\ i <= Len(v) /\ i <= Len(u) /\ \A j \in 1 .. i : v[j] = u[j]
    BY DEF Aligned
  <1>2. i \in 0 .. i /\ i + 1 \in 0 .. Len(u) /\ i + 1 > 0 /\ (i + 1) - 1 = i
    BY <1>1 DEF Aligned
  <1>3. SameColumns(d, e, Len(a), i)
    BY <1>1, SameBeginning DEF SameWords
  <1>4. \A k \in 0 .. Len(a) : NextTo(e, k, i + 1)
    BY <1>2, Neighbours
  <1>5. \A k \in 0 .. Len(a) : e[<<k, i + 1>>] <= e[<<k, i>>] + 1
    BY <1>2, <1>4 DEF NextTo
  <1>6. \A k \in 0 .. Len(a) : d[<<k, i>>] = e[<<k, i>>]
    BY <1>2, <1>3 DEF SameColumns
  <1> QED BY <1>5, <1>6 DEF ColumnNear

(* And so does a replaced one.                                             *)
LEMMA ReplaceScore ==
    ASSUME NEW a, NEW v, NEW u, Len(a) \in Nat, Len(v) \in Nat, Len(u) \in Nat,
           NEW d, IsTable(d, a, v), NEW e, IsTable(e, a, u),
           NEW i \in 1 .. Len(v), Aligned(v, u, i - 1, i, i)
    PROVE  ColumnNear(d, e, Len(a), i, i)
  <1> DEFINE h == i - 1
             S == {k \in 0 .. Len(a) : ~(e[<<k, i>>] <= d[<<k, i>>] + 1)}
  <1>1. h \in Nat /\ h <= Len(v) /\ h <= Len(u) /\ \A j \in 1 .. h : v[j] = u[j]
    BY DEF Aligned
  <1>2. /\ h \in 0 .. h /\ i \in 0 .. Len(v) /\ i \in 0 .. Len(u) /\ i > 0
        /\ h \in 0 .. Len(v) /\ h \in 0 .. Len(u) /\ i - 1 = h
    BY <1>1 DEF Aligned
  <1> HIDE DEF h
  <1>3. SameColumns(d, e, Len(a), h)
    BY <1>1, SameBeginning DEF SameWords
  <1>4. \A k \in 0 .. Len(a) : d[<<k, h>>] = e[<<k, h>>]
    BY <1>2, <1>3 DEF SameColumns
  <1>5. /\ d \in [(0 .. Len(a)) \X (0 .. Len(v)) -> Nat]
        /\ e \in [(0 .. Len(a)) \X (0 .. Len(u)) -> Nat]
    BY DEF IsTable
  <1> SUFFICES ASSUME S # {} PROVE FALSE
    BY DEF ColumnNear
  <1>6. PICK k \in S : \A l \in S : k <= l
    <2>1. S \subseteq Nat
      OBVIOUS
    <2> HIDE DEF S
    <2> QED BY <2>1, LeastNumber
  <1>7. k \in 0 .. Len(a) /\ ~(e[<<k, i>>] <= d[<<k, i>>] + 1)
    OBVIOUS
  <1>8. CASE k = 0
    <2>1. e[<<k, i>>] = k + i /\ d[<<k, i>>] = k + i
      BY <1>2, <1>7, <1>8 DEF IsTable
    <2> QED BY <1>2, <1>7, <2>1
  <1>9. CASE k > 0
    <2>1. k - 1 \in 0 .. Len(a) /\ k - 1 \notin S
      BY <1>6, <1>7, <1>9
    <2> DEFINE x == d[<<k - 1, i>>]
               y == d[<<k, h>>]
               z == d[<<k - 1, h>>]
               p == d[<<k, i>>]
               q == e[<<k, i>>]
               r == e[<<k - 1, i>>]
    <2>2. /\ x \in Nat /\ y \in Nat /\ z \in Nat /\ p \in Nat /\ q \in Nat /\ r \in Nat
      BY <1>2, <1>5, <1>7, <2>1
    <2>3. r <= x + 1
      BY <2>1
    <2>4. y = e[<<k, h>>] /\ z = e[<<k - 1, h>>]
      BY <1>4, <1>7, <2>1
    <2>5. p = z \/ p \in {x + 1, y + 1, z + 1}
      BY <1>2, <1>7, <1>9 DEF IsTable
    <2>6. q <= e[<<k - 1, h>>] + 1
      <3>1. \/ q = e[<<k - 1, i - 1>>]
            \/ q <= e[<<k - 1, i - 1>>] + 1
        BY <1>2, <1>7, <1>9 DEF IsTable
      <3>2. q = z \/ q <= z + 1
        BY <3>1, <2>4, <1>2
      <3> HIDE DEF x, y, z, p, q, r
      <3> QED BY <3>2, <2>2, <2>4
    <2>7. q <= e[<<k, i - 1>>] + 1 /\ q <= r + 1
      <3>1. NextTo(e, k, i)
        BY <1>2, <1>7, Neighbours
      <3> QED BY <3>1, <1>2, <1>9 DEF NextTo
    <2>8. q <= y + 1 /\ q <= z + 1 /\ q <= r + 1 /\ ~(q <= p + 1)
      BY <1>2, <1>7, <2>4, <2>6, <2>7
    <2> HIDE DEF x, y, z, p, q, r
    <2> QED BY <2>2, <2>3, <2>5, <2>8
  <1> QED BY <1>7, <1>8, <1>9

(* One edit of a word makes its score at most one worse.                   *)
LEMMA EditScore ==
    ASSUME NEW a \in Seq(Chars), NEW v \in Seq(Chars), NEW u \in OneEdit(v),
           NEW d, IsTable(d, a, v), NEW e, IsTable(e, a, u)
    PROVE  /\ u \in Seq(Chars)
           /\ e[<<Len(a), Len(u)>>] <= d[<<Len(a), Len(v)>>] + 1
  <1>1. u \in Seq(Chars)
    BY EditIs
  <1>2. Len(a) \in Nat /\ Len(v) \in Nat /\ Len(u) \in Nat
    BY <1>1
  <1>3. \E h, i, f : Aligned(v, u, h, i, f) /\ ColumnNear(d, e, Len(a), i, f)
    <2>1. CASE \E i \in 1 .. Len(v) : Aligned(v, u, i - 1, i, i - 1)
      BY <1>2, <2>1, DeleteScore
    <2>2. CASE \E i \in 1 .. Len(v) : Aligned(v, u, i - 1, i, i)
      BY <1>2, <2>2, ReplaceScore
    <2>3. CASE \E i \in 0 .. Len(v) : Aligned(v, u, i, i, i + 1)
      BY <1>2, <2>3, InsertScore
    <2> QED BY <2>1, <2>2, <2>3, EditIs
  <1>4. ColumnNear(d, e, Len(a), Len(v), Len(u))
    BY <1>2, <1>3, SameRest
  <1> QED BY <1>1, <1>2, <1>4 DEF ColumnNear

-----------------------------------------------------------------------------
(* The words within a number of edits.                                     *)

(* Ball at k, computed from B at k - 1.                                    *)
BallOf(B, k) ==
    IF k = 0 THEN [w \in FoldedWords |-> {w}]
    ELSE [w \in FoldedWords |-> B[k - 1][w] \cup UNION {OneEdit(v) : v \in B[k - 1][w]}]

BallUpTo(B, n) ==
    /\ B = [k \in 0 .. Near |-> B[k]]
    /\ \A k \in 0 .. Near : k <= n => B[k] = BallOf(B, k)

(* The recursion has a solution.                                           *)
LEMMA BallExists == \E B : BallUpTo(B, Near)
  <1> DEFINE S == {n \in Nat : ~ \E B : BallUpTo(B, n)}
  <1>0. Near \in Nat
    BY PlateSearchAssumption
  <1> SUFFICES ASSUME S # {} PROVE FALSE
    BY <1>0
  <1>1. PICK n \in S : \A l \in S : n <= l
    <2>1. S \subseteq Nat
      OBVIOUS
    <2> HIDE DEF S
    <2> QED BY <2>1, LeastNumber
  <1>2. CASE n = 0
    <2> DEFINE A == [k \in 0 .. Near |-> [w \in FoldedWords |-> {w}]]
    <2>1. BallUpTo(A, 0)
      BY <1>0 DEF BallUpTo, BallOf
    <2> QED BY <1>1, <1>2, <2>1
  <1>3. CASE n # 0
    <2>1. n - 1 \in Nat /\ n - 1 \notin S
      BY <1>1, <1>3
    <2>2. PICK A : BallUpTo(A, n - 1)
      BY <2>1
    <2> DEFINE B == [k \in 0 .. Near |-> IF k = n THEN BallOf(A, k) ELSE A[k]]
    <2>3. ASSUME NEW k \in 0 .. Near, k <= n PROVE BallOf(B, k) = BallOf(A, k)
      <3>1. k # 0 => B[k - 1] = A[k - 1]
        BY <1>0, <2>3
      <3> HIDE DEF B
      <3> QED BY <3>1 DEF BallOf
    <2>4. ASSUME NEW k \in 0 .. Near, k <= n PROVE B[k] = BallOf(B, k)
      <3>1. CASE k = n
        BY <3>1, <2>3, <2>4
      <3>2. CASE k # n
        <4>1. k <= n - 1
          BY <2>4, <3>2, <1>0, <2>1
        <4>2. A[k] = BallOf(A, k)
          BY <4>1, <2>2 DEF BallUpTo
        <4>3. B[k] = A[k]
          BY <3>2
        <4> HIDE DEF B
        <4> QED BY <4>2, <4>3, <2>3, <2>4
      <3> QED BY <3>1, <3>2
    <2>5. B = [k \in 0 .. Near |-> B[k]]
      OBVIOUS
    <2> HIDE DEF B
    <2>6. BallUpTo(B, n)
      BY <2>4, <2>5 DEF BallUpTo
    <2> QED BY <1>1, <2>6
  <1> QED BY <1>2, <1>3

(* What Ball holds.                                                        *)
LEMMA BallIs ==
    ASSUME NEW w \in FoldedWords
    PROVE  /\ Ball[0][w] = {w}
           /\ \A k \in 1 .. Near :
                Ball[k][w] = Ball[k - 1][w] \cup UNION {OneEdit(v) : v \in Ball[k - 1][w]}
  <1> DEFINE Rec(B) == [k \in 0 .. Near |->
                          IF k = 0 THEN [x \in FoldedWords |-> {x}]
                          ELSE [x \in FoldedWords |->
                                  B[k - 1][x] \cup UNION {OneEdit(v) : v \in B[k - 1][x]}]]
  <1>0. Near \in Nat
    BY PlateSearchAssumption
  <1>1. Ball = CHOOSE B : B = Rec(B)
    BY Zenon DEF Ball
  <1>2. \A B : Rec(B) = [k \in 0 .. Near |-> BallOf(B, k)]
    BY DEF BallOf
  <1>3. \E B : B = Rec(B)
    <2>1. PICK B : BallUpTo(B, Near)
      BY BallExists
    <2>2. B = [k \in 0 .. Near |-> B[k]] /\ \A k \in 0 .. Near : B[k] = BallOf(B, k)
      BY <1>0, <2>1 DEF BallUpTo
    <2>3. B = [k \in 0 .. Near |-> BallOf(B, k)]
      BY <2>2
    <2> HIDE DEF Rec
    <2> QED BY <2>3, <1>2
  <1>4. Ball = [k \in 0 .. Near |-> BallOf(Ball, k)]
    <2> HIDE DEF Rec
    <2> QED BY <1>1, <1>2, <1>3
  <1>5. \A k \in 0 .. Near : Ball[k] = BallOf(Ball, k)
    BY <1>4
  <1>6. 0 \in 0 .. Near /\ \A k \in 1 .. Near : k \in 0 .. Near /\ k # 0
    BY <1>0
  <1>7. Ball[0] = [x \in FoldedWords |-> {x}]
    BY <1>5, <1>6 DEF BallOf
  <1>8. \A k \in 1 .. Near :
          Ball[k] = [x \in FoldedWords |->
                       Ball[k - 1][x] \cup UNION {OneEdit(v) : v \in Ball[k - 1][x]}]
    BY <1>5, <1>6 DEF BallOf
  <1>9. \A k \in 1 .. Near :
          Ball[k][w] = Ball[k - 1][w] \cup UNION {OneEdit(v) : v \in Ball[k - 1][w]}
    <2> SUFFICES ASSUME NEW k \in 1 .. Near
                 PROVE  Ball[k][w] = Ball[k - 1][w] \cup UNION {OneEdit(v) : v \in Ball[k - 1][w]}
      OBVIOUS
    <2> DEFINE G(x) == Ball[k - 1][x] \cup UNION {OneEdit(v) : v \in Ball[k - 1][x]}
    <2>1. Ball[k] = [x \in FoldedWords |-> G(x)]
      BY <1>8
    <2>2. Ball[k][w] = G(w)
      <3> HIDE DEF G
      <3> QED BY <2>1
    <2> QED BY <2>2
  <1> QED BY <1>7, <1>9

(* A word scored against itself: nothing to change.                        *)
LEMMA ScoreOfSame ==
    ASSUME NEW w, Len(w) \in Nat, NEW d, IsTable(d, w, w)
    PROVE  d[<<Len(w), Len(w)>>] = 0
  <1> DEFINE S == {i \in 0 .. Len(w) : d[<<i, i>>] # 0}
  <1> SUFFICES ASSUME S # {} PROVE FALSE
    OBVIOUS
  <1>1. PICK i \in S : \A l \in S : i <= l
    <2>1. S \subseteq Nat
      OBVIOUS
    <2> HIDE DEF S
    <2> QED BY <2>1, LeastNumber
  <1>2. i \in 0 .. Len(w) /\ d[<<i, i>>] # 0
    OBVIOUS
  <1>3. CASE i = 0
    <2>1. d[<<i, i>>] = i + i
      BY <1>2, <1>3 DEF IsTable
    <2> QED BY <1>2, <1>3, <2>1
  <1>4. CASE i > 0
    <2>1. d[<<i, i>>] = d[<<i - 1, i - 1>>]
      BY <1>2, <1>4 DEF IsTable
    <2>2. i - 1 \in 0 .. Len(w) /\ i - 1 \notin S
      BY <1>1, <1>2, <1>4
    <2> QED BY <1>2, <2>1, <2>2
  <1> QED BY <1>2, <1>3, <1>4

(* The folded words are words over Chars.                                  *)
LEMMA FoldedWordIs ==
    ASSUME NEW w \in FoldedWords
    PROVE  w \in Seq(Chars)
  BY FoldedIs DEF FoldedWords

(* v is a word whose score against w is k at most.                         *)
Scored(w, v, k) ==
    /\ v \in Seq(Chars)
    /\ \A d : IsTable(d, w, v) => d[<<Len(w), Len(v)>>] <= k

(* A word within k edits has a score of k at most: no sequence of edits is *)
(* shorter than what matchscore counts.                                    *)
LEMMA BallScore ==
    ASSUME NEW w \in FoldedWords, NEW k \in 0 .. Near
    PROVE  \A v \in Ball[k][w] : Scored(w, v, k)
  <1>0. Near \in Nat /\ w \in Seq(Chars) /\ Len(w) \in Nat
    BY PlateSearchAssumption, FoldedWordIs
  <1> DEFINE S == {l \in 0 .. Near : ~ \A v \in Ball[l][w] : Scored(w, v, l)}
  <1> SUFFICES ASSUME S # {} PROVE FALSE
    OBVIOUS
  <1>1. PICK n \in S : \A l \in S : n <= l
    <2>1. S \subseteq Nat
      BY <1>0
    <2> HIDE DEF S
    <2> QED BY <2>1, LeastNumber
  <1>2. n \in 0 .. Near
    OBVIOUS
  <1>3. PICK u \in Ball[n][w] : ~Scored(w, u, n)
    OBVIOUS
  <1>4. CASE n = 0
    <2>1. u = w
      BY <1>3, <1>4, BallIs
    <2>2. \A d : IsTable(d, w, w) => d[<<Len(w), Len(w)>>] = 0
      BY <1>0, ScoreOfSame
    <2> HIDE DEF S
    <2>3. Scored(w, w, 0)
      BY <1>0, <2>2 DEF Scored
    <2> QED BY <1>3, <1>4, <2>1, <2>3
  <1>5. CASE n > 0
    <2>1. n \in 1 .. Near /\ n - 1 \in 0 .. Near /\ n - 1 \notin S
      BY <1>0, <1>1, <1>2, <1>5
    <2>2. \A v \in Ball[n - 1][w] : Scored(w, v, n - 1)
      BY <2>1
    <2> HIDE DEF S
    <2>3. Ball[n][w] = Ball[n - 1][w] \cup UNION {OneEdit(v) : v \in Ball[n - 1][w]}
      BY <2>1, BallIs
    <2>4. CASE u \in Ball[n - 1][w]
      <3>0. Scored(w, u, n - 1)
        BY <2>2, <2>4
      <3>1. u \in Seq(Chars) /\ Len(u) \in Nat
        BY <3>0 DEF Scored
      <3>2. ASSUME NEW d, IsTable(d, w, u) PROVE d[<<Len(w), Len(u)>>] <= n
        <4>1. d[<<Len(w), Len(u)>>] <= n - 1
          BY <3>0, <3>2 DEF Scored
        <4>2. d[<<Len(w), Len(u)>>] \in Nat
          BY <1>0, <3>1, <3>2 DEF IsTable
        <4> QED BY <4>1, <4>2, <1>2
      <3> QED BY <1>3, <3>1, <3>2 DEF Scored
    <2>5. CASE \E v \in Ball[n - 1][w] : u \in OneEdit(v)
      <3>1. PICK v \in Ball[n - 1][w] : u \in OneEdit(v)
        BY <2>5
      <3>2. Scored(w, v, n - 1)
        BY <2>2
      <3>3. v \in Seq(Chars) /\ Len(v) \in Nat
        BY <3>2 DEF Scored
      <3>4. PICK d : IsTable(d, w, v)
        BY <1>0, <3>3, HasTable
      <3>5. d[<<Len(w), Len(v)>>] <= n - 1 /\ d[<<Len(w), Len(v)>>] \in Nat
        <4>1. d[<<Len(w), Len(v)>>] <= n - 1
          BY <3>2, <3>4 DEF Scored
        <4>2. d[<<Len(w), Len(v)>>] \in Nat
          BY <1>0, <3>3, <3>4 DEF IsTable
        <4> QED BY <4>1, <4>2
      <3>6. u \in Seq(Chars) /\ Len(u) \in Nat
        BY <3>1, <3>3, EditIs
      <3>7. ASSUME NEW e, IsTable(e, w, u) PROVE e[<<Len(w), Len(u)>>] <= n
        <4>1. e[<<Len(w), Len(u)>>] <= d[<<Len(w), Len(v)>>] + 1
          BY <1>0, <3>1, <3>3, <3>4, <3>7, EditScore
        <4>2. e[<<Len(w), Len(u)>>] \in Nat
          BY <1>0, <3>6, <3>7 DEF IsTable
        <4> QED BY <4>1, <4>2, <3>5, <1>2
      <3> QED BY <1>3, <3>6, <3>7 DEF Scored
    <2> QED BY <1>3, <2>3, <2>4, <2>5
  <1> QED BY <1>2, <1>4, <1>5

(* What is within k edits is within more.                                  *)
LEMMA BallGrows ==
    ASSUME NEW w \in FoldedWords, NEW k \in 0 .. Near, NEW n \in 0 .. Near, k <= n
    PROVE  Ball[k][w] \subseteq Ball[n][w]
  <1>0. Near \in Nat
    BY PlateSearchAssumption
  <1> DEFINE S == {l \in 0 .. Near : k <= l /\ ~(Ball[k][w] \subseteq Ball[l][w])}
  <1> SUFFICES ASSUME S # {} PROVE FALSE
    OBVIOUS
  <1>1. PICK m \in S : \A l \in S : m <= l
    <2>1. S \subseteq Nat
      BY <1>0
    <2> HIDE DEF S
    <2> QED BY <2>1, LeastNumber
  <1>2. m \in 0 .. Near /\ k <= m /\ ~(Ball[k][w] \subseteq Ball[m][w])
    OBVIOUS
  <1>3. m # k
    BY <1>2
  <1>4. m \in 1 .. Near /\ m - 1 \in 0 .. Near /\ k <= m - 1 /\ m - 1 \notin S
    BY <1>0, <1>1, <1>2, <1>3
  <1>5. Ball[k][w] \subseteq Ball[m - 1][w]
    BY <1>4
  <1>6. Ball[m - 1][w] \subseteq Ball[m][w]
    BY <1>4, BallIs
  <1> QED BY <1>2, <1>5, <1>6

-----------------------------------------------------------------------------
(* The edits behind a score.                                               *)

Cons(c, u) == <<c>> \o u

(* A word with a character before it.                                      *)
LEMMA ConsIs ==
    ASSUME NEW c \in Chars, NEW u \in Seq(Chars)
    PROVE  /\ Cons(c, u) \in Seq(Chars) /\ Len(Cons(c, u)) = Len(u) + 1
           /\ Cons(c, u)[1] = c /\ \A r \in 1 .. Len(u) : Cons(c, u)[r + 1] = u[r]
  <1> DEFINE x == <<c>>
             y == x \o u
  <1>1. x \in Seq(Chars) /\ Len(x) = 1 /\ x[1] = c
    OBVIOUS
  <1>2. IsJoin(y, x, u)
    <2> HIDE DEF x
    <2> QED BY <1>1, Joined
  <1>3. Len(u) \in Nat
    OBVIOUS
  <1> HIDE DEF x, y
  <1>4. y \in Seq(Chars) /\ Len(y) = Len(u) + 1 /\ y[1] = c
    BY <1>1, <1>2, <1>3 DEF IsJoin
  <1>5. \A r \in 1 .. Len(u) : y[1 + r] = u[r]
    BY <1>1, <1>2 DEF IsJoin
  <1>6. \A r \in 1 .. Len(u) : y[r + 1] = u[r]
    BY <1>3, <1>5
  <1>7. y = Cons(c, u)
    BY DEF y, x, Cons
  <1> QED BY <1>4, <1>6, <1>7

(* Two words of the same length and the same characters are the same.      *)
LEMMA SameWord ==
    ASSUME NEW x \in Seq(Chars), NEW y \in Seq(Chars), Len(x) = Len(y),
           \A k \in 1 .. Len(x) : x[k] = y[k]
    PROVE  x = y
  BY SeqEqual

(* The parts of a joined word.                                             *)
LEMMA PartsOfJoin ==
    ASSUME NEW x \in Seq(Chars), NEW z \in Seq(Chars)
    PROVE  /\ x \o z \in Seq(Chars) /\ Len(x) \in 0 .. Len(x \o z)
           /\ Front(x \o z, Len(x)) = x /\ Back(x \o z, Len(x)) = z
  <1> DEFINE y == x \o z
  <1>1. IsJoin(y, x, z)
    BY Joined
  <1> HIDE DEF y
  <1>2. y \in Seq(Chars) /\ Len(y) = Len(x) + Len(z) /\ Len(x) \in Nat /\ Len(z) \in Nat
    BY <1>1 DEF IsJoin
  <1>3. Len(x) \in 0 .. Len(y)
    BY <1>2
  <1>4. IsFront(Front(y, Len(x)), y, Len(x)) /\ IsBack(Back(y, Len(x)), y, Len(x))
    BY <1>2, <1>3, Parts
  <1> DEFINE f == Front(y, Len(x))
             g == Back(y, Len(x))
  <1>5. f = x
    <2>1. f \in Seq(Chars) /\ Len(f) = Len(x) /\ \A k \in 1 .. Len(x) : f[k] = y[k]
      BY <1>4 DEF IsFront
    <2>2. \A k \in 1 .. Len(x) : y[k] = x[k]
      BY <1>1 DEF IsJoin
    <2> HIDE DEF f
    <2> QED BY <2>1, <2>2, SameWord
  <1>6. g = z
    <2>1. Len(y) - Len(x) = Len(z)
      BY <1>2
    <2>2. g \in Seq(Chars) /\ Len(g) = Len(z) /\ \A r \in 1 .. Len(z) : g[r] = y[Len(x) + r]
      BY <1>4, <2>1 DEF IsBack
    <2>3. \A r \in 1 .. Len(z) : y[Len(x) + r] = z[r]
      BY <1>1 DEF IsJoin
    <2> HIDE DEF g
    <2> QED BY <2>2, <2>3, SameWord
  <1> QED BY <1>2, <1>3, <1>5, <1>6 DEF y

(* What follows the character between two words.                           *)
LEMMA BackOfCons ==
    ASSUME NEW x \in Seq(Chars), NEW c \in Chars, NEW u \in Seq(Chars)
    PROVE  /\ Len(x) + 1 \in 1 .. Len(x \o Cons(c, u))
           /\ Back(x \o Cons(c, u), Len(x) + 1) = u
  <1> DEFINE z == Cons(c, u)
             y == x \o z
  <1>1. /\ z \in Seq(Chars) /\ Len(z) = Len(u) + 1
        /\ \A r \in 1 .. Len(u) : z[r + 1] = u[r]
    BY ConsIs
  <1> HIDE DEF z
  <1>2. IsJoin(y, x, z)
    BY <1>1, Joined
  <1> HIDE DEF y
  <1>3. /\ y \in Seq(Chars) /\ Len(y) = Len(x) + Len(z) /\ Len(x) \in Nat /\ Len(u) \in Nat
    BY <1>2 DEF IsJoin
  <1>4. Len(x) + 1 \in 1 .. Len(y) /\ Len(x) + 1 \in 0 .. Len(y) /\ Len(y) - (Len(x) + 1) = Len(u)
    BY <1>1, <1>3
  <1> DEFINE g == Back(y, Len(x) + 1)
  <1>5. IsBack(g, y, Len(x) + 1)
    BY <1>3, <1>4, Parts
  <1> HIDE DEF g
  <1>6. g \in Seq(Chars) /\ Len(g) = Len(u) /\ \A r \in 1 .. Len(u) : g[r] = y[(Len(x) + 1) + r]
    BY <1>4, <1>5 DEF IsBack
  <1>7. \A r \in 1 .. Len(u) : y[Len(x) + (r + 1)] = z[r + 1]
    <2>1. \A r \in 1 .. Len(u) : r + 1 \in 1 .. Len(z)
      BY <1>1, <1>3
    <2> QED BY <2>1, <1>2 DEF IsJoin
  <1>8. \A r \in 1 .. Len(u) : (Len(x) + 1) + r = Len(x) + (r + 1)
    BY <1>3
  <1>9. \A r \in 1 .. Len(u) : g[r] = u[r]
    BY <1>1, <1>6, <1>7, <1>8
  <1>10. g = u
    BY <1>6, <1>9, SameWord
  <1> QED BY <1>4, <1>10 DEF g, y, z

(* A character between two words belongs to the second one.                *)
LEMMA ConsInside ==
    ASSUME NEW x \in Seq(Chars), NEW c \in Chars, NEW u \in Seq(Chars)
    PROVE  x \o <<c>> \o u = x \o Cons(c, u)
  <1> DEFINE y == x \o <<c>> \o u
             z == Cons(c, u)
             v == x \o z
  <1>1. IsJoinBy(y, x, c, u)
    BY JoinedBy
  <1>2. /\ z \in Seq(Chars) /\ Len(z) = Len(u) + 1
        /\ z[1] = c /\ \A r \in 1 .. Len(u) : z[r + 1] = u[r]
    BY ConsIs
  <1> HIDE DEF y, z
  <1>3. IsJoin(v, x, z)
    BY <1>2, Joined
  <1> HIDE DEF v
  <1>4. /\ y \in Seq(Chars) /\ v \in Seq(Chars) /\ Len(x) \in Nat /\ Len(u) \in Nat
        /\ Len(y) = Len(x) + 1 + Len(u) /\ Len(v) = Len(x) + Len(z)
    BY <1>1, <1>3 DEF IsJoin, IsJoinBy
  <1>5. Len(y) = Len(v)
    BY <1>2, <1>4
  <1>6. ASSUME NEW k \in 1 .. Len(y) PROVE y[k] = v[k]
    <2>1. CASE k <= Len(x)
      <3>1. k \in 1 .. Len(x)
        BY <1>4, <2>1
      <3> QED BY <1>1, <1>3, <3>1 DEF IsJoin, IsJoinBy
    <2>2. CASE k = Len(x) + 1
      <3>1. y[k] = c
        BY <1>1, <2>2 DEF IsJoinBy
      <3>2. 1 \in 1 .. Len(z)
        BY <1>2, <1>4
      <3>3. v[k] = z[1]
        BY <1>3, <2>2, <3>2 DEF IsJoin
      <3> QED BY <1>2, <3>1, <3>3
    <2>3. CASE k > Len(x) + 1
      <3> DEFINE r == k - (Len(x) + 1)
      <3>1. /\ r \in 1 .. Len(u) /\ r + 1 \in 1 .. Len(z)
            /\ k = Len(x) + 1 + r /\ k = Len(x) + (r + 1)
        BY <1>2, <1>4, <2>3
      <3> HIDE DEF r
      <3>2. y[Len(x) + 1 + r] = u[r]
        BY <1>1, <3>1 DEF IsJoinBy
      <3>3. v[Len(x) + (r + 1)] = z[r + 1]
        BY <1>3, <3>1 DEF IsJoin
      <3> QED BY <1>2, <3>1, <3>2, <3>3
    <2> QED BY <1>4, <2>1, <2>2, <2>3
  <1>7. y = v
    BY <1>4, <1>5, <1>6, SameWord
  <1> QED BY <1>7 DEF y, v, z

(* The last character of a beginning can be moved to what follows it.      *)
LEMMA MoveLast ==
    ASSUME NEW w \in Seq(Chars), NEW i \in 1 .. Len(w), NEW u \in Seq(Chars)
    PROVE  /\ w[i] \in Chars /\ Front(w, i - 1) \in Seq(Chars)
           /\ Front(w, i) \o u = Front(w, i - 1) \o Cons(w[i], u)
  <1>1. w[i] \in Chars /\ Len(w) \in Nat
    OBVIOUS
  <1>2. i - 1 \in 0 .. Len(w) /\ i \in 0 .. Len(w)
    BY <1>1
  <1> DEFINE x == Front(w, i - 1)
             f == Front(w, i)
             c == w[i]
             y == x \o <<c>>
  <1>3. x \in Seq(Chars) /\ Len(x) = i - 1 /\ \A k \in 1 .. (i - 1) : x[k] = w[k]
    BY <1>2, Parts DEF IsFront
  <1>4. f \in Seq(Chars) /\ Len(f) = i /\ \A k \in 1 .. i : f[k] = w[k]
    BY <1>2, Parts DEF IsFront
  <1>5. c \in Chars
    BY <1>1
  <1> HIDE DEF x, f, c
  <1>6. /\ y \in Seq(Chars) /\ Len(y) = Len(x) + 1
        /\ \A k \in 1 .. Len(x) : y[k] = x[k]
        /\ y[Len(x) + 1] = c
    <2>1. x \in Seq(Chars)
      BY <1>3
    <2> QED BY <2>1, <1>5
  <1> HIDE DEF y
  <1>7. Len(y) = Len(f)
    BY <1>2, <1>3, <1>4, <1>6
  <1>8. ASSUME NEW k \in 1 .. Len(y) PROVE y[k] = f[k]
    <2>1. CASE k = i
      <3>1. k = Len(x) + 1
        BY <1>2, <1>3, <2>1
      <3> QED BY <1>4, <1>6, <2>1, <3>1 DEF c
    <2>2. CASE k # i
      <3>1. k \in 1 .. (i - 1) /\ k \in 1 .. i
        BY <1>2, <1>3, <1>6, <2>2
      <3> QED BY <1>3, <1>4, <1>6, <3>1
    <2> QED BY <2>1, <2>2
  <1>9. y = f
    BY <1>4, <1>6, <1>7, <1>8, SameWord
  <1>10. y \o u = x \o Cons(c, u)
    BY <1>3, <1>5, ConsInside DEF y
  <1> QED BY <1>1, <1>3, <1>9, <1>10 DEF f, x, c

(* The three edits at a place inside a word.                               *)
LEMMA EditInside ==
    ASSUME NEW x \in Seq(Chars), NEW u \in Seq(Chars), NEW c \in Chars, NEW e \in Chars
    PROVE  /\ x \o u \in OneEdit(x \o Cons(c, u))
           /\ x \o Cons(e, u) \in OneEdit(x \o Cons(c, u))
           /\ x \o Cons(e, u) \in OneEdit(x \o u)
  <1> DEFINE z == Cons(c, u)
             y == x \o z
             v == x \o u
             n == Len(x)
  <1>1. z \in Seq(Chars)
    BY ConsIs
  <1>2. n \in Nat /\ (n + 1) - 1 = n
    OBVIOUS
  <1>3. /\ y \in Seq(Chars) /\ Front(y, n) = x
    BY <1>1, PartsOfJoin
  <1>4. n + 1 \in 1 .. Len(y) /\ Back(y, n + 1) = u
    BY BackOfCons
  <1>5. v \in Seq(Chars) /\ n \in 0 .. Len(v) /\ Front(v, n) = x /\ Back(v, n) = u
    BY PartsOfJoin
  <1>6. x \o <<e>> \o u = x \o Cons(e, u)
    BY ConsInside
  <1> HIDE DEF z, y, n
  <1>7. n + 1 \in DOMAIN y
    BY <1>3, <1>4
  <1>8. Deleted(y, n + 1) = v
    BY <1>2, <1>3, <1>4 DEF Deleted
  <1>9. Replaced(y, n + 1, e) = x \o Cons(e, u)
    BY <1>2, <1>3, <1>4, <1>6 DEF Replaced
  <1> HIDE DEF v
  <1>10. Inserted(v, n, e) = x \o Cons(e, u)
    BY <1>5, <1>6 DEF Inserted
  <1> DEFINE s == x \o Cons(e, u)
  <1> HIDE DEF s
  <1>11. v \in OneEdit(y)
    BY <1>7, <1>8 DEF OneEdit
  <1>12. s \in OneEdit(y)
    <2>1. Replaced(y, n + 1, e) = s
      BY <1>9 DEF s
    <2> QED BY <1>7, <2>1 DEF OneEdit
  <1>13. s \in OneEdit(v)
    <2>1. Inserted(v, n, e) = s
      BY <1>10 DEF s
    <2> QED BY <1>5, <2>1 DEF OneEdit
  <1> QED BY <1>11, <1>12, <1>13 DEF s, v, y, z

(* One edit more.                                                          *)
LEMMA BallStep ==
    ASSUME NEW w \in FoldedWords, NEW k \in Nat, k + 1 <= Near,
           NEW v \in Ball[k][w], NEW u \in OneEdit(v)
    PROVE  u \in Ball[k + 1][w]
  <1>1. k + 1 \in 1 .. Near /\ (k + 1) - 1 = k
    BY PlateSearchAssumption
  <1>2. Ball[k + 1][w] = Ball[k][w] \cup UNION {OneEdit(x) : x \in Ball[k][w]}
    BY <1>1, BallIs
  <1> QED BY <1>2

(* Where the beginning of w at i is within k edits, the beginning of q at  *)
(* j is within as many more as the cell says.                              *)
Reaches(w, q, d, i, j) ==
    \A u \in Seq(Chars), k \in Nat :
      k + d[<<i, j>>] <= Near /\ Front(w, i) \o u \in Ball[k][w] =>
        Front(q, j) \o u \in Ball[k + d[<<i, j>>]][w]

(* A character of w deleted.                                               *)
LEMMA ReachDelete ==
    ASSUME NEW w \in FoldedWords, NEW q \in Seq(Chars), NEW d,
           NEW i \in 1 .. Len(w), NEW j \in 0 .. Len(q), d[<<i - 1, j>>] \in Nat,
           d[<<i, j>>] = d[<<i - 1, j>>] + 1, Reaches(w, q, d, i - 1, j)
    PROVE  Reaches(w, q, d, i, j)
  <1> DEFINE p == d[<<i - 1, j>>]
             n == d[<<i, j>>]
  <1>1. p \in Nat /\ n = p + 1
    OBVIOUS
  <1> SUFFICES ASSUME NEW u \in Seq(Chars), NEW k \in Nat, k + n <= Near,
                      Front(w, i) \o u \in Ball[k][w]
               PROVE  Front(q, j) \o u \in Ball[k + n][w]
    BY DEF Reaches
  <1>2. \A v \in Seq(Chars), l \in Nat :
          l + p <= Near /\ Front(w, i - 1) \o v \in Ball[l][w] => Front(q, j) \o v \in Ball[l + p][w]
    BY DEF Reaches
  <1> HIDE DEF p, n
  <1>3. w \in Seq(Chars) /\ Near \in Nat
    BY FoldedWordIs, PlateSearchAssumption
  <1>4. k + 1 <= Near /\ (k + 1) + p = k + n /\ k + 1 \in Nat
    BY <1>1, <1>3
  <1>5. /\ w[i] \in Chars /\ Front(w, i - 1) \in Seq(Chars)
        /\ Front(w, i) \o u = Front(w, i - 1) \o Cons(w[i], u)
    BY <1>3, MoveLast
  <1>6. Front(w, i - 1) \o u \in OneEdit(Front(w, i) \o u)
    BY <1>5, EditInside
  <1>7. Front(w, i - 1) \o u \in Ball[k + 1][w]
    BY <1>4, <1>6, BallStep
  <1> QED BY <1>2, <1>4, <1>7

(* A character of q inserted.                                              *)
LEMMA ReachInsert ==
    ASSUME NEW w \in FoldedWords, NEW q \in Seq(Chars), NEW d,
           NEW i \in 0 .. Len(w), NEW j \in 1 .. Len(q), d[<<i, j - 1>>] \in Nat,
           d[<<i, j>>] = d[<<i, j - 1>>] + 1, Reaches(w, q, d, i, j - 1)
    PROVE  Reaches(w, q, d, i, j)
  <1> DEFINE p == d[<<i, j - 1>>]
             n == d[<<i, j>>]
  <1>1. p \in Nat /\ n = p + 1
    OBVIOUS
  <1> SUFFICES ASSUME NEW u \in Seq(Chars), NEW k \in Nat, k + n <= Near,
                      Front(w, i) \o u \in Ball[k][w]
               PROVE  Front(q, j) \o u \in Ball[k + n][w]
    BY DEF Reaches
  <1>2. \A v \in Seq(Chars), l \in Nat :
          l + p <= Near /\ Front(w, i) \o v \in Ball[l][w] => Front(q, j - 1) \o v \in Ball[l + p][w]
    BY DEF Reaches
  <1> HIDE DEF p, n
  <1>3. w \in Seq(Chars) /\ Near \in Nat
    BY FoldedWordIs, PlateSearchAssumption
  <1>4. k + 1 <= Near /\ (k + 1) + p = k + n /\ k + 1 \in Nat
    BY <1>1, <1>3
  <1>5. /\ q[j] \in Chars
        /\ Front(q, j) \o u = Front(q, j - 1) \o Cons(q[j], u)
    BY MoveLast
  <1>6. Front(w, i) \in Seq(Chars)
    BY <1>3, Parts DEF IsFront
  <1>7. Front(w, i) \o Cons(q[j], u) \in OneEdit(Front(w, i) \o u)
    BY <1>5, <1>6, EditInside
  <1>8. Front(w, i) \o Cons(q[j], u) \in Ball[k + 1][w]
    BY <1>4, <1>7, BallStep
  <1>9. Cons(q[j], u) \in Seq(Chars)
    BY <1>5, ConsIs
  <1> QED BY <1>2, <1>4, <1>5, <1>8, <1>9

(* A character of w replaced by one of q.                                  *)
LEMMA ReachReplace ==
    ASSUME NEW w \in FoldedWords, NEW q \in Seq(Chars), NEW d,
           NEW i \in 1 .. Len(w), NEW j \in 1 .. Len(q), d[<<i - 1, j - 1>>] \in Nat,
           d[<<i, j>>] = d[<<i - 1, j - 1>>] + 1, Reaches(w, q, d, i - 1, j - 1)
    PROVE  Reaches(w, q, d, i, j)
  <1> DEFINE p == d[<<i - 1, j - 1>>]
             n == d[<<i, j>>]
  <1>1. p \in Nat /\ n = p + 1
    OBVIOUS
  <1> SUFFICES ASSUME NEW u \in Seq(Chars), NEW k \in Nat, k + n <= Near,
                      Front(w, i) \o u \in Ball[k][w]
               PROVE  Front(q, j) \o u \in Ball[k + n][w]
    BY DEF Reaches
  <1>2. \A v \in Seq(Chars), l \in Nat :
          l + p <= Near /\ Front(w, i - 1) \o v \in Ball[l][w] => Front(q, j - 1) \o v \in Ball[l + p][w]
    BY DEF Reaches
  <1> HIDE DEF p, n
  <1>3. w \in Seq(Chars) /\ Near \in Nat
    BY FoldedWordIs, PlateSearchAssumption
  <1>4. k + 1 <= Near /\ (k + 1) + p = k + n /\ k + 1 \in Nat
    BY <1>1, <1>3
  <1>5. /\ q[j] \in Chars
        /\ Front(q, j) \o u = Front(q, j - 1) \o Cons(q[j], u)
    BY MoveLast
  <1>6. /\ w[i] \in Chars /\ Front(w, i - 1) \in Seq(Chars)
        /\ Front(w, i) \o u = Front(w, i - 1) \o Cons(w[i], u)
    BY <1>3, MoveLast
  <1>7. Front(w, i - 1) \o Cons(q[j], u) \in OneEdit(Front(w, i) \o u)
    BY <1>5, <1>6, EditInside
  <1>8. Front(w, i - 1) \o Cons(q[j], u) \in Ball[k + 1][w]
    BY <1>4, <1>7, BallStep
  <1>9. Cons(q[j], u) \in Seq(Chars)
    BY <1>5, ConsIs
  <1> QED BY <1>2, <1>4, <1>5, <1>8, <1>9

(* The same character in both.                                             *)
LEMMA ReachMatch ==
    ASSUME NEW w \in FoldedWords, NEW q \in Seq(Chars), NEW d,
           NEW i \in 1 .. Len(w), NEW j \in 1 .. Len(q), d[<<i - 1, j - 1>>] \in Nat,
           w[i] = q[j], d[<<i, j>>] = d[<<i - 1, j - 1>>], Reaches(w, q, d, i - 1, j - 1)
    PROVE  Reaches(w, q, d, i, j)
  <1> DEFINE n == d[<<i, j>>]
  <1> SUFFICES ASSUME NEW u \in Seq(Chars), NEW k \in Nat, k + n <= Near,
                      Front(w, i) \o u \in Ball[k][w]
               PROVE  Front(q, j) \o u \in Ball[k + n][w]
    BY DEF Reaches
  <1>1. \A v \in Seq(Chars), l \in Nat :
          l + n <= Near /\ Front(w, i - 1) \o v \in Ball[l][w] => Front(q, j - 1) \o v \in Ball[l + n][w]
    BY DEF Reaches
  <1> HIDE DEF n
  <1>2. w \in Seq(Chars)
    BY FoldedWordIs
  <1>3. q[j] \in Chars /\ Front(q, j) \o u = Front(q, j - 1) \o Cons(q[j], u)
    BY MoveLast
  <1>4. Front(w, i) \o u = Front(w, i - 1) \o Cons(q[j], u)
    <2>1. Front(w, i) \o u = Front(w, i - 1) \o Cons(w[i], u)
      BY <1>2, MoveLast
    <2> QED BY <2>1
  <1>5. Cons(q[j], u) \in Seq(Chars)
    BY <1>3, ConsIs
  <1> QED BY <1>1, <1>3, <1>4, <1>5

(* Every cell of the table of w and q is reached by so many edits.         *)
LEMMA ScoreReaches ==
    ASSUME NEW w \in FoldedWords, NEW q \in Seq(Chars), NEW d, IsTable(d, w, q)
    PROVE  \A i \in 0 .. Len(w), j \in 0 .. Len(q) : Reaches(w, q, d, i, j)
  <1> DEFINE m == Len(w)
             n == Len(q)
             B == {x \in (0 .. m) \X (0 .. n) : ~Reaches(w, q, d, x[1], x[2])}
  <1>1. B \subseteq (0 .. m) \X (0 .. n)
    OBVIOUS
  <1>2. \A i \in 0 .. m, j \in 0 .. n : <<i, j>> \in B <=> ~Reaches(w, q, d, i, j)
    OBVIOUS
  <1>3. w \in Seq(Chars) /\ m \in Nat /\ n \in Nat
    BY FoldedWordIs
  <1> HIDE DEF B
  <1> SUFFICES ASSUME B # {} PROVE FALSE
    BY <1>2
  <1>4. PICK i, j : SmallestIn(B, m, n, i, j)
    <2> HIDE DEF m, n
    <2> QED BY <1>1, <1>3, LeastCell
  <1>5. i \in 0 .. m /\ j \in 0 .. n /\ ~Reaches(w, q, d, i, j)
    BY <1>2, <1>4 DEF SmallestIn
  <1>6. \A k \in 0 .. m, l \in 0 .. n : k + l < i + j => Reaches(w, q, d, k, l)
    BY <1>2, <1>4 DEF SmallestIn
  <1>7. \A k \in 0 .. m, l \in 0 .. n : d[<<k, l>>] \in Nat
    BY DEF IsTable
  <1>8. \A k \in 0 .. m, l \in 0 .. n : k = 0 \/ l = 0 => d[<<k, l>>] = k + l
    BY DEF IsTable
  <1>9. CASE i = 0 /\ j = 0
    <2>1. d[<<i, j>>] = 0
      BY <1>3, <1>8, <1>9
    <2>2. Front(w, 0) = Front(q, 0)
      <3>1. 0 \in 0 .. m /\ 0 \in 0 .. n
        BY <1>3
      <3>2. /\ Front(w, 0) \in Seq(Chars) /\ Front(q, 0) \in Seq(Chars)
            /\ Len(Front(w, 0)) = 0 /\ Len(Front(q, 0)) = 0
        BY <3>1, <1>3, Parts DEF IsFront
      <3> QED BY <3>2
    <2>3. \A k \in Nat : k + 0 = k
      OBVIOUS
    <2> QED BY <1>5, <1>9, <2>1, <2>2, <2>3 DEF Reaches
  <1>10. CASE i > 0 /\ j = 0
    <2>1. i \in 1 .. m /\ i - 1 \in 0 .. m /\ (i - 1) + j < i + j
      BY <1>3, <1>5, <1>10
    <2>2. d[<<i, j>>] = d[<<i - 1, j>>] + 1 /\ d[<<i - 1, j>>] \in Nat
      BY <1>3, <1>5, <1>8, <1>10, <2>1
    <2>3. Reaches(w, q, d, i - 1, j)
      BY <1>5, <1>6, <2>1
    <2> QED BY <1>5, <2>1, <2>2, <2>3, ReachDelete
  <1>11. CASE i = 0 /\ j > 0
    <2>1. j \in 1 .. n /\ j - 1 \in 0 .. n /\ i + (j - 1) < i + j
      BY <1>3, <1>5, <1>11
    <2>2. d[<<i, j>>] = d[<<i, j - 1>>] + 1 /\ d[<<i, j - 1>>] \in Nat
      BY <1>3, <1>5, <1>8, <1>11, <2>1
    <2>3. Reaches(w, q, d, i, j - 1)
      BY <1>5, <1>6, <2>1
    <2> QED BY <1>5, <2>1, <2>2, <2>3, ReachInsert
  <1>12. CASE i > 0 /\ j > 0
    <2>1. /\ i \in 1 .. m /\ i - 1 \in 0 .. m /\ j \in 1 .. n /\ j - 1 \in 0 .. n
          /\ (i - 1) + j < i + j /\ i + (j - 1) < i + j /\ (i - 1) + (j - 1) < i + j
      BY <1>3, <1>5, <1>12
    <2>2. /\ Reaches(w, q, d, i - 1, j) /\ Reaches(w, q, d, i, j - 1)
          /\ Reaches(w, q, d, i - 1, j - 1)
      BY <1>5, <1>6, <2>1
    <2>3. /\ d[<<i - 1, j>>] \in Nat /\ d[<<i, j - 1>>] \in Nat /\ d[<<i - 1, j - 1>>] \in Nat
      BY <1>5, <1>7, <2>1
    <2>4. \/ w[i] = q[j] /\ d[<<i, j>>] = d[<<i - 1, j - 1>>]
          \/ d[<<i, j>>] = d[<<i - 1, j>>] + 1
          \/ d[<<i, j>>] = d[<<i, j - 1>>] + 1
          \/ d[<<i, j>>] = d[<<i - 1, j - 1>>] + 1
      BY <1>5, <1>12 DEF IsTable
    <2>5. CASE w[i] = q[j] /\ d[<<i, j>>] = d[<<i - 1, j - 1>>]
      BY <1>5, <2>1, <2>2, <2>3, <2>5, ReachMatch
    <2>6. CASE d[<<i, j>>] = d[<<i - 1, j>>] + 1
      BY <1>5, <2>1, <2>2, <2>3, <2>6, ReachDelete
    <2>7. CASE d[<<i, j>>] = d[<<i, j - 1>>] + 1
      BY <1>5, <2>1, <2>2, <2>3, <2>7, ReachInsert
    <2>8. CASE d[<<i, j>>] = d[<<i - 1, j - 1>>] + 1
      BY <1>5, <2>1, <2>2, <2>3, <2>8, ReachReplace
    <2> QED BY <2>4, <2>5, <2>6, <2>7, <2>8
  <1> QED BY <1>3, <1>5, <1>9, <1>10, <1>11, <1>12

(* matchscore counts the fewest edits: two plates are at most k edits      *)
(* apart, whatever the case of their letters, exactly if their score is k  *)
(* at most.                                                                *)
THEOREM ScoreCountsEdits ==
    ASSUME NEW p \in Words, NEW q \in Words, NEW k \in 0 .. Near
    PROVE  matchscore(p, q) \in Nat /\ (matchscore(p, q) <= k <=> EditsApart(p, q, k))
  <1> DEFINE w == Folded(p)
             v == Folded(q)
  <1>1. w \in FoldedWords /\ w \in Seq(Chars) /\ v \in Seq(Chars)
    BY FoldedIs DEF FoldedWords
  <1>2. PICK d : IsTable(d, w, v) /\ matchscore(p, q) = d[<<Len(w), Len(v)>>]
    BY MatchscoreIs
  <1>3. EditsApart(p, q, k) <=> v \in Ball[k][w]
    BY DEF EditsApart
  <1> HIDE DEF w, v
  <1>4. Near \in Nat /\ k \in Nat /\ Len(w) \in Nat /\ Len(v) \in Nat
    BY <1>1, PlateSearchAssumption
  <1> DEFINE n == d[<<Len(w), Len(v)>>]
  <1>5. n \in Nat
    BY <1>2, <1>4 DEF IsTable
  <1>6. ASSUME v \in Ball[k][w] PROVE n <= k
    BY <1>1, <1>2, <1>6, BallScore DEF Scored
  <1>7. ASSUME n <= k PROVE v \in Ball[k][w]
    <2>1. Reaches(w, v, d, Len(w), Len(v))
      BY <1>1, <1>2, <1>4, ScoreReaches
    <2>2. <<>> \in Seq(Chars) /\ Front(w, Len(w)) \o <<>> = w /\ Front(v, Len(v)) \o <<>> = v
      <3>1. \A x \in Seq(Chars) : Front(x, Len(x)) = x
        BY DEF Front
      <3>2. \A x \in Seq(Chars) : x \o <<>> = x
        OBVIOUS
      <3> QED BY <1>1, <3>1, <3>2
    <2>3. w \in Ball[0][w]
      BY <1>1, BallIs
    <2>4. v \in Ball[0 + n][w]
      <3>1. 0 \in Nat /\ 0 + n <= Near
        BY <1>4, <1>5, <1>7
      <3> QED BY <2>1, <2>2, <2>3, <3>1 DEF Reaches
    <2>5. v \in Ball[n][w]
      BY <2>4, <1>5
    <2> QED BY <1>1, <1>4, <1>5, <1>7, <2>5, BallGrows
  <1> QED BY <1>2, <1>3, <1>5, <1>6, <1>7

-----------------------------------------------------------------------------
(* The lists of a search.                                                  *)

(* The members of P that do not come after i when P is ordered by key, and *)
(* by position where the keys are equal.                                   *)
NotAfter(P, key, i) == {j \in P : key[j] < key[i] \/ (key[j] = key[i] /\ j <= i)}

Arrangement(P, key) ==
    [k \in 1 .. Cardinality(P) |-> CHOOSE i \in P : Cardinality(NotAfter(P, key, i)) = k]

Sorts(P, key) == P \in SUBSET Nat /\ IsFiniteSet(P) /\ key \in [P -> Int]

(* p lists P, each member once, in the order of key; equal ones keep their *)
(* order.                                                                  *)
Arranges(p, P, key) ==
    /\ p \in Bijection(1 .. Cardinality(P), P)
    /\ \A k, l \in 1 .. Cardinality(P) :
         k < l => \/ key[p[k]] < key[p[l]]
                  \/ key[p[k]] = key[p[l]] /\ p[k] < p[l]

(* The ranks of the members of P are the numbers up to its size, and a     *)
(* member that comes later has a higher one: list::sort of the search.     *)
LEMMA Arranged ==
    ASSUME NEW P, NEW key, Sorts(P, key)
    PROVE  Arranges(Arrangement(P, key), P, key)
  <1> DEFINE U(i) == NotAfter(P, key, i)
             n == Cardinality(P)
             rank == [i \in P |-> Cardinality(U(i))]
             p == Arrangement(P, key)
             Less(i, j) == key[i] < key[j] \/ (key[i] = key[j] /\ i < j)
  <1>1. P \in SUBSET Nat /\ IsFiniteSet(P) /\ key \in [P -> Int]
    BY DEF Sorts
  <1>2. n \in Nat
    BY <1>1, FS_CardinalityType
  <1>3. \A i \in P : U(i) \in SUBSET P /\ i \in U(i)
    BY <1>1 DEF NotAfter
  <1>4. \A i \in P : IsFiniteSet(U(i)) /\ Cardinality(U(i)) \in Nat /\ Cardinality(U(i)) <= n
    <2> HIDE DEF U
    <2> QED BY <1>1, <1>3, FS_Subset, FS_CardinalityType
  <1>5. \A i \in P : Cardinality(U(i)) # 0
    <2> HIDE DEF U
    <2> QED BY <1>3, <1>4, FS_EmptySet
  <1>6. rank \in [P -> 1 .. n]
    <2> HIDE DEF U, n
    <2> QED BY <1>2, <1>4, <1>5
  <1>7. \A i, j \in P : i # j => Less(i, j) \/ Less(j, i)
    BY <1>1
  <1>8. \A i, j \in P : Less(i, j) => rank[i] < rank[j]
    <2> SUFFICES ASSUME NEW i \in P, NEW j \in P, Less(i, j)
                 PROVE  rank[i] < rank[j]
      OBVIOUS
    <2>1. U(i) \in SUBSET U(j) /\ j \notin U(i)
      <3>1. \A m \in P : m \in Nat /\ key[m] \in Int
        BY <1>1
      <3>2. \A m \in P : m \in U(i) => m \in U(j)
        BY <3>1 DEF NotAfter
      <3>3. j \notin U(i)
        BY <3>1 DEF NotAfter
      <3> HIDE DEF U
      <3> QED BY <1>3, <3>2, <3>3
    <2>2. U(i) # U(j)
      BY <2>1, <1>3
    <2> HIDE DEF U
    <2>3. Cardinality(U(i)) <= Cardinality(U(j)) /\ Cardinality(U(i)) # Cardinality(U(j))
      BY <1>4, <2>1, <2>2, FS_Subset
    <2> QED BY <1>4, <2>3
  <1> HIDE DEF rank, n, Less
  <1>9. \A i, j \in P : rank[i] = rank[j] => i = j
    BY <1>6, <1>7, <1>8
  <1>10. rank \in Injection(P, 1 .. n)
    BY <1>6, <1>9 DEF Injection, IsInjective
  <1>11. IsFiniteSet(1 .. n) /\ Cardinality(1 .. n) = n
    BY <1>2, FS_Interval
  <1>12. rank \in Surjection(P, 1 .. n)
    BY <1>10, <1>11, FS_Injection DEF n
  <1>13. \A k \in 1 .. n : \E i \in P : rank[i] = k
    BY <1>12 DEF Surjection
  <1>14. p = [k \in 1 .. n |-> CHOOSE i \in P : rank[i] = k]
    BY DEF Arrangement, rank, n
  <1> HIDE DEF p
  <1>15. \A k \in 1 .. n : p[k] \in P /\ rank[p[k]] = k
    BY <1>13, <1>14
  <1>16. \A i \in P : p[rank[i]] = i
    BY <1>6, <1>9, <1>15
  <1>17. p \in [1 .. n -> P]
    BY <1>14, <1>15
  <1>18. p \in Bijection(1 .. n, P)
    <2>1. p \in Injection(1 .. n, P)
      BY <1>15, <1>17 DEF Injection, IsInjective
    <2>2. p \in Surjection(1 .. n, P)
      BY <1>6, <1>16, <1>17 DEF Surjection
    <2> QED BY <2>1, <2>2 DEF Bijection
  <1>19. \A k, l \in 1 .. n : k < l => Less(p[k], p[l])
    <2> SUFFICES ASSUME NEW k \in 1 .. n, NEW l \in 1 .. n, k < l
                 PROVE  Less(p[k], p[l])
      OBVIOUS
    <2>1. p[k] \in P /\ p[l] \in P /\ rank[p[k]] = k /\ rank[p[l]] = l
      BY <1>15
    <2>2. p[k] # p[l] /\ ~Less(p[l], p[k])
      BY <1>2, <1>8, <2>1
    <2> QED BY <1>7, <2>1, <2>2
  <1> QED BY <1>18, <1>19 DEF Arranges, n, p, Less

(* p lists P, each member once, in increasing order.                       *)
Chooses(p, P) ==
    /\ p \in Bijection(1 .. Cardinality(P), P)
    /\ \A k, l \in 1 .. Cardinality(P) : k < l => p[k] < p[l]

(* What is kept of a list (the where clause of the query, remove_if) are   *)
(* the elements at the given positions, each once and in their order.      *)
LEMMA KeptIs ==
    ASSUME NEW s, NEW P \in SUBSET Nat, IsFiniteSet(P)
    PROVE  \E p : Chooses(p, P) /\ Kept(s, P) = [k \in 1 .. Cardinality(P) |-> s[p[k]]]
  <1> DEFINE key == [i \in P |-> 0]
             p == Arrangement(P, key)
  <1>1. \A i \in P : NotAfter(P, key, i) = {j \in P : j <= i}
    BY DEF NotAfter
  <1>2. p = [k \in 1 .. Cardinality(P) |-> CHOOSE i \in P : Cardinality({j \in P : j <= i}) = k]
    <2> DEFINE A(k) == CHOOSE i \in P : Cardinality(NotAfter(P, key, i)) = k
               B(k) == CHOOSE i \in P : Cardinality({j \in P : j <= i}) = k
    <2>1. \A k : A(k) = B(k)
      BY <1>1
    <2>2. p = [k \in 1 .. Cardinality(P) |-> A(k)]
      BY DEF Arrangement
    <2> HIDE DEF A, B, p
    <2>3. p = [k \in 1 .. Cardinality(P) |-> B(k)]
      BY <2>1, <2>2
    <2> QED BY <2>3 DEF B
  <1>3. Sorts(P, key)
    BY DEF Sorts
  <1>4. \A i \in P : key[i] = 0
    OBVIOUS
  <1>5. Kept(s, P) = [k \in 1 .. Cardinality(P) |-> s[p[k]]]
    <2> HIDE DEF p
    <2> QED BY <1>2 DEF Kept
  <1> HIDE DEF key
  <1>6. Arranges(p, P, key)
    BY <1>3, Arranged
  <1> HIDE DEF p
  <1>7. p \in [1 .. Cardinality(P) -> P]
    BY <1>6 DEF Arranges, Bijection, Injection
  <1>8. \A k \in 1 .. Cardinality(P) : key[p[k]] = 0
    BY <1>4, <1>7
  <1>9. \A k, l \in 1 .. Cardinality(P) : k < l => p[k] < p[l]
    BY <1>6, <1>8 DEF Arranges
  <1>10. Chooses(p, P)
    BY <1>6, <1>9 DEF Arranges, Chooses
  <1> QED BY <1>5, <1>10

(* The list recs holds the entries E of the positions P, in the order o.   *)
Listed(recs, o, P, E) ==
    /\ o \in Bijection(1 .. Cardinality(P), P)
    /\ recs = [k \in 1 .. Cardinality(P) |-> E[o[k]]]

(* Every entry has a score and a time of detection.                        *)
Timed(E, P) ==
    /\ P \in SUBSET Nat /\ IsFiniteSet(P)
    /\ \A i \in P : E[i].score \in Nat /\ E[i].row.time \in Nat

NewestFirst(o, n, E) ==
    \A k, l \in 1 .. n : k < l => E[o[k]].row.time >= E[o[l]].row.time

BestFirst(o, n, E) ==
    \A k, l \in 1 .. n : k < l =>
      \/ E[o[k]].score < E[o[l]].score
      \/ E[o[k]].score = E[o[l]].score /\ E[o[k]].row.time >= E[o[l]].row.time

(* The facts about a list that the sorts use.                              *)
LEMMA ListedIs ==
    ASSUME NEW recs, NEW o, NEW P, NEW E, Listed(recs, o, P, E), Timed(E, P)
    PROVE  LET n == Cardinality(P) IN
           /\ n \in Nat /\ DOMAIN recs = 1 .. n
           /\ \A k \in 1 .. n : /\ o[k] \in P /\ recs[k] = E[o[k]]
                                /\ recs[k].score \in Nat /\ recs[k].row.time \in Nat
  <1> DEFINE n == Cardinality(P)
  <1>1. n \in Nat
    BY FS_CardinalityType DEF Timed
  <1>2. o \in [1 .. n -> P] /\ recs = [k \in 1 .. n |-> E[o[k]]]
    BY DEF Listed, Bijection, Injection
  <1> HIDE DEF n
  <1>3. \A k \in 1 .. n : o[k] \in P /\ recs[k] = E[o[k]]
    BY <1>2
  <1>4. \A k \in 1 .. n : recs[k].score \in Nat /\ recs[k].row.time \in Nat
    BY <1>3 DEF Timed
  <1> QED BY <1>1, <1>2, <1>3, <1>4 DEF n

Permutes(p, P) == p \in Bijection(1 .. Cardinality(P), 1 .. Cardinality(P))
Permuted(s, p, P) == [k \in 1 .. Cardinality(P) |-> s[p[k]]]

(* A list put into another order holds the same entries.                   *)
LEMMA ListedInOrder ==
    ASSUME NEW recs, NEW o, NEW P, NEW E, Listed(recs, o, P, E), Timed(E, P),
           NEW p, Permutes(p, P)
    PROVE  Listed(Permuted(recs, p, P), Permuted(o, p, P), P, E)
  <1> DEFINE n == Cardinality(P)
             r == [k \in 1 .. n |-> o[p[k]]]
  <1>1. o \in Bijection(1 .. n, P) /\ p \in Bijection(1 .. n, 1 .. n)
    BY DEF Listed, Permutes
  <1>2. \A k \in 1 .. n : recs[k] = E[o[k]]
    BY ListedIs
  <1> HIDE DEF n
  <1>3. p \in [1 .. n -> 1 .. n] /\ \A j \in 1 .. n : \E k \in 1 .. n : p[k] = j
    BY <1>1 DEF Bijection, Injection, Surjection
  <1>4. o \in [1 .. n -> P] /\ \A i \in P : \E k \in 1 .. n : o[k] = i
    BY <1>1 DEF Bijection, Injection, Surjection
  <1>5. \A k, l \in 1 .. n : (p[k] = p[l] => k = l) /\ (o[k] = o[l] => k = l)
    BY <1>1 DEF Bijection, Injection, IsInjective
  <1>6. r \in [1 .. n -> P] /\ \A k \in 1 .. n : r[k] = o[p[k]]
    BY <1>3, <1>4
  <1> HIDE DEF r
  <1>7. r \in Injection(1 .. n, P)
    <2>1. \A k, l \in 1 .. n : r[k] = r[l] => k = l
      <3>1. \A k \in 1 .. n : p[k] \in 1 .. n
        BY <1>3
      <3> QED BY <1>5, <1>6, <3>1
    <2> QED BY <1>6, <2>1 DEF Injection, IsInjective
  <1>8. r \in Surjection(1 .. n, P)
    BY <1>3, <1>4, <1>6 DEF Surjection
  <1>9. [k \in 1 .. n |-> recs[p[k]]] = [k \in 1 .. n |-> E[r[k]]]
    BY <1>2, <1>3, <1>6
  <1> QED BY <1>7, <1>8, <1>9 DEF Listed, Permuted, Bijection, n, r

(* A list of the first n numbers in the order of key.                      *)
LEMMA IndicesArranged ==
    ASSUME NEW n \in Nat, NEW key \in [1 .. n -> Int]
    PROVE  LET p == Arrangement(1 .. n, key) IN
           /\ p = [k \in 1 .. n |-> CHOOSE i \in 1 .. n : Cardinality(NotAfter(1 .. n, key, i)) = k]
           /\ p \in Bijection(1 .. n, 1 .. n) /\ p \in [1 .. n -> 1 .. n]
           /\ \A k, l \in 1 .. n :
                k < l => \/ key[p[k]] < key[p[l]]
                         \/ key[p[k]] = key[p[l]] /\ p[k] < p[l]
  <1> DEFINE p == Arrangement(1 .. n, key)
             N == 1 .. n
  <1>1. IsFiniteSet(N) /\ Cardinality(N) = n
    BY FS_Interval
  <1>2. Sorts(N, key)
    BY <1>1 DEF Sorts
  <1>3. p = [k \in 1 .. Cardinality(N) |-> CHOOSE i \in N : Cardinality(NotAfter(N, key, i)) = k]
    BY DEF Arrangement
  <1> HIDE DEF N
  <1>4. Arranges(Arrangement(N, key), N, key)
    BY <1>2, Arranged
  <1>5. Arranges(p, N, key)
    BY <1>4 DEF N
  <1> HIDE DEF p
  <1>6. p \in Bijection(1 .. n, N)
    BY <1>1, <1>5 DEF Arranges
  <1>7. p \in [1 .. n -> N]
    BY <1>6 DEF Bijection, Injection
  <1>8. p = [k \in 1 .. n |-> CHOOSE i \in N : Cardinality(NotAfter(N, key, i)) = k]
    BY <1>1, <1>3
  <1>9. \A k, l \in 1 .. n : k < l => \/ key[p[k]] < key[p[l]]
                                      \/ key[p[k]] = key[p[l]] /\ p[k] < p[l]
    BY <1>1, <1>5 DEF Arranges
  <1> QED BY <1>6, <1>7, <1>8, <1>9 DEF N, p

(* The first list::sort puts the record detected last first.               *)
LEMMA NewestSorted ==
    ASSUME NEW recs, NEW o, NEW P, NEW E, Listed(recs, o, P, E), Timed(E, P)
    PROVE  \E r : /\ Listed(StableSort(recs, LAMBDA a, b : a.row.time > b.row.time), r, P, E)
                  /\ NewestFirst(r, Cardinality(P), E)
  <1> DEFINE n == Cardinality(P)
             key == [k \in 1 .. n |-> 0 - recs[k].row.time]
             p == Arrangement(1 .. n, key)
             Rank(i) == Cardinality({j \in DOMAIN recs :
                           \/ recs[j].row.time > recs[i].row.time
                           \/ ~(recs[i].row.time > recs[j].row.time) /\ j <= i})
             sorted == [k \in DOMAIN recs |-> recs[CHOOSE i \in DOMAIN recs : Rank(i) = k]]
             q == Permuted(o, p, P)
  <1>1. SUFFICES \E r : Listed(sorted, r, P, E) /\ NewestFirst(r, n, E)
    BY DEF StableSort
  <1>2. /\ n \in Nat /\ DOMAIN recs = 1 .. n
        /\ \A k \in 1 .. n : recs[k] = E[o[k]] /\ recs[k].row.time \in Nat
    BY ListedIs
  <1> HIDE DEF n
  <1>3. key \in [1 .. n -> Int] /\ \A k \in 1 .. n : key[k] = 0 - recs[k].row.time
    BY <1>2
  <1> HIDE DEF key
  <1>4. \A i \in 1 .. n : Rank(i) = Cardinality(NotAfter(1 .. n, key, i))
    <2> SUFFICES ASSUME NEW i \in 1 .. n
                 PROVE  {j \in DOMAIN recs :
                           \/ recs[j].row.time > recs[i].row.time
                           \/ ~(recs[i].row.time > recs[j].row.time) /\ j <= i}
                          = NotAfter(1 .. n, key, i)
      OBVIOUS
    <2> DEFINE time(k) == recs[k].row.time
    <2>1. \A k \in 1 .. n : time(k) \in Nat /\ key[k] = 0 - time(k)
      BY <1>2, <1>3
    <2>2. \A j \in 1 .. n : (time(j) > time(i) \/ (~(time(i) > time(j)) /\ j <= i))
                              <=> (key[j] < key[i] \/ (key[j] = key[i] /\ j <= i))
      <3> HIDE DEF time
      <3> QED BY <2>1
    <2> QED BY <1>2, <2>2 DEF NotAfter
  <1>5. /\ p = [k \in 1 .. n |-> CHOOSE i \in 1 .. n : Cardinality(NotAfter(1 .. n, key, i)) = k]
        /\ p \in Bijection(1 .. n, 1 .. n) /\ p \in [1 .. n -> 1 .. n]
        /\ \A k, l \in 1 .. n : k < l => \/ key[p[k]] < key[p[l]]
                                         \/ key[p[k]] = key[p[l]] /\ p[k] < p[l]
    BY <1>2, <1>3, IndicesArranged
  <1> HIDE DEF p, Rank
  <1>6. sorted = [k \in 1 .. n |-> recs[p[k]]]
    <2> DEFINE R(i) == Cardinality(NotAfter(1 .. n, key, i))
               A(k) == CHOOSE i \in 1 .. n : Rank(i) = k
               B(k) == CHOOSE i \in 1 .. n : R(i) = k
    <2>1. \A k : A(k) = B(k)
      BY <1>4
    <2>2. sorted = [k \in 1 .. n |-> recs[A(k)]] /\ \A k \in 1 .. n : p[k] = B(k)
      <3>1. sorted = [k \in 1 .. n |-> recs[A(k)]]
        BY <1>2
      <3>2. p = [k \in 1 .. n |-> B(k)]
        BY <1>5
      <3> HIDE DEF B
      <3> QED BY <3>1, <3>2
    <2> HIDE DEF A, B, sorted
    <2> QED BY <2>1, <2>2
  <1> HIDE DEF sorted
  <1>7. Listed(sorted, q, P, E)
    <2>1. Permutes(p, P) /\ sorted = Permuted(recs, p, P)
      BY <1>5, <1>6 DEF Permutes, Permuted, n
    <2> QED BY <2>1, ListedInOrder
  <1>8. NewestFirst(q, n, E)
    <2>1. \A k \in 1 .. n : q[k] = o[p[k]] /\ p[k] \in 1 .. n
      BY <1>5 DEF Permuted, n
    <2> HIDE DEF q
    <2>2. \A k \in 1 .. n : E[q[k]] = recs[p[k]]
      BY <1>2, <2>1
    <2>3. \A k \in 1 .. n : E[q[k]].row.time \in Nat /\ key[p[k]] = 0 - E[q[k]].row.time
      BY <1>2, <1>3, <2>1, <2>2
    <2> SUFFICES ASSUME NEW k \in 1 .. n, NEW l \in 1 .. n, k < l
                 PROVE  E[q[k]].row.time >= E[q[l]].row.time
      BY DEF NewestFirst
    <2>4. key[p[k]] < key[p[l]] \/ key[p[k]] = key[p[l]]
      <3>1. \A g, h \in 1 .. n : g < h => \/ key[p[g]] < key[p[h]]
                                          \/ key[p[g]] = key[p[h]] /\ p[g] < p[h]
        BY <1>5
      <3> QED BY <3>1
    <2> QED BY <2>3, <2>4
  <1> QED BY <1>7, <1>8

(* The second list::sort puts the best match first, and leaves equally     *)
(* good ones newest first.                                                 *)
LEMMA BestSorted ==
    ASSUME NEW recs, NEW o, NEW P, NEW E, Listed(recs, o, P, E), Timed(E, P),
           NewestFirst(o, Cardinality(P), E)
    PROVE  \E r : /\ Listed(StableSort(recs, LAMBDA a, b : a.score < b.score), r, P, E)
                  /\ BestFirst(r, Cardinality(P), E)
  <1> DEFINE n == Cardinality(P)
             key == [k \in 1 .. n |-> recs[k].score]
             p == Arrangement(1 .. n, key)
             Rank(i) == Cardinality({j \in DOMAIN recs :
                           \/ recs[j].score < recs[i].score
                           \/ ~(recs[i].score < recs[j].score) /\ j <= i})
             sorted == [k \in DOMAIN recs |-> recs[CHOOSE i \in DOMAIN recs : Rank(i) = k]]
             q == Permuted(o, p, P)
  <1>1. SUFFICES \E r : Listed(sorted, r, P, E) /\ BestFirst(r, n, E)
    BY DEF StableSort
  <1>2. /\ n \in Nat /\ DOMAIN recs = 1 .. n
        /\ \A k \in 1 .. n : /\ recs[k] = E[o[k]]
                             /\ recs[k].score \in Nat /\ recs[k].row.time \in Nat
    BY ListedIs
  <1>3. NewestFirst(o, n, E)
    OBVIOUS
  <1> HIDE DEF n
  <1>4. key \in [1 .. n -> Int] /\ \A k \in 1 .. n : key[k] = recs[k].score
    BY <1>2
  <1> HIDE DEF key
  <1>5. \A i \in 1 .. n : Rank(i) = Cardinality(NotAfter(1 .. n, key, i))
    <2> SUFFICES ASSUME NEW i \in 1 .. n
                 PROVE  {j \in DOMAIN recs :
                           \/ recs[j].score < recs[i].score
                           \/ ~(recs[i].score < recs[j].score) /\ j <= i}
                          = NotAfter(1 .. n, key, i)
      OBVIOUS
    <2> DEFINE score(k) == recs[k].score
    <2>1. \A k \in 1 .. n : score(k) \in Nat /\ key[k] = score(k)
      BY <1>2, <1>4
    <2>2. \A j \in 1 .. n : (score(j) < score(i) \/ (~(score(i) < score(j)) /\ j <= i))
                              <=> (key[j] < key[i] \/ (key[j] = key[i] /\ j <= i))
      <3> HIDE DEF score
      <3> QED BY <2>1
    <2> QED BY <1>2, <2>2 DEF NotAfter
  <1>6. /\ p = [k \in 1 .. n |-> CHOOSE i \in 1 .. n : Cardinality(NotAfter(1 .. n, key, i)) = k]
        /\ p \in Bijection(1 .. n, 1 .. n) /\ p \in [1 .. n -> 1 .. n]
        /\ \A k, l \in 1 .. n : k < l => \/ key[p[k]] < key[p[l]]
                                         \/ key[p[k]] = key[p[l]] /\ p[k] < p[l]
    BY <1>2, <1>4, IndicesArranged
  <1> HIDE DEF p, Rank
  <1>7. sorted = [k \in 1 .. n |-> recs[p[k]]]
    <2> DEFINE R(i) == Cardinality(NotAfter(1 .. n, key, i))
               A(k) == CHOOSE i \in 1 .. n : Rank(i) = k
               B(k) == CHOOSE i \in 1 .. n : R(i) = k
    <2>1. \A k : A(k) = B(k)
      BY <1>5
    <2>2. sorted = [k \in 1 .. n |-> recs[A(k)]] /\ \A k \in 1 .. n : p[k] = B(k)
      <3>1. sorted = [k \in 1 .. n |-> recs[A(k)]]
        BY <1>2
      <3>2. p = [k \in 1 .. n |-> B(k)]
        BY <1>6
      <3> HIDE DEF B
      <3> QED BY <3>1, <3>2
    <2> HIDE DEF A, B, sorted
    <2> QED BY <2>1, <2>2
  <1> HIDE DEF sorted
  <1>8. Listed(sorted, q, P, E)
    <2>1. Permutes(p, P) /\ sorted = Permuted(recs, p, P)
      BY <1>6, <1>7 DEF Permutes, Permuted, n
    <2> QED BY <2>1, ListedInOrder
  <1>9. BestFirst(q, n, E)
    <2>1. \A k \in 1 .. n : q[k] = o[p[k]] /\ p[k] \in 1 .. n
      BY <1>6 DEF Permuted, n
    <2> HIDE DEF q
    <2>2. \A k \in 1 .. n : E[q[k]] = recs[p[k]] /\ key[p[k]] = E[q[k]].score
      <3>1. \A k \in 1 .. n : E[q[k]] = recs[p[k]]
        BY <1>2, <2>1
      <3> QED BY <1>4, <2>1, <3>1
    <2> SUFFICES ASSUME NEW k \in 1 .. n, NEW l \in 1 .. n, k < l
                 PROVE  \/ E[q[k]].score < E[q[l]].score
                        \/ /\ E[q[k]].score = E[q[l]].score
                           /\ E[q[k]].row.time >= E[q[l]].row.time
      BY DEF BestFirst
    <2>3. key[p[k]] < key[p[l]] \/ (key[p[k]] = key[p[l]] /\ p[k] < p[l])
      <3>1. \A g, h \in 1 .. n : g < h => \/ key[p[g]] < key[p[h]]
                                          \/ key[p[g]] = key[p[h]] /\ p[g] < p[h]
        BY <1>6
      <3> QED BY <3>1
    <2>4. ASSUME p[k] < p[l] PROVE E[q[k]].row.time >= E[q[l]].row.time
      <3>1. E[o[p[k]]].row.time >= E[o[p[l]]].row.time
        BY <1>3, <2>1, <2>4 DEF NewestFirst
      <3> QED BY <2>1, <3>1
    <2> QED BY <2>2, <2>3, <2>4
  <1> QED BY <1>8, <1>9

NearEntries(P, E) == {i \in P : E[i].score <= Near}

(* remove_if keeps the near entries, in their order.                       *)
LEMMA NearKept ==
    ASSUME NEW recs, NEW o, NEW P, NEW E, Listed(recs, o, P, E), Timed(E, P),
           BestFirst(o, Cardinality(P), E)
    PROVE  \E r : /\ Listed(Kept(recs, {i \in DOMAIN recs : recs[i].score <= Near}),
                            r, NearEntries(P, E), E)
                  /\ BestFirst(r, Cardinality(NearEntries(P, E)), E)
  <1> DEFINE n == Cardinality(P)
             K == {i \in DOMAIN recs : recs[i].score <= Near}
             m == Cardinality(K)
             Q == NearEntries(P, E)
  <1>1. /\ n \in Nat /\ DOMAIN recs = 1 .. n
        /\ \A k \in 1 .. n : o[k] \in P /\ recs[k] = E[o[k]]
    BY ListedIs
  <1>2. o \in [1 .. n -> P] /\ \A i \in P : \E k \in 1 .. n : o[k] = i
    BY DEF Listed, Bijection, Surjection
  <1>3. \A k, l \in 1 .. n : o[k] = o[l] => k = l
    BY <1>2 DEF Listed, Bijection, Injection, IsInjective
  <1>4. BestFirst(o, n, E)
    OBVIOUS
  <1> HIDE DEF n
  <1>5. K \in SUBSET (1 .. n) /\ \A k \in 1 .. n : k \in K <=> o[k] \in Q
    BY <1>1 DEF NearEntries
  <1>6. Q \subseteq P
    BY DEF NearEntries
  <1> HIDE DEF K, Q
  <1>7. K \in SUBSET Nat /\ IsFiniteSet(K) /\ m \in Nat
    <2>1. n \in Nat
      BY <1>1
    <2>2. IsFiniteSet(1 .. n)
      BY <2>1, FS_Interval
    <2>3. IsFiniteSet(K)
      BY <1>5, <2>2, FS_Subset
    <2> QED BY <1>5, <2>1, <2>3, FS_CardinalityType
  <1>8. PICK p : Chooses(p, K) /\ Kept(recs, K) = [k \in 1 .. m |-> recs[p[k]]]
    BY <1>7, KeptIs
  <1> HIDE DEF m
  <1>9. /\ p \in [1 .. m -> K] /\ \A i \in K : \E k \in 1 .. m : p[k] = i
        /\ \A k, l \in 1 .. m : p[k] = p[l] => k = l
        /\ \A k, l \in 1 .. m : k < l => p[k] < p[l]
    <2>1. p \in [1 .. m -> K] /\ \A i \in K : \E k \in 1 .. m : p[k] = i
      BY <1>8 DEF Chooses, Bijection, Surjection, m
    <2>2. \A k, l \in 1 .. m : p[k] = p[l] => k = l
      BY <1>8, <2>1 DEF Chooses, Bijection, Injection, IsInjective, m
    <2>3. \A k, l \in 1 .. m : k < l => p[k] < p[l]
      BY <1>8 DEF Chooses, m
    <2> QED BY <2>1, <2>2, <2>3
  <1>10. \A k \in 1 .. m : p[k] \in K /\ p[k] \in 1 .. n /\ o[p[k]] \in Q
    BY <1>5, <1>9
  <1> DEFINE r == [k \in 1 .. m |-> o[p[k]]]
  <1>11. r \in [1 .. m -> Q] /\ \A k \in 1 .. m : r[k] = o[p[k]]
    BY <1>10
  <1> HIDE DEF r
  <1>12. r \in Bijection(1 .. m, Q)
    <2>1. \A k, l \in 1 .. m : r[k] = r[l] => k = l
      BY <1>3, <1>9, <1>10, <1>11
    <2>2. \A i \in Q : \E k \in 1 .. m : r[k] = i
      <3> SUFFICES ASSUME NEW i \in Q PROVE \E k \in 1 .. m : r[k] = i
        OBVIOUS
      <3>1. PICK j \in 1 .. n : o[j] = i
        BY <1>2, <1>6
      <3>2. j \in K
        BY <1>5, <3>1
      <3>3. PICK k \in 1 .. m : p[k] = j
        BY <1>9, <3>2
      <3> QED BY <1>11, <3>1, <3>3
    <2>3. r \in Injection(1 .. m, Q) /\ r \in Surjection(1 .. m, Q)
      BY <1>11, <2>1, <2>2 DEF Injection, IsInjective, Surjection
    <2> QED BY <2>3 DEF Bijection
  <1>13. Cardinality(Q) = m
    <2>1. IsFiniteSet(1 .. m) /\ Cardinality(1 .. m) = m
      BY <1>7, FS_Interval
    <2>2. ExistsBijection(1 .. m, Q)
      BY <1>12 DEF ExistsBijection
    <2> QED BY <2>1, <2>2, FS_Bijection
  <1>14. Kept(recs, K) = [k \in 1 .. m |-> E[r[k]]]
    <2>1. \A k \in 1 .. m : recs[p[k]] = E[r[k]]
      BY <1>1, <1>10, <1>11
    <2> QED BY <1>8, <2>1 DEF m
  <1>15. Listed(Kept(recs, K), r, Q, E)
    BY <1>12, <1>13, <1>14 DEF Listed
  <1>16. BestFirst(r, m, E)
    <2> SUFFICES ASSUME NEW k \in 1 .. m, NEW l \in 1 .. m, k < l
                 PROVE  \/ E[r[k]].score < E[r[l]].score
                        \/ /\ E[r[k]].score = E[r[l]].score
                           /\ E[r[k]].row.time >= E[r[l]].row.time
      BY DEF BestFirst
    <2>1. p[k] \in 1 .. n /\ p[l] \in 1 .. n /\ p[k] < p[l]
      BY <1>9, <1>10
    <2>2. r[k] = o[p[k]] /\ r[l] = o[p[l]]
      BY <1>11
    <2> QED BY <1>4, <2>1, <2>2 DEF BestFirst
  <1>17. \E f : Listed(Kept(recs, K), f, Q, E) /\ BestFirst(f, Cardinality(Q), E)
    BY <1>13, <1>15, <1>16
  <1> QED BY <1>17 DEF K, Q

-----------------------------------------------------------------------------
(* The inductive invariant of a search.                                    *)

(* What a record of the table becomes in the list.                         *)
Entries == [i \in DOMAIN table |-> [score |-> Score(table[i]), row |-> table[i]]]

SelectedAt == {i \in DOMAIN table : Selected(table[i])}
SentAt == IF query.plate = {} THEN SelectedAt ELSE NearEntries(SelectedAt, Entries)

SearchArguments == query \in Queries /\ table \in InnerTables

AllDetected == \A i \in SelectedAt : table[i].detected

(* Some order of the selected records; after the first list::sort the      *)
(* newest record is first, after the second one the best.                  *)
AnyOrder == \E o : Listed(records, o, SelectedAt, Entries)
NewestOrder ==
    \E o : Listed(records, o, SelectedAt, Entries) /\ NewestFirst(o, Cardinality(SelectedAt), Entries)
BestOrder ==
    \E o : Listed(records, o, SentAt, Entries) /\ BestFirst(o, Cardinality(SentAt), Entries)

(* The list holds the entries of exactly the records that have to be sent, *)
(* each once, and in the order the sorts so far have made.                 *)
SearchInv ==
    /\ SearchArguments
    /\ search_pc \in {"newest", "best", "send", "done"} => AllDetected
    /\ search_pc = "newest" => AnyOrder
    /\ search_pc = "best" => query.plate # {} /\ NewestOrder
    /\ search_pc \in {"send", "done"} => BestOrder
    /\ search_pc = "done" => reply = [i \in DOMAIN records |-> records[i].row]

(* The plate of the request and of a record are words, so the score is the *)
(* one of matchscore.                                                      *)
LEMMA ScoreIs ==
    ASSUME SearchArguments, NEW i \in DOMAIN table
    PROVE  /\ Score(table[i]) \in Nat
           /\ \A p \in query.plate : /\ p \in Words /\ table[i].plate \in Words
                                     /\ Score(table[i]) = matchscore(p, table[i].plate)
           /\ query.plate = {} => Score(table[i]) = 0
  <1>1. query.plate \subseteq Words /\ \A v, w \in query.plate : v = w
    BY PlateSearchAssumption DEF SearchArguments
  <1>2. table[i].plate \in Words
    BY PlateSearchAssumption DEF SearchArguments
  <1>3. CASE query.plate = {}
    BY <1>3 DEF Score
  <1>4. ASSUME query.plate # {} PROVE Score(table[i]) \in Nat
    <2> DEFINE c == CHOOSE p \in query.plate : TRUE
    <2>1. c \in query.plate
      BY <1>4
    <2>2. Score(table[i]) = matchscore(c, table[i].plate)
      BY <1>4 DEF Score
    <2> HIDE DEF c
    <2>3. c \in Words /\ 0 \in 0 .. Near
      BY <1>1, <2>1, PlateSearchAssumption
    <2>4. matchscore(c, table[i].plate) \in Nat
      BY <1>2, <2>3, ScoreCountsEdits
    <2> QED BY <2>2, <2>4
  <1>5. ASSUME NEW p \in query.plate
        PROVE  Score(table[i]) = matchscore(p, table[i].plate)
    <2> DEFINE c == CHOOSE x \in query.plate : TRUE
    <2>1. c \in query.plate
      BY <1>5
    <2>2. Score(table[i]) = matchscore(c, table[i].plate)
      BY <1>5 DEF Score
    <2> HIDE DEF c
    <2>3. c = p
      BY <1>1, <1>5, <2>1
    <2> QED BY <2>2, <2>3
  <1> QED BY <1>1, <1>2, <1>3, <1>4, <1>5

(* The table is a finite list.                                             *)
LEMMA TablePositions ==
    ASSUME SearchArguments
    PROVE  DOMAIN table \in SUBSET Nat /\ IsFiniteSet(DOMAIN table)
  <1> DEFINE S == {table[i] : i \in DOMAIN table}
  <1>1. table \in Seq(S)
    BY PlateSearchAssumption DEF SearchArguments, IsSequence
  <1> HIDE DEF S
  <1>2. Len(table) \in Nat /\ DOMAIN table = 1 .. Len(table)
    BY <1>1
  <1>3. IsFiniteSet(1 .. Len(table))
    BY <1>2, FS_Interval
  <1> QED BY <1>2, <1>3

(* Every selected record has a score and, when its detection record is not *)
(* missing, a time of detection.                                           *)
LEMMA EntriesTimed ==
    ASSUME SearchArguments, AllDetected
    PROVE  /\ Timed(Entries, SelectedAt)
           /\ \A i \in SelectedAt : /\ i \in DOMAIN table
                                    /\ Entries[i].score = Score(table[i])
                                    /\ Entries[i].row = table[i]
  <1>1. SelectedAt \in SUBSET DOMAIN table
    BY DEF SelectedAt
  <1>2. SelectedAt \in SUBSET Nat /\ IsFiniteSet(SelectedAt)
    BY <1>1, TablePositions, FS_Subset
  <1>3. \A i \in SelectedAt : Entries[i].score = Score(table[i]) /\ Entries[i].row = table[i]
    BY <1>1 DEF Entries
  <1>4. \A i \in SelectedAt : Score(table[i]) \in Nat /\ table[i].time \in Nat
    <2>1. \A i \in SelectedAt : Score(table[i]) \in Nat
      BY <1>1, ScoreIs
    <2>2. \A i \in SelectedAt : table[i].time \in Nat
      BY <1>1, PlateSearchAssumption DEF SearchArguments, AllDetected
    <2> QED BY <2>1, <2>2
  <1> QED BY <1>1, <1>2, <1>3, <1>4 DEF Timed

(* The arguments of a search stay as they are.                             *)
LEMMA SameSearch ==
    ASSUME UNCHANGED <<query, table>>
    PROVE  /\ SearchArguments' <=> SearchArguments
           /\ Entries' = Entries /\ SelectedAt' = SelectedAt /\ SentAt' = SentAt
           /\ AllDetected' <=> AllDetected
  <1>1. query' = query /\ table' = table
    OBVIOUS
  <1>2. Entries' = Entries
    BY <1>1 DEF Entries, Score
  <1>3. SelectedAt' = SelectedAt
    BY <1>1 DEF SelectedAt, Selected
  <1>4. SentAt' = SentAt
    BY <1>1, <1>2, <1>3 DEF SentAt, NearEntries
  <1> QED BY <1>1, <1>2, <1>3, <1>4 DEF SearchArguments, AllDetected

(* The query lists the selected records, each once.                        *)
LEMMA SelectRecordsLists ==
    ASSUME SearchArguments, SelectRecords
    PROVE  AllDetected /\ AnyOrder'
  <1> DEFINE rows == Kept(table, SelectedAt)
             n == Cardinality(SelectedAt)
  <1>1. /\ \A k \in DOMAIN rows : rows[k].detected
        /\ records' = [k \in DOMAIN rows |-> [score |-> Score(rows[k]), row |-> rows[k]]]
        /\ query' = query /\ table' = table
    BY DEF SelectRecords, SelectedAt
  <1>2. SelectedAt \in SUBSET DOMAIN table
    BY DEF SelectedAt
  <1>3. SelectedAt \in SUBSET Nat /\ IsFiniteSet(SelectedAt)
    BY <1>2, TablePositions, FS_Subset
  <1>4. PICK p : Chooses(p, SelectedAt) /\ rows = [k \in 1 .. n |-> table[p[k]]]
    BY <1>3, KeptIs
  <1> HIDE DEF rows, n
  <1>5. p \in Bijection(1 .. n, SelectedAt)
    BY <1>4 DEF Chooses, n
  <1>6. p \in [1 .. n -> SelectedAt] /\ \A i \in SelectedAt : \E k \in 1 .. n : p[k] = i
    BY <1>5 DEF Bijection, Surjection
  <1>7. DOMAIN rows = 1 .. n /\ \A k \in 1 .. n : rows[k] = table[p[k]]
    BY <1>4
  <1>8. AllDetected
    <2> SUFFICES ASSUME NEW i \in SelectedAt PROVE table[i].detected
      BY DEF AllDetected
    <2>1. PICK k \in 1 .. n : p[k] = i
      BY <1>6
    <2> QED BY <1>1, <1>7, <2>1
  <1>9. records' = [k \in 1 .. n |-> Entries[p[k]]]
    <2>1. \A k \in 1 .. n : p[k] \in DOMAIN table
      BY <1>2, <1>6
    <2>2. \A k \in 1 .. n : Entries[p[k]] = [score |-> Score(rows[k]), row |-> rows[k]]
      <3>1. \A k \in 1 .. n : Entries[p[k]] = [score |-> Score(table[p[k]]), row |-> table[p[k]]]
        BY <2>1 DEF Entries
      <3> QED BY <1>7, <3>1
    <2>3. records' = [k \in 1 .. n |-> [score |-> Score(rows[k]), row |-> rows[k]]]
      BY <1>1, <1>7
    <2> QED BY <2>2, <2>3
  <1>10. Listed(records', p, SelectedAt, Entries)
    BY <1>5, <1>9 DEF Listed, n
  <1>11. Entries' = Entries /\ SelectedAt' = SelectedAt
    BY <1>1, SameSearch
  <1>12. AnyOrder'
    BY <1>10, <1>11 DEF AnyOrder
  <1> QED BY <1>8, <1>12

(* After the first sort the newest record is first.                        *)
LEMMA SortNewestFirstLists ==
    ASSUME SearchArguments, AllDetected, AnyOrder, SortNewestFirst
    PROVE  NewestOrder'
  <1>1. PICK o : Listed(records, o, SelectedAt, Entries)
    BY DEF AnyOrder
  <1>2. Timed(Entries, SelectedAt)
    BY EntriesTimed
  <1>3. query' = query /\ table' = table
    BY DEF SortNewestFirst
  <1>4. Entries' = Entries /\ SelectedAt' = SelectedAt
    BY <1>3, SameSearch
  <1>5. \E r : /\ Listed(StableSort(records, LAMBDA a, b : a.row.time > b.row.time),
                         r, SelectedAt, Entries)
               /\ NewestFirst(r, Cardinality(SelectedAt), Entries)
    BY <1>1, <1>2, NewestSorted
  <1>6. \E r : /\ Listed(records', r, SelectedAt, Entries)
               /\ NewestFirst(r, Cardinality(SelectedAt), Entries)
    BY <1>5 DEF SortNewestFirst, StableSort
  <1> QED BY <1>4, <1>6 DEF NewestOrder

(* Without a plate all scores are 0 and the newest record stays first.     *)
LEMMA NoPlateOrder ==
    SearchArguments /\ AllDetected /\ NewestOrder /\ query.plate = {} => BestOrder
  <1> SUFFICES ASSUME SearchArguments, AllDetected, NewestOrder, query.plate = {}
               PROVE  BestOrder
    OBVIOUS
  <1>1. PICK o : /\ Listed(records, o, SelectedAt, Entries)
                 /\ NewestFirst(o, Cardinality(SelectedAt), Entries)
    BY DEF NewestOrder
  <1>2. SentAt = SelectedAt
    BY DEF SentAt
  <1>3. o \in [1 .. Cardinality(SelectedAt) -> SelectedAt]
    BY <1>1 DEF Listed, Bijection, Injection
  <1>4. \A i \in SelectedAt : i \in DOMAIN table /\ Entries[i].score = Score(table[i])
    BY EntriesTimed
  <1>5. \A i \in SelectedAt : Entries[i].score = 0
    BY <1>4, ScoreIs
  <1>6. \A k \in 1 .. Cardinality(SelectedAt) : Entries[o[k]].score = 0
    BY <1>3, <1>5
  <1>7. BestFirst(o, Cardinality(SelectedAt), Entries)
    BY <1>1, <1>6 DEF BestFirst, NewestFirst
  <1> QED BY <1>1, <1>2, <1>7 DEF BestOrder

(* After the second sort and remove_if the best of the near records is     *)
(* first, and of equally good ones the newest.                             *)
LEMMA SortBestFirstLists ==
    ASSUME SearchArguments, AllDetected, NewestOrder, query.plate # {}, SortBestFirst
    PROVE  BestOrder'
  <1>1. PICK o : /\ Listed(records, o, SelectedAt, Entries)
                 /\ NewestFirst(o, Cardinality(SelectedAt), Entries)
    BY DEF NewestOrder
  <1>2. Timed(Entries, SelectedAt)
    BY EntriesTimed
  <1>3. query' = query /\ table' = table
    BY DEF SortBestFirst
  <1>4. Entries' = Entries /\ SentAt' = SentAt
    BY <1>3, SameSearch
  <1>5. SentAt = NearEntries(SelectedAt, Entries)
    BY DEF SentAt
  <1> DEFINE sorted == StableSort(records, LAMBDA a, b : a.score < b.score)
  <1>6. \E r : /\ Listed(sorted, r, SelectedAt, Entries)
               /\ BestFirst(r, Cardinality(SelectedAt), Entries)
    BY <1>1, <1>2, BestSorted
  <1>7. records' = Kept(sorted, {i \in DOMAIN sorted : sorted[i].score <= Near})
    BY DEF SortBestFirst, StableSort
  <1> HIDE DEF sorted
  <1>8. PICK r : /\ Listed(sorted, r, SelectedAt, Entries)
                 /\ BestFirst(r, Cardinality(SelectedAt), Entries)
    BY <1>6
  <1>9. \E f : /\ Listed(records', f, SentAt, Entries)
               /\ BestFirst(f, Cardinality(SentAt), Entries)
    <2>1. \E f : /\ Listed(Kept(sorted, {i \in DOMAIN sorted : sorted[i].score <= Near}),
                           f, NearEntries(SelectedAt, Entries), Entries)
                 /\ BestFirst(f, Cardinality(NearEntries(SelectedAt, Entries)), Entries)
      BY <1>2, <1>8, NearKept
    <2> QED BY <1>5, <1>7, <2>1
  <1> QED BY <1>4, <1>9 DEF BestOrder

(* A search begins with an empty list.                                     *)
LEMMA SearchInvInit ==
    SearchInit => SearchInv
  BY DEF SearchInit, SearchInv, SearchArguments

(* Every step of a search keeps the records to be sent and their order:    *)
(* the query, its failure, the two sorts and the reply.                    *)
LEMMA SearchInvStep ==
    SearchInv /\ [SearchNext]_search_vars => SearchInv'
  <1> SUFFICES ASSUME SearchInv, [SearchNext]_search_vars
               PROVE  SearchInv'
    OBVIOUS
  <1>1. SearchArguments
    BY DEF SearchInv
  <1>2. ASSUME UNCHANGED <<query, table>>
        PROVE  SearchArguments' /\ (AllDetected' <=> AllDetected)
    BY <1>1, <1>2, SameSearch
  <1>3. CASE SelectRecords
    <2>1. search_pc' = "newest" /\ UNCHANGED <<query, table>>
      BY <1>3 DEF SelectRecords
    <2>2. AllDetected /\ AnyOrder'
      BY <1>1, <1>3, SelectRecordsLists
    <2> QED BY <1>2, <2>1, <2>2 DEF SearchInv
  <1>4. CASE SelectThrows
    <2>1. search_pc' = "thrown" /\ UNCHANGED <<query, table>>
      BY <1>4 DEF SelectThrows
    <2> QED BY <1>2, <2>1 DEF SearchInv
  <1>5. CASE SortNewestFirst
    <2>1. /\ search_pc = "newest" /\ UNCHANGED <<query, table>>
          /\ search_pc' = IF query.plate = {} THEN "send" ELSE "best"
      BY <1>5 DEF SortNewestFirst
    <2>2. AllDetected /\ AnyOrder
      BY <2>1 DEF SearchInv
    <2>3. NewestOrder'
      BY <1>1, <1>5, <2>2, SortNewestFirstLists
    <2>4. SearchArguments' /\ AllDetected'
      BY <1>2, <2>1, <2>2
    <2>5. CASE query.plate = {}
      <3>1. query'.plate = {} /\ search_pc' = "send"
        BY <2>1, <2>5
      <3>2. (SearchArguments /\ AllDetected /\ NewestOrder /\ query.plate = {} => BestOrder)'
        BY NoPlateOrder, PTL
      <3> QED BY <2>3, <2>4, <3>1, <3>2 DEF SearchInv
    <2>6. CASE query.plate # {}
      <3>1. query'.plate # {} /\ search_pc' = "best"
        BY <2>1, <2>6
      <3> QED BY <2>3, <2>4, <3>1 DEF SearchInv
    <2> QED BY <2>5, <2>6
  <1>6. CASE SortBestFirst
    <2>1. search_pc = "best" /\ search_pc' = "send" /\ UNCHANGED <<query, table>>
      BY <1>6 DEF SortBestFirst
    <2>2. AllDetected /\ query.plate # {} /\ NewestOrder
      BY <2>1 DEF SearchInv
    <2>3. BestOrder'
      BY <1>1, <1>6, <2>2, SortBestFirstLists
    <2> QED BY <1>2, <2>1, <2>2, <2>3 DEF SearchInv
  <1>7. CASE on_query_parkingvehicle
    <2>1. /\ search_pc = "send" /\ search_pc' = "done" /\ UNCHANGED <<query, table, records>>
          /\ reply' = [i \in DOMAIN records |-> records[i].row]
      BY <1>7 DEF on_query_parkingvehicle
    <2>2. AllDetected /\ BestOrder
      BY <2>1 DEF SearchInv
    <2>3. Entries' = Entries /\ SentAt' = SentAt
      BY <2>1, SameSearch
    <2>4. BestOrder'
      BY <2>1, <2>2, <2>3 DEF BestOrder
    <2> QED BY <1>2, <2>1, <2>2, <2>4 DEF SearchInv
  <1>8. CASE UNCHANGED search_vars
    <2>1. /\ search_pc' = search_pc /\ records' = records /\ reply' = reply
          /\ query' = query /\ table' = table
      BY <1>8 DEF search_vars
    <2>2. Entries' = Entries /\ SentAt' = SentAt /\ SelectedAt' = SelectedAt
      BY <2>1, SameSearch
    <2>3. /\ AnyOrder' <=> AnyOrder
          /\ NewestOrder' <=> NewestOrder
          /\ BestOrder' <=> BestOrder
      BY <2>1, <2>2 DEF AnyOrder, NewestOrder, BestOrder
    <2> QED BY <1>2, <2>1, <2>3 DEF SearchInv
  <1> QED BY <1>3, <1>4, <1>5, <1>6, <1>7, <1>8 DEF SearchNext

(* At every step of QueryParkingVehicle the list holds the entries of      *)
(* exactly the records that have to be sent, in the order of the sorts.    *)
LEMMA SearchInvariant ==
    SearchSpec => []SearchInv
  BY SearchInvInit, SearchInvStep, PTL DEF SearchSpec

CopiesAt(Q, f, x) == {j \in Q : f[j] = x}
CopiesIn(m, o, f, x) == {k \in 1 .. m : f[o[k]] = x}

(* A list holds a row as often as the table does at the listed positions.  *)
LEMMA CopiesListed ==
    ASSUME NEW m \in Nat, NEW Q, NEW o \in Bijection(1 .. m, Q), NEW f, NEW x
    PROVE  Cardinality(CopiesIn(m, o, f, x)) = Cardinality(CopiesAt(Q, f, x))
  <1> DEFINE S == {k \in 1 .. m : f[o[k]] = x}
             T == {j \in Q : f[j] = x}
             b == [k \in S |-> o[k]]
  <1>1. o \in [1 .. m -> Q] /\ \A i \in Q : \E k \in 1 .. m : o[k] = i
    BY DEF Bijection, Surjection
  <1>2. \A k, l \in 1 .. m : o[k] = o[l] => k = l
    BY <1>1 DEF Bijection, Injection, IsInjective
  <1>3. S \in SUBSET (1 .. m) /\ \A k \in S : o[k] \in T
    BY <1>1
  <1>4. \A j \in T : \E k \in S : o[k] = j
    BY <1>1
  <1> HIDE DEF S, T
  <1>5. b \in [S -> T] /\ \A k \in S : b[k] = o[k]
    BY <1>3
  <1> HIDE DEF b
  <1>6. b \in Bijection(S, T)
    <2>1. \A k, l \in S : b[k] = b[l] => k = l
      BY <1>2, <1>3, <1>5
    <2>2. \A j \in T : \E k \in S : b[k] = j
      BY <1>4, <1>5
    <2>3. b \in Injection(S, T) /\ b \in Surjection(S, T)
      BY <1>5, <2>1, <2>2 DEF Injection, IsInjective, Surjection
    <2> QED BY <2>3 DEF Bijection
  <1>7. IsFiniteSet(S)
    <2>1. IsFiniteSet(1 .. m)
      BY FS_Interval
    <2> QED BY <1>3, <2>1, FS_Subset
  <1>8. Cardinality(T) = Cardinality(S)
    <2>1. ExistsBijection(S, T)
      BY <1>6 DEF ExistsBijection
    <2> QED BY <1>7, <2>1, FS_Bijection
  <1> QED BY <1>8 DEF S, T, CopiesIn, CopiesAt

(* What a finished search has sent: the rows of SentAt, in the best order. *)
Sends(o, m) ==
    /\ m \in Nat /\ o \in Bijection(1 .. m, SentAt) /\ o \in [1 .. m -> SentAt]
    /\ SentAt \in SUBSET SelectedAt
    /\ DOMAIN reply = 1 .. m
    /\ \A k \in 1 .. m : reply[k] = table[o[k]]
    /\ BestFirst(o, m, Entries)

(* The reply holds the rows of the records in the list.                    *)
LEMMA ReplySends ==
    ASSUME SearchInv, search_pc = "done"
    PROVE  \E o, m : Sends(o, m)
  <1>1. SearchArguments /\ AllDetected /\ BestOrder
    BY DEF SearchInv
  <1>2. reply = [i \in DOMAIN records |-> records[i].row]
    BY DEF SearchInv
  <1> DEFINE m == Cardinality(SentAt)
  <1>3. PICK o : Listed(records, o, SentAt, Entries) /\ BestFirst(o, m, Entries)
    BY <1>1 DEF BestOrder
  <1>4. SentAt \in SUBSET SelectedAt
    BY DEF SentAt, NearEntries
  <1>5. /\ IsFiniteSet(SelectedAt)
        /\ \A i \in SelectedAt : Entries[i].row = table[i]
    <2>1. Timed(Entries, SelectedAt) /\ \A i \in SelectedAt : Entries[i].row = table[i]
      BY <1>1, EntriesTimed
    <2> QED BY <2>1 DEF Timed
  <1>6. m \in Nat
    BY <1>4, <1>5, FS_Subset, FS_CardinalityType
  <1>7. o \in Bijection(1 .. m, SentAt) /\ records = [k \in 1 .. m |-> Entries[o[k]]]
    BY <1>3 DEF Listed
  <1> HIDE DEF m
  <1>8. o \in [1 .. m -> SentAt]
    BY <1>7 DEF Bijection, Injection
  <1>9. DOMAIN records = 1 .. m /\ \A k \in 1 .. m : records[k] = Entries[o[k]]
    BY <1>7
  <1>10. \A k \in 1 .. m : Entries[o[k]].row = table[o[k]]
    BY <1>4, <1>5, <1>8
  <1>11. DOMAIN reply = 1 .. m /\ \A k \in 1 .. m : reply[k] = table[o[k]]
    BY <1>2, <1>9, <1>10
  <1>12. Sends(o, m)
    BY <1>3, <1>4, <1>6, <1>7, <1>8, <1>11 DEF Sends
  <1> QED BY <1>12

(* A row is at most k edits from the plate of the request exactly when its *)
(* score is at most k.                                                     *)
LEMMA EntryEdits ==
    ASSUME SearchArguments, AllDetected, NEW i \in SelectedAt, NEW p \in query.plate,
           NEW k \in 0 .. Near
    PROVE  /\ Entries[i].score \in Nat /\ Entries[i].row = table[i]
           /\ Entries[i].score <= k <=> EditsApart(p, table[i].plate, k)
  <1>1. /\ Timed(Entries, SelectedAt) /\ i \in DOMAIN table
        /\ Entries[i].score = Score(table[i]) /\ Entries[i].row = table[i]
    BY EntriesTimed
  <1>2. p \in Words /\ table[i].plate \in Words /\ Score(table[i]) = matchscore(p, table[i].plate)
    BY <1>1, ScoreIs
  <1>3. /\ matchscore(p, table[i].plate) \in Nat
        /\ matchscore(p, table[i].plate) <= k <=> EditsApart(p, table[i].plate, k)
    BY <1>2, ScoreCountsEdits
  <1> QED BY <1>1, <1>2, <1>3

(* For every table and every request, a plate query is answered with       *)
(* exactly the parked vehicles whose detection passes the filters and      *)
(* whose plate is at most Near edits away, each as often as it is parked:  *)
(* the query, matchscore, the two sorts and remove_if together.            *)
THEOREM NearFound ==
    SearchSpec => []NearPlatesFound
  <1>1. SearchInv => NearPlatesFound
    <2> SUFFICES ASSUME SearchInv, search_pc = "done", query.plate # {}, NEW i \in DOMAIN table
                 PROVE  LET near == \A p \in query.plate : EditsApart(p, table[i].plate, Near)
                        IN  Cardinality({k \in DOMAIN reply : reply[k] = table[i]})
                              = IF Selected(table[i]) /\ near
                                THEN Cardinality({k \in DOMAIN table : table[k] = table[i]}) ELSE 0
      BY DEF NearPlatesFound
    <2> DEFINE near == \A p \in query.plate : EditsApart(p, table[i].plate, Near)
               S == {k \in DOMAIN reply : reply[k] = table[i]}
               T == {j \in SentAt : table[j] = table[i]}
               C == {k \in DOMAIN table : table[k] = table[i]}
    <2>1. SearchArguments /\ AllDetected
      BY DEF SearchInv
    <2>2. PICK o, m : Sends(o, m)
      BY ReplySends
    <2>3. Near \in 0 .. Near
      BY PlateSearchAssumption
    <2>4. i \in SentAt <=> Selected(table[i]) /\ near
      <3>1. CASE i \notin SelectedAt
        BY <2>2, <3>1 DEF SelectedAt, Sends
      <3>2. CASE i \in SelectedAt
        <4>1. PICK p \in query.plate : TRUE
          OBVIOUS
        <4>2. \A q \in query.plate : Entries[i].score <= Near <=> EditsApart(q, table[i].plate, Near)
          BY <2>1, <2>3, <3>2, EntryEdits
        <4>3. Entries[i].score <= Near <=> near
          BY <4>1, <4>2
        <4>4. Selected(table[i])
          BY <3>2 DEF SelectedAt
        <4> HIDE DEF near
        <4> QED BY <3>2, <4>3, <4>4 DEF SentAt, NearEntries
      <3> QED BY <3>1, <3>2
    <2> HIDE DEF near
    <2>5. \A j \in DOMAIN table : table[j] = table[i] => (j \in SentAt <=> i \in SentAt)
      <3>1. \A j \in DOMAIN table : j \in SelectedAt <=> Selected(table[j])
        BY DEF SelectedAt
      <3>2. \A j \in DOMAIN table : Entries[j].score = Score(table[j])
        BY DEF Entries
      <3>3. \A j \in DOMAIN table : j \in SentAt <=> (Selected(table[j]) /\ Score(table[j]) <= Near)
        BY <3>1, <3>2 DEF SentAt, NearEntries
      <3> QED BY <3>3
    <2>6. Cardinality(S) = Cardinality(T)
      <3>1. S = CopiesIn(m, o, table, table[i]) /\ T = CopiesAt(SentAt, table, table[i])
        BY <2>2 DEF Sends, CopiesIn, CopiesAt
      <3>2. m \in Nat /\ o \in Bijection(1 .. m, SentAt)
        BY <2>2 DEF Sends
      <3> HIDE DEF S, T
      <3> QED BY <3>1, <3>2, CopiesListed
    <2>7. SentAt \subseteq DOMAIN table
      BY <2>2 DEF Sends, SelectedAt
    <2>8. CASE i \in SentAt
      <3>1. T = C
        BY <2>5, <2>7, <2>8
      <3> QED BY <2>4, <2>6, <2>8, <3>1 DEF near
    <2>9. CASE i \notin SentAt
      <3>1. T = {}
        BY <2>5, <2>7, <2>9
      <3>2. Cardinality(S) = 0
        BY <2>6, <3>1, FS_EmptySet
      <3> QED BY <2>4, <2>9, <3>2 DEF near
    <2> QED BY <2>8, <2>9
  <1> QED BY <1>1, SearchInvariant, PTL

(* For every table and every request, of two vehicles in a reply the one   *)
(* with fewer edits comes first, and of equally good ones, or when no      *)
(* plate is given, the one detected last: the second list::sort keeps what *)
(* the first one has done.                                                 *)
THEOREM BestThenNewest ==
    SearchSpec => []BestAndNewestFirst
  <1>1. SearchInv => BestAndNewestFirst
    <2> SUFFICES ASSUME SearchInv, search_pc = "done",
                        NEW i \in DOMAIN reply, NEW k \in DOMAIN reply, i < k
                 PROVE  LET Closer(a, b, n) == \A p \in query.plate :
                                EditsApart(p, b.plate, n) => EditsApart(p, a.plate, n)
                            Tied == \A n \in 0 .. Near : Closer(reply[k], reply[i], n)
                        IN  /\ \A n \in 0 .. Near : Closer(reply[i], reply[k], n)
                            /\ Tied => reply[i].time >= reply[k].time
      BY DEF BestAndNewestFirst
    <2>1. SearchArguments /\ AllDetected
      BY DEF SearchInv
    <2>2. PICK o, m : Sends(o, m)
      BY ReplySends
    <2> DEFINE a == o[i]
               b == o[k]
    <2>3. /\ i \in 1 .. m /\ k \in 1 .. m
          /\ a \in SentAt /\ b \in SentAt /\ a \in SelectedAt /\ b \in SelectedAt
          /\ reply[i] = table[a] /\ reply[k] = table[b]
      BY <2>2 DEF Sends
    <2>4. \/ Entries[a].score < Entries[b].score
          \/ Entries[a].score = Entries[b].score /\ Entries[a].row.time >= Entries[b].row.time
      BY <2>2, <2>3 DEF Sends, BestFirst
    <2>5. Entries[a].row = table[a] /\ Entries[b].row = table[b]
      BY <2>1, <2>3, EntriesTimed
    <2> HIDE DEF a, b
    <2>6. \A n \in 0 .. Near : \A p \in query.plate :
            /\ Entries[a].score \in Nat /\ Entries[b].score \in Nat
            /\ Entries[a].score <= n <=> EditsApart(p, reply[i].plate, n)
            /\ Entries[b].score <= n <=> EditsApart(p, reply[k].plate, n)
      BY <2>1, <2>3, EntryEdits
    <2>7. ASSUME NEW n \in 0 .. Near, NEW p \in query.plate, EditsApart(p, reply[k].plate, n)
          PROVE  EditsApart(p, reply[i].plate, n)
      <3>1. Entries[b].score <= n /\ Entries[a].score \in Nat /\ Entries[b].score \in Nat
        BY <2>6, <2>7
      <3>2. n \in Nat
        BY PlateSearchAssumption
      <3>3. Entries[a].score <= n
        BY <2>4, <3>1, <3>2
      <3> QED BY <2>6, <3>3
    <2>8. ASSUME \A n \in 0 .. Near : \A p \in query.plate :
                   EditsApart(p, reply[i].plate, n) => EditsApart(p, reply[k].plate, n)
          PROVE  reply[i].time >= reply[k].time
      <3>1. ASSUME query.plate = {} PROVE Entries[a].score = 0 /\ Entries[b].score = 0
        <4>1. \A j \in SelectedAt : j \in DOMAIN table /\ Entries[j].score = Score(table[j])
          BY <2>1, EntriesTimed
        <4> QED BY <2>1, <2>3, <3>1, <4>1, ScoreIs
      <3>2. ASSUME query.plate # {} PROVE Entries[b].score <= Entries[a].score
        <4> DEFINE n == Entries[a].score
        <4>1. PICK p \in query.plate : TRUE
          BY <3>2
        <4>2. 0 \in 0 .. Near
          BY PlateSearchAssumption
        <4>3. n \in Nat /\ n <= Near
          BY <2>3, <2>6, <3>2, <4>1, <4>2 DEF SentAt, NearEntries
        <4> HIDE DEF n
        <4>4. n \in 0 .. Near /\ n <= n
          BY <4>3, PlateSearchAssumption
        <4>5. EditsApart(p, reply[i].plate, n)
          BY <2>6, <4>4 DEF n
        <4>6. EditsApart(p, reply[k].plate, n)
          BY <2>8, <4>4, <4>5
        <4>7. Entries[b].score <= n
          BY <2>6, <4>4, <4>6
        <4> QED BY <4>7 DEF n
      <3>3. Entries[a].score \in Nat /\ Entries[b].score \in Nat
        <4>1. Timed(Entries, SelectedAt)
          BY <2>1, EntriesTimed
        <4> QED BY <2>3, <4>1 DEF Timed
      <3>4. ~(Entries[a].score < Entries[b].score)
        BY <3>1, <3>2, <3>3
      <3> QED BY <2>3, <2>4, <2>5, <3>4
    <2> QED BY <2>7, <2>8
  <1> QED BY <1>1, SearchInvariant, PTL
=============================================================================
