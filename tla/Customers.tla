------------------------------ MODULE Customers ------------------------------
(***************************************************************************)
(* Who is leaving, and which part of the stay is charged: the rows of      *)
(* park_vip_info that match the plate under the configured match mode, the *)
(* parking type announced for the vehicle (GetParkingType), the kind of    *)
(* charge chosen for it (ChargeFactory::Create), and, for a customer who   *)
(* paid for a period, the intervals of the stay left to charge             *)
(* (CalTimeBasedVIPCharge).                                                *)
(*                                                                         *)
(* A plate is the sequence of its characters; those in Wide are Chinese,   *)
(* three bytes each in UTF-8, all others are one byte.  The code cuts a    *)
(* plate by bytes, the database compares characters.  A plate the camera   *)
(* could not read is two Chinese characters (device_message.h, line 118).  *)
(* A query returns its rows in the order of the table: its result is the   *)
(* set of their positions.                                                 *)
(* An exit is first stored with its parking type (InsertPassVehicleInfo    *)
(* calls GetParkingType) and then charged.                                 *)
(***************************************************************************)
EXTENDS Integers, Sequences, FiniteSets

CONSTANTS Plates,     \* plates of the vehicles that leave
          VipTables,  \* contents of park_vip_info: sequences of rows
          Wide,       \* characters of three bytes
          AnyChar,    \* the wildcard '_' of the SQL operator LIKE
          Times       \* pass times; 0 is the time of a field that is null

VipTypes == {"WhiteListVIP", "StoredValueVIP", "MonthlyVIP", "TemporaryVIP"}
TimeBased == VipTypes \ {"StoredValueVIP"}
WhitelistMatchMode == {"ExactMatch", "IgnoreProvinceMatch", "FuzzyMatch"}
Modes == WhitelistMatchMode \cup {"OtherMode"}   \* any other number in sys_config
Temporary == "TemporaryVehicle"

IsWord(w) == w \in Seq({w[i] : i \in DOMAIN w})

(* No plate a camera reads has the wildcard in it.                         *)
ASSUME CustomersAssumption ==
    /\ Times \subseteq Nat
    /\ \A p \in Plates : IsWord(p) /\ \A i \in DOMAIN p : p[i] # AnyChar
    /\ \A table \in VipTables : IsWord(table)
    /\ \A table \in VipTables : \A i \in DOMAIN table :
         /\ IsWord(table[i].plate)
         /\ table[i].type \in VipTypes /\ table[i].deleted \in BOOLEAN
         /\ table[i].begin \in Nat /\ table[i].expiry \in Nat
         /\ table[i].begin <= table[i].expiry

VARIABLES
    exit,          \* the arguments: plate, entry and exit time, match mode, table
    exit_pc,       \* "query", "create", "charge", "done" or "thrown"
    parking_type,  \* what GetParkingType returns
    class,         \* the Charge that ChargeFactory creates
    vip,           \* the rows it was created with: none or one
    charged        \* the intervals ChargeByTime is called with

exit_vars == <<exit, exit_pc, parking_type, class, vip, charged>>

Exits ==
    {[plate |-> p, enter |-> s, time |-> e, mode |-> m, table |-> table] :
       p \in Plates, s \in Times, e \in Times, m \in Modes, table \in VipTables}

ExitInit ==
    /\ exit \in {x \in Exits : 0 < x.enter /\ x.enter < x.time}
    /\ exit_pc = "query"
    /\ parking_type = Temporary /\ class = Temporary /\ vip = {} /\ charged = <<>>

-----------------------------------------------------------------------------
(* The match.                                                              *)
Like(plate, pattern) ==
    /\ Len(plate) = Len(pattern)
    /\ \A i \in DOMAIN pattern : pattern[i] = AnyChar \/ pattern[i] = plate[i]

Blank(plate, i) == [plate EXCEPT ![i] = AnyChar]

(* The byte at which character i of a plate begins; the end is that of the *)
(* character after the last.                                               *)
Offset(plate, i) == i - 1 + 2 * Cardinality({k \in 1 .. i - 1 : plate[k] \in Wide})
Bytes(plate) == Offset(plate, Len(plate) + 1)

(* What follows the first three bytes, behind a '_'.  A pattern cut within *)
(* a character is no string of the database's character set and matches    *)
(* nothing: here it is no pattern.                                         *)
WithoutProvince(plate) ==
    {<<AnyChar>> \o SubSeq(plate, i, Len(plate)) :
       i \in {k \in 1 .. Len(plate) + 1 : Offset(plate, k) = 3}}

(* A '_' in the place of the byte at offset b, or behind the last one.     *)
ByteReplaced(plate, b) ==
    {Blank(plate, i) : i \in {k \in DOMAIN plate : plate[k] \notin Wide /\ Offset(plate, k) = b}}
      \cup (IF Bytes(plate) = b THEN {Append(plate, AnyChar)} ELSE {})

(* Slip: the last byte is not replaced. *)
AllButLast(plate) == WithoutProvince(plate) \cup UNION {ByteReplaced(plate, b) : b \in 3 .. 7}

FuzzyPatterns(plate) == WithoutProvince(plate) \cup UNION {ByteReplaced(plate, b) : b \in 3 .. 8}

Patterns(plate, mode) ==
    CASE mode = "IgnoreProvinceMatch" -> WithoutProvince(plate)
      [] mode = "FuzzyMatch" -> FuzzyPatterns(plate)
      [] OTHER -> {plate}

(* substr and replace throw beyond the end of the plate.                   *)
QueryThrows ==
    \/ exit.mode = "FuzzyMatch" /\ Bytes(exit.plate) < 8
    \/ exit.mode = "IgnoreProvinceMatch" /\ Bytes(exit.plate) < 3

Matching ==
    {i \in DOMAIN exit.table :
       \E q \in Patterns(exit.plate, exit.mode) : Like(exit.table[i].plate, q)}

First(positions) == {i \in positions : \A j \in positions : i <= j}

(* An exact query looks at the first row only; so does ChargeFactory for a *)
(* number that is no match mode.                                           *)
Found == IF exit.mode \in {"ExactMatch", "OtherMode"} THEN First(Matching) ELSE Matching

-----------------------------------------------------------------------------
(* Slip: the last moment of the period no longer belongs to it. *)
StrictlyValid(row, time) == ~row.deleted /\ row.begin <= time /\ time < row.expiry

(* GetParkingType: the type of the first row that is valid at the exit;    *)
(* for a number that is no match mode there is no query.                   *)
IsValidVIP(row, time) == ~row.deleted /\ row.begin <= time /\ time <= row.expiry

Rows(positions) == {exit.table[i] : i \in positions}

GetParkingType ==
    /\ exit_pc = "query" /\ ~QueryThrows
    /\ parking_type' =
         LET valid == Rows(First({i \in Found : IsValidVIP(exit.table[i], exit.time)})) IN
         IF valid = {} \/ exit.mode \notin WhitelistMatchMode
         THEN Temporary ELSE (CHOOSE row \in valid : TRUE).type
    /\ exit_pc' = "create"
    /\ UNCHANGED <<exit, class, vip, charged>>

GetParkingTypeThrows ==
    /\ exit_pc = "query" /\ QueryThrows
    /\ exit_pc' = "thrown"
    /\ UNCHANGED <<exit, parking_type, class, vip, charged>>

(* Slip: the first row of any type is taken. *)
FirstRow(found) == Rows(First(found))

(* ChargeFactory::Create: the first row of a customer with a paid period,  *)
(* valid or not; only without one a row with stored value.                 *)
ChosenRow(found) ==
    LET paid == {i \in found : exit.table[i].type \in TimeBased} IN
    Rows(First(IF paid # {} THEN paid ELSE found))

ChargeFactoryCreate ==
    /\ exit_pc = "create"
    /\ vip' = ChosenRow(Found)
    /\ class' = IF vip' = {} THEN Temporary ELSE (CHOOSE row \in vip' : TRUE).type
    /\ exit_pc' = "charge"
    /\ UNCHANGED <<exit, parking_type, charged>>

-----------------------------------------------------------------------------
(* Slip: an entry before the paid period is not charged for. *)
PeriodIgnoresEntry(row, enter, time) ==
    IF row.deleted \/ row.expiry = 0 \/ time <= row.begin THEN <<<<enter, time>>>>
    ELSE IF time <= row.expiry THEN <<>>
    ELSE IF enter < row.expiry THEN <<<<row.expiry, time>>>> ELSE <<<<enter, time>>>>

(* CalTimeBasedVIPCharge: the parts of the stay outside the paid period.   *)
CalTimeBasedVIPCharge(row, enter, time) ==
    IF row.deleted \/ row.expiry = 0 \/ time <= row.begin THEN <<<<enter, time>>>>
    ELSE IF time <= row.expiry
         THEN IF enter < row.begin THEN <<<<enter, row.begin>>>> ELSE <<>>
    ELSE IF enter < row.begin THEN <<<<enter, row.begin>>, <<row.expiry, time>>>>
    ELSE IF enter < row.expiry THEN <<<<row.expiry, time>>>>
    ELSE <<<<enter, time>>>>

(* Everybody else is charged for the whole stay.                           *)
CalCharge ==
    /\ exit_pc = "charge"
    /\ charged' = IF class \in TimeBased
                  THEN CalTimeBasedVIPCharge(CHOOSE row \in vip : TRUE, exit.enter, exit.time)
                  ELSE <<<<exit.enter, exit.time>>>>
    /\ exit_pc' = "done"
    /\ UNCHANGED <<exit, parking_type, class, vip>>

ExitNext == GetParkingType \/ GetParkingTypeThrows \/ ChargeFactoryCreate \/ CalCharge

ExitSpec == ExitInit /\ [][ExitNext]_exit_vars

-----------------------------------------------------------------------------
(* The reference: how often each moment of the stay is charged.            *)
Charges(t) == Cardinality({i \in DOMAIN charged : charged[i][1] <= t /\ t < charged[i][2]})
Paid(row, t) == ~row.deleted /\ row.expiry # 0 /\ row.begin <= t /\ t < row.expiry

(* Every moment of the stay that the customer's paid period does not cover *)
(* is charged exactly once, and no moment it covers is charged, wherever   *)
(* the two ends of the stay lie before, in or after the period.            *)
ChargedOutsidePaidPeriod ==
    exit_pc = "done" =>
      \A t \in exit.enter .. exit.time - 1 :
        Charges(t) = IF class \in TimeBased /\ \E row \in vip : Paid(row, t) THEN 0 ELSE 1

(* Under any of the three match modes, a vehicle that leaves without       *)
(* anything to charge was announced as one of a customer, never as a       *)
(* temporary vehicle: the two functions that classify a plate, one by      *)
(* validity and the other by type, agree on it.  (With another number in   *)
(* sys_config they do not: ChargeFactory matches exactly, GetParkingType   *)
(* not at all.)                                                            *)
FreeStayIsCustomer ==
    (exit_pc = "done" /\ charged = <<>> /\ exit.mode \in WhitelistMatchMode) =>
      parking_type # Temporary

(* The other way round: a vehicle announced as that of a customer with a   *)
(* paid period is charged as one, never from a balance or as a temporary   *)
(* vehicle, wherever the row stands among those that match.  (Which of its *)
(* rows decides may still differ: the announced one is valid, the charged  *)
(* one is the first.)                                                      *)
AnnouncedPeriodUsed ==
    (exit_pc \in {"charge", "done"} /\ parking_type \in TimeBased) => class \in TimeBased

(* The fuzzy match "with one character that differs" of a regular plate, a *)
(* Chinese character and six of one byte, finds a row if and only if the   *)
(* plates differ in one character at most, whatever the row's characters.  *)
(* (A plate that ends in a Chinese character has a broken pattern, and no  *)
(* plate of less than eight bytes gets this far.)                          *)
Regular(plate) == Len(plate) = 7 /\ \A i \in 1 .. 7 : plate[i] \in Wide <=> i = 1
Differences(p, q) == Cardinality({i \in DOMAIN p : p[i] # q[i]})
FuzzyIsOneCharacter ==
    (exit.mode = "FuzzyMatch" /\ Regular(exit.plate)) =>
      \A i \in DOMAIN exit.table :
        LET row == exit.table[i] IN
        (i \in Matching) <=>
          (Len(row.plate) = 7 /\ Differences(row.plate, exit.plate) <= 1)
=============================================================================
