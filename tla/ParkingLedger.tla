---------------------------- MODULE ParkingLedger ----------------------------
(***************************************************************************)
(* Charging: what a pass event of a camera (on_device_data), a manual      *)
(* match (on_match_plate), a payment (on_checkout) and a correction of a   *)
(* plate (on_revise_plate) do to the tables park_detect_info,              *)
(* park_inner_cars, park_charge_info and park_vip_info.                    *)
(*                                                                         *)
(* HTTP and terminal requests are served by thread pools, and the server   *)
(* uses no database transaction: every SQL statement commits by itself and *)
(* any other request may run between two of them.  A thread is therefore   *)
(* the list of the statements its handler still has to execute; a query    *)
(* whose result decides how the handler goes on puts the statements of     *)
(* that branch in front of the list.  An exception (a failing statement)   *)
(* drops the rest of the list: the handlers catch it at their top.         *)
(*                                                                         *)
(* What a stay costs is decided by the fee rules from the two pass times;  *)
(* here it is an attribute of the exit event.  Pass times increase with    *)
(* the identity of the event.                                              *)
(***************************************************************************)
EXTENDS Integers, Sequences, FiniteSets, SequencesExt

CONSTANTS
    Plates,        \* licence plates
    Read,          \* the plates cameras read
    Kind,          \* Kind[p]: what the plate is to the server
    InitBalance,   \* InitBalance[p]: stored value of the plate at the start
    ExitModes,     \* release modes configured for the exit devices of the lot
    Fees,          \* what a stay may cost
    HttpThreads,   \* threads running on_device_data
    Terminals,     \* threads running requests of user terminals
    NidIsKey,      \* whether park_charge_info rejects a second row with the same nid
    MaxPasses,     \* bound: pass events
    MaxCharges,    \* bound: charge identifiers generated
    MaxFailures    \* bound: statements that fail and plates that stand corrected, together

Kinds == {"temporary", "stored", "whitelist", "taxi", "nonmotor", "unrecognised"}
ReleaseModes == {"ChargeRelease", "UnconditionalRelease", "WhiteListRelease", "BlackList"}

ASSUME LedgerAssumption ==
    /\ Read \subseteq Plates
    /\ Kind \in [Plates -> Kinds]
    /\ InitBalance \in [Plates -> Nat]
    /\ ExitModes \subseteq ReleaseModes
    /\ Fees \subseteq Nat
    /\ HttpThreads \cap Terminals = {}
    /\ NidIsKey \in BOOLEAN
    /\ MaxPasses \in Nat /\ MaxCharges \in Nat /\ MaxFailures \in Nat

Threads == HttpThreads \cup Terminals
NoPass == 0
NoId == 0

VARIABLES
    passes,     \* park_detect_info: pass events; the index is the nid, plate is as read
    inner,      \* park_inner_cars: identities of the entries of the cars inside
    charges,    \* park_charge_info
    balance,    \* remain_money of park_vip_info
    accounted,  \* stored value covered by a charge row or by a fee announced as reduced
    lastId,     \* charge identifiers generated so far
    todo,       \* todo[t]: the statements thread t has still to execute
    quotes,     \* fees announced to a terminal and neither paid nor cancelled there
    unmatched,  \* exit events announced to a terminal without an entry
    opened,     \* open commands the exit gate has executed
    stranded,   \* entries whose delete was dropped by a failing statement
    failures    \* statements that have failed

vars == <<passes, inner, charges, balance, accounted, lastId, todo, quotes,
          unmatched, opened, stranded, failures>>

Init ==
    /\ passes = <<>> /\ inner = {} /\ charges = {}
    /\ balance = InitBalance
    /\ accounted = [p \in Plates |-> 0]
    /\ lastId = 0
    /\ todo = [t \in Threads |-> <<>>]
    /\ quotes = {} /\ unmatched = {} /\ opened = {} /\ stranded = {}
    /\ failures = 0

-----------------------------------------------------------------------------
(* The statements.                                                         *)
Row(id, enter, exit, charge, pay) ==
    [id |-> id, enter |-> enter, exit |-> exit, charge |-> charge, pay |-> pay,
     payer |-> {}]
StoredRow(id, enter, exit, charge, p) ==
    [Row(id, enter, exit, charge, "stored") EXCEPT !.payer = {p}]

Insert(row) == [op |-> "insert", row |-> row]
Delete(pass) == [op |-> "delete", pass |-> pass]
DeleteByPlate(p) == [op |-> "delete_by_plate", plate |-> p]
Update(p, money) == [op |-> "update", plate |-> p, money |-> money]
LatestCharge(p) == [op |-> "latest_charge", plate |-> p]
FindEntry(exit, then) == [op |-> "find_entry", exit |-> exit, then |-> then]
HandleCharge(enter, exit, p, by) ==
    [op |-> "handle_charge", enter |-> enter, exit |-> exit, plate |-> p, by |-> by]
NotifyQuote(q) == [op |-> "notify_quote", quote |-> q]
NotifyUnmatched(exit) == [op |-> "notify_unmatched", exit |-> exit]
NotifyFree(exit, auto) == [op |-> "notify_free", exit |-> exit, auto |-> auto]
OpenGate(exit, why) == [op |-> "open", exit |-> exit, why |-> why]
OpenOrThrow(exit) == [op |-> "open_or_throw", exit |-> exit]
ReplyQuote(q) == [op |-> "reply_quote", quote |-> q]
ReplyPaid(q) == [op |-> "reply_paid", quote |-> q]

Corrected == {x \in DOMAIN passes : passes[x].carno # passes[x].plate}
MayFail == failures + Cardinality(Corrected) < MaxFailures

Begin(t, statements) == todo[t] = <<>> /\ todo' = [todo EXCEPT ![t] = statements]
At(t, op) == todo[t] # <<>> /\ Head(todo[t]).op = op
Then(t, statements) == todo' = [todo EXCEPT ![t] = statements \o Tail(@)]
Throw(t) == todo' = [todo EXCEPT ![t] = <<>>]

(* delete_temporary_passrecord does nothing for an empty entry identity.   *)
delete_temporary_passrecord(enter) ==
    IF enter = NoPass THEN <<>> ELSE <<Delete(enter)>>

(* Slip: the entry is not taken off park_inner_cars. *)
RecordOnly(row) == <<Insert(row)>>

(* A charge row, then the entry leaves park_inner_cars: RecordAutoCharge   *)
(* and InsertCharge do the two in this order.                              *)
Record(row) == <<Insert(row)>> \o delete_temporary_passrecord(row.enter)

-----------------------------------------------------------------------------
(* on_device_data: the event is stored (a trigger of the database adds an  *)
(* inbound one to park_inner_cars), then handled by kind, device and       *)
(* direction.  Opening the entrance changes none of these tables.          *)

(* The Release methods for a vehicle leaving through the exit: an exit     *)
(* that is not charged is recorded with or without an open command.        *)
TaxiRelease(exit) == <<FindEntry(exit, "free")>>
UnconditionalRelease(exit) == <<FindEntry(exit, "free")>>
WhiteListRelease(p, exit) ==
    <<FindEntry(exit, IF Kind[p] = "whitelist" THEN "free" ELSE "free_closed")>>

(* ReleaseFactory::Create                                                  *)
ExitRelease(p, exit, mode) ==
    CASE Kind[p] = "taxi" -> TaxiRelease(exit)
      [] Kind[p] # "taxi" /\ mode = "ChargeRelease" -> <<FindEntry(exit, "charge")>>
      [] Kind[p] # "taxi" /\ mode = "UnconditionalRelease" -> UnconditionalRelease(exit)
      [] Kind[p] # "taxi" /\ mode = "WhiteListRelease" -> WhiteListRelease(p, exit)
      [] OTHER -> <<>>

(* Slip: a car backing in at the exit keeps the row the trigger added. *)
BackedInStays(p, device, direction, pass, mode) ==
    CASE Kind[p] = "nonmotor" -> IF direction = "in" THEN <<Delete(pass)>> ELSE <<>>
      [] Kind[p] # "nonmotor" /\ device = "exit" /\ direction = "in" -> <<LatestCharge(p)>>
      [] OTHER -> <<>>

PassProgram(p, device, direction, pass, mode) ==
    CASE Kind[p] = "nonmotor" -> IF direction = "in" THEN <<Delete(pass)>> ELSE <<>>
      [] Kind[p] # "nonmotor" /\ device = "exit" /\ direction = "in" ->
            <<Delete(pass), LatestCharge(p)>>
      [] Kind[p] # "nonmotor" /\ device = "entrance" /\ direction = "out" ->
            <<DeleteByPlate(p)>>
      [] Kind[p] # "nonmotor" /\ device = "exit" /\ direction = "out" ->
            ExitRelease(p, pass, mode)
      [] OTHER -> <<>>

on_device_data(t, p, device, direction, fee, mode) ==
    LET pass == Len(passes) + 1 IN
    /\ pass <= MaxPasses
    /\ passes' = Append(passes, [plate |-> p, carno |-> p, device |-> device,
                                 direction |-> direction, fee |-> fee])
    /\ inner' = IF direction = "in" THEN inner \cup {pass} ELSE inner
    /\ Begin(t, PassProgram(p, device, direction, pass, mode))
    /\ UNCHANGED <<charges, balance, accounted, lastId, quotes, unmatched,
                   opened, stranded, failures>>

(* DeleteInnerVehicle, DeleteTemporaryPassRecord *)
DeleteInner(t) ==
    /\ At(t, "delete")
    /\ inner' = inner \ {Head(todo[t]).pass}
    /\ Then(t, <<>>)
    /\ UNCHANGED <<passes, charges, balance, accounted, lastId, quotes,
                   unmatched, opened, stranded, failures>>

DeleteInnerVehicleByPlateNumber(t) ==
    /\ At(t, "delete_by_plate")
    /\ inner' = {e \in inner : passes[e].carno # Head(todo[t]).plate}
    /\ Then(t, <<>>)
    /\ UNCHANGED <<passes, charges, balance, accounted, lastId, quotes,
                   unmatched, opened, stranded, failures>>

(* A car drives back in through the exit.  The query for the latest charge *)
(* of its plate selects nid and enter_nid but the code also reads          *)
(* record_time of the first row, which throws; without a row record_time   *)
(* is empty, counts as longer ago than ten minutes and the handler returns.*)
(* Deleting the charge row and restoring the entry is never reached.       *)
QueryLastestChargeByPlateNumber(t) ==
    /\ At(t, "latest_charge")
    /\ Throw(t)
    /\ UNCHANGED <<passes, inner, charges, balance, accounted, lastId, quotes,
                   unmatched, opened, stranded, failures>>

-----------------------------------------------------------------------------
(* QueryEnterVehicle: the entry of the plate with the latest pass time.    *)
EnterVehicles(p) ==
    {e \in inner : passes[e].carno = p /\ passes[e].direction = "in"}

LatestEntry(p) ==
    IF Kind[p] = "unrecognised" \/ EnterVehicles(p) = {} THEN NoPass
    ELSE CHOOSE e \in EnterVehicles(p) : \A d \in EnterVehicles(p) : d <= e

(* The branch of ChargeRelease::Release or HandleExitPassVehicle.          *)
ReleaseProgram(enter, exit, then, id) ==
    CASE then = "charge" /\ enter = NoPass -> <<NotifyUnmatched(exit)>>
      [] then = "charge" /\ enter # NoPass -> <<HandleCharge(enter, exit, passes[exit].plate, "device")>>
      [] OTHER -> Record(Row(id, enter, exit, 0, "other"))
                    \o <<NotifyFree(exit, then = "free")>>

QueryEnterVehicle(t) ==
    /\ At(t, "find_entry")
    /\ LET s == Head(todo[t])
           enter == LatestEntry(passes[s.exit].plate) IN
       /\ lastId' = IF s.then = "charge" THEN lastId ELSE lastId + 1
       /\ lastId' <= MaxCharges
       /\ Then(t, ReleaseProgram(enter, s.exit, s.then, lastId'))
    /\ UNCHANGED <<passes, inner, charges, balance, accounted, quotes,
                   unmatched, opened, stranded, failures>>

(* Slip: the balance is not compared with the fee. *)
StoredValueUnchecked(p, id, enter, exit, fee, money) ==
    Record(StoredRow(id, enter, exit, fee, p)) \o <<Update(p, money - fee)>>

(* Slip: the balance is written before the row. *)
StoredValueUpdatesFirst(p, id, enter, exit, fee, money) ==
    IF money >= fee
    THEN <<Update(p, money - fee)>> \o Record(StoredRow(id, enter, exit, fee, p))
    ELSE <<Update(p, 0)>>

(* StoredValueCharge::CalCharge with the balance read by ChargeFactory:    *)
(* the row, the entry and the balance if the money suffices; otherwise     *)
(* what is left is taken at once and the rest is required.  A fee of zero  *)
(* is also recorded by BuildChargeJson, under the same identifier.         *)
StoredValueProgram(p, id, enter, exit, fee, money) ==
    IF money >= fee
    THEN (IF fee = 0 THEN Record(Row(id, enter, exit, 0, "other")) ELSE <<>>)
           \o Record(StoredRow(id, enter, exit, fee, p))
           \o <<Update(p, money - fee)>>
    ELSE <<Update(p, 0)>>

(* Slip: a stay that costs nothing is not recorded. *)
TimedUnrecorded(id, enter, exit, fee) == <<>>

(* Every other kind pays the fee of the stay (of the part outside a VIP    *)
(* period); nothing to pay is recorded at once.                            *)
TimedProgram(id, enter, exit, fee) ==
    IF fee = 0 THEN Record(Row(id, enter, exit, 0, "other")) ELSE <<>>

RequireCharge(p, fee, money) ==
    IF Kind[p] # "stored" THEN fee
    ELSE IF money >= fee THEN 0 ELSE fee - money

(* What the caller of handle_charge does with the required charge.         *)
AfterCharge(by, q) ==
    CASE by = "device" -> <<NotifyQuote(q)>>
      [] by = "match" /\ q.require = 0 -> <<OpenGate(q.exit, "charged"), ReplyQuote(q)>>
      [] OTHER -> <<ReplyQuote(q)>>

handle_charge(t) ==
    /\ At(t, "handle_charge")
    /\ lastId < MaxCharges
    /\ lastId' = lastId + 1
    /\ LET s == Head(todo[t])
           p == s.plate
           fee == passes[s.exit].fee
           money == balance[p]
           q == [id |-> lastId + 1, enter |-> s.enter, exit |-> s.exit,
                 require |-> RequireCharge(p, fee, money)] IN
       /\ Then(t, (IF Kind[p] = "stored"
                   THEN StoredValueProgram(p, lastId + 1, s.enter, s.exit, fee, money)
                   ELSE TimedProgram(lastId + 1, s.enter, s.exit, fee))
                  \o AfterCharge(s.by, q))
       /\ accounted' = IF Kind[p] = "stored" /\ money < fee
                       THEN [accounted EXCEPT ![p] = @ + money] ELSE accounted
    /\ UNCHANGED <<passes, inner, charges, balance, quotes, unmatched, opened,
                   stranded, failures>>

(* InsertChargeRecord *)
Duplicate(row) == NidIsKey /\ \E r \in charges : r.id = row.id

InsertChargeRecord(t) ==
    /\ At(t, "insert")
    /\ LET row == Head(todo[t]).row IN
       /\ ~Duplicate(row)
       /\ charges' = charges \cup {row}
       /\ accounted' = [p \in Plates |->
                          accounted[p] + IF p \in row.payer THEN row.charge ELSE 0]
    /\ Then(t, <<>>)
    /\ UNCHANGED <<passes, inner, balance, lastId, quotes, unmatched, opened,
                   stranded, failures>>

PendingDeletes(t) == {s.pass : s \in {u \in ToSet(todo[t]) : u.op = "delete"}}

(* The key of park_charge_info rejects the row: sql_execute_exception.     *)
InsertRejected(t) ==
    /\ At(t, "insert")
    /\ Duplicate(Head(todo[t]).row)
    /\ Throw(t)
    /\ stranded' = stranded \cup PendingDeletes(t)
    /\ UNCHANGED <<passes, inner, charges, balance, accounted, lastId, quotes,
                   unmatched, opened, failures>>

UpdateStoredValue(t) ==
    /\ At(t, "update")
    /\ balance' = [balance EXCEPT ![Head(todo[t]).plate] = Head(todo[t]).money]
    /\ Then(t, <<>>)
    /\ UNCHANGED <<passes, inner, charges, accounted, lastId, quotes, unmatched,
                   opened, stranded, failures>>

-----------------------------------------------------------------------------
(* notify_pass_vehicle returns whether some terminal bound to the device   *)
(* got the message.                                                        *)
NotifiedQuote(t) ==
    /\ At(t, "notify_quote")
    /\ quotes' = quotes \cup {Head(todo[t]).quote}
    /\ Then(t, <<>>)
    /\ UNCHANGED <<passes, inner, charges, balance, accounted, lastId,
                   unmatched, opened, stranded, failures>>

(* Nobody is there: open if nothing is due, else record the charge as not  *)
(* collected, without opening.                                             *)
NobodyForQuote(t) ==
    /\ At(t, "notify_quote")
    /\ LET q == Head(todo[t]).quote IN
       IF q.require = 0
       THEN lastId' = lastId /\ Then(t, <<OpenGate(q.exit, "charged")>>)
       ELSE /\ lastId < MaxCharges
            /\ lastId' = lastId + 1
            /\ Then(t, Record(Row(lastId + 1, q.enter, q.exit, q.require, "cash")))
    /\ UNCHANGED <<passes, inner, charges, balance, accounted, quotes,
                   unmatched, opened, stranded, failures>>

NotifiedUnmatched(t) ==
    /\ At(t, "notify_unmatched")
    /\ unmatched' = unmatched \cup {Head(todo[t]).exit}
    /\ Then(t, <<>>)
    /\ UNCHANGED <<passes, inner, charges, balance, accounted, lastId, quotes,
                   opened, stranded, failures>>

(* Here the gate opens first and the row comes second.                     *)
NobodyForUnmatched(t) ==
    /\ At(t, "notify_unmatched")
    /\ lastId < MaxCharges
    /\ lastId' = lastId + 1
    /\ LET exit == Head(todo[t]).exit IN
       Then(t, <<OpenGate(exit, "unmatched")>>
                 \o Record(Row(lastId + 1, NoPass, exit, 0, "other")))
    /\ UNCHANGED <<passes, inner, charges, balance, accounted, quotes,
                   unmatched, opened, stranded, failures>>

NotifyFreeExit(t) ==
    /\ At(t, "notify_free")
    /\ LET s == Head(todo[t]) IN
       \E notified \in BOOLEAN :
         Then(t, IF ~notified /\ s.auto THEN <<OpenGate(s.exit, "charged")>> ELSE <<>>)
    /\ UNCHANGED <<passes, inner, charges, balance, accounted, lastId, quotes,
                   unmatched, opened, stranded, failures>>

(* auto_open_exit_gateway and on_match_plate swallow the error of a gate   *)
(* that does not answer; on_checkout lets it through to its caller.        *)
GateOpens(t) ==
    /\ At(t, "open") \/ At(t, "open_or_throw")
    /\ LET s == Head(todo[t]) IN
       opened' = opened \cup {[exit |-> s.exit,
                               why |-> IF s.op = "open" THEN s.why ELSE "charged"]}
    /\ Then(t, <<>>)
    /\ UNCHANGED <<passes, inner, charges, balance, accounted, lastId, quotes,
                   unmatched, stranded, failures>>

GateErrorSwallowed(t) ==
    /\ At(t, "open")
    /\ MayFail
    /\ failures' = failures + 1
    /\ Then(t, <<>>)
    /\ UNCHANGED <<passes, inner, charges, balance, accounted, lastId, quotes,
                   unmatched, opened, stranded>>

(* Any SQL statement can fail, and in on_checkout the gate and, before the *)
(* answer, the LED.                                                        *)
Fallible == {"insert", "delete", "delete_by_plate", "update", "latest_charge",
             "find_entry", "handle_charge", "open_or_throw", "reply_paid"}

StatementFails(t) ==
    /\ \E statement \in Fallible : At(t, statement)
    /\ MayFail
    /\ failures' = failures + 1
    /\ stranded' = stranded \cup PendingDeletes(t)
    /\ Throw(t)
    /\ UNCHANGED <<passes, inner, charges, balance, accounted, lastId, quotes,
                   unmatched, opened>>

-----------------------------------------------------------------------------
(* The terminal.                                                           *)
Shown == unmatched \cup {q.exit : q \in quotes}
Entries == {e \in DOMAIN passes : passes[e].direction = "in"}

(* on_match_plate: the operator picks any entry from a list fetched        *)
(* earlier; the server checks that both events exist, not that the entry   *)
(* is still inside.                                                        *)
on_match_plate(t, enter, exit) ==
    /\ exit \in Shown
    /\ Begin(t, <<HandleCharge(enter, exit, passes[exit].carno, "match")>>)
    /\ UNCHANGED <<passes, inner, charges, balance, accounted, lastId, quotes,
                   unmatched, opened, stranded, failures>>

(* on_revise_plate: the operator corrects the plate of a pass event.  The  *)
(* row is changed; a handler that has read the event goes on with the old  *)
(* plate.                                                                  *)
on_revise_plate(t, pass, p) ==
    /\ todo[t] = <<>>
    /\ MayFail
    /\ passes[pass].carno # p
    /\ passes' = [passes EXCEPT ![pass].carno = p]
    /\ UNCHANGED <<inner, charges, balance, accounted, lastId, todo, quotes,
                   unmatched, opened, stranded, failures>>

MatchPlateResponse(t) ==
    /\ At(t, "reply_quote")
    /\ quotes' = quotes \cup {Head(todo[t]).quote}
    /\ unmatched' = unmatched \ {Head(todo[t]).quote.exit}
    /\ Then(t, <<>>)
    /\ UNCHANGED <<passes, inner, charges, balance, accounted, lastId, opened,
                   stranded, failures>>

(* Slip: the gate opens before the payment is recorded. *)
CheckoutOpensFirst(q, id, none) ==
    <<OpenOrThrow(q.exit)>>
      \o Record(Row(id, q.enter, q.exit, q.require, IF none THEN "no_entry" ELSE "cash"))
      \o <<ReplyPaid(q)>>

(* on_checkout: the row first (under the announced identifier, or a new    *)
(* one), then the entry unless the operator's comment says that there was  *)
(* none, then the gate.  The operator repeats a checkout that ended in an  *)
(* error: the quote is only gone with the answer.                          *)
CheckoutProgram(q, id, none) ==
    LET row == Row(id, q.enter, q.exit, q.require, IF none THEN "no_entry" ELSE "cash") IN
    (IF none THEN <<Insert(row)>> ELSE Record(row))
      \o <<OpenOrThrow(q.exit), ReplyPaid(q)>>

Unpriced(exit) ==
    [id |-> NoId, enter |-> NoPass, exit |-> exit, require |-> passes[exit].fee]

on_checkout(t, q, none) ==
    /\ q.id = NoId => lastId < MaxCharges
    /\ lastId' = IF q.id = NoId THEN lastId + 1 ELSE lastId
    /\ Begin(t, CheckoutProgram(q, IF q.id = NoId THEN lastId' ELSE q.id, none))
    /\ UNCHANGED <<passes, inner, charges, balance, accounted, quotes,
                   unmatched, opened, stranded, failures>>

CheckoutResponse(t) ==
    /\ At(t, "reply_paid")
    /\ quotes' = quotes \ {Head(todo[t]).quote}
    /\ unmatched' = unmatched \ {Head(todo[t]).quote.exit}
    /\ Then(t, <<>>)
    /\ UNCHANGED <<passes, inner, charges, balance, accounted, lastId, opened,
                   stranded, failures>>

(* The operator leaves the charging dialogue: no message is sent.          *)
CancelQuote(q) ==
    /\ quotes' = quotes \ {q}
    /\ UNCHANGED <<passes, inner, charges, balance, accounted, lastId, todo,
                   unmatched, opened, stranded, failures>>

-----------------------------------------------------------------------------
DeviceEvent ==
    \E t \in HttpThreads, p \in Read, mode \in ExitModes :
      \E device \in {"entrance", "exit"}, direction \in {"in", "out"} :
        \E fee \in IF device = "exit" /\ direction = "out" THEN Fees ELSE {0} :
          on_device_data(t, p, device, direction, fee, mode)

TerminalRequest ==
    \E t \in Terminals :
      \/ \E enter \in Entries, exit \in Shown : on_match_plate(t, enter, exit)
      \/ \E pass \in DOMAIN passes, p \in Plates : on_revise_plate(t, pass, p)
      \/ \E none \in BOOLEAN :
           \E q \in quotes \cup {Unpriced(x) : x \in unmatched} : on_checkout(t, q, none)

Statement(t) ==
    \/ DeleteInner(t) \/ DeleteInnerVehicleByPlateNumber(t)
    \/ QueryLastestChargeByPlateNumber(t) \/ QueryEnterVehicle(t)
    \/ handle_charge(t) \/ InsertChargeRecord(t) \/ InsertRejected(t)
    \/ UpdateStoredValue(t) \/ NotifiedQuote(t) \/ NobodyForQuote(t)
    \/ NotifiedUnmatched(t) \/ NobodyForUnmatched(t) \/ NotifyFreeExit(t)
    \/ GateOpens(t) \/ GateErrorSwallowed(t) \/ StatementFails(t)
    \/ MatchPlateResponse(t) \/ CheckoutResponse(t)

Next ==
    \/ DeviceEvent \/ TerminalRequest
    \/ \E t \in Threads : Statement(t)
    \/ \E q \in quotes : CancelQuote(q)

Spec == Init /\ [][Next]_vars

-----------------------------------------------------------------------------
Quotes == [id : 0 .. MaxCharges, enter : 0 .. MaxPasses, exit : 1 .. MaxPasses,
           require : Nat]
Rows == [id : 1 .. MaxCharges, enter : 0 .. MaxPasses, exit : 1 .. MaxPasses,
         charge : Nat, pay : {"stored", "other", "cash", "no_entry"},
         payer : SUBSET Plates]

(* Every table holds rows of its type; in particular no stored-value       *)
(* balance is ever negative and no recorded charge is.                     *)
TypeOK ==
    /\ passes \in Seq([plate : Plates, carno : Plates, device : {"entrance", "exit"},
                       direction : {"in", "out"}, fee : Nat])
    /\ inner \subseteq DOMAIN passes
    /\ charges \subseteq Rows
    /\ balance \in [Plates -> Nat]
    /\ accounted \in [Plates -> Nat]
    /\ lastId \in 0 .. MaxCharges
    /\ DOMAIN todo = Threads
    /\ quotes \subseteq Quotes
    /\ unmatched \subseteq DOMAIN passes
    /\ stranded \subseteq DOMAIN passes
    /\ failures \in 0 .. MaxFailures

(* Stored value leaves a customer's account only for a charge that is      *)
(* recorded as paid by stored value, or for a fee announced as reduced by  *)
(* it: whatever interleaving of exits of one customer, whatever statement  *)
(* fails, StoredValueCharge and UpdateStoredValue never take money that    *)
(* nothing accounts for.                                                   *)
NeverOvercharged == \A p \in Plates : InitBalance[p] - balance[p] <= accounted[p]

(* The server opens the exit gate for a vehicle with an entry, or for a    *)
(* payment, only when a charge row for that exit event is already in       *)
(* park_charge_info (only the exit of a vehicle without an entry, with no  *)
(* terminal there, is opened first and recorded second).                   *)
OpenedOnlyAfterRecorded ==
    \A o \in opened : o.why = "unmatched" \/ \E r \in charges : r.exit = o.exit

(* A vehicle whose stay has been recorded as charged does not stay in      *)
(* park_inner_cars (it would count as inside and could be charged again):  *)
(* the delete is done or is still to come, unless a statement failed in    *)
(* between or the operator recorded the exit as one without an entry.      *)
RecordedEntryLeaves ==
    \A r \in charges :
      \/ r.enter = NoPass \/ r.pay = "no_entry"
      \/ r.enter \notin inner
      \/ r.enter \in stranded
      \/ \E t \in Threads : r.enter \in PendingDeletes(t)

(* park_inner_cars counts only vehicles that came in through the entrance  *)
(* and are motor vehicles: a row the trigger adds for a bicycle or for a   *)
(* car backing in at the exit is on its way out, or its delete failed.     *)
NoPhantomInside ==
    \A e \in inner :
      \/ passes[e].device = "entrance" /\ Kind[passes[e].plate] # "nonmotor"
      \/ e \in stranded
      \/ \E t \in Threads : e \in PendingDeletes(t)

(* A car that comes back through the exit right after it was charged is    *)
(* inside again with its charge withdrawn: the handler deletes the latest  *)
(* charge row of the plate and restores its entry.                         *)
ChargedAt(p) == {r \in charges : passes[r.exit].carno = p}
BackInRestoresEntry ==
    [][\A t \in Threads :
         QueryLastestChargeByPlateNumber(t) =>
           LET p == Head(todo[t]).plate IN
           (\E r \in ChargedAt(p) : r.enter # NoPass) =>
             \E r \in ChargedAt(p) : r \notin charges' /\ r.enter \in inner']_vars

(* Cancelling in the charging dialogue needs no message to the server: a   *)
(* customer with no open quote, no charge row and no request under way     *)
(* still has all of the stored value.                                      *)
CancelledQuoteCostsNothing ==
    \A p \in Plates :
      (/\ \A t \in Threads : todo[t] = <<>>
       /\ ChargedAt(p) = {}
       /\ \A q \in quotes : passes[q.exit].plate # p) => balance[p] = InitBalance[p]
=============================================================================
