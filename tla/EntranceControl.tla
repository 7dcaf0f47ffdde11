--------------------------- MODULE EntranceControl ---------------------------
(***************************************************************************)
(* Who may come in.  A camera's event at an entrance counts the car inside *)
(* (a row of park_inner_cars) before it is decided whether there is room;  *)
(* a car for which there is none is put on the list park_wait_info.  An    *)
(* exit, and a gate controller that connects again, may let in a car of    *)
(* the list.  Gates are told to open, to stay closed (keep_close) and to   *)
(* end that (cancle_close).                                                *)
(*                                                                         *)
(* The handlers run on HTTP threads and on one thread per new device       *)
(* connection, without a lock or a transaction: todo[t] is what thread t   *)
(* still has to do, one database statement or one device command after the *)
(* other, and other threads run in between.                                *)
(*                                                                         *)
(* Outside the code: a camera reports the next car when the one before it  *)
(* has left the entrance; a car is reported once at the exit; a gate that  *)
(* is to stay closed may or may not obey an open command.  What a car pays *)
(* and when is the subject of ParkingLedger: here a car that is charged    *)
(* leaves park_inner_cars at some time after its exit event, one that is   *)
(* free as a step of the handler.                                          *)
(***************************************************************************)
EXTENDS Integers, Sequences, FiniteSets, SequencesExt

CONSTANTS
    Cars,            \* one for every stay
    VIPs,            \* the cars of customers: as many rows of park_vip_info
    Entrances,       \* entrance devices
    Threads,         \* threads that run on_device_data or led_show_new_client
    Terminal,        \* the thread of an operator's terminal
    NoCar,           \* "nobody stands there"
    Configs,         \* judge_remain_parking_number, berth_count and rectify_count
    MaxMishaps       \* bound: failing commands or statements, connections of devices
                     \* and gate commands of the operator, together


ASSUME EntranceAssumption ==
    /\ VIPs \subseteq Cars /\ NoCar \notin Cars
    /\ IsFiniteSet(Cars) /\ IsFiniteSet(Entrances)
    /\ Terminal \notin Threads
    /\ Configs \subseteq [judge : {0, 1, 2}, berths : Nat, rectify : Int]
    /\ MaxMishaps \in Nat

VARIABLES
    config,      \* the configuration of the lot
    inner,       \* park_inner_cars
    wait,        \* park_wait_info: rows of a device and a car
    at,          \* at[d]: the car that stands at entrance d
    leaving,     \* cars reported at the exit
    away,        \* cars that turned back at an entrance
    gate,        \* gate[d]: "auto", or "held" after keep_close
    letin,       \* cars the server, or the operator, has let in
    promised,    \* cars put on the waiting list and not taken off by an upset handler
    todo,        \* todo[t]: what thread t has still to do
    upset,       \* upset[t]: the tables changed under t, or a command of t failed
    excess,      \* cars let in by an upset handler, in place of another, by the operator
    mishaps      \* how many of MaxMishaps have happened

history == <<letin, promised, excess>>
vars == <<config, inner, wait, at, leaving, away, gate, todo, upset, history, mishaps>>

-----------------------------------------------------------------------------
(* QueryParkingNumber.                                                     *)
real_remain_parking == config.berths - Cardinality(inner) + config.rectify

(* The correction is added twice.                                          *)
real_temporary_parking ==
    config.berths - Cardinality(VIPs) + config.rectify - Cardinality(inner \ VIPs)
      + config.rectify

(* The number the configured mode goes by.                                 *)
Remain == IF config.judge = 2 THEN real_temporary_parking ELSE real_remain_parking
IsCustomer(car) == config.judge = 2 /\ car \in VIPs

Init ==
    /\ config \in Configs
    /\ inner \in SUBSET Cars /\ Remain >= 0
    /\ gate = [d \in Entrances |-> IF Remain = 0 THEN "held" ELSE "auto"]
    /\ letin = inner
    /\ wait = {} /\ leaving = {} /\ away = {} /\ promised = {}
    /\ at = [d \in Entrances |-> NoCar]
    /\ todo = [t \in Threads |-> <<>>]
    /\ upset = [t \in Threads |-> FALSE]
    /\ excess = 0 /\ mishaps = 0

-----------------------------------------------------------------------------
(* The steps of the handlers.                                              *)
Count(d, car) == [op |-> "count", device |-> d, car |-> car]
AskWaiting(d, car, remain) == [op |-> "ask_waiting", device |-> d, car |-> car, remain |-> remain]
Replace(d, car) == [op |-> "replace", device |-> d, car |-> car]
InsertRow(d, car) == [op |-> "insert_row", device |-> d, car |-> car]
DeleteRow(d) == [op |-> "delete_row", device |-> d]
FindPlate(car) == [op |-> "find_plate", car |-> car]
DeletePlate(car) == [op |-> "delete_plate", car |-> car]
DeleteInner(car) == [op |-> "delete_inner", car |-> car]
CountExit(car) == [op |-> "count_exit", car |-> car]
PickWaiting(car, remain) == [op |-> "pick_waiting", car |-> car, remain |-> remain]
CountNew(d) == [op |-> "count_new", device |-> d]
PickNew(d, remain) == [op |-> "pick_new", device |-> d, remain |-> remain]
Cancel(d) == [op |-> "cancel", device |-> d]
Open(d, car) == [op |-> "open", device |-> d, car |-> car]
Hold(d) == [op |-> "hold", device |-> d]
HoldAll == [op |-> "hold_all"]
EndTry == [op |-> "end_try"]

Mishap == mishaps < MaxMishaps /\ mishaps' = mishaps + 1

At(t, op) == todo[t] # <<>> /\ Head(todo[t]).op = op
AfterTry(steps) == IF steps # <<>> /\ Head(steps) = EndTry THEN Tail(steps) ELSE steps
Then(t, steps) == todo' = [todo EXCEPT ![t] = AfterTry(steps \o Tail(@))]

(* A step of t disturbs the handlers that are under way on other threads.  *)
Upset(t, failed) ==
    upset' = [u \in Threads |->
                /\ todo'[u] # <<>>
                /\ \/ upset[u] /\ todo[u] # <<>>
                   \/ u = t /\ failed
                   \/ u # t /\ <<inner', wait', gate'>> # <<inner, wait, gate>>]

-----------------------------------------------------------------------------
(* A car at an entrance: InsertPassVehicleInfo (its trigger adds the inner *)
(* row), then auto_open_entrance_gateway; a car of a limited plate type,   *)
(* or one the release mode leaves to the operator, is counted all the same *)
(* but nothing is decided about it.                                        *)
Arrives(t, d, car) ==
    /\ todo[t] = <<>>
    /\ at[d] = NoCar
    /\ car \notin inner \cup leaving \cup away
    /\ at' = [at EXCEPT ![d] = car]
    /\ inner' = inner \cup {car}
    /\ \E steps \in {<<>>, <<Count(d, car)>>} : todo' = [todo EXCEPT ![t] = steps]
    /\ UNCHANGED <<config, wait, leaving, away, gate, history, mishaps>>
    /\ Upset(t, FALSE)

(* Slip: the car at the gate is taken not to be counted yet. *)
BindOffByOne(d, car, remain) ==
    IF IsCustomer(car)
    THEN <<Cancel(d), Open(d, car)>> \o (IF remain > 0 THEN <<>> ELSE <<Hold(d)>>)
    ELSE IF remain + 1 < 0 THEN <<Replace(d, car)>> ELSE <<AskWaiting(d, car, remain + 1)>>

remain_parking_number_bind(d, car, remain) ==
    IF IsCustomer(car)
    THEN <<Cancel(d), Open(d, car)>> \o (IF remain > 0 THEN <<>> ELSE <<Hold(d)>>)
    ELSE IF remain < 0 THEN <<Replace(d, car)>> ELSE <<AskWaiting(d, car, remain)>>

auto_open_entrance_gateway(t) ==
    /\ At(t, "count")
    /\ LET s == Head(todo[t]) IN
       Then(t, IF config.judge = 0 THEN <<Open(s.device, s.car)>>
               ELSE remain_parking_number_bind(s.device, s.car, Remain))
    /\ UNCHANGED <<config, inner, wait, at, leaving, away, gate, history, mishaps>>
    /\ Upset(t, FALSE)

(* There is room: the last place.  Open, and close all entrances.          *)
LastPlace(t) ==
    /\ At(t, "ask_waiting") /\ Head(todo[t]).remain = 0
    /\ LET s == Head(todo[t]) IN
       Then(t, (IF wait = {} THEN <<>> ELSE <<Cancel(s.device)>>)
                 \o <<Open(s.device, s.car), HoldAll>>)
    /\ UNCHANGED <<config, inner, wait, at, leaving, away, gate, history, mishaps>>
    /\ Upset(t, FALSE)

(* More than one place.  Somebody waits, so the gate may be held.          *)
RoomDespiteWaiting(t) ==
    /\ At(t, "ask_waiting") /\ Head(todo[t]).remain > 0 /\ wait # {}
    /\ LET s == Head(todo[t]) IN Then(t, <<Cancel(s.device), Open(s.device, s.car)>>)
    /\ UNCHANGED <<config, inner, wait, at, leaving, away, gate, history, mishaps>>
    /\ Upset(t, FALSE)

(* Nobody waits: no command is sent, the car is left to the gate's own     *)
(* mode and to the operator.                                               *)
RoomForAll(t) ==
    /\ At(t, "ask_waiting") /\ Head(todo[t]).remain > 0 /\ wait = {}
    /\ LET s == Head(todo[t]) IN
       /\ at' = [at EXCEPT ![s.device] = IF @ = s.car THEN NoCar ELSE @]
       /\ letin' = letin \cup {s.car}
       /\ excess' = IF upset[t] /\ s.car \notin letin THEN excess + 1 ELSE excess
    /\ Then(t, <<>>)
    /\ UNCHANGED <<config, inner, wait, leaving, away, gate, promised, mishaps>>
    /\ Upset(t, FALSE)

(* No room: QueryWaitVehicleByDevice_ip, the old row of the device goes.   *)
QueryWaitVehicleByDevice_ip(t) ==
    /\ At(t, "replace")
    /\ LET s == Head(todo[t]) IN
       Then(t, (IF \E row \in wait : row.device = s.device THEN <<DeleteRow(s.device)>>
                ELSE <<>>) \o <<InsertRow(s.device, s.car)>>)
    /\ UNCHANGED <<config, inner, wait, at, leaving, away, gate, history, mishaps>>
    /\ Upset(t, FALSE)

(* Slip: the row names the car that stands there by now. *)
InsertStanding(t) ==
    /\ At(t, "insert_row")
    /\ LET s == Head(todo[t]) IN
       /\ wait' = wait \cup {[device |-> s.device, car |-> at[s.device]]}
       /\ promised' = promised \cup {at[s.device]}
    /\ Then(t, <<>>)
    /\ UNCHANGED <<config, inner, at, leaving, away, gate, letin, excess, mishaps>>
    /\ Upset(t, FALSE)

InsertWaitVehicleInfo(t) ==
    /\ At(t, "insert_row")
    /\ LET s == Head(todo[t]) IN
       /\ wait' = wait \cup {[device |-> s.device, car |-> s.car]}
       /\ promised' = promised \cup {s.car}
    /\ Then(t, <<>>)
    /\ UNCHANGED <<config, inner, at, leaving, away, gate, letin, excess, mishaps>>
    /\ Upset(t, FALSE)

DeleteWaitVehicleByDevice_ip(t) ==
    /\ At(t, "delete_row")
    /\ LET gone == {row \in wait : row.device = Head(todo[t]).device} IN
       /\ wait' = wait \ gone
       /\ promised' = IF upset[t] THEN promised \ {row.car : row \in gone} ELSE promised
    /\ Then(t, <<>>)
    /\ UNCHANGED <<config, inner, at, leaving, away, gate, letin, excess, mishaps>>
    /\ Upset(t, FALSE)

-----------------------------------------------------------------------------
(* The gates.                                                              *)
cancle_close(t) ==
    /\ At(t, "cancel")
    /\ gate' = [gate EXCEPT ![Head(todo[t]).device] = "auto"]
    /\ Then(t, <<>>)
    /\ UNCHANGED <<config, inner, wait, at, leaving, away, history, mishaps>>
    /\ Upset(t, FALSE)

keep_close(t) ==
    /\ At(t, "hold")
    /\ gate' = [gate EXCEPT ![Head(todo[t]).device] = "held"]
    /\ Then(t, <<>>)
    /\ UNCHANGED <<config, inner, wait, at, leaving, away, history, mishaps>>
    /\ Upset(t, FALSE)

(* keep_close for every entrance, each command in a try block of its own:  *)
(* one that fails leaves the gate as it is and the loop goes on.           *)
keep_close_all(t) ==
    /\ At(t, "hold_all")
    /\ \/ gate' = [d \in Entrances |-> "held"] /\ UNCHANGED mishaps
       \/ \E d \in Entrances : Mishap /\ gate' = [[e \in Entrances |-> "held"] EXCEPT ![d] = gate[d]]
    /\ Then(t, <<>>)
    /\ UNCHANGED <<config, inner, wait, at, leaving, away, history>>
    /\ Upset(t, mishaps' # mishaps)

(* Whoever stands at the gate comes in.  The car the command was meant for *)
(* counts as let in, and so does another one that stands there.            *)
Standing(d) == {at[d]} \ {NoCar}

bgc_open(t) ==
    /\ At(t, "open")
    /\ LET s == Head(todo[t])
           meant == {s.car} \ letin
           others == Standing(s.device) \ ({s.car} \cup letin) IN
       /\ \/ /\ at' = [at EXCEPT ![s.device] = NoCar]
             /\ letin' = letin \cup meant \cup others
             /\ excess' = excess + Cardinality(others)
                            + (IF upset[t] THEN Cardinality(meant) ELSE 0)
          \/ /\ gate[s.device] = "held"
             /\ letin' = letin \cup meant
             /\ excess' = excess + (IF upset[t] THEN Cardinality(meant) ELSE 0)
             /\ UNCHANGED at
    /\ Then(t, <<>>)
    /\ UNCHANGED <<config, inner, wait, leaving, away, gate, promised, mishaps>>
    /\ Upset(t, FALSE)

(* on_operate_gateway: the operator opens, or changes the mode of a gate.  *)
on_operate_gateway(d) ==
    /\ Mishap
    /\ \/ /\ at[d] # NoCar
          /\ at' = [at EXCEPT ![d] = NoCar]
          /\ letin' = letin \cup {at[d]}
          /\ excess' = excess + Cardinality(Standing(d) \ letin)
          /\ UNCHANGED gate
       \/ /\ gate' = [gate EXCEPT ![d] = IF @ = "auto" THEN "held" ELSE "auto"]
          /\ UNCHANGED <<at, letin, excess>>
    /\ UNCHANGED <<config, inner, wait, leaving, away, todo, promised>>
    /\ Upset(Terminal, FALSE)

-----------------------------------------------------------------------------
(* A car turns back at the entrance.                                       *)
TurnsBack(t, d) ==
    /\ todo[t] = <<>>
    /\ at[d] # NoCar
    /\ away' = away \cup {at[d]}
    /\ at' = [at EXCEPT ![d] = NoCar]
    /\ todo' = [todo EXCEPT ![t] = <<FindPlate(at[d]), DeleteInner(at[d])>>]
    /\ UNCHANGED <<config, inner, wait, leaving, gate, history, mishaps>>
    /\ Upset(t, FALSE)

QueryWaitVehicleByPlate_num(t) ==
    /\ At(t, "find_plate")
    /\ LET car == Head(todo[t]).car IN
       Then(t, IF \E row \in wait : row.car = car THEN <<DeletePlate(car)>> ELSE <<>>)
    /\ UNCHANGED <<config, inner, wait, at, leaving, away, gate, history, mishaps>>
    /\ Upset(t, FALSE)

DeleteWaitVehicleByPlate_num(t) ==
    /\ At(t, "delete_plate")
    /\ wait' = {row \in wait : row.car # Head(todo[t]).car}
    /\ Then(t, <<>>)
    /\ UNCHANGED <<config, inner, at, leaving, away, gate, history, mishaps>>
    /\ Upset(t, FALSE)

DeleteInnerVehicle(t) ==
    /\ At(t, "delete_inner")
    /\ inner' = inner \ {Head(todo[t]).car}
    /\ Then(t, <<>>)
    /\ UNCHANGED <<config, wait, at, leaving, away, gate, history, mishaps>>
    /\ Upset(t, FALSE)

-----------------------------------------------------------------------------
(* A car at the exit.                                                      *)
Inside == {car \in letin \cap inner : \A d \in Entrances : at[d] # car}

Leaves(t, car) ==
    /\ todo[t] = <<>>
    /\ car \in Inside \ (leaving \cup away)
    /\ leaving' = leaving \cup {car}
    /\ \E release \in {<<>>, <<DeleteInner(car)>>} :
         todo' = [todo EXCEPT ![t] =
                    release \o IF config.judge = 0 THEN <<>> ELSE <<CountExit(car)>>]
    /\ UNCHANGED <<config, inner, wait, at, away, gate, history, mishaps>>
    /\ Upset(t, FALSE)

(* A car that is charged: its checkout deletes the entry.                  *)
Pays(car) ==
    /\ car \in leaving \cap inner
    /\ inner' = inner \ {car}
    /\ UNCHANGED <<config, wait, at, leaving, away, gate, todo, history, mishaps>>
    /\ Upset(Terminal, FALSE)

QueryParkingNumber(t) ==
    /\ At(t, "count_exit")
    /\ LET car == Head(todo[t]).car IN
       Then(t, IF IsCustomer(car) THEN <<>> ELSE <<PickWaiting(car, Remain)>>)
    /\ UNCHANGED <<config, inner, wait, at, leaving, away, gate, history, mishaps>>
    /\ Upset(t, FALSE)

(* Slip: the car that leaves is taken to be off park_inner_cars already. *)
ReleasesIfRoom(remain, row) ==
    IF remain > 0
    THEN <<Cancel(row.device), Open(row.device, row.car), DeleteRow(row.device)>>
    ELSE IF remain = 0
    THEN <<Cancel(row.device), Open(row.device, row.car), HoldAll, DeleteRow(row.device)>>
    ELSE <<>>

(* Slip: the gate is opened before it is allowed to. *)
OpensHeldGate(remain, row) ==
    IF remain + 1 > 0
    THEN <<Open(row.device, row.car), Cancel(row.device), DeleteRow(row.device)>>
    ELSE IF remain + 1 = 0
    THEN <<Open(row.device, row.car), Cancel(row.device), HoldAll, DeleteRow(row.device)>>
    ELSE <<>>

(* What an exit does for a row of the waiting list.                        *)
ReleaseOf(remain, row) ==
    IF remain + 1 > 0
    THEN <<Cancel(row.device), Open(row.device, row.car), DeleteRow(row.device)>>
    ELSE IF remain + 1 = 0
    THEN <<Cancel(row.device), Open(row.device, row.car), HoldAll, DeleteRow(row.device)>>
    ELSE <<>>

(* start_wait_time is never assigned: max_element returns any row.         *)
wait_vehicle_release(t) ==
    /\ At(t, "pick_waiting")
    /\ \/ wait = {} /\ Then(t, <<>>)
       \/ \E row \in wait : Then(t, ReleaseOf(Head(todo[t]).remain, row))
    /\ UNCHANGED <<config, inner, wait, at, leaving, away, gate, history, mishaps>>
    /\ Upset(t, FALSE)

-----------------------------------------------------------------------------
(* A device connects again: led_show_new_client.                           *)
new_client(t, d) ==
    /\ todo[t] = <<>>
    /\ Mishap
    /\ todo' = [todo EXCEPT ![t] = <<CountNew(d)>>]
    /\ UNCHANGED <<config, inner, wait, at, leaving, away, gate, history>>
    /\ Upset(t, FALSE)

CountForNewClient(t) ==
    /\ At(t, "count_new")
    /\ Then(t, <<PickNew(Head(todo[t]).device, real_remain_parking)>>)
    /\ UNCHANGED <<config, inner, wait, at, leaving, away, gate, history, mishaps>>
    /\ Upset(t, FALSE)

(* The row is deleted whatever came of the attempt to let the car in.      *)
led_show_new_client(t) ==
    /\ At(t, "pick_new")
    /\ LET s == Head(todo[t]) IN
       \/ /\ wait = {}
          /\ Then(t, <<IF s.remain <= 0 THEN Hold(s.device) ELSE Cancel(s.device)>>)
       \/ \E row \in wait :
            Then(t, IF s.remain < 0 THEN <<>>
                    ELSE <<Count(row.device, row.car), EndTry, DeleteRow(row.device)>>)
    /\ UNCHANGED <<config, inner, wait, at, leaving, away, gate, history, mishaps>>
    /\ Upset(t, FALSE)

(* A command or a statement fails.  In auto_open_entrance_gateway the      *)
(* exception ends there and its caller goes on, everywhere else the rest   *)
(* of the handler is given up.                                             *)
Throws(t) ==
    /\ todo[t] # <<>> /\ ~At(t, "hold_all")
    /\ Mishap
    /\ LET ends == {i \in DOMAIN todo[t] : todo[t][i] = EndTry} IN
       todo' = [todo EXCEPT ![t] =
                  IF ends # {} THEN SubSeq(@, 1 + CHOOSE i \in ends : TRUE, Len(@))
                  ELSE <<>>]
    /\ UNCHANGED <<config, inner, wait, at, leaving, away, gate, history>>
    /\ Upset(t, TRUE)

-----------------------------------------------------------------------------
Step(t) ==
    \/ auto_open_entrance_gateway(t) \/ LastPlace(t) \/ RoomDespiteWaiting(t) \/ RoomForAll(t)
    \/ QueryWaitVehicleByDevice_ip(t)
    \/ InsertWaitVehicleInfo(t) \/ DeleteWaitVehicleByDevice_ip(t)
    \/ cancle_close(t) \/ keep_close(t) \/ keep_close_all(t) \/ bgc_open(t)
    \/ QueryWaitVehicleByPlate_num(t) \/ DeleteWaitVehicleByPlate_num(t)
    \/ DeleteInnerVehicle(t) \/ QueryParkingNumber(t) \/ wait_vehicle_release(t)
    \/ CountForNewClient(t) \/ led_show_new_client(t)

Next ==
    \/ \E t \in Threads : Step(t) \/ Throws(t)
    \/ \E t \in Threads, d \in Entrances, car \in Cars : Arrives(t, d, car)
    \/ \E t \in Threads, d \in Entrances : TurnsBack(t, d)
    \/ \E t \in Threads, car \in Cars : Leaves(t, car)
    \/ \E t \in Threads, d \in Entrances : new_client(t, d)
    \/ \E d \in Entrances : on_operate_gateway(d)
    \/ \E car \in Cars : Pays(car)

Spec == Init /\ [][Next]_vars

-----------------------------------------------------------------------------
(* Every variable holds a value of its type; a car never stands at two     *)
(* entrances, and every row of the waiting list names a car.               *)
TypeOK ==
    /\ config \in Configs
    /\ inner \subseteq Cars /\ leaving \subseteq Cars /\ away \subseteq Cars
    /\ wait \subseteq [device : Entrances, car : Cars]
    /\ at \in [Entrances -> Cars \cup {NoCar}]
    /\ gate \in [Entrances -> {"auto", "held"}]
    /\ letin \subseteq Cars /\ promised \subseteq Cars
    /\ upset \in [Threads -> BOOLEAN] /\ excess \in 0 .. Cardinality(Cars)
    /\ \A d, e \in Entrances : (at[d] = at[e] /\ at[d] # NoCar) => d = e

(* The places of the lot, as QueryParkingNumber counts them.               *)
Capacity == config.berths + (IF config.judge = 2 THEN 2 ELSE 1) * config.rectify
InLot == (letin \cap inner) \ (leaving \cup away)

(* The lot is never fuller than it may be, except by one car for every     *)
(* decision that was overtaken (the tables or the gates changed between    *)
(* the start of the handler and its open command, or a command failed),    *)
(* every car that drove in through a gate opened for another, and every    *)
(* one the operator let in: counting a car before deciding about it, and   *)
(* taking a car at the exit as gone, never gives a place away twice.       *)
OverfullOnlyByOverlap ==
    config.judge # 0 => Cardinality(InLot) <= Capacity + excess

(* A car that was told to wait and still stands there is on the list,      *)
(* unless a handler that was overtaken, or one of whose commands failed,   *)
(* took it off.  (With a count of temporary places only, as                *)
(* led_show_new_client tests one number and then lets in by the other;     *)
(* that case is excluded.)                                                 *)
WaitingCarIsListed ==
    config.judge = 1 =>
      \A d \in Entrances : at[d] \in promised => [device |-> d, car |-> at[d]] \in wait

(* When one car waits and one leaves, the exit lets the waiting car in, by *)
(* its release if it leaves free and by the place it will give up if it is *)
(* charged: the threshold of wait_vehicle_release fits both.               *)
LoneWaiterReleased ==
    [][\A t \in Threads : \A row \in wait :
         (/\ wait_vehicle_release(t) /\ ~upset[t]
          /\ config.judge = 1 /\ excess = 0
          /\ wait = {row} /\ inner \ letin = {row.car}
          /\ leaving \cap inner \subseteq {Head(todo[t]).car} /\ away \cap inner = {})
         => \E i \in DOMAIN todo'[t] : todo'[t][i] = Open(row.device, row.car)]_vars
=============================================================================
