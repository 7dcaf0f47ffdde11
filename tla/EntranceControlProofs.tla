----------------------- MODULE EntranceControlProofs -----------------------
(***************************************************************************)
(* That no place is given away twice and no waiting car is forgotten, for  *)
(* any number of cars, entrances, threads and mishaps.                     *)
(*                                                                         *)
(* Three layers, each proved with the help of the one before: Base, what   *)
(* the lists of steps look like and which cars they speak of; PlacesOK,    *)
(* the places that handlers under way may still give away; WaitingOK, the  *)
(* rows that they will still delete.                                       *)
(***************************************************************************)
EXTENDS EntranceControl, FiniteSetTheorems, SequenceTheorems, TLAPS

(* The steps of the handlers, with what each of them carries.              *)
Steps ==
    [op : {"count", "replace", "insert_row", "open"}, device : Entrances, car : Cars]
      \cup [op : {"ask_waiting"}, device : Entrances, car : Cars, remain : Int]
      \cup [op : {"delete_row", "count_new", "cancel", "hold"}, device : Entrances]
      \cup [op : {"find_plate", "delete_plate", "delete_inner", "count_exit"}, car : Cars]
      \cup [op : {"pick_waiting"}, car : Cars, remain : Int]
      \cup [op : {"pick_new"}, device : Entrances, remain : Int]
      \cup [op : {"hold_all", "end_try"}]

(* TypeOK, and what it leaves open.                                        *)
Typed ==
    /\ TypeOK
    /\ todo \in [Threads -> Seq(Steps)]
    /\ excess <= Cardinality(letin)

(* Every car the server speaks of has been counted inside, and is still    *)
(* there or has left or turned back: a car that arrives is a new one.  A   *)
(* row, or a step, names a car with the entrance it stands at, if it does. *)
Seen == inner \cup leaving \cup away
StandsAt(car, d) == \A e \in Entrances : at[e] = car => e = d
CarsOK ==
    /\ letin \subseteq Seen /\ promised \subseteq Seen
    /\ \A d \in Entrances : at[d] # NoCar => at[d] \in inner \ (leaving \cup away)
    /\ \A row \in wait : row.car \in Seen /\ StandsAt(row.car, row.device)

EntranceOps == {"count", "ask_waiting", "replace", "insert_row"}
ExitOps == {"count_exit", "pick_waiting"}
StepOK(st) ==
    /\ st.op \in EntranceOps \cup {"open"} => st.car \in Seen /\ StandsAt(st.car, st.device)
    /\ st.op \in ExitOps => st.car \in leaving
    /\ st.op = "pick_waiting" => ~IsCustomer(st.car)
    /\ st.op = "delete_inner" => st.car \in leaving \cup away
    /\ st.op \in {"find_plate", "delete_plate"} => st.car \in away

(* What may stand behind the first step of a list.                         *)
DeviceOps == EntranceOps \cup {"delete_row", "cancel", "open", "hold"}
MayFollow(l, i) ==
    \/ l[i].op = "open" /\ i = 2 /\ l[1].op = "cancel" /\ l[1].device = l[2].device
    \/ l[i].op = "insert_row" /\ i = 2 /\ l[1].op = "delete_row" /\ l[1].device = l[2].device
    \/ l[i].op = "count_exit" /\ i = 2 /\ Len(l) = 2
         /\ l[1].op = "delete_inner" /\ l[1].car = l[2].car
    \/ l[i].op = "delete_inner" /\ i = 2 /\ Len(l) = 2 /\ l[1].op \in {"find_plate", "delete_plate"}
    \/ /\ l[i].op \in {"hold", "hold_all"}
       /\ \/ i = 2 /\ l[1].op = "open"
          \/ i = 3 /\ l[1].op = "cancel" /\ l[2].op = "open"
       /\ l[i].op = "hold" => l[i].device = l[1].device
    \/ l[i].op = "end_try" /\ i + 1 = Len(l) /\ l[i + 1].op = "delete_row"
    \/ /\ l[i].op = "delete_row" /\ i = Len(l)
       /\ \/ l[1].op = "hold_all"
          \/ l[1].op \in DeviceOps /\ l[1].device = l[i].device
Ordered(l) == \A i \in DOMAIN l : i > 1 => MayFollow(l, i)

ListOK(l) == Ordered(l) /\ \A i \in DOMAIN l : StepOK(l[i])
Base == Typed /\ CarsOK /\ \A t \in Threads : ListOK(todo[t])

-----------------------------------------------------------------------------
(* The places.                                                             *)
Counted(S) == IF config.judge = 2 THEN S \ VIPs ELSE S
Places == Capacity - (IF config.judge = 2 THEN Cardinality(VIPs) ELSE 0)
Within == Cardinality(Counted(InLot)) <= Places + excess

(* Nobody is inside who may not be, even with the cars that wait.          *)
Tight == \/ Remain >= 0
         \/ Remain = -1 /\ Counted(inner) \cap (leaving \cup away) # {}
(* A car has left that makes room for one.                                 *)
Credit == Cardinality(Counted(InLot)) + 1 <= Places + excess

(* What a handler that was not overtaken has still to do.                  *)
Live(t) == {st \in Steps : ~upset[t] /\ \E i \in DOMAIN todo[t] : st = todo[t][i]}

(* Steps that will let in a car, or have one that leaves to account for.   *)
Opens(L) == \E st \in L : st.op = "open" /\ ~IsCustomer(st.car)
Exits(L) == \E st \in L : st.op \in ExitOps /\ ~IsCustomer(st.car)
Frees(L) == \E st \in L : st.op \in ExitOps /\ ~IsCustomer(st.car) /\ st.car \notin inner

(* What was read is still so.                                              *)
Fresh(L) ==
    \A st \in L :
      /\ st.op = "ask_waiting" /\ config.judge # 0 => st.remain = Remain /\ Remain >= 0
      /\ st.op = "pick_waiting" => st.remain = Remain
      /\ st.op = "pick_new" => st.remain = real_remain_parking
      /\ st.op = "delete_inner" => st.car \in inner

(* Two handlers may let in a car each only if there is room for both.      *)
PlacesOK ==
    /\ \A t \in Threads : Fresh(Live(t))
    /\ config.judge # 0 =>
         /\ Within
         /\ \A t \in Threads : Opens(Live(t)) => Remain >= -1
         /\ \A t \in Threads : Opens(Live(t)) \/ Exits(Live(t)) => Tight \/ Credit
         /\ \A t, u \in Threads :
              t # u /\ Opens(Live(u)) /\ (Opens(Live(t)) \/ Exits(Live(t))) => Tight
         /\ \A t, u \in Threads : Frees(Live(t)) /\ Frees(Live(u)) => t = u

-----------------------------------------------------------------------------
(* The waiting list.                                                       *)

(* What a handler has still to do about a car at an entrance, and with the *)
(* rows of the waiting list; that it ends by deleting one.                 *)
Entering(t) == {st \in Steps : st.op \in EntranceOps /\ \E i \in DOMAIN todo[t] : st = todo[t][i]}
Deleting(t) == {st \in Steps : st.op = "delete_row" /\ \E i \in DOMAIN todo[t] : st = todo[t][i]}
Cleans(t) == \E i \in DOMAIN todo[t] : i > 1 /\ todo[t][i].op = "delete_row"

(* Only one handler decides about a car that has arrived, and the car is   *)
(* not on the list yet.                                                    *)
ArrivalOK(t) ==
    ~Cleans(t) => \A st \in Entering(t) :
      /\ st.car \notin promised
      /\ \A row \in wait : row.car # st.car
      /\ \A u \in Threads : u # t => \A other \in Entering(u) : other.car # st.car
      /\ ~upset[t] => at[st.device] \in {NoCar, st.car}

(* The row a handler will delete is one of a car that has driven in or     *)
(* will have by then, or makes room for the row of one that just came.     *)
RowSafe(t, d) ==
    LET op == todo[t][1].op IN
    \/ at[d] = NoCar
    \/ op = "count" /\ wait # {} /\ Remain >= 0
    \/ op = "ask_waiting" /\ wait # {}
    \/ op = "cancel" /\ \E i \in DOMAIN todo[t] : todo[t][i].op = "open"
    \/ op = "open" /\ gate[d] = "auto"
    \/ op = "delete_row" /\ ~Cleans(t) /\ Entering(t) # {}
RowOK(t) == ~upset[t] => \A st \in Deleting(t) : RowSafe(t, st.device)

WaitingOK ==
    /\ \A t \in Threads : ArrivalOK(t)
    /\ config.judge = 1 => \A t \in Threads : RowOK(t)
    /\ WaitingCarIsListed

-----------------------------------------------------------------------------
(* Lists of steps.                                                         *)

(* A step has the fields that its operation needs.                         *)
LEMMA StepFields ==
    ASSUME NEW st \in Steps
    PROVE  /\ st.op \in EntranceOps \cup {"open"} => st.device \in Entrances /\ st.car \in Cars
           /\ st.op \in {"delete_row", "count_new", "cancel", "hold", "pick_new"} =>
                st.device \in Entrances
           /\ st.op \in ExitOps \cup {"find_plate", "delete_plate", "delete_inner"} =>
                st.car \in Cars
           /\ st.op \in {"ask_waiting", "pick_waiting", "pick_new"} => st.remain \in Int
           /\ st = EndTry <=> st.op = "end_try"
  BY DEF Steps, EntranceOps, ExitOps, EndTry

(* The steps that handlers put on a list.                                  *)
LEMMA StepsAre ==
    /\ \A d \in Entrances, car \in Cars :
         /\ Count(d, car) \in Steps /\ Replace(d, car) \in Steps
         /\ InsertRow(d, car) \in Steps /\ Open(d, car) \in Steps
         /\ \A r \in Int : AskWaiting(d, car, r) \in Steps
    /\ \A d \in Entrances :
         /\ DeleteRow(d) \in Steps /\ CountNew(d) \in Steps
         /\ Cancel(d) \in Steps /\ Hold(d) \in Steps
         /\ \A r \in Int : PickNew(d, r) \in Steps
    /\ \A car \in Cars :
         /\ FindPlate(car) \in Steps /\ DeletePlate(car) \in Steps
         /\ DeleteInner(car) \in Steps /\ CountExit(car) \in Steps
         /\ \A r \in Int : PickWaiting(car, r) \in Steps
    /\ HoldAll \in Steps /\ EndTry \in Steps
  BY DEF Steps, Count, Replace, InsertRow, Open, AskWaiting, DeleteRow, CountNew, Cancel, Hold,
         PickNew, FindPlate, DeletePlate, DeleteInner, CountExit, PickWaiting, HoldAll, EndTry

(* How many steps of a list are gone when s takes the place of the first:  *)
(* the end of a try block that comes next is passed with it.               *)
Passed(l, s) == IF s = <<>> /\ Len(l) >= 2 /\ l[2].op = "end_try" THEN 2 ELSE 1
Renewed(l, s) == AfterTry(s \o Tail(l))

(* The positions of a list whose first step was replaced by others.        *)
LEMMA Spliced ==
    ASSUME NEW l \in Seq(Steps), l # <<>>, NEW s \in Seq(Steps),
           s # <<>> => s[1].op # "end_try"
    PROVE  LET n == Renewed(l, s)
               p == Passed(l, s) IN
           /\ n \in Seq(Steps)
           /\ Len(l) \in Nat \ {0} /\ Len(s) \in Nat /\ Len(n) = Len(s) + Len(l) - p
           /\ DOMAIN l = 1 .. Len(l) /\ DOMAIN s = 1 .. Len(s) /\ DOMAIN n = 1 .. Len(n)
           /\ \A k \in 1 .. Len(n) :
                n[k] = IF k <= Len(s) THEN s[k] ELSE l[k - Len(s) + p]
  <1> DEFINE u == Tail(l)
             w == s \o u
  <1>1. /\ DOMAIN l = 1 .. Len(l) /\ DOMAIN s = 1 .. Len(s)
        /\ Len(l) \in Nat \ {0} /\ Len(s) \in Nat /\ l[1] = Head(l)
        /\ u \in Seq(Steps) /\ Len(u) = Len(l) - 1
        /\ \A i \in 1 .. Len(u) : u[i] = l[i + 1]
    OBVIOUS
  <1>0. s = <<>> <=> Len(s) = 0
    OBVIOUS
  <1> HIDE DEF u
  <1>2. /\ w \in Seq(Steps) /\ Len(w) = Len(s) + Len(u)
        /\ \A k \in 1 .. Len(s) + Len(u) : w[k] = IF k <= Len(s) THEN s[k] ELSE u[k - Len(s)]
    BY <1>1, ConcatProperties
  <1> HIDE DEF w
  <1>3. \A k \in 1 .. Len(w) : w[k] = IF k <= Len(s) THEN s[k] ELSE l[k - Len(s) + 1]
    <2> SUFFICES ASSUME NEW k \in 1 .. Len(w)
                 PROVE  w[k] = IF k <= Len(s) THEN s[k] ELSE l[k - Len(s) + 1]
      OBVIOUS
    <2>1. CASE k <= Len(s)
      BY <2>1, <1>1, <1>2
    <2>2. CASE ~(k <= Len(s))
      <3>1. k - Len(s) \in 1 .. Len(u) /\ w[k] = u[k - Len(s)]
        BY <2>2, <1>1, <1>2
      <3> QED BY <3>1, <1>1, <2>2
    <2> QED BY <2>1, <2>2
  <1>4. w # <<>> => Head(w) = w[1] /\ w[1] \in Steps /\ Len(w) >= 1
    BY <1>2
  <1>5. Renewed(l, s) = IF w # <<>> /\ w[1].op = "end_try" THEN Tail(w) ELSE w
    <2>1. w # <<>> => (Head(w) = EndTry <=> w[1].op = "end_try")
      BY <1>4, StepFields
    <2> QED BY <2>1 DEF Renewed, AfterTry, w, u
  <1>6. (w # <<>> /\ w[1].op = "end_try") <=> Passed(l, s) = 2
    <2>1. w = <<>> <=> Len(w) = 0
      BY <1>2
    <2>2. CASE Len(s) = 0
      BY <2>1, <2>2, <1>0, <1>1, <1>2, <1>3 DEF Passed
    <2>3. CASE Len(s) # 0
      BY <2>1, <2>3, <1>0, <1>1, <1>2, <1>3 DEF Passed
    <2> QED BY <2>2, <2>3
  <1>7. CASE Passed(l, s) = 2
    <2>1. Renewed(l, s) = Tail(w) /\ w # <<>> /\ Len(s) = 0
      BY <1>0, <1>1, <1>5, <1>6, <1>7 DEF Passed
    <2>2. /\ Tail(w) \in Seq(Steps) /\ Len(Tail(w)) = Len(w) - 1
          /\ \A k \in 1 .. (Len(w) - 1) : Tail(w)[k] = w[k + 1]
      BY <2>1, <1>2
    <2>3. \A k \in 1 .. (Len(w) - 1) : w[k + 1] = l[k + 2]
      BY <2>1, <1>1, <1>2, <1>3
    <2> HIDE DEF Passed
    <2> QED BY <2>1, <2>2, <2>3, <1>1, <1>2, <1>7
  <1>8. CASE Passed(l, s) # 2
    <2>1. Passed(l, s) = 1 /\ Renewed(l, s) = w
      BY <1>5, <1>6, <1>8 DEF Passed
    <2> QED BY <2>1, <1>1, <1>2, <1>3
  <1> QED BY <1>7, <1>8

(* Going on with the next step keeps the order.                            *)
LEMMA OrderedTail ==
    ASSUME NEW l \in Seq(Steps), l # <<>>, Ordered(l)
    PROVE  Ordered(Renewed(l, <<>>))
  <1> DEFINE n == Renewed(l, <<>>)
             p == Passed(l, <<>>)
  <1>1. /\ Len(l) \in Nat \ {0} /\ Len(n) = Len(l) - p
        /\ DOMAIN l = 1 .. Len(l) /\ DOMAIN n = 1 .. Len(n)
        /\ \A k \in 1 .. Len(n) : n[k] = l[k + p]
        /\ p \in {1, 2}
    <2>1. <<>> \in Seq(Steps) /\ Len(<<>>) = 0
      OBVIOUS
    <2>2. p \in {1, 2}
      BY DEF Passed
    <2>3. /\ Len(l) \in Nat \ {0} /\ Len(n) = 0 + Len(l) - p
          /\ DOMAIN l = 1 .. Len(l) /\ DOMAIN n = 1 .. Len(n)
          /\ \A k \in 1 .. Len(n) : n[k] = IF k <= 0 THEN <<>>[k] ELSE l[k - 0 + p]
      BY <2>1, Spliced, Zenon
    <2> HIDE DEF n, p
    <2> QED BY <2>2, <2>3
  <1>2. CASE p = 2
    <2>1. Len(l) >= 2 /\ l[2].op = "end_try"
      BY <1>2 DEF Passed
    <2> HIDE DEF n, p
    <2>2. 2 \in DOMAIN l /\ 2 > 1
      BY <2>1, <1>1
    <2>3. Len(l) = 3
      BY <2>1, <2>2, <1>1 DEF Ordered, MayFollow
    <2>4. \A i \in DOMAIN n : ~(i > 1)
      BY <2>3, <1>1, <1>2
    <2> QED BY <2>4 DEF Ordered, n
  <1>3. CASE p = 1
    <2> HIDE DEF n, p
    <2> SUFFICES ASSUME NEW i \in DOMAIN n, i > 1
                 PROVE  MayFollow(n, i)
      BY DEF Ordered, n
    <2>1. /\ i \in Nat /\ i + 1 \in DOMAIN l /\ 2 \in DOMAIN l /\ Len(n) = Len(l) - 1
          /\ n[i] = l[i + 1] /\ n[1] = l[2] /\ n[2] = l[3]
          /\ i + 1 < Len(l) => n[i + 1] = l[i + 2]
      BY <1>1, <1>3
    <2>2. MayFollow(l, 2) /\ MayFollow(l, i + 1)
      BY <2>1 DEF Ordered
    <2>3. l[2].op \in {"open", "insert_row", "hold", "hold_all", "end_try"}
      BY <2>1, <2>2, <1>1 DEF MayFollow
    <2>4. CASE l[2].op = "end_try"
      <3>1. i + 1 = Len(l) /\ l[3].op = "delete_row"
        BY <2>1, <2>2, <2>4, <1>1 DEF MayFollow
      <3>2. FALSE
        BY <3>1, <2>1, <2>4, <1>1, <1>3 DEF p, Passed
      <3> QED BY <3>2
    <2>5. CASE l[2].op # "end_try"
      <3>1. l[i + 1].op \in {"hold", "hold_all", "end_try", "delete_row"}
        BY <2>1, <2>2 DEF MayFollow
      <3>2. CASE l[i + 1].op \in {"hold", "hold_all"}
        BY <3>2, <2>1, <2>2, <2>3, <1>1 DEF MayFollow
      <3>3. CASE l[i + 1].op = "end_try"
        BY <3>3, <2>1, <2>2, <2>3, <1>1 DEF MayFollow
      <3>4. CASE l[i + 1].op = "delete_row"
        BY <3>4, <2>1, <2>2, <2>3, <2>5, <1>1 DEF MayFollow, DeviceOps, EntranceOps
      <3> QED BY <3>1, <3>2, <3>3, <3>4
    <2> QED BY <2>4, <2>5
  <1> QED BY <1>1, <1>2, <1>3

(* A step that decides about a car at an entrance is followed by nothing   *)
(* but the end of the try block and the delete of led_show_new_client;     *)
(* exits and reconnecting devices have one step at a time.                 *)
LEMMA BehindFirst ==
    ASSUME NEW l \in Seq(Steps), l # <<>>, Ordered(l)
    PROVE  /\ DOMAIN l = 1 .. Len(l) /\ Len(l) \in Nat \ {0} /\ Head(l) = l[1] /\ l[1] \in Steps
           /\ l[1].op \in EntranceOps \cup {"hold", "hold_all"} =>
                \A i \in DOMAIN l : i > 1 => l[i].op \in {"end_try", "delete_row"}
           /\ l[1].op \in ExitOps \cup {"count_new", "pick_new"} => Len(l) = 1
  <1>1. /\ DOMAIN l = 1 .. Len(l) /\ Len(l) \in Nat \ {0} /\ Head(l) = l[1] /\ l[1] \in Steps
    OBVIOUS
  <1>2. ASSUME l[1].op \in EntranceOps \cup {"hold", "hold_all"}, NEW i \in DOMAIN l, i > 1
        PROVE  l[i].op \in {"end_try", "delete_row"}
    BY <1>2 DEF Ordered, MayFollow, EntranceOps
  <1>3. ASSUME l[1].op \in ExitOps \cup {"count_new", "pick_new"}
        PROVE  Len(l) = 1
    <2> SUFFICES ASSUME Len(l) > 1
                 PROVE  FALSE
      BY <1>1
    <2>1. Len(l) \in DOMAIN l /\ 2 \in DOMAIN l
      BY <1>1
    <2>2. MayFollow(l, 2) /\ MayFollow(l, Len(l))
      BY <2>1, <1>1 DEF Ordered
    <2>3. l[2].op = "end_try" \/ l[2].op = "delete_row"
      BY <2>2, <1>3 DEF MayFollow, ExitOps
    <2>4. l[Len(l)].op = "delete_row"
      BY <2>2, <2>3, <1>1 DEF MayFollow
    <2> QED BY <2>2, <2>4, <1>3 DEF MayFollow, ExitOps, DeviceOps, EntranceOps
  <1> QED BY <1>1, <1>2, <1>3

(* What a decision puts in its own place, and what a handler begins with.  *)
Fits(l, s) ==
    /\ Ordered(s) /\ s[1].op # "end_try"
    /\ \/ Len(l) <= 1
       \/ /\ l[1].op \in EntranceOps
          /\ s[1].op \in DeviceOps /\ s[1].device = l[1].device /\ Len(s) \in 1 .. 3
          /\ \A i \in DOMAIN s : i > 1 => s[i].op \in {"open", "insert_row", "hold", "hold_all"}

(* A list stays in order when steps that fit take the place of the first.  *)
LEMMA OrderedNew ==
    ASSUME NEW l \in Seq(Steps), l # <<>>, Ordered(l),
           NEW s \in Seq(Steps), s # <<>>, Fits(l, s)
    PROVE  Ordered(Renewed(l, s))
  <1> DEFINE n == Renewed(l, s)
  <1>1. /\ Len(l) \in Nat \ {0} /\ Len(s) \in Nat \ {0} /\ Len(n) = Len(s) + Len(l) - 1
        /\ DOMAIN l = 1 .. Len(l) /\ DOMAIN s = 1 .. Len(s) /\ DOMAIN n = 1 .. Len(n)
        /\ \A k \in 1 .. Len(n) : n[k] = IF k <= Len(s) THEN s[k] ELSE l[k - Len(s) + 1]
    <2>1. Passed(l, s) = 1
      BY DEF Passed
    <2>2. Len(s) \in Nat \ {0}
      OBVIOUS
    <2>3. /\ Len(l) \in Nat \ {0} /\ Len(n) = Len(s) + Len(l) - Passed(l, s)
          /\ DOMAIN l = 1 .. Len(l) /\ DOMAIN s = 1 .. Len(s) /\ DOMAIN n = 1 .. Len(n)
          /\ \A k \in 1 .. Len(n) : n[k] = IF k <= Len(s) THEN s[k] ELSE l[k - Len(s) + Passed(l, s)]
      BY Spliced, Zenon DEF Fits
    <2> HIDE DEF n
    <2> QED BY <2>1, <2>2, <2>3
  <1> HIDE DEF n
  <1> SUFFICES ASSUME NEW i \in DOMAIN n, i > 1
               PROVE  MayFollow(n, i)
    BY DEF Ordered, n
  <1>2. n[1] = s[1] /\ (Len(s) > 1 => n[2] = s[2]) /\ i \in 1 .. Len(n)
    BY <1>1
  <1>3. CASE i <= Len(s)
    <2>1. MayFollow(s, i) /\ n[i] = s[i] /\ (i + 1 <= Len(s) => n[i + 1] = s[i + 1])
      BY <1>1, <1>3 DEF Ordered, Fits
    <2>2. CASE Len(l) <= 1
      BY <2>1, <2>2, <1>1, <1>2, <1>3 DEF MayFollow
    <2>3. CASE s[i].op \in {"open", "insert_row", "hold", "hold_all"}
      BY <2>1, <2>3, <1>1, <1>2, <1>3 DEF MayFollow
    <2> QED BY <2>2, <2>3, <1>1, <1>3 DEF Fits
  <1>4. CASE i > Len(s)
    <2>1. PICK j \in DOMAIN l : /\ j > 1 /\ Len(l) > 1 /\ n[i] = l[j]
                                /\ j + 1 = Len(l) => i + 1 = Len(n) /\ n[i + 1] = l[j + 1]
                                /\ j = Len(l) => i = Len(n)
      <3>0. Len(s) \in Nat /\ Len(l) \in Nat /\ Len(n) = Len(s) + Len(l) - 1 /\ i \in 1 .. Len(n)
        BY <1>1, <1>2
      <3>1. Len(l) > 1 /\ Len(s) \in 1 .. 3 /\ l[1].op \in EntranceOps
        <4>1. Len(l) > 1
          BY <3>0, <1>4
        <4> QED BY <4>1, <3>0 DEF Fits
      <3>2. Len(l) \in {2, 3}
        <4>0. 2 \in DOMAIN l /\ 2 > 1
          BY <3>0, <3>1, <1>1
        <4>1. MayFollow(l, 2)
          BY <4>0 DEF Ordered
        <4>2. l[2].op \in {"end_try", "delete_row"}
          BY <4>0, <3>1, BehindFirst
        <4> QED BY <4>1, <4>2, <3>0, <3>1 DEF MayFollow
      <3>3. CASE Len(l) = 2
        <4>1. i = Len(s) + 1 /\ i = Len(n) /\ n[i] = l[2] /\ 2 \in DOMAIN l
          BY <3>1, <3>3, <1>1, <1>2, <1>4
        <4> QED BY <4>1, <3>3
      <3>4. CASE Len(l) = 3
        <4>1. /\ Len(n) = Len(s) + 2 /\ {2, 3} \subseteq DOMAIN l
              /\ n[Len(s) + 1] = l[2] /\ n[Len(s) + 2] = l[3]
              /\ i \in {Len(s) + 1, Len(s) + 2}
          BY <3>1, <3>4, <1>1, <1>2, <1>4
        <4>2. CASE i = Len(s) + 1
          BY <4>1, <4>2, <3>1, <3>4
        <4>3. CASE i = Len(s) + 2
          <5>1. 3 \in DOMAIN l /\ 3 > 1 /\ n[i] = l[3] /\ i = Len(n) /\ ~(3 + 1 = Len(l))
            BY <4>1, <4>3, <3>4
          <5> QED BY <5>1, <3>1
        <4> QED BY <4>1, <4>2, <4>3
      <3> QED BY <3>2, <3>3, <3>4
    <2>2. MayFollow(l, j) /\ l[j].op \in {"end_try", "delete_row"}
      BY <2>1, BehindFirst DEF Ordered, Fits
    <2>3. CASE l[j].op = "end_try"
      <3>1. j + 1 = Len(l) /\ l[j + 1].op = "delete_row"
        BY <2>2, <2>3 DEF MayFollow
      <3> QED BY <3>1, <2>1, <2>3, <1>1, <1>2 DEF MayFollow
    <2>4. CASE l[j].op = "delete_row"
      BY <2>1, <2>2, <2>4, <1>2 DEF MayFollow, EntranceOps, Fits
    <2> QED BY <2>2, <2>3, <2>4
  <1> QED BY <1>1, <1>3, <1>4

(* The lists that handlers begin with or put in the place of a step.       *)
LEMMA Concats ==
    ASSUME NEW a, NEW b, NEW c
    PROVE  /\ <<>> \o <<>> = <<>> /\ <<>> \o <<a>> = <<a>> /\ <<a>> \o <<>> = <<a>>
           /\ <<a>> \o <<b>> = <<a, b>>
           /\ <<>> \o <<a, b>> = <<a, b>> /\ <<a, b>> \o <<>> = <<a, b>>
           /\ <<a>> \o <<b, c>> = <<a, b, c>> /\ <<a, b>> \o <<c>> = <<a, b, c>>
  <1> DEFINE S == {a, b, c}
  <1>1. /\ <<>> \in Seq(S) /\ <<a>> \in Seq(S) /\ <<b>> \in Seq(S) /\ <<c>> \in Seq(S)
        /\ <<a, b>> \in Seq(S) /\ <<b, c>> \in Seq(S) /\ <<a, b, c>> \in Seq(S)
    OBVIOUS
  <1>2. /\ Len(<<>>) = 0 /\ \A x : Len(<<x>>) = 1 /\ <<x>>[1] = x
        /\ \A x, y : Len(<<x, y>>) = 2 /\ <<x, y>>[1] = x /\ <<x, y>>[2] = y
        /\ Len(<<a, b, c>>) = 3 /\ <<a, b, c>>[1] = a /\ <<a, b, c>>[2] = b /\ <<a, b, c>>[3] = c
    OBVIOUS
  <1> HIDE DEF S
  <1>3. ASSUME NEW s \in Seq(S), NEW u \in Seq(S), Len(s) \in {1, 2}, Len(u) \in {1, 2}
        PROVE  /\ s \o u \in Seq(S) /\ Len(s \o u) = Len(s) + Len(u)
               /\ (s \o u)[1] = s[1] /\ (Len(s) = 2 => (s \o u)[2] = s[2])
               /\ (s \o u)[Len(s) + 1] = u[1] /\ (Len(u) = 2 => (s \o u)[Len(s) + 2] = u[2])
    <2> DEFINE v == s \o u
    <2>1. /\ v \in Seq(S) /\ Len(v) = Len(s) + Len(u)
          /\ \A k \in 1 .. Len(s) + Len(u) : v[k] = IF k <= Len(s) THEN s[k] ELSE u[k - Len(s)]
      BY ConcatProperties
    <2> HIDE DEF v
    <2>2. CASE Len(s) = 1
      BY <2>1, <2>2, <1>3 DEF v
    <2>3. CASE Len(s) = 2
      BY <2>1, <2>3, <1>3 DEF v
    <2> QED BY <2>2, <2>3, <1>3
  <1>4. <<>> \o <<>> = <<>> /\ <<>> \o <<a>> = <<a>> /\ <<a>> \o <<>> = <<a>>
    OBVIOUS
  <1>5. <<a>> \o <<b>> = <<a, b>>
    <2> DEFINE v == <<a>> \o <<b>>
    <2>1. v \in Seq(S) /\ Len(v) = 2 /\ v[1] = a /\ v[2] = b
      BY <1>1, <1>2, <1>3
    <2> HIDE DEF v
    <2>2. <<a, b>> \in Seq(S) /\ Len(<<a, b>>) = 2 /\ <<a, b>>[1] = a /\ <<a, b>>[2] = b
      BY <1>1, <1>2
    <2>3. Len(v) = Len(<<a, b>>) /\ \A i \in 1 .. Len(v) : v[i] = <<a, b>>[i]
      BY <2>1, <2>2
    <2> QED BY <2>1, <2>2, <2>3, SeqEqual DEF v
  <1>6. <<>> \o <<a, b>> = <<a, b>> /\ <<a, b>> \o <<>> = <<a, b>>
    OBVIOUS
  <1>7. <<a>> \o <<b, c>> = <<a, b, c>>
    <2> DEFINE v == <<a>> \o <<b, c>>
    <2>1. v \in Seq(S) /\ Len(v) = 3 /\ v[1] = a /\ v[2] = b /\ v[3] = c
      BY <1>1, <1>2, <1>3
    <2> HIDE DEF v
    <2>2. Len(v) = Len(<<a, b, c>>) /\ \A i \in 1 .. Len(v) : v[i] = <<a, b, c>>[i]
      BY <2>1, <1>2
    <2> QED BY <2>1, <2>2, <1>1, SeqEqual DEF v
  <1>8. <<a, b>> \o <<c>> = <<a, b, c>>
    <2> DEFINE v == <<a, b>> \o <<c>>
    <2>1. v \in Seq(S) /\ Len(v) = 3 /\ v[1] = a /\ v[2] = b /\ v[3] = c
      BY <1>1, <1>2, <1>3
    <2> HIDE DEF v
    <2>2. Len(v) = Len(<<a, b, c>>) /\ \A i \in 1 .. Len(v) : v[i] = <<a, b, c>>[i]
      BY <2>1, <1>2
    <2> QED BY <2>1, <2>2, <1>1, SeqEqual DEF v
  <1> QED BY <1>4, <1>5, <1>6, <1>7, <1>8

(* A list of literal steps.                                                *)
LEMMA Lists ==
    ASSUME NEW a \in Steps, NEW b \in Steps, NEW c \in Steps, NEW d \in Steps
    PROVE  /\ <<a>> \in Seq(Steps) /\ <<a>> # <<>> /\ DOMAIN <<a>> = {1} /\ Len(<<a>>) = 1
           /\ <<a, b>> \in Seq(Steps) /\ <<a, b>> # <<>>
           /\ DOMAIN <<a, b>> = {1, 2} /\ Len(<<a, b>>) = 2
           /\ <<a, b, c>> \in Seq(Steps) /\ <<a, b, c>> # <<>>
           /\ DOMAIN <<a, b, c>> = {1, 2, 3} /\ Len(<<a, b, c>>) = 3
           /\ <<a, b, c, d>> \in Seq(Steps) /\ <<a, b, c, d>> # <<>>
           /\ DOMAIN <<a, b, c, d>> = {1, 2, 3, 4} /\ Len(<<a, b, c, d>>) = 4
  OBVIOUS

(* The lists that decisions put down are in order.                         *)
LEMMA OrderedLists ==
    ASSUME NEW d \in Entrances, NEW car \in Cars
    PROVE  /\ \A a \in Steps : Ordered(<<a>>)
           /\ Ordered(<<Cancel(d), Open(d, car)>>)
           /\ Ordered(<<Open(d, car), HoldAll>>)
           /\ Ordered(<<Cancel(d), Open(d, car), Hold(d)>>)
           /\ Ordered(<<Cancel(d), Open(d, car), HoldAll>>)
           /\ Ordered(<<DeleteRow(d), InsertRow(d, car)>>)
           /\ Ordered(<<Cancel(d), Open(d, car), DeleteRow(d)>>)
           /\ Ordered(<<Cancel(d), Open(d, car), HoldAll, DeleteRow(d)>>)
           /\ Ordered(<<Count(d, car), EndTry, DeleteRow(d)>>)
  <1> USE DEF MayFollow, DeviceOps, EntranceOps
  <1>1. \A a \in Steps : Ordered(<<a>>)
    BY DEF Ordered
  <1>2. /\ Ordered(<<Cancel(d), Open(d, car)>>) /\ Ordered(<<Open(d, car), HoldAll>>)
        /\ Ordered(<<DeleteRow(d), InsertRow(d, car)>>)
    BY DEF Ordered, Cancel, Open, HoldAll, DeleteRow, InsertRow
  <1>3. /\ Ordered(<<Cancel(d), Open(d, car), Hold(d)>>)
        /\ Ordered(<<Cancel(d), Open(d, car), HoldAll>>)
        /\ Ordered(<<Cancel(d), Open(d, car), DeleteRow(d)>>)
    BY DEF Ordered, Cancel, Open, HoldAll, DeleteRow, Hold
  <1>4. Ordered(<<Cancel(d), Open(d, car), HoldAll, DeleteRow(d)>>)
    BY DEF Ordered, Cancel, Open, HoldAll, DeleteRow
  <1>5. Ordered(<<Count(d, car), EndTry, DeleteRow(d)>>)
    BY DEF Ordered, Count, EndTry, DeleteRow
  <1> QED BY <1>1, <1>2, <1>3, <1>4, <1>5

(* The lists of a car that leaves, by the exit or back the way it came.    *)
LEMMA OrderedExits ==
    ASSUME NEW car \in Cars
    PROVE  /\ Ordered(<<FindPlate(car), DeleteInner(car)>>)
           /\ Ordered(<<DeleteInner(car), CountExit(car)>>)
  BY DEF Ordered, MayFollow, FindPlate, DeleteInner, CountExit

-----------------------------------------------------------------------------
(* What a step of a handler does to the lists.                             *)

(* The list of t after a step that puts s in the place of the first one.   *)
LEMMA Goes ==
    ASSUME Base, NEW t \in Threads, todo[t] # <<>>,
           NEW s \in Seq(Steps), s # <<>> => s[1].op # "end_try", Then(t, s)
    PROVE  LET l == todo[t]
               n == todo'[t] IN
           /\ l \in Seq(Steps) /\ n = Renewed(l, s)
           /\ todo' \in [Threads -> Seq(Steps)]
           /\ \A u \in Threads : u # t => todo'[u] = todo[u]
           /\ \A k \in DOMAIN n : \/ k \in DOMAIN s /\ n[k] = s[k]
                                  \/ \E j \in DOMAIN l : j > 1 /\ n[k] = l[j]
  <1> DEFINE l == todo[t]
             n == Renewed(l, s)
             p == Passed(l, s)
  <1>1. todo \in [Threads -> Seq(Steps)] /\ l \in Seq(Steps)
    BY DEF Base, Typed
  <1>2. /\ n \in Seq(Steps)
        /\ Len(l) \in Nat \ {0} /\ Len(s) \in Nat /\ Len(n) = Len(s) + Len(l) - p
        /\ DOMAIN l = 1 .. Len(l) /\ DOMAIN s = 1 .. Len(s) /\ DOMAIN n = 1 .. Len(n)
        /\ \A k \in 1 .. Len(n) : n[k] = IF k <= Len(s) THEN s[k] ELSE l[k - Len(s) + p]
    BY <1>1, Spliced, Zenon
  <1>3. p \in {1, 2}
    BY DEF Passed
  <1>4. todo' = [todo EXCEPT ![t] = n]
    BY DEF Then, Renewed
  <1> HIDE DEF n, p
  <1>5. todo'[t] = n /\ todo' \in [Threads -> Seq(Steps)] /\ \A u \in Threads : u # t => todo'[u] = todo[u]
    BY <1>1, <1>2, <1>4
  <1> HIDE DEF l
  <1>6. ASSUME NEW k \in DOMAIN n
        PROVE  \/ k \in DOMAIN s /\ n[k] = s[k]
               \/ \E j \in DOMAIN l : j > 1 /\ n[k] = l[j]
    <2>1. CASE k <= Len(s)
      BY <2>1, <1>2, <1>6
    <2>2. CASE k > Len(s)
      <3>1. n[k] = l[k - Len(s) + p] /\ k - Len(s) + p \in DOMAIN l /\ k - Len(s) + p > 1
        BY <2>2, <1>2, <1>3, <1>6
      <3> QED BY <3>1
    <2> QED BY <2>1, <2>2, <1>2, <1>6
  <1> QED BY <1>1, <1>5, <1>6 DEF n, l

(* Cars are added to those seen, and a car that comes to stand at an       *)
(* entrance is a new one.                                                  *)
Grows ==
    /\ config' = config /\ Seen \subseteq Seen' /\ leaving \subseteq leaving' /\ away \subseteq away'
    /\ \A e \in Entrances : at'[e] \in {at[e], NoCar} \/ at'[e] \notin Seen

(* What a step says of its car stays true.                                 *)
LEMMA StepKept ==
    ASSUME Typed, Grows, NEW st \in Steps, StepOK(st)
    PROVE  StepOK(st)'
  <1>1. st.op \in EntranceOps \cup {"open"} => st.car \in Cars /\ st.device \in Entrances
    BY StepFields
  <1>2. ASSUME NEW car \in Cars, car \in Seen, NEW d \in Entrances, StandsAt(car, d)
        PROVE  StandsAt(car, d)'
    BY <1>2, EntranceAssumption DEF StandsAt, Grows, Typed, TypeOK
  <1>3. \A car : IsCustomer(car)' <=> IsCustomer(car)
    BY DEF IsCustomer, Grows
  <1> QED BY <1>1, <1>2, <1>3 DEF StepOK, Grows

(* The lists are in order after a step, if the new ones are and their new  *)
(* steps speak of the right cars.                                          *)
LEMMA ListsKept ==
    ASSUME Base, Grows, NEW t \in Threads, todo' \in [Threads -> Seq(Steps)],
           \A u \in Threads : u # t => todo'[u] = todo[u],
           Ordered(todo'[t]),
           \A k \in DOMAIN todo'[t] :
             \/ \E j \in DOMAIN todo[t] : todo'[t][k] = todo[t][j]
             \/ \A st : st = todo'[t][k] => StepOK(st)'
    PROVE  (\A u \in Threads : ListOK(todo[u]))'
  <1>1. \A u \in Threads : ListOK(todo[u]) /\ todo[u] \in Seq(Steps)
    BY DEF Base, Typed
  <1>2. ASSUME NEW u \in Threads, NEW i \in DOMAIN todo[u], NEW st, st = todo[u][i]
        PROVE  StepOK(st)'
    <2>1. st \in Steps /\ StepOK(st)
      BY <1>1, <1>2 DEF ListOK
    <2> QED BY <2>1, StepKept DEF Base
  <1>3. \A u \in Threads : \A i \in DOMAIN todo'[u] : \A st : st = todo'[u][i] => StepOK(st)'
    BY <1>2
  <1>4. \A u \in Threads : Ordered(todo'[u])
    BY <1>1 DEF ListOK
  <1> QED BY <1>3, <1>4 DEF ListOK

(* The step a thread is at.                                                *)
LEMMA First ==
    ASSUME Base, NEW t \in Threads, NEW op, At(t, op)
    PROVE  LET l == todo[t] IN
           /\ l # <<>> /\ l \in Seq(Steps) /\ Ordered(l)
           /\ DOMAIN l = 1 .. Len(l) /\ Len(l) \in Nat \ {0} /\ 1 \in DOMAIN l
           /\ Head(l) = l[1] /\ l[1] \in Steps /\ l[1].op = op /\ StepOK(l[1])
  <1>1. todo[t] \in Seq(Steps) /\ ListOK(todo[t]) /\ todo[t] # <<>> /\ Head(todo[t]).op = op
    BY DEF Base, Typed, At
  <1> DEFINE l == todo[t]
  <1> HIDE DEF l
  <1>2. l \in Seq(Steps) /\ ListOK(l) /\ l # <<>> /\ Head(l).op = op
    BY <1>1 DEF l
  <1>3. /\ DOMAIN l = 1 .. Len(l) /\ Len(l) \in Nat \ {0} /\ 1 \in DOMAIN l
        /\ Head(l) = l[1] /\ l[1] \in Steps
    BY <1>2
  <1> QED BY <1>2, <1>3 DEF ListOK, l

(* The thread and its fellows are told of what changed, or not.            *)
LEMMA UpsetTyped ==
    ASSUME NEW t, NEW failed, Upset(t, failed)
    PROVE  upset' \in [Threads -> BOOLEAN]
  BY DEF Upset

(* A step that replaces the first one by others about the right cars, and  *)
(* moves no car.                                                           *)
LEMMA QuietBase ==
    ASSUME Base, NEW t \in Threads, todo[t] # <<>>,
           NEW s \in Seq(Steps), Then(t, s),
           s # <<>> => s[1].op # "end_try" /\ Ordered(Renewed(todo[t], s)),
           \A k \in DOMAIN s : StepOK(s[k]),
           UNCHANGED <<config, inner, wait, at, leaving, away, letin, promised, excess>>,
           gate' \in [Entrances -> {"auto", "held"}], NEW failed, Upset(t, failed)
    PROVE  Base'
  <1>1. /\ todo' \in [Threads -> Seq(Steps)]
        /\ \A u \in Threads : u # t => todo'[u] = todo[u]
        /\ \A k \in DOMAIN todo'[t] : \/ k \in DOMAIN s /\ todo'[t][k] = s[k]
                                      \/ \E j \in DOMAIN todo[t] : todo'[t][k] = todo[t][j]
    BY Goes
  <1>2. Ordered(todo'[t])
    <2>1. todo[t] \in Seq(Steps) /\ Ordered(todo[t]) /\ todo'[t] = Renewed(todo[t], s)
      BY Goes DEF Base, ListOK
    <2> QED BY <2>1, OrderedTail
  <1>3. Grows
    BY DEF Grows, Seen
  <1>4. \A st : StepOK(st)' <=> StepOK(st)
    BY DEF StepOK, Seen, StandsAt, IsCustomer
  <1>5. (\A u \in Threads : ListOK(todo[u]))'
    BY <1>1, <1>2, <1>3, <1>4, ListsKept
  <1>6. upset' \in [Threads -> BOOLEAN]
    BY UpsetTyped
  <1>7. Typed'
    BY <1>1, <1>6 DEF Base, Typed, TypeOK
  <1>8. CarsOK'
    BY DEF Base, CarsOK, Seen, StandsAt
  <1> QED BY <1>5, <1>7, <1>8 DEF Base

(* The commands to a gate.                                                 *)
LEMMA GatesBase ==
    ASSUME Base, NEW t \in Threads, cancle_close(t) \/ keep_close(t) \/ keep_close_all(t)
    PROVE  Base'
  <1>1. PICK op : At(t, op) /\ op \in {"cancel", "hold", "hold_all"}
    BY DEF cancle_close, keep_close, keep_close_all
  <1>2. todo[t] # <<>>
    BY <1>1, First
  <1>3. /\ Then(t, <<>>)
        /\ UNCHANGED <<config, inner, wait, at, leaving, away, letin, promised, excess>>
    BY DEF cancle_close, keep_close, keep_close_all, history
  <1>4. gate \in [Entrances -> {"auto", "held"}]
    BY DEF Base, Typed, TypeOK
  <1>5. gate' \in [Entrances -> {"auto", "held"}]
    BY <1>4 DEF cancle_close, keep_close, keep_close_all
  <1>6. PICK failed : Upset(t, failed)
    BY DEF cancle_close, keep_close, keep_close_all
  <1>7. <<>> \in Seq(Steps) /\ \A k \in DOMAIN <<>> : StepOK(<<>>[k])
    OBVIOUS
  <1> QED BY <1>2, <1>3, <1>5, <1>6, <1>7, QuietBase

-----------------------------------------------------------------------------
(* The steps that read a table and decide: what they put on the list.      *)
Decides(t) ==
    \/ auto_open_entrance_gateway(t) \/ LastPlace(t) \/ RoomDespiteWaiting(t)
    \/ QueryWaitVehicleByDevice_ip(t) \/ QueryWaitVehicleByPlate_num(t)
    \/ QueryParkingNumber(t) \/ wait_vehicle_release(t)
    \/ CountForNewClient(t) \/ led_show_new_client(t)

PutsForEntrance(st, s) ==
    LET d == st.device
        car == st.car IN
    \/ st.op = "count" /\ config.judge = 0 /\ s = <<Open(d, car)>>
    \/ /\ st.op = "count" /\ IsCustomer(car)
       /\ s \in {<<Cancel(d), Open(d, car)>>, <<Cancel(d), Open(d, car), Hold(d)>>}
    \/ st.op = "count" /\ config.judge # 0 /\ ~IsCustomer(car) /\ Remain < 0 /\ s = <<Replace(d, car)>>
    \/ /\ st.op = "count" /\ config.judge # 0 /\ ~IsCustomer(car) /\ Remain >= 0
       /\ s = <<AskWaiting(d, car, Remain)>>
    \/ st.op = "ask_waiting" /\ wait = {} /\ s = <<Open(d, car), HoldAll>>
    \/ /\ st.op = "ask_waiting" /\ wait # {}
       /\ s \in {<<Cancel(d), Open(d, car)>>, <<Cancel(d), Open(d, car), HoldAll>>}
    \/ /\ st.op = "replace" /\ \E row \in wait : row.device = d
       /\ s = <<DeleteRow(d), InsertRow(d, car)>>
    \/ st.op = "replace" /\ ~(\E row \in wait : row.device = d) /\ s = <<InsertRow(d, car)>>

PutsForExit(st, s) ==
    \/ /\ st.op = "count_exit" /\ ~IsCustomer(st.car)
       /\ s = <<PickWaiting(st.car, Remain)>>
    \/ /\ st.op = "pick_waiting" /\ st.remain >= -1
       /\ \E row \in wait :
            s \in {<<Cancel(row.device), Open(row.device, row.car), DeleteRow(row.device)>>,
                   <<Cancel(row.device), Open(row.device, row.car), HoldAll, DeleteRow(row.device)>>}

PutsForDevice(st, s) ==
    \/ st.op = "count_new" /\ s = <<PickNew(st.device, real_remain_parking)>>
    \/ st.op = "pick_new" /\ wait = {} /\ s \in {<<Hold(st.device)>>, <<Cancel(st.device)>>}
    \/ /\ st.op = "pick_new" /\ st.remain >= 0
       /\ \E row \in wait : s = <<Count(row.device, row.car), EndTry, DeleteRow(row.device)>>

Puts(st, s) ==
    \/ PutsForEntrance(st, s) \/ PutsForExit(st, s) \/ PutsForDevice(st, s)
    \/ st.op = "find_plate" /\ s = <<DeletePlate(st.car)>>
    \/ st.op \in {"find_plate", "count_exit", "pick_waiting", "pick_new"} /\ s = <<>>

(* The numbers of QueryParkingNumber are numbers.                          *)
LEMMA Numbers ==
    ASSUME Typed
    PROVE  /\ real_remain_parking \in Int /\ Remain \in Int
           /\ config.judge \in {0, 1, 2} /\ config.berths \in Nat /\ config.rectify \in Int
  <1>1. /\ config.judge \in {0, 1, 2} /\ config.berths \in Nat /\ config.rectify \in Int
        /\ IsFiniteSet(inner) /\ IsFiniteSet(inner \ VIPs) /\ IsFiniteSet(VIPs)
    BY EntranceAssumption, FS_Subset DEF Typed, TypeOK
  <1>2. /\ Cardinality(inner) \in Nat /\ Cardinality(inner \ VIPs) \in Nat
        /\ Cardinality(VIPs) \in Nat
    BY <1>1, FS_CardinalityType
  <1> QED BY <1>1, <1>2 DEF real_remain_parking, real_temporary_parking, Remain

(* What the actions do.                                                    *)
LEMMA Decided ==
    ASSUME Base, NEW t \in Threads, Decides(t)
    PROVE  /\ todo[t] # <<>>
           /\ \E s : Then(t, s) /\ Puts(Head(todo[t]), s)
           /\ UNCHANGED <<config, inner, wait, at, leaving, away, gate, letin, promised, excess, mishaps>>
           /\ Upset(t, FALSE)
  <1> DEFINE st == Head(todo[t])
  <1>1. /\ UNCHANGED <<config, inner, wait, at, leaving, away, gate, letin, promised, excess, mishaps>>
        /\ Upset(t, FALSE)
    BY DEF Decides, auto_open_entrance_gateway, LastPlace, RoomDespiteWaiting,
       QueryWaitVehicleByDevice_ip, QueryWaitVehicleByPlate_num, QueryParkingNumber,
       wait_vehicle_release, CountForNewClient, led_show_new_client, history
  <1>2. PICK op : At(t, op)
    BY DEF Decides, auto_open_entrance_gateway, LastPlace, RoomDespiteWaiting,
       QueryWaitVehicleByDevice_ip, QueryWaitVehicleByPlate_num, QueryParkingNumber,
       wait_vehicle_release, CountForNewClient, led_show_new_client
  <1>3. todo[t] # <<>> /\ st \in Steps
    BY <1>2, First
  <1>4. real_remain_parking \in Int /\ Remain \in Int
    BY Numbers DEF Base
  <1>5. CASE auto_open_entrance_gateway(t)
    <2>1. /\ st.op = "count"
          /\ Then(t, IF config.judge = 0 THEN <<Open(st.device, st.car)>>
                     ELSE remain_parking_number_bind(st.device, st.car, Remain))
      BY <1>5 DEF auto_open_entrance_gateway, At
    <2>2. CASE config.judge = 0
      BY <2>1, <2>2, <1>1, <1>3 DEF Puts, PutsForEntrance
    <2>3. CASE config.judge # 0 /\ IsCustomer(st.car)
      <3> DEFINE a == Cancel(st.device)
                 b == Open(st.device, st.car)
                 c == Hold(st.device)
      <3>1. <<a, b>> \o <<>> = <<a, b>> /\ <<a, b>> \o <<c>> = <<a, b, c>>
        BY Concats, Zenon
      <3>2. remain_parking_number_bind(st.device, st.car, Remain) \in {<<a, b>>, <<a, b, c>>}
        BY <3>1, <2>3 DEF remain_parking_number_bind
      <3>3. PutsForEntrance(st, remain_parking_number_bind(st.device, st.car, Remain))
        BY <3>2, <2>1, <2>3 DEF PutsForEntrance
      <3> QED BY <3>3, <2>1, <2>3, <1>1, <1>3 DEF Puts
    <2>4. CASE config.judge # 0 /\ ~IsCustomer(st.car)
      <3>1. PutsForEntrance(st, remain_parking_number_bind(st.device, st.car, Remain))
        BY <2>1, <2>4, <1>4 DEF remain_parking_number_bind, PutsForEntrance
      <3> QED BY <3>1, <2>1, <2>4, <1>1, <1>3 DEF Puts
    <2> QED BY <2>2, <2>3, <2>4
  <1>6. CASE LastPlace(t)
    <2> DEFINE a == Cancel(st.device)
               b == Open(st.device, st.car)
    <2>1. st.op = "ask_waiting" /\ Then(t, (IF wait = {} THEN <<>> ELSE <<a>>) \o <<b, HoldAll>>)
      BY <1>6 DEF LastPlace, At
    <2>2. <<>> \o <<b, HoldAll>> = <<b, HoldAll>> /\ <<a>> \o <<b, HoldAll>> = <<a, b, HoldAll>>
      BY Concats, Zenon
    <2>3. CASE wait = {}
      BY <2>1, <2>2, <2>3, <1>1, <1>3 DEF Puts, PutsForEntrance
    <2>4. CASE wait # {}
      BY <2>1, <2>2, <2>4, <1>1, <1>3 DEF Puts, PutsForEntrance
    <2> QED BY <2>3, <2>4
  <1>7. CASE RoomDespiteWaiting(t)
    BY <1>1, <1>3, <1>7 DEF RoomDespiteWaiting, At, Puts, PutsForEntrance
  <1>8. CASE QueryWaitVehicleByDevice_ip(t)
    <2> DEFINE a == DeleteRow(st.device)
               b == InsertRow(st.device, st.car)
    <2>1. /\ st.op = "replace"
          /\ Then(t, (IF \E row \in wait : row.device = st.device THEN <<a>> ELSE <<>>) \o <<b>>)
      BY <1>8 DEF QueryWaitVehicleByDevice_ip, At
    <2>2. <<>> \o <<b>> = <<b>> /\ <<a>> \o <<b>> = <<a, b>>
      BY Concats, Zenon
    <2>3. CASE \E row \in wait : row.device = st.device
      BY <2>1, <2>2, <2>3, <1>1, <1>3 DEF Puts, PutsForEntrance
    <2>4. CASE ~(\E row \in wait : row.device = st.device)
      BY <2>1, <2>2, <2>4, <1>1, <1>3 DEF Puts, PutsForEntrance
    <2> QED BY <2>3, <2>4
  <1>9. CASE QueryWaitVehicleByPlate_num(t)
    BY <1>1, <1>3, <1>9 DEF QueryWaitVehicleByPlate_num, At, Puts
  <1>10. CASE QueryParkingNumber(t)
    BY <1>1, <1>3, <1>10 DEF QueryParkingNumber, At, Puts, PutsForExit
  <1>11. CASE wait_vehicle_release(t)
    <2>1. st.op = "pick_waiting"
      BY <1>11 DEF wait_vehicle_release, At
    <2>2. st.remain \in Int
      BY <2>1, <1>3, StepFields
    <2>3. CASE wait = {} /\ Then(t, <<>>)
      BY <2>1, <2>3, <1>1, <1>3 DEF Puts
    <2>4. CASE \E row \in wait : Then(t, ReleaseOf(st.remain, row))
      <3>1. PICK row \in wait : Then(t, ReleaseOf(st.remain, row))
        BY <2>4
      <3>2. CASE st.remain >= -1
        <4>1. ReleaseOf(st.remain, row) \in
                {<<Cancel(row.device), Open(row.device, row.car), DeleteRow(row.device)>>,
                 <<Cancel(row.device), Open(row.device, row.car), HoldAll, DeleteRow(row.device)>>}
          BY <3>2, <2>2 DEF ReleaseOf
        <4>2. PutsForExit(st, ReleaseOf(st.remain, row))
          BY <4>1, <3>2, <2>1 DEF PutsForExit
        <4> QED BY <4>2, <3>1, <1>1, <1>3 DEF Puts
      <3>3. CASE ~(st.remain >= -1)
        <4>1. ReleaseOf(st.remain, row) = <<>>
          BY <3>3, <2>2 DEF ReleaseOf
        <4> QED BY <4>1, <3>1, <2>1, <1>1, <1>3 DEF Puts
      <3> QED BY <3>2, <3>3
    <2> QED BY <2>3, <2>4, <1>11 DEF wait_vehicle_release
  <1>12. CASE CountForNewClient(t)
    BY <1>1, <1>3, <1>12 DEF CountForNewClient, At, Puts, PutsForDevice
  <1>13. CASE led_show_new_client(t)
    <2>1. st.op = "pick_new"
      BY <1>13 DEF led_show_new_client, At
    <2>2. st.remain \in Int
      BY <2>1, <1>3, StepFields
    <2>3. CASE wait = {} /\ Then(t, <<IF st.remain <= 0 THEN Hold(st.device) ELSE Cancel(st.device)>>)
      BY <2>1, <2>3, <1>1, <1>3 DEF Puts, PutsForDevice
    <2>4. ASSUME NEW row \in wait,
                 Then(t, IF st.remain < 0 THEN <<>>
                         ELSE <<Count(row.device, row.car), EndTry, DeleteRow(row.device)>>)
          PROVE  \E s : Then(t, s) /\ Puts(st, s)
      BY <2>1, <2>2, <2>4 DEF Puts, PutsForDevice
    <2> QED BY <2>3, <2>4, <1>1, <1>3, <1>13 DEF led_show_new_client
  <1> QED BY <1>5, <1>6, <1>7, <1>8, <1>9, <1>10, <1>11, <1>12, <1>13 DEF Decides

(* What a decision puts in the place of its step is in order.              *)
LEMMA PutsInOrder ==
    ASSUME Base, NEW t \in Threads, todo[t] # <<>>, NEW s, Puts(Head(todo[t]), s)
    PROVE  /\ s \in Seq(Steps)
           /\ s # <<>> => s[1].op # "end_try" /\ Ordered(Renewed(todo[t], s))
           /\ \A k \in DOMAIN s : StepOK(s[k])
  <1> DEFINE l == todo[t]
             st == Head(l)
             OK(a) == a \in Steps /\ StepOK(a) /\ a.op # "end_try"
  <1>1. /\ l # <<>> /\ l \in Seq(Steps) /\ Ordered(l) /\ Len(l) \in Nat \ {0}
        /\ st = l[1] /\ st \in Steps /\ StepOK(st)
    <2>1. At(t, st.op)
      BY DEF At
    <2> QED BY <2>1, First
  <1>0. Remain \in Int /\ real_remain_parking \in Int
    BY Numbers DEF Base
  <1>2. ASSUME s # <<>>, s \in Seq(Steps), Fits(l, s)
        PROVE  s[1].op # "end_try" /\ Ordered(Renewed(l, s))
    BY <1>1, <1>2, OrderedNew DEF Fits
  <1>3. CASE PutsForEntrance(st, s)
    <2> DEFINE d == st.device
               car == st.car
    <2>1. st.op \in EntranceOps /\ l[1] = st
      BY <1>1, <1>3 DEF PutsForEntrance, EntranceOps
    <2>2. d \in Entrances /\ car \in Cars /\ car \in Seen /\ StandsAt(car, d)
      BY <2>1, <1>1, StepFields DEF StepOK
    <2>3. /\ OK(Open(d, car)) /\ OK(Cancel(d)) /\ OK(Hold(d)) /\ OK(HoldAll)
          /\ OK(Replace(d, car)) /\ OK(AskWaiting(d, car, Remain))
          /\ OK(DeleteRow(d)) /\ OK(InsertRow(d, car))
      <3>1. /\ Open(d, car) \in Steps /\ Cancel(d) \in Steps /\ Hold(d) \in Steps /\ HoldAll \in Steps
            /\ Replace(d, car) \in Steps /\ AskWaiting(d, car, Remain) \in Steps
            /\ DeleteRow(d) \in Steps /\ InsertRow(d, car) \in Steps
        BY <2>2, <1>0, StepsAre
      <3> HIDE DEF d, car
      <3> QED BY <3>1, <2>2 DEF Open, Cancel, Hold, HoldAll, Replace, AskWaiting, DeleteRow,
                                InsertRow, StepOK, EntranceOps, ExitOps
    <2>4. /\ Ordered(<<Cancel(d), Open(d, car)>>) /\ Ordered(<<Open(d, car), HoldAll>>)
          /\ Ordered(<<Cancel(d), Open(d, car), Hold(d)>>)
          /\ Ordered(<<Cancel(d), Open(d, car), HoldAll>>)
          /\ Ordered(<<DeleteRow(d), InsertRow(d, car)>>)
          /\ \A a \in Steps : Ordered(<<a>>)
      BY <2>2, OrderedLists
    <2>5. /\ Cancel(d).device = d /\ Open(d, car).device = d /\ Replace(d, car).device = d
          /\ AskWaiting(d, car, Remain).device = d /\ DeleteRow(d).device = d
          /\ InsertRow(d, car).device = d
          /\ Cancel(d).op \in DeviceOps /\ Open(d, car).op \in DeviceOps
          /\ Replace(d, car).op \in DeviceOps /\ AskWaiting(d, car, Remain).op \in DeviceOps
          /\ DeleteRow(d).op \in DeviceOps /\ InsertRow(d, car).op \in DeviceOps
          /\ {Open(d, car).op, Hold(d).op, HoldAll.op, InsertRow(d, car).op}
               \subseteq {"open", "insert_row", "hold", "hold_all"}
      BY DEF Cancel, Open, Replace, AskWaiting, DeleteRow, InsertRow, Hold, HoldAll, DeviceOps, EntranceOps
    <2>6. \/ \E a \in {Open(d, car), Replace(d, car), AskWaiting(d, car, Remain), InsertRow(d, car)} :
               s = <<a>>
          \/ s \in {<<Cancel(d), Open(d, car)>>, <<Open(d, car), HoldAll>>,
                    <<DeleteRow(d), InsertRow(d, car)>>}
          \/ s \in {<<Cancel(d), Open(d, car), Hold(d)>>, <<Cancel(d), Open(d, car), HoldAll>>}
      BY <1>3 DEF PutsForEntrance
    <2> HIDE DEF st, l
    <2>7. ASSUME NEW a, OK(a), s = <<a>>, a.op \in DeviceOps, a.device = d
          PROVE  s \in Seq(Steps) /\ s # <<>> /\ Fits(l, s) /\ \A k \in DOMAIN s : StepOK(s[k])
      <3>1. s \in Seq(Steps) /\ s # <<>> /\ DOMAIN s = {1} /\ Len(s) = 1 /\ s[1] = a /\ Ordered(s)
        BY <2>4, <2>7, Lists
      <3> QED BY <3>1, <2>1, <2>7 DEF Fits, d
    <2>8. ASSUME NEW a, OK(a), NEW b, OK(b), s = <<a, b>>, Ordered(<<a, b>>),
                 a.op \in DeviceOps, a.device = d, b.op \in {"open", "insert_row", "hold", "hold_all"}
          PROVE  s \in Seq(Steps) /\ s # <<>> /\ Fits(l, s) /\ \A k \in DOMAIN s : StepOK(s[k])
      <3>1. /\ s \in Seq(Steps) /\ s # <<>> /\ DOMAIN s = {1, 2} /\ Len(s) = 2 /\ s[1] = a
            /\ s[2] = b /\ Ordered(s)
        BY <2>8, Lists
      <3> QED BY <3>1, <2>1, <2>8 DEF Fits, d
    <2>9. ASSUME NEW a, OK(a), NEW b, OK(b), NEW c, OK(c), s = <<a, b, c>>, Ordered(<<a, b, c>>),
                 a.op \in DeviceOps, a.device = d, b.op \in {"open", "insert_row", "hold", "hold_all"},
                 c.op \in {"open", "insert_row", "hold", "hold_all"}
          PROVE  s \in Seq(Steps) /\ s # <<>> /\ Fits(l, s) /\ \A k \in DOMAIN s : StepOK(s[k])
      <3>1. /\ s \in Seq(Steps) /\ s # <<>> /\ DOMAIN s = {1, 2, 3} /\ Len(s) = 3 /\ s[1] = a
            /\ s[2] = b /\ s[3] = c /\ Ordered(s)
        BY <2>9, Lists
      <3> QED BY <3>1, <2>1, <2>9 DEF Fits, d
    <2> HIDE DEF d, car, OK
    <2>10. s \in Seq(Steps) /\ s # <<>> /\ Fits(l, s) /\ \A k \in DOMAIN s : StepOK(s[k])
      <3>1. CASE \E a \in {Open(d, car), Replace(d, car), AskWaiting(d, car, Remain), InsertRow(d, car)} :
                    s = <<a>>
        BY <3>1, <2>3, <2>5, <2>7
      <3>2. CASE s \in {<<Cancel(d), Open(d, car)>>, <<Open(d, car), HoldAll>>,
                        <<DeleteRow(d), InsertRow(d, car)>>}
        BY <3>2, <2>3, <2>4, <2>5, <2>8
      <3>3. CASE s \in {<<Cancel(d), Open(d, car), Hold(d)>>, <<Cancel(d), Open(d, car), HoldAll>>}
        BY <3>3, <2>3, <2>4, <2>5, <2>9
      <3> QED BY <3>1, <3>2, <3>3, <2>6
    <2> QED BY <2>10, <1>2 DEF l
  (* The list is short: whatever is in order fits.                         *)
  <1>4. ASSUME Len(l) = 1, s \in Seq(Steps), s # <<>>, s[1].op # "end_try", Ordered(s),
               \A k \in DOMAIN s : StepOK(s[k])
        PROVE  /\ s \in Seq(Steps)
               /\ s # <<>> => s[1].op # "end_try" /\ Ordered(Renewed(l, s))
               /\ \A k \in DOMAIN s : StepOK(s[k])
    BY <1>2, <1>4 DEF Fits
  <1>5. CASE PutsForExit(st, s)
    <2>1. Len(l) = 1 /\ st.car \in Cars /\ st.car \in leaving
      BY <1>1, <1>5, BehindFirst, StepFields DEF PutsForExit, ExitOps, StepOK
    <2>2. CASE ~IsCustomer(st.car) /\ s = <<PickWaiting(st.car, Remain)>>
      <3> DEFINE a == PickWaiting(st.car, Remain)
      <3>1. a \in Steps
        BY <2>1, <1>0, StepsAre
      <3>2. StepOK(a) /\ a.op # "end_try"
        BY <2>1, <2>2 DEF PickWaiting, StepOK, EntranceOps, ExitOps
      <3> HIDE DEF a
      <3>3. <<a>> \in Seq(Steps) /\ <<a>> # <<>> /\ DOMAIN <<a>> = {1} /\ <<a>>[1] = a /\ Ordered(<<a>>)
        BY <3>1, Lists, OrderedLists DEF Ordered
      <3>4. s = <<a>>
        BY <2>2 DEF a
      <3> HIDE DEF st, l
      <3> QED BY <3>2, <3>3, <3>4, <2>1, <1>4 DEF l
    <2>3. CASE \E row \in wait :
                 s \in {<<Cancel(row.device), Open(row.device, row.car), DeleteRow(row.device)>>,
                        <<Cancel(row.device), Open(row.device, row.car), HoldAll, DeleteRow(row.device)>>}
      <3>1. PICK row \in wait :
                 s \in {<<Cancel(row.device), Open(row.device, row.car), DeleteRow(row.device)>>,
                        <<Cancel(row.device), Open(row.device, row.car), HoldAll, DeleteRow(row.device)>>}
        BY <2>3
      <3>2. /\ row.device \in Entrances /\ row.car \in Cars /\ row.car \in Seen
            /\ StandsAt(row.car, row.device)
        BY DEF Base, Typed, TypeOK, CarsOK
      <3> DEFINE a == Cancel(row.device)
                 b == Open(row.device, row.car)
                 c == DeleteRow(row.device)
      <3>3. a \in Steps /\ b \in Steps /\ c \in Steps /\ HoldAll \in Steps
        BY <3>2, StepsAre
      <3>4. StepOK(a) /\ StepOK(b) /\ StepOK(c) /\ StepOK(HoldAll) /\ a.op # "end_try"
        BY <3>2 DEF StepOK, EntranceOps, ExitOps, Cancel, Open, DeleteRow, HoldAll
      <3>5. Ordered(<<a, b, c>>) /\ Ordered(<<a, b, HoldAll, c>>)
        BY <3>2, OrderedLists
      <3> HIDE DEF st, l, a, b, c
      <3>6. s \in {<<a, b, c>>, <<a, b, HoldAll, c>>}
        BY <3>1 DEF a, b, c
      <3>7. /\ s \in Seq(Steps) /\ s # <<>> /\ s[1] = a /\ Ordered(s)
            /\ \A k \in DOMAIN s : s[k] \in {a, b, c, HoldAll}
        <4>1. CASE s = <<a, b, c>>
          BY <4>1, <3>3, <3>5, Lists
        <4>2. CASE s = <<a, b, HoldAll, c>>
          BY <4>2, <3>3, <3>5, Lists
        <4> QED BY <4>1, <4>2, <3>6
      <3> QED BY <3>4, <3>7, <2>1, <1>4 DEF l
    <2> QED BY <2>2, <2>3, <1>5 DEF PutsForExit
  <1>6. CASE PutsForDevice(st, s)
    <2>1. Len(l) = 1 /\ st.device \in Entrances
      BY <1>1, <1>6, BehindFirst, StepFields DEF PutsForDevice
    <2>2. CASE s \in {<<Hold(st.device)>>, <<Cancel(st.device)>>, <<PickNew(st.device, real_remain_parking)>>}
      <3>1. PICK a : s = <<a>> /\ a \in {Hold(st.device), Cancel(st.device), PickNew(st.device, real_remain_parking)}
        BY <2>2
      <3>2. a \in Steps
        BY <3>1, <2>1, <1>0, StepsAre
      <3>3. StepOK(a) /\ a.op # "end_try"
        BY <3>1 DEF Hold, Cancel, PickNew, StepOK, EntranceOps, ExitOps
      <3>4. <<a>> \in Seq(Steps) /\ <<a>> # <<>> /\ DOMAIN <<a>> = {1} /\ <<a>>[1] = a /\ Ordered(<<a>>)
        BY <3>2, Lists, OrderedLists DEF Ordered
      <3> HIDE DEF st, l
      <3> QED BY <3>1, <3>3, <3>4, <2>1, <1>4 DEF l
    <2>3. CASE \E row \in wait : s = <<Count(row.device, row.car), EndTry, DeleteRow(row.device)>>
      <3>1. PICK row \in wait : s = <<Count(row.device, row.car), EndTry, DeleteRow(row.device)>>
        BY <2>3
      <3>2. /\ row.device \in Entrances /\ row.car \in Cars /\ row.car \in Seen
            /\ StandsAt(row.car, row.device)
        BY DEF Base, Typed, TypeOK, CarsOK
      <3> DEFINE a == Count(row.device, row.car)
                 b == EndTry
                 c == DeleteRow(row.device)
      <3>3. a \in Steps /\ b \in Steps /\ c \in Steps
        BY <3>2, StepsAre
      <3>4. StepOK(a) /\ StepOK(b) /\ StepOK(c) /\ a.op # "end_try"
        BY <3>2 DEF StepOK, EntranceOps, ExitOps, Count, EndTry, DeleteRow
      <3>5. Ordered(<<a, b, c>>) /\ s = <<a, b, c>>
        BY <3>1, <3>2, OrderedLists
      <3> HIDE DEF st, l, a, b, c
      <3>6. /\ s \in Seq(Steps) /\ s # <<>> /\ s[1] = a /\ Ordered(s)
            /\ \A k \in DOMAIN s : s[k] \in {a, b, c}
        BY <3>3, <3>5, Lists
      <3> QED BY <3>4, <3>6, <2>1, <1>4 DEF l
    <2> QED BY <2>2, <2>3, <1>6 DEF PutsForDevice
  <1>7. CASE st.op = "find_plate" /\ s = <<DeletePlate(st.car)>>
    <2> DEFINE a == DeletePlate(st.car)
    <2>1. st.car \in Cars /\ st.car \in away /\ l[1].op = "find_plate"
      BY <1>1, <1>7, StepFields DEF StepOK
    <2>2. a \in Steps
      BY <2>1, StepsAre
    <2>3. StepOK(a) /\ a.op = "delete_plate"
      BY <2>1 DEF DeletePlate, StepOK, EntranceOps, ExitOps
    <2>4. s = <<a>>
      BY <1>7
    <2> HIDE DEF a, st, l
    <2>5. s \in Seq(Steps) /\ s # <<>> /\ DOMAIN s = {1} /\ s[1] = a /\ Len(s) = 1
      BY <2>2, <2>4, Lists
    <2>6. Ordered(Renewed(l, s))
      <3> DEFINE n == Renewed(l, s)
      <3>1. /\ DOMAIN l = 1 .. Len(l) /\ DOMAIN n = 1 .. Len(n)
            /\ Len(n) = Len(s) + Len(l) - Passed(l, s)
            /\ \A k \in 1 .. Len(n) : n[k] = IF k <= Len(s) THEN s[k] ELSE l[k - Len(s) + Passed(l, s)]
        <4>1. s # <<>> => s[1].op # "end_try"
          BY <2>3, <2>5
        <4> QED BY <4>1, <2>5, <1>1, Spliced, Zenon
      <3>2. Passed(l, s) = 1
        BY <2>5 DEF Passed
      <3> HIDE DEF n
      <3>3. Len(l) <= 2 /\ (Len(l) = 2 => l[2].op = "delete_inner")
        <4>1. CASE Len(l) > 1
          <5>1. 2 \in DOMAIN l /\ 2 > 1
            BY <4>1, <3>1, <1>1
          <5>2. MayFollow(l, 2)
            BY <5>1, <1>1 DEF Ordered
          <5>3. l[2].op \in {"delete_inner", "end_try"}
            BY <5>2, <2>1 DEF MayFollow, DeviceOps, EntranceOps
          <5>4. CASE l[2].op = "end_try"
            <6>1. 3 = Len(l) /\ l[3].op = "delete_row"
              BY <5>2, <5>4, <1>1 DEF MayFollow
            <6>2. 3 \in DOMAIN l /\ 3 > 1
              BY <6>1, <3>1
            <6>3. MayFollow(l, 3)
              BY <6>2, <1>1 DEF Ordered
            <6> QED BY <6>1, <6>3, <2>1 DEF MayFollow, DeviceOps, EntranceOps
          <5>5. CASE l[2].op = "delete_inner"
            <6>1. Len(l) = 2
              BY <5>2, <5>5 DEF MayFollow
            <6> QED BY <6>1, <5>5
          <5> QED BY <5>3, <5>4, <5>5
        <4> QED BY <4>1, <1>1
      <3>4. CASE Len(l) <= 1
        <4>1. \A i \in DOMAIN n : ~(i > 1)
          BY <3>1, <3>2, <3>4, <2>5, <1>1
        <4> QED BY <4>1 DEF Ordered, n
      <3>5. CASE Len(l) = 2
        <4>1. DOMAIN n = {1, 2} /\ Len(n) = 2 /\ n[1] = a /\ n[2] = l[2]
          BY <3>1, <3>2, <3>5, <2>5
        <4>2. MayFollow(n, 2)
          BY <4>1, <3>3, <3>5, <2>3 DEF MayFollow
        <4> QED BY <4>1, <4>2 DEF Ordered, n
      <3>6. Len(l) <= 1 \/ Len(l) = 2
        <4>1. Len(l) <= 2 /\ Len(l) \in Nat
          BY <3>3, <1>1
        <4>2. \A m \in Nat : m <= 2 => m <= 1 \/ m = 2
          OBVIOUS
        <4> QED BY <4>1, <4>2, Zenon
      <3> QED BY <3>4, <3>5, <3>6
    <2> QED BY <2>3, <2>5, <2>6 DEF l
  <1>8. CASE s = <<>>
    BY <1>8
  <1> QED BY <1>3, <1>5, <1>6, <1>7, <1>8 DEF Puts

(* A decision moves no car.                                                *)
LEMMA DecidesBase ==
    ASSUME Base, NEW t \in Threads, Decides(t)
    PROVE  Base'
  <1>1. PICK s : Then(t, s) /\ Puts(Head(todo[t]), s)
    BY Decided
  <1>2. /\ todo[t] # <<>> /\ Upset(t, FALSE)
        /\ UNCHANGED <<config, inner, wait, at, leaving, away, gate, letin, promised, excess>>
    BY Decided
  <1>3. /\ s \in Seq(Steps)
        /\ s # <<>> => s[1].op # "end_try" /\ Ordered(Renewed(todo[t], s))
        /\ \A k \in DOMAIN s : StepOK(s[k])
    BY <1>1, <1>2, PutsInOrder
  <1>4. gate' \in [Entrances -> {"auto", "held"}]
    BY <1>2 DEF Base, Typed, TypeOK
  <1> QED BY <1>1, <1>2, <1>3, <1>4, QuietBase

-----------------------------------------------------------------------------
(* The steps that move cars or change the tables.                          *)

(* Sets that have nothing in common.                                       *)
LEMMA Adds ==
    ASSUME NEW S, NEW T, IsFiniteSet(S), IsFiniteSet(T), S \cap T = {}
    PROVE  /\ IsFiniteSet(S \cup T) /\ Cardinality(S) \in Nat /\ Cardinality(T) \in Nat
           /\ Cardinality(S \cup T) = Cardinality(S) + Cardinality(T)
  <1>1. /\ IsFiniteSet(S \cup T)
        /\ Cardinality(S \cup T) = Cardinality(S) + Cardinality(T) - Cardinality(S \cap T)
    BY FS_Union
  <1>2. Cardinality(S) \in Nat /\ Cardinality(T) \in Nat /\ Cardinality(S \cap T) = 0
    BY FS_CardinalityType, FS_EmptySet
  <1> QED BY <1>1, <1>2

(* The first step is done, and nothing takes its place.                    *)
LEMMA Proceeds ==
    ASSUME Base, Grows, NEW t \in Threads, todo[t] # <<>>, Then(t, <<>>)
    PROVE  todo' \in [Threads -> Seq(Steps)] /\ (\A u \in Threads : ListOK(todo[u]))'
  <1>1. <<>> \in Seq(Steps) /\ DOMAIN <<>> = {}
    OBVIOUS
  <1>2. /\ todo[t] \in Seq(Steps) /\ todo'[t] = Renewed(todo[t], <<>>)
        /\ todo' \in [Threads -> Seq(Steps)]
        /\ \A u \in Threads : u # t => todo'[u] = todo[u]
        /\ \A k \in DOMAIN todo'[t] : \E j \in DOMAIN todo[t] : todo'[t][k] = todo[t][j]
    BY <1>1, Goes
  <1>3. Ordered(todo'[t])
    BY <1>2, OrderedTail DEF Base, ListOK
  <1> QED BY <1>2, <1>3, ListsKept

(* A handler begins.                                                       *)
LEMMA Begins ==
    ASSUME Base, Grows, NEW t \in Threads, NEW s \in Seq(Steps), todo' = [todo EXCEPT ![t] = s],
           Ordered(s), \A k \in DOMAIN s : \A st : st = s[k] => StepOK(st)'
    PROVE  todo' \in [Threads -> Seq(Steps)] /\ (\A u \in Threads : ListOK(todo[u]))'
  <1>1. todo \in [Threads -> Seq(Steps)]
    BY DEF Base, Typed
  <1>2. /\ todo' \in [Threads -> Seq(Steps)] /\ todo'[t] = s
        /\ \A u \in Threads : u # t => todo'[u] = todo[u]
    BY <1>1
  <1> QED BY <1>2, ListsKept

(* No handler takes a step.                                                *)
LEMMA ListsStay ==
    ASSUME Base, Grows, UNCHANGED todo
    PROVE  todo' \in [Threads -> Seq(Steps)] /\ (\A u \in Threads : ListOK(todo[u]))'
  <1>1. todo \in [Threads -> Seq(Steps)] /\ \A u \in Threads : ListOK(todo[u])
    BY DEF Base, Typed
  <1>2. ASSUME NEW u \in Threads, NEW i \in DOMAIN todo[u], NEW st, st = todo[u][i]
        PROVE  StepOK(st)'
    <2>1. st \in Steps /\ StepOK(st)
      BY <1>1, <1>2 DEF ListOK
    <2> QED BY <2>1, StepKept DEF Base
  <1> QED BY <1>1, <1>2 DEF ListOK

(* What is known of cars that were let in, or are on the list, stays.      *)
LEMMA CarsStay ==
    ASSUME Base, Grows
    PROVE  /\ letin \subseteq Seen' /\ promised \subseteq Seen'
           /\ \A row \in wait : row.car \in Seen' /\ StandsAt(row.car, row.device)'
  <1>1. letin \subseteq Seen' /\ promised \subseteq Seen'
    BY DEF Base, CarsOK, Grows
  <1>2. ASSUME NEW row \in wait PROVE row.car \in Seen' /\ StandsAt(row.car, row.device)'
    BY EntranceAssumption DEF Base, CarsOK, Grows, StandsAt, Typed, TypeOK
  <1> QED BY <1>1, <1>2

(* excess counts cars that were let in.                                    *)
LEMMA ExcessTyped ==
    ASSUME NEW L \in SUBSET Cars, NEW e \in Nat, e <= Cardinality(L)
    PROVE  e \in 0 .. Cardinality(Cars)
  <1>1. IsFiniteSet(Cars) /\ Cardinality(L) <= Cardinality(Cars) /\ IsFiniteSet(L)
    BY EntranceAssumption, FS_Subset
  <1>2. Cardinality(Cars) \in Nat /\ Cardinality(L) \in Nat
    BY <1>1, FS_CardinalityType
  <1> QED BY <1>1, <1>2

(* A car drives in because nobody waits.                                   *)
LEMMA RoomBase ==
    ASSUME Base, NEW t \in Threads, RoomForAll(t)
    PROVE  Base'
  <1> DEFINE s == Head(todo[t])
  <1>1. /\ todo[t] # <<>> /\ s \in Steps /\ s.op = "ask_waiting" /\ StepOK(s)
    BY First DEF RoomForAll
  <1>2. s.device \in Entrances /\ s.car \in Cars /\ s.car \in Seen
    BY <1>1, StepFields DEF EntranceOps, StepOK
  <1>3. /\ at' = [at EXCEPT ![s.device] = IF @ = s.car THEN NoCar ELSE @]
        /\ letin' = letin \cup {s.car}
        /\ excess' = IF upset[t] /\ s.car \notin letin THEN excess + 1 ELSE excess
        /\ Then(t, <<>>) /\ Upset(t, FALSE)
        /\ UNCHANGED <<config, inner, wait, leaving, away, gate, promised, mishaps>>
    BY DEF RoomForAll
  <1>4. Typed /\ TypeOK /\ CarsOK
    BY DEF Base, Typed
  <1>5. /\ at' \in [Entrances -> Cars \cup {NoCar}]
        /\ \A e \in Entrances : at'[e] \in {at[e], NoCar}
    BY <1>2, <1>3, <1>4 DEF TypeOK
  <1>6. Grows
    BY <1>3, <1>5 DEF Grows, Seen
  <1>7. todo' \in [Threads -> Seq(Steps)] /\ (\A u \in Threads : ListOK(todo[u]))'
    BY <1>1, <1>3, <1>6, Proceeds
  <1>8. letin' \in SUBSET Cars /\ excess' \in Nat /\ excess' <= Cardinality(letin')
    <2>1. letin \subseteq Cars /\ IsFiniteSet(letin) /\ excess \in Nat /\ excess <= Cardinality(letin)
      BY <1>4, EntranceAssumption, FS_Subset DEF Typed, TypeOK
    <2>2. Cardinality(letin') = IF s.car \in letin THEN Cardinality(letin) ELSE Cardinality(letin) + 1
      BY <2>1, <1>3, FS_AddElement
    <2>3. Cardinality(letin) \in Nat
      BY <2>1, FS_CardinalityType
    <2> QED BY <2>1, <2>2, <2>3, <1>2, <1>3
  <1>9. Typed'
    <2>1. upset' \in [Threads -> BOOLEAN] /\ excess' \in 0 .. Cardinality(Cars)
      BY <1>3, <1>8, UpsetTyped, ExcessTyped
    <2> QED BY <2>1, <1>3, <1>4, <1>5, <1>7, <1>8 DEF Typed, TypeOK
  <1>10. CarsOK'
    <2>1. Seen' = Seen
      BY <1>3 DEF Seen
    <2> QED BY <2>1, <1>2, <1>3, <1>4, <1>5, <1>6, CarsStay DEF CarsOK
  <1> QED BY <1>7, <1>9, <1>10 DEF Base

(* A gate opens.                                                           *)
LEMMA OpenBase ==
    ASSUME Base, NEW t \in Threads, bgc_open(t)
    PROVE  Base'
  <1> DEFINE s == Head(todo[t])
             meant == {s.car} \ letin
             others == Standing(s.device) \ ({s.car} \cup letin)
  <1>1. todo[t] # <<>> /\ s \in Steps /\ s.op = "open" /\ StepOK(s)
    BY First DEF bgc_open
  <1>2. s.device \in Entrances /\ s.car \in Cars /\ s.car \in Seen
    BY <1>1, StepFields DEF StepOK
  <1>3. /\ \/ /\ at' = [at EXCEPT ![s.device] = NoCar]
              /\ letin' = letin \cup meant \cup others
              /\ excess' = excess + Cardinality(others)
                             + (IF upset[t] THEN Cardinality(meant) ELSE 0)
           \/ /\ letin' = letin \cup meant
              /\ excess' = excess + (IF upset[t] THEN Cardinality(meant) ELSE 0)
              /\ UNCHANGED at
        /\ Then(t, <<>>) /\ Upset(t, FALSE)
        /\ UNCHANGED <<config, inner, wait, leaving, away, gate, promised, mishaps>>
    BY DEF bgc_open
  <1>4. Typed /\ TypeOK /\ CarsOK
    BY DEF Base, Typed
  <1>5. /\ at' \in [Entrances -> Cars \cup {NoCar}]
        /\ \A e \in Entrances : at'[e] \in {at[e], NoCar}
    BY <1>2, <1>3, <1>4 DEF TypeOK
  <1>6. Grows
    BY <1>3, <1>5 DEF Grows, Seen
  <1>7. todo' \in [Threads -> Seq(Steps)] /\ (\A u \in Threads : ListOK(todo[u]))'
    BY <1>1, <1>3, <1>6, Proceeds
  <1>8. others \subseteq Cars /\ others \subseteq Seen /\ meant \subseteq Cars /\ meant \subseteq Seen
    BY <1>2, <1>4 DEF Standing, TypeOK, CarsOK, Seen
  <1>9. letin' \in SUBSET Cars /\ excess' \in Nat /\ excess' <= Cardinality(letin')
    <2>1. /\ letin \subseteq Cars /\ IsFiniteSet(letin) /\ excess \in Nat
          /\ excess <= Cardinality(letin) /\ IsFiniteSet(others) /\ IsFiniteSet(meant)
      BY <1>4, <1>8, EntranceAssumption, FS_Subset DEF Typed, TypeOK
    <2>2. letin \cap meant = {} /\ (letin \cup meant) \cap others = {}
      OBVIOUS
    <2> HIDE DEF meant, others
    <2>3. /\ Cardinality(letin \cup meant) = Cardinality(letin) + Cardinality(meant)
          /\ Cardinality(letin) \in Nat /\ Cardinality(meant) \in Nat /\ IsFiniteSet(letin \cup meant)
      BY <2>1, <2>2, Adds
    <2>4. /\ Cardinality(letin \cup meant \cup others) = Cardinality(letin \cup meant) + Cardinality(others)
          /\ Cardinality(others) \in Nat
      BY <2>1, <2>2, <2>3, Adds
    <2>5. letin' \in SUBSET Cars
      BY <2>1, <1>3, <1>8
    <2>6. PICK m \in Nat :
            /\ m <= Cardinality(meant)
            /\ \/ letin' = letin \cup meant \cup others /\ excess' = excess + Cardinality(others) + m
               \/ letin' = letin \cup meant /\ excess' = excess + m
      <3>1. CASE upset[t]
        BY <3>1, <2>3, <1>3
      <3>2. CASE ~upset[t]
        BY <3>2, <2>3, <1>3
      <3> QED BY <3>1, <3>2
    <2>7. CASE letin' = letin \cup meant \cup others /\ excess' = excess + Cardinality(others) + m
      BY <2>1, <2>3, <2>4, <2>5, <2>6, <2>7
    <2>8. CASE letin' = letin \cup meant /\ excess' = excess + m
      BY <2>1, <2>3, <2>5, <2>6, <2>8
    <2> QED BY <2>6, <2>7, <2>8
  <1>10. Typed'
    <2>1. upset' \in [Threads -> BOOLEAN] /\ excess' \in 0 .. Cardinality(Cars)
      BY <1>3, <1>9, UpsetTyped, ExcessTyped
    <2>2. \A d, e \in Entrances : (at'[d] = at'[e] /\ at'[d] # NoCar) => d = e
      BY <1>4, <1>5 DEF TypeOK
    <2> QED BY <2>1, <2>2, <1>3, <1>4, <1>5, <1>7, <1>9 DEF Typed, TypeOK
  <1>11. CarsOK'
    <2>1. Seen' = Seen /\ letin' \subseteq Seen
      BY <1>3, <1>4, <1>8 DEF Seen, CarsOK
    <2> QED BY <2>1, <1>3, <1>4, <1>5, <1>6, CarsStay DEF CarsOK
  <1> QED BY <1>7, <1>10, <1>11 DEF Base

(* The waiting list changes.                                               *)
LEMMA RowsBase ==
    ASSUME Base, NEW t \in Threads,
           \/ InsertWaitVehicleInfo(t) \/ DeleteWaitVehicleByDevice_ip(t)
           \/ DeleteWaitVehicleByPlate_num(t)
    PROVE  Base'
  <1> DEFINE s == Head(todo[t])
  <1>1. PICK op : At(t, op) /\ op \in {"insert_row", "delete_row", "delete_plate"}
    BY DEF InsertWaitVehicleInfo, DeleteWaitVehicleByDevice_ip, DeleteWaitVehicleByPlate_num
  <1>2. todo[t] # <<>> /\ s \in Steps /\ StepOK(s) /\ s.op = op
    BY <1>1, First
  <1>3. /\ Then(t, <<>>) /\ Upset(t, FALSE)
        /\ UNCHANGED <<config, inner, at, leaving, away, gate, letin, excess, mishaps>>
    BY DEF InsertWaitVehicleInfo, DeleteWaitVehicleByDevice_ip, DeleteWaitVehicleByPlate_num, history
  <1>4. /\ \/ s.op = "insert_row" /\ wait' = wait \cup {[device |-> s.device, car |-> s.car]}
           \/ wait' \subseteq wait
        /\ \/ s.op = "insert_row" /\ promised' = promised \cup {s.car}
           \/ promised' \subseteq promised
    BY DEF InsertWaitVehicleInfo, DeleteWaitVehicleByDevice_ip, DeleteWaitVehicleByPlate_num, At, history
  <1>5. s.op = "insert_row" =>
          /\ s.device \in Entrances /\ s.car \in Cars /\ s.car \in Seen /\ StandsAt(s.car, s.device)
    BY <1>2, StepFields DEF EntranceOps, StepOK
  <1>6. Typed /\ TypeOK /\ CarsOK
    BY DEF Base, Typed
  <1>7. Grows /\ Seen' = Seen /\ \A car, d : StandsAt(car, d)' <=> StandsAt(car, d)
    BY <1>3 DEF Grows, Seen, StandsAt
  <1>8. todo' \in [Threads -> Seq(Steps)] /\ (\A u \in Threads : ListOK(todo[u]))'
    BY <1>2, <1>3, <1>7, Proceeds
  <1>9. upset' \in [Threads -> BOOLEAN]
    BY <1>3, UpsetTyped
  <1>10. promised' \subseteq Cars /\ promised' \subseteq Seen
    BY <1>4, <1>5, <1>6 DEF TypeOK, CarsOK
  <1>11. /\ wait' \subseteq [device : Entrances, car : Cars]
         /\ \A row \in wait' : row.car \in Seen /\ StandsAt(row.car, row.device)
    <2>1. CASE wait' \subseteq wait
      BY <2>1, <1>6 DEF TypeOK, CarsOK
    <2>2. CASE s.op = "insert_row" /\ wait' = wait \cup {[device |-> s.device, car |-> s.car]}
      BY <2>2, <1>5, <1>6 DEF TypeOK, CarsOK
    <2> QED BY <2>1, <2>2, <1>4
  <1>12. Typed'
    BY <1>3, <1>6, <1>8, <1>9, <1>10, <1>11 DEF Typed, TypeOK
  <1>13. CarsOK'
    BY <1>3, <1>6, <1>7, <1>10, <1>11 DEF CarsOK
  <1> QED BY <1>8, <1>12, <1>13 DEF Base

(* A car is deleted from park_inner_cars: it has left or turned back.      *)
LEMMA GoneBase ==
    ASSUME Base, NEW car \in leaving \cup away, inner' = inner \ {car},
           NEW t, Upset(t, FALSE),
           todo' \in [Threads -> Seq(Steps)], Grows => (\A u \in Threads : ListOK(todo[u]))',
           UNCHANGED <<config, wait, at, leaving, away, gate, letin, promised, excess, mishaps>>
    PROVE  Base'
  <1>1. Typed /\ TypeOK /\ CarsOK
    BY DEF Base, Typed
  <1>2. Seen' = Seen
    BY DEF Seen
  <1>3. Grows
    BY <1>2 DEF Grows
  <1>4. upset' \in [Threads -> BOOLEAN]
    BY UpsetTyped
  <1>5. Typed'
    BY <1>1, <1>4 DEF Typed, TypeOK
  <1>6. CarsOK'
    BY <1>1, <1>2 DEF CarsOK, StandsAt
  <1> QED BY <1>3, <1>5, <1>6 DEF Base

(* A handler deletes the entry of a car that left or turned back.          *)
LEMMA DeleteInnerBase ==
    ASSUME Base, NEW t \in Threads, DeleteInnerVehicle(t)
    PROVE  Base'
  <1> DEFINE s == Head(todo[t])
  <1>1. /\ At(t, "delete_inner") /\ inner' = inner \ {s.car} /\ Then(t, <<>>) /\ Upset(t, FALSE)
        /\ UNCHANGED <<config, wait, at, leaving, away, gate, letin, promised, excess, mishaps>>
    BY DEF DeleteInnerVehicle, history
  <1>2. todo[t] # <<>> /\ s.car \in leaving \cup away
    BY <1>1, First DEF StepOK
  <1>3. Grows
    BY <1>1, <1>2 DEF Grows, Seen
  <1>4. todo' \in [Threads -> Seq(Steps)] /\ (\A u \in Threads : ListOK(todo[u]))'
    BY <1>1, <1>2, <1>3, Proceeds
  <1> QED BY <1>1, <1>2, <1>4, GoneBase

(* A checkout does so on behalf of a terminal.                             *)
LEMMA PaysBase ==
    ASSUME Base, NEW car \in Cars, Pays(car)
    PROVE  Base'
  <1>1. /\ car \in leaving \cup away /\ inner' = inner \ {car} /\ Upset(Terminal, FALSE)
        /\ UNCHANGED <<config, wait, at, leaving, away, gate, todo, letin, promised, excess, mishaps>>
    BY DEF Pays, history
  <1>2. Grows
    BY <1>1 DEF Grows, Seen
  <1>3. todo' \in [Threads -> Seq(Steps)] /\ (\A u \in Threads : ListOK(todo[u]))'
    BY <1>1, <1>2, ListsStay
  <1> QED BY <1>1, <1>3, GoneBase

(* A car comes to an entrance.                                             *)
LEMMA ArrivesBase ==
    ASSUME Base, NEW t \in Threads, NEW d \in Entrances, NEW car \in Cars, Arrives(t, d, car)
    PROVE  Base'
  <1>1. /\ at[d] = NoCar /\ car \notin Seen
        /\ at' = [at EXCEPT ![d] = car] /\ inner' = inner \cup {car} /\ Upset(t, FALSE)
        /\ UNCHANGED <<config, wait, leaving, away, gate, letin, promised, excess, mishaps>>
    BY DEF Arrives, Seen, history
  <1>2. PICK s \in {<<>>, <<Count(d, car)>>} : todo' = [todo EXCEPT ![t] = s]
    BY DEF Arrives
  <1>3. Typed /\ TypeOK /\ CarsOK
    BY DEF Base, Typed
  <1>4. /\ at' \in [Entrances -> Cars \cup {NoCar}] /\ Seen' = Seen \cup {car}
        /\ \A e \in Entrances : at'[e] = IF e = d THEN car ELSE at[e]
        /\ \A e \in Entrances : at[e] # car
    BY <1>1, <1>3, EntranceAssumption DEF TypeOK, CarsOK, Seen
  <1>5. Grows
    BY <1>1, <1>4 DEF Grows
  <1>6. todo' \in [Threads -> Seq(Steps)] /\ (\A u \in Threads : ListOK(todo[u]))'
    <2> DEFINE a == Count(d, car)
    <2>1. a \in Steps
      BY StepsAre
    <2>2. StandsAt(car, d)'
      BY <1>4 DEF StandsAt
    <2>3. \A st : st = a => StepOK(st)'
      BY <2>2, <1>4 DEF Count, StepOK, EntranceOps, ExitOps
    <2> HIDE DEF a
    <2>4. s \in Seq(Steps) /\ Ordered(s) /\ \A k \in DOMAIN s : s[k] = a
      <3>1. CASE s = <<>>
        BY <3>1 DEF Ordered
      <3>2. CASE s = <<a>>
        <4>1. <<a>> \in Seq(Steps) /\ DOMAIN <<a>> = {1} /\ <<a>>[1] = a
          BY <2>1, Lists
        <4> QED BY <4>1, <3>2 DEF Ordered
      <3> QED BY <3>1, <3>2 DEF a
    <2> QED BY <2>3, <2>4, <1>2, <1>5, Begins
  <1>7. Typed'
    <2>1. upset' \in [Threads -> BOOLEAN]
      BY <1>1, UpsetTyped
    <2>2. \A x, e \in Entrances : (at'[x] = at'[e] /\ at'[x] # NoCar) => x = e
      BY <1>3, <1>4 DEF TypeOK
    <2> QED BY <2>1, <2>2, <1>1, <1>3, <1>4, <1>6 DEF Typed, TypeOK
  <1>8. CarsOK'
    <2>1. \A e \in Entrances : at'[e] # NoCar => at'[e] \in inner' \ (leaving' \cup away')
      BY <1>1, <1>3, <1>4 DEF CarsOK, Seen
    <2> QED BY <2>1, <1>1, <1>3, <1>5, CarsStay DEF CarsOK
  <1> QED BY <1>6, <1>7, <1>8 DEF Base

(* A car turns back.                                                       *)
LEMMA TurnsBackBase ==
    ASSUME Base, NEW t \in Threads, NEW d \in Entrances, TurnsBack(t, d)
    PROVE  Base'
  <1> DEFINE car == at[d]
             a == FindPlate(car)
             b == DeleteInner(car)
  <1>1. /\ car # NoCar /\ away' = away \cup {car} /\ at' = [at EXCEPT ![d] = NoCar]
        /\ todo' = [todo EXCEPT ![t] = <<a, b>>] /\ Upset(t, FALSE)
        /\ UNCHANGED <<config, inner, wait, leaving, gate, letin, promised, excess, mishaps>>
    BY DEF TurnsBack, history
  <1>2. Typed /\ TypeOK /\ CarsOK
    BY DEF Base, Typed
  <1>3. /\ car \in Cars /\ at' \in [Entrances -> Cars \cup {NoCar}]
        /\ \A e \in Entrances : at'[e] = IF e = d THEN NoCar ELSE at[e]
        /\ \A e \in Entrances : e # d => at[e] # car
    BY <1>1, <1>2 DEF TypeOK
  <1>4. Grows
    BY <1>1, <1>3 DEF Grows, Seen
  <1>5. todo' \in [Threads -> Seq(Steps)] /\ (\A u \in Threads : ListOK(todo[u]))'
    <2>1. a \in Steps /\ b \in Steps /\ Ordered(<<a, b>>)
      BY <1>3, StepsAre, OrderedExits
    <2>2. \A st : st = a \/ st = b => StepOK(st)'
      BY <1>1 DEF FindPlate, DeleteInner, StepOK, EntranceOps, ExitOps
    <2> HIDE DEF a, b
    <2>3. <<a, b>> \in Seq(Steps) /\ \A k \in DOMAIN <<a, b>> : <<a, b>>[k] = a \/ <<a, b>>[k] = b
      <3>1. /\ <<a, b>> \in Seq(Steps) /\ DOMAIN <<a, b>> = {1, 2}
            /\ <<a, b>>[1] = a /\ <<a, b>>[2] = b
        BY <2>1, Lists
      <3> QED BY <3>1
    <2> QED BY <2>1, <2>2, <2>3, <1>1, <1>4, Begins
  <1>6. Typed'
    <2>1. upset' \in [Threads -> BOOLEAN]
      BY <1>1, UpsetTyped
    <2>2. \A x, e \in Entrances : (at'[x] = at'[e] /\ at'[x] # NoCar) => x = e
      BY <1>2, <1>3 DEF TypeOK
    <2> QED BY <2>1, <2>2, <1>1, <1>2, <1>3, <1>5 DEF Typed, TypeOK
  <1>7. CarsOK'
    <2>1. \A e \in Entrances : at'[e] # NoCar => at'[e] \in inner' \ (leaving' \cup away')
      BY <1>1, <1>2, <1>3 DEF CarsOK
    <2> QED BY <2>1, <1>1, <1>2, <1>4, CarsStay DEF CarsOK
  <1> QED BY <1>5, <1>6, <1>7 DEF Base

(* What an exit begins with.                                               *)
LEMMA LeavesPuts ==
    ASSUME NEW t \in Threads, NEW car \in Cars, Leaves(t, car)
    PROVE  \E s \in {<<>>, <<DeleteInner(car)>>, <<CountExit(car)>>,
                     <<DeleteInner(car), CountExit(car)>>} : todo' = [todo EXCEPT ![t] = s]
  <1> DEFINE a == DeleteInner(car)
             b == CountExit(car)
  <1>1. PICK release \in {<<>>, <<a>>} :
          todo' = [todo EXCEPT ![t] = release \o IF config.judge = 0 THEN <<>> ELSE <<b>>]
    BY DEF Leaves
  <1>2. /\ <<>> \o <<>> = <<>> /\ <<>> \o <<b>> = <<b>> /\ <<a>> \o <<>> = <<a>>
        /\ <<a>> \o <<b>> = <<a, b>>
    BY Concats, Zenon
  <1> HIDE DEF a, b
  <1>3. release \o (IF config.judge = 0 THEN <<>> ELSE <<b>>) \in {<<>>, <<a>>, <<b>>, <<a, b>>}
    BY <1>2
  <1> QED BY <1>1, <1>3 DEF a, b

(* A car leaves.                                                           *)
LEMMA LeavesBase ==
    ASSUME Base, NEW t \in Threads, NEW car \in Cars, Leaves(t, car)
    PROVE  Base'
  <1> DEFINE a == DeleteInner(car)
             b == CountExit(car)
  <1>1. /\ car \in inner /\ \A e \in Entrances : at[e] # car
        /\ leaving' = leaving \cup {car} /\ Upset(t, FALSE)
        /\ UNCHANGED <<config, inner, wait, at, away, gate, letin, promised, excess, mishaps>>
    BY DEF Leaves, Inside, history
  <1>2. PICK s \in {<<>>, <<a>>, <<b>>, <<a, b>>} : todo' = [todo EXCEPT ![t] = s]
    BY LeavesPuts
  <1>3. Typed /\ TypeOK /\ CarsOK
    BY DEF Base, Typed
  <1>4. Grows
    BY <1>1 DEF Grows, Seen
  <1>5. todo' \in [Threads -> Seq(Steps)] /\ (\A u \in Threads : ListOK(todo[u]))'
    <2>1. a \in Steps /\ b \in Steps /\ Ordered(<<a, b>>)
      BY StepsAre, OrderedExits
    <2>2. \A st : st = a \/ st = b => StepOK(st)'
      BY <1>1 DEF CountExit, DeleteInner, StepOK, EntranceOps, ExitOps
    <2> HIDE DEF a, b
    <2>3. s \in Seq(Steps) /\ Ordered(s) /\ \A k \in DOMAIN s : s[k] = a \/ s[k] = b
      <3>1. CASE s = <<>>
        BY <3>1 DEF Ordered
      <3>2. ASSUME NEW c \in Steps PROVE <<c>> \in Seq(Steps) /\ Ordered(<<c>>) /\ \A k \in DOMAIN <<c>> : <<c>>[k] = c
        <4>1. <<c>> \in Seq(Steps) /\ DOMAIN <<c>> = {1} /\ <<c>>[1] = c
          BY <3>2, Lists
        <4> QED BY <4>1 DEF Ordered
      <3>3. CASE s = <<a, b>>
        <4>1. /\ <<a, b>> \in Seq(Steps) /\ DOMAIN <<a, b>> = {1, 2}
              /\ <<a, b>>[1] = a /\ <<a, b>>[2] = b
          BY <2>1, Lists
        <4> QED BY <4>1, <3>3, <2>1
      <3> QED BY <3>1, <3>2, <3>3, <2>1
    <2> QED BY <2>2, <2>3, <1>2, <1>4, Begins
  <1>6. Typed'
    <2>1. upset' \in [Threads -> BOOLEAN]
      BY <1>1, UpsetTyped
    <2> QED BY <2>1, <1>1, <1>3, <1>5 DEF Typed, TypeOK
  <1>7. CarsOK'
    <2>1. \A e \in Entrances : at'[e] # NoCar => at'[e] \in inner' \ (leaving' \cup away')
      BY <1>1, <1>3 DEF CarsOK
    <2> QED BY <2>1, <1>1, <1>3, <1>4, CarsStay DEF CarsOK
  <1> QED BY <1>5, <1>6, <1>7 DEF Base

(* The operator opens a gate or changes its mode.                          *)
LEMMA OperateBase ==
    ASSUME Base, NEW d \in Entrances, on_operate_gateway(d)
    PROVE  Base'
  <1>1. Typed /\ TypeOK /\ CarsOK
    BY DEF Base, Typed
  <1>2. /\ \/ /\ at[d] # NoCar /\ at' = [at EXCEPT ![d] = NoCar] /\ letin' = letin \cup {at[d]}
              /\ excess' = excess + Cardinality(Standing(d) \ letin) /\ UNCHANGED gate
           \/ /\ gate' = [gate EXCEPT ![d] = IF @ = "auto" THEN "held" ELSE "auto"]
              /\ UNCHANGED <<at, letin, excess>>
        /\ UNCHANGED <<config, inner, wait, leaving, away, todo, promised>>
        /\ Upset(Terminal, FALSE)
    BY DEF on_operate_gateway
  <1>3. /\ at' \in [Entrances -> Cars \cup {NoCar}] /\ gate' \in [Entrances -> {"auto", "held"}]
        /\ \A e \in Entrances : at'[e] \in {at[e], NoCar}
    BY <1>1, <1>2 DEF TypeOK
  <1>4. Grows
    BY <1>2, <1>3 DEF Grows, Seen
  <1>5. todo' \in [Threads -> Seq(Steps)] /\ (\A u \in Threads : ListOK(todo[u]))'
    BY <1>2, <1>4, ListsStay
  <1>6. letin' \in SUBSET Cars /\ excess' \in Nat /\ excess' <= Cardinality(letin')
    <2>1. letin \subseteq Cars /\ IsFiniteSet(letin) /\ excess \in Nat /\ excess <= Cardinality(letin)
      BY <1>1, EntranceAssumption, FS_Subset DEF Typed, TypeOK
    <2>2. CASE UNCHANGED <<letin, excess>>
      BY <2>1, <2>2
    <2>3. CASE at[d] # NoCar /\ letin' = letin \cup {at[d]} /\ excess' = excess + Cardinality(Standing(d) \ letin)
      <3> DEFINE more == Standing(d) \ letin
      <3>1. /\ letin' = letin \cup more /\ letin \cap more = {} /\ more \subseteq Cars
        BY <2>3, <1>1 DEF Standing, TypeOK
      <3>2. IsFiniteSet(more)
        BY <3>1, EntranceAssumption, FS_Subset
      <3>3. excess' = excess + Cardinality(more)
        BY <2>3
      <3> HIDE DEF more
      <3>4. /\ Cardinality(letin') = Cardinality(letin) + Cardinality(more)
            /\ Cardinality(letin) \in Nat /\ Cardinality(more) \in Nat
        BY <3>1, <3>2, <2>1, Adds
      <3>5. letin' \in SUBSET Cars
        BY <3>1, <2>1
      <3> QED BY <3>3, <3>4, <3>5, <2>1
    <2> QED BY <2>2, <2>3, <1>2
  <1>7. Typed'
    <2>1. upset' \in [Threads -> BOOLEAN] /\ excess' \in 0 .. Cardinality(Cars)
      BY <1>2, <1>6, UpsetTyped, ExcessTyped
    <2>2. \A x, e \in Entrances : (at'[x] = at'[e] /\ at'[x] # NoCar) => x = e
      BY <1>1, <1>3 DEF TypeOK
    <2> QED BY <2>1, <2>2, <1>1, <1>2, <1>3, <1>5, <1>6 DEF Typed, TypeOK
  <1>8. CarsOK'
    <2>1. Seen' = Seen /\ letin' \subseteq Seen
      BY <1>1, <1>2 DEF Seen, CarsOK
    <2> QED BY <2>1, <1>1, <1>2, <1>3, <1>4, CarsStay DEF CarsOK
  <1> QED BY <1>5, <1>7, <1>8 DEF Base

(* A device connects again, or a handler is given up: no car moves.        *)
LEMMA ListOnlyBase ==
    ASSUME Base, NEW t \in Threads, NEW failed, Upset(t, failed),
           UNCHANGED <<config, inner, wait, at, leaving, away, gate, letin, promised, excess>>,
           todo' \in [Threads -> Seq(Steps)], Grows => (\A u \in Threads : ListOK(todo[u]))'
    PROVE  Base'
  <1>1. Grows
    BY DEF Grows, Seen
  <1>2. upset' \in [Threads -> BOOLEAN]
    BY UpsetTyped
  <1>3. Typed'
    BY <1>2 DEF Base, Typed, TypeOK
  <1>4. CarsOK'
    BY DEF Base, CarsOK, Seen, StandsAt
  <1> QED BY <1>1, <1>3, <1>4 DEF Base

(* A device connects again.                                                *)
LEMMA NewClientBase ==
    ASSUME Base, NEW t \in Threads, NEW d \in Entrances, new_client(t, d)
    PROVE  Base'
  <1> DEFINE a == CountNew(d)
  <1>1. /\ todo' = [todo EXCEPT ![t] = <<a>>] /\ Upset(t, FALSE)
        /\ UNCHANGED <<config, inner, wait, at, leaving, away, gate, letin, promised, excess>>
    BY DEF new_client, history
  <1>2. Grows
    BY <1>1 DEF Grows, Seen
  <1>3. a \in Steps
    BY StepsAre
  <1>4. \A st : st = a => StepOK(st)'
    BY DEF CountNew, StepOK, EntranceOps, ExitOps
  <1> HIDE DEF a
  <1>5. <<a>> \in Seq(Steps) /\ DOMAIN <<a>> = {1} /\ <<a>>[1] = a /\ Ordered(<<a>>)
    BY <1>3, Lists DEF Ordered
  <1>6. todo' \in [Threads -> Seq(Steps)] /\ (\A u \in Threads : ListOK(todo[u]))'
    BY <1>1, <1>2, <1>4, <1>5, Begins
  <1> QED BY <1>1, <1>6, ListOnlyBase

(* What is left of a handler whose step throws: nothing, or the delete of  *)
(* led_show_new_client.                                                    *)
LEMMA Thrown ==
    ASSUME Base, NEW t \in Threads, Throws(t)
    PROVE  /\ todo' \in [Threads -> Seq(Steps)]
           /\ \A u \in Threads : u # t => todo'[u] = todo[u]
           /\ DOMAIN todo'[t] \subseteq {1} /\ Len(todo'[t]) \in {0, 1}
           /\ DOMAIN todo'[t] # {} =>
                \E j \in DOMAIN todo[t] : todo'[t][1] = todo[t][j] /\ todo[t][j].op = "delete_row"
  <1> DEFINE l == todo[t]
             ends == {i \in DOMAIN l : l[i] = EndTry}
             e == CHOOSE i \in ends : TRUE
             n == IF ends # {} THEN SubSeq(l, 1 + e, Len(l)) ELSE <<>>
  <1>1. todo' = [todo EXCEPT ![t] = n] /\ l # <<>>
    BY DEF Throws
  <1>2. todo \in [Threads -> Seq(Steps)] /\ l \in Seq(Steps) /\ Ordered(l)
    BY DEF Base, Typed, ListOK
  <1> HIDE DEF n, l
  <1>3. DOMAIN l = 1 .. Len(l) /\ Len(l) \in Nat \ {0}
    BY <1>1, <1>2
  <1>4. n \in Seq(Steps) /\ Len(n) \in {0, 1} /\ DOMAIN n \subseteq {1}
        /\ (DOMAIN n # {} => \E j \in DOMAIN l : n[1] = l[j] /\ l[j].op = "delete_row")
    <2>1. CASE ends = {}
      BY <2>1 DEF n
    <2>2. CASE ends # {}
      <3>1. e \in DOMAIN l /\ l[e].op = "end_try"
        BY <2>2 DEF EndTry
      <3> HIDE DEF e, ends
      <3>2. n = SubSeq(l, 1 + e, Len(l))
        BY <2>2 DEF n
      <3>3. \/ e = Len(l)
            \/ e + 1 = Len(l) /\ l[e + 1].op = "delete_row"
        <4>1. CASE e > 1
          BY <4>1, <3>1, <1>2 DEF Ordered, MayFollow
        <4>2. CASE e = 1 /\ Len(l) > 1
          <5>1. 2 \in DOMAIN l /\ 2 > 1
            BY <4>2, <1>3
          <5>2. MayFollow(l, 2) /\ l[1].op = "end_try"
            BY <5>1, <4>2, <3>1, <1>2 DEF Ordered
          <5>3. l[2].op = "end_try" /\ 3 = Len(l) /\ l[3].op = "delete_row"
            BY <5>2 DEF MayFollow, DeviceOps, EntranceOps
          <5>4. 3 \in DOMAIN l /\ 3 > 1
            BY <5>3, <1>3
          <5>5. MayFollow(l, 3)
            BY <5>4, <1>2 DEF Ordered
          <5> QED BY <5>2, <5>3, <5>5 DEF MayFollow, DeviceOps, EntranceOps
        <4> QED BY <4>1, <4>2, <3>1, <1>3
      <3>4. CASE e = Len(l)
        <4>1. n = <<>>
          BY <3>2, <3>4, <1>2, <1>3
        <4> QED BY <4>1
      <3>5. CASE e + 1 = Len(l) /\ l[e + 1].op = "delete_row"
        <4>1. 1 + e \in 1 .. Len(l) /\ e + 1 \in DOMAIN l /\ Len(l) \in 1 .. Len(l)
          BY <3>1, <3>5, <1>3
        <4>2. n \in Seq(Steps) /\ Len(n) = 1 /\ n[1] = l[e + 1]
          BY <4>1, <3>1, <3>2, <3>5, <1>2, <1>3
        <4>3. DOMAIN n = {1}
          BY <4>2
        <4> QED BY <4>1, <4>2, <4>3, <3>5
      <3> QED BY <3>3, <3>4, <3>5
    <2> QED BY <2>1, <2>2
  <1>5. todo' \in [Threads -> Seq(Steps)] /\ todo'[t] = n /\ \A u \in Threads : u # t => todo'[u] = todo[u]
    BY <1>1, <1>2, <1>4
  <1> QED BY <1>4, <1>5 DEF l

(* A step throws.                                                          *)
LEMMA ThrowsBase ==
    ASSUME Base, NEW t \in Threads, Throws(t)
    PROVE  Base'
  <1>1. /\ Upset(t, TRUE)
        /\ UNCHANGED <<config, inner, wait, at, leaving, away, gate, letin, promised, excess>>
    BY DEF Throws, history
  <1>2. Grows
    BY <1>1 DEF Grows, Seen
  <1>3. /\ todo' \in [Threads -> Seq(Steps)]
        /\ \A u \in Threads : u # t => todo'[u] = todo[u]
        /\ DOMAIN todo'[t] \subseteq {1}
        /\ \A k \in DOMAIN todo'[t] : \E j \in DOMAIN todo[t] : todo'[t][k] = todo[t][j]
    BY Thrown
  <1>4. Ordered(todo'[t])
    BY <1>3 DEF Ordered
  <1>5. (\A u \in Threads : ListOK(todo[u]))'
    BY <1>2, <1>3, <1>4, ListsKept
  <1> QED BY <1>1, <1>3, <1>5, ListOnlyBase

(* Base holds in every state.                                              *)
LEMMA BaseInit == Init => Base
  <1> SUFFICES ASSUME Init PROVE Base
    OBVIOUS
  <1>1. \A t \in Threads : todo[t] = <<>>
    BY DEF Init
  <1>2. \A t \in Threads : ListOK(todo[t])
    BY <1>1 DEF ListOK, Ordered
  <1>3. TypeOK /\ excess <= Cardinality(letin) /\ todo \in [Threads -> Seq(Steps)]
    <2>1. /\ letin \subseteq Cars /\ IsFiniteSet(letin) /\ excess = 0
      BY EntranceAssumption, FS_Subset DEF Init
    <2>2. Cardinality(letin) \in Nat /\ Cardinality(Cars) \in Nat
      BY <2>1, EntranceAssumption, FS_CardinalityType
    <2> QED BY <2>1, <2>2 DEF Init, TypeOK
  <1>4. CarsOK
    BY DEF Init, CarsOK, Seen
  <1> QED BY <1>2, <1>3, <1>4 DEF Base, Typed

(* Every step of the system keeps it.                                      *)
LEMMA BaseNext == Base /\ [Next]_vars => Base'
  <1> SUFFICES ASSUME Base, [Next]_vars PROVE Base'
    OBVIOUS
  <1>1. ASSUME NEW t \in Threads, Step(t) PROVE Base'
    <2>1. \/ Decides(t) \/ RoomForAll(t) \/ bgc_open(t) \/ DeleteInnerVehicle(t)
          \/ cancle_close(t) \/ keep_close(t) \/ keep_close_all(t)
          \/ InsertWaitVehicleInfo(t) \/ DeleteWaitVehicleByDevice_ip(t)
          \/ DeleteWaitVehicleByPlate_num(t)
      BY <1>1 DEF Step, Decides
    <2> QED BY <2>1, DecidesBase, RoomBase, OpenBase, DeleteInnerBase, GatesBase, RowsBase
  <1>2. CASE UNCHANGED vars
    BY <1>2 DEF vars, history, Base, Typed, TypeOK, CarsOK, ListOK, StepOK, Seen, StandsAt, IsCustomer
  <1> QED BY <1>1, <1>2, ThrowsBase, ArrivesBase, TurnsBackBase, LeavesBase, NewClientBase,
             OperateBase, PaysBase DEF Next

(* Every variable keeps its type; a car stands at one entrance at most,    *)
(* whatever the handlers, the operator and the exits do meanwhile.         *)
THEOREM TypeCorrect == Spec => []TypeOK
  <1>1. Base => TypeOK
    BY DEF Base, Typed
  <1> QED BY <1>1, BaseInit, BaseNext, PTL DEF Spec

-----------------------------------------------------------------------------
(* What handlers that were not overtaken have still to do.                 *)

(* Those of the other threads do not change; if some are left, the tables  *)
(* and the gates did not change either.                                    *)
LEMMA LiveOthers ==
    ASSUME NEW t, NEW failed, Upset(t, failed),
           NEW u \in Threads, u # t, todo'[u] = todo[u]
    PROVE  /\ Live(u)' \subseteq Live(u)
           /\ Live(u)' # {} => inner' = inner /\ wait' = wait /\ gate' = gate
  <1> SUFFICES ASSUME NEW st \in Live(u)'
               PROVE  st \in Live(u) /\ inner' = inner /\ wait' = wait /\ gate' = gate
    OBVIOUS
  <1>1. st \in Steps /\ ~upset'[u] /\ \E i \in DOMAIN todo[u] : st = todo[u][i]
    BY DEF Live
  <1>2. todo[u] # <<>>
    BY <1>1
  <1>3. ~upset[u] /\ inner' = inner /\ wait' = wait /\ gate' = gate
    BY <1>1, <1>2 DEF Upset
  <1> QED BY <1>1, <1>3 DEF Live

(* Those of a thread that takes a step: the rest, and what it put there.   *)
LEMMA LiveOwn ==
    ASSUME Base, NEW t \in Threads, todo[t] # <<>>,
           NEW s \in Seq(Steps), s # <<>> => s[1].op # "end_try", Then(t, s),
           NEW failed, Upset(t, failed), NEW st \in Live(t)'
    PROVE  /\ ~upset[t] /\ st \in Steps
           /\ \/ \E k \in DOMAIN s : st = s[k]
              \/ st \in Live(t) /\ \E j \in DOMAIN todo[t] : j > 1 /\ st = todo[t][j]
  <1>1. st \in Steps /\ ~upset'[t] /\ \E i \in DOMAIN todo'[t] : st = todo'[t][i]
    BY DEF Live
  <1>2. todo'[t] # <<>>
    BY <1>1
  <1>3. ~upset[t]
    BY <1>1, <1>2 DEF Upset
  <1>4. \A k \in DOMAIN todo'[t] : \/ k \in DOMAIN s /\ todo'[t][k] = s[k]
                                   \/ \E j \in DOMAIN todo[t] : j > 1 /\ todo'[t][k] = todo[t][j]
    BY Goes
  <1> QED BY <1>1, <1>3, <1>4 DEF Live

(* Steps the places depend on.                                             *)
Weighty == {"open", "count_exit", "pick_waiting", "pick_new", "ask_waiting", "delete_inner"}

(* Of these, few stand behind the first step.                              *)
LEMMA WeightyBehind ==
    ASSUME NEW l \in Seq(Steps), Ordered(l), NEW j \in DOMAIN l, j > 1, l[j].op \in Weighty
    PROVE  \/ l[j].op = "open" /\ l[1].op = "cancel"
           \/ l[j].op = "count_exit" /\ l[1].op = "delete_inner" /\ l[1].car = l[j].car
           \/ l[j].op = "delete_inner" /\ l[1].op \in {"find_plate", "delete_plate"}
  BY DEF Ordered, MayFollow, Weighty

(* The handlers under way, with the first step st of t done and s put in   *)
(* its place.                                                              *)
LEMMA LiveGoesOn ==
    ASSUME Base, NEW t \in Threads, todo[t] # <<>>,
           NEW s \in Seq(Steps), s # <<>> => s[1].op # "end_try", Then(t, s),
           NEW failed, Upset(t, failed)
    PROVE  /\ \A u \in Threads : u # t => /\ Live(u)' \subseteq Live(u)
                                          /\ Live(u)' # {} => inner' = inner /\ wait' = wait /\ gate' = gate
           /\ \A st \in Live(t)' : ~upset[t] /\ (st \in Live(t) \/ \E k \in DOMAIN s : st = s[k])
           /\ \A st \in Live(t)' : st.op \in Weighty =>
                \/ \E k \in DOMAIN s : st = s[k]
                \/ st.op = "open" /\ todo[t][1].op = "cancel"
                \/ st.op = "count_exit" /\ todo[t][1].op = "delete_inner" /\ todo[t][1].car = st.car
                \/ st.op = "delete_inner" /\ todo[t][1].op \in {"find_plate", "delete_plate"}
  <1>1. \A u \in Threads : u # t => todo'[u] = todo[u]
    BY Goes
  <1>2. todo[t] \in Seq(Steps) /\ Ordered(todo[t])
    BY DEF Base, Typed, ListOK
  <1>3. ASSUME NEW st \in Live(t)', st.op \in Weighty
        PROVE  \/ \E k \in DOMAIN s : st = s[k]
               \/ st.op = "open" /\ todo[t][1].op = "cancel"
               \/ st.op = "count_exit" /\ todo[t][1].op = "delete_inner" /\ todo[t][1].car = st.car
               \/ st.op = "delete_inner" /\ todo[t][1].op \in {"find_plate", "delete_plate"}
    <2>1. CASE \E k \in DOMAIN s : st = s[k]
      BY <2>1
    <2>2. CASE \E j \in DOMAIN todo[t] : j > 1 /\ st = todo[t][j]
      <3>1. PICK j \in DOMAIN todo[t] : j > 1 /\ st = todo[t][j]
        BY <2>2
      <3> QED BY <3>1, <1>2, <1>3, WeightyBehind
    <2> QED BY <2>1, <2>2, LiveOwn
  <1> QED BY <1>1, <1>3, LiveOthers, LiveOwn

-----------------------------------------------------------------------------
(* Counting places.                                                        *)

(* The number that decisions go by is what the counted cars leave.         *)
LEMMA RemainIs ==
    ASSUME Typed
    PROVE  /\ Places \in Int /\ Remain \in Int /\ excess \in Nat
           /\ \A S \in SUBSET Cars : /\ Counted(S) \subseteq S /\ IsFiniteSet(Counted(S))
                                     /\ Cardinality(Counted(S)) \in Nat
           /\ Remain = Places - Cardinality(Counted(inner))
  <1>1. /\ config.judge \in {0, 1, 2} /\ config.berths \in Nat /\ config.rectify \in Int
        /\ inner \subseteq Cars /\ excess \in Nat
    BY EntranceAssumption DEF Typed, TypeOK
  <1>2. ASSUME NEW S \in SUBSET Cars
        PROVE  Counted(S) \subseteq S /\ IsFiniteSet(Counted(S)) /\ Cardinality(Counted(S)) \in Nat
    <2>1. Counted(S) \subseteq S /\ Counted(S) \subseteq Cars
      BY DEF Counted
    <2> QED BY <2>1, EntranceAssumption, FS_Subset, FS_CardinalityType
  <1>3. Cardinality(VIPs) \in Nat
    BY EntranceAssumption, FS_Subset, FS_CardinalityType
  <1>4. Places \in Int
    BY <1>1, <1>3 DEF Places, Capacity
  <1>5. Remain = Places - Cardinality(Counted(inner))
    <2>1. Cardinality(Counted(inner)) \in Nat
      BY <1>1, <1>2
    <2>2. CASE config.judge = 2
      BY <2>1, <2>2, <1>1, <1>3
         DEF Remain, real_temporary_parking, Places, Capacity, Counted
    <2>3. CASE config.judge # 2
      BY <2>1, <2>3, <1>1 DEF Remain, real_remain_parking, Places, Capacity, Counted
    <2> QED BY <2>2, <2>3
  <1> QED BY <1>1, <1>2, <1>4, <1>5

(* Where nobody is inside who may not be, no set of the cars inside is too *)
(* large.                                                                  *)
LEMMA TightBounds ==
    ASSUME Typed, Tight
    PROVE  Cardinality(Counted(inner \ (leaving \cup away))) <= Places
  <1> DEFINE A == Counted(inner)
             B == Counted(inner \ (leaving \cup away))
  <1>1. inner \in SUBSET Cars /\ inner \ (leaving \cup away) \in SUBSET Cars
    BY DEF Typed, TypeOK
  <1>2. /\ Places \in Int /\ Remain \in Int /\ Remain = Places - Cardinality(A)
        /\ IsFiniteSet(A) /\ IsFiniteSet(B) /\ Cardinality(A) \in Nat /\ Cardinality(B) \in Nat
    BY <1>1, RemainIs
  <1>3. B \subseteq A
    BY DEF Counted
  <1>4. CASE Remain >= 0
    <2>1. Cardinality(B) <= Cardinality(A)
      BY <1>2, <1>3, FS_Subset
    <2> HIDE DEF A, B
    <2> QED BY <2>1, <1>2, <1>4 DEF B
  <1>5. CASE Remain = -1 /\ A \cap (leaving \cup away) # {}
    <2>1. PICK car : car \in A /\ car \notin B
      BY <1>5 DEF Counted
    <2> HIDE DEF A, B
    <2>2. B \subseteq A \ {car} /\ IsFiniteSet(A \ {car}) /\ Cardinality(A \ {car}) = Cardinality(A) - 1
      BY <2>1, <1>2, <1>3, FS_RemoveElement
    <2>3. Cardinality(B) <= Cardinality(A \ {car})
      BY <2>2, FS_Subset
    <2> QED BY <2>2, <2>3, <1>2, <1>5 DEF B
  <1> QED BY <1>4, <1>5 DEF Tight

(* Then the lot is within its limits.                                      *)
LEMMA TightWithin ==
    ASSUME Typed, Tight
    PROVE  Within
  <1> DEFINE A == Counted(InLot)
             B == Counted(inner \ (leaving \cup away))
  <1>1. InLot \in SUBSET Cars /\ inner \ (leaving \cup away) \in SUBSET Cars /\ A \subseteq B
    BY DEF Typed, TypeOK, InLot, Counted
  <1>2. /\ Places \in Int /\ excess \in Nat /\ Cardinality(A) \in Nat /\ Cardinality(B) \in Nat
        /\ IsFiniteSet(B)
    BY <1>1, RemainIs
  <1>3. Cardinality(A) <= Cardinality(B) /\ Cardinality(B) <= Places
    BY <1>1, <1>2, FS_Subset, TightBounds
  <1> HIDE DEF A, B
  <1> QED BY <1>2, <1>3 DEF Within, A

(* More cars are let in.                                                   *)
LEMMA LetsInCount ==
    ASSUME Base, Typed', NEW A \in SUBSET Cars, letin' = letin \cup A,
           UNCHANGED <<config, inner, leaving, away>>
    PROVE  /\ Cardinality(Counted(InLot)') <= Cardinality(Counted(InLot)) + Cardinality(Counted(A \ letin))
           /\ Cardinality(Counted(InLot)') \in Nat /\ Cardinality(Counted(InLot)) \in Nat
           /\ Cardinality(Counted(A \ letin)) \in Nat
           /\ Places' = Places /\ Places \in Int /\ excess \in Nat /\ excess' \in Nat
  <1> DEFINE B == Counted(InLot)
             C == Counted(A \ letin)
             D == Counted(InLot)'
  <1>1. InLot \in SUBSET Cars /\ A \ letin \in SUBSET Cars /\ InLot' \in SUBSET Cars /\ Typed
    BY DEF Base, Typed, TypeOK, InLot
  <1>2. /\ IsFiniteSet(B) /\ IsFiniteSet(C) /\ Cardinality(B) \in Nat /\ Cardinality(C) \in Nat
        /\ Places \in Int /\ excess \in Nat
    BY <1>1, RemainIs
  <1>3. D = Counted(InLot') /\ Places' = Places
    BY DEF Counted, Places, Capacity
  <1>4. IsFiniteSet(D) /\ Cardinality(D) \in Nat /\ excess' \in Nat
    <2>1. excess' \in Nat
      BY DEF Typed, TypeOK
    <2> QED BY <2>1, <1>1, <1>3, RemainIs
  <1>5. D \subseteq B \cup C
    BY <1>3 DEF Counted, InLot
  <1> HIDE DEF B, C, D
  <1>6. Cardinality(D) <= Cardinality(B) + Cardinality(C)
    <2>1. IsFiniteSet(B \cup C) /\ Cardinality(B \cup C) = Cardinality(B) + Cardinality(C) - Cardinality(B \cap C)
      BY <1>2, FS_Union
    <2>2. IsFiniteSet(B \cap C)
      BY <1>2, FS_Subset
    <2>3. Cardinality(B \cap C) \in Nat
      BY <2>2, FS_CardinalityType
    <2>4. Cardinality(D) <= Cardinality(B \cup C)
      BY <2>1, <1>5, FS_Subset
    <2> QED BY <2>1, <2>3, <2>4, <1>2, <1>4
  <1> QED BY <1>2, <1>3, <1>4, <1>6 DEF B, C, D

(* Each counted one that was not before makes up for itself in excess.     *)
LEMMA LetsIn ==
    ASSUME Base, Typed', NEW A \in SUBSET Cars, letin' = letin \cup A,
           UNCHANGED <<config, inner, leaving, away>>,
           excess' >= excess + Cardinality(Counted(A \ letin))
    PROVE  (Within => Within') /\ (Credit => Credit')
  <1>1. /\ Cardinality(Counted(InLot)') <= Cardinality(Counted(InLot)) + Cardinality(Counted(A \ letin))
        /\ Cardinality(Counted(InLot)') \in Nat /\ Cardinality(Counted(InLot)) \in Nat
        /\ Cardinality(Counted(A \ letin)) \in Nat
        /\ Places' = Places /\ Places \in Int /\ excess \in Nat /\ excess' \in Nat
    BY LetsInCount
  <1> DEFINE b == Cardinality(Counted(InLot))
             c == Cardinality(Counted(A \ letin))
             d == Cardinality(Counted(InLot)')
  <1>2. /\ Within <=> b <= Places + excess
        /\ Credit <=> b + 1 <= Places + excess
        /\ Within' <=> d <= Places + excess'
        /\ Credit' <=> d + 1 <= Places + excess'
    BY <1>1 DEF Within, Credit
  <1> HIDE DEF b, c, d
  <1>3. excess' >= excess + c /\ d <= b + c /\ b \in Nat /\ c \in Nat /\ d \in Nat
    BY <1>1 DEF b, c, d
  <1>4. Places \in Int /\ excess \in Nat /\ excess' \in Nat
    BY <1>1
  <1>5. /\ b <= Places + excess => d <= Places + excess'
        /\ b + 1 <= Places + excess => d + 1 <= Places + excess'
    <2>1. \A p \in Int, e \in Nat, f \in Nat, i \in Nat, j \in Nat, k \in Nat :
            f >= e + j /\ k <= i + j =>
              /\ i <= p + e => k <= p + f
              /\ i + 1 <= p + e => k + 1 <= p + f
      OBVIOUS
    <2> QED BY <2>1, <1>3, <1>4, Zenon
  <1> QED BY <1>2, <1>5

(* A step after which nobody may let in a car who could not before.        *)
LEMMA PlacesKept ==
    ASSUME PlacesOK, config' = config, inner' = inner,
           \A u \in Threads : \A st \in Live(u)' : st \in Live(u) \/ st.op \notin Weighty,
           Tight => Tight',
           config.judge # 0 => Within',
           \A u \in Threads :
             /\ config.judge # 0 /\ (Opens(Live(u)) \/ Exits(Live(u)))
             /\ \E st \in Live(u)' : st.op \in Weighty
             => Tight' \/ Credit'
    PROVE  PlacesOK'
  <1>1. /\ Remain' = Remain /\ real_remain_parking' = real_remain_parking
        /\ \A car : IsCustomer(car)' <=> IsCustomer(car)
    BY DEF Remain, real_remain_parking, real_temporary_parking, IsCustomer
  <1>2. ASSUME NEW u \in Threads
        PROVE  /\ Opens(Live(u))' => Opens(Live(u))
               /\ Exits(Live(u))' => Exits(Live(u))
               /\ Frees(Live(u))' => Frees(Live(u))
               /\ Fresh(Live(u))'
    <2> DEFINE L == Live(u)
               M == Live(u)'
    <2>1. \A st \in M : st \in L \/ st.op \notin Weighty
      BY <1>2
    <2>2. Fresh(L)
      BY DEF PlacesOK
    <2>3. /\ Opens(Live(u))' <=> \E st \in M : st.op = "open" /\ ~IsCustomer(st.car)
          /\ Exits(Live(u))' <=> \E st \in M : st.op \in ExitOps /\ ~IsCustomer(st.car)
          /\ Frees(Live(u))' <=> \E st \in M : st.op \in ExitOps /\ ~IsCustomer(st.car) /\ st.car \notin inner
          /\ Fresh(Live(u))' <=>
               \A st \in M :
                 /\ st.op = "ask_waiting" /\ config.judge # 0 => st.remain = Remain /\ Remain >= 0
                 /\ st.op = "pick_waiting" => st.remain = Remain
                 /\ st.op = "pick_new" => st.remain = real_remain_parking
                 /\ st.op = "delete_inner" => st.car \in inner
      BY <1>1 DEF Opens, Exits, Frees, Fresh
    <2> HIDE DEF L, M
    <2>4. (Opens(Live(u))' => Opens(L)) /\ (Exits(Live(u))' => Exits(L)) /\ (Frees(Live(u))' => Frees(L))
      BY <2>1, <2>3 DEF Weighty, ExitOps, Opens, Exits, Frees
    <2>5. Fresh(Live(u))'
      BY <2>1, <2>2, <2>3 DEF Weighty, Fresh
    <2> QED BY <2>4, <2>5 DEF L
  <1>3. CASE config.judge = 0
    BY <1>2, <1>3 DEF PlacesOK
  <1>4. CASE config.judge # 0
    <2>1. \A u \in Threads : Opens(Live(u))' => Remain' >= -1
      BY <1>1, <1>2, <1>4 DEF PlacesOK
    <2>2. ASSUME NEW u \in Threads, Opens(Live(u))' \/ Exits(Live(u))' PROVE Tight' \/ Credit'
      <3>1. \E st \in Live(u)' : st.op \in Weighty
        BY <2>2 DEF Opens, Exits, ExitOps, Weighty
      <3> QED BY <3>1, <2>2, <1>2, <1>4
    <2>3. \A t, u \in Threads :
            t # u /\ Opens(Live(u))' /\ (Opens(Live(t))' \/ Exits(Live(t))') => Tight'
      BY <1>2, <1>4 DEF PlacesOK
    <2>4. \A t, u \in Threads : Frees(Live(t))' /\ Frees(Live(u))' => t = u
      BY <1>2, <1>4 DEF PlacesOK
    <2> QED BY <2>1, <2>2, <2>3, <2>4, <1>2, <1>4 DEF PlacesOK
  <1> QED BY <1>3, <1>4

(* A step after which at most one handler is one that was not overtaken.   *)
LEMMA PlacesAlone ==
    ASSUME config' = config, NEW t, config.judge # 0 => Within',
           \A u \in Threads : u # t => Live(u)' = {},
           t \in Threads => Fresh(Live(t))' /\ ~Opens(Live(t))',
           t \in Threads /\ config.judge # 0 /\ Exits(Live(t))' => Tight' \/ Credit'
    PROVE  PlacesOK'
  <1>1. ASSUME NEW u \in Threads, u # t
        PROVE  Fresh(Live(u))' /\ ~Opens(Live(u))' /\ ~Exits(Live(u))' /\ ~Frees(Live(u))'
    BY <1>1 DEF Fresh, Opens, Exits, Frees
  <1>2. \A u \in Threads : Fresh(Live(u))' /\ ~Opens(Live(u))'
    BY <1>1
  <1>3. \A u \in Threads : Exits(Live(u))' \/ Frees(Live(u))' => u = t
    BY <1>1
  <1> QED BY <1>2, <1>3 DEF PlacesOK

(* A step that neither moves a car nor makes one more to be let in.        *)
LEMMA QuietPlaces ==
    ASSUME PlacesOK, UNCHANGED <<config, inner, leaving, away, letin, excess>>,
           \A u \in Threads : \A st \in Live(u)' : st \in Live(u) \/ st.op \notin Weighty
    PROVE  PlacesOK'
  <1>1. (Tight' <=> Tight) /\ (Credit' <=> Credit) /\ (Within' <=> Within)
    BY DEF Tight, Credit, Within, Remain, real_remain_parking, real_temporary_parking, Counted,
           Places, Capacity, InLot
  <1> QED BY <1>1, PlacesKept DEF PlacesOK

(* The first step of t is done and nothing takes its place.                *)
LEMMA LiveProceeds ==
    ASSUME Base, NEW t \in Threads, todo[t] # <<>>, Then(t, <<>>), NEW failed, Upset(t, failed)
    PROVE  /\ \A u \in Threads : Live(u)' \subseteq Live(u)
           /\ \A u \in Threads : u # t /\ Live(u)' # {} => inner' = inner /\ wait' = wait /\ gate' = gate
           /\ \A st \in Live(t)' : st.op \in Weighty =>
                \/ st.op = "open" /\ todo[t][1].op = "cancel"
                \/ st.op = "count_exit" /\ todo[t][1].op = "delete_inner" /\ todo[t][1].car = st.car
                \/ st.op = "delete_inner" /\ todo[t][1].op \in {"find_plate", "delete_plate"}
  <1>1. <<>> \in Seq(Steps) /\ DOMAIN <<>> = {}
    OBVIOUS
  <1> QED BY <1>1, LiveGoesOn

(* The gates and the waiting list.                                         *)
LEMMA TablesPlaces ==
    ASSUME Base, PlacesOK, NEW t \in Threads,
           \/ cancle_close(t) \/ keep_close(t) \/ keep_close_all(t)
           \/ InsertWaitVehicleInfo(t) \/ DeleteWaitVehicleByDevice_ip(t)
           \/ DeleteWaitVehicleByPlate_num(t)
    PROVE  PlacesOK'
  <1>1. /\ Then(t, <<>>) /\ todo[t] # <<>>
        /\ UNCHANGED <<config, inner, leaving, away, letin, excess>>
        /\ \E failed : Upset(t, failed)
    BY DEF cancle_close, keep_close, keep_close_all, InsertWaitVehicleInfo,
           DeleteWaitVehicleByDevice_ip, DeleteWaitVehicleByPlate_num, history, At
  <1>2. \A u \in Threads : Live(u)' \subseteq Live(u)
    BY <1>1, LiveProceeds
  <1> QED BY <1>1, <1>2, QuietPlaces

(* A handler that throws is upset; one that begins about a device that     *)
(* connects again has no car yet.                                          *)
LEMMA ThrowsPlaces ==
    ASSUME Base, PlacesOK, NEW t \in Threads, Throws(t)
    PROVE  PlacesOK'
  <1>1. Upset(t, TRUE) /\ UNCHANGED <<config, inner, leaving, away, letin, excess>>
    BY DEF Throws, history
  <1>2. \A u \in Threads : u # t => Live(u)' \subseteq Live(u)
    BY <1>1, Thrown, LiveOthers
  <1>3. Live(t)' = {}
    <2> SUFFICES ASSUME NEW st \in Live(t)' PROVE FALSE
      OBVIOUS
    <2>1. ~upset'[t] /\ \E i \in DOMAIN todo'[t] : st = todo'[t][i]
      BY DEF Live
    <2>2. todo'[t] # <<>>
      BY <2>1
    <2> QED BY <2>1, <2>2, <1>1 DEF Upset
  <1> QED BY <1>1, <1>2, <1>3, QuietPlaces

(* A device connects again.                                                *)
LEMMA NewClientPlaces ==
    ASSUME Base, PlacesOK, NEW t \in Threads, NEW d \in Entrances, new_client(t, d)
    PROVE  PlacesOK'
  <1>1. /\ Upset(t, FALSE) /\ todo' = [todo EXCEPT ![t] = <<CountNew(d)>>]
        /\ UNCHANGED <<config, inner, leaving, away, letin, excess>>
    BY DEF new_client, history
  <1>2. todo'[t] = <<CountNew(d)>> /\ \A u \in Threads : u # t => todo'[u] = todo[u]
    BY <1>1 DEF Base, Typed
  <1>3. \A u \in Threads : u # t => Live(u)' \subseteq Live(u)
    BY <1>1, <1>2, LiveOthers
  <1>4. \A st \in Live(t)' : st.op \notin Weighty
    BY <1>2 DEF Live, CountNew, Weighty
  <1> QED BY <1>1, <1>3, <1>4, QuietPlaces

(* A car is deleted from park_inner_cars: all other handlers are overtaken *)
(* and it had left InLot before.                                           *)
LEMMA GoneWithin ==
    ASSUME PlacesOK, NEW car \in leaving \cup away, inner' = inner \ {car},
           UNCHANGED <<config, leaving, away, letin, excess>>
    PROVE  (Credit => Credit') /\ (config.judge # 0 => Within')
  <1>1. InLot' = InLot
    BY DEF InLot
  <1>2. Counted(InLot)' = Counted(InLot) /\ Places' = Places
    BY <1>1 DEF Counted, Places, Capacity
  <1> QED BY <1>2 DEF Within, Credit, PlacesOK

(* A checkout overtakes every handler that is under way.                   *)
LEMMA PaysPlaces ==
    ASSUME Base, PlacesOK, NEW car \in Cars, Pays(car)
    PROVE  PlacesOK'
  <1>1. /\ car \in leaving \cup away /\ car \in inner /\ inner' = inner \ {car} /\ Upset(Terminal, FALSE)
        /\ UNCHANGED <<config, leaving, away, letin, excess, todo>>
    BY DEF Pays, history
  <1>2. Terminal \notin Threads
    BY EntranceAssumption
  <1>3. \A u \in Threads : Live(u)' = {}
    BY <1>1, <1>2, LiveOthers
  <1>4. config.judge # 0 => Within'
    BY <1>1, GoneWithin
  <1> QED BY <1>1, <1>2, <1>3, <1>4, PlacesAlone

(* A handler deletes an entry and goes on: its exit may still let a car in.*)
LEMMA DeleteInnerPlaces ==
    ASSUME Base, PlacesOK, NEW t \in Threads, DeleteInnerVehicle(t)
    PROVE  PlacesOK'
  <1> DEFINE s == Head(todo[t])
             car == s.car
  <1>1. /\ At(t, "delete_inner") /\ inner' = inner \ {car} /\ Then(t, <<>>) /\ Upset(t, FALSE)
        /\ UNCHANGED <<config, leaving, away, letin, excess>>
    BY DEF DeleteInnerVehicle, history
  <1>2. /\ todo[t] # <<>> /\ s = todo[t][1] /\ s \in Steps /\ s.op = "delete_inner"
        /\ 1 \in DOMAIN todo[t] /\ car \in leaving \cup away
    BY <1>1, First DEF StepOK
  <1>3. /\ \A u \in Threads : Live(u)' \subseteq Live(u)
        /\ \A u \in Threads : u # t /\ Live(u)' # {} => inner' = inner
        /\ \A st \in Live(t)' : st.op \in Weighty => st.op = "count_exit" /\ st.car = car
    BY <1>1, <1>2, LiveProceeds
  <1>4. (Credit => Credit') /\ (config.judge # 0 => Within')
    BY <1>1, <1>2, GoneWithin
  <1>5. CASE car \notin inner
    (* Then t was overtaken: the car was counted when it left.             *)
    <2>1. inner' = inner
      BY <1>1, <1>5
    <2> QED BY <2>1, <1>1, <1>3, QuietPlaces
  <1>6. CASE car \in inner
    <2>1. \A u \in Threads : u # t => Live(u)' = {}
      BY <1>1, <1>3, <1>6
    <2>2. ~Opens(Live(t))' /\ Fresh(Live(t))'
      BY <1>3 DEF Opens, Fresh, Weighty
    <2>3. ASSUME config.judge # 0, Exits(Live(t))' PROVE Tight' \/ Credit'
      <3>1. PICK st \in Live(t)' : st.op \in ExitOps /\ ~IsCustomer(st.car)
        BY <2>3, <1>1 DEF Exits, IsCustomer
      <3>2. st \in Live(t) /\ st.car = car
        BY <3>1, <1>3 DEF ExitOps, Weighty
      <3>3. Exits(Live(t))
        BY <3>1, <3>2 DEF Exits
      <3>4. CASE Credit
        BY <3>4, <1>4
      <3>5. CASE Tight
        <4>1. car \in Counted(inner)
          BY <3>1, <3>2, <2>3, <1>6 DEF Counted, IsCustomer
        <4>2. Counted(inner)' = Counted(inner) \ {car} /\ Places' = Places
          BY <1>1 DEF Counted, Places, Capacity
        <4>3. /\ Typed /\ Typed' /\ inner \in SUBSET Cars
          BY DeleteInnerBase DEF Base, Typed, TypeOK
        <4>4. /\ IsFiniteSet(Counted(inner)) /\ Cardinality(Counted(inner)) \in Nat
              /\ Places \in Int /\ Remain = Places - Cardinality(Counted(inner))
          BY <4>3, RemainIs
        <4>5. Remain' = Places' - Cardinality(Counted(inner)')
          <5>1. (Remain = Places - Cardinality(Counted(inner)))'
            BY <4>3, RemainIs, PTL
          <5> QED BY <5>1
        <4>6. Cardinality(Counted(inner) \ {car}) = Cardinality(Counted(inner)) - 1
          BY <4>1, <4>4, FS_RemoveElement
        <4>7. Remain' = Remain + 1
          BY <4>2, <4>4, <4>5, <4>6
        <4>8. Remain >= -1 /\ Remain \in Int
          BY <3>5, <4>3, RemainIs DEF Tight
        <4>9. Remain' >= 0
          BY <4>7, <4>8
        <4> QED BY <4>9 DEF Tight
      <3> QED BY <3>3, <3>4, <3>5, <2>3 DEF PlacesOK
    <2> QED BY <2>1, <2>2, <2>3, <1>1, <1>4, PlacesAlone
  <1> QED BY <1>5, <1>6

(* A car that arrives is counted, and has not been let in.                 *)
LEMMA ArrivesPlaces ==
    ASSUME Base, PlacesOK, NEW t \in Threads, NEW d \in Entrances, NEW car \in Cars,
           Arrives(t, d, car)
    PROVE  PlacesOK'
  <1>1. /\ car \notin Seen /\ inner' = inner \cup {car} /\ Upset(t, FALSE)
        /\ UNCHANGED <<config, leaving, away, letin, excess>>
    BY DEF Arrives, Seen, history
  <1>2. PICK s \in {<<>>, <<Count(d, car)>>} : todo' = [todo EXCEPT ![t] = s]
    BY DEF Arrives
  <1>3. todo'[t] = s /\ \A u \in Threads : u # t => todo'[u] = todo[u]
    BY <1>2 DEF Base, Typed
  <1>4. \A u \in Threads : u # t => Live(u)' = {}
    BY <1>1, <1>3, LiveOthers DEF Seen
  <1>5. \A st \in Live(t)' : st.op = "count"
    BY <1>2, <1>3 DEF Live, Count
  <1>6. Fresh(Live(t))' /\ ~Opens(Live(t))' /\ ~Exits(Live(t))'
    BY <1>5 DEF Fresh, Opens, Exits, ExitOps
  <1>7. config.judge # 0 => Within'
    <2>1. InLot' = InLot
      BY <1>1 DEF InLot, Base, CarsOK, Seen
    <2>2. Counted(InLot)' = Counted(InLot) /\ Places' = Places
      BY <2>1, <1>1 DEF Counted, Places, Capacity
    <2> QED BY <2>2, <1>1 DEF Within, PlacesOK
  <1> QED BY <1>1, <1>4, <1>6, <1>7, PlacesAlone

(* Fewer cars are inside, by the count of those that left or turned back.  *)
LEMMA FewerInside ==
    ASSUME Base, Typed', UNCHANGED <<config, inner, letin, excess>>,
           leaving \subseteq leaving', away \subseteq away'
    PROVE  (Tight => Tight') /\ (Credit => Credit') /\ (Within => Within')
  <1> DEFINE B == Counted(InLot)
             D == Counted(InLot)'
  <1>1. Tight => Tight'
    BY DEF Tight, Remain, real_remain_parking, real_temporary_parking, Counted
  <1>2. D = Counted(InLot') /\ Places' = Places /\ D \subseteq B
    BY DEF Counted, Places, Capacity, InLot
  <1>3. InLot \in SUBSET Cars /\ InLot' \in SUBSET Cars /\ Typed
    BY DEF Base, Typed, TypeOK, InLot
  <1>4. /\ IsFiniteSet(B) /\ Cardinality(B) \in Nat /\ Cardinality(D) \in Nat
        /\ Places \in Int /\ excess \in Nat
    BY <1>2, <1>3, RemainIs
  <1>5. Cardinality(D) <= Cardinality(B)
    BY <1>2, <1>4, FS_Subset
  <1>6. /\ Within <=> Cardinality(B) <= Places + excess
        /\ Credit <=> Cardinality(B) + 1 <= Places + excess
        /\ Within' <=> Cardinality(D) <= Places + excess
        /\ Credit' <=> Cardinality(D) + 1 <= Places + excess
    BY <1>2 DEF Within, Credit
  <1> HIDE DEF B, D
  <1> QED BY <1>1, <1>4, <1>5, <1>6

(* A car that turns back is no more in the lot.                            *)
LEMMA TurnsBackPlaces ==
    ASSUME Base, PlacesOK, NEW t \in Threads, NEW d \in Entrances, TurnsBack(t, d)
    PROVE  PlacesOK'
  <1> DEFINE car == at[d]
             s == <<FindPlate(car), DeleteInner(car)>>
  <1>1. /\ todo[t] = <<>> /\ car # NoCar /\ away' = away \cup {car} /\ todo' = [todo EXCEPT ![t] = s]
        /\ Upset(t, FALSE) /\ UNCHANGED <<config, inner, leaving, letin, excess>>
    BY DEF TurnsBack, history
  <1>2. todo'[t] = s /\ \A u \in Threads : u # t => todo'[u] = todo[u]
    BY <1>1 DEF Base, Typed
  <1>3. \A u \in Threads : u # t => Live(u)' \subseteq Live(u)
    BY <1>1, <1>2, LiveOthers
  <1>4. \A st \in Live(t)' : st.op = "find_plate" \/ (st.op = "delete_inner" /\ st.car \in inner)
    <2>1. car \in inner
      BY <1>1 DEF Base, CarsOK
    <2> QED BY <2>1, <1>2 DEF Live, FindPlate, DeleteInner
  <1>5. Live(t) = {}
    BY <1>1 DEF Live
  <1>6. Typed'
    BY TurnsBackBase DEF Base
  <1>7. (Tight => Tight') /\ (Credit => Credit') /\ (Within => Within')
    BY <1>1, <1>6, FewerInside
  (* With the new delete, which is of a counted car, set aside, the lists  *)
  (* hold nothing new.                                                     *)
  <1>8. /\ Remain' = Remain /\ real_remain_parking' = real_remain_parking
        /\ \A x : IsCustomer(x)' <=> IsCustomer(x)
    BY <1>1 DEF Remain, real_remain_parking, real_temporary_parking, IsCustomer
  <1>9. Fresh(Live(t))' /\ ~Opens(Live(t))' /\ ~Exits(Live(t))' /\ ~Frees(Live(t))'
    BY <1>1, <1>4 DEF Fresh, Opens, Exits, Frees, ExitOps
  <1>10. ASSUME NEW u \in Threads, u # t
         PROVE  /\ Fresh(Live(u))' /\ (Opens(Live(u))' => Opens(Live(u)))
                /\ (Exits(Live(u))' => Exits(Live(u))) /\ (Frees(Live(u))' => Frees(Live(u)))
    BY <1>1, <1>3, <1>8, <1>10 DEF PlacesOK, Fresh, Opens, Exits, Frees
  <1> QED BY <1>1, <1>7, <1>8, <1>9, <1>10 DEF PlacesOK

(* A car that leaves makes room, once it is known to have been inside.     *)
LEMMA LeavesPlaces ==
    ASSUME Base, PlacesOK, NEW t \in Threads, NEW car \in Cars, Leaves(t, car)
    PROVE  PlacesOK'
  <1> DEFINE a == DeleteInner(car)
             b == CountExit(car)
  <1>1. /\ todo[t] = <<>> /\ car \in inner /\ car \in InLot /\ leaving' = leaving \cup {car} /\ Upset(t, FALSE)
        /\ UNCHANGED <<config, inner, away, letin, excess>>
    BY DEF Leaves, Inside, InLot, history
  <1>2. PICK s \in {<<>>, <<a>>, <<b>>, <<a, b>>} : todo' = [todo EXCEPT ![t] = s]
    BY LeavesPuts
  <1>3. todo'[t] = s /\ \A u \in Threads : u # t => todo'[u] = todo[u]
    BY <1>2 DEF Base, Typed
  <1>4. \A u \in Threads : u # t => Live(u)' \subseteq Live(u)
    BY <1>1, <1>3, LiveOthers
  <1>5. \A st \in Live(t)' : st.op \in {"delete_inner", "count_exit"} /\ st.car = car
    <2>1. \A st \in Live(t)' : st = a \/ st = b
      BY <1>2, <1>3 DEF Live
    <2> QED BY <2>1 DEF DeleteInner, CountExit
  <1>6. Typed' /\ Typed
    BY LeavesBase DEF Base
  <1>7. (Tight => Tight') /\ (Credit => Credit') /\ (Within => Within')
    BY <1>1, <1>6, FewerInside
  <1>8. /\ Remain' = Remain /\ real_remain_parking' = real_remain_parking
        /\ \A x : IsCustomer(x)' <=> IsCustomer(x)
    BY <1>1 DEF Remain, real_remain_parking, real_temporary_parking, IsCustomer
  <1>9. Fresh(Live(t))' /\ ~Opens(Live(t))' /\ ~Frees(Live(t))' /\ (Exits(Live(t))' => ~IsCustomer(car))
    BY <1>1, <1>5, <1>8 DEF Fresh, Opens, Exits, Frees
  <1>10. ASSUME NEW u \in Threads, u # t
         PROVE  /\ Fresh(Live(u))' /\ (Opens(Live(u))' => Opens(Live(u)))
                /\ (Exits(Live(u))' => Exits(Live(u))) /\ (Frees(Live(u))' => Frees(Live(u)))
    BY <1>1, <1>4, <1>8, <1>10 DEF PlacesOK, Fresh, Opens, Exits, Frees
  <1>11. ASSUME config.judge # 0, ~IsCustomer(car) PROVE Credit'
    <2> DEFINE B == Counted(InLot)
    <2>1. car \in B /\ Counted(InLot)' = B \ {car} /\ Places' = Places
      BY <1>1, <1>11 DEF Counted, IsCustomer, Places, Capacity, InLot
    <2>2. InLot \in SUBSET Cars
      BY <1>6 DEF Typed, TypeOK, InLot
    <2>3. IsFiniteSet(B) /\ Cardinality(B) \in Nat /\ Places \in Int /\ excess \in Nat
      BY <2>2, <1>6, RemainIs
    <2>4. Cardinality(B) <= Places + excess
      BY <1>11 DEF PlacesOK, Within
    <2> HIDE DEF B
    <2>5. Cardinality(B \ {car}) = Cardinality(B) - 1
      BY <2>1, <2>3, FS_RemoveElement
    <2>6. Cardinality(B \ {car}) + 1 <= Places + excess
      BY <2>3, <2>4, <2>5
    <2> QED BY <2>1, <2>6, <1>1 DEF Credit
  <1>12. ASSUME config.judge # 0, ~IsCustomer(car), NEW u \in Threads, Opens(Live(u)) PROVE Tight'
    <2>1. Remain >= -1 /\ Remain \in Int
      BY <1>6, <1>12, RemainIs DEF PlacesOK
    <2>2. car \in Counted(inner)' /\ car \in leaving'
      BY <1>1, <1>12 DEF Counted, IsCustomer
    <2>3. Remain' >= 0 \/ Remain' = -1
      BY <2>1, <1>8
    <2> QED BY <2>2, <2>3 DEF Tight
  <1>13. CASE config.judge = 0
    BY <1>1, <1>9, <1>10, <1>13 DEF PlacesOK
  <1>14. CASE config.judge # 0
    <2>1. \A u \in Threads : Opens(Live(u))' => Remain' >= -1
      BY <1>8, <1>9, <1>10, <1>14 DEF PlacesOK
    <2>2. \A u \in Threads : Opens(Live(u))' \/ Exits(Live(u))' => Tight' \/ Credit'
      BY <1>7, <1>9, <1>10, <1>11, <1>14 DEF PlacesOK
    <2>3. ASSUME NEW x \in Threads, NEW u \in Threads, x # u, Opens(Live(u))',
                 Opens(Live(x))' \/ Exits(Live(x))'
          PROVE  Tight'
      <3>1. u # t /\ Opens(Live(u))
        BY <2>3, <1>9, <1>10
      <3>2. CASE x = t
        BY <3>1, <3>2, <2>3, <1>9, <1>12, <1>14
      <3>3. CASE x # t
        BY <3>1, <3>3, <2>3, <1>7, <1>10, <1>14 DEF PlacesOK
      <3> QED BY <3>2, <3>3
    <2>4. \A x, u \in Threads : Frees(Live(x))' /\ Frees(Live(u))' => x = u
      BY <1>9, <1>10, <1>14 DEF PlacesOK
    <2>5. Within'
      BY <1>7, <1>14 DEF PlacesOK
    <2> QED BY <2>1, <2>2, <2>3, <2>4, <2>5, <1>9, <1>10 DEF PlacesOK
  <1> QED BY <1>13, <1>14

(* Letting a car in changes nothing for those who are to let in others but *)
(* that the room is used.                                                  *)
LEMMA LetsInPlaces ==
    ASSUME Base, Typed', PlacesOK, UNCHANGED <<config, inner, leaving, away>>,
           \A u \in Threads : \A st \in Live(u)' : st \in Live(u) \/ st.op \notin Weighty,
           config.judge # 0 /\ ~Tight =>
             /\ Within'
             /\ \A u \in Threads :
                  /\ Opens(Live(u)) \/ Exits(Live(u))
                  /\ \E st \in Live(u)' : st.op \in Weighty
                  => Credit'
    PROVE  PlacesOK'
  <1>1. Tight' <=> Tight
    BY DEF Tight, Remain, real_remain_parking, real_temporary_parking, Counted
  <1>2. Tight => Within'
    <2>1. Tight' => Within'
      BY TightWithin, PTL
    <2> QED BY <2>1, <1>1
  <1> QED BY <1>1, <1>2, PlacesKept

(* A car drives in because nobody waits.                                   *)
LEMMA RoomPlaces ==
    ASSUME Base, PlacesOK, NEW t \in Threads, RoomForAll(t)
    PROVE  PlacesOK'
  <1> DEFINE s == Head(todo[t])
             A == {s.car}
  <1>1. /\ todo[t] # <<>> /\ s \in Steps /\ s = todo[t][1] /\ 1 \in DOMAIN todo[t] /\ s.op = "ask_waiting"
    BY First DEF RoomForAll
  <1>2. s.car \in Cars
    BY <1>1, StepFields DEF EntranceOps
  <1>3. /\ letin' = letin \cup A
        /\ excess' = IF upset[t] /\ s.car \notin letin THEN excess + 1 ELSE excess
        /\ Then(t, <<>>) /\ Upset(t, FALSE)
        /\ UNCHANGED <<config, inner, leaving, away>>
    BY DEF RoomForAll
  <1>4. Typed' /\ Typed
    BY RoomBase DEF Base
  <1>5. \A u \in Threads : Live(u)' \subseteq Live(u)
    BY <1>1, <1>3, LiveProceeds
  <1>6. CASE upset[t]
    <2>1. excess' >= excess + Cardinality(Counted(A \ letin))
      <3>1. excess \in Nat /\ Counted(A \ letin) \subseteq A
        BY <1>4 DEF Typed, TypeOK, Counted
      <3>2. CASE s.car \in letin
        <4>1. Counted(A \ letin) = {}
          BY <3>2 DEF Counted
        <4>2. Cardinality(Counted(A \ letin)) = 0
          BY <4>1, FS_EmptySet
        <4>3. excess' = excess
          BY <3>2, <1>3
        <4> QED BY <4>2, <4>3, <3>1
      <3>3. CASE s.car \notin letin
        <4>1. IsFiniteSet(A) /\ Cardinality(A) = 1
          BY FS_Singleton
        <4>2. Cardinality(Counted(A \ letin)) <= 1 /\ IsFiniteSet(Counted(A \ letin))
          BY <4>1, <3>1, FS_Subset
        <4>3. Cardinality(Counted(A \ letin)) \in Nat
          BY <4>2, FS_CardinalityType
        <4>4. excess' = excess + 1
          BY <3>3, <1>3, <1>6
        <4> QED BY <4>2, <4>3, <4>4, <3>1
      <3> QED BY <3>2, <3>3
    <2>2. (Within => Within') /\ (Credit => Credit')
      BY <2>1, <1>2, <1>3, <1>4, LetsIn
    <2> QED BY <2>2, <1>3, <1>4, <1>5, LetsInPlaces DEF PlacesOK
  <1>7. CASE ~upset[t]
    <2>1. s \in Live(t)
      BY <1>1, <1>7 DEF Live
    <2>2. config.judge # 0 => Tight
      BY <2>1, <1>1 DEF PlacesOK, Fresh, Tight
    <2> QED BY <2>2, <1>3, <1>4, <1>5, LetsInPlaces
  <1> QED BY <1>6, <1>7

(* A gate opens: for a car there is room for, by a handler that was        *)
(* overtaken, or for a customer.                                           *)
LEMMA OpenPlaces ==
    ASSUME Base, PlacesOK, NEW t \in Threads, bgc_open(t)
    PROVE  PlacesOK'
  <1> DEFINE s == Head(todo[t])
             meant == {s.car} \ letin
             others == Standing(s.device) \ ({s.car} \cup letin)
  <1>1. /\ todo[t] # <<>> /\ s \in Steps /\ s = todo[t][1] /\ 1 \in DOMAIN todo[t] /\ s.op = "open"
    BY First DEF bgc_open
  <1>2. s.car \in Cars /\ s.device \in Entrances
    BY <1>1, StepFields
  <1>3. Then(t, <<>>) /\ Upset(t, FALSE) /\ UNCHANGED <<config, inner, leaving, away>>
    BY DEF bgc_open
  <1>4. Typed' /\ Typed
    BY OpenBase DEF Base
  <1>5. PICK more \in {{}, others} :
          /\ letin' = letin \cup (meant \cup more)
          /\ excess' = excess + Cardinality(more) + (IF upset[t] THEN Cardinality(meant) ELSE 0)
    <2>1. Cardinality({}) = 0 /\ excess \in Int
      BY <1>4, FS_EmptySet DEF Typed, TypeOK
    <2>2. CASE /\ letin' = letin \cup meant \cup others
               /\ excess' = excess + Cardinality(others) + (IF upset[t] THEN Cardinality(meant) ELSE 0)
      BY <2>2
    <2>3. CASE /\ letin' = letin \cup meant
               /\ excess' = excess + (IF upset[t] THEN Cardinality(meant) ELSE 0)
      <3>1. letin \cup (meant \cup {}) = letin \cup meant /\ excess + 0 = excess
        BY <2>1
      <3> HIDE DEF meant, others
      <3> QED BY <3>1, <2>1, <2>3
    <2> QED BY <2>2, <2>3 DEF bgc_open
  <1> DEFINE A == meant \cup more
  <1>6. /\ meant \in SUBSET Cars /\ more \in SUBSET Cars /\ A \in SUBSET Cars /\ A \ letin = A
        /\ meant \cap more = {} /\ meant \subseteq {s.car}
    BY <1>2, <1>4 DEF Standing, Typed, TypeOK
  <1> HIDE DEF meant, others
  <1>7. /\ IsFiniteSet(meant) /\ IsFiniteSet(more) /\ Cardinality(meant) \in Nat /\ Cardinality(more) \in Nat
        /\ Cardinality(meant) <= 1
    <2>1. IsFiniteSet(meant) /\ IsFiniteSet(more)
      BY <1>6, EntranceAssumption, FS_Subset
    <2>2. IsFiniteSet({s.car}) /\ Cardinality({s.car}) = 1
      BY FS_Singleton
    <2>3. Cardinality(meant) <= 1
      BY <2>2, <1>6, FS_Subset
    <2> QED BY <2>1, <2>3, FS_CardinalityType
  <1>8. Cardinality(A) = Cardinality(meant) + Cardinality(more) /\ IsFiniteSet(A)
    BY <1>6, <1>7, Adds
  <1>9. /\ Cardinality(Counted(A)) \in Nat /\ Cardinality(Counted(A)) <= Cardinality(meant) + Cardinality(more)
        /\ IsCustomer(s.car) => Cardinality(Counted(A)) <= Cardinality(more)
    <2>1. Counted(A) \subseteq A /\ IsFiniteSet(Counted(A)) /\ Cardinality(Counted(A)) \in Nat
      BY <1>4, <1>6, RemainIs
    <2>2. Cardinality(Counted(A)) <= Cardinality(A)
      BY <2>1, <1>8, FS_Subset
    <2>3. ASSUME IsCustomer(s.car) PROVE Cardinality(Counted(A)) <= Cardinality(more)
      <3>1. Counted(A) \subseteq more
        BY <2>3, <1>6 DEF IsCustomer, Counted
      <3> QED BY <3>1, <1>7, FS_Subset
    <2> QED BY <2>1, <2>2, <2>3, <1>8
  <1>10. /\ \A u \in Threads : Live(u)' \subseteq Live(u)
         /\ \A st \in Live(t)' : st.op \notin Weighty
    BY <1>1, <1>3, LiveProceeds
  <1>11. excess \in Nat
    BY <1>4 DEF Typed, TypeOK
  <1>12. CASE upset[t] \/ IsCustomer(s.car)
    <2>1. excess' >= excess + Cardinality(Counted(A))
      <3>1. CASE upset[t]
        <4>1. excess' = excess + Cardinality(more) + Cardinality(meant)
          BY <3>1, <1>5
        <4> HIDE DEF A
        <4> QED BY <4>1, <1>7, <1>9, <1>11
      <3>2. CASE ~upset[t] /\ IsCustomer(s.car)
        <4>1. excess' = excess + Cardinality(more) /\ Cardinality(Counted(A)) <= Cardinality(more)
          BY <3>2, <1>5, <1>7, <1>9, <1>11
        <4> HIDE DEF A
        <4> QED BY <4>1, <1>7, <1>9, <1>11
      <3> QED BY <3>1, <3>2, <1>12
    <2>2. (Within => Within') /\ (Credit => Credit')
      BY <2>1, <1>3, <1>4, <1>5, <1>6, LetsIn
    <2> QED BY <2>2, <1>3, <1>4, <1>10, LetsInPlaces DEF PlacesOK
  <1>13. CASE ~upset[t] /\ ~IsCustomer(s.car)
    <2>1. s \in Live(t)
      BY <1>1, <1>13 DEF Live
    <2>2. Opens(Live(t))
      BY <2>1, <1>1, <1>13 DEF Opens
    (* Anybody else who is to let in a car found room for it as well.      *)
    <2>3. ASSUME config.judge # 0, NEW u \in Threads, Opens(Live(u)) \/ Exits(Live(u)),
                 NEW st \in Live(u)', st.op \in Weighty
          PROVE  Tight
      <3>1. u # t
        BY <2>3, <1>10
      <3> QED BY <3>1, <2>2, <2>3 DEF PlacesOK
    <2>4. ASSUME config.judge # 0, ~Tight PROVE Within'
      <3>1. Credit
        BY <2>2, <2>4 DEF PlacesOK
      <3>2. excess' = excess + Cardinality(more)
        BY <1>5, <1>7, <1>11, <1>13
      <3>3. /\ Cardinality(Counted(InLot)') <= Cardinality(Counted(InLot)) + Cardinality(Counted(A))
            /\ Cardinality(Counted(InLot)') \in Nat /\ Cardinality(Counted(InLot)) \in Nat
            /\ Places' = Places /\ Places \in Int
        BY <1>3, <1>4, <1>5, <1>6, LetsInCount
      <3> DEFINE b == Cardinality(Counted(InLot))
                 c == Cardinality(Counted(A))
                 d == Cardinality(Counted(InLot)')
                 m == Cardinality(more)
      <3>4. /\ b \in Nat /\ c \in Nat /\ d \in Nat /\ m \in Nat /\ d <= b + c /\ c <= 1 + m
            /\ b + 1 <= Places + excess
        BY <3>1, <3>3, <1>7, <1>9 DEF Credit
      <3> HIDE DEF b, c, d, m
      <3>5. d <= Places + (excess + m)
        BY <3>3, <3>4, <1>11
      <3> QED BY <3>2, <3>3, <3>5 DEF Within, d, m
    <2> QED BY <2>3, <2>4, <1>3, <1>4, <1>10, LetsInPlaces
  <1> QED BY <1>12, <1>13

(* The operator lets in a car, or changes a gate.                          *)
LEMMA OperatePlaces ==
    ASSUME Base, PlacesOK, NEW d \in Entrances, on_operate_gateway(d)
    PROVE  PlacesOK'
  <1>1. Upset(Terminal, FALSE) /\ UNCHANGED <<config, inner, leaving, away, todo>>
    BY DEF on_operate_gateway
  <1>2. \A u \in Threads : Live(u)' \subseteq Live(u)
    BY <1>1, LiveOthers, EntranceAssumption
  <1>3. Typed' /\ Typed
    BY OperateBase DEF Base
  <1>4. CASE UNCHANGED <<letin, excess>>
    BY <1>1, <1>2, <1>4, QuietPlaces
  <1>5. CASE /\ at[d] # NoCar /\ letin' = letin \cup {at[d]}
             /\ excess' = excess + Cardinality(Standing(d) \ letin)
    <2> DEFINE A == {at[d]}
               C == Counted(A \ letin)
    <2>1. A \in SUBSET Cars /\ Standing(d) = A
      BY <1>3, <1>5 DEF Standing, Typed, TypeOK
    <2>2. C \subseteq A \ letin /\ IsFiniteSet(A \ letin) /\ Cardinality(C) \in Nat
      <3>1. A \ letin \in SUBSET Cars
        BY <2>1
      <3>2. IsFiniteSet(A \ letin)
        BY <3>1, EntranceAssumption, FS_Subset
      <3> QED BY <3>1, <3>2, <1>3, RemainIs
    <2>3. Cardinality(C) <= Cardinality(A \ letin)
      BY <2>2, FS_Subset
    <2>4. Cardinality(A \ letin) \in Nat /\ excess \in Nat
      BY <2>2, <1>3, FS_CardinalityType DEF Typed, TypeOK
    <2>5. excess' = excess + Cardinality(A \ letin)
      BY <2>1, <1>5
    <2>6. excess' >= excess + Cardinality(C)
      <3> HIDE DEF A, C
      <3> QED BY <2>2, <2>3, <2>4, <2>5
    <2>7. (Within => Within') /\ (Credit => Credit')
      BY <2>1, <2>6, <1>1, <1>3, <1>5, LetsIn
    <2> QED BY <2>7, <1>1, <1>2, <1>3, LetsInPlaces DEF PlacesOK
  <1> QED BY <1>4, <1>5 DEF on_operate_gateway

(* A decision.  A car at the exit lets in a waiting car if it is still     *)
(* counted, or if it was the only one to be taken off the count since.     *)
LEMMA DecidesPlaces ==
    ASSUME Base, PlacesOK, NEW t \in Threads, Decides(t)
    PROVE  PlacesOK'
  <1> DEFINE first == Head(todo[t])
  <1>1. PICK s : Then(t, s) /\ Puts(first, s)
    BY Decided
  <1>2. /\ todo[t] # <<>> /\ Upset(t, FALSE)
        /\ UNCHANGED <<config, inner, wait, leaving, away, letin, excess>>
    BY Decided
  <1>3. s \in Seq(Steps) /\ (s # <<>> => s[1].op # "end_try")
    BY <1>1, <1>2, PutsInOrder
  <1>4. /\ first = todo[t][1] /\ 1 \in DOMAIN todo[t] /\ first \in Steps /\ StepOK(first)
    <2>1. At(t, first.op)
      BY <1>2 DEF At
    <2> QED BY <2>1, First
  <1>5. first.op \in {"count", "ask_waiting", "replace", "count_exit", "pick_waiting", "count_new",
                      "pick_new", "find_plate"}
    BY <1>1 DEF Puts, PutsForEntrance, PutsForExit, PutsForDevice
  <1>6. /\ \A u \in Threads : u # t => Live(u)' \subseteq Live(u)
        /\ \A st \in Live(t)' : ~upset[t] /\ (st \in Live(t) \/ \E k \in DOMAIN s : st = s[k])
        /\ \A st \in Live(t)' : st.op \in Weighty =>
             \/ \E k \in DOMAIN s : st = s[k]
             \/ st.op = "delete_inner" /\ st \in Live(t)
    <2>1. /\ \A u \in Threads : u # t => Live(u)' \subseteq Live(u)
          /\ \A st \in Live(t)' : ~upset[t] /\ (st \in Live(t) \/ \E k \in DOMAIN s : st = s[k])
          /\ \A st \in Live(t)' : st.op \in Weighty =>
                \/ \E k \in DOMAIN s : st = s[k]
                \/ st.op = "open" /\ todo[t][1].op = "cancel"
                \/ st.op = "count_exit" /\ todo[t][1].op = "delete_inner" /\ todo[t][1].car = st.car
                \/ st.op = "delete_inner" /\ todo[t][1].op \in {"find_plate", "delete_plate"}
      BY <1>1, <1>2, <1>3, LiveGoesOn
    <2> QED BY <2>1, <1>4, <1>5
  <1>7. Live(t)' # {} => first \in Live(t)
    BY <1>4, <1>6 DEF Live
  (* The weighty steps that decisions put on the list.                     *)
  <1>8. ASSUME NEW k \in DOMAIN s, s[k].op \in Weighty
        PROVE  \/ s[k].op = "ask_waiting" /\ s[k].remain = Remain /\ Remain >= 0
               \/ s[k].op = "open" /\ first.op = "count" /\ (config.judge = 0 \/ IsCustomer(s[k].car))
               \/ s[k].op = "open" /\ first.op = "ask_waiting"
               \/ s[k].op = "open" /\ first.op = "pick_waiting" /\ first.remain >= -1
               \/ /\ s[k].op = "pick_waiting" /\ first.op = "count_exit" /\ s[k].car = first.car
                  /\ s[k].remain = Remain
               \/ s[k].op = "pick_new" /\ s[k].remain = real_remain_parking
    <2>1. CASE PutsForEntrance(first, s)
      BY <2>1, <1>8 DEF PutsForEntrance, Weighty, Open, Cancel, Hold, HoldAll, Replace, AskWaiting,
                        DeleteRow, InsertRow
    <2>2. CASE PutsForExit(first, s)
      BY <2>2, <1>8 DEF PutsForExit, Weighty, PickWaiting, Open, Cancel, HoldAll, DeleteRow
    <2>3. CASE PutsForDevice(first, s)
      BY <2>3, <1>8 DEF PutsForDevice, Weighty, PickNew, Hold, Cancel, Count, EndTry, DeleteRow
    <2>4. CASE s = <<DeletePlate(first.car)>>
      BY <2>4, <1>8 DEF DeletePlate, Weighty
    <2>5. CASE s = <<>>
      BY <2>5, <1>8
    <2> QED BY <2>1, <2>2, <2>3, <2>4, <2>5, <1>1 DEF Puts
  <1>9. /\ Remain' = Remain /\ real_remain_parking' = real_remain_parking
        /\ \A x : IsCustomer(x)' <=> IsCustomer(x)
        /\ (Tight' <=> Tight) /\ (Credit' <=> Credit) /\ (Within' <=> Within)
    BY <1>2 DEF Remain, real_remain_parking, real_temporary_parking, IsCustomer, Tight, Credit,
                Within, Counted, Places, Capacity, InLot
  <1>10. \A u \in Threads : u # t =>
           /\ Fresh(Live(u))' /\ (Opens(Live(u))' => Opens(Live(u)))
           /\ (Exits(Live(u))' => Exits(Live(u))) /\ (Frees(Live(u))' => Frees(Live(u)))
    BY <1>2, <1>6, <1>9 DEF PlacesOK, Fresh, Opens, Exits, Frees
  <1>11. Fresh(Live(t))'
    <2> SUFFICES ASSUME NEW st \in Live(t)'
                 PROVE  /\ st.op = "ask_waiting" /\ config.judge # 0 => st.remain = Remain /\ Remain >= 0
                        /\ st.op = "pick_waiting" => st.remain = Remain
                        /\ st.op = "pick_new" => st.remain = real_remain_parking
                        /\ st.op = "delete_inner" => st.car \in inner
      BY <1>2, <1>9 DEF Fresh
    <2>1. CASE st \in Live(t)
      BY <2>1 DEF PlacesOK, Fresh
    <2>2. CASE \E k \in DOMAIN s : st = s[k]
      BY <2>2, <1>8 DEF Weighty
    <2> QED BY <2>1, <2>2, <1>6
  <1>12. /\ Exits(Live(t))' => Exits(Live(t))
         /\ Frees(Live(t))' => Frees(Live(t))
    <2>1. ASSUME NEW st \in Live(t)', st.op \in ExitOps
          PROVE  first \in Live(t) /\ first.op \in ExitOps /\ first.car = st.car
      <3>1. \E k \in DOMAIN s : st = s[k]
        BY <2>1, <1>6 DEF ExitOps, Weighty
      <3> QED BY <3>1, <2>1, <1>7, <1>8 DEF ExitOps, Weighty
    <2> QED BY <2>1, <1>2, <1>9 DEF Exits, Frees
  (* A new command to open: for the last place, or by an exit.             *)
  <1>13. ASSUME config.judge # 0, Opens(Live(t))'
         PROVE  /\ Remain >= -1 /\ (Tight \/ Credit)
                /\ \A u \in Threads : u # t /\ (Opens(Live(u)) \/ Exits(Live(u))) => Tight
    <2>1. PICK k \in DOMAIN s : s[k] \in Live(t)' /\ s[k].op = "open" /\ ~IsCustomer(s[k].car)
      BY <1>6, <1>9, <1>13 DEF Opens, Weighty
    <2>2. first \in Live(t) /\ Remain \in Int
      BY <2>1, <1>7, RemainIs DEF Base
    <2>3. CASE first.op = "ask_waiting"
      <3>1. Remain >= 0
        BY <2>2, <2>3, <1>13 DEF PlacesOK, Fresh
      <3> QED BY <3>1, <2>2 DEF Tight
    <2>4. CASE first.op = "pick_waiting" /\ first.remain >= -1
      <3>1. Remain >= -1
        BY <2>2, <2>4 DEF PlacesOK, Fresh
      <3>2. ~IsCustomer(first.car) /\ first.car \in leaving
        BY <2>4, <1>4 DEF StepOK, ExitOps
      <3>3. Exits(Live(t))
        BY <3>2, <2>2, <2>4 DEF Exits, ExitOps
      <3>4. Tight \/ Credit
        BY <3>3, <1>13 DEF PlacesOK
      (* A car that left and is still counted is one too many.             *)
      <3>5. ASSUME NEW car \in inner \cap leaving, ~IsCustomer(car) PROVE Tight
        <4>1. car \in Counted(inner)
          BY <3>5, <1>13 DEF Counted, IsCustomer
        <4>2. Remain >= 0 \/ Remain = -1
          BY <3>1, <2>2
        <4> QED BY <4>1, <4>2, <3>5 DEF Tight
      <3>6. ASSUME NEW u \in Threads, u # t, Opens(Live(u)) PROVE Tight
        BY <3>3, <3>6, <1>13 DEF PlacesOK
      <3>7. ASSUME NEW u \in Threads, u # t, Exits(Live(u)) PROVE Tight
        <4>1. PICK st \in Live(u) : st.op \in ExitOps /\ ~IsCustomer(st.car)
          BY <3>7 DEF Exits
        <4>2. st.car \in leaving
          BY <4>1 DEF Live, Base, ListOK, StepOK
        <4>3. CASE first.car \in inner
          BY <4>3, <3>2, <3>5
        <4>4. CASE st.car \in inner
          BY <4>1, <4>2, <4>4, <3>5
        <4>5. CASE first.car \notin inner /\ st.car \notin inner
          <5>1. Frees(Live(t)) /\ Frees(Live(u))
            BY <4>1, <4>5, <3>2, <2>2, <2>4 DEF Frees, ExitOps
          <5> QED BY <5>1, <3>7, <1>13 DEF PlacesOK
        <4> QED BY <4>3, <4>4, <4>5
      <3> QED BY <3>1, <3>4, <3>6, <3>7
    <2> QED BY <2>1, <2>3, <2>4, <1>8, <1>13 DEF Weighty
  <1>14. CASE config.judge = 0
    BY <1>2, <1>10, <1>11, <1>14 DEF PlacesOK
  <1>15. CASE config.judge # 0
    <2>1. \A u \in Threads : Opens(Live(u))' => Remain' >= -1
      BY <1>9, <1>10, <1>13, <1>15 DEF PlacesOK
    <2>2. ASSUME NEW u \in Threads, Opens(Live(u))' \/ Exits(Live(u))' PROVE Tight' \/ Credit'
      BY <2>2, <1>9, <1>10, <1>12, <1>13, <1>15 DEF PlacesOK
    <2>3. ASSUME NEW x \in Threads, NEW u \in Threads, x # u, Opens(Live(u))',
                 Opens(Live(x))' \/ Exits(Live(x))'
          PROVE  Tight'
      <3>1. CASE u = t
        BY <3>1, <2>3, <1>9, <1>10, <1>13, <1>15
      <3>2. CASE u # t /\ x = t /\ Opens(Live(t))'
        BY <3>2, <2>3, <1>9, <1>10, <1>13, <1>15
      <3>3. CASE u # t /\ x = t /\ Exits(Live(t))'
        BY <3>3, <2>3, <1>9, <1>10, <1>12, <1>15 DEF PlacesOK
      <3>4. CASE u # t /\ x # t
        BY <3>4, <2>3, <1>9, <1>10, <1>15 DEF PlacesOK
      <3> QED BY <3>1, <3>2, <3>3, <3>4, <2>3
    <2>4. \A x, u \in Threads : Frees(Live(x))' /\ Frees(Live(u))' => x = u
      BY <1>10, <1>12, <1>15 DEF PlacesOK
    <2>5. Within'
      BY <1>9, <1>15 DEF PlacesOK
    <2>6. \A u \in Threads : Fresh(Live(u))'
      BY <1>10, <1>11
    <2> QED BY <2>1, <2>2, <2>3, <2>4, <2>5, <2>6 DEF PlacesOK
  <1> QED BY <1>14, <1>15

(* PlacesOK holds in every state.                                          *)
LEMMA PlacesInit == Init => PlacesOK
  <1> SUFFICES ASSUME Init PROVE PlacesOK
    OBVIOUS
  <1>1. \A t \in Threads : Live(t) = {}
    BY DEF Init, Live
  <1>2. \A t \in Threads : /\ Fresh(Live(t)) /\ ~Opens(Live(t))
                           /\ ~Exits(Live(t)) /\ ~Frees(Live(t))
    BY <1>1 DEF Fresh, Opens, Exits, Frees
  <1>3. Typed /\ Tight
    BY BaseInit DEF Base, Init, Tight
  <1>4. Within
    BY <1>3, TightWithin
  <1> QED BY <1>2, <1>4 DEF PlacesOK

(* Every step of the system keeps it.                                      *)
LEMMA PlacesNext == Base /\ PlacesOK /\ [Next]_vars => PlacesOK'
  <1> SUFFICES ASSUME Base, PlacesOK, [Next]_vars PROVE PlacesOK'
    OBVIOUS
  <1>1. ASSUME NEW t \in Threads, Step(t) PROVE PlacesOK'
    <2>1. \/ Decides(t) \/ RoomForAll(t) \/ bgc_open(t) \/ DeleteInnerVehicle(t)
          \/ cancle_close(t) \/ keep_close(t) \/ keep_close_all(t)
          \/ InsertWaitVehicleInfo(t) \/ DeleteWaitVehicleByDevice_ip(t)
          \/ DeleteWaitVehicleByPlate_num(t)
      BY <1>1 DEF Step, Decides
    <2> QED BY <2>1, DecidesPlaces, RoomPlaces, OpenPlaces, DeleteInnerPlaces, TablesPlaces
  <1>2. CASE UNCHANGED vars
    <2>1. \A u \in Threads : Live(u)' = Live(u)
      BY <1>2 DEF vars, Live
    <2> QED BY <2>1, <1>2, QuietPlaces DEF vars, history
  <1> QED BY <1>1, <1>2, ThrowsPlaces, ArrivesPlaces, TurnsBackPlaces, LeavesPlaces,
             NewClientPlaces, OperatePlaces, PaysPlaces DEF Next

(* The counted cars are within the places: so are all, with a place for    *)
(* every customer.                                                         *)
LEMMA WithinCapacity ==
    ASSUME Typed, Within
    PROVE  Cardinality(InLot) <= Capacity + excess
  <1>1. InLot \in SUBSET Cars /\ IsFiniteSet(InLot) /\ IsFiniteSet(VIPs) /\ IsFiniteSet(InLot \ VIPs)
    BY EntranceAssumption, FS_Subset DEF InLot, Typed, TypeOK
  <1>2. Cardinality(InLot) \in Nat /\ Cardinality(VIPs) \in Nat /\ Cardinality(InLot \ VIPs) \in Nat
    BY <1>1, FS_CardinalityType
  <1>3. Places \in Int /\ excess \in Nat
    BY RemainIs
  <1>4. Capacity \in Int
    BY Numbers DEF Capacity
  <1>5. Cardinality(InLot) <= Cardinality(InLot \ VIPs) + Cardinality(VIPs)
    <2>1. (InLot \ VIPs) \cap VIPs = {} /\ InLot \subseteq (InLot \ VIPs) \cup VIPs
      OBVIOUS
    <2>2. /\ IsFiniteSet((InLot \ VIPs) \cup VIPs)
          /\ Cardinality((InLot \ VIPs) \cup VIPs) = Cardinality(InLot \ VIPs) + Cardinality(VIPs)
      BY <2>1, <1>1, Adds
    <2>3. Cardinality(InLot) <= Cardinality((InLot \ VIPs) \cup VIPs)
      BY <2>1, <2>2, FS_Subset
    <2> QED BY <2>2, <2>3
  <1>6. CASE config.judge = 2
    BY <1>2, <1>3, <1>4, <1>5, <1>6 DEF Within, Counted, Places
  <1>7. CASE config.judge # 2
    BY <1>2, <1>3, <1>4, <1>7 DEF Within, Counted, Places
  <1> QED BY <1>6, <1>7

(* The lot is never fuller than it may be but for the cars that excess     *)
(* counts: those let in by a handler that was overtaken, or one of whose   *)
(* commands failed, in place of another car, or by the operator.  However  *)
(* many entrances decide, cars turn back and exits let in waiting cars at  *)
(* once, no place is given away twice by handlers that run undisturbed.    *)
THEOREM NeverOverfull == Spec => []OverfullOnlyByOverlap
  <1>1. Base /\ PlacesOK => OverfullOnlyByOverlap
    BY WithinCapacity DEF Base, PlacesOK, OverfullOnlyByOverlap
  <1> QED BY <1>1, BaseInit, BaseNext, PlacesInit, PlacesNext, PTL DEF Spec

-----------------------------------------------------------------------------
(* The car that waits alone.                                               *)

(* With the one that leaves, no car is counted that is not in the lot, so  *)
(* the exit sees at least one place less than none.                        *)
LEMMA LoneWaiterFits ==
    ASSUME Typed, config.judge = 1, excess = 0, Tight \/ Credit, NEW waiter, NEW leaver,
           inner \ letin = {waiter}, leaving \cap inner \subseteq {leaver}, away \cap inner = {}
    PROVE  Remain >= -1
  <1> DEFINE B == InLot \cup {waiter}
             C == B \cup {leaver}
  <1>1. /\ Places \in Int /\ Remain \in Int /\ Remain = Places - Cardinality(inner)
    BY RemainIs DEF Counted
  <1>2. CASE Tight
    BY <1>1, <1>2 DEF Tight
  <1>3. CASE Credit
    <2>1. inner \subseteq C
      BY DEF InLot
    <2>2. InLot \subseteq Cars /\ IsFiniteSet(InLot)
      BY EntranceAssumption, FS_Subset DEF Typed, TypeOK, InLot
    <2>3. Cardinality(InLot) \in Nat /\ Cardinality(InLot) + 1 <= Places
      BY <2>2, FS_CardinalityType, <1>1, <1>3 DEF Credit, Counted
    <2>4. IsFiniteSet(B) /\ Cardinality(B) \in Nat /\ Cardinality(B) <= Cardinality(InLot) + 1
      <3>1. /\ IsFiniteSet(B)
            /\ Cardinality(B) = IF waiter \in InLot THEN Cardinality(InLot) ELSE Cardinality(InLot) + 1
        BY <2>2, FS_AddElement
      <3> QED BY <3>1, <2>3
    <2> HIDE DEF B
    <2>5. IsFiniteSet(C) /\ Cardinality(C) \in Nat /\ Cardinality(C) <= Cardinality(B) + 1
      <3>1. /\ IsFiniteSet(C)
            /\ Cardinality(C) = IF leaver \in B THEN Cardinality(B) ELSE Cardinality(B) + 1
        BY <2>4, FS_AddElement
      <3> QED BY <3>1, <2>4
    <2> HIDE DEF C
    <2>6. IsFiniteSet(inner) /\ Cardinality(inner) \in Nat /\ Cardinality(inner) <= Cardinality(C)
      BY <2>1, <2>5, FS_Subset, FS_CardinalityType
    <2> QED BY <2>3, <2>4, <2>5, <2>6, <1>1
  <1> QED BY <1>2, <1>3

(* The exit then puts an open command for the waiting car on its list.     *)
LEMMA ReleaseOpens ==
    ASSUME Base, NEW t \in Threads, wait_vehicle_release(t), NEW row, wait = {row},
           Head(todo[t]).remain \in Int, Head(todo[t]).remain >= -1
    PROVE  \E i \in DOMAIN todo'[t] : todo'[t][i] = Open(row.device, row.car)
  <1> DEFINE r == Head(todo[t]).remain
             a == Cancel(row.device)
             b == Open(row.device, row.car)
             c == DeleteRow(row.device)
             s == ReleaseOf(r, row)
  <1>1. todo[t] # <<>> /\ todo[t] \in Seq(Steps)
    BY First DEF wait_vehicle_release
  <1>2. row.device \in Entrances /\ row.car \in Cars
    BY DEF Base, Typed, TypeOK
  <1>3. Then(t, s)
    BY DEF wait_vehicle_release
  <1>4. a \in Steps /\ b \in Steps /\ c \in Steps /\ HoldAll \in Steps /\ a.op # "end_try"
    BY <1>2, StepsAre DEF Cancel
  <1>5. s = <<a, b, c>> \/ s = <<a, b, HoldAll, c>>
    BY DEF ReleaseOf
  <1> HIDE DEF a, b, c, s
  <1>6. s \in Seq(Steps) /\ s # <<>> /\ s[1].op # "end_try" /\ Len(s) >= 2 /\ s[2] = b
    <2>1. CASE s = <<a, b, c>>
      BY <2>1, <1>4
    <2>2. CASE s = <<a, b, HoldAll, c>>
      <3> HIDE DEF HoldAll
      <3> QED BY <2>2, <1>4
    <2> QED BY <2>1, <2>2, <1>5
  <1>7. todo'[t] = Renewed(todo[t], s)
    BY <1>1, <1>3, <1>6, Goes
  <1> DEFINE n == Renewed(todo[t], s)
  <1>8. /\ Len(todo[t]) \in Nat \ {0} /\ Len(s) \in Nat
        /\ Len(n) = Len(s) + Len(todo[t]) - Passed(todo[t], s) /\ DOMAIN n = 1 .. Len(n)
        /\ \A k \in 1 .. Len(n) :
             n[k] = IF k <= Len(s) THEN s[k] ELSE todo[t][k - Len(s) + Passed(todo[t], s)]
    BY <1>1, <1>6, Spliced, Zenon
  <1>9. Passed(todo[t], s) = 1
    BY <1>6 DEF Passed
  <1> HIDE DEF n
  <1>10. 2 \in DOMAIN n /\ n[2] = s[2]
    BY <1>6, <1>8, <1>9
  <1> QED BY <1>6, <1>7, <1>10 DEF n, b

(* An exit that runs undisturbed, in a lot where nobody was let in out of  *)
(* turn, opens the gate for the only car that waits, whether the leaving   *)
(* car is still in park_inner_cars (it pays later) or has gone (it was     *)
(* free): remain + 1 is the right number for both.                         *)
THEOREM WaiterReleased == Spec => LoneWaiterReleased
  <1>1. ASSUME Base, PlacesOK, NEW t \in Threads, NEW row \in wait,
               wait_vehicle_release(t), ~upset[t], config.judge = 1, excess = 0,
               wait = {row}, inner \ letin = {row.car},
               leaving \cap inner \subseteq {Head(todo[t]).car}, away \cap inner = {}
        PROVE  \E i \in DOMAIN todo'[t] : todo'[t][i] = Open(row.device, row.car)
    <2> DEFINE s == Head(todo[t])
    <2>1. s = todo[t][1] /\ s \in Steps /\ s.op = "pick_waiting" /\ 1 \in DOMAIN todo[t]
      BY <1>1, First DEF wait_vehicle_release
    <2>2. s \in Live(t)
      BY <2>1, <1>1 DEF Live
    <2>3. s.remain = Remain /\ s.remain \in Int
      BY <2>1, <2>2, <1>1, StepFields DEF PlacesOK, Fresh
    <2>4. Exits(Live(t))
      BY <2>1, <2>2, <1>1 DEF Exits, ExitOps, IsCustomer
    <2>5. Tight \/ Credit
      BY <2>4, <1>1 DEF PlacesOK
    <2>6. Remain >= -1
      BY <2>5, <1>1, LoneWaiterFits DEF Base
    <2> QED BY <2>3, <2>6, <1>1, ReleaseOpens
  <1>2. Base /\ PlacesOK /\ [Next]_vars =>
          [\A t \in Threads : \A row \in wait :
             (/\ wait_vehicle_release(t) /\ ~upset[t]
              /\ config.judge = 1 /\ excess = 0
              /\ wait = {row} /\ inner \ letin = {row.car}
              /\ leaving \cap inner \subseteq {Head(todo[t]).car} /\ away \cap inner = {})
             => \E i \in DOMAIN todo'[t] : todo'[t][i] = Open(row.device, row.car)]_vars
    BY <1>1
  <1> QED BY <1>2, BaseInit, BaseNext, PlacesInit, PlacesNext, PTL DEF Spec, LoneWaiterReleased

-----------------------------------------------------------------------------
(* The waiting list.                                                       *)

(* A car that was told to wait, is on the list or is being decided about   *)
(* by t.                                                                   *)
Known(t, car) ==
    \/ car \in promised
    \/ \E row \in wait : row.car = car
    \/ t \in Threads /\ \E st \in Entering(t) : st.car = car

(* What a step of t leaves to be true of the other handlers.               *)
LEMMA WaitingOthers ==
    ASSUME Base, WaitingOK, config' = config, NEW t, NEW failed, Upset(t, failed),
           \A u \in Threads : u # t => todo'[u] = todo[u],
           \A e \in Entrances : at'[e] \in {at[e], NoCar} \/ inner' # inner,
           \A car \in Seen : Known(t, car)' => Known(t, car),
           NEW u \in Threads, u # t
    PROVE  ArrivalOK(u)' /\ (config.judge = 1 => RowOK(u)')
  <1>1. \A v \in Threads : v # t => /\ Entering(v)' = Entering(v) /\ Deleting(v)' = Deleting(v)
                                    /\ (Cleans(v)' <=> Cleans(v))
    BY DEF Entering, Deleting, Cleans
  <1>2. ASSUME todo[u] # <<>>, ~upset'[u]
        PROVE  ~upset[u] /\ inner' = inner /\ wait' = wait /\ gate' = gate
    BY <1>2 DEF Upset
  <1>3. ASSUME ~Cleans(u), NEW st \in Entering(u)
        PROVE  /\ st.car \notin promised'
               /\ \A row \in wait' : row.car # st.car
               /\ \A v \in Threads : v # u => \A other \in Entering(v)' : other.car # st.car
               /\ ~upset'[u] => at'[st.device] \in {NoCar, st.car}
    <2>1. /\ st \in Steps /\ st.op \in EntranceOps /\ todo[u] # <<>>
          /\ \E i \in DOMAIN todo[u] : st = todo[u][i]
      BY DEF Entering
    <2>2. st.car \in Seen /\ st.device \in Entrances
      BY <2>1, StepFields DEF Base, ListOK, StepOK
    <2>3. /\ st.car \notin promised /\ \A row \in wait : row.car # st.car
          /\ \A v \in Threads : v # u => \A other \in Entering(v) : other.car # st.car
          /\ ~upset[u] => at[st.device] \in {NoCar, st.car}
      BY <1>3 DEF WaitingOK, ArrivalOK
    <2>4. ~Known(t, st.car)'
      BY <2>2, <2>3 DEF Known
    <2>5. /\ st.car \notin promised' /\ \A row \in wait' : row.car # st.car
          /\ t \in Threads => \A other \in Entering(t)' : other.car # st.car
      BY <2>4 DEF Known
    <2>6. \A v \in Threads : v # u => \A other \in Entering(v)' : other.car # st.car
      BY <2>3, <2>5, <1>1
    <2>7. ~upset'[u] => at'[st.device] \in {NoCar, st.car}
      BY <2>1, <2>2, <2>3, <1>2
    <2> QED BY <2>5, <2>6, <2>7
  <1>4. ArrivalOK(u)'
    BY <1>1, <1>3 DEF ArrivalOK
  <1>5. ASSUME config.judge = 1, ~upset'[u], NEW st \in Deleting(u)
        PROVE  RowSafe(u, st.device)'
    <2>1. st \in Steps /\ st.op = "delete_row" /\ todo[u] # <<>>
      BY DEF Deleting
    <2>2. st.device \in Entrances /\ ~upset[u] /\ inner' = inner /\ wait' = wait /\ gate' = gate
      BY <2>1, <1>2, <1>5, StepFields
    <2>3. RowSafe(u, st.device)
      BY <2>2, <1>5 DEF WaitingOK, RowOK
    <2>4. Remain' = Remain
      BY <2>2 DEF Remain, real_remain_parking, real_temporary_parking
    <2> QED BY <2>2, <2>3, <2>4, <1>1 DEF RowSafe
  <1>6. config.judge = 1 => RowOK(u)'
    BY <1>1, <1>5 DEF RowOK
  <1> QED BY <1>4, <1>6

(* With what t is to show of itself, all is kept.                          *)
LEMMA WaitingKept ==
    ASSUME Base, WaitingOK, config' = config, NEW t, NEW failed, Upset(t, failed),
           \A u \in Threads : u # t => todo'[u] = todo[u],
           \A e \in Entrances : at'[e] \in {at[e], NoCar} \/ inner' # inner,
           \A car \in Seen : Known(t, car)' => Known(t, car),
           t \in Threads => ArrivalOK(t)' /\ (config.judge = 1 => RowOK(t)'),
           WaitingCarIsListed'
    PROVE  WaitingOK'
  <1>1. \A u \in Threads : u # t => ArrivalOK(u)' /\ (config.judge = 1 => RowOK(u)')
    BY WaitingOthers
  <1> QED BY <1>1 DEF WaitingOK

(* A step that leaves the list alone, after which t has nothing to do      *)
(* about a car at an entrance.                                             *)
LEMMA QuietWaiting ==
    ASSUME Base, WaitingOK, NEW t, NEW failed, Upset(t, failed),
           UNCHANGED <<config, wait, promised>>,
           \A u \in Threads : u # t => todo'[u] = todo[u],
           \A e \in Entrances : at'[e] \in {at[e], NoCar},
           t \in Threads => Entering(t)' = {} /\ (config.judge = 1 => RowOK(t)')
    PROVE  WaitingOK'
  <1>1. \A car \in Seen : Known(t, car)' => Known(t, car)
    BY DEF Known
  <1>2. t \in Threads => ArrivalOK(t)'
    BY DEF ArrivalOK
  <1>3. NoCar \notin promised
    BY EntranceAssumption DEF Base, Typed, TypeOK
  <1>4. WaitingCarIsListed'
    BY <1>3 DEF WaitingOK, WaitingCarIsListed
  <1> QED BY <1>1, <1>2, <1>4, WaitingKept

(* What may stand behind the first step of a list.                         *)
LEMMA RowsBehind ==
    ASSUME NEW l \in Seq(Steps), Ordered(l), NEW j \in DOMAIN l, j > 1
    PROVE  /\ l[j].op \in EntranceOps =>
                j = 2 /\ l[j].op = "insert_row" /\ l[1].op = "delete_row" /\ l[1].device = l[j].device
           /\ l[j].op = "delete_row" =>
                l[1].op = "hold_all" \/ (l[1].op \in DeviceOps /\ l[1].device = l[j].device)
  BY DEF Ordered, MayFollow, EntranceOps, DeviceOps

(* What t has still to do about cars and rows with its first step done.    *)
LEMMA WaitingGoesOn ==
    ASSUME Base, NEW t \in Threads, todo[t] # <<>>,
           NEW s \in Seq(Steps), s # <<>> => s[1].op # "end_try", Then(t, s)
    PROVE  /\ \A u \in Threads : u # t => todo'[u] = todo[u]
           /\ \A st \in Entering(t)' :
                \/ \E k \in DOMAIN s : st = s[k]
                \/ /\ st \in Entering(t) /\ st.op = "insert_row"
                   /\ todo[t][1].op = "delete_row" /\ todo[t][1].device = st.device
           /\ \A st \in Deleting(t)' :
                \/ \E k \in DOMAIN s : st = s[k]
                \/ /\ st \in Deleting(t) /\ Cleans(t)
                   /\ \/ todo[t][1].op = "hold_all"
                      \/ todo[t][1].op \in DeviceOps /\ todo[t][1].device = st.device
  <1>1. /\ \A u \in Threads : u # t => todo'[u] = todo[u]
        /\ \A k \in DOMAIN todo'[t] : \/ k \in DOMAIN s /\ todo'[t][k] = s[k]
                                      \/ \E j \in DOMAIN todo[t] : j > 1 /\ todo'[t][k] = todo[t][j]
    BY Goes
  <1>2. todo[t] \in Seq(Steps) /\ Ordered(todo[t])
    BY DEF Base, Typed, ListOK
  <1>3. ASSUME NEW st \in Entering(t)'
        PROVE  \/ \E k \in DOMAIN s : st = s[k]
               \/ /\ st \in Entering(t) /\ st.op = "insert_row"
                  /\ todo[t][1].op = "delete_row" /\ todo[t][1].device = st.device
    <2>1. st \in Steps /\ st.op \in EntranceOps /\ \E k \in DOMAIN todo'[t] : st = todo'[t][k]
      BY DEF Entering
    <2>2. ASSUME NEW j \in DOMAIN todo[t], j > 1, st = todo[t][j]
          PROVE  /\ st \in Entering(t) /\ st.op = "insert_row"
                 /\ todo[t][1].op = "delete_row" /\ todo[t][1].device = st.device
      BY <2>1, <2>2, <1>2, RowsBehind DEF Entering
    <2> QED BY <2>1, <2>2, <1>1
  <1>4. ASSUME NEW st \in Deleting(t)'
        PROVE  \/ \E k \in DOMAIN s : st = s[k]
               \/ /\ st \in Deleting(t) /\ Cleans(t)
                  /\ \/ todo[t][1].op = "hold_all"
                     \/ todo[t][1].op \in DeviceOps /\ todo[t][1].device = st.device
    <2>1. st \in Steps /\ st.op = "delete_row" /\ \E k \in DOMAIN todo'[t] : st = todo'[t][k]
      BY DEF Deleting
    <2>2. ASSUME NEW j \in DOMAIN todo[t], j > 1, st = todo[t][j]
          PROVE  /\ st \in Deleting(t) /\ Cleans(t)
                 /\ \/ todo[t][1].op = "hold_all"
                    \/ todo[t][1].op \in DeviceOps /\ todo[t][1].device = st.device
      BY <2>1, <2>2, <1>2, RowsBehind DEF Deleting, Cleans
    <2> QED BY <2>1, <2>2, <1>1
  <1> QED BY <1>1, <1>3, <1>4

(* The terminal, a car that pays: no handler takes a step.                 *)
LEMMA OperateWaiting ==
    ASSUME Base, WaitingOK,
           (\E d \in Entrances : on_operate_gateway(d)) \/ (\E car \in Cars : Pays(car))
    PROVE  WaitingOK'
  <1>1. Upset(Terminal, FALSE) /\ UNCHANGED <<config, wait, promised, todo>> /\ Terminal \notin Threads
    BY EntranceAssumption DEF on_operate_gateway, Pays, history
  <1>2. \A e \in Entrances : at'[e] \in {at[e], NoCar}
    <2>1. at \in [Entrances -> Cars \cup {NoCar}]
      BY DEF Base, Typed, TypeOK
    <2> QED BY <2>1 DEF on_operate_gateway, Pays
  <1> QED BY <1>1, <1>2, QuietWaiting

(* Lists that are about neither entrances nor rows.                        *)
LEMMA NoRows ==
    ASSUME NEW t, \A i \in DOMAIN todo'[t] : todo'[t][i].op \notin EntranceOps \cup {"delete_row"}
    PROVE  Entering(t)' = {} /\ RowOK(t)'
  <1>1. Entering(t)' = {} /\ Deleting(t)' = {}
    BY DEF Entering, Deleting
  <1> QED BY <1>1 DEF RowOK

(* Cars that leave, and devices that connect again.                        *)
LEMMA BeginsWaiting ==
    ASSUME Base, WaitingOK, NEW t \in Threads,
           \/ \E d \in Entrances : TurnsBack(t, d) \/ new_client(t, d)
           \/ \E car \in Cars : Leaves(t, car)
    PROVE  WaitingOK'
  <1>1. todo \in [Threads -> Seq(Steps)] /\ at \in [Entrances -> Cars \cup {NoCar}]
    BY DEF Base, Typed, TypeOK
  <1>2. Upset(t, FALSE) /\ UNCHANGED <<config, wait, promised>>
    BY DEF TurnsBack, new_client, Leaves, history
  <1>3. \A e \in Entrances : at'[e] \in {at[e], NoCar}
    BY <1>1 DEF TurnsBack, new_client, Leaves
  <1> DEFINE Away == /\ \A u \in Threads : u # t => todo'[u] = todo[u]
                     /\ \A i \in DOMAIN todo'[t] : todo'[t][i].op \notin EntranceOps \cup {"delete_row"}
  <1>4. Away
    <2>1. ASSUME NEW d \in Entrances, TurnsBack(t, d) \/ new_client(t, d)
          PROVE  Away
      <3>1. PICK s \in {<<FindPlate(at[d]), DeleteInner(at[d])>>, <<CountNew(d)>>} :
              todo' = [todo EXCEPT ![t] = s]
        BY <2>1 DEF TurnsBack, new_client
      <3>2. \A i \in DOMAIN s : s[i].op \notin EntranceOps \cup {"delete_row"}
        BY DEF FindPlate, DeleteInner, CountNew, EntranceOps
      <3> QED BY <3>1, <3>2, <1>1
    <2>2. ASSUME NEW car \in Cars, Leaves(t, car)
          PROVE  Away
      <3>1. PICK s \in {<<>>, <<DeleteInner(car)>>, <<CountExit(car)>>, <<DeleteInner(car), CountExit(car)>>} :
              todo' = [todo EXCEPT ![t] = s]
        BY <2>2, LeavesPuts
      <3>2. \A i \in DOMAIN s : s[i].op \notin EntranceOps \cup {"delete_row"}
        BY DEF DeleteInner, CountExit, EntranceOps
      <3> QED BY <3>1, <3>2, <1>1
    <2> QED BY <2>1, <2>2
  <1> QED BY <1>2, <1>3, <1>4, NoRows, QuietWaiting

(* What is left of a handler that throws is the delete of a handler that   *)
(* is upset.                                                               *)
LEMMA ThrowsWaiting ==
    ASSUME Base, WaitingOK, NEW t \in Threads, Throws(t)
    PROVE  WaitingOK'
  <1>1. Upset(t, TRUE) /\ UNCHANGED <<config, wait, promised, at>>
    BY DEF Throws, history
  <1>2. /\ \A u \in Threads : u # t => todo'[u] = todo[u]
        /\ \A i \in DOMAIN todo'[t] : todo'[t][i].op = "delete_row"
    BY Thrown
  <1>3. Entering(t)' = {}
    BY <1>2 DEF Entering, EntranceOps
  <1>4. RowOK(t)'
    <2>1. todo'[t] # <<>> => upset'[t]
      BY <1>1 DEF Upset
    <2>2. Deleting(t)' # {} => todo'[t] # <<>>
      BY DEF Deleting
    <2> QED BY <2>1, <2>2 DEF RowOK
  <1> QED BY <1>1, <1>2, <1>3, <1>4, QuietWaiting

(* A handler that is not upset after its step was not before.              *)
LEMMA StillCalm ==
    ASSUME NEW t \in Threads, todo[t] # <<>>, NEW failed, Upset(t, failed), ~upset'[t],
           Deleting(t)' # {} \/ Entering(t)' # {}
    PROVE  ~upset[t]
  <1>1. todo'[t] # <<>>
    BY DEF Deleting, Entering
  <1> QED BY <1>1 DEF Upset

(* A step that leaves the list of waiting cars alone is done.              *)
LEMMA ProceedsWaiting ==
    ASSUME Base, WaitingOK, NEW t \in Threads, NEW op, At(t, op), op # "delete_row", Then(t, <<>>),
           NEW failed, Upset(t, failed), UNCHANGED <<config, wait, promised>>,
           \A e \in Entrances : at'[e] \in {at[e], NoCar},
           \A d \in Entrances :
             /\ config.judge = 1 /\ RowSafe(t, d)
             /\ op = "hold_all" \/ (op \in DeviceOps /\ todo[t][1].device = d)
             => RowSafe(t, d)'
    PROVE  WaitingOK'
  <1>1. todo[t] # <<>> /\ todo[t][1].op = op
    BY First
  <1>2. <<>> \in Seq(Steps) /\ DOMAIN <<>> = {}
    OBVIOUS
  <1>3. /\ \A u \in Threads : u # t => todo'[u] = todo[u]
        /\ \A st \in Entering(t)' : todo[t][1].op = "delete_row"
        /\ \A st \in Deleting(t)' :
             /\ st \in Deleting(t)
             /\ \/ todo[t][1].op = "hold_all"
                \/ todo[t][1].op \in DeviceOps /\ todo[t][1].device = st.device
    BY <1>1, <1>2, WaitingGoesOn
  <1>4. Entering(t)' = {}
    BY <1>1, <1>3
  <1>5. ASSUME config.judge = 1, ~upset'[t], NEW st \in Deleting(t)'
        PROVE  RowSafe(t, st.device)'
    <2>1. st \in Deleting(t) /\ ~upset[t]
      BY <1>1, <1>3, <1>5, StillCalm
    <2>2. RowSafe(t, st.device)
      BY <2>1, <1>5 DEF WaitingOK, RowOK
    <2>3. st.device \in Entrances
      BY <2>1, StepFields DEF Deleting
    <2> QED BY <2>2, <2>3, <1>1, <1>3, <1>5
  <1>6. config.judge = 1 => RowOK(t)'
    BY <1>5 DEF RowOK
  <1> QED BY <1>3, <1>4, <1>6, QuietWaiting

(* An open command that has become the first step.                         *)
LEMMA OpenNext ==
    ASSUME Base, NEW t \in Threads, At(t, "cancel"), Then(t, <<>>),
           NEW i \in DOMAIN todo[t], todo[t][i].op = "open"
    PROVE  todo'[t][1].op = "open"
  <1> DEFINE l == todo[t]
             n == Renewed(l, <<>>)
  <1>1. /\ l # <<>> /\ l \in Seq(Steps) /\ Ordered(l) /\ l[1].op = "cancel"
        /\ DOMAIN l = 1 .. Len(l) /\ Len(l) \in Nat
    BY First
  <1>2. <<>> \in Seq(Steps) /\ Len(<<>>) = 0
    OBVIOUS
  <1>3. todo'[t] = n
    BY <1>1, <1>2, Goes
  <1>4. i = 2
    BY <1>1 DEF Ordered, MayFollow
  <1>5. Passed(l, <<>>) = 1
    BY <1>4 DEF Passed
  <1>6. /\ Len(n) = Len(<<>>) + Len(l) - Passed(l, <<>>)
        /\ \A k \in 1 .. Len(n) :
             n[k] = IF k <= Len(<<>>) THEN <<>>[k] ELSE l[k - Len(<<>>) + Passed(l, <<>>)]
    BY <1>1, <1>2, Spliced, Zenon
  <1> HIDE DEF n, l
  <1>7. Len(n) >= 1 /\ n[1] = l[2]
    <2>1. i \in 1 .. Len(l)
      BY <1>1 DEF l
    <2>2. Len(n) = Len(l) - 1 /\ 1 \in 1 .. Len(n)
      BY <2>1, <1>1, <1>2, <1>4, <1>5, <1>6
    <2>3. n[1] = l[1 - 0 + 1]
      BY <2>2, <1>2, <1>5, <1>6
    <2> QED BY <2>2, <2>3, <1>1
  <1> QED BY <1>3, <1>4, <1>7 DEF l

(* The commands to a gate, and the delete of a car's entry.                *)
LEMMA GatesWaiting ==
    ASSUME Base, WaitingOK, NEW t \in Threads,
           cancle_close(t) \/ keep_close(t) \/ keep_close_all(t) \/ DeleteInnerVehicle(t)
    PROVE  WaitingOK'
  <1>1. /\ Then(t, <<>>) /\ UNCHANGED <<config, wait, promised, at>>
        /\ \E failed : Upset(t, failed)
    BY DEF cancle_close, keep_close, keep_close_all, DeleteInnerVehicle, history
  <1>2. \A d : at[d] = NoCar => RowSafe(t, d)'
    BY <1>1 DEF RowSafe
  <1>3. ASSUME NEW op \in {"hold", "hold_all", "delete_inner"}, At(t, op)
        PROVE  WaitingOK'
    <2>1. todo[t][1].op = op
      BY <1>3, First
    <2>2. \A d \in Entrances : RowSafe(t, d) => RowSafe(t, d)'
      BY <2>1, <1>2, <1>3 DEF RowSafe
    <2> QED BY <2>2, <1>1, <1>3, ProceedsWaiting
  <1>4. CASE cancle_close(t)
    <2>1. At(t, "cancel") /\ gate' = [gate EXCEPT ![Head(todo[t]).device] = "auto"]
      BY <1>4 DEF cancle_close
    <2>2. todo[t][1].op = "cancel" /\ Head(todo[t]) = todo[t][1]
      BY <2>1, First
    <2>3. ASSUME NEW d \in Entrances, RowSafe(t, d), todo[t][1].device = d
          PROVE  RowSafe(t, d)'
      <3>1. gate'[d] = "auto"
        BY <2>1, <2>2, <2>3 DEF Base, Typed, TypeOK
      <3>2. \/ at[d] = NoCar
            \/ \E i \in DOMAIN todo[t] : todo[t][i].op = "open"
        BY <2>2, <2>3 DEF RowSafe
      <3>3. CASE \E i \in DOMAIN todo[t] : todo[t][i].op = "open"
        <4>1. todo'[t][1].op = "open"
          BY <3>3, <2>1, <1>1, OpenNext
        <4> QED BY <4>1, <3>1 DEF RowSafe
      <3> QED BY <3>2, <3>3, <1>2
    <2> QED BY <2>1, <2>3, <1>1, ProceedsWaiting
  <1> QED BY <1>3, <1>4 DEF keep_close, keep_close_all, DeleteInnerVehicle

(* Whoever stood at the gate has driven in, or the gate was held: then the *)
(* handler was upset or nobody stands there.                               *)
LEMMA OpenWaiting ==
    ASSUME Base, WaitingOK, NEW t \in Threads, bgc_open(t)
    PROVE  WaitingOK'
  <1> DEFINE s == Head(todo[t])
  <1>1. /\ At(t, "open") /\ Then(t, <<>>) /\ Upset(t, FALSE) /\ UNCHANGED <<config, wait, promised>>
        /\ at' = [at EXCEPT ![s.device] = NoCar] \/ (gate[s.device] = "held" /\ at' = at)
    BY DEF bgc_open
  <1>2. s = todo[t][1] /\ s.op = "open"
    BY <1>1, First
  <1>3. at \in [Entrances -> Cars \cup {NoCar}]
    BY DEF Base, Typed, TypeOK
  <1>4. \A e \in Entrances : at'[e] \in {at[e], NoCar}
    BY <1>1, <1>3
  <1>5. ASSUME NEW d \in Entrances, RowSafe(t, d), s.device = d
        PROVE  RowSafe(t, d)'
    <2>1. at[d] = NoCar \/ gate[d] = "auto"
      BY <1>2, <1>5 DEF RowSafe
    <2>2. at'[d] = NoCar
      BY <2>1, <1>1, <1>3, <1>5
    <2> QED BY <2>2 DEF RowSafe
  <1> QED BY <1>1, <1>2, <1>4, <1>5, ProceedsWaiting

(* Nobody waits and the car drives in.                                     *)
LEMMA RoomWaiting ==
    ASSUME Base, WaitingOK, NEW t \in Threads, RoomForAll(t)
    PROVE  WaitingOK'
  <1> DEFINE s == Head(todo[t])
  <1>1. /\ At(t, "ask_waiting") /\ wait = {} /\ Then(t, <<>>) /\ Upset(t, FALSE)
        /\ UNCHANGED <<config, wait, promised>>
        /\ at' = [at EXCEPT ![s.device] = IF @ = s.car THEN NoCar ELSE @]
    BY DEF RoomForAll
  <1>2. todo[t][1].op = "ask_waiting"
    BY <1>1, First
  <1>3. \A e \in Entrances : at'[e] \in {at[e], NoCar}
    BY <1>1 DEF Base, Typed, TypeOK
  <1>4. \A d \in Entrances : RowSafe(t, d) => RowSafe(t, d)'
    BY <1>1, <1>2, <1>3 DEF RowSafe
  <1> QED BY <1>1, <1>3, <1>4, ProceedsWaiting

(* A car that turned back is taken off the list.                           *)
LEMMA DeletePlateWaiting ==
    ASSUME Base, WaitingOK, NEW t \in Threads, DeleteWaitVehicleByPlate_num(t)
    PROVE  WaitingOK'
  <1> DEFINE s == Head(todo[t])
  <1>1. /\ At(t, "delete_plate") /\ wait' = {row \in wait : row.car # s.car}
        /\ Then(t, <<>>) /\ Upset(t, FALSE) /\ UNCHANGED <<config, at, promised>>
    BY DEF DeleteWaitVehicleByPlate_num, history
  <1>2. todo[t] # <<>> /\ s = todo[t][1] /\ s.op = "delete_plate" /\ s.car \in away
    BY <1>1, First DEF StepOK
  <1>3. <<>> \in Seq(Steps) /\ DOMAIN <<>> = {}
    OBVIOUS
  <1>4. /\ \A u \in Threads : u # t => todo'[u] = todo[u]
        /\ Entering(t)' = {} /\ Deleting(t)' = {}
    BY <1>1, <1>2, <1>3, WaitingGoesOn DEF DeviceOps, EntranceOps
  <1>5. ArrivalOK(t)' /\ RowOK(t)'
    BY <1>4 DEF ArrivalOK, RowOK
  <1>6. \A car \in Seen : Known(t, car)' => Known(t, car)
    BY <1>1, <1>4 DEF Known
  <1>7. WaitingCarIsListed'
    <2>1. \A d \in Entrances : at[d] \in promised => at[d] # s.car
      BY <1>2, EntranceAssumption DEF Base, CarsOK, Typed, TypeOK
    <2> QED BY <2>1, <1>1 DEF WaitingOK, WaitingCarIsListed
  <1>8. \A e \in Entrances : at'[e] \in {at[e], NoCar}
    BY <1>1
  <1> QED BY <1>1, <1>4, <1>5, <1>6, <1>7, <1>8, WaitingKept

(* A car that arrives is a new one.                                        *)
LEMMA ArrivesWaiting ==
    ASSUME Base, WaitingOK, NEW t \in Threads, NEW d \in Entrances, NEW car \in Cars,
           Arrives(t, d, car)
    PROVE  WaitingOK'
  <1>1. /\ car \notin Seen /\ at' = [at EXCEPT ![d] = car] /\ inner' = inner \cup {car}
        /\ Upset(t, FALSE) /\ UNCHANGED <<config, wait, promised>>
    BY DEF Arrives, Seen, history
  <1>2. PICK s \in {<<>>, <<Count(d, car)>>} : todo' = [todo EXCEPT ![t] = s]
    BY DEF Arrives
  <1>3. todo'[t] = s /\ \A u \in Threads : u # t => todo'[u] = todo[u]
    BY <1>2 DEF Base, Typed
  <1>4. inner' # inner
    BY <1>1 DEF Seen
  <1>5. at' \in [Entrances -> Cars \cup {NoCar}] /\ at'[d] = car
        /\ \A e \in Entrances : e # d => at'[e] = at[e]
    BY <1>1 DEF Base, Typed, TypeOK
  <1>6. /\ \A st \in Entering(t)' : st.car = car /\ st.device = d
        /\ Deleting(t)' = {}
    BY <1>2, <1>3 DEF Entering, Deleting, Count
  <1>7. /\ car \notin promised /\ \A row \in wait : row.car # car
        /\ \A u \in Threads : \A st \in Entering(u) : st.car # car
    <2>1. ASSUME NEW u \in Threads, NEW st \in Entering(u) PROVE st.car \in Seen
      BY DEF Entering, Base, ListOK, StepOK
    <2> QED BY <2>1, <1>1 DEF Base, CarsOK
  <1>8. \A u \in Threads : u # t => Entering(u)' = Entering(u)
    BY <1>3 DEF Entering
  <1>9. ArrivalOK(t)' /\ RowOK(t)'
    BY <1>1, <1>5, <1>6, <1>7, <1>8 DEF ArrivalOK, RowOK
  <1>10. \A c \in Seen : Known(t, c)' => Known(t, c)
    BY <1>1, <1>6 DEF Known
  <1>11. WaitingCarIsListed'
    BY <1>1, <1>5, <1>7 DEF WaitingOK, WaitingCarIsListed
  <1> QED BY <1>1, <1>3, <1>4, <1>9, <1>10, <1>11, WaitingKept

(* A row is put on the list.                                               *)
LEMMA InsertWaiting ==
    ASSUME Base, WaitingOK, NEW t \in Threads, InsertWaitVehicleInfo(t)
    PROVE  WaitingOK'
  <1> DEFINE s == Head(todo[t])
             row == [device |-> s.device, car |-> s.car]
  <1>1. /\ At(t, "insert_row") /\ wait' = wait \cup {row} /\ promised' = promised \cup {s.car}
        /\ Then(t, <<>>) /\ Upset(t, FALSE) /\ UNCHANGED <<config, at>>
    BY DEF InsertWaitVehicleInfo
  <1>2. /\ todo[t] # <<>> /\ s \in Steps /\ s = todo[t][1] /\ 1 \in DOMAIN todo[t] /\ s.op = "insert_row"
        /\ StepOK(s)
    BY <1>1, First
  <1>3. s.car \in Cars /\ s.device \in Entrances /\ StandsAt(s.car, s.device) /\ s \in Entering(t)
    BY <1>2, StepFields DEF StepOK, EntranceOps, Entering
  <1>4. <<>> \in Seq(Steps) /\ DOMAIN <<>> = {}
    OBVIOUS
  <1>5. /\ \A u \in Threads : u # t => todo'[u] = todo[u]
        /\ Entering(t)' = {} /\ Deleting(t)' \subseteq Deleting(t)
    BY <1>1, <1>2, <1>4, WaitingGoesOn
  <1>6. ArrivalOK(t)'
    BY <1>5 DEF ArrivalOK
  <1>7. config.judge = 1 => RowOK(t)'
    <2> SUFFICES ASSUME config.judge = 1, ~upset'[t], NEW st \in Deleting(t)'
                 PROVE  RowSafe(t, st.device)'
      BY DEF RowOK
    <2>1. st \in Deleting(t) /\ ~upset[t]
      BY <1>1, <1>2, <1>5, StillCalm
    <2>2. RowSafe(t, st.device)
      BY <2>1 DEF WaitingOK, RowOK
    <2>3. at[st.device] = NoCar
      BY <2>2, <1>2 DEF RowSafe
    <2> QED BY <2>3, <1>1 DEF RowSafe
  <1>8. \A car \in Seen : Known(t, car)' => Known(t, car)
    BY <1>1, <1>3, <1>5 DEF Known
  <1>9. WaitingCarIsListed'
    <2> SUFFICES ASSUME config.judge = 1, NEW d \in Entrances, at[d] \in promised'
                 PROVE  [device |-> d, car |-> at[d]] \in wait'
      BY <1>1 DEF WaitingCarIsListed
    <2>1. CASE at[d] \in promised
      BY <2>1, <1>1 DEF WaitingOK, WaitingCarIsListed
    <2>2. CASE at[d] = s.car
      BY <2>2, <1>1, <1>3 DEF StandsAt
    <2> QED BY <2>1, <2>2, <1>1
  <1>10. \A e \in Entrances : at'[e] \in {at[e], NoCar}
    BY <1>1
  <1> QED BY <1>1, <1>5, <1>6, <1>7, <1>8, <1>9, <1>10, WaitingKept

(* The steps that were put on a list are at its front, and a delete at its *)
(* end stays there.                                                        *)
LEMMA Placed ==
    ASSUME Base, NEW t \in Threads, todo[t] # <<>>, NEW s \in Seq(Steps), Then(t, s),
           s # <<>> => s[1].op # "end_try",
           s # <<>> \/ (Len(todo[t]) >= 2 /\ todo[t][2].op = "insert_row")
    PROVE  /\ \A k \in DOMAIN s : k \in DOMAIN todo'[t] /\ todo'[t][k] = s[k]
           /\ Cleans(t) => Cleans(t)'
  <1> DEFINE l == todo[t]
             n == Renewed(l, s)
             p == Passed(l, s)
  <1>1. l \in Seq(Steps) /\ todo'[t] = n
    BY Goes
  <1>2. /\ Len(l) \in Nat \ {0} /\ Len(s) \in Nat /\ Len(n) = Len(s) + Len(l) - p
        /\ DOMAIN l = 1 .. Len(l) /\ DOMAIN s = 1 .. Len(s) /\ DOMAIN n = 1 .. Len(n)
        /\ \A k \in 1 .. Len(n) : n[k] = IF k <= Len(s) THEN s[k] ELSE l[k - Len(s) + p]
    BY <1>1, Spliced, Zenon
  <1>3. p = 1
    BY DEF Passed
  <1>4. s = <<>> <=> Len(s) = 0
    OBVIOUS
  <1> HIDE DEF n, p
  <1>5. \A k \in DOMAIN s : k \in DOMAIN n /\ n[k] = s[k]
    BY <1>2, <1>3
  <1>6. ASSUME NEW i \in DOMAIN l, i > 1, l[i].op = "delete_row"
        PROVE  \E k \in DOMAIN n : k > 1 /\ n[k].op = "delete_row"
    <2>1. Len(s) >= 1 \/ i >= 3
      BY <1>2, <1>4, <1>6
    <2> HIDE DEF l
    <2>2. /\ i - 1 + Len(s) \in 1 .. Len(n) /\ i - 1 + Len(s) > 1 /\ ~(i - 1 + Len(s) <= Len(s))
          /\ (i - 1 + Len(s)) - Len(s) + 1 = i
      BY <2>1, <1>2, <1>3, <1>6
    <2>3. n[i - 1 + Len(s)] = l[i]
      BY <2>2, <1>2, <1>3
    <2> QED BY <2>2, <2>3, <1>2, <1>6
  <1> QED BY <1>1, <1>5, <1>6 DEF Cleans

(* The row of a device is deleted: that of a car that has driven in, or is *)
(* replaced by one that came after it, unless the handler is upset.        *)
LEMMA DeleteRowWaiting ==
    ASSUME Base, WaitingOK, NEW t \in Threads, DeleteWaitVehicleByDevice_ip(t)
    PROVE  WaitingOK'
  <1> DEFINE s == Head(todo[t])
             gone == {row \in wait : row.device = s.device}
  <1>1. /\ At(t, "delete_row") /\ wait' = wait \ gone
        /\ promised' = IF upset[t] THEN promised \ {row.car : row \in gone} ELSE promised
        /\ Then(t, <<>>) /\ Upset(t, FALSE) /\ UNCHANGED <<config, at>>
    BY DEF DeleteWaitVehicleByDevice_ip
  <1>2. /\ todo[t] # <<>> /\ s \in Steps /\ s = todo[t][1] /\ 1 \in DOMAIN todo[t] /\ s.op = "delete_row"
        /\ todo[t] \in Seq(Steps) /\ Ordered(todo[t])
        /\ DOMAIN todo[t] = 1 .. Len(todo[t]) /\ Len(todo[t]) \in Nat
    BY <1>1, First
  <1>3. s.device \in Entrances /\ s \in Deleting(t)
    BY <1>2, StepFields DEF Deleting
  <1>4. <<>> \in Seq(Steps) /\ DOMAIN <<>> = {}
    OBVIOUS
  <1>5. /\ \A u \in Threads : u # t => todo'[u] = todo[u]
        /\ Entering(t)' \subseteq Entering(t)
        /\ \A st \in Deleting(t)' : st \in Deleting(t) /\ Cleans(t)
    BY <1>1, <1>2, <1>4, WaitingGoesOn
  <1>6. ASSUME NEW st \in Entering(t)
        PROVE  st.device = s.device /\ Len(todo[t]) >= 2 /\ todo[t][2].op = "insert_row"
    <2>1. PICK j \in DOMAIN todo[t] : st = todo[t][j]
      BY DEF Entering
    <2>2. st.op \in EntranceOps
      BY DEF Entering
    <2>3. j > 1
      BY <2>1, <2>2, <1>2 DEF EntranceOps
    <2>4. j = 2 /\ st.op = "insert_row" /\ s.device = st.device
      BY <2>1, <2>2, <2>3, <1>2, RowsBehind
    <2> QED BY <2>1, <2>4, <1>2
  <1>7. wait' \subseteq wait /\ promised' \subseteq promised
    BY <1>1
  <1>8. ArrivalOK(t)'
    <2> SUFFICES ASSUME ~Cleans(t)', NEW st \in Entering(t)'
                 PROVE  /\ st.car \notin promised' /\ \A row \in wait' : row.car # st.car
                        /\ \A u \in Threads : u # t => \A other \in Entering(u)' : other.car # st.car
                        /\ ~upset'[t] => at'[st.device] \in {NoCar, st.car}
      BY DEF ArrivalOK
    <2>1. st \in Entering(t) /\ ~Cleans(t)
      BY <1>1, <1>2, <1>4, <1>5, <1>6, Placed
    <2>2. /\ st.car \notin promised /\ \A row \in wait : row.car # st.car
          /\ \A u \in Threads : u # t => \A other \in Entering(u) : other.car # st.car
          /\ ~upset[t] => at[st.device] \in {NoCar, st.car}
      BY <2>1 DEF WaitingOK, ArrivalOK
    <2>3. \A u \in Threads : u # t => Entering(u)' = Entering(u)
      BY <1>5 DEF Entering
    <2>4. ~upset'[t] => ~upset[t]
      BY <1>1, <1>2, StillCalm
    <2> QED BY <2>2, <2>3, <2>4, <1>1, <1>7
  <1>9. config.judge = 1 => RowOK(t)'
    <2> SUFFICES ASSUME config.judge = 1, ~upset'[t], NEW st \in Deleting(t)'
                 PROVE  RowSafe(t, st.device)'
      BY DEF RowOK
    <2>1. st \in Deleting(t) /\ Cleans(t) /\ ~upset[t]
      BY <1>1, <1>2, <1>5, StillCalm
    <2>2. RowSafe(t, st.device)
      BY <2>1 DEF WaitingOK, RowOK
    <2>3. at[st.device] = NoCar
      BY <2>1, <2>2, <1>2 DEF RowSafe
    <2> QED BY <2>3, <1>1 DEF RowSafe
  <1>10. \A car \in Seen : Known(t, car)' => Known(t, car)
    BY <1>5, <1>7 DEF Known
  <1>11. WaitingCarIsListed'
    <2> SUFFICES ASSUME config.judge = 1, NEW d \in Entrances, at[d] \in promised'
                 PROVE  [device |-> d, car |-> at[d]] \in wait'
      BY <1>1 DEF WaitingCarIsListed
    <2>1. at[d] \in promised /\ [device |-> d, car |-> at[d]] \in wait
      BY <1>7 DEF WaitingOK, WaitingCarIsListed
    <2>2. CASE d # s.device
      BY <2>1, <2>2, <1>1
    <2>3. CASE d = s.device /\ upset[t]
      <3>1. [device |-> d, car |-> at[d]] \in gone
        BY <2>1, <2>3
      <3>2. at[d] \in {row.car : row \in gone}
        BY <3>1
      <3> QED BY <3>2, <2>3, <1>1
    <2>4. CASE d = s.device /\ ~upset[t]
      <3>1. RowSafe(t, d)
        BY <2>4, <1>3 DEF WaitingOK, RowOK
      <3>2. at[d] = NoCar \/ (~Cleans(t) /\ Entering(t) # {})
        BY <3>1, <1>2 DEF RowSafe
      <3>3. at[d] # NoCar
        BY <2>1, EntranceAssumption DEF Base, Typed, TypeOK
      <3>4. PICK st \in Entering(t) : TRUE
        BY <3>2, <3>3
      <3>5. st.device = d /\ st.car \notin promised /\ at[st.device] \in {NoCar, st.car}
        BY <3>2, <3>3, <3>4, <2>4, <1>6 DEF WaitingOK, ArrivalOK
      <3> QED BY <3>3, <3>5, <2>1
    <2> QED BY <2>2, <2>3, <2>4
  <1>12. \A e \in Entrances : at'[e] \in {at[e], NoCar}
    BY <1>1
  <1> QED BY <1>1, <1>5, <1>8, <1>9, <1>10, <1>11, <1>12, WaitingKept

(* What a decision puts on the list about a car at an entrance, or a row.  *)
LEMMA PutsRows ==
    ASSUME NEW st, NEW s, Puts(st, s), NEW k \in DOMAIN s
    PROVE  /\ s[k].op \in EntranceOps =>
                \/ st.op \in EntranceOps /\ s[k].car = st.car /\ s[k].device = st.device
                \/ /\ st.op = "pick_new" /\ st.remain >= 0
                   /\ \E row \in wait : /\ s[k].car = row.car
                                        /\ s = <<Count(row.device, row.car), EndTry, DeleteRow(row.device)>>
           /\ s[k].op = "delete_row" =>
                \/ /\ st.op = "replace" /\ s[k].device = st.device
                   /\ s = <<DeleteRow(st.device), InsertRow(st.device, st.car)>>
                \/ /\ st.op = "pick_waiting"
                   /\ s[1].op = "cancel" /\ 2 \in DOMAIN s /\ s[2].op = "open"
                \/ /\ st.op = "pick_new" /\ st.remain >= 0 /\ wait # {} /\ s[1].op = "count"
  <1>1. CASE PutsForEntrance(st, s)
    BY <1>1 DEF PutsForEntrance, Open, Cancel, Hold, HoldAll, Replace, AskWaiting, DeleteRow, InsertRow,
                EntranceOps
  <1>2. CASE PutsForExit(st, s)
    BY <1>2 DEF PutsForExit, Open, Cancel, HoldAll, DeleteRow, PickWaiting, EntranceOps
  <1>3. CASE PutsForDevice(st, s)
    BY <1>3 DEF PutsForDevice, Hold, Cancel, PickNew, Count, EndTry, DeleteRow, EntranceOps
  <1>4. CASE s = <<DeletePlate(st.car)>> \/ s = <<>>
    BY <1>4 DEF DeletePlate, EntranceOps
  <1> QED BY <1>1, <1>2, <1>3, <1>4 DEF Puts

(* The rows that t was to delete before its decision are safe after it.    *)
LEMMA StillSafe ==
    ASSUME Base, NEW t \in Threads, todo[t] # <<>>, NEW first, first = todo[t][1],
           NEW s \in Seq(Steps), Puts(first, s), s # <<>> => s[1].op # "end_try", Then(t, s),
           UNCHANGED <<config, inner, wait, at, gate>>,
           NEW d, RowSafe(t, d), config.judge = 1, first.op \in DeviceOps \cup {"hold_all"}
    PROVE  RowSafe(t, d)'
  <1>1. PutsForEntrance(first, s)
    BY DEF Puts, PutsForExit, PutsForDevice, DeviceOps, EntranceOps
  <1>2. ~IsCustomer(first.car)
    BY DEF IsCustomer
  <1>3. CASE at[d] = NoCar
    BY <1>3 DEF RowSafe
  <1>4. CASE first.op = "count" /\ wait # {} /\ Remain >= 0
    <2>1. s = <<AskWaiting(first.device, first.car, Remain)>>
      <3>1. Remain \in Int
        BY Numbers DEF Base
      <3> QED BY <3>1, <1>1, <1>2, <1>4 DEF PutsForEntrance
    <2>2. s # <<>> /\ 1 \in DOMAIN s /\ s[1].op = "ask_waiting"
      BY <2>1 DEF AskWaiting
    <2>3. todo'[t][1].op = "ask_waiting"
      BY <2>2, Placed
    <2> QED BY <2>3, <1>4 DEF RowSafe
  <1>5. CASE first.op = "ask_waiting" /\ wait # {}
    <2>1. s # <<>> /\ {1, 2} \subseteq DOMAIN s /\ s[1].op = "cancel" /\ s[2].op = "open"
      BY <1>1, <1>5 DEF PutsForEntrance, Cancel, Open
    <2>2. todo'[t][1].op = "cancel" /\ 2 \in DOMAIN todo'[t] /\ todo'[t][2].op = "open"
      BY <2>1, Placed
    <2> QED BY <2>2 DEF RowSafe
  <1>6. \/ at[d] = NoCar
        \/ first.op = "count" /\ wait # {} /\ Remain >= 0
        \/ first.op = "ask_waiting" /\ wait # {}
    <2>1. first.op \in {"count", "ask_waiting", "replace"}
      BY <1>1 DEF PutsForEntrance
    <2> QED BY <2>1 DEF RowSafe
  <1> QED BY <1>3, <1>4, <1>5, <1>6

(* A decision: the row of the car it lets in is safe, since the number of  *)
(* places it goes by is still right; the row that is replaced is one of a  *)
(* car that is gone.                                                       *)
LEMMA DecidesWaiting ==
    ASSUME Base, PlacesOK, WaitingOK, NEW t \in Threads, Decides(t)
    PROVE  WaitingOK'
  <1> DEFINE first == Head(todo[t])
  <1>1. PICK s : Then(t, s) /\ Puts(first, s)
    BY Decided
  <1>2. /\ todo[t] # <<>> /\ Upset(t, FALSE)
        /\ UNCHANGED <<config, inner, wait, at, leaving, away, gate, letin, promised, excess>>
    BY Decided
  <1>3. s \in Seq(Steps) /\ (s # <<>> => s[1].op # "end_try")
    BY <1>1, <1>2, PutsInOrder
  <1>4. first = todo[t][1] /\ first \in Steps /\ 1 \in DOMAIN todo[t] /\ StepOK(first)
    <2>1. At(t, first.op)
      BY <1>2 DEF At
    <2> QED BY <2>1, First
  <1>5. first.op # "delete_row"
    BY <1>1 DEF Puts, PutsForEntrance, PutsForExit, PutsForDevice
  <1>6. /\ \A u \in Threads : u # t => todo'[u] = todo[u]
        /\ \A st \in Entering(t)' : \E k \in DOMAIN s : st = s[k]
        /\ \A st \in Deleting(t)' :
             \/ \E k \in DOMAIN s : st = s[k]
             \/ st \in Deleting(t) /\ first.op \in DeviceOps \cup {"hold_all"}
    BY <1>1, <1>2, <1>3, <1>4, <1>5, WaitingGoesOn
  <1>7. \A k \in DOMAIN s : k \in DOMAIN todo'[t] /\ todo'[t][k] = s[k]
    BY <1>1, <1>2, <1>3, Placed
  <1>8. s # <<>> /\ Cleans(t) => Cleans(t)'
    BY <1>1, <1>2, <1>3, Placed
  <1>9. \A k \in DOMAIN s : s # <<>>
    OBVIOUS
  <1>10. ASSUME NEW st \in Entering(t)'
         PROVE  \/ /\ first \in Entering(t) /\ st.car = first.car /\ st.device = first.device
                   /\ Cleans(t) => Cleans(t)'
                \/ Cleans(t)' /\ \E row \in wait : row.car = st.car
    <2>1. st.op \in EntranceOps
      BY DEF Entering
    <2>2. PICK k \in DOMAIN s : st = s[k]
      BY <1>6
    <2>3. \/ first.op \in EntranceOps /\ st.car = first.car /\ st.device = first.device
          \/ \E row \in wait : /\ st.car = row.car
                               /\ s = <<Count(row.device, row.car), EndTry, DeleteRow(row.device)>>
      BY <2>1, <2>2, <1>1, PutsRows
    <2>4. CASE first.op \in EntranceOps /\ st.car = first.car /\ st.device = first.device
      BY <2>4, <1>4, <1>8, <1>9 DEF Entering
    <2>5. ASSUME NEW row \in wait, st.car = row.car,
                 s = <<Count(row.device, row.car), EndTry, DeleteRow(row.device)>>
          PROVE  Cleans(t)'
      <3>1. 3 \in DOMAIN s /\ s[3].op = "delete_row"
        BY <2>5 DEF DeleteRow
      <3>2. 3 \in DOMAIN todo'[t] /\ todo'[t][3].op = "delete_row" /\ 3 > 1
        BY <3>1, <1>7
      <3> QED BY <3>2 DEF Cleans
    <2> QED BY <2>3, <2>4, <2>5
  <1>11. \A u \in Threads : u # t => Entering(u)' = Entering(u)
    BY <1>6 DEF Entering
  <1>12. ArrivalOK(t)'
    <2> SUFFICES ASSUME ~Cleans(t)', NEW st \in Entering(t)'
                 PROVE  /\ st.car \notin promised' /\ \A row \in wait' : row.car # st.car
                        /\ \A u \in Threads : u # t => \A other \in Entering(u)' : other.car # st.car
                        /\ ~upset'[t] => at'[st.device] \in {NoCar, st.car}
      BY DEF ArrivalOK
    <2>1. first \in Entering(t) /\ st.car = first.car /\ st.device = first.device /\ ~Cleans(t)
      BY <1>10
    <2>2. /\ first.car \notin promised /\ \A row \in wait : row.car # first.car
          /\ \A u \in Threads : u # t => \A other \in Entering(u) : other.car # first.car
          /\ ~upset[t] => at[first.device] \in {NoCar, first.car}
      BY <2>1 DEF WaitingOK, ArrivalOK
    <2>3. ~upset'[t] => ~upset[t]
      BY <1>2, StillCalm
    <2> QED BY <2>1, <2>2, <2>3, <1>2, <1>11
  <1>13. ASSUME config.judge = 1, ~upset'[t], NEW st \in Deleting(t)'
         PROVE  RowSafe(t, st.device)'
    <2>1. ~upset[t] /\ st.op = "delete_row"
      BY <1>2, <1>13, StillCalm DEF Deleting
    <2>2. \A other \in Deleting(t) : RowSafe(t, other.device)
      BY <2>1, <1>13 DEF WaitingOK, RowOK
    <2>3. CASE st \in Deleting(t) /\ first.op \in DeviceOps \cup {"hold_all"}
      BY <2>2, <2>3, <1>1, <1>2, <1>3, <1>4, <1>13, StillSafe
    <2>4. ASSUME NEW k \in DOMAIN s, st = s[k]
          PROVE  RowSafe(t, st.device)'
      <3>1. \/ /\ first.op = "replace" /\ st.device = first.device
               /\ s = <<DeleteRow(first.device), InsertRow(first.device, first.car)>>
            \/ /\ first.op = "pick_waiting"
               /\ s[1].op = "cancel" /\ 2 \in DOMAIN s /\ s[2].op = "open"
            \/ /\ first.op = "pick_new" /\ first.remain >= 0 /\ wait # {} /\ s[1].op = "count"
        BY <2>1, <2>4, <1>1, PutsRows
      <3>2. 1 \in DOMAIN s
        <4>1. Len(s) \in Nat /\ DOMAIN s = 1 .. Len(s)
          BY <1>3
        <4> QED BY <4>1, <2>4
      <3>3. CASE s[1].op = "cancel" /\ 2 \in DOMAIN s /\ s[2].op = "open"
        BY <3>2, <3>3, <1>7 DEF RowSafe
      <3>4. CASE first.op = "pick_new" /\ first.remain >= 0 /\ wait # {} /\ s[1].op = "count"
        <4>1. first \in Live(t)
          BY <1>4, <2>1 DEF Live
        <4>2. first.remain = Remain
          BY <4>1, <3>4, <1>13 DEF PlacesOK, Fresh, Remain
        <4>3. Remain' = Remain
          BY <1>2 DEF Remain, real_remain_parking, real_temporary_parking
        <4> QED BY <4>2, <4>3, <3>2, <3>4, <1>2, <1>7 DEF RowSafe
      <3>5. CASE /\ first.op = "replace" /\ st.device = first.device
                 /\ s = <<DeleteRow(first.device), InsertRow(first.device, first.car)>>
        <4>1. CASE Cleans(t)
          <5>1. PICK i \in DOMAIN todo[t] : i > 1 /\ todo[t][i].op = "delete_row"
            BY <4>1 DEF Cleans
          <5>2. todo[t] \in Seq(Steps) /\ Ordered(todo[t]) /\ todo[t][i] \in Steps
            BY DEF Base, Typed, ListOK
          <5>3. todo[t][i] \in Deleting(t) /\ todo[t][i].device = first.device
            BY <5>1, <5>2, <3>5, <1>4, RowsBehind DEF Deleting
          <5>4. RowSafe(t, st.device)
            BY <5>3, <3>5, <2>2
          <5>5. at[st.device] = NoCar
            BY <5>4, <3>5, <1>4 DEF RowSafe
          <5> QED BY <5>5, <1>2 DEF RowSafe
        <4>2. CASE ~Cleans(t)
          <5>1. /\ DOMAIN s = {1, 2} /\ s[1].op = "delete_row"
                /\ s[2].op = "insert_row" /\ s[2] \in Steps
            <6>1. DOMAIN s = {1, 2} /\ s[1].op = "delete_row" /\ s[2].op = "insert_row"
              BY <3>5 DEF DeleteRow, InsertRow
            <6>2. 2 \in DOMAIN s
              BY <6>1
            <6>3. s[2] \in Steps
              BY <6>2, <1>3
            <6> QED BY <6>1, <6>3
          <5>2. todo'[t][1].op = "delete_row" /\ 2 \in DOMAIN todo'[t] /\ todo'[t][2] = s[2]
            BY <5>1, <1>7
          <5>3. s[2] \in Entering(t)'
            BY <5>1, <5>2 DEF Entering, EntranceOps
          <5>4. ~Cleans(t)'
            <6>1. \A i \in DOMAIN todo'[t] :
                    \/ i \in DOMAIN s /\ todo'[t][i] = s[i]
                    \/ \E j \in DOMAIN todo[t] : j > 1 /\ todo'[t][i] = todo[t][j]
              BY <1>1, <1>2, <1>3, Goes
            <6> QED BY <6>1, <5>1, <4>2 DEF Cleans
          <5> QED BY <5>2, <5>3, <5>4 DEF RowSafe
        <4> QED BY <4>1, <4>2
      <3> QED BY <3>1, <3>3, <3>4, <3>5
    <2> QED BY <2>3, <2>4, <1>6
  <1>14. config.judge = 1 => RowOK(t)'
    BY <1>13 DEF RowOK
  <1>15. \A car \in Seen : Known(t, car)' => Known(t, car)
    BY <1>2, <1>10 DEF Known
  <1>16. WaitingCarIsListed'
    BY <1>2 DEF WaitingOK, WaitingCarIsListed
  <1>17. \A e \in Entrances : at'[e] \in {at[e], NoCar}
    BY <1>2
  <1> HIDE DEF first
  <1> QED BY <1>2, <1>6, <1>12, <1>14, <1>15, <1>16, <1>17, WaitingKept

(* WaitingOK holds in every state.                                         *)
LEMMA WaitingInit == Init => WaitingOK
  <1> SUFFICES ASSUME Init PROVE WaitingOK
    OBVIOUS
  <1>1. \A t \in Threads : Entering(t) = {} /\ Deleting(t) = {}
    BY DEF Init, Entering, Deleting
  <1>2. WaitingCarIsListed
    BY DEF Init, WaitingCarIsListed
  <1> QED BY <1>1, <1>2 DEF WaitingOK, ArrivalOK, RowOK

(* Every step of the system keeps it.                                      *)
LEMMA WaitingNext == Base /\ PlacesOK /\ WaitingOK /\ [Next]_vars => WaitingOK'
  <1> SUFFICES ASSUME Base, PlacesOK, WaitingOK, [Next]_vars PROVE WaitingOK'
    OBVIOUS
  <1>1. ASSUME NEW t \in Threads, Step(t) PROVE WaitingOK'
    <2>1. \/ Decides(t) \/ RoomForAll(t) \/ bgc_open(t) \/ DeleteInnerVehicle(t)
          \/ cancle_close(t) \/ keep_close(t) \/ keep_close_all(t)
          \/ InsertWaitVehicleInfo(t) \/ DeleteWaitVehicleByDevice_ip(t)
          \/ DeleteWaitVehicleByPlate_num(t)
      BY <1>1 DEF Step, Decides
    <2> QED BY <2>1, DecidesWaiting, RoomWaiting, OpenWaiting, GatesWaiting, InsertWaiting,
               DeleteRowWaiting, DeletePlateWaiting
  <1>2. CASE UNCHANGED vars
    BY <1>2 DEF vars, history, WaitingOK, ArrivalOK, RowOK, RowSafe, Entering, Deleting, Cleans,
                Remain, real_remain_parking, real_temporary_parking, WaitingCarIsListed
  <1> QED BY <1>1, <1>2, ThrowsWaiting, ArrivesWaiting, BeginsWaiting, OperateWaiting DEF Next

(* A car that was told to wait and still stands at its entrance is on the  *)
(* list, with that entrance, unless a handler that was overtaken, or one   *)
(* of whose commands failed, took it off: the deletes of an exit, of a     *)
(* device that connects again and of the next car at the entrance find     *)
(* only rows of cars that have driven in or gone.                          *)
THEOREM NobodyForgotten == Spec => []WaitingCarIsListed
  <1>1. WaitingOK => WaitingCarIsListed
    BY DEF WaitingOK
  <1> QED BY <1>1, BaseInit, BaseNext, PlacesInit, PlacesNext, WaitingInit, WaitingNext, PTL DEF Spec

=============================================================================
