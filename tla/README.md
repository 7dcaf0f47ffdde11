# Bit-Park parking server: a TLA+ verification project

Bit-Park's server runs a parking lot: cameras report passing vehicles over HTTP, gate
controllers and LED panels keep a TCP connection to the server, operators work at terminals
connected by websocket, and everything that must survive is in a MySQL database. The modules
here model the server's own code under `src/src`; `PROJECT.json` maps each definition to its
source lines and lists runs, mutants, hazards, findings and theorems.

## The system

### Components

| Component | State | Operations | What makes it correct |
|---|---|---|---|
| Device registry (`transaction.cpp`, `device_tcp_server.cpp`) | `dts_clients_`, a mutex per client | accept, look up, exchange, remove, heartbeat | one client per address, answers never mixed, dead clients leave, commands return |
| Charging and exit release (`transaction.cpp`, `*release.cpp`, `*charge.cpp`, `database.cpp`) | `park_detect_info`, `park_inner_cars`, `park_charge_info`, `park_vip_info` | pass event, manual match, checkout, plate correction | nobody overcharged, recorded before opened, a charged car is not inside |
| Terminal sessions (`userterminal_server.cpp`, `session.cpp`) | `connections_`, `mtx_` | open, login, logout, shift, bind, close, time-out, shutdown, notify | no ghost session, requests act for the right operator, cars announced to the terminals bound to the device, every request served |
| Fee rules (`chargerule.cpp`, `bill.h`) | a bill under construction | two charging patterns, borrowing, caps | bills the time parked outside free time when the free sections are in order, always within the cap |
| Customers (`util.cpp`, `chargefactory.cpp`, `charge.cpp`) | the rows matched | plate match, parking type, kind of charge | charged exactly outside the period paid for |
| Search (`database.cpp`) | the list of records | select, score, sort, cut | exactly the near plates, best first |
| Entrance control (`transaction.cpp`, `database.cpp`) | `park_inner_cars`, `park_wait_info`, the modes of the gates | entry, turning back, exit, reconnect of a device, gate command of the operator | no car admitted without a place, no waiting car forgotten |
| LED texts (`transaction.cpp`) | two lists of timers per panel, for fees and for plates | show charge, show plate, restore | a timed text ends, a fee that is due stays |
| Pictures (`transaction.cpp`, `database.cpp`, `util.cpp`) | files, directories, the rows that name them | save, clean-up at night and for want of space | pictures of cars inside kept, old ones removed, no file forgotten |
| Watchdog (`daemon/main.cpp`) | none | start the stopped server | the server runs again after a crash |
| Hardware key, options, logging | none that matters here | | |

### How they interact

A camera's pass event (HTTP, ten threads) stores a row, computes what is due (customers, fee
rules), notifies the terminals bound to the device (sessions) and, when nobody is there, drives
the gate itself (registry). A terminal request (websocket, eight threads; requests of one
connection are serialised) may match plates, record a payment and drive gate and LED. One timer
thread (`ios_`) runs the heartbeat of the devices, the LED timers and the nightly clean-up, one accept thread brings new connections, one thread
closes silent terminals. There are no database transactions: each statement commits alone.

### What is hard

Lost updates between threads that read, talk and write back (heartbeat, stored value); one
mutex locked twice; a statement or a device failing between two statements; an operator acting
on a list fetched earlier; timers that cancel each other on several threads; the process ending
between a file and its row; midnight, daylight borders and paid periods in the middle of a stay.
`PROJECT.json` lists each of these as a hazard at its line, with the properties that would
catch it or the reason why none does yet.

## The modules

| Module | Models | State and steps |
|---|---|---|
| `DeviceRegistry` | the list of device clients | `dts_clients` is `dts_clients_`, `owner` the client mutexes, `op[t]` a thread inside `dts_operate`, `hb` the heartbeat's local copy. Connections are numbered in order of acceptance. Each critical section is one action; the exchange itself is entered with the mutex and left by success or failure. |
| `DeviceLine` | what the registry promises | one line per device: a user waits for it, holds it alone, gives it back or loses it with the connection. `DeviceRegistry` implements it under the mapping `Wanted`, `Holder`. |
| `ParkingLedger` | pass events, match, checkout, plate correction | one set or function per table; `todo[t]` is the list of statements thread `t` has still to execute, so every interleaving of statements is explored; a failing statement drops the rest of the list, as an exception does. `accounted` and `stranded` are history variables. |
| `UserSessions` | terminals | `connections` is `connections_`, `mtx` tells whether a thread has locked the mutex twice, `req[c]` is the request being served on `c`; a handler is split where it releases the mutex or waits for the database, and a shift between its insert and its answer. `duty` is the table `park_duty_info`, a row per shift. `notify_pass_vehicle_to_client` is the set of the terminals that can be reached in a state. `operator` and `asked` are history variables. |
| `EntranceControl` | who may come in | tables as in `ParkingLedger`, `gate[d]` the mode of a gate, `at[d]` the car in front of it, `todo[t]` the statements and commands a handler has still to issue. `letin`, `promised`, `upset` and `excess` are history variables: `upset[t]` says that the tables or gates changed under handler `t` or one of its commands failed. |
| `LedDisplay` | the panels | a show is cancel, send, push, start, each its own step on whichever thread; `stage[n]` tells how far show `n` or its timer is, `timers` holds `entrance_led_timers_` and `exit_led_timers_` of every panel, `queue` the handlers Asio has queued. As `on_operate_device` goes by the direction the terminal names, fees and plates appear on every panel. `calm` and `failed` are history variables. |
| `PictureStore` | pictures and vouchers | `files`, `folders`, `url[r]` (the files a row names); `job[t]` the steps still to do (the files of one query are removed in any order); `up` whether the process runs. A day begins at two o'clock, when `clear_pic` runs. A file that `exists` cannot tell about loses its row without being removed (`ExistsFails`). `leaked` and `unwritten` are history variables. |
| `FeeRules` | `ChargeByTime` and what it calls | time in ticks, `Minute` ticks to a minute, `Day` to a day, so that partial minutes occur. Periods of pattern 1 are handled one by one, as in the loop. Free sections are taken as the table has them, since `handle_query_rule_func` checks nothing: they may overlap, end before they begin or reach past midnight, and lengths and minutes may then be negative, as in the code (`Overlap` and `Quotient` are Boost's intersection and the division of C++ on such values). The sections are a set: one listed twice is left out. |
| `Customers` | match and classification | a plate is the sequence of its characters, those in `Wide` three bytes long; the code cuts patterns at byte offsets (`Offset`), SQL `LIKE`, an external operator, compares characters; a number in `sys_config` that is none of the three match modes is `OtherMode`; the result of a query is the set of the positions of its rows in the table, whose first member is the code's first row. No plate a camera reads contains the wildcard. |
| `PlateSearch` | `QueryParkingVehicle` | select, sort by time, and sort by score with the cut are separate steps. `Kept` is the where clause and `remove_if`, `StableSort` is `list::sort`: each gives the element at every rank. |
| `DeviceRegistryProofs`, `UserSessionsProofs`, `ParkingLedgerProofs`, `LedDisplayProofs`, `PictureStoreProofs`, `EntranceControlProofs`, `FeeRulesProofs` | theorems about the module each extends | see "The proofs" |
| `PlatesProofs` | theorems about `Customers` and `PlateSearch` | see "The proofs" |

`MC*.tla` hold the constants of the instances. Definitions marked as a slip are plausible
mistakes in the code next to them; each property is shown to notice one of them.

Left out of `ParkingLedger`: the amount due is an attribute of the exit event (what it is, is
the subject of `FeeRules` and `Customers`), and a notification reaches some terminal or none
(which, is the subject of `UserSessions`). Left out of `EntranceControl`: what a car pays (a
charged car leaves `park_inner_cars` some time after its exit event). It assumes that plate
type 0, which `remain_parking_number_bind` stores for every waiting car, is not one of the limited
types, and that a camera reports the next car when the one before has gone.

## The runs

| Run | Bounds | Shows |
|---|---|---|
| `registry` | 2 devices, 3 connections, 1 command thread | safety, liveness and the refinement of `DeviceLine`, deadlock checked. Three connections are the least in which a device reconnects while the other's connection is in the heartbeat's copy. |
| `lostupdate` | same | **violated**: the heartbeat drops a device that connected while it ran |
| `charge` | 1 customer and a car that is none, 3 pass events, 3 charges, 1 failure or corrected plate, a camera and a terminal thread | ledger invariants with a balance of 2 and fees of 1 and 3, so that a balance can suffice, run out and be spent twice |
| `free` | 4 kinds of plate, 3 pass events, 2 camera threads | white list, taxi, bicycle and unread plates |
| `backin` | 1 plate, 3 pass events | **violated**: coming back through the exit does not withdraw the charge |
| `cancel` | 1 customer, a fee above the balance | **violated**: a cancelled quote costs the stored value |
| `sessions` | 2 terminals, 2 operators, 1 device, 4 requests | session invariants, who is told of a car, that a shift answered OK has a row of its own, progress; four requests let both terminals log in and then shift, bind or fail |
| `stuck` | same | **violated**: the time-out thread blocks on its own mutex |
| `freeday` | one rule | **violated**: middle days are copies of the first day, free time included |
| `calculations` | fees: day of 8 minutes of 2 ticks, stays up to 50 ticks, 24 rule tables, 7 of them with sections or borders out of order; customers: tables of 2 rows, regular plates of 7 characters, plates that end in a Chinese character, short and unread ones, times 1 to 5 around a period 2 to 4; search: all words of up to 3 characters of two letters and two cases, tables of up to 3 rows | three calculations that share nothing, one per behaviour: exact valid time and borrowing with free sections on and across every border, and the cap whatever the sections; the split of the stay and the two classifications; the score, the cut and the order |
| `entrance` | 3 cars, one a customer's, 2 entrances, 2 threads, 3 configurations, 1 mishap | the lot with one place by either count, so that the second car waits; two threads are the least that overtake each other; a mishap is a failing command or statement, a reconnecting device or a command of the operator |
| `background` | LED: 1 exit, 1 entrance, 3 shows of either kind on either panel, 1 mishap; pictures: 1 pass event with 2 pictures, 1 voucher submitted twice, 3 days, 1 fault | what the thread of `ios_` does, one part per behaviour. Three shows: one that is over and two that overlap with each other and with its timer. With `Share` = 1 a clean-up for want of space takes every picture it may, so that one picture is enough (the code takes one in five) |

Only `registry` checks deadlock; progress of the sessions is a property (a server all of whose terminals are gone may rest). A behaviour of
`calculations` ends when the result is returned, the others when their bounded events are used up.

Counters are bounded by `MaxConns`, `MaxPasses`, `MaxCharges`, `MaxFailures`, `MaxRequests`,
`MaxStay`, `MaxMishaps`, `MaxShows`, `MaxFaults`, `Copies`, `MaxDay`; each stands in the guard of the action that would exceed it. A thirty-day stay is
scaled to `MaxDays` = 3 periods. A fault of the pictures is a crash or a failing statement, removal or look-up.

### What the properties leave out

Some steps of the code break what a reader might expect. They are in the models, and the
properties say so in their statements:

* `ValidTimeExact`, `ChargedCoversValid` and the part of `TypeOK` about negative numbers are about
  rules in order (`InOrder`: disjoint sections within a day, daylight before night). For others the
  code miscounts, as the model does: a section 22:00-06:00 adds time, and overlapping ones are
  subtracted twice because the clamps at `chargerule.cpp:113` and `123` discard their result.
  `CappedPerDay` holds for all.
* `FreeStayIsCustomer` is about the three match modes. With another number `ChargeFactory` matches
  exactly and `GetParkingType` not at all, so a free stay is announced as a temporary vehicle.
* `AnnouncedPeriodUsed` says that whoever is announced with a paid period is charged with one. It
  does not say that a balance is the last resort: an exact match looks at one row only, and a row
  with stored value in front of a monthly one pays.
* `FuzzyIsOneCharacter` is about regular plates, a Chinese character and six of one byte. The last
  pattern of a plate that ends in a Chinese character is cut within that character (the model
  takes it to match nothing), and plates of less than eight bytes throw.
* `TimedTextEnds` leaves out a plate that a terminal has shown at an exit when no greeting is
  configured: its handler sets the entrances only. `CalmDueTextStays` is about fees shown when
  nothing else was under way on the panel.
* `FilesAreListed` exempts files whose existence the file system could not tell: the code empties
  their rows (`transaction.cpp:1599`).
* What a failing statement leaves behind is excused by name: `stranded` in the ledger, `upset` and
  `excess` at the entrances. A deduction of stored value that another exit overwrites is an
  undercharge, which `NeverOvercharged` allows.

### Fairness

* `DeviceRegistry`: the heartbeat timer is re-armed at the end of every round, an exchange ends
  at the latest by its three-second deadline (weak fairness of both ways it ends), and the
  client mutex is given to whoever keeps asking (strong fairness of taking it). Devices need not
  connect or answer.
* `UserSessions`: a handler that can run does run, and a closed transport is reported. Nothing
  makes a client send, and the time-out thread is under no obligation either.
* `PictureStore`: every statement and file operation ends, nights come, and the daemon looks every
  second whether the server has stopped. Nothing makes a vehicle pass or leave.
* `EntranceControl` and `LedDisplay` need none: what must happen is stated as an invariant (a
  timed text always has something that will replace it) or of one step (an exit lets a lone
  waiter in).

### Findings

The five violated properties state what a comment or `protocol.org` says of the code; the
quotations are in `PROJECT.json`. The database schema is not part of the repository: whether
`park_charge_info.nid` is a key is the constant `NidIsKey`, `TRUE` in `charge` and `FALSE` in
`free`; that an inbound event gets a row of `park_inner_cars` is a trigger assumed from how the
code deletes such rows.

### Observations without a run

Met while modelling, and part of the models as the code has them:

* `wait_vehicle_release`: with two or more cars waiting and an exit that is charged, the number of
  places plus one is still negative and nobody is let in; later payments release nobody either.
* With places left and nobody waiting, `remain_parking_number_bind` sends no open command, and
  gates once held stay held after exits when nobody waits.
* With the count of temporary places, `led_show_new_client` tests `real_remain_parking` but lets in
  by the other number: it may take a car off the list and put it back, or delete the row after.
* An exit device that reconnects while the lot is full is told to stay closed.
* `QueryEarliestPassVehiclePicNeedClear` (`database.cpp:1171`) kept the `select *` that the comment at
  `database.cpp:1142` corrects elsewhere: over the configured capacity every pass event is lost.
* `counts * 0.2` is 0 with fewer than five pictures; a voucher submitted again leaves the old file on
  the disk for good; a directory removed between `PictureDirectory` and `WriteFile` gives a row that
  names no file; `EmptyVoucherPicPath` can wipe out the URL of a newer voucher.

## The proofs

Eight modules prove what the runs check on small instances for every value of the constants.
Each rests on the assumptions named in the modules it extends (`ConstantsAssumption`,
`SessionsAssumption`, `LedgerAssumption`, `LedAssumption`, `PictureAssumption`,
`EntranceAssumption`, `CustomersAssumption`, `PlateSearchAssumption`, `FeeAssumption`) and on nothing else: the sets of
plates, threads, devices, rows and so on are of any size, the bounds on counters any natural numbers. TLC
evaluates the assumptions in the runs. Most properties are not inductive; below, what had to be
added and why. The strengthened invariants were checked by TLC before they were proved, except `SearchInv`,
which speaks of some order of a list and is out of TLC's reach.

**`DeviceRegistryProofs`**: `TypeCorrect`, `OnePerAddress`, `OneExchangePerClient`, `LinesInTurn`.
A heartbeat in the middle of a visit must have a client left to visit (`HeartbeatBusy`, proved
with the types). One client per address needs the same of the heartbeat's own copy, which it
stores over the list (`ListInv`). Exclusive exchanges follow from `LockInv`: whoever is in an
exchange owns the mutex of the client. `LinesInTurn` is the refinement of `DeviceLine`: initial
states map to initial states and each action, under the mapping `Wanted`, `Holder`, to asking,
taking, giving back, losing or nothing; it uses `LockInv` and, for a heartbeat at rest,
`RestInv`.

**`UserSessionsProofs`**: `TypeCorrect`, `NoGhosts`, `RightOperator`, `BoundAreTold` and the
action property `ShiftIsLogged`. A handler releases the mutex several times, so the invariant says
of every connection where its request can be (`RequestOK`) and how request, connection and
session belong together at that point (`SessionOK`). A request remembers the row it has inserted,
no two the same one, so that the answer is about that row whatever others insert in between. Requests of one connection are serialised,
so every step disturbs one connection only (`Untouched` for the others).

**`ParkingLedgerProofs`**: `TypeCorrect`, `StoredValueSafe`, `RecordedBeforeOpened`,
`ChargedLeaves`, `NoPhantoms`. The properties speak of tables; what keeps them true is in the lists
of statements the threads have still to execute. Of every such list the invariant says that each
balance it writes is accounted for, at the latest by a row inserted earlier in the list
(`UpdatesBacked`), that each gate it opens is for an exit recorded, at the latest earlier in the
list (`OpeningsRecorded`), that each entry it records as charged is deleted later in the list
(`EntriesLeave`), and that the query with which a handler always ends is its last statement
(`LatestIsLast`). A failing statement drops the rest of a list: the first two are not disturbed by
that, as they look back; what the third loses is what `stranded` records.

**`LedDisplayProofs`**: `TypeCorrect`, `TextsEnd`, `DueTextStays`. A list holds timers of shows of
its kind on its panel (`ListsOK`), so whoever cancels a timer is about to replace the text; a show
whose text is on a panel has begun there (`TextsOK`); nothing but a calm show itself can touch its
panel (`Undisturbed`). Shows are not tied to threads, so the theorems hold for any number of them.

**`PictureStoreProofs`**: `TypeCorrect`, `PicturesKept`, `FilesStayListed`. A job goes on with files
and rows read long before. The invariant says of each step still to be taken what must hold until
then (`StepOK`: a picture to be removed is of no car inside), of two steps that they do not meet
(`Compatible`, and `Apart` across threads), and of each job in which order its steps come (`JobOK`).

**`EntranceControlProofs`**: `TypeCorrect`, `NeverOverfull`, the action property `WaiterReleased`,
and `NobodyForgotten`. Three layers, each proved with the one before. `Base`: the form of the lists
of steps, which step may follow which, and that a car stands at one entrance only. `PlacesOK`: the
cars inside are never more than the places plus `excess`; a handler that was not overtaken has
read what is still so (`Fresh` of its `Live` steps); if it will let a car in, the count is not below
zero by more than the car on its way out (`Tight`) or a place has become free (`Credit`), and two
such handlers need the former; at most one exit has freed a place not yet counted. `WaitingOK`:
only one handler decides about a car that has arrived (`ArrivalOK`), and, since rows are deleted by
device alone, the row each pending delete will hit is of a car that has driven in or will have by
then (`RowSafe`).

**`PlatesProofs`**, about `Customers`: `PaidPeriodIsFree`, `FreeIsAnnounced`, `FuzzyMatchExact`,
`PeriodBeforeBalance`. The invariant `ExitInv` says that every step has computed its result from the
arguments of the call. The rest is about the operators: a query with rows has a first row
(`FirstIsThere`), the chosen row has a paid period if any has (`ChosenIs`), the cases of
`CalTimeBasedVIPCharge` cover each moment as they should (`CoverOne`, `CoverTwo`), and `LIKE` with
one blank compares all other characters (`LikeBlank`). In a regular plate character `k` after the
first begins at byte `k + 1` (`RegularOffsets`), so that the cuts at the bytes 3 to 8 blank one
character each (`RegularPatterns`).

**`PlatesProofs`**, about `PlateSearch`: `ScoreCountsEdits`, `NearFound`, `BestThenNewest`.
`PlateSearchAssumption` says that plates and tables are sequences, that a request gives at most one
plate, and that a detected row has a time. There are two halves.

* What a score is. `matchscore` and the reference (the words at most `k` edits away, `Ball`) are
  recursive functions; that functions with these equations exist, and so that the definitions mean
  what they say, is `TableExists` and `BallExists`. `IsTable` then says what a score table holds.
  Scores of neighbouring cells differ by at most one (`Neighbours`), which is why taking the diagonal
  at equal characters loses nothing. One direction: from a table of two words to the table after one
  of them is edited, the last cell grows by at most one. Before the edit the two tables are the same
  (`SameBeginning`), in the column just after it they differ by at most one (`ColumnNear`), and the
  common rest keeps that (`SameRest`); the three kinds of edit are three ways to line the tables up (`DeleteScore`,
  `InsertScore`, `ReplaceScore`, together `EditScore`). So a word `k` edits away has a score of at
  most `k` (`BallScore`). The other direction: from each cell, a step back to a neighbour undoes one
  edit or none, so a cell with score `n` gives `n` edits (`ScoreReaches`), each of which can be made
  in the middle of a word as well (`EditInside`). Every induction is over the smallest diagonal or
  the smallest number for which the claim fails (`LeastCell`, `LeastNumber`).
* What happens to the list. `Arranged`: the rank of a position among others, by a key and then by
  position, is a bijection to `1..n` in the order of the key, since each set of positions up to one is
  strictly included in the next. With it, each sort is a permutation and the cut keeps each near
  entry once (`NewestSorted`, `BestSorted`, `NearKept`). The invariant `SearchInv` says of each stage
  that some bijection `o` makes the list the entries of the table at the positions to be sent, and
  how `o` is ordered; the second sort keeps the first one's order where scores are equal because it
  is stable. Copies of a row in the reply are then counted through `o` (`CopiesListed`).

**`FeeRulesProofs`**: `TypeCorrect`, `TimeIsExact`, `MinutesCover`, `FeeIsCapped`. `FeeAssumption`
says only what types a stored rule has: units are positive, sections finitely many pairs of
numbers, a table has finitely many rows. The cap is proved for all rules; what is exact is proved
for rules in order, a premise of the property, and without it every length is still shown to be an
integer (`ValidTime0Type`, `ValidTime1Type`). The code adds up lengths of
intervals, the property counts ticks. In between stands `SumOfParts`: the sizes of disjoint finite
sets add up to the size of their union. The sum is the library's fold over a set, so what it is
needs an induction; it is made by taking, among the subsets for which the claim fails, one that has
no smaller such subset (`SmallestSubset`, from the library's well-founded strict inclusion). With
it, `FreePartsAre` and `ValidTime1Is` go through the six cases of a free section in pattern 1, and
`ParkedIs`, `FreeTimeIs` and `SectionsAre` through the two dates of a period of pattern 0
(`ValidTime0Is`). `BorrowTimeIs` and `Borrow1Is` rest on one fact about division: `k` minutes
more or less change the whole minutes of a time by `k`, as long as it does not become negative,
where the division of C++ rounds the other way (`MinutesMore`). The invariant `BillInv` says
that every line of the bill, under rules in order, covers its time whichever its rule (also the days pattern 0 copies
from the first, whose time is not that of their period), that the computed lines are exact, that
pattern 1 has one line for every period it has visited, each of one date, so that minutes borrowed
from the next day never carry the charge into another date, and that each line keeps to the cap.
That pattern 0 never has more periods than pattern 1 (`Divide1Is`) gives the same bound for both.

Where a least element is needed (the oldest connection, the first row), it comes from the
library's theorem that the natural numbers are well-founded.

Only model-checked: liveness (`DeadConnectionDropped`, `OperationsReturn`, `ServedUnlessStuck`, `ExpiredPicturesGo`):
fairness and `ENABLED` are beyond the proof system used.

## Not modelled

* Hardware key: a vendor library decides; without the key the process ends, which is a crash.
* `on_esc_record`, locking a device, the log of gate commands: they write what the server never
  reads again.
* `device_list_`: written by two handlers, read by nothing that is called.
* Message formats, HTTP parsing, options, logging, start-up, the pool of database connections and
  the vendored libraries hold no state a property would be about. The vendored libraries are nine
  tenths of the lines of the repository.

## Plan

Every invariant and every action property a run checks is stated by a theorem. What is left is
liveness, which stays with TLC, and the hazards of `PROJECT.json` that have a note instead of a
property: of none of them does a text of the repository say what should happen.
