---------------------------- MODULE PictureStore ----------------------------
(***************************************************************************)
(* The pictures of passing vehicles and the vouchers of payments: files in *)
(* one directory per day, and the rows that name them (cpic1path and       *)
(* cpic2path of park_detect_info, proof_url of park_charge_info).  A file  *)
(* is written before its row names it and removed before the row forgets   *)
(* it.  Pictures are removed at night when they are old (clear_pic, on the *)
(* thread of ios_), and by whoever is about to save one when the disk is   *)
(* full (picture_storage_manage).                                          *)
(*                                                                         *)
(* job[t] is what thread t has still to do, one statement or one operation *)
(* on the file system after the other; other threads run in between.       *)
(* Nothing on ios_ catches an exception of clear_pic: it ends the process, *)
(* which the daemon starts again.                                          *)
(*                                                                         *)
(* Rows are numbers in the order of collectiondate or record_time.  How    *)
(* full the disk is, is decided by others too: any answer is possible.     *)
(***************************************************************************)
EXTENDS Integers, Sequences, FiniteSets, SequencesExt

CONSTANTS
    Passes,     \* pass events: rows of park_detect_info
    Vouchers,   \* payments: rows of park_charge_info
    Cameras,    \* threads running on_device_data
    Clerks,     \* threads running client_submit_picture
    Ios,        \* the thread of ios_
    Expiry,     \* picture_expiry, in days
    Share,      \* one in Share pictures is removed when the disk is full; 5 in the code
    MaxDay,     \* bound: the days told apart
    Copies,     \* Copies[r]: pictures of a pass event; bound: vouchers submitted for r
    MaxFaults   \* bound: statements, file operations and processes that fail

PicThreads == Cameras \cup Clerks \cup {Ios}
Rows == Passes \cup Vouchers
Stores == {"pass", "voucher"}
Store(r) == IF r \in Passes THEN "pass" ELSE "voucher"
Folders == [store : Stores, day : 0 .. MaxDay]
Files == [row : Rows, copy : Nat, day : 0 .. MaxDay]
Folder(f) == [store |-> Store(f.row), day |-> f.day]

ASSUME PictureAssumption ==
    /\ Passes \subseteq Nat /\ Vouchers \subseteq Nat /\ Passes \cap Vouchers = {}
    /\ IsFiniteSet(Rows)
    /\ Cameras \cap Clerks = {} /\ Ios \notin Cameras \cup Clerks
    /\ Expiry \in Nat /\ Share \in Nat \ {0} /\ MaxDay \in Nat
    /\ Copies \in [Rows -> Nat \ {0}] /\ MaxFaults \in Nat

VARIABLES
    up,         \* whether the server process runs
    today,      \* the day
    day,        \* day[r]: collectiondate or record_time of row r
    url,        \* url[r]: the files row r names
    files,      \* files on the disk
    folders,    \* directories on the disk
    inside,     \* rows of park_inner_cars
    sent,       \* sent[r]: pictures saved, or being saved, for row r
    job,        \* job[t]: what thread t has still to do
    leaked,     \* files whose row was never written, or rewritten, or emptied by another,
                \* or that could not be looked at
    unwritten,  \* files not written, because the directory was removed meanwhile
    faults      \* how many of MaxFaults have happened

tables == <<day, url, inside>>
history == <<leaked, unwritten>>
pic_vars == <<up, today, tables, files, folders, sent, job, history, faults>>

PicInit ==
    /\ up = TRUE /\ today = 0
    /\ day = [r \in Rows |-> 0]
    /\ url = [r \in Rows |-> {}]
    /\ files = {} /\ folders = {} /\ inside = {}
    /\ sent = [r \in Rows |-> 0]
    /\ job = [t \in PicThreads |-> <<>>]
    /\ leaked = {} /\ unwritten = {} /\ faults = 0

-----------------------------------------------------------------------------
(* The steps of the handlers.                                              *)
Manage(store) == [op |-> "manage", store |-> store]
MakeFolder(f) == [op |-> "make_folder", file |-> f]
Write(f) == [op |-> "write", file |-> f]
InsertRow(r, fs) == [op |-> "insert_row", row |-> r, files |-> fs]
UpdateURL(f) == [op |-> "update_url", row |-> f.row, files |-> {f}]
Earliest(store) == [op |-> "earliest", store |-> store]
ByCounts(store) == [op |-> "by_counts", store |-> store]
Expired(store) == [op |-> "expired", store |-> store]
RemovePics(fs) == [op |-> "remove", files |-> fs]
Empty(f) == [op |-> "empty", file |-> f]
RemoveFolder(f) == [op |-> "remove_folder", file |-> f]

Doing(t, op) == up /\ job[t] # <<>> /\ Head(job[t]).op = op
Continue(t, steps) == job' = [job EXCEPT ![t] = steps \o Tail(@)]

(* Files a handler has written, or is to write, and not yet recorded.      *)
Unrecorded(t) == UNION {s.files : s \in {u \in ToSet(job[t]) : u.op \in {"insert_row", "update_url"}}}

-----------------------------------------------------------------------------
(* Saving a picture.                                                       *)
on_device_data_pictures(t, r) ==
    /\ up /\ job[t] = <<>>
    /\ sent[r] = 0
    /\ \A s \in Passes : s < r => sent[s] > 0
    /\ sent' = [sent EXCEPT ![r] = Copies[r]]
    /\ day' = [day EXCEPT ![r] = today]
    /\ LET f == [c \in 1 .. Copies[r] |-> [row |-> r, copy |-> c, day |-> today]] IN
       job' = [job EXCEPT ![t] = <<Manage("pass"), MakeFolder(f[1])>>
                                   \o [c \in 1 .. Copies[r] |-> Write(f[c])]
                                   \o <<InsertRow(r, ToSet(f))>>]
    /\ UNCHANGED <<up, today, url, inside, files, folders, history, faults>>

(* A voucher can be submitted again; the name holds the time.              *)
client_submit_picture(t, r) ==
    /\ up /\ job[t] = <<>>
    /\ sent[r] < Copies[r]
    /\ \A s \in Vouchers : s < r => sent[s] > 0
    /\ sent' = [sent EXCEPT ![r] = @ + 1]
    /\ day' = [day EXCEPT ![r] = IF sent[r] = 0 THEN today ELSE @]
    /\ LET f == [row |-> r, copy |-> sent[r] + 1, day |-> today] IN
       job' = [job EXCEPT ![t] = <<Manage("voucher"), MakeFolder(f), Write(f), UpdateURL(f)>>]
    /\ UNCHANGED <<up, today, url, inside, files, folders, history, faults>>

PictureDirectory(t) ==
    /\ Doing(t, "make_folder")
    /\ folders' = folders \cup {Folder(Head(job[t]).file)}
    /\ Continue(t, <<>>)
    /\ UNCHANGED <<up, today, tables, files, sent, history, faults>>

(* The stream is not checked: without its directory nothing is written.    *)
WriteFile(t) ==
    /\ Doing(t, "write")
    /\ LET f == Head(job[t]).file IN
       IF Folder(f) \in folders
       THEN files' = files \cup {f} /\ UNCHANGED unwritten
       ELSE unwritten' = unwritten \cup {f} /\ UNCHANGED files
    /\ Continue(t, <<>>)
    /\ UNCHANGED <<up, today, tables, folders, sent, leaked, faults>>

(* The trigger of the table adds an inbound event to park_inner_cars.      *)
InsertPassVehicleInfo(t) ==
    /\ Doing(t, "insert_row")
    /\ LET s == Head(job[t]) IN
       /\ url' = [url EXCEPT ![s.row] = s.files]
       /\ inside' \in {inside, inside \cup {s.row}}
    /\ Continue(t, <<>>)
    /\ UNCHANGED <<up, today, day, files, folders, sent, history, faults>>

(* Slip: the old voucher is kept beside the new one. *)
UpdateAddsURL(t) ==
    /\ Doing(t, "update_url")
    /\ LET s == Head(job[t]) IN url' = [url EXCEPT ![s.row] = @ \cup s.files]
    /\ Continue(t, <<>>)
    /\ UNCHANGED <<up, today, day, inside, files, folders, sent, history, faults>>

(* The row names the new voucher; the old one stays on the disk.           *)
UpdateVoucherPictureURL(t) ==
    /\ Doing(t, "update_url")
    /\ LET s == Head(job[t]) IN
       /\ url' = [url EXCEPT ![s.row] = s.files]
       /\ leaked' = leaked \cup url[s.row]
    /\ Continue(t, <<>>)
    /\ UNCHANGED <<up, today, day, inside, files, folders, sent, unwritten, faults>>

(* The vehicle leaves (ParkingLedger).                                     *)
LeavesPark(r) ==
    /\ r \in inside
    /\ inside' = inside \ {r}
    /\ UNCHANGED <<up, today, day, url, files, folders, sent, job, history, faults>>

-----------------------------------------------------------------------------
(* The disk: over the configured capacity, or less than 5 MB left.         *)
picture_storage_manage(t) ==
    /\ Doing(t, "manage")
    /\ \E over, low \in BOOLEAN :
         Continue(t, (IF over THEN <<Earliest(Head(job[t]).store)>> ELSE <<>>)
                       \o (IF low THEN <<ByCounts("pass"), ByCounts("voucher")>> ELSE <<>>))
    /\ UNCHANGED <<up, today, tables, files, folders, sent, history, faults>>

(* Rows of a store that name a picture; those of vehicles inside are kept. *)
Named(store) == {r \in Rows : Store(r) = store /\ url[r] # {}}
Clearable(store) == Named(store) \ inside

(* The files of a list of rows that are still to be removed.               *)
Removing(fs) == IF fs = {} THEN <<>> ELSE <<RemovePics(fs)>>
Removal(rows) == Removing(UNION {url[r] : r \in rows})

(* Slip: the pictures of vehicles inside are taken too. *)
CountsEveryone(t) ==
    /\ Doing(t, "by_counts")
    /\ LET rows == Named(Head(job[t]).store)
           counts == Cardinality(Named(Head(job[t]).store)) \div Share IN
       Continue(t, Removal({r \in rows : Cardinality({s \in rows : s < r}) < counts}))
    /\ UNCHANGED <<up, today, tables, files, folders, sent, history, faults>>

(* The oldest, one in Share of all that have pictures, rounded down.       *)
clear_pic_by_counts(t) ==
    /\ Doing(t, "by_counts")
    /\ LET rows == Clearable(Head(job[t]).store)
           counts == Cardinality(Named(Head(job[t]).store)) \div Share IN
       Continue(t, Removal({r \in rows : Cardinality({s \in rows : s < r}) < counts}))
    /\ UNCHANGED <<up, today, tables, files, folders, sent, history, faults>>

(* The pictures of the earliest day.                                       *)
clear_earliest_day_voucher_pic(t) ==
    /\ Doing(t, "earliest") /\ Head(job[t]).store = "voucher"
    /\ LET rows == Clearable("voucher") IN
       Continue(t, Removal({r \in rows : \A s \in rows : day[r] <= day[s]}))
    /\ UNCHANGED <<up, today, tables, files, folders, sent, history, faults>>

(* Its sub-select returns every column of park_inner_cars where one is     *)
(* allowed: the statement is always rejected, and the pass event is lost.  *)
clear_earliest_day_vehicle_pic(t) ==
    /\ Doing(t, "earliest") /\ Head(job[t]).store = "pass"
    /\ job' = [job EXCEPT ![t] = <<>>]
    /\ UNCHANGED <<up, today, tables, files, folders, sent, history, faults>>

(* Two o'clock.  The timer is set again when clear_pic ends, and when the  *)
(* server starts.                                                          *)
clear_pic ==
    /\ today' = IF today < MaxDay THEN today + 1 ELSE today
    /\ job' = IF up /\ job[Ios] = <<>> /\ Expiry > 0
              THEN [job EXCEPT ![Ios] = <<Expired("pass"), Expired("voucher")>>]
              ELSE job
    /\ UNCHANGED <<up, tables, files, folders, sent, history, faults>>

clear_expired_pic(t) ==
    /\ Doing(t, "expired")
    /\ Continue(t, Removal({r \in Clearable(Head(job[t]).store) : day[r] + Expiry < today}))
    /\ UNCHANGED <<up, today, tables, files, folders, sent, history, faults>>

-----------------------------------------------------------------------------
(* delete_passvehicle_pic and delete_voucher_pic: one file after the other *)
(* of the list that was read, the files of a row in their order.  Only the *)
(* selections by number are ordered (by time) in the database, so rows are *)
(* taken in any order: more orders than the code has, none is missing.     *)
NextOf(t) ==
    LET fs == Head(job[t]).files IN
    {f \in fs : \A g \in fs : g.row = f.row => f.copy <= g.copy}

(* Slip: a row whose file is not there is left alone. *)
RemoveIfThere(t) ==
    /\ Doing(t, "remove")
    /\ \E f \in NextOf(t) :
       /\ files' = files \ {f}
       /\ Continue(t, (IF f \in files THEN <<Empty(f), RemoveFolder(f)>> ELSE <<>>)
                        \o Removing(Head(job[t]).files \ {f}))
    /\ UNCHANGED <<up, today, tables, folders, sent, history, faults>>

RemoveFile(t) ==
    /\ Doing(t, "remove")
    /\ \E f \in NextOf(t) :
       /\ files' = files \ {f}
       /\ Continue(t, <<Empty(f)>> \o (IF f \in files THEN <<RemoveFolder(f)>> ELSE <<>>)
                        \o Removing(Head(job[t]).files \ {f}))
    /\ UNCHANGED <<up, today, tables, folders, sent, history, faults>>

(* Slip: the row forgets a file that could not be removed. *)
EmptyAnyway(t) ==
    /\ Doing(t, "remove")
    /\ faults < MaxFaults /\ faults' = faults + 1
    /\ \E f \in NextOf(t) \cap files :
         Continue(t, <<Empty(f)>> \o Removing(Head(job[t]).files \ {f}))
    /\ UNCHANGED <<up, today, tables, files, folders, sent, history>>

(* std::remove fails: the row keeps naming the file.                       *)
RemoveFails(t) ==
    /\ Doing(t, "remove")
    /\ faults < MaxFaults /\ faults' = faults + 1
    /\ \E f \in NextOf(t) \cap files : Continue(t, Removing(Head(job[t]).files \ {f}))
    /\ UNCHANGED <<up, today, tables, files, folders, sent, history>>

(* boost::filesystem::exists fails: the error is logged and the file taken *)
(* for missing, so that the row forgets a file that is still there.        *)
ExistsFails(t) ==
    /\ Doing(t, "remove")
    /\ faults < MaxFaults /\ faults' = faults + 1
    /\ \E f \in NextOf(t) \cap files :
       /\ leaked' = leaked \cup {f}
       /\ Continue(t, <<Empty(f)>> \o Removing(Head(job[t]).files \ {f}))
    /\ UNCHANGED <<up, today, tables, files, folders, sent, unwritten>>

(* EmptyPassVehiclePicPath and EmptyVoucherPicPath: of a voucher, whatever *)
(* the row names by now.                                                   *)
EmptyPicPath(t) ==
    /\ Doing(t, "empty")
    /\ LET f == Head(job[t]).file
           forgotten == IF f.row \in Vouchers THEN url[f.row] ELSE {f} IN
       /\ url' = [url EXCEPT ![f.row] = @ \ forgotten]
       /\ leaked' = leaked \cup (forgotten \ {f})
    /\ Continue(t, <<>>)
    /\ UNCHANGED <<up, today, day, inside, files, folders, sent, unwritten, faults>>

RemoveEmptyDirectory(t) ==
    /\ Doing(t, "remove_folder")
    /\ LET d == Folder(Head(job[t]).file) IN
       folders' = IF \E f \in files : Folder(f) = d THEN folders ELSE folders \ {d}
    /\ Continue(t, <<>>)
    /\ UNCHANGED <<up, today, tables, files, sent, history, faults>>

-----------------------------------------------------------------------------
(* The process ends, by an exception nobody catches or from outside.       *)
Crash ==
    /\ up
    /\ faults < MaxFaults /\ faults' = faults + 1
    /\ up' = FALSE
    /\ job' = [t \in PicThreads |-> <<>>]
    /\ leaked' = leaked \cup UNION {Unrecorded(t) : t \in PicThreads}
    /\ UNCHANGED <<today, tables, files, folders, sent, unwritten>>

(* A statement fails: the handlers of requests catch the exception.  On    *)
(* ios_ it is a Crash.                                                     *)
PicStatementFails(t) ==
    /\ t # Ios
    /\ \E op \in {"manage", "insert_row", "update_url", "earliest", "by_counts", "empty"} :
         Doing(t, op)
    /\ faults < MaxFaults /\ faults' = faults + 1
    /\ job' = [job EXCEPT ![t] = <<>>]
    /\ leaked' = leaked \cup Unrecorded(t)
    /\ UNCHANGED <<up, today, tables, files, folders, sent, unwritten>>

(* The worker of the daemon starts a stopped service.                      *)
Restart ==
    /\ ~up
    /\ up' = TRUE
    /\ UNCHANGED <<today, tables, files, folders, sent, job, history, faults>>

-----------------------------------------------------------------------------
PicStep(t) ==
    \/ PictureDirectory(t) \/ WriteFile(t) \/ InsertPassVehicleInfo(t)
    \/ UpdateVoucherPictureURL(t) \/ picture_storage_manage(t) \/ clear_pic_by_counts(t)
    \/ clear_earliest_day_voucher_pic(t) \/ clear_earliest_day_vehicle_pic(t)
    \/ clear_expired_pic(t) \/ RemoveFile(t) \/ EmptyPicPath(t) \/ RemoveEmptyDirectory(t)

PicNext ==
    \/ \E t \in Cameras, r \in Passes : on_device_data_pictures(t, r)
    \/ \E t \in Clerks, r \in Vouchers : client_submit_picture(t, r)
    \/ \E r \in Passes : LeavesPark(r)
    \/ \E t \in PicThreads : PicStep(t) \/ RemoveFails(t) \/ ExistsFails(t) \/ PicStatementFails(t)
    \/ clear_pic \/ Crash \/ Restart

(***************************************************************************)
(* Every step of a handler ends, nights come, and the daemon looks every   *)
(* second whether the server has stopped.  Nothing makes a vehicle pass or *)
(* leave, or an operator submit a voucher.                                 *)
(***************************************************************************)
PicFairness ==
    /\ \A t \in PicThreads : WF_pic_vars(PicStep(t))
    /\ WF_pic_vars(clear_pic) /\ WF_pic_vars(Restart)

PicSpec == PicInit /\ [][PicNext]_pic_vars /\ PicFairness

-----------------------------------------------------------------------------
(* Every variable holds a value of its type; a row names only files of its *)
(* own, and a voucher's row at most one.                                   *)
PicTypeOK ==
    /\ up \in BOOLEAN /\ today \in 0 .. MaxDay
    /\ day \in [Rows -> 0 .. MaxDay]
    /\ files \subseteq Files /\ folders \subseteq Folders /\ inside \subseteq Passes
    /\ \A r \in Rows : sent[r] \in 0 .. Copies[r]
    /\ DOMAIN job = PicThreads
    /\ leaked \subseteq Files /\ unwritten \subseteq Files
    /\ \A r \in Rows : url[r] \subseteq {f \in Files : f.row = r}
    /\ \A r \in Vouchers : Cardinality(url[r]) <= 1

(* The pictures of a vehicle that is still inside are never removed, by    *)
(* the clean-up at night or by one for want of space, however long a       *)
(* handler goes on with a list it has read before (a picture can only be   *)
(* missing because its directory was removed while it was being saved).    *)
InsidePicturesKept ==
    \A r \in inside : url[r] \subseteq files \cup unwritten

(* Every file on the disk is named by its row, or about to be: only such   *)
(* files can ever be removed again.  In particular a row does not forget a *)
(* file that could not be removed.  Exceptions are the files of handlers   *)
(* cut off before their last statement, vouchers replaced or cleared while *)
(* they were submitted again, and files of which the system would not say  *)
(* whether they exist (the code takes them for missing).                   *)
FilesAreListed ==
    \A f \in files :
      f \in url[f.row] \/ f \in leaked \/ \E t \in PicThreads : f \in Unrecorded(t)

(* Pictures older than picture_expiry of vehicles that have left are       *)
(* removed and forgotten at some time, even when the process ends between  *)
(* removing the file and emptying the row: the next night empties it.      *)
ExpiredPicturesGo ==
    \A r \in Rows :
      (r \notin inside /\ url[r] # {} /\ day[r] + Expiry < today) ~> (url[r] = {})
=============================================================================
