----------------------------- MODULE UserSessions -----------------------------
(***************************************************************************)
(* The terminals of the operators: the websocket connections, the map      *)
(* connections_ of sessions, and client_request with the requests that     *)
(* touch a session (Login, Logout, Shift, BindDevice); every other request *)
(* only looks its user up and does its work elsewhere.                     *)
(*                                                                         *)
(* websocketpp runs the handlers of one connection (message, ping, close,  *)
(* fail) one after the other, and those of different connections and the   *)
(* timer on eight threads.  A section under mtx_ is one step, a database   *)
(* statement is one step.                                                  *)
(***************************************************************************)
EXTENDS Integers, FiniteSets, Sequences

CONSTANTS Conns,     \* connection handles
          Users,     \* rows of park_user_info
          Devices,   \* devices a terminal can bind
          NoDevice,  \* the empty device id
          NoUser,    \* "no user"
          MaxRequests \* bound: requests sent in one behaviour

ASSUME SessionsAssumption ==
    /\ NoDevice \notin Devices
    /\ NoUser \notin Users
    /\ MaxRequests \in Nat

VARIABLES
    conn,         \* conn[c]: the transport, from "new" to "gone"
    connections,  \* connections_: the session of each connection that has one
    mtx,          \* "free", or the function that locked mtx_ twice
    req,          \* req[c]: the request client_request is serving on c
    reply,        \* reply[c]: the last answer on c
    operator,     \* operator[c]: whose password was last accepted on c
    asked,        \* asked[c]: devices bound with success since then
    duty,         \* park_duty_info: its rows <<from, to>>, in the order of insertion
    sent          \* requests sent so far

vars == <<conn, connections, mtx, req, reply, operator, asked, duty, sent>>

Directions == {"in", "out"}
NoBinding == [d \in Directions |-> NoDevice]
Session(user) == [user |-> user, bind_device |-> NoBinding, silent |-> FALSE]

Request(cmd, user, valid, direction, device) ==
    [pc |-> "address", cmd |-> cmd, user |-> user, valid |-> valid,
     direction |-> direction, device |-> device, actor |-> NoUser, row |-> 0]
Idle == [Request("none", NoUser, FALSE, "in", NoDevice) EXCEPT !.pc = "idle"]

Init ==
    /\ conn = [c \in Conns |-> "new"]
    /\ connections = <<>>
    /\ mtx = "free"
    /\ req = [c \in Conns |-> Idle]
    /\ reply = [c \in Conns |-> "none"]
    /\ operator = [c \in Conns |-> NoUser]
    /\ asked = [c \in Conns |-> NoBinding]
    /\ duty = <<>>
    /\ sent = 0

LoggedIn == DOMAIN connections
Set(c, session) == [d \in LoggedIn \cup {c} |-> IF d = c THEN session ELSE connections[d]]
Erase(c) == [d \in LoggedIn \ {c} |-> connections[d]]

Goto(c, pc) == req' = [req EXCEPT ![c].pc = pc] /\ UNCHANGED reply
Authenticated(c, user) ==
    /\ operator' = [operator EXCEPT ![c] = user]
    /\ asked' = [asked EXCEPT ![c] = NoBinding]
Answer(c, result) ==
    /\ req' = [req EXCEPT ![c] = Idle]
    /\ reply' = [reply EXCEPT ![c] = result]

-----------------------------------------------------------------------------
(* The transport and the handlers that are not requests.                   *)
on_open(c) ==
    /\ conn[c] = "new"
    /\ conn' = [conn EXCEPT ![c] = "open"]
    /\ UNCHANGED <<connections, mtx, req, reply, operator, asked, duty, sent>>

PeerCloses(c) ==
    /\ conn[c] = "open"
    /\ conn' = [conn EXCEPT ![c] = "closed"]
    /\ UNCHANGED <<connections, mtx, req, reply, operator, asked, duty, sent>>

(* Slip: the session is not erased. *)
CloseKeepsSession(c) ==
    /\ conn[c] = "closed" /\ req[c].pc = "idle"
    /\ mtx = "free"
    /\ conn' = [conn EXCEPT ![c] = "gone"]
    /\ UNCHANGED <<connections, mtx, req, reply, operator, asked, duty, sent>>

on_close(c) ==
    /\ conn[c] = "closed" /\ req[c].pc = "idle"
    /\ mtx = "free"
    /\ conn' = [conn EXCEPT ![c] = "gone"]
    /\ connections' = Erase(c)
    /\ Authenticated(c, NoUser)
    /\ reply' = [reply EXCEPT ![c] = "none"]
    /\ UNCHANGED <<mtx, req, duty, sent>>

on_fail(c) ==
    /\ conn[c] = "new"
    /\ mtx = "free"
    /\ conn' = [conn EXCEPT ![c] = "gone"]
    /\ connections' = Erase(c)
    /\ UNCHANGED <<mtx, req, reply, operator, asked, duty, sent>>

on_ping(c) ==
    /\ conn[c] = "open" /\ req[c].pc = "idle"
    /\ mtx = "free"
    /\ c \in LoggedIn
    /\ connections' = [connections EXCEPT ![c].silent = FALSE]
    /\ UNCHANGED <<conn, mtx, req, reply, operator, asked, duty, sent>>

(* More than sixty seconds pass without a ping.                            *)
FallsSilent(c) ==
    /\ c \in LoggedIn /\ ~connections[c].silent
    /\ connections' = [connections EXCEPT ![c].silent = TRUE]
    /\ UNCHANGED <<conn, mtx, req, reply, operator, asked, duty, sent>>

(* check_timer holds mtx_ and, at the first silent session, calls          *)
(* get_client_address, which locks mtx_ again.  A thread that locks a      *)
(* non-recursive mutex twice is undefined behaviour: where the mutex       *)
(* blocks (the Unix build), the thread waits for itself and closing and    *)
(* erasing the sessions is never reached; a runtime that lets the owner in *)
(* again goes on to close every silent session.  Without a silent session  *)
(* nothing changes.                                                        *)
Silent == {c \in LoggedIn : connections[c].silent}

check_timer ==
    /\ mtx = "free"
    /\ Silent # {}
    /\ \/ /\ mtx' = "check_timer"
          /\ UNCHANGED <<conn, connections>>
       \/ /\ conn' = [c \in Conns |-> IF c \in Silent /\ conn[c] = "open"
                                      THEN "closed" ELSE conn[c]]
          /\ connections' = [c \in LoggedIn \ Silent |-> connections[c]]
          /\ UNCHANGED mtx
    /\ UNCHANGED <<req, reply, operator, asked, duty, sent>>

(* The destructor does the same through close_connection, whose            *)
(* erase_connection locks mtx_ again; the connection is closed by then.    *)
Destructor ==
    /\ mtx = "free"
    /\ \E c \in LoggedIn :
         conn' = [conn EXCEPT ![c] = IF @ = "open" THEN "closed" ELSE @]
    /\ mtx' = "destructor"
    /\ UNCHANGED <<connections, req, reply, operator, asked, duty, sent>>

-----------------------------------------------------------------------------
(* client_request.                                                         *)
ClientSends(c, r) ==
    /\ conn[c] = "open" /\ req[c].pc = "idle"
    /\ sent < MaxRequests
    /\ sent' = sent + 1
    /\ req' = [req EXCEPT ![c] = r]
    /\ reply' = [reply EXCEPT ![c] = "none"]
    /\ UNCHANGED <<conn, connections, mtx, operator, asked, duty>>

(* The log line at the top of client_request asks for the address.         *)
get_client_address(c) ==
    /\ req[c].pc = "address"
    /\ mtx = "free"
    /\ Goto(c, IF req[c].cmd = "Login" THEN "Login" ELSE "find_user")
    /\ UNCHANGED <<conn, connections, mtx, operator, asked, duty, sent>>

find_user(c) ==
    /\ req[c].pc = "find_user" /\ c \in LoggedIn
    /\ mtx = "free"
    /\ req' = [req EXCEPT ![c].pc = req[c].cmd, ![c].actor = connections[c].user]
    /\ UNCHANGED <<conn, connections, mtx, reply, operator, asked, duty, sent>>

find_user_throws(c) ==
    /\ req[c].pc = "find_user" /\ c \notin LoggedIn
    /\ mtx = "free"
    /\ Answer(c, "ERROR")
    /\ UNCHANGED <<conn, connections, mtx, operator, asked, duty, sent>>

(* Malformed JSON, an unknown command, a failing statement or device: the  *)
(* exception is answered with an error by client_request.                  *)
RequestThrows(c) ==
    /\ req[c].pc \in {"Login", "find_user", "Shift", "InsertShiftLog", "Other"}
    /\ Answer(c, "ERROR")
    /\ UNCHANGED <<conn, connections, mtx, operator, asked, duty, sent>>

(* Slip: a wrong name or password is let through. *)
LoginUnchecked(c) ==
    /\ req[c].pc = "Login"
    /\ Authenticated(c, req[c].user)
    /\ Goto(c, "add_connection_user")
    /\ UNCHANGED <<conn, connections, mtx, duty, sent>>

(* on_login with a wrong name or password answers, closes the transport    *)
(* and erases whatever session the connection had.                         *)
on_login(c) ==
    /\ req[c].pc = "Login"
    /\ IF req[c].valid
       THEN /\ Authenticated(c, req[c].user)
            /\ Goto(c, "add_connection_user")
       ELSE /\ req' = [req EXCEPT ![c].pc = "close_connection"]
            /\ reply' = [reply EXCEPT ![c] = "ERROR"]
            /\ UNCHANGED <<operator, asked>>
    /\ UNCHANGED <<conn, connections, mtx, duty, sent>>

on_logout(c) ==
    /\ req[c].pc = "Logout"
    /\ req' = [req EXCEPT ![c].pc = "close_connection"]
    /\ reply' = [reply EXCEPT ![c] = "OK"]
    /\ UNCHANGED <<conn, connections, mtx, operator, asked, duty, sent>>

(* The present operator's and the next one's passwords are both checked.   *)
on_shift(c) ==
    /\ req[c].pc = "Shift"
    /\ IF req[c].valid
       THEN /\ Authenticated(c, req[c].user)
            /\ Goto(c, "add_connection_user")
       ELSE /\ Answer(c, "ERROR")
            /\ UNCHANGED <<operator, asked>>
    /\ UNCHANGED <<conn, connections, mtx, duty, sent>>

(* Slip: a shift re-enters the present operator. *)
AddsPresentUser(c) ==
    /\ req[c].pc = "add_connection_user"
    /\ mtx = "free"
    /\ connections' = Set(c, Session(IF req[c].cmd = "Login" THEN req[c].user
                                     ELSE req[c].actor))
    /\ IF req[c].cmd = "Login" THEN Answer(c, "OK") ELSE Goto(c, "InsertShiftLog")
    /\ UNCHANGED <<conn, mtx, operator, asked, duty, sent>>

(* Slip: the bindings of the old session are taken over. *)
AddsWithBindings(c) ==
    /\ req[c].pc = "add_connection_user"
    /\ mtx = "free"
    /\ connections' = Set(c, [Session(req[c].user) EXCEPT !.bind_device =
                               IF c \in LoggedIn THEN connections[c].bind_device ELSE @])
    /\ IF req[c].cmd = "Login" THEN Answer(c, "OK") ELSE Goto(c, "InsertShiftLog")
    /\ UNCHANGED <<conn, mtx, operator, asked, duty, sent>>

(* A new session replaces the one the connection may have, bindings and    *)
(* all.                                                                    *)
add_connection_user(c) ==
    /\ req[c].pc = "add_connection_user"
    /\ mtx = "free"
    /\ connections' = Set(c, Session(req[c].user))
    /\ IF req[c].cmd = "Login" THEN Answer(c, "OK") ELSE Goto(c, "InsertShiftLog")
    /\ UNCHANGED <<conn, mtx, operator, asked, duty, sent>>

(* Slip: the failure of the log is ignored. *)
ShiftLogUnchecked(c) ==
    /\ req[c].pc = "InsertShiftLog"
    /\ \/ UNCHANGED duty /\ Goto(c, "ShiftResponse")
       \/ /\ duty' = Append(duty, <<req[c].actor, req[c].user>>)
          /\ req' = [req EXCEPT ![c].pc = "ShiftResponse", ![c].row = Len(duty')]
          /\ UNCHANGED reply
    /\ UNCHANGED <<conn, connections, mtx, operator, asked, sent>>

(* A shift inserts a row under a key of its own, here its place in duty.   *)
(* Rows of other terminals' shifts may follow before it is answered.       *)
InsertShiftLog(c) ==
    /\ req[c].pc = "InsertShiftLog"
    /\ duty' = Append(duty, <<req[c].actor, req[c].user>>)
    /\ req' = [req EXCEPT ![c].pc = "ShiftResponse", ![c].row = Len(duty')]
    /\ UNCHANGED <<conn, connections, mtx, reply, operator, asked, sent>>

(* send_response reports no error of the transport.                        *)
ShiftResponse(c) ==
    /\ req[c].pc = "ShiftResponse"
    /\ Answer(c, "OK")
    /\ UNCHANGED <<conn, connections, mtx, operator, asked, duty, sent>>

(* bind_device searches the map without mtx_.  While another connection    *)
(* inserts or erases, the search is a data race and may miss the session;  *)
(* the answer is OK all the same.  Errors of the device are swallowed.     *)
Mutating == {d \in Conns : req[d].pc \in {"add_connection_user", "erase_connection"}
                             \/ (conn[d] = "closed" /\ req[d].pc = "idle")}

bind_device(c) ==
    /\ req[c].pc = "BindDevice"
    /\ \/ /\ c \in LoggedIn
          /\ connections' = [connections EXCEPT
                               ![c].bind_device[req[c].direction] = req[c].device]
          /\ asked' = [asked EXCEPT ![c][req[c].direction] = req[c].device]
       \/ /\ c \notin LoggedIn \/ Mutating \ {c} # {}
          /\ UNCHANGED <<connections, asked>>
    /\ Answer(c, "OK")
    /\ UNCHANGED <<conn, mtx, operator, duty, sent>>

OtherRequest(c) ==
    /\ req[c].pc = "Other"
    /\ Answer(c, "OK")
    /\ UNCHANGED <<conn, connections, mtx, operator, asked, duty, sent>>

close_connection(c) ==
    /\ req[c].pc = "close_connection"
    /\ conn' = [conn EXCEPT ![c] = "closed"]
    /\ Goto(c, "erase_connection")
    /\ UNCHANGED <<connections, mtx, operator, asked, duty, sent>>

(* Slip: waits for on_close, which comes only after this handler. *)
EraseAfterClose(c) ==
    /\ req[c].pc = "erase_connection" /\ conn[c] = "gone"
    /\ mtx = "free"
    /\ connections' = Erase(c)
    /\ req' = [req EXCEPT ![c] = Idle]
    /\ UNCHANGED <<conn, mtx, reply, operator, asked, duty, sent>>

erase_connection(c) ==
    /\ req[c].pc = "erase_connection"
    /\ mtx = "free"
    /\ connections' = Erase(c)
    /\ req' = [req EXCEPT ![c] = Idle]
    /\ UNCHANGED <<conn, mtx, reply, operator, asked, duty, sent>>

-----------------------------------------------------------------------------
(***************************************************************************)
(* notify_pass_vehicle_to_client changes nothing here: it is the set of    *)
(* the terminals that can be told of a car at the device, in a state where *)
(* mtx_ is free.  The loop goes over the sessions in the order of the map, *)
(* which is any; send throws for a connection that is no longer open, and  *)
(* the terminals behind it are left out.  The bindings of a session that   *)
(* is just being bound are read while they are written: it may be taken to *)
(* be bound or not.                                                        *)
(***************************************************************************)
Bound(device) ==
    {c \in LoggedIn : \E d \in Directions : connections[c].bind_device[d] = device}
Binding(device) ==
    {c \in LoggedIn : req[c].pc = "BindDevice" /\ (req[c].device = device \/ c \in Bound(device))}
Dead == {c \in LoggedIn : conn[c] # "open"}

notify_pass_vehicle_to_client(device) ==
    LET visited == {(Bound(device) \ Binding(device)) \cup read :
                      read \in SUBSET Binding(device)} IN
    UNION {IF v \cap Dead = {} THEN {v} ELSE SUBSET (v \ Dead) : v \in visited}

-----------------------------------------------------------------------------
Requests ==
    {Request(x[1], x[2], TRUE, "in", NoDevice) : x \in {"Login", "Shift"} \X Users}
      \cup {Request(cmd, NoUser, FALSE, "in", NoDevice) : cmd \in {"Login", "Shift"}}
      \cup {Request(cmd, NoUser, TRUE, "in", NoDevice) : cmd \in {"Logout", "Other"}}
      \cup {Request("BindDevice", NoUser, TRUE, x[1], x[2]) : x \in Directions \X Devices}

Handler(c) ==
    \/ get_client_address(c) \/ find_user(c) \/ find_user_throws(c)
    \/ RequestThrows(c) \/ on_login(c) \/ on_logout(c) \/ on_shift(c)
    \/ add_connection_user(c) \/ InsertShiftLog(c) \/ ShiftResponse(c)
    \/ bind_device(c) \/ OtherRequest(c) \/ close_connection(c) \/ erase_connection(c)

Next ==
    \/ \E c \in Conns : \/ on_open(c) \/ PeerCloses(c) \/ on_close(c) \/ on_fail(c)
                        \/ on_ping(c) \/ FallsSilent(c) \/ Handler(c)
    \/ \E c \in Conns, r \in Requests : ClientSends(c, r)
    \/ check_timer \/ Destructor

Spec == Init /\ [][Next]_vars

(***************************************************************************)
(* A handler that can run does run: there are more threads than blocking   *)
(* operations, every statement and device exchange has a timeout, and mtx_ *)
(* is released at the end of every section but the two that lock it twice. *)
(* Nothing makes a client send or close.                                   *)
(***************************************************************************)
FairSpec == Spec /\ \A c \in Conns : WF_vars(Handler(c)) /\ WF_vars(on_close(c))

-----------------------------------------------------------------------------
Sessions == [user : Users, bind_device : [Directions -> Devices \cup {NoDevice}],
             silent : BOOLEAN]

(* Every variable holds a value of its type; a session always has a user.  *)
TypeOK ==
    /\ conn \in [Conns -> {"new", "open", "closed", "gone"}]
    /\ LoggedIn \subseteq Conns /\ connections \in [LoggedIn -> Sessions]
    /\ mtx \in {"free", "check_timer", "destructor"}
    /\ DOMAIN req = Conns
    /\ reply \in [Conns -> {"none", "OK", "ERROR"}]
    /\ operator \in [Conns -> Users \cup {NoUser}]
    /\ asked \in [Conns -> [Directions -> Devices \cup {NoDevice}]]
    /\ sent \in 0 .. MaxRequests
    /\ duty \in Seq(Users \X Users)

(* No session outlives its connection: whatever login, shift or bind was   *)
(* under way when the transport failed, once on_close or on_fail is done   *)
(* nothing of the connection is left in connections_ (a ghost would be     *)
(* notified of cars instead of the gate being opened).                     *)
NoGhostSession == \A c \in LoggedIn : conn[c] \in {"open", "closed"}

(* A request is carried out, and logged, in the name of the operator whose *)
(* password was last accepted on that connection, by a login or a shift.   *)
ActsAsLastAuthenticated ==
    \A c \in Conns :
      req[c].pc \in {"Logout", "Shift", "BindDevice", "Other"} => req[c].actor = operator[c]

(* A car at a device is announced to exactly the terminals whose present   *)
(* operator has bound the device, unless the connection of another bound   *)
(* terminal has just closed: no terminal is told for the operator before   *)
(* a shift, and none is passed over.  (The gate opens by itself when       *)
(* nobody is told.)                                                        *)
ToldIfBound ==
    mtx = "free" =>
      \A device \in Devices : \A told \in notify_pass_vehicle_to_client(device) :
        LET steady == {c \in LoggedIn : req[c].pc \notin {"BindDevice", "add_connection_user"}}
            wanted == {c \in Conns : \E d \in Directions : asked[c][d] = device} IN
        /\ told \cap steady \subseteq wanted
        /\ Dead = {} => steady \cap wanted \subseteq told

(* A shift is answered with OK only when park_duty_info has a row of its   *)
(* own for it, from the operator it took off duty to the one it put on,    *)
(* whatever other terminals logged meanwhile, and the session of the       *)
(* connection, if it is still open, is the next operator's.                *)
ShiftOkIsOnDuty ==
    [][\A c \in Conns :
         (req[c].cmd = "Shift" /\ req'[c].pc = "idle" /\ reply'[c] = "OK") =>
           /\ req[c].row \in DOMAIN duty' /\ duty'[req[c].row] = <<req[c].actor, req[c].user>>
           /\ \A d \in Conns \ {c} : req'[d].row # req[c].row
           /\ \/ conn'[c] # "open"
              \/ c \in DOMAIN connections' /\ connections'[c].user = req[c].user]_vars

(* Only a thread that locks mtx_ twice keeps a request from being served   *)
(* to its end, with an answer or by closing the connection, and the        *)
(* session of a closed connection from being erased: until then            *)
(* notify_pass_vehicle_to_client throws at it and passes others over.      *)
ServedUnlessStuck ==
    \A c \in Conns :
      LET served == req[c].pc = "idle" /\ c \notin Dead IN ~served ~> (served \/ mtx # "free")

(* Every request has its response, as the protocol lists them, until the   *)
(* server is shut down.                                                    *)
RequestsAnswered ==
    \A c \in Conns : (req[c].pc # "idle") ~> (req[c].pc = "idle" \/ mtx = "destructor")
=============================================================================
