------------------------- MODULE UserSessionsProofs -------------------------
(***************************************************************************)
(* For any number of terminals, operators, devices and requests: the types *)
(* of the sessions, no session without its connection, requests carried    *)
(* out for the operator last authenticated, cars announced to the          *)
(* terminals that bound the device, and what the answer to a shift means.  *)
(***************************************************************************)
EXTENDS UserSessions, TLAPS

Commands == {"Login", "Logout", "Shift", "BindDevice", "Other"}
RequestStates ==
    [pc : Commands \cup {"idle", "address", "find_user", "add_connection_user",
                         "InsertShiftLog", "ShiftResponse", "close_connection",
                         "erase_connection"},
     cmd : Commands \cup {"none"}, user : Users \cup {NoUser}, valid : BOOLEAN,
     direction : Directions, device : Devices \cup {NoDevice},
     actor : Users \cup {NoUser}, row : Nat]

(* Where a request is tells which command it is and what is known of it.   *)
Consistent(r) ==
    /\ r.pc = "idle" => r.cmd = "none"
    /\ r.pc = "address" => r.cmd # "none"
    /\ r.pc \in Commands => r.cmd = r.pc
    /\ r.pc = "find_user" => r.cmd \notin {"none", "Login"}
    /\ r.pc = "add_connection_user" => r.cmd \in {"Login", "Shift"}
    /\ r.pc \in {"InsertShiftLog", "ShiftResponse"} => r.cmd = "Shift"
    /\ r.pc \in {"close_connection", "erase_connection"} => r.cmd \in {"Login", "Logout"}
    /\ r.cmd \in {"Login", "Shift"} /\ r.valid => r.user \in Users
    /\ r.pc \in {"add_connection_user", "InsertShiftLog", "ShiftResponse"} => r.user \in Users
    /\ r.cmd = "Shift" /\ r.pc \notin {"address", "find_user"} => r.actor \in Users
    /\ r.cmd = "BindDevice" => r.device \in Devices

RequestOK(c) == req[c] \in RequestStates /\ Consistent(req[c])

(* Between the moment a password is accepted and the moment the session is *)
(* entered, the session (if there is one) is still that of the operator    *)
(* before; at all other times session, operator and bindings agree.        *)
SessionOK(c) ==
    /\ (c \in LoggedIn \/ req[c].pc # "idle") => conn[c] \in {"open", "closed"}
    /\ req[c].pc = "add_connection_user" =>
         operator[c] = req[c].user /\ asked[c] = NoBinding
    /\ (c \in LoggedIn /\ req[c].pc # "add_connection_user") =>
         connections[c].user = operator[c] /\ connections[c].bind_device = asked[c]
    /\ req[c].pc \in {"Logout", "Shift", "BindDevice", "Other"} =>
         req[c].actor = operator[c]
    /\ (req[c].pc \in {"InsertShiftLog", "ShiftResponse"} /\ conn[c] = "open") =>
         c \in LoggedIn /\ connections[c].user = req[c].user

(* The inductive invariant.                                                *)
Inv == TypeOK /\ \A c \in Conns : RequestOK(c) /\ SessionOK(c)

(* Nothing of connection d changes.                                        *)
Untouched(d) ==
    /\ conn'[d] = conn[d] /\ req'[d] = req[d]
    /\ operator'[d] = operator[d] /\ asked'[d] = asked[d]
    /\ d \in DOMAIN connections' <=> d \in LoggedIn
    /\ d \in LoggedIn => connections'[d] = connections[d]

(* A connection none of whose variables changes stays consistent.          *)
LEMMA UntouchedOK ==
    ASSUME NEW d \in Conns, RequestOK(d), SessionOK(d), Untouched(d)
    PROVE  RequestOK(d)' /\ SessionOK(d)'
BY DEF RequestOK, SessionOK, Untouched, LoggedIn

(* A request that a terminal may send is consistent.                       *)
LEMMA RequestsOK ==
    ASSUME NEW r \in Requests
    PROVE  r \in RequestStates /\ Consistent(r) /\ r.pc = "address"
<1>1. ASSUME NEW cmd \in Commands, NEW u \in Users \cup {NoUser}, NEW valid \in BOOLEAN,
             NEW direction \in Directions, NEW device \in Devices \cup {NoDevice},
             cmd \in {"Login", "Shift"} /\ valid => u \in Users,
             cmd = "BindDevice" => device \in Devices,
             r = Request(cmd, u, valid, direction, device)
      PROVE  r \in RequestStates /\ Consistent(r) /\ r.pc = "address"
  BY <1>1 DEF Request, RequestStates, Consistent, Commands
<1>2. CASE \E cmd \in {"Login", "Shift"}, u \in Users : r = Request(cmd, u, TRUE, "in", NoDevice)
  BY <1>1, <1>2 DEF Commands, Directions
<1>3. CASE \E cmd \in {"Login", "Shift"} : r = Request(cmd, NoUser, FALSE, "in", NoDevice)
  BY <1>1, <1>3 DEF Commands, Directions
<1>4. CASE \E cmd \in {"Logout", "Other"} : r = Request(cmd, NoUser, TRUE, "in", NoDevice)
  BY <1>1, <1>4 DEF Commands, Directions
<1>5. CASE \E direction \in Directions, device \in Devices :
             r = Request("BindDevice", NoUser, TRUE, direction, device)
  BY <1>1, <1>5 DEF Commands
<1> QED
  BY <1>2, <1>3, <1>4, <1>5 DEF Requests

(* A connection that serves no request is consistent.                      *)
LEMMA IdleOK == Idle \in RequestStates /\ Consistent(Idle) /\ Idle.pc = "idle"
BY DEF Idle, Request, RequestStates, Consistent, Commands, Directions

(* At the start nobody is connected.                                       *)
LEMMA InitOK == Init => Inv
<1> SUFFICES ASSUME Init PROVE Inv
  OBVIOUS
<1>1. LoggedIn = {}
  BY DEF Init, LoggedIn
<1>2. NoBinding \in [Directions -> Devices \cup {NoDevice}]
  BY DEF NoBinding
<1>3. connections \in [LoggedIn -> Sessions]
  BY <1>1 DEF Init, LoggedIn
<1>4. TypeOK
  BY <1>1, <1>2, <1>3, SessionsAssumption DEF Init, TypeOK
<1>5. \A c \in Conns : RequestOK(c) /\ SessionOK(c)
  BY <1>1, IdleOK DEF Init, RequestOK, SessionOK
<1> QED
  BY <1>4, <1>5 DEF Inv

(* The step of one connection c: if it keeps the types, leaves the other   *)
(* connections alone and c as it should be, it keeps the invariant.        *)
LEMMA StepOf ==
    ASSUME Inv, NEW c \in Conns, TypeOK',
           \A d \in Conns : d # c => Untouched(d),
           RequestOK(c)', SessionOK(c)'
    PROVE  Inv'
BY UntouchedOK DEF Inv

(* The transport.                                                          *)
LEMMA TransportStep ==
    ASSUME Inv, NEW c \in Conns,
           \/ on_open(c) \/ PeerCloses(c) \/ on_close(c) \/ on_fail(c)
           \/ on_ping(c) \/ FallsSilent(c)
    PROVE  Inv'
<1> USE DEF Inv
<1>0. TypeOK /\ RequestOK(c) /\ SessionOK(c)
  OBVIOUS
<1>1. CASE on_open(c) \/ PeerCloses(c)
  <2>1. TypeOK'
    BY <1>0, <1>1 DEF TypeOK, on_open, PeerCloses, LoggedIn
  <2>2. \A d \in Conns : d # c => Untouched(d)
    BY <1>0, <1>1 DEF TypeOK, on_open, PeerCloses, LoggedIn, Untouched
  <2>3. RequestOK(c)' /\ SessionOK(c)'
    BY <1>0, <1>1 DEF TypeOK, on_open, PeerCloses, LoggedIn, RequestOK, SessionOK
  <2> QED
    BY <2>1, <2>2, <2>3, StepOf
<1>2. CASE on_close(c)
  <2>0. /\ DOMAIN connections' = LoggedIn \ {c}
        /\ \A d \in LoggedIn \ {c} : connections'[d] = connections[d]
    BY <1>2 DEF on_close, Erase
  <2>1. TypeOK'
    BY <1>0, <1>2, <2>0 DEF TypeOK, on_close, LoggedIn, Erase, Authenticated, NoBinding
  <2>2. \A d \in Conns : d # c => Untouched(d)
    BY <1>0, <1>2, <2>0 DEF TypeOK, on_close, LoggedIn, Authenticated, Untouched
  <2>3. RequestOK(c)' /\ SessionOK(c)'
    BY <1>0, <1>2, <2>0 DEF TypeOK, on_close, LoggedIn, RequestOK, SessionOK
  <2> QED
    BY <2>1, <2>2, <2>3, StepOf
<1>3. CASE on_fail(c)
  <2>0. /\ DOMAIN connections' = LoggedIn \ {c}
        /\ \A d \in LoggedIn \ {c} : connections'[d] = connections[d]
    BY <1>3 DEF on_fail, Erase
  <2>1. TypeOK'
    BY <1>0, <1>3, <2>0 DEF TypeOK, on_fail, LoggedIn, Erase
  <2>2. \A d \in Conns : d # c => Untouched(d)
    BY <1>0, <1>3, <2>0 DEF TypeOK, on_fail, LoggedIn, Untouched
  <2>3. RequestOK(c)' /\ SessionOK(c)'
    BY <1>0, <1>3, <2>0 DEF TypeOK, on_fail, LoggedIn, RequestOK, SessionOK
  <2> QED
    BY <2>1, <2>2, <2>3, StepOf
<1>4. CASE on_ping(c) \/ FallsSilent(c)
  <2>0. PICK b \in BOOLEAN : connections' = [connections EXCEPT ![c].silent = b]
    BY <1>4 DEF on_ping, FallsSilent
  <2>1. /\ c \in LoggedIn
        /\ UNCHANGED <<conn, mtx, req, reply, operator, asked, duty, sent>>
    BY <1>4 DEF on_ping, FallsSilent
  <2>2. /\ DOMAIN connections' = LoggedIn
        /\ \A d \in LoggedIn \ {c} : connections'[d] = connections[d]
        /\ connections'[c] = [connections[c] EXCEPT !.silent = b]
        /\ connections[c] \in Sessions
    BY <1>0, <2>0, <2>1 DEF TypeOK, LoggedIn
  <2>3. /\ connections'[c] \in Sessions
        /\ connections'[c].user = connections[c].user
        /\ connections'[c].bind_device = connections[c].bind_device
    BY <2>2 DEF Sessions
  <2>4. connections' \in [LoggedIn -> Sessions]
    BY <1>0, <2>0, <2>2, <2>3 DEF TypeOK
  <2>5. TypeOK'
    BY <1>0, <2>1, <2>2, <2>4 DEF TypeOK, LoggedIn
  <2>6. \A d \in Conns : d # c => Untouched(d)
    BY <2>1, <2>2 DEF Untouched, LoggedIn
  <2>7. RequestOK(c)' /\ SessionOK(c)'
    BY <1>0, <2>1, <2>2, <2>3 DEF LoggedIn, RequestOK, SessionOK
  <2> QED
    BY <2>5, <2>6, <2>7, StepOf
<1> QED
  BY <1>1, <1>2, <1>3, <1>4

(* check_timer closes and erases the silent sessions, or blocks.           *)
LEMMA TimerStep == Inv /\ check_timer => Inv'
<1> SUFFICES ASSUME Inv, check_timer
             PROVE  Inv'
  OBVIOUS
<1>0. TypeOK /\ \A c \in Conns : RequestOK(c) /\ SessionOK(c)
  BY DEF Inv
<1>1. UNCHANGED <<req, reply, operator, asked, duty, sent>>
  BY DEF check_timer
<1>2. CASE UNCHANGED <<conn, connections>> /\ mtx' = "check_timer"
  BY <1>0, <1>1, <1>2 DEF Inv, TypeOK, RequestOK, SessionOK, LoggedIn
<1>3. CASE /\ conn' = [c \in Conns |-> IF c \in Silent /\ conn[c] = "open"
                                       THEN "closed" ELSE conn[c]]
           /\ connections' = [c \in LoggedIn \ Silent |-> connections[c]]
           /\ UNCHANGED mtx
  <2>1. /\ DOMAIN connections' = LoggedIn \ Silent
        /\ \A d \in LoggedIn \ Silent : connections'[d] = connections[d]
    BY <1>3
  <2>2. TypeOK'
    BY <1>0, <1>1, <1>3, <2>1 DEF TypeOK, LoggedIn
  <2>3. \A c \in Conns : RequestOK(c)' /\ SessionOK(c)'
    <3> SUFFICES ASSUME NEW c \in Conns
                 PROVE  RequestOK(c)' /\ SessionOK(c)'
      OBVIOUS
    <3>1. /\ conn'[c] = IF c \in Silent /\ conn[c] = "open" THEN "closed" ELSE conn[c]
          /\ c \in DOMAIN connections' => c \in LoggedIn /\ connections'[c] = connections[c]
          /\ conn'[c] = "open" /\ c \in LoggedIn => c \in DOMAIN connections'
      BY <1>3, <2>1
    <3> QED
      BY <1>0, <1>1, <3>1 DEF RequestOK, SessionOK, LoggedIn
  <2> QED
    BY <2>2, <2>3 DEF Inv
<1> QED
  BY <1>2, <1>3 DEF check_timer

(* Shutting down closes transports and leaves sessions and requests alone. *)
LEMMA DestructorStep == Inv /\ Destructor => Inv'
<1> SUFFICES ASSUME Inv, Destructor
             PROVE  Inv'
  OBVIOUS
<1>0. TypeOK /\ \A c \in Conns : RequestOK(c) /\ SessionOK(c)
  BY DEF Inv
<1>1. UNCHANGED <<connections, req, reply, operator, asked, duty, sent>>
  BY DEF Destructor
<1>2. /\ conn' \in [Conns -> {"new", "open", "closed", "gone"}]
      /\ \A c \in Conns : conn'[c] = conn[c] \/ (conn[c] = "open" /\ conn'[c] = "closed")
  BY <1>0 DEF Destructor, TypeOK
<1>3. TypeOK'
  BY <1>0, <1>1, <1>2 DEF TypeOK, LoggedIn, Destructor
<1>4. \A c \in Conns : RequestOK(c)' /\ SessionOK(c)'
  BY <1>0, <1>1, <1>2 DEF RequestOK, SessionOK, LoggedIn
<1> QED
  BY <1>3, <1>4 DEF Inv

(* The requests.  First those steps that only move the request on.         *)
LEMMA RequestStep ==
    ASSUME Inv, NEW c \in Conns,
           \/ \E r \in Requests : ClientSends(c, r)
           \/ get_client_address(c) \/ find_user(c) \/ find_user_throws(c)
           \/ RequestThrows(c) \/ on_logout(c) \/ OtherRequest(c)
    PROVE  Inv'
<1>0. TypeOK /\ RequestOK(c) /\ SessionOK(c)
  BY DEF Inv
<1>1. UNCHANGED <<conn, connections, mtx, operator, asked, duty>>
  BY DEF ClientSends, get_client_address, find_user, find_user_throws,
         RequestThrows, on_logout, OtherRequest
<1>2. /\ DOMAIN req' = Conns
      /\ \A d \in Conns : d # c => req'[d] = req[d]
      /\ reply' \in [Conns -> {"none", "OK", "ERROR"}]
      /\ sent' \in 0 .. MaxRequests
  <2>1. /\ DOMAIN req = Conns /\ sent \in 0 .. MaxRequests
        /\ reply \in [Conns -> {"none", "OK", "ERROR"}]
    BY <1>0 DEF TypeOK
  <2> QED BY <2>1, SessionsAssumption
  DEF ClientSends, get_client_address, find_user, find_user_throws,
      RequestThrows, on_logout, OtherRequest, Answer, Goto
<1>3. TypeOK' /\ \A d \in Conns : d # c => Untouched(d)
  BY <1>0, <1>1, <1>2 DEF TypeOK, LoggedIn, Untouched
<1>4. CASE \E r \in Requests : ClientSends(c, r)
  <2>1. PICK r \in Requests : ClientSends(c, r)
    BY <1>4
  <2>2. req'[c] = r /\ r \in RequestStates /\ Consistent(r) /\ r.pc = "address"
    BY <1>0, <2>1, RequestsOK DEF ClientSends, TypeOK
  <2>3. conn[c] = "open" /\ req[c].pc = "idle"
    BY <2>1 DEF ClientSends
  <2>4. RequestOK(c)' /\ SessionOK(c)'
    BY <1>0, <1>1, <2>2, <2>3 DEF RequestOK, SessionOK, LoggedIn
  <2> QED
    BY <1>3, <2>4, StepOf
<1>5. CASE find_user_throws(c) \/ RequestThrows(c) \/ OtherRequest(c)
  <2>1. req'[c] = Idle /\ req[c].pc # "add_connection_user"
    BY <1>0, <1>5 DEF find_user_throws, RequestThrows, OtherRequest, Answer, TypeOK
  <2>2. RequestOK(c)' /\ SessionOK(c)'
    BY <1>0, <1>1, <2>1, IdleOK DEF RequestOK, SessionOK, LoggedIn
  <2> QED
    BY <1>3, <2>2, StepOf
<1>6. CASE get_client_address(c)
  <2>1. /\ req[c].pc = "address" /\ req[c] \in RequestStates
        /\ req'[c] = [req[c] EXCEPT !.pc = IF req[c].cmd = "Login" THEN "Login"
                                           ELSE "find_user"]
    BY <1>0, <1>6 DEF get_client_address, Goto, TypeOK, RequestOK
  <2>2. /\ req'[c] \in RequestStates
        /\ req'[c].pc = IF req[c].cmd = "Login" THEN "Login" ELSE "find_user"
        /\ req'[c].cmd = req[c].cmd /\ req'[c].user = req[c].user
        /\ req'[c].valid = req[c].valid /\ req'[c].device = req[c].device
        /\ req'[c].actor = req[c].actor
    BY <2>1 DEF RequestStates, Commands
  <2>3. RequestOK(c)' /\ SessionOK(c)'
    BY <1>0, <1>1, <2>1, <2>2 DEF RequestOK, Consistent, Commands, SessionOK, LoggedIn
  <2> QED
    BY <1>3, <2>3, StepOf
<1>7. CASE find_user(c)
  <2>1. /\ req[c].pc = "find_user" /\ req[c] \in RequestStates /\ c \in LoggedIn
        /\ req'[c] = [req[c] EXCEPT !.pc = req[c].cmd, !.actor = connections[c].user]
    BY <1>0, <1>7 DEF find_user, TypeOK, RequestOK
  <2>2. connections[c].user \in Users /\ req[c].cmd \in Commands
    BY <1>0, <2>1 DEF TypeOK, Sessions, RequestOK, Consistent, RequestStates
  <2>3. /\ req'[c] \in RequestStates
        /\ req'[c].pc = req[c].cmd /\ req'[c].actor = connections[c].user
        /\ req'[c].cmd = req[c].cmd /\ req'[c].user = req[c].user
        /\ req'[c].valid = req[c].valid /\ req'[c].device = req[c].device
    BY <2>1, <2>2 DEF RequestStates
  <2>4. RequestOK(c)' /\ SessionOK(c)'
    BY <1>0, <1>1, <2>1, <2>2, <2>3 DEF RequestOK, Consistent, Commands, SessionOK, LoggedIn
  <2> QED
    BY <1>3, <2>4, StepOf
<1>8. CASE on_logout(c)
  <2>1. /\ req[c].pc = "Logout" /\ req[c] \in RequestStates
        /\ req'[c] = [req[c] EXCEPT !.pc = "close_connection"]
    BY <1>0, <1>8 DEF on_logout, TypeOK, RequestOK
  <2>2. /\ req'[c] \in RequestStates
        /\ req'[c].pc = "close_connection"
        /\ req'[c].cmd = req[c].cmd /\ req'[c].user = req[c].user
        /\ req'[c].valid = req[c].valid /\ req'[c].device = req[c].device
        /\ req'[c].actor = req[c].actor
    BY <2>1 DEF RequestStates
  <2>3. RequestOK(c)' /\ SessionOK(c)'
    BY <1>0, <1>1, <2>1, <2>2 DEF RequestOK, Consistent, Commands, SessionOK, LoggedIn
  <2> QED
    BY <1>3, <2>3, StepOf
<1> QED
  BY <1>4, <1>5, <1>6, <1>7, <1>8

(* A password is accepted or not: on_login and on_shift.                   *)
LEMMA AuthenticationStep ==
    ASSUME Inv, NEW c \in Conns, on_login(c) \/ on_shift(c)
    PROVE  Inv'
<1>0. TypeOK /\ RequestOK(c) /\ SessionOK(c)
  BY DEF Inv
<1>1. UNCHANGED <<conn, connections, mtx, duty, sent>>
  BY DEF on_login, on_shift
<1>2. req[c] \in RequestStates /\ Consistent(req[c]) /\ req[c].pc \in {"Login", "Shift"}
  BY <1>0 DEF RequestOK, on_login, on_shift
<1>3. CASE req[c].valid
  <2>1. /\ req' = [req EXCEPT ![c].pc = "add_connection_user"] /\ UNCHANGED reply
        /\ operator' = [operator EXCEPT ![c] = req[c].user]
        /\ asked' = [asked EXCEPT ![c] = NoBinding]
    BY <1>3 DEF on_login, on_shift, Authenticated, Goto
  <2>2. req[c].user \in Users
    BY <1>2, <1>3 DEF Consistent, Commands
  <2>3. NoBinding \in [Directions -> Devices \cup {NoDevice}]
    BY DEF NoBinding
  <2>4. TypeOK' /\ \A d \in Conns : d # c => Untouched(d)
    BY <1>0, <1>1, <2>1, <2>2, <2>3 DEF TypeOK, LoggedIn, Untouched
  <2>5. /\ req'[c] = [req[c] EXCEPT !.pc = "add_connection_user"]
        /\ operator'[c] = req[c].user /\ asked'[c] = NoBinding
    BY <1>0, <2>1 DEF TypeOK
  <2>6. /\ req'[c] \in RequestStates /\ req'[c].pc = "add_connection_user"
        /\ req'[c].cmd = req[c].cmd /\ req'[c].user = req[c].user
        /\ req'[c].valid = req[c].valid /\ req'[c].device = req[c].device
        /\ req'[c].actor = req[c].actor
    BY <1>2, <2>5 DEF RequestStates
  <2>7. RequestOK(c)' /\ SessionOK(c)'
    BY <1>0, <1>1, <1>2, <2>2, <2>5, <2>6
    DEF RequestOK, Consistent, Commands, SessionOK, LoggedIn
  <2> QED
    BY <2>4, <2>7, StepOf
<1>4. CASE ~req[c].valid /\ on_login(c)
  <2>1. /\ req' = [req EXCEPT ![c].pc = "close_connection"]
        /\ reply' = [reply EXCEPT ![c] = "ERROR"]
        /\ UNCHANGED <<operator, asked>>
    BY <1>4 DEF on_login
  <2>2. TypeOK' /\ \A d \in Conns : d # c => Untouched(d)
    BY <1>0, <1>1, <2>1 DEF TypeOK, LoggedIn, Untouched
  <2>3. req'[c] = [req[c] EXCEPT !.pc = "close_connection"] /\ req[c].pc = "Login"
    BY <1>0, <1>4, <2>1 DEF TypeOK, on_login
  <2>4. /\ req'[c] \in RequestStates /\ req'[c].pc = "close_connection"
        /\ req'[c].cmd = req[c].cmd /\ req'[c].user = req[c].user
        /\ req'[c].valid = req[c].valid /\ req'[c].device = req[c].device
        /\ req'[c].actor = req[c].actor
    BY <1>2, <2>3 DEF RequestStates
  <2>5. RequestOK(c)' /\ SessionOK(c)'
    BY <1>0, <1>1, <1>2, <2>1, <2>3, <2>4
    DEF RequestOK, Consistent, Commands, SessionOK, LoggedIn
  <2> QED
    BY <2>2, <2>5, StepOf
<1>5. CASE ~req[c].valid /\ on_shift(c)
  <2>1. /\ req' = [req EXCEPT ![c] = Idle]
        /\ reply' = [reply EXCEPT ![c] = "ERROR"]
        /\ UNCHANGED <<operator, asked>>
    BY <1>5 DEF on_shift, Answer
  <2>2. TypeOK' /\ \A d \in Conns : d # c => Untouched(d)
    BY <1>0, <1>1, <2>1 DEF TypeOK, LoggedIn, Untouched
  <2>3. RequestOK(c)' /\ SessionOK(c)'
    BY <1>0, <1>1, <1>2, <2>1, IdleOK DEF TypeOK, RequestOK, SessionOK, LoggedIn
  <2> QED
    BY <2>2, <2>3, StepOf
<1> QED
  BY <1>3, <1>4, <1>5

(* The session is entered: from here on the new operator has it.           *)
LEMMA AddStep ==
    ASSUME Inv, NEW c \in Conns, add_connection_user(c)
    PROVE  Inv'
<1>0. TypeOK /\ RequestOK(c) /\ SessionOK(c)
  BY DEF Inv
<1>1. UNCHANGED <<conn, mtx, operator, asked, duty, sent>>
  BY DEF add_connection_user
<1>2. /\ req[c] \in RequestStates /\ Consistent(req[c])
      /\ req[c].pc = "add_connection_user" /\ req[c].user \in Users
  BY <1>0 DEF RequestOK, Consistent, add_connection_user
<1>3. Session(req[c].user) \in Sessions
  BY <1>2 DEF Session, Sessions, NoBinding
<1>4. /\ DOMAIN connections' = LoggedIn \cup {c}
      /\ connections' \in [LoggedIn \cup {c} -> Sessions]
      /\ connections'[c] = Session(req[c].user)
      /\ \A d \in LoggedIn : d # c => connections'[d] = connections[d]
  BY <1>0, <1>3 DEF add_connection_user, Set, TypeOK
<1>5. connections'[c].user = req[c].user /\ connections'[c].bind_device = NoBinding
  BY <1>4 DEF Session
<1>6. CASE req[c].cmd = "Login"
  <2>1. req' = [req EXCEPT ![c] = Idle] /\ reply' = [reply EXCEPT ![c] = "OK"]
    BY <1>6 DEF add_connection_user, Answer
  <2>2. TypeOK' /\ \A d \in Conns : d # c => Untouched(d)
    BY <1>0, <1>1, <1>4, <2>1 DEF TypeOK, LoggedIn, Untouched
  <2>3. RequestOK(c)' /\ SessionOK(c)'
    BY <1>0, <1>1, <1>2, <1>4, <1>5, <2>1, IdleOK DEF TypeOK, RequestOK, SessionOK, LoggedIn
  <2> QED
    BY <2>2, <2>3, StepOf
<1>7. CASE req[c].cmd # "Login"
  <2>1. req' = [req EXCEPT ![c].pc = "InsertShiftLog"] /\ UNCHANGED reply
    BY <1>7 DEF add_connection_user, Goto
  <2>2. TypeOK' /\ \A d \in Conns : d # c => Untouched(d)
    BY <1>0, <1>1, <1>4, <2>1 DEF TypeOK, LoggedIn, Untouched
  <2>3. req'[c] = [req[c] EXCEPT !.pc = "InsertShiftLog"]
    BY <1>0, <2>1 DEF TypeOK
  <2>4. /\ req'[c] \in RequestStates /\ req'[c].pc = "InsertShiftLog"
        /\ req'[c].cmd = req[c].cmd /\ req'[c].user = req[c].user
        /\ req'[c].valid = req[c].valid /\ req'[c].device = req[c].device
        /\ req'[c].actor = req[c].actor
    BY <1>2, <2>3 DEF RequestStates
  <2>5. RequestOK(c)' /\ SessionOK(c)'
    BY <1>0, <1>1, <1>2, <1>4, <1>5, <1>7, <2>4
    DEF RequestOK, Consistent, Commands, SessionOK, LoggedIn
  <2> QED
    BY <2>2, <2>5, StepOf
<1> QED
  BY <1>6, <1>7

(* The shift log is written for the operator the request acts for, and the *)
(* shift is answered.                                                      *)
LEMMA ShiftLogStep ==
    ASSUME Inv, NEW c \in Conns, InsertShiftLog(c) \/ ShiftResponse(c)
    PROVE  Inv'
<1>0. TypeOK /\ RequestOK(c) /\ SessionOK(c)
  BY DEF Inv
<1>1. UNCHANGED <<conn, connections, mtx, operator, asked, sent>>
  BY DEF InsertShiftLog, ShiftResponse
<1>2. CASE ShiftResponse(c)
  <2>1. /\ req' = [req EXCEPT ![c] = Idle] /\ reply' = [reply EXCEPT ![c] = "OK"]
        /\ duty' = duty /\ req[c].pc = "ShiftResponse"
    BY <1>2 DEF ShiftResponse, Answer
  <2>2. TypeOK' /\ \A d \in Conns : d # c => Untouched(d)
    BY <1>0, <1>1, <2>1 DEF TypeOK, LoggedIn, Untouched
  <2>3. RequestOK(c)' /\ SessionOK(c)'
    BY <1>0, <1>1, <2>1, IdleOK DEF TypeOK, RequestOK, SessionOK, LoggedIn
  <2> QED
    BY <2>2, <2>3, StepOf
<1>3. CASE InsertShiftLog(c)
  <2>1. /\ req[c] \in RequestStates /\ Consistent(req[c]) /\ req[c].pc = "InsertShiftLog"
        /\ req[c].actor \in Users /\ req[c].user \in Users
    BY <1>0, <1>3 DEF RequestOK, Consistent, InsertShiftLog
  <2>2. duty' \in Seq(Users \X Users) /\ Len(duty') \in Nat
    BY <1>0, <1>3, <2>1 DEF InsertShiftLog, TypeOK
  <2>3. /\ req' = [req EXCEPT ![c].pc = "ShiftResponse", ![c].row = Len(duty')]
        /\ UNCHANGED reply
    BY <1>3 DEF InsertShiftLog
  <2>4. TypeOK' /\ \A d \in Conns : d # c => Untouched(d)
    BY <1>0, <1>1, <2>2, <2>3 DEF TypeOK, LoggedIn, Untouched
  <2>5. req'[c] = [req[c] EXCEPT !.pc = "ShiftResponse", !.row = Len(duty')]
    BY <1>0, <2>3 DEF TypeOK
  <2>6. /\ req'[c] \in RequestStates /\ req'[c].pc = "ShiftResponse"
        /\ req'[c].cmd = req[c].cmd /\ req'[c].user = req[c].user
        /\ req'[c].valid = req[c].valid /\ req'[c].device = req[c].device
        /\ req'[c].actor = req[c].actor
    BY <2>1, <2>2, <2>5 DEF RequestStates
  <2>7. RequestOK(c)' /\ SessionOK(c)'
    BY <1>0, <1>1, <2>1, <2>6 DEF RequestOK, Consistent, Commands, SessionOK, LoggedIn
  <2> QED
    BY <2>4, <2>7, StepOf
<1> QED
  BY <1>2, <1>3

(* The binding is entered in the session and remembered, or neither.       *)
LEMMA BindStep ==
    ASSUME Inv, NEW c \in Conns, bind_device(c)
    PROVE  Inv'
<1>0. TypeOK /\ RequestOK(c) /\ SessionOK(c)
  BY DEF Inv
<1>1. /\ UNCHANGED <<conn, mtx, operator, duty, sent>>
      /\ req' = [req EXCEPT ![c] = Idle] /\ reply' = [reply EXCEPT ![c] = "OK"]
  BY DEF bind_device, Answer
<1>2. /\ req[c].pc = "BindDevice" /\ req[c].device \in Devices
      /\ req[c].direction \in Directions
  BY <1>0 DEF RequestOK, RequestStates, Consistent, Commands, bind_device
<1>3. CASE UNCHANGED <<connections, asked>>
  <2>1. TypeOK' /\ \A d \in Conns : d # c => Untouched(d)
    BY <1>0, <1>1, <1>3 DEF TypeOK, LoggedIn, Untouched
  <2>2. RequestOK(c)' /\ SessionOK(c)'
    BY <1>0, <1>1, <1>2, <1>3, IdleOK DEF TypeOK, RequestOK, SessionOK, LoggedIn
  <2> QED
    BY <2>1, <2>2, StepOf
<1>4. CASE /\ c \in LoggedIn
           /\ connections' = [connections EXCEPT
                                ![c].bind_device[req[c].direction] = req[c].device]
           /\ asked' = [asked EXCEPT ![c][req[c].direction] = req[c].device]
  <2> DEFINE b == [connections[c].bind_device EXCEPT ![req[c].direction] = req[c].device]
  <2>1. /\ connections[c] \in Sessions /\ connections[c].bind_device = asked[c]
        /\ connections[c].user = operator[c]
    BY <1>0, <1>2, <1>4 DEF TypeOK, SessionOK
  <2>2. b \in [Directions -> Devices \cup {NoDevice}]
    BY <1>2, <2>1 DEF Sessions
  <2>3. /\ DOMAIN connections' = LoggedIn
        /\ connections'[c] = [connections[c] EXCEPT !.bind_device = b]
        /\ \A d \in LoggedIn : d # c => connections'[d] = connections[d]
    BY <1>0, <1>4 DEF TypeOK
  <2>4. asked'[c] = b /\ \A d \in Conns : d # c => asked'[d] = asked[d]
    BY <1>0, <1>4, <2>1 DEF TypeOK
  <2>5. asked' \in [Conns -> [Directions -> Devices \cup {NoDevice}]]
    BY <1>0, <1>4, <2>2, <2>4 DEF TypeOK
  <2> HIDE DEF b
  <2>6. /\ connections'[c] \in Sessions /\ connections'[c].bind_device = b
        /\ connections'[c].user = connections[c].user
    BY <2>1, <2>2, <2>3 DEF Sessions
  <2>7. connections' \in [LoggedIn -> Sessions]
    BY <1>0, <1>4, <2>3, <2>6 DEF TypeOK
  <2>8. TypeOK' /\ \A d \in Conns : d # c => Untouched(d)
    BY <1>0, <1>1, <2>3, <2>4, <2>5, <2>7 DEF TypeOK, LoggedIn, Untouched
  <2>9. RequestOK(c)' /\ SessionOK(c)'
    BY <1>0, <1>1, <1>2, <1>4, <2>1, <2>3, <2>4, <2>6, IdleOK
    DEF TypeOK, RequestOK, SessionOK, LoggedIn
  <2> QED
    BY <2>8, <2>9, StepOf
<1> QED
  BY <1>3, <1>4 DEF bind_device

(* A session is erased with its connection, by the handler of the close    *)
(* event.                                                                  *)
LEMMA CloseStep ==
    ASSUME Inv, NEW c \in Conns, close_connection(c) \/ erase_connection(c)
    PROVE  Inv'
<1>0. TypeOK /\ RequestOK(c) /\ SessionOK(c)
  BY DEF Inv
<1>1. UNCHANGED <<mtx, reply, operator, asked, duty, sent>>
  BY DEF close_connection, erase_connection, Goto
<1>2. req[c] \in RequestStates
  BY <1>0 DEF RequestOK
<1>3. CASE close_connection(c)
  <2>1. /\ req[c].pc = "close_connection" /\ UNCHANGED connections
        /\ conn' = [conn EXCEPT ![c] = "closed"]
        /\ req' = [req EXCEPT ![c].pc = "erase_connection"]
    BY <1>3 DEF close_connection, Goto
  <2>2. TypeOK' /\ \A d \in Conns : d # c => Untouched(d)
    BY <1>0, <1>1, <2>1 DEF TypeOK, LoggedIn, Untouched
  <2>3. req'[c] = [req[c] EXCEPT !.pc = "erase_connection"] /\ conn'[c] = "closed"
    BY <1>0, <2>1 DEF TypeOK
  <2>4. /\ req'[c] \in RequestStates /\ req'[c].pc = "erase_connection"
        /\ req'[c].cmd = req[c].cmd /\ req'[c].user = req[c].user
        /\ req'[c].valid = req[c].valid /\ req'[c].device = req[c].device
        /\ req'[c].actor = req[c].actor
    BY <1>2, <2>3 DEF RequestStates
  <2>5. RequestOK(c)' /\ SessionOK(c)'
    BY <1>0, <1>1, <2>1, <2>3, <2>4
    DEF RequestOK, Consistent, Commands, SessionOK, LoggedIn
  <2> QED
    BY <2>2, <2>5, StepOf
<1>4. CASE erase_connection(c)
  <2>1. /\ UNCHANGED conn
        /\ req' = [req EXCEPT ![c] = Idle]
        /\ DOMAIN connections' = LoggedIn \ {c}
        /\ connections' = [d \in LoggedIn \ {c} |-> connections[d]]
        /\ \A d \in LoggedIn \ {c} : connections'[d] = connections[d]
    BY <1>4 DEF erase_connection, Erase
  <2>2. TypeOK' /\ \A d \in Conns : d # c => Untouched(d)
    BY <1>0, <1>1, <2>1 DEF TypeOK, LoggedIn, Untouched
  <2>3. RequestOK(c)' /\ SessionOK(c)'
    BY <1>0, <1>1, <2>1, IdleOK DEF TypeOK, RequestOK, SessionOK, LoggedIn
  <2> QED
    BY <2>2, <2>3, StepOf
<1> QED
  BY <1>3, <1>4

(* One lemma for each group of actions.                                    *)
LEMMA NextOK == Inv /\ [Next]_vars => Inv'
<1> SUFFICES ASSUME Inv, [Next]_vars
             PROVE  Inv'
  OBVIOUS
<1>1. CASE UNCHANGED vars
  BY <1>1 DEF Inv, vars, TypeOK, RequestOK, SessionOK, LoggedIn
<1> QED
  BY <1>1, TransportStep, TimerStep, DestructorStep, RequestStep, AuthenticationStep,
     AddStep, ShiftLogStep, BindStep, CloseStep DEF Next, Handler

(* In every reachable state every variable holds a value of its type: a    *)
(* session has a user, and the log of shifts names two users.              *)
THEOREM TypeCorrect == Spec => []TypeOK
<1>1. Inv => TypeOK
  BY DEF Inv
<1> QED
  BY <1>1, InitOK, NextOK, PTL DEF Spec

(* However login, shift, bind, close, failure and time-out of any number   *)
(* of terminals interleave, connections_ holds no session of a connection  *)
(* that on_close or on_fail is done with.                                  *)
THEOREM NoGhosts == Spec => []NoGhostSession
<1>1. Inv => NoGhostSession
  BY DEF Inv, TypeOK, SessionOK, NoGhostSession
<1> QED
  BY <1>1, InitOK, NextOK, PTL DEF Spec

(* A request is carried out in the name of the operator whose password was *)
(* last accepted on the connection.                                        *)
THEOREM RightOperator == Spec => []ActsAsLastAuthenticated
<1>1. Inv => ActsAsLastAuthenticated
  BY DEF Inv, SessionOK, ActsAsLastAuthenticated
<1> QED
  BY <1>1, InitOK, NextOK, PTL DEF Spec

(* What notify_pass_vehicle_to_client may read of a session that is not    *)
(* being changed is what its operator has bound.                           *)
LEMMA InvTells == Inv => ToldIfBound
<1> SUFFICES ASSUME Inv, NEW device \in Devices,
                    NEW told \in notify_pass_vehicle_to_client(device)
             PROVE  LET steady == {c \in LoggedIn : req[c].pc \notin {"BindDevice", "add_connection_user"}}
                        wanted == {c \in Conns : \E d \in Directions : asked[c][d] = device} IN
                    /\ told \cap steady \subseteq wanted
                    /\ Dead = {} => steady \cap wanted \subseteq told
  BY DEF ToldIfBound
<1>1. PICK read \in SUBSET Binding(device) :
        LET v == (Bound(device) \ Binding(device)) \cup read IN
        told \in IF v \cap Dead = {} THEN {v} ELSE SUBSET (v \ Dead)
  BY DEF notify_pass_vehicle_to_client
<1>2. /\ told \subseteq Bound(device) \cup Binding(device)
      /\ Dead = {} => Bound(device) \ Binding(device) \subseteq told
  BY <1>1
<1>3. ASSUME NEW c \in LoggedIn, req[c].pc \notin {"BindDevice", "add_connection_user"}
      PROVE  /\ c \in Conns /\ c \notin Binding(device)
             /\ c \in Bound(device) <=> \E d \in Directions : asked[c][d] = device
  BY <1>3 DEF Inv, TypeOK, SessionOK, Binding, Bound
<1> QED
  BY <1>2, <1>3

(* No car is announced for an operator who has gone off duty, and no       *)
(* terminal is passed over, unless one that is bound has just closed.      *)
THEOREM BoundAreTold == Spec => []ToldIfBound
BY InvTells, InitOK, NextOK, PTL DEF Spec

(* The rows of the log: a shift that waits for its answer has a row, with  *)
(* its two operators, that no other request has.                           *)
RowOf(c) ==
    /\ req[c].row \in 0 .. Len(duty)
    /\ req[c].pc = "ShiftResponse" =>
         req[c].row # 0 /\ duty[req[c].row] = <<req[c].actor, req[c].user>>
RowsOK ==
    /\ \A c \in Conns : RowOf(c)
    /\ \A c, d \in Conns : c # d /\ req[c].row = req[d].row => req[c].row = 0

(* What a step that writes no row does to a request.                       *)
RowKept(c) ==
    \/ req'[c].row = 0 /\ req'[c].pc # "ShiftResponse"
    \/ /\ req'[c].row = req[c].row
       /\ req'[c].pc = "ShiftResponse" => req'[c] = req[c]

LEMMA RowsKept ==
    ASSUME Inv, [Next]_vars, \A c \in Conns : ~InsertShiftLog(c)
    PROVE  duty' = duty /\ \A c \in Conns : RowKept(c)
<1>0. TypeOK /\ \A c \in Conns : RequestOK(c)
  BY DEF Inv
<1>1. CASE UNCHANGED <<req, duty>>
  BY <1>1 DEF RowKept
<1>2. CASE \E c \in Conns : Handler(c)
  <2>1. PICK c \in Conns : Handler(c)
    BY <1>2
  <2>2. duty' = duty /\ \A d \in Conns : d # c => req'[d] = req[d]
    BY <1>0, <2>1
    DEF Handler, TypeOK, get_client_address, find_user, find_user_throws, RequestThrows,
        on_login, on_logout, on_shift, add_connection_user, ShiftResponse, bind_device,
        OtherRequest, close_connection, erase_connection, Answer, Goto
  <2>3. req[c] \in RequestStates /\ Consistent(req[c])
    BY <1>0 DEF RequestOK
  <2>4. \/ req'[c] = Idle
        \/ req'[c].row = req[c].row /\ req'[c].pc # "ShiftResponse"
    <3>2. CASE find_user_throws(c) \/ RequestThrows(c) \/ ShiftResponse(c) \/ bind_device(c)
               \/ OtherRequest(c) \/ erase_connection(c)
      BY <1>0, <3>2 DEF find_user_throws, RequestThrows, ShiftResponse, bind_device,
                        OtherRequest, erase_connection, Answer, TypeOK
    <3>3. CASE find_user(c)
      <4>1. req[c].cmd \in Commands
        BY <2>3, <3>3 DEF find_user, Consistent, RequestStates
      <4>2. req'[c] = [req[c] EXCEPT !.pc = req[c].cmd, !.actor = connections[c].user]
        BY <1>0, <3>3 DEF find_user, TypeOK
      <4> QED
        BY <2>3, <4>1, <4>2 DEF RequestStates, Commands
    <3>4. CASE get_client_address(c) \/ on_login(c) \/ on_logout(c) \/ on_shift(c)
               \/ add_connection_user(c) \/ close_connection(c)
      <4>1. CASE get_client_address(c)
        <5>1. req'[c] = [req[c] EXCEPT !.pc = IF req[c].cmd = "Login" THEN "Login" ELSE "find_user"]
          BY <1>0, <4>1 DEF get_client_address, Goto, TypeOK
        <5> QED
          BY <2>3, <5>1 DEF RequestStates
      <4>2. CASE on_login(c) \/ on_shift(c)
        <5>1. \/ req'[c] = Idle
              \/ req'[c] = [req[c] EXCEPT !.pc = "add_connection_user"]
              \/ req'[c] = [req[c] EXCEPT !.pc = "close_connection"]
          BY <1>0, <4>2 DEF on_login, on_shift, Goto, Answer, TypeOK
        <5> QED
          BY <2>3, <5>1 DEF RequestStates
      <4>3. CASE on_logout(c) \/ add_connection_user(c) \/ close_connection(c)
        <5>1. \/ req'[c] = Idle
              \/ req'[c] = [req[c] EXCEPT !.pc = "InsertShiftLog"]
              \/ req'[c] = [req[c] EXCEPT !.pc = "close_connection"]
              \/ req'[c] = [req[c] EXCEPT !.pc = "erase_connection"]
          BY <1>0, <4>3 DEF on_logout, add_connection_user, close_connection, Goto, Answer, TypeOK
        <5> QED
          BY <2>3, <5>1 DEF RequestStates
      <4> QED
        BY <3>4, <4>1, <4>2, <4>3
    <3> QED
      BY <2>1, <3>2, <3>3, <3>4 DEF Handler
  <2>5. RowKept(c)
    <3>1. Idle.row = 0 /\ Idle.pc = "idle"
      BY DEF Idle, Request
    <3> QED
      BY <2>4, <3>1 DEF RowKept
  <2> QED
    BY <2>2, <2>5 DEF RowKept
<1>3. CASE \E c \in Conns, r \in Requests : ClientSends(c, r)
  <2>1. PICK c \in Conns, r \in Requests : ClientSends(c, r)
    BY <1>3
  <2>2. r.row = 0 /\ r.pc = "address"
    BY DEF Requests, Request
  <2>3. duty' = duty /\ req'[c] = r /\ \A d \in Conns : d # c => req'[d] = req[d]
    BY <1>0, <2>1 DEF ClientSends, TypeOK
  <2> QED
    BY <2>2, <2>3 DEF RowKept
<1> QED
  BY <1>1, <1>2, <1>3
  DEF Next, vars, on_open, PeerCloses, on_close, on_fail, on_ping, FallsSilent, check_timer,
      Destructor

(* A row is inserted behind the others and belongs to one request.         *)
LEMMA RowsStep == Inv /\ RowsOK /\ [Next]_vars => RowsOK'
<1> SUFFICES ASSUME Inv, RowsOK, [Next]_vars
             PROVE  RowsOK'
  OBVIOUS
<1>0. TypeOK /\ \A c \in Conns : RequestOK(c) /\ req[c].row \in Nat
  BY DEF Inv, RequestOK, RequestStates
<1>1. CASE \A c \in Conns : ~InsertShiftLog(c)
  BY <1>0, <1>1, RowsKept DEF RowsOK, RowOf, RowKept
<1>2. CASE \E c \in Conns : InsertShiftLog(c)
  <2>1. PICK c \in Conns : InsertShiftLog(c)
    BY <1>2
  <2>2. req[c] \in RequestStates /\ req[c].actor \in Users /\ req[c].user \in Users
    BY <1>0, <2>1 DEF RequestOK, Consistent, InsertShiftLog
  <2>3. /\ Len(duty') = Len(duty) + 1 /\ Len(duty) \in Nat
        /\ duty'[Len(duty')] = <<req[c].actor, req[c].user>>
        /\ \A n \in 1 .. Len(duty) : duty'[n] = duty[n]
    BY <1>0, <2>1, <2>2 DEF InsertShiftLog, TypeOK
  <2>4. /\ req'[c] = [req[c] EXCEPT !.pc = "ShiftResponse", !.row = Len(duty')]
        /\ \A d \in Conns : d # c => req'[d] = req[d]
    BY <1>0, <2>1 DEF InsertShiftLog, TypeOK
  <2>5. /\ req'[c].row = Len(duty) + 1 /\ req'[c].actor = req[c].actor
        /\ req'[c].user = req[c].user
    BY <2>2, <2>3, <2>4 DEF RequestStates
  <2>6. RowOf(c)'
    BY <2>3, <2>5 DEF RowOf
  <2>7. \A d \in Conns : d # c => RowOf(d)'
    BY <1>0, <2>3, <2>4 DEF RowsOK, RowOf
  <2>8. \A d \in Conns : d # c => req'[d].row # req'[c].row
    BY <1>0, <2>3, <2>4, <2>5 DEF RowsOK, RowOf
  <2> QED
    BY <2>4, <2>6, <2>7, <2>8 DEF RowsOK
<1> QED
  BY <1>1, <1>2

LEMMA RowsInit == Init => RowsOK
BY DEF Init, RowsOK, RowOf, Idle, Request

(* The only step that answers a shift with OK is ShiftResponse.            *)
LEMMA ShiftAnswer ==
    ASSUME Inv, RowsOK, [Next]_vars, NEW c \in Conns,
           req[c].cmd = "Shift", req'[c].pc = "idle", reply'[c] = "OK"
    PROVE  /\ req[c].row \in DOMAIN duty' /\ duty'[req[c].row] = <<req[c].actor, req[c].user>>
           /\ \A d \in Conns \ {c} : req'[d].row # req[c].row
           /\ \/ conn'[c] # "open"
              \/ c \in DOMAIN connections' /\ connections'[c].user = req[c].user
<1>0. TypeOK /\ RequestOK(c) /\ SessionOK(c)
  BY DEF Inv
<1>1. req'[c] # req[c]
  BY <1>0 DEF RequestOK, Consistent
<1>2. PICK d \in Conns : Handler(d) \/ \E r \in Requests : ClientSends(d, r)
  BY <1>1 DEF Next, vars, on_open, PeerCloses, on_close, on_fail, on_ping, FallsSilent,
              check_timer, Destructor
<1>3. d = c
  BY <1>0, <1>1, <1>2
  DEF Handler, ClientSends, TypeOK, get_client_address, find_user, find_user_throws,
      RequestThrows, on_login, on_logout, on_shift, add_connection_user, InsertShiftLog,
      ShiftResponse, bind_device, OtherRequest, close_connection, erase_connection, Answer, Goto
<1>4. req[c].pc \notin {"idle", "Login", "Logout", "BindDevice", "Other", "close_connection",
                        "erase_connection"}
  BY <1>0 DEF RequestOK, Consistent, Commands
<1>5. ~\E r \in Requests : ClientSends(c, r)
  BY <1>4 DEF ClientSends
<1>6. ~(find_user_throws(c) \/ RequestThrows(c))
  BY <1>0 DEF find_user_throws, RequestThrows, Answer, TypeOK
<1>7. ~(get_client_address(c) \/ find_user(c))
  BY <1>0 DEF get_client_address, find_user, Goto, TypeOK, RequestOK, RequestStates
<1>8. ~(on_shift(c) \/ add_connection_user(c) \/ InsertShiftLog(c))
  BY <1>0 DEF on_shift, add_connection_user, InsertShiftLog, Goto, Answer, TypeOK, RequestOK, RequestStates
<1>9. ShiftResponse(c)
  BY <1>2, <1>3, <1>4, <1>5, <1>6, <1>7, <1>8
  DEF Handler, on_login, on_logout, bind_device, OtherRequest, close_connection,
      erase_connection
<1>10. /\ req[c].row \in DOMAIN duty' /\ duty'[req[c].row] = <<req[c].actor, req[c].user>>
       /\ \A e \in Conns \ {c} : req'[e].row # req[c].row
  BY <1>0, <1>9 DEF ShiftResponse, Answer, RowsOK, RowOf, TypeOK
<1> QED
  BY <1>0, <1>9, <1>10 DEF ShiftResponse, SessionOK, LoggedIn

(* A shift answered with OK has a row of park_duty_info to itself, however *)
(* the shifts of any number of terminals interleave, and the session of a  *)
(* connection that is still open is the next operator's.                   *)
THEOREM ShiftIsLogged == Spec => ShiftOkIsOnDuty
<1>1. Inv /\ RowsOK /\ [Next]_vars =>
        [\A c \in Conns :
           (req[c].cmd = "Shift" /\ req'[c].pc = "idle" /\ reply'[c] = "OK") =>
             /\ req[c].row \in DOMAIN duty' /\ duty'[req[c].row] = <<req[c].actor, req[c].user>>
             /\ \A d \in Conns \ {c} : req'[d].row # req[c].row
             /\ \/ conn'[c] # "open"
                \/ c \in DOMAIN connections' /\ connections'[c].user = req[c].user]_vars
  BY ShiftAnswer
<1> QED
  BY <1>1, InitOK, NextOK, RowsInit, RowsStep, PTL DEF Spec, ShiftOkIsOnDuty

=============================================================================
