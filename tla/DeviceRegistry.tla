--------------------------- MODULE DeviceRegistry ---------------------------
(***************************************************************************)
(* The device TCP server (dts): the list dts_clients_ of connected gate    *)
(* controllers, the accept callback that adds to it, dts_operate that      *)
(* finds a client and talks to it, and the three-second heartbeat.         *)
(*                                                                         *)
(* A connection is identified by the order in which it was accepted.  The  *)
(* list is only ever appended to (push_back of the newest connection),     *)
(* filtered, or replaced by an older copy of itself, so it is always       *)
(* sorted by that number: the std::list is represented by the set of its   *)
(* elements.  A section under dts_clients_mtx_ is one step.  The exchange  *)
(* of a request and its answer is under the mutex of the client, not under *)
(* dts_clients_mtx_, so it is a step of its own on either side of which    *)
(* the other threads run.                                                  *)
(***************************************************************************)
EXTENDS Integers, FiniteSets

CONSTANTS IPs,        \* addresses of the gate controllers
          Threads,    \* threads that operate devices (terminals, HTTP, new-client threads)
          HeartBeat,  \* the io_service thread that runs dts_heartbeat
          Nobody,     \* "no thread"
          NoIP,       \* address of a connection that was not accepted yet
          MaxConns    \* bound: connections accepted in one behaviour

ASSUME ConstantsAssumption ==
    /\ MaxConns \in Nat \ {0}
    /\ HeartBeat \notin Threads
    /\ Nobody \notin Threads \cup {HeartBeat}
    /\ NoIP \notin IPs

Conns == 1 .. MaxConns
NoConn == 0

VARIABLES
    accepted,     \* number of connections accepted so far
    peer,         \* peer[c]: remote address of connection c
    link,         \* link[c]: "open", or "reset" once remote_endpoint() throws
    broken,       \* connections whose stream has failed (or lost its framing) for good
    dts_clients,  \* dts_clients_
    owner,        \* owner[c]: the thread holding c's own mutex
    op,           \* op[t]: progress of thread t in dts_operate
    hb            \* dts_heartbeat: its private copy, what is left to visit, what failed

vars == <<accepted, peer, link, broken, dts_clients, owner, op, hb>>

Results == {"none", "ok", "address_error", "gateway_device_not_connected",
            "operate_gateway_error"}
IdleOp(result) == [pc |-> "idle", client |-> NoConn, result |-> result]
IdleHeartbeat == [pc |-> "idle", clients |-> {}, todo |-> {}, failed |-> {}]

Init ==
    /\ accepted = 0
    /\ peer = [c \in Conns |-> NoIP]
    /\ link = [c \in Conns |-> "open"]
    /\ broken = {}
    /\ dts_clients = {}
    /\ owner = [c \in Conns |-> Nobody]
    /\ op = [t \in Threads |-> IdleOp("none")]
    /\ hb = IdleHeartbeat

-----------------------------------------------------------------------------
(* The network: a device resets its connection at any time.                *)
DeviceResets(c) ==
    /\ c <= accepted
    /\ link[c] = "open"
    /\ link' = [link EXCEPT ![c] = "reset"]
    /\ UNCHANGED <<accepted, peer, broken, dts_clients, owner, op, hb>>

-----------------------------------------------------------------------------
(* Slip: an old connection of the same device is kept. *)
OnlyDead(c, ip) == link[c] = "reset"

(* The predicate of new_client_notify's remove_if: the entry has the new   *)
(* client's address, or no address any more.                               *)
SameIpOrDead(c, ip) == link[c] = "reset" \/ peer[c] = ip

(* new_client_notify: the stale entries go, the new connection comes last. *)
(* The led_show_new_client thread it starts is one of Threads.             *)
new_client_notify(ip) ==
    LET client == accepted + 1 IN
    /\ client \in Conns
    /\ accepted' = client
    /\ peer' = [peer EXCEPT ![client] = ip]
    /\ dts_clients' = {c \in dts_clients : ~SameIpOrDead(c, ip)} \cup {client}
    /\ UNCHANGED <<link, broken, owner, op, hb>>

(* The new connection dies while it is being added, so client_address(client) *)
(* throws: before remove_if starts, or inside it at a live entry t, when the  *)
(* entries before t are already filtered.  server_run logs the exception and  *)
(* drops the connection.                                                      *)
new_client_notify_throws(ip) ==
    LET client == accepted + 1 IN
    /\ client \in Conns
    /\ accepted' = client
    /\ peer' = [peer EXCEPT ![client] = ip]
    /\ link' = [link EXCEPT ![client] = "reset"]
    /\ \/ UNCHANGED dts_clients
       \/ \E t \in dts_clients :
            /\ link[t] = "open"
            /\ dts_clients' = {c \in dts_clients : c < t => ~SameIpOrDead(c, ip)}
    /\ UNCHANGED <<broken, owner, op, hb>>

-----------------------------------------------------------------------------
(* Slip: the client's mutex is not taken. *)
NoLockClient(c, t) == owner' = [owner EXCEPT ![c] = t]

(* client_send_recv: under the client's mutex, write the request and parse *)
(* one answer.  It can only succeed on a live connection with a sound      *)
(* stream; it can fail on any (timeout, reset, malformed answer).  A       *)
(* timeout or a framing error spoils the stream for good; a wrong checksum *)
(* is detected after the whole answer was read and leaves it usable.       *)
LockClient(c, t) ==
    /\ owner[c] = Nobody
    /\ owner' = [owner EXCEPT ![c] = t]

UnlockClient(c) == owner' = [owner EXCEPT ![c] = Nobody]

ExchangeSucceeds(c) ==
    /\ link[c] = "open"
    /\ c \notin broken
    /\ UNCHANGED broken
    /\ UnlockClient(c)

(* Slip: an exception leaves the mutex locked. *)
ExchangeFailsKeepingLock(c) ==
    /\ broken' \in {broken, broken \cup {c}}
    /\ UNCHANGED owner

ExchangeFails(c) ==
    /\ broken' \in {broken, broken \cup {c}}
    /\ UnlockClient(c)

-----------------------------------------------------------------------------
(* dts_operate: find the client of the device, talk to it, and remove it   *)
(* from the list if that failed.                                           *)

(* clients_find_client walks the list from the front; client_address of a  *)
(* reset entry throws, and find_dts_client is outside dts_operate's try.   *)
Matches(ip) == {c \in dts_clients : link[c] = "open" /\ peer[c] = ip}
DeadInFrontOf(ip) ==
    {c \in dts_clients : link[c] = "reset" /\ \A m \in Matches(ip) : c < m}

FindThrows(t, ip) ==
    /\ op[t].pc = "idle"
    /\ DeadInFrontOf(ip) # {}
    /\ op' = [op EXCEPT ![t] = IdleOp("address_error")]
    /\ UNCHANGED <<accepted, peer, link, broken, dts_clients, owner, hb>>

(* Slip: the client found is not checked to be valid. *)
FindUnchecked(t, ip) ==
    /\ op[t].pc = "idle"
    /\ DeadInFrontOf(ip) = {} /\ Matches(ip) = {}
    /\ op' = [op EXCEPT ![t] = [pc |-> "lock", client |-> NoConn, result |-> "none"]]
    /\ UNCHANGED <<accepted, peer, link, broken, dts_clients, owner, hb>>

FindNotConnected(t, ip) ==
    /\ op[t].pc = "idle"
    /\ DeadInFrontOf(ip) = {} /\ Matches(ip) = {}
    /\ op' = [op EXCEPT ![t] = IdleOp("gateway_device_not_connected")]
    /\ UNCHANGED <<accepted, peer, link, broken, dts_clients, owner, hb>>

FindClient(t, ip) ==
    /\ op[t].pc = "idle"
    /\ DeadInFrontOf(ip) = {}
    /\ \E m \in Matches(ip) :
         /\ \A c \in Matches(ip) : m <= c
         /\ op' = [op EXCEPT ![t] = [pc |-> "lock", client |-> m, result |-> "none"]]
    /\ UNCHANGED <<accepted, peer, link, broken, dts_clients, owner, hb>>

OperateLocks(t) ==
    /\ op[t].pc = "lock"
    /\ LockClient(op[t].client, t)
    /\ op' = [op EXCEPT ![t].pc = "exchange"]
    /\ UNCHANGED <<accepted, peer, link, broken, dts_clients, hb>>

OperateSucceeds(t) ==
    /\ op[t].pc = "exchange"
    /\ ExchangeSucceeds(op[t].client)
    /\ op' = [op EXCEPT ![t] = IdleOp("ok")]
    /\ UNCHANGED <<accepted, peer, link, dts_clients, hb>>

OperateFails(t) ==
    /\ op[t].pc = "exchange"
    /\ ExchangeFails(op[t].client)
    /\ op' = [op EXCEPT ![t].pc = "remove"]
    /\ UNCHANGED <<accepted, peer, link, dts_clients, hb>>

remove_dts_client(t) ==
    /\ op[t].pc = "remove"
    /\ dts_clients' = dts_clients \ {op[t].client}
    /\ op' = [op EXCEPT ![t] = IdleOp("operate_gateway_error")]
    /\ UNCHANGED <<accepted, peer, link, broken, owner, hb>>

-----------------------------------------------------------------------------
(* dts_heartbeat: copy the list under the lock, query every client of the  *)
(* copy without it, store the copy as the list under the lock.             *)
HeartbeatCopies ==
    /\ hb.pc = "idle"
    /\ hb' = [pc |-> "visit", clients |-> dts_clients, todo |-> dts_clients,
              failed |-> {}]
    /\ UNCHANGED <<accepted, peer, link, broken, dts_clients, owner, op>>

Visited == CHOOSE c \in hb.todo : \A d \in hb.todo : c <= d

(* Slip: the heartbeat does not take the client's mutex. *)
HeartbeatUnlocked ==
    /\ hb.pc = "visit" /\ hb.todo # {}
    /\ hb' = [hb EXCEPT !.pc = "exchange"]
    /\ UNCHANGED <<accepted, peer, link, broken, dts_clients, owner, op>>

HeartbeatLocks ==
    /\ hb.pc = "visit" /\ hb.todo # {}
    /\ LockClient(Visited, HeartBeat)
    /\ hb' = [hb EXCEPT !.pc = "exchange"]
    /\ UNCHANGED <<accepted, peer, link, broken, dts_clients, op>>

HeartbeatSucceeds ==
    /\ hb.pc = "exchange"
    /\ ExchangeSucceeds(Visited)
    /\ hb' = [hb EXCEPT !.pc = "visit", !.todo = @ \ {Visited}]
    /\ UNCHANGED <<accepted, peer, link, dts_clients, op>>

(* Slip: the failed client stays in the copy. *)
HeartbeatFailsKeeps ==
    /\ hb.pc = "exchange"
    /\ ExchangeFails(Visited)
    /\ hb' = [hb EXCEPT !.pc = "visit", !.todo = @ \ {Visited},
                        !.failed = @ \cup {Visited}]
    /\ UNCHANGED <<accepted, peer, link, dts_clients, op>>

(* The failed client is removed from the private copy. *)
HeartbeatFails ==
    /\ hb.pc = "exchange"
    /\ ExchangeFails(Visited)
    /\ hb' = [hb EXCEPT !.pc = "visit", !.todo = @ \ {Visited},
                        !.clients = @ \ {Visited}, !.failed = @ \cup {Visited}]
    /\ UNCHANGED <<accepted, peer, link, dts_clients, op>>

(* Whatever happened to the list since the copy was made is overwritten.   *)
(* The timer is armed again whatever the outcome.                          *)
HeartbeatStores ==
    /\ hb.pc = "visit" /\ hb.todo = {}
    /\ dts_clients' = hb.clients
    /\ hb' = IdleHeartbeat
    /\ UNCHANGED <<accepted, peer, link, broken, owner, op>>

-----------------------------------------------------------------------------
Next ==
    \/ \E c \in Conns : DeviceResets(c)
    \/ \E ip \in IPs : new_client_notify(ip) \/ new_client_notify_throws(ip)
    \/ \E t \in Threads, ip \in IPs :
         FindThrows(t, ip) \/ FindNotConnected(t, ip) \/ FindClient(t, ip)
    \/ \E t \in Threads : \/ OperateLocks(t) \/ OperateSucceeds(t)
                          \/ OperateFails(t) \/ remove_dts_client(t)
    \/ HeartbeatCopies \/ HeartbeatLocks \/ HeartbeatSucceeds
    \/ HeartbeatFails \/ HeartbeatStores

Spec == Init /\ [][Next]_vars

(***************************************************************************)
(* The heartbeat timer is re-armed by every run and its thread serves      *)
(* nothing that blocks for ever; an exchange ends within its three-second  *)
(* deadline.  Nobody keeps a client's mutex, so a thread that asks for it  *)
(* again and again is eventually served (strong fairness of the lock).     *)
(***************************************************************************)
Fairness ==
    /\ WF_vars(HeartbeatCopies) /\ SF_vars(HeartbeatLocks)
    /\ WF_vars(HeartbeatSucceeds \/ HeartbeatFails) /\ WF_vars(HeartbeatStores)
    /\ \A t \in Threads : /\ SF_vars(OperateLocks(t))
                          /\ WF_vars(OperateSucceeds(t) \/ OperateFails(t))
                          /\ WF_vars(remove_dts_client(t))

FairSpec == Spec /\ Fairness

-----------------------------------------------------------------------------
OpStates ==
    [pc : {"idle"}, client : {NoConn}, result : Results]
      \cup [pc : {"lock", "exchange", "remove"}, client : Conns, result : {"none"}]

(* Every variable holds a value of its type; in particular a thread past   *)
(* the lookup always has a real client, never invalid_client_object.       *)
TypeOK ==
    /\ accepted \in 0 .. MaxConns
    /\ peer \in [Conns -> IPs \cup {NoIP}]
    /\ link \in [Conns -> {"open", "reset"}]
    /\ broken \subseteq Conns
    /\ dts_clients \subseteq Conns
    /\ owner \in [Conns -> Threads \cup {HeartBeat, Nobody}]
    /\ op \in [Threads -> OpStates]
    /\ hb \in [pc : {"idle", "visit", "exchange"}, clients : SUBSET Conns,
               todo : SUBSET Conns, failed : SUBSET Conns]

OnePerIP(clients) == \A c, d \in clients : peer[c] = peer[d] => c = d

(* The list never holds two connections of one device address, whatever    *)
(* mixture of accepts, removals and heartbeat write-backs produced it: a   *)
(* gate command can never go to a stale twin of the connection found.      *)
OneClientPerIP == OnePerIP(dts_clients)

Exchanging(c) ==
    {t \in Threads : op[t].pc = "exchange" /\ op[t].client = c}
      \cup (IF hb.pc = "exchange" /\ Visited = c THEN {HeartBeat} ELSE {})

(* The request and the answer of client_send_recv are never interleaved    *)
(* with those of another thread on the same stream: at most one thread is  *)
(* between the two, and it holds the client's mutex.                       *)
ExchangeExclusive ==
    \A c \in Conns : \A t, u \in Exchanging(c) : t = u

(***************************************************************************)
(* The refinement: what a thread inside dts_operate or the heartbeat is    *)
(* doing, seen as the use of a line.  The mutex itself is not part of it.  *)
(***************************************************************************)
Users == Threads \cup {HeartBeat}
Wanted(u) ==
    IF u = HeartBeat
    THEN IF hb.todo = {} THEN NoConn ELSE Visited
    ELSE IF op[u].pc \in {"lock", "exchange"} THEN op[u].client ELSE NoConn
Holder(c) == IF Exchanging(c) = {} THEN Nobody ELSE CHOOSE u \in Exchanging(c) : TRUE

Line == INSTANCE DeviceLine
          WITH Lines <- Conns, NoLine <- NoConn,
               want <- [u \in Users |-> Wanted(u)], line <- [c \in Conns |-> Holder(c)]

(* Commands and heartbeat use a device stream the way DeviceLine promises: *)
(* the exchange of client_send_recv starts only on a stream nobody is      *)
(* using and is over before the same thread, or another, starts the next.  *)
UsesLinesInTurn == Line!Spec

(* A connection the device has reset leaves the list for good (it stops    *)
(* find_dts_client for every device behind it): the heartbeat that still   *)
(* holds it in its copy may bring it back once, not for ever.              *)
DeadConnectionDropped ==
    \A c \in Conns : (link[c] = "reset") ~> [](c \notin dts_clients)

(* dts_operate returns to its caller, with success or with an error.       *)
OperationsReturn == \A t \in Threads : (op[t].pc # "idle") ~> (op[t].pc = "idle")

(* "remove heartbeat failed client": a client the heartbeat's write-back   *)
(* takes off the list is one whose heartbeat failed, not a device that     *)
(* connected while the heartbeat was running.                              *)
HeartbeatRemovesOnlyFailed ==
    [][HeartbeatStores =>
         \A c \in dts_clients \ dts_clients' : c \in hb.failed]_vars
=============================================================================
