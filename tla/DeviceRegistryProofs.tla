------------------------ MODULE DeviceRegistryProofs ------------------------
(***************************************************************************)
(* For any number of devices, threads and connections: the types of the    *)
(* registry, one list entry per device address, exclusive use of a         *)
(* client's stream, and the refinement of DeviceLine.                      *)
(***************************************************************************)
EXTENDS DeviceRegistry, WellFoundedInduction, TLAPS

(* A non-empty set of connections has an oldest one, which the heartbeat   *)
(* visits next.                                                            *)
LEMMA VisitedInTodo ==
    ASSUME hb.todo \subseteq Conns, hb.todo # {}
    PROVE  Visited \in hb.todo
<1>1. hb.todo \subseteq Nat
  BY ConstantsAssumption DEF Conns
<1> DEFINE Less == {p \in Nat \X Nat : p[1] < p[2]}
<1>2. IsWellFoundedOn(Less, Nat)
  BY NatLessThanWellFounded, Zenon DEF OpToRel
<1>3. PICK c \in hb.todo : \A d \in hb.todo : <<d, c>> \notin Less
  BY <1>1, <1>2, WFMin, Zenon
<1>4. ASSUME NEW d \in hb.todo
      PROVE  c <= d
  <2>1. c \in Nat /\ d \in Nat
    BY <1>1
  <2>2. ~(<<d, c>>[1] < <<d, c>>[2])
    BY <1>3, <2>1, Zenon
  <2>3. ~(d < c)
    BY <2>2
  <2> QED
    BY <2>1, <2>3
<1> QED
  BY <1>4 DEF Visited

(***************************************************************************)
(* The inductive invariant.  The list and the heartbeat's copy of it are   *)
(* kept alike: each holds accepted connections only, so the number of the  *)
(* next connection is fresh in both, and each has one entry per address.   *)
(* The second part is needed because the heartbeat stores its copy over    *)
(* the list whatever was accepted in between.                              *)
(***************************************************************************)
Accepted(clients) == \A c \in clients : c <= accepted

ListInv ==
    /\ Accepted(dts_clients) /\ Accepted(hb.clients)
    /\ OnePerIP(dts_clients) /\ OnePerIP(hb.clients)

(* The heartbeat is in an exchange only with a client it has still to visit. *)
HeartbeatBusy == hb.pc = "exchange" => hb.todo # {}

(* Whoever is in an exchange holds the mutex of the client.                *)
LockInv ==
    /\ hb.pc = "exchange" => owner[Visited] = HeartBeat
    /\ \A t \in Threads : op[t].pc = "exchange" => owner[op[t].client] = t

(* Every step keeps every variable in its type.                            *)
LEMMA TypeStep == TypeOK /\ HeartbeatBusy /\ [Next]_vars => TypeOK'
<1> SUFFICES ASSUME TypeOK, HeartbeatBusy, [Next]_vars
             PROVE  TypeOK'
  OBVIOUS
<1> USE ConstantsAssumption
<1>1. CASE \E c \in Conns : DeviceResets(c)
  BY <1>1 DEF TypeOK, DeviceResets
<1>2. CASE \E ip \in IPs : new_client_notify(ip)
  <2> PICK ip \in IPs : new_client_notify(ip)
    BY <1>2
  <2> accepted + 1 \in Conns /\ accepted' = accepted + 1
    BY DEF new_client_notify
  <2> dts_clients' \subseteq Conns
    BY DEF TypeOK, new_client_notify
  <2> peer' \in [Conns -> IPs \cup {NoIP}]
    BY DEF TypeOK, new_client_notify
  <2> QED
    BY DEF TypeOK, new_client_notify, Conns
<1>3. CASE \E ip \in IPs : new_client_notify_throws(ip)
  <2> PICK ip \in IPs : new_client_notify_throws(ip)
    BY <1>3
  <2> accepted + 1 \in Conns /\ accepted' = accepted + 1
    BY DEF new_client_notify_throws
  <2> dts_clients' \subseteq Conns
    BY DEF TypeOK, new_client_notify_throws
  <2> /\ peer' \in [Conns -> IPs \cup {NoIP}]
      /\ link' \in [Conns -> {"open", "reset"}]
    BY DEF TypeOK, new_client_notify_throws
  <2> QED
    BY DEF TypeOK, new_client_notify_throws, Conns
<1>4. CASE \E t \in Threads, ip \in IPs :
             FindThrows(t, ip) \/ FindNotConnected(t, ip) \/ FindClient(t, ip)
  BY <1>4 DEF TypeOK, FindThrows, FindNotConnected, FindClient, Matches,
              OpStates, IdleOp, Results
<1>5. CASE \E t \in Threads : OperateLocks(t)
  BY <1>5 DEF TypeOK, OperateLocks, LockClient, OpStates
<1>6. CASE \E t \in Threads : OperateSucceeds(t)
  BY <1>6 DEF TypeOK, OperateSucceeds, ExchangeSucceeds, UnlockClient,
              OpStates, IdleOp, Results
<1>7. CASE \E t \in Threads : OperateFails(t)
  BY <1>7 DEF TypeOK, OperateFails, ExchangeFails, UnlockClient, OpStates
<1>8. CASE \E t \in Threads : remove_dts_client(t)
  BY <1>8 DEF TypeOK, remove_dts_client, OpStates, IdleOp, Results
<1>9. CASE HeartbeatCopies
  BY <1>9 DEF TypeOK, HeartbeatCopies
<1>10. CASE HeartbeatLocks
  BY <1>10 DEF TypeOK, HeartbeatLocks, LockClient
<1>11. CASE HeartbeatSucceeds
  BY <1>11 DEF TypeOK, HeartbeatSucceeds, ExchangeSucceeds, UnlockClient
<1>12. CASE HeartbeatFails
  <2>1. hb.todo \subseteq Conns /\ hb.todo # {}
    BY <1>12 DEF TypeOK, HeartbeatBusy, HeartbeatFails
  <2>2. Visited \in Conns
    BY <2>1, VisitedInTodo
  <2> QED
    BY <1>12, <2>2 DEF TypeOK, HeartbeatFails, ExchangeFails, UnlockClient
<1>13. CASE HeartbeatStores
  BY <1>13 DEF TypeOK, HeartbeatStores, IdleHeartbeat
<1>14. CASE UNCHANGED vars
  BY <1>14 DEF TypeOK, vars
<1> QED
  BY <1>1, <1>2, <1>3, <1>4, <1>5, <1>6, <1>7, <1>8, <1>9, <1>10, <1>11,
     <1>12, <1>13, <1>14 DEF Next

(* The heartbeat leaves the exchange with the visit it was in.             *)
LEMMA BusyStep == TypeOK /\ HeartbeatBusy /\ [Next]_vars => HeartbeatBusy'
<1> SUFFICES ASSUME TypeOK, HeartbeatBusy, [Next]_vars
             PROVE  HeartbeatBusy'
  OBVIOUS
<1>1. CASE UNCHANGED hb
  BY <1>1 DEF HeartbeatBusy
<1>2. CASE HeartbeatCopies
  BY <1>2 DEF HeartbeatCopies, HeartbeatBusy
<1>3. CASE HeartbeatLocks
  BY <1>3 DEF HeartbeatLocks, HeartbeatBusy, TypeOK
<1>4. CASE HeartbeatSucceeds
  BY <1>4 DEF HeartbeatSucceeds, HeartbeatBusy, TypeOK
<1>5. CASE HeartbeatFails
  BY <1>5 DEF HeartbeatFails, HeartbeatBusy, TypeOK
<1>6. CASE HeartbeatStores
  BY <1>6 DEF HeartbeatStores, IdleHeartbeat, HeartbeatBusy
<1> QED
  BY <1>1, <1>2, <1>3, <1>4, <1>5, <1>6
  DEF Next, vars, DeviceResets, new_client_notify, new_client_notify_throws,
      FindThrows, FindNotConnected, FindClient, OperateLocks, OperateSucceeds,
      OperateFails, remove_dts_client

(* In every reachable state every variable holds a value of its type: a    *)
(* thread past find_dts_client always has a real client.                   *)
THEOREM TypeCorrect == Spec => []TypeOK
<1>1. Init => TypeOK /\ HeartbeatBusy
  BY ConstantsAssumption
  DEF Init, TypeOK, HeartbeatBusy, IdleHeartbeat, IdleOp, OpStates, Results, Conns
<1>2. TypeOK /\ HeartbeatBusy /\ [Next]_vars => (TypeOK /\ HeartbeatBusy)'
  BY TypeStep, BusyStep
<1> QED
  BY <1>1, <1>2, PTL DEF Spec

-----------------------------------------------------------------------------
(* new_client_notify filters the entries of the new address before it adds *)
(* the connection; every other step keeps or shrinks both lists.           *)
LEMMA ListStep == TypeOK /\ ListInv /\ [Next]_vars => ListInv'
<1> SUFFICES ASSUME TypeOK, ListInv, [Next]_vars
             PROVE  ListInv'
  OBVIOUS
<1> USE ConstantsAssumption
<1>1. ASSUME UNCHANGED <<accepted, peer>>,
             dts_clients' \subseteq dts_clients \/ dts_clients' \subseteq hb.clients,
             hb'.clients \subseteq hb.clients \/ hb'.clients \subseteq dts_clients
      PROVE  ListInv'
  BY <1>1 DEF ListInv, Accepted, OnePerIP
<1>2. ASSUME NEW ip \in IPs, new_client_notify(ip)
      PROVE  ListInv'
  <2> DEFINE client == accepted + 1
  <2>1. /\ client \in Conns /\ accepted' = client /\ hb' = hb
        /\ peer' = [peer EXCEPT ![client] = ip]
        /\ dts_clients' = {c \in dts_clients : ~SameIpOrDead(c, ip)} \cup {client}
    BY <1>2 DEF new_client_notify
  <2>2. dts_clients \subseteq Conns /\ hb.clients \subseteq Conns
    BY DEF TypeOK
  <2>3. \A c \in dts_clients \cup hb.clients :
          c \in Conns /\ c <= accepted /\ c # client /\ peer'[c] = peer[c]
    BY <2>1, <2>2 DEF ListInv, Accepted, TypeOK, Conns
  <2>4. peer'[client] = ip
    BY <2>1 DEF TypeOK
  <2>5. \A c \in dts_clients' : c = client \/ (c \in dts_clients /\ peer[c] # ip)
    BY <2>1 DEF SameIpOrDead
  <2>6. Accepted(dts_clients)' /\ Accepted(hb.clients)'
    BY <2>1, <2>3, <2>5 DEF Accepted, Conns, TypeOK
  <2>7. OnePerIP(hb.clients)'
    BY <2>1, <2>3 DEF OnePerIP, ListInv
  <2>8. OnePerIP(dts_clients)'
    BY <2>3, <2>4, <2>5 DEF OnePerIP, ListInv
  <2> QED
    BY <2>6, <2>7, <2>8 DEF ListInv
<1>3. ASSUME NEW ip \in IPs, new_client_notify_throws(ip)
      PROVE  ListInv'
  <2>1. /\ accepted + 1 \in Conns /\ accepted' = accepted + 1 /\ hb' = hb
        /\ peer' = [peer EXCEPT ![accepted + 1] = ip]
        /\ dts_clients' \subseteq dts_clients
    BY <1>3 DEF new_client_notify_throws
  <2>2. dts_clients \subseteq Conns /\ hb.clients \subseteq Conns
    BY DEF TypeOK
  <2>3. \A c \in dts_clients \cup hb.clients :
          c \in Conns /\ c <= accepted /\ c # accepted + 1 /\ peer'[c] = peer[c]
    BY <2>1, <2>2 DEF ListInv, Accepted, TypeOK, Conns
  <2>4. Accepted(dts_clients)' /\ Accepted(hb.clients)'
    BY <2>1, <2>3 DEF Accepted, Conns, TypeOK
  <2>5. OnePerIP(dts_clients)' /\ OnePerIP(hb.clients)'
    BY <2>1, <2>3 DEF OnePerIP, ListInv
  <2> QED
    BY <2>4, <2>5 DEF ListInv
<1>4. CASE \E c \in Conns : DeviceResets(c)
  BY <1>1, <1>4 DEF DeviceResets
<1>5. CASE \E t \in Threads, ip \in IPs :
             FindThrows(t, ip) \/ FindNotConnected(t, ip) \/ FindClient(t, ip)
  BY <1>1, <1>5 DEF FindThrows, FindNotConnected, FindClient
<1>6. CASE \E t \in Threads : \/ OperateLocks(t) \/ OperateSucceeds(t)
                               \/ OperateFails(t) \/ remove_dts_client(t)
  BY <1>1, <1>6 DEF OperateLocks, OperateSucceeds, OperateFails, remove_dts_client
<1>7. CASE HeartbeatCopies
  BY <1>1, <1>7 DEF HeartbeatCopies
<1>8. CASE HeartbeatLocks \/ HeartbeatSucceeds \/ HeartbeatFails
  <2>1. hb'.clients \subseteq hb.clients
    <3>1. CASE HeartbeatLocks
      BY <3>1 DEF HeartbeatLocks, TypeOK
    <3>2. CASE HeartbeatSucceeds
      BY <3>2 DEF HeartbeatSucceeds, TypeOK
    <3>3. CASE HeartbeatFails
      BY <3>3 DEF HeartbeatFails, TypeOK
    <3> QED
      BY <1>8, <3>1, <3>2, <3>3
  <2>2. UNCHANGED <<accepted, peer, dts_clients>>
    BY <1>8 DEF HeartbeatLocks, HeartbeatSucceeds, HeartbeatFails
  <2> QED
    BY <1>1, <2>1, <2>2
<1>9. CASE HeartbeatStores
  BY <1>1, <1>9 DEF HeartbeatStores, IdleHeartbeat
<1>10. CASE UNCHANGED vars
  BY <1>1, <1>10 DEF vars
<1> QED
  BY <1>2, <1>3, <1>4, <1>5, <1>6, <1>7, <1>8, <1>9, <1>10 DEF Next

(* However accepts, removals and write-backs of the heartbeat interleave,  *)
(* dts_clients_ holds at most one connection per device address.           *)
THEOREM OnePerAddress == Spec => []OneClientPerIP
<1>1. Init => ListInv
  BY DEF Init, ListInv, Accepted, OnePerIP, IdleHeartbeat
<1>2. ListInv => OneClientPerIP
  BY DEF ListInv, OneClientPerIP
<1> QED
  BY <1>1, <1>2, ListStep, TypeCorrect, PTL DEF Spec

-----------------------------------------------------------------------------
(* A free mutex is taken by one thread, and released by the one that holds *)
(* it, so the thread in an exchange is the owner throughout.               *)
LEMMA LockStep ==
    TypeOK /\ HeartbeatBusy /\ LockInv /\ [Next]_vars => LockInv'
<1> SUFFICES ASSUME TypeOK, HeartbeatBusy, LockInv, [Next]_vars
             PROVE  LockInv'
  OBVIOUS
<1> USE ConstantsAssumption
<1>a. hb.todo # {} => Visited \in Conns
  BY VisitedInTodo DEF TypeOK
<1>b. \A t \in Threads : op[t].pc = "exchange" => op[t].client \in Conns
  BY DEF TypeOK, OpStates
<1>1. CASE UNCHANGED <<owner, op, hb>>
  BY <1>1 DEF LockInv, Visited
<1>2. CASE \E t \in Threads, ip \in IPs :
             FindThrows(t, ip) \/ FindNotConnected(t, ip) \/ FindClient(t, ip)
  <2>1. UNCHANGED <<owner, hb>>
    BY <1>2 DEF FindThrows, FindNotConnected, FindClient
  <2>2. \A u \in Threads : op'[u].pc = "exchange" => op'[u] = op[u]
    BY <1>2 DEF FindThrows, FindNotConnected, FindClient, IdleOp, TypeOK
  <2> QED
    BY <2>1, <2>2 DEF LockInv, Visited
<1>3. ASSUME NEW t \in Threads, OperateLocks(t)
      PROVE  LockInv'
  <2>1. op[t].client \in Conns /\ owner[op[t].client] = Nobody
    BY <1>3 DEF OperateLocks, LockClient, TypeOK, OpStates
  <2>2. owner' = [owner EXCEPT ![op[t].client] = t] /\ hb' = hb
    BY <1>3 DEF OperateLocks, LockClient
  <2>3. \A u \in Threads : /\ op'[u].client = op[u].client
                           /\ u # t => op'[u] = op[u]
    BY <1>3 DEF OperateLocks, TypeOK, OpStates
  <2>4. \A u \in Threads :
          op'[u].pc = "exchange" => owner'[op'[u].client] = u
    BY <1>b, <2>1, <2>2, <2>3 DEF LockInv, TypeOK
  <2>5. hb'.pc = "exchange" => owner'[Visited'] = HeartBeat
    <3>1. Visited' = Visited
      BY <2>2 DEF Visited
    <3>2. hb.pc = "exchange" => Visited \in Conns /\ Visited # op[t].client
      BY <1>a, <2>1 DEF LockInv, HeartbeatBusy
    <3> QED
      BY <2>2, <3>1, <3>2 DEF LockInv, TypeOK
  <2> QED
    BY <2>4, <2>5 DEF LockInv
<1>4. ASSUME NEW t \in Threads, OperateSucceeds(t) \/ OperateFails(t)
      PROVE  LockInv'
  <2>1. op[t].client \in Conns /\ owner[op[t].client] = t
    BY <1>4, <1>b DEF OperateSucceeds, OperateFails, LockInv
  <2>2. owner' = [owner EXCEPT ![op[t].client] = Nobody] /\ hb' = hb
    BY <1>4 DEF OperateSucceeds, OperateFails, ExchangeSucceeds, ExchangeFails,
                UnlockClient
  <2>3. op'[t].pc # "exchange"
    BY <1>4 DEF OperateSucceeds, OperateFails, IdleOp, TypeOK, OpStates
  <2>4. \A u \in Threads : u # t => op'[u] = op[u]
    BY <1>4 DEF OperateSucceeds, OperateFails, TypeOK
  <2>5. \A u \in Threads :
          op'[u].pc = "exchange" => owner'[op'[u].client] = u
    BY <1>b, <2>1, <2>2, <2>3, <2>4 DEF LockInv, TypeOK
  <2>6. hb'.pc = "exchange" => owner'[Visited'] = HeartBeat
    <3>1. Visited' = Visited
      BY <2>2 DEF Visited
    <3>2. hb.pc = "exchange" => Visited \in Conns /\ Visited # op[t].client
      BY <1>a, <2>1 DEF LockInv, HeartbeatBusy
    <3> QED
      BY <2>2, <3>1, <3>2 DEF LockInv, TypeOK
  <2> QED
    BY <2>5, <2>6 DEF LockInv
<1>5. ASSUME NEW t \in Threads, remove_dts_client(t)
      PROVE  LockInv'
  <2>1. UNCHANGED <<owner, hb>>
    BY <1>5 DEF remove_dts_client
  <2>2. \A u \in Threads : op'[u].pc = "exchange" => op'[u] = op[u]
    BY <1>5 DEF remove_dts_client, IdleOp, TypeOK
  <2> QED
    BY <2>1, <2>2 DEF LockInv, Visited
<1>6. CASE HeartbeatCopies \/ HeartbeatStores
  BY <1>6 DEF HeartbeatCopies, HeartbeatStores, IdleHeartbeat, LockInv
<1>7. CASE HeartbeatLocks
  <2>1. Visited \in Conns /\ owner[Visited] = Nobody
    BY <1>7, <1>a DEF HeartbeatLocks, LockClient
  <2>2. owner' = [owner EXCEPT ![Visited] = HeartBeat] /\ op' = op
    BY <1>7 DEF HeartbeatLocks, LockClient
  <2>3. hb'.todo = hb.todo
    BY <1>7 DEF HeartbeatLocks, TypeOK
  <2>4. owner'[Visited'] = HeartBeat
    BY <2>1, <2>2, <2>3 DEF TypeOK, Visited
  <2>5. \A u \in Threads :
          op'[u].pc = "exchange" => owner'[op'[u].client] = u
    BY <1>b, <2>1, <2>2 DEF LockInv, TypeOK
  <2> QED
    BY <2>4, <2>5 DEF LockInv
<1>8. CASE HeartbeatSucceeds \/ HeartbeatFails
  <2>1. Visited \in Conns /\ owner[Visited] = HeartBeat
    BY <1>8, <1>a DEF HeartbeatSucceeds, HeartbeatFails, LockInv, HeartbeatBusy
  <2>2. owner' = [owner EXCEPT ![Visited] = Nobody] /\ op' = op
    BY <1>8 DEF HeartbeatSucceeds, HeartbeatFails, ExchangeSucceeds,
                ExchangeFails, UnlockClient
  <2>3. hb'.pc # "exchange"
    BY <1>8 DEF HeartbeatSucceeds, HeartbeatFails, TypeOK
  <2>4. \A u \in Threads :
          op'[u].pc = "exchange" => owner'[op'[u].client] = u
    BY <1>b, <2>1, <2>2 DEF LockInv, TypeOK
  <2> QED
    BY <2>3, <2>4 DEF LockInv
<1> QED
  BY <1>1, <1>2, <1>3, <1>4, <1>5, <1>6, <1>7, <1>8
  DEF Next, vars, DeviceResets, new_client_notify, new_client_notify_throws

(* The request and the answer of one client_send_recv are never mixed with *)
(* those of another on the same stream, whoever the threads are.           *)
THEOREM OneExchangePerClient == Spec => []ExchangeExclusive
<1>1. Init => HeartbeatBusy /\ LockInv
  BY DEF Init, HeartbeatBusy, LockInv, IdleHeartbeat, IdleOp
<1>2. LockInv => ExchangeExclusive
  BY DEF LockInv, ExchangeExclusive, Exchanging
<1> QED
  BY <1>1, <1>2, BusyStep, LockStep, TypeCorrect, PTL DEF Spec
-----------------------------------------------------------------------------
(***************************************************************************)
(* The refinement.  Under the mapping a line is wanted by the thread that  *)
(* is to lock or has locked its client, and held by the one in the         *)
(* exchange.  That the line is free when a thread takes it follows from    *)
(* LockInv; that the heartbeat wants nothing between two rounds, so that   *)
(* copying the list asks for its first line, is RestInv.                   *)
(***************************************************************************)
RestInv == hb.pc = "idle" => hb.todo = {}

(* A round of the heartbeat ends with nothing left to visit.               *)
LEMMA RestStep == TypeOK /\ RestInv /\ [Next]_vars => RestInv'
<1> SUFFICES ASSUME TypeOK, RestInv, [Next]_vars
             PROVE  RestInv'
  OBVIOUS
<1>1. CASE UNCHANGED hb
  BY <1>1 DEF RestInv
<1>2. CASE HeartbeatCopies \/ HeartbeatStores
  BY <1>2 DEF HeartbeatCopies, HeartbeatStores, IdleHeartbeat, RestInv
<1>3. CASE HeartbeatLocks \/ HeartbeatSucceeds \/ HeartbeatFails
  BY <1>3 DEF HeartbeatLocks, HeartbeatSucceeds, HeartbeatFails, RestInv, TypeOK
<1> QED
  BY <1>1, <1>2, <1>3
  DEF Next, vars, DeviceResets, new_client_notify, new_client_notify_throws,
      FindThrows, FindNotConnected, FindClient, OperateLocks, OperateSucceeds,
      OperateFails, remove_dts_client

Held == TypeOK /\ HeartbeatBusy /\ LockInv /\ RestInv

HolderOK(c) ==
    /\ \A u \in Users : Holder(c) = u <=> u \in Exchanging(c)
    /\ Holder(c) = Nobody <=> Exchanging(c) = {}
    /\ Holder(c) \in Users \cup {Nobody}

(* The holder of a line is the one thread in an exchange on it.            *)
LEMMA HolderIs == Held => \A c \in Conns : HolderOK(c)
<1> SUFFICES ASSUME Held, NEW c \in Conns
             PROVE  HolderOK(c)
  OBVIOUS
<1>1. Exchanging(c) \subseteq Users
  BY DEF Exchanging, Users
<1>2. \A v, w \in Exchanging(c) : v = w
  BY DEF Held, LockInv, Exchanging
<1>3. Nobody \notin Users
  BY ConstantsAssumption DEF Users
<1> QED
  BY <1>1, <1>2, <1>3 DEF Holder, HolderOK

want == [u \in Users |-> Wanted(u)]
line == [c \in Conns |-> Holder(c)]

(* Who holds which line after a step depends on who is in an exchange.     *)
LEMMA LineStep ==
    ASSUME Held, Held'
    PROVE  /\ \A c \in Conns : Exchanging(c)' = Exchanging(c) => Holder(c)' = Holder(c)
           /\ \A c \in Conns : Exchanging(c)' = {} => Holder(c)' = Nobody
           /\ \A c \in Conns, u \in Users : Exchanging(c)' = {u} => Holder(c)' = u
<1>1. \A c \in Conns : HolderOK(c)
  BY HolderIs
<1>2. (\A c \in Conns : HolderOK(c))'
  BY HolderIs, PTL
<1> QED
  BY <1>1, <1>2 DEF HolderOK

(* A step in which no thread turns to another client, or begins or ends an *)
(* exchange, is no step of the lines.                                      *)
LEMMA LinesUntouched ==
    ASSUME Held, Held', \A u \in Users : Wanted(u)' = Wanted(u),
           \A c \in Conns : Exchanging(c)' = Exchanging(c)
    PROVE  UNCHANGED <<want, line>>
BY LineStep DEF want, line

(* The three steps of DeviceLine, in terms of what the threads do.         *)
LEMMA LineAsked ==
    ASSUME NEW u \in Users, NEW c \in Conns, Held, Held', Wanted(u) = NoConn,
           \A v \in Users : Wanted(v)' = (IF v = u THEN c ELSE Wanted(v)),
           \A d \in Conns : Exchanging(d)' = Exchanging(d)
    PROVE  Line!Next
<1>1. want' = [want EXCEPT ![u] = c]
  BY DEF want
<1>2. line' = line
  BY LineStep DEF line
<1>3. Line!Ask(u, c)
  BY <1>1, <1>2 DEF Line!Ask, want, line
<1> QED
  BY <1>3 DEF Line!Next

(* A free line is taken by a thread that wants it: the mutex of the client *)
(* is locked.                                                              *)
LEMMA LineTaken ==
    ASSUME NEW u \in Users, NEW c \in Conns, Held, Held', Wanted(u) = c,
           Exchanging(c) = {},
           \A v \in Users : Wanted(v)' = Wanted(v),
           \A d \in Conns : Exchanging(d)' = (IF d = c THEN {u} ELSE Exchanging(d))
    PROVE  Line!Next
<1>1. want' = want
  BY DEF want
<1>2. line' = [line EXCEPT ![c] = u]
  BY LineStep DEF line
<1>3. Line!Take(u)
  BY <1>1, <1>2, HolderIs DEF Line!Take, want, line, HolderOK
<1> QED
  BY <1>3 DEF Line!Next

(* The line is given back by its holder, who may want another one next:    *)
(* the exchange is over.                                                   *)
LEMMA LineGiven ==
    ASSUME NEW u \in Users, NEW c \in Conns, NEW next \in Conns \cup {NoConn},
           Held, Held', u \in Exchanging(c), Wanted(u) = c,
           \A v \in Users : Wanted(v)' = (IF v = u THEN next ELSE Wanted(v)),
           \A d \in Conns : Exchanging(d)' = (IF d = c THEN {} ELSE Exchanging(d))
    PROVE  Line!Next
<1>1. want' = [want EXCEPT ![u] = next]
  BY DEF want
<1>2. line' = [line EXCEPT ![c] = Nobody]
  BY LineStep DEF line
<1>3. Line!Give(u, next)
  BY <1>1, <1>2, HolderIs DEF Line!Give, want, line, HolderOK
<1> QED
  BY <1>3 DEF Line!Next

(* Every step of the registry is a step of DeviceLine or leaves it alone:  *)
(* finding a client and copying the list ask for a line, locking takes it, *)
(* the end of an exchange gives it back, and the heartbeat asks for its    *)
(* next line in the same step.                                             *)
LEMMA RefinementStep ==
    ASSUME Held, Held', [Next]_vars
    PROVE  [Line!Next]_<<want, line>>
<1> USE ConstantsAssumption
<1>a. hb.todo # {} => Visited \in hb.todo /\ Visited \in Conns
  BY VisitedInTodo DEF Held, TypeOK
<1>b. hb'.todo # {} => Visited' \in Conns
  <2>1. (hb.todo \subseteq Conns /\ hb.todo # {} => Visited \in hb.todo)'
    BY VisitedInTodo, PTL
  <2> QED
    BY <2>1 DEF Held, TypeOK
<1>c. NoConn \notin Conns
  BY DEF Conns, NoConn
<1>d. \A t \in Threads : t \in Users /\ t # HeartBeat
  BY DEF Users
<1>1. CASE UNCHANGED <<op, hb>>
  <2>1. \A u \in Users : Wanted(u)' = Wanted(u)
    BY <1>1 DEF Wanted, Visited
  <2>2. \A c \in Conns : Exchanging(c)' = Exchanging(c)
    BY <1>1 DEF Exchanging, Visited
  <2> QED
    BY <2>1, <2>2, LinesUntouched
<1>2. ASSUME NEW t \in Threads, NEW ip \in IPs,
             FindThrows(t, ip) \/ FindNotConnected(t, ip)
      PROVE  [Line!Next]_<<want, line>>
  <2>1. hb' = hb /\ op[t].pc \notin {"lock", "exchange"}
    BY <1>2 DEF FindThrows, FindNotConnected
  <2>2. \A u \in Threads : /\ u # t => op'[u] = op[u]
                           /\ op'[t].pc = "idle"
    BY <1>2 DEF FindThrows, FindNotConnected, IdleOp, Held, TypeOK
  <2>3. \A u \in Users : Wanted(u)' = Wanted(u)
    BY <1>d, <2>1, <2>2 DEF Wanted, Visited, Users
  <2>4. \A c \in Conns : Exchanging(c)' = Exchanging(c)
    BY <2>1, <2>2 DEF Exchanging, Visited
  <2> QED
    BY <2>3, <2>4, LinesUntouched
<1>3. ASSUME NEW t \in Threads, NEW ip \in IPs, FindClient(t, ip)
      PROVE  Line!Next
  <2>1. PICK m \in Matches(ip) :
          op' = [op EXCEPT ![t] = [pc |-> "lock", client |-> m, result |-> "none"]]
    BY <1>3 DEF FindClient
  <2>2. m \in Conns /\ hb' = hb /\ op[t].pc = "idle"
    BY <1>3, <2>1 DEF FindClient, Matches, Held, TypeOK
  <2>3. /\ \A u \in Threads : u # t => op'[u] = op[u]
        /\ op'[t].pc = "lock" /\ op'[t].client = m
    BY <2>1 DEF Held, TypeOK
  <2>4. \A u \in Users : Wanted(u)' = (IF u = t THEN m ELSE Wanted(u))
    BY <1>d, <2>2, <2>3 DEF Wanted, Visited, Users
  <2>5. \A c \in Conns : Exchanging(c)' = Exchanging(c)
    BY <2>2, <2>3 DEF Exchanging, Visited
  <2>6. Wanted(t) = NoConn
    BY <1>d, <2>2 DEF Wanted
  <2> QED
    BY <1>d, <2>2, <2>4, <2>5, <2>6, LineAsked
<1>4. ASSUME NEW t \in Threads, OperateLocks(t)
      PROVE  Line!Next
  <2> DEFINE c == op[t].client
  <2>1. c \in Conns /\ owner[c] = Nobody /\ hb' = hb /\ op[t].pc = "lock"
    BY <1>4 DEF OperateLocks, LockClient, Held, TypeOK, OpStates
  <2>2. /\ \A u \in Threads : u # t => op'[u] = op[u]
        /\ op'[t].pc = "exchange" /\ op'[t].client = c
    BY <1>4 DEF OperateLocks, Held, TypeOK, OpStates
  <2>3. \A u \in Users : Wanted(u)' = Wanted(u)
    BY <1>d, <2>1, <2>2 DEF Wanted, Visited, Users
  <2>4. Exchanging(c) = {}
    BY <2>1, <1>d DEF Exchanging, Held, LockInv
  <2>5. \A d \in Conns : Exchanging(d)' = (IF d = c THEN {t} ELSE Exchanging(d))
    BY <2>1, <2>2, <2>4 DEF Exchanging, Visited
  <2>6. Wanted(t) = c
    BY <1>d, <2>1 DEF Wanted
  <2> HIDE DEF c
  <2> QED
    BY <1>d, <2>1, <2>3, <2>4, <2>5, <2>6, LineTaken
<1>5. ASSUME NEW t \in Threads, OperateSucceeds(t) \/ OperateFails(t)
      PROVE  Line!Next
  <2> DEFINE c == op[t].client
  <2>1. c \in Conns /\ hb' = hb /\ op[t].pc = "exchange"
    BY <1>5 DEF OperateSucceeds, OperateFails, Held, TypeOK, OpStates
  <2>2. /\ \A u \in Threads : u # t => op'[u] = op[u]
        /\ op'[t].pc \notin {"lock", "exchange"}
    BY <1>5 DEF OperateSucceeds, OperateFails, IdleOp, Held, TypeOK, OpStates
  <2>3. \A u \in Users : Wanted(u)' = (IF u = t THEN NoConn ELSE Wanted(u))
    BY <1>d, <2>1, <2>2 DEF Wanted, Visited, Users
  <2>4. t \in Exchanging(c)
    BY <2>1 DEF Exchanging
  <2>5. \A u \in Exchanging(c) : u = t
    BY <2>1, <2>4 DEF Exchanging, Held, LockInv
  <2>6. \A d \in Conns : Exchanging(d)' = (IF d = c THEN {} ELSE Exchanging(d))
    <3> SUFFICES ASSUME NEW d \in Conns
                 PROVE  Exchanging(d)' = (IF d = c THEN {} ELSE Exchanging(d))
      OBVIOUS
    <3>1. \A u : u \in Exchanging(d)' <=> u # t /\ u \in Exchanging(d)
      BY <1>d, <2>1, <2>2 DEF Exchanging, Visited
    <3>2. d # c => t \notin Exchanging(d)
      BY <1>d DEF Exchanging
    <3> QED
      BY <3>1, <3>2, <2>5
  <2>7. Wanted(t) = c
    BY <1>d, <2>1 DEF Wanted
  <2> HIDE DEF c
  <2> QED
    BY <1>d, <2>1, <2>3, <2>4, <2>6, <2>7, LineGiven
<1>6. CASE HeartbeatCopies
  <2>1. op' = op /\ hb.pc = "idle" /\ hb'.pc = "visit" /\ hb.todo = {}
    BY <1>6 DEF HeartbeatCopies, Held, RestInv
  <2>2. \A c \in Conns : Exchanging(c)' = Exchanging(c)
    BY <2>1 DEF Exchanging
  <2>3. Wanted(HeartBeat) = NoConn
    BY <2>1 DEF Wanted
  <2>4. \A u \in Users : u # HeartBeat => Wanted(u)' = Wanted(u)
    BY <2>1 DEF Wanted
  <2>5. CASE hb'.todo = {}
    <3>1. Wanted(HeartBeat)' = NoConn
      BY <2>5 DEF Wanted
    <3> QED
      BY <2>2, <2>3, <2>4, <3>1, LinesUntouched
  <2>6. CASE hb'.todo # {}
    <3>1. Wanted(HeartBeat)' = Visited' /\ Visited' \in Conns
      BY <1>b, <2>6 DEF Wanted
    <3>2. Line!Next
      BY <2>2, <2>3, <2>4, <3>1, LineAsked DEF Users
    <3> QED
      BY <3>2
  <2> QED
    BY <2>5, <2>6
<1>7. CASE HeartbeatLocks
  <2>1. op' = op /\ hb.todo # {} /\ hb.pc = "visit" /\ owner[Visited] = Nobody
    BY <1>7 DEF HeartbeatLocks, LockClient
  <2>2. hb'.pc = "exchange" /\ hb'.todo = hb.todo
    BY <1>7 DEF HeartbeatLocks, Held, TypeOK
  <2>3. Visited' = Visited
    BY <2>2 DEF Visited
  <2>4. \A u \in Users : Wanted(u)' = Wanted(u)
    BY <2>1, <2>2, <2>3 DEF Wanted
  <2>5. Exchanging(Visited) = {}
    BY <2>1 DEF Exchanging, Held, LockInv
  <2>6. \A d \in Conns :
          Exchanging(d)' = (IF d = Visited THEN {HeartBeat} ELSE Exchanging(d))
    BY <2>1, <2>2, <2>3, <2>5 DEF Exchanging
  <2>7. Wanted(HeartBeat) = Visited /\ HeartBeat \in Users
    BY <2>1 DEF Wanted, Users
  <2> QED
    BY <1>a, <2>1, <2>4, <2>5, <2>6, <2>7, LineTaken
<1>8. CASE HeartbeatSucceeds \/ HeartbeatFails
  <2>1. op' = op /\ hb.pc = "exchange" /\ hb.todo # {}
    BY <1>8 DEF HeartbeatSucceeds, HeartbeatFails, Held, HeartbeatBusy
  <2>2. hb'.pc = "visit"
    <3>1. CASE HeartbeatSucceeds
      BY <3>1 DEF HeartbeatSucceeds, Held, TypeOK
    <3>2. CASE HeartbeatFails
      BY <3>2 DEF HeartbeatFails, Held, TypeOK
    <3> QED
      BY <1>8, <3>1, <3>2
  <2>3. \A u \in Users : u # HeartBeat => Wanted(u)' = Wanted(u)
    BY <2>1 DEF Wanted
  <2>4. Wanted(HeartBeat)' \in Conns \cup {NoConn}
    BY <1>b DEF Wanted
  <2>5. /\ HeartBeat \in Exchanging(Visited) /\ HeartBeat \in Users
        /\ Wanted(HeartBeat) = Visited
    BY <2>1 DEF Exchanging, Wanted, Users
  <2>6. \A u \in Exchanging(Visited) : u = HeartBeat
    BY <2>1 DEF Exchanging, Held, LockInv
  <2>7. \A d \in Conns : Exchanging(d)' = (IF d = Visited THEN {} ELSE Exchanging(d))
    <3> SUFFICES ASSUME NEW d \in Conns
                 PROVE  Exchanging(d)' = (IF d = Visited THEN {} ELSE Exchanging(d))
      OBVIOUS
    <3>1. \A u : u \in Exchanging(d)' <=> u # HeartBeat /\ u \in Exchanging(d)
      BY <2>1, <2>2 DEF Exchanging
    <3>2. d # Visited => HeartBeat \notin Exchanging(d)
      BY DEF Exchanging
    <3> QED
      BY <3>1, <3>2, <2>6
  <2> QED
    BY <1>a, <2>1, <2>3, <2>4, <2>5, <2>7, LineGiven
<1>9. CASE HeartbeatStores
  <2>1. op' = op /\ hb.pc = "visit" /\ hb.todo = {} /\ hb'.pc = "idle" /\ hb'.todo = {}
    BY <1>9 DEF HeartbeatStores, IdleHeartbeat
  <2>2. \A u \in Users : Wanted(u)' = Wanted(u)
    BY <2>1 DEF Wanted
  <2>3. \A c \in Conns : Exchanging(c)' = Exchanging(c)
    BY <2>1 DEF Exchanging
  <2> QED
    BY <2>2, <2>3, LinesUntouched
<1>10. ASSUME NEW t \in Threads, remove_dts_client(t)
       PROVE  [Line!Next]_<<want, line>>
  <2>1. hb' = hb /\ op[t].pc = "remove"
    BY <1>10 DEF remove_dts_client
  <2>2. \A u \in Threads : /\ u # t => op'[u] = op[u]
                           /\ op'[t].pc = "idle"
    BY <1>10 DEF remove_dts_client, IdleOp, Held, TypeOK
  <2>3. \A u \in Users : Wanted(u)' = Wanted(u)
    BY <1>d, <2>1, <2>2 DEF Wanted, Visited, Users
  <2>4. \A c \in Conns : Exchanging(c)' = Exchanging(c)
    BY <2>1, <2>2 DEF Exchanging, Visited
  <2> QED
    BY <2>3, <2>4, LinesUntouched
<1> QED
  <2>1. CASE \/ \E c \in Conns : DeviceResets(c)
             \/ \E ip \in IPs : new_client_notify(ip) \/ new_client_notify_throws(ip)
             \/ UNCHANGED vars
    BY <1>1, <2>1 DEF DeviceResets, new_client_notify, new_client_notify_throws, vars
  <2> QED
    BY <1>2, <1>3, <1>4, <1>5, <1>6, <1>7, <1>8, <1>9, <1>10, <2>1 DEF Next

(* Commands and heartbeat use the stream of a device in turn, as DeviceLine *)
(* promises: no exchange of client_send_recv begins before the one under    *)
(* way on the same stream is over, for any number of threads.               *)
THEOREM LinesInTurn == Spec => UsesLinesInTurn
<1>1. Init => Held
  BY ConstantsAssumption
  DEF Init, Held, TypeOK, HeartbeatBusy, LockInv, RestInv, IdleHeartbeat, IdleOp,
      OpStates, Results, Conns
<1>2. Held /\ [Next]_vars => Held'
  BY TypeStep, BusyStep, LockStep, RestStep DEF Held
<1>3. Init => Line!Init
  <2> SUFFICES ASSUME Init
               PROVE  want = [u \in Users |-> NoConn] /\ line = [c \in Conns |-> Nobody]
    BY DEF Line!Init, want, line
  <2>1. \A u \in Users : Wanted(u) = NoConn
    BY DEF Init, Wanted, IdleHeartbeat, IdleOp, Users
  <2>2. \A c \in Conns : Exchanging(c) = {}
    BY DEF Init, Exchanging, IdleHeartbeat, IdleOp
  <2> QED
    BY <2>1, <2>2 DEF want, line, Holder
<1>4. Held /\ Held' /\ [Next]_vars => [Line!Next]_<<want, line>>
  BY RefinementStep
<1> QED
  BY <1>1, <1>2, <1>3, <1>4, PTL DEF Spec, UsesLinesInTurn, Line!Spec, want, line
=============================================================================
