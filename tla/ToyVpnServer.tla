---------------------------- MODULE ToyVpnServer ----------------------------
(***************************************************************************)
(* The VPN server's main thread (server/ToyVpnServer.h, ClientHandler.h,   *)
(* EpollWrapper.h): the epoll loop, the two tables that share the session  *)
(* objects, the allocation of addresses, the dispatch of datagrams from    *)
(* clients and from the TUN interface, the reaping of idle sessions, and   *)
(* stop(), which the SIGINT handler runs on this same thread between any   *)
(* two steps.  It starts where start() enters startPolling().              *)
(*                                                                         *)
(* Session objects live on a heap, the sequence handlers, and the tables   *)
(* hold references into it; 0 is the absent reference.                     *)
(*                                                                         *)
(* effects holds what the last step did outside the tables, on behalf of   *)
(* which session: datagrams handed to the socket, packets written to the   *)
(* TUN interface, and calls on the PacketHandler ("record" for             *)
(* handlePacket, "close" for clientDisconnected).                          *)
(***************************************************************************)
EXTENDS ClientHandler, Sequences

CONSTANT CheckInterval     \* m_CheckIdleClientsSec, in ticks

ASSUME CheckIntervalAssumption == CheckInterval \in Nat

VARIABLES
    handlers,      \* the session objects, in the order of their creation
    clients,       \* m_Clients: endpoint -> reference
    addressMap,    \* m_ClientAddressMap: address -> reference
    lastUsed,      \* m_LastUsedClientAddress
    sinceCheck,    \* ticks since m_LastIdleClientsCheck, saturating
    polling,       \* m_IsPolling
    batch,         \* descriptors of this epoll_wait whose callback is due
    pc,            \* where the main thread is
    current,       \* reference handleClient is working on, 0 if none
    interrupted,   \* the SIGINT handler has run stop()
    effects,
    told           \* endpoints that were sent each address (history)

tables == <<handlers, clients, addressMap, lastUsed>>
loop == <<polling, batch, interrupted>>
vars == <<tables, sinceCheck, loop, pc, current, effects, told>>

PCs == {"wait", "dispatch", "handle", "reply", "check", "returned", "failed"}

Ended == pc \in {"returned", "failed"}

Batches == {<<"socket">>, <<"tun">>, <<"socket", "tun">>, <<"tun", "socket">>}

Effect == [kind : {"params", "packet", "goodbye", "tun", "record", "close"},
           to : Endpoints, address : Addresses]

For(kind, h) == [kind |-> kind, to |-> h.external, address |-> h.address]

Init == /\ handlers = << >>
        /\ clients = [e \in Endpoints |-> 0]
        /\ addressMap = [a \in Addresses |-> 0]
        /\ lastUsed = TunAddress
        /\ sinceCheck = 0
        /\ polling = TRUE /\ batch = << >> /\ interrupted = FALSE
        /\ pc = "wait" /\ current = 0
        /\ effects = {}
        /\ told = [a \in Addresses |-> {}]

-----------------------------------------------------------------------------
(* The epoll loop. *)

EpollWait(ready) ==
    /\ pc = "wait" /\ polling
    /\ batch' = ready /\ pc' = "dispatch"
    /\ effects' = {}
    /\ UNCHANGED <<tables, sinceCheck, polling, interrupted, current, told>>

(* epoll_wait fails while polling, as it does with EINTR when the process  *)
(* is stopped and continued: the exception ends start().                   *)
EpollError ==
    /\ pc = "wait" /\ polling
    /\ polling' = FALSE /\ pc' = "failed"
    /\ effects' = {}
    /\ UNCHANGED <<tables, sinceCheck, batch, interrupted, current, told>>

(* stop() has closed the epoll descriptor: epoll_wait fails, or the loop   *)
(* condition does, and start() returns.                                    *)
LeaveLoop ==
    /\ pc = "wait" /\ ~polling
    /\ pc' = "returned" /\ effects' = {}
    /\ UNCHANGED <<tables, sinceCheck, loop, current, told>>

(* The batch is worked off even when stop() ran in the middle of it.       *)
BatchDone ==
    /\ pc = "dispatch" /\ batch = << >>
    /\ pc' = "wait" /\ effects' = {}
    /\ UNCHANGED <<tables, sinceCheck, loop, current, told>>

Due(fd) == pc = "dispatch" /\ batch # << >> /\ Head(batch) = fd

-----------------------------------------------------------------------------
(* handleClient. *)

(* An empty datagram: nothing but the idle check is done. *)
ReceiveNothing ==
    /\ Due("socket")
    /\ pc' = "check" /\ effects' = {}
    /\ UNCHANGED <<tables, sinceCheck, loop, current, told>>

ReceiveKnown(e) ==
    /\ Due("socket") /\ clients[e] # 0
    /\ current' = clients[e] /\ pc' = "handle" /\ effects' = {}
    /\ UNCHANGED <<tables, sinceCheck, loop, told>>

(* seeded bug: the lowest free address, so that addresses come back *)
LowestFreeAddress == CHOOSE a \in TunAddress + 1 .. HighestAddress :
                        /\ addressMap[a] = 0
                        /\ \A b \in TunAddress + 1 .. a - 1 : addressMap[b] # 0

NextAddress == lastUsed + 1

(* seeded bug: the end of the network is not looked at *)
AlwaysLeft == TRUE

AddressLeft == NextAddress # HighestAddress

(* The first datagram of an endpoint, whatever it holds, makes a session   *)
(* and takes the next address.                                             *)
RegisterClient(e) ==
    /\ Due("socket") /\ clients[e] = 0
    /\ AddressLeft
    /\ lastUsed' = NextAddress
    /\ handlers' = Append(handlers, NewHandler(e, NextAddress))
    /\ clients' = [clients EXCEPT ![e] = Len(handlers) + 1]
    /\ addressMap' = [addressMap EXCEPT ![NextAddress] = Len(handlers) + 1]
    /\ current' = Len(handlers) + 1 /\ pc' = "handle" /\ effects' = {}
    /\ UNCHANGED <<sinceCheck, loop, told>>

(* createVpnSettings throws: the exception leaves the loop and start().    *)
OutOfAddresses(e) ==
    /\ Due("socket") /\ clients[e] = 0
    /\ ~AddressLeft
    /\ pc' = "failed" /\ effects' = {}
    /\ UNCHANGED <<tables, sinceCheck, loop, current, told>>

(* handleDataFromClient makes the object of the datagram h.                *)
Becomes(h) ==
    /\ handlers' = [handlers EXCEPT ![current] = h]
    /\ UNCHANGED <<clients, addressMap, lastUsed, sinceCheck, loop, current>>

(* The right secret: the parameters are sent.  The state follows in a step *)
(* of its own, since a signal may arrive in between.                       *)
SendParams(m) ==
    /\ pc = "handle" /\ Admits(handlers[current], m)
    /\ Becomes(Heard(handlers[current]))
    /\ pc' = "reply"
    /\ effects' = {For("params", handlers[current])}
    /\ told' = [told EXCEPT ![handlers[current].address] =
                              @ \cup {handlers[current].external}]

SendParamsFails(m) ==
    /\ pc = "handle" /\ Admits(handlers[current], m)
    /\ Becomes(Moved(Heard(handlers[current]), "ERROR"))
    /\ pc' = "check" /\ effects' = {} /\ UNCHANGED told

BecomeConnected ==
    /\ pc = "reply"
    /\ Becomes(Moved(handlers[current], "CONNECTED"))
    /\ pc' = "check" /\ effects' = {} /\ UNCHANGED told

RejectSecret(m) ==
    /\ pc = "handle" /\ Rejects(handlers[current], m)
    /\ Becomes(Moved(Heard(handlers[current]), "ERROR"))
    /\ pc' = "check" /\ effects' = {} /\ UNCHANGED told

ClientLeaves(m) ==
    /\ pc = "handle" /\ Leaves(handlers[current], m)
    /\ Becomes(Moved(Heard(handlers[current]), "DISCONNECTED"))
    /\ pc' = "check" /\ effects' = {For("close", handlers[current])}
    /\ UNCHANGED told

ForwardToTun(m) ==
    /\ pc = "handle" /\ Forwards(handlers[current], m)
    /\ Becomes(Heard(handlers[current]))
    /\ pc' = "check"
    /\ effects' = {For(k, handlers[current]) : k \in {"tun", "record"}}
    /\ UNCHANGED told

IgnoreData(m) ==
    /\ pc = "handle"
    /\ LET h == handlers[current] IN
          ~(Admits(h, m) \/ Rejects(h, m) \/ Leaves(h, m) \/ Forwards(h, m))
    /\ Becomes(Heard(handlers[current]))
    /\ pc' = "check" /\ effects' = {} /\ UNCHANGED told

-----------------------------------------------------------------------------
(* handleTunInterface. *)

(* A packet for the address of a session goes to its endpoint, whatever    *)
(* the state of the session.                                               *)
DeliverFromTun(a) ==
    /\ Due("tun") /\ addressMap[a] # 0
    /\ effects' = {For(k, handlers[addressMap[a]]) : k \in {"packet", "record"}}
    /\ pc' = "check"
    /\ UNCHANGED <<tables, sinceCheck, loop, current, told>>

(* Not IPv4, or for no session. *)
DropFromTun ==
    /\ Due("tun")
    /\ pc' = "check" /\ effects' = {}
    /\ UNCHANGED <<tables, sinceCheck, loop, current, told>>

-----------------------------------------------------------------------------
(* The idle check that ends both callbacks. *)

IdleRefs == {clients[e] : e \in {x \in Endpoints :
                            clients[x] # 0 /\ IsIdle(handlers[clients[x]])}}

(* seeded bug: only m_Clients is cleaned *)
NothingErased(refs) == {}

ErasedAddresses(refs) == {handlers[i].address : i \in refs}

(* checkIdleClients takes the idle sessions out of both tables; an object  *)
(* that neither table refers to any more is destroyed.                     *)
Reap ==
    /\ clients' = [e \in Endpoints |->
                     IF clients[e] \in IdleRefs THEN 0 ELSE clients[e]]
    /\ addressMap' = [a \in Addresses |->
                     IF a \in ErasedAddresses(IdleRefs)
                     THEN 0 ELSE addressMap[a]]
    /\ handlers' = [i \in DOMAIN handlers |->
                     IF \/ \E e \in Endpoints : clients'[e] = i
                        \/ \E a \in Addresses : addressMap'[a] = i
                     THEN handlers[i] ELSE Destroyed(handlers[i])]
    /\ UNCHANGED lastUsed

CheckIdleClients ==
    /\ pc = "check"
    /\ IF sinceCheck > CheckInterval
       THEN Reap /\ sinceCheck' = 0
       ELSE UNCHANGED <<tables, sinceCheck>>
    /\ batch' = Tail(batch) /\ current' = 0
    /\ pc' = "dispatch" /\ effects' = {}
    /\ UNCHANGED <<polling, interrupted, told>>

-----------------------------------------------------------------------------
(* The signal handler and time. *)

(* seeded bug: disconnect() without its test of the state *)
RegisteredRefs == {i \in DOMAIN handlers : \E e \in Endpoints : clients[e] = i}

ConnectedRefs == {i \in DOMAIN handlers :
                    /\ handlers[i].state = "CONNECTED"
                    /\ \E e \in Endpoints : clients[e] = i}

(* seeded bug: the descriptor is closed, the flag forgotten *)
KeepPolling == polling' = polling

StopPolling == polling' = FALSE

(* stop(), in the SIGINT handler (which runs once): every connected client *)
(* is sent DISCONNECT, polling ends, and the PacketHandler is stopped.     *)
(* The main thread then goes on where it was.                              *)
Stop ==
    /\ ~interrupted /\ ~Ended
    /\ handlers' = [i \in DOMAIN handlers |->
                      IF i \in ConnectedRefs
                      THEN Moved(handlers[i], "DISCONNECTED") ELSE handlers[i]]
    /\ effects' = {For(k, handlers[i]) : k \in {"goodbye", "close"},
                                         i \in ConnectedRefs}
    /\ StopPolling /\ interrupted' = TRUE
    /\ UNCHANGED <<clients, addressMap, lastUsed, sinceCheck, batch, pc,
                   current, told>>

(* A tick: more than a callback takes, so time passes in epoll_wait only.  *)
Tick ==
    /\ pc = "wait"
    /\ handlers' = [i \in DOMAIN handlers |->
                      IF handlers[i].state = "DESTROYED" THEN handlers[i]
                      ELSE [handlers[i] EXCEPT !.age = Older(@)]]
    /\ sinceCheck' = IF sinceCheck <= CheckInterval
                     THEN sinceCheck + 1 ELSE sinceCheck
    /\ effects' = {}
    /\ UNCHANGED <<clients, addressMap, lastUsed, loop, pc, current, told>>

-----------------------------------------------------------------------------
AnyEvent == \E ready \in Batches : EpollWait(ready)

HandleClient ==
    \/ ReceiveNothing
    \/ \E e \in Endpoints : ReceiveKnown(e)
    \/ \E e \in Endpoints : RegisterClient(e)
    \/ \E e \in Endpoints : OutOfAddresses(e)
    \/ \E m \in Messages : SendParams(m)
    \/ \E m \in Messages : SendParamsFails(m)
    \/ BecomeConnected
    \/ \E m \in Messages : RejectSecret(m)
    \/ \E m \in Messages : ClientLeaves(m)
    \/ \E m \in Messages : ForwardToTun(m)
    \/ \E m \in Messages : IgnoreData(m)

HandleTunInterface ==
    \/ \E a \in Addresses : DeliverFromTun(a)
    \/ DropFromTun

(* Steps of the main thread that wait for nothing outside.                 *)
Continue == \/ LeaveLoop \/ BatchDone
            \/ HandleClient \/ HandleTunInterface \/ CheckIdleClients

Next == AnyEvent \/ EpollError \/ Continue \/ Stop \/ Tick

Spec == Init /\ [][Next]_vars

(* The main thread runs, clocks advance, and the TUN interface or the      *)
(* socket keeps having something to read: idle sessions are looked for     *)
(* only when there is traffic.                                             *)
BusySpec == Spec /\ WF_vars(Continue) /\ WF_vars(AnyEvent) /\ SF_vars(Tick)

-----------------------------------------------------------------------------
(* Properties. *)

TablesType ==
    /\ handlers \in Seq(Handler)
    /\ clients \in [Endpoints -> 0 .. Len(handlers)]
    /\ addressMap \in [Addresses -> 0 .. Len(handlers)]
    /\ lastUsed \in Addresses
    /\ current \in 0 .. Len(handlers)

LoopType ==
    /\ sinceCheck \in 0 .. CheckInterval + 1
    /\ polling \in BOOLEAN /\ interrupted \in BOOLEAN
    /\ batch \in Batches \cup {<< >>}
    /\ pc \in PCs

OutputType ==
    /\ effects \in SUBSET Effect
    /\ told \in [Addresses -> SUBSET Endpoints]

(* Every variable has its type; in particular no reference points outside  *)
(* the heap and no address outside the private network is handed out.      *)
TypeOK == TablesType /\ LoopType /\ OutputType

(* The two tables describe the same sessions: what one refers to, the      *)
(* other finds under the object's own key, and it is alive                 *)
(* (handleClient inserts into both, checkIdleClients erases from both).    *)
TablesAgree ==
    /\ \A e \in Endpoints : clients[e] # 0 =>
          /\ handlers[clients[e]].external = e
          /\ handlers[clients[e]].state # "DESTROYED"
          /\ addressMap[handlers[clients[e]].address] = clients[e]
    /\ \A a \in Addresses : addressMap[a] # 0 =>
          /\ handlers[addressMap[a]].address = a
          /\ clients[handlers[addressMap[a]].external] = addressMap[a]

(* Over the life of the server an address is told to one endpoint only,    *)
(* and a packet for it that arrives on the TUN interface goes to nobody    *)
(* else, however many sessions were reaped in between                      *)
(* (createVpnSettings never goes back, handleTunInterface).                *)
NoMisdelivery ==
    /\ \A a \in Addresses : \A d, e \in told[a] : d = e
    /\ \A x \in effects : x.kind = "packet" => told[x.address] \subseteq {x.to}

(* Only a client that was sent its parameters is sent DISCONNECT, written  *)
(* through to the TUN interface, or regarded as connected, wherever a      *)
(* signal interrupts its handshake (disconnect() and handleDataFromClient).*)
OnlyAdmittedServed ==
    /\ \A x \in effects : x.kind \in {"goodbye", "tun"} => x.to \in told[x.address]
    /\ \A i \in DOMAIN handlers :
          handlers[i].state \in {"CONNECTED", "DISCONNECTED"} =>
             handlers[i].external \in told[handlers[i].address]

(* Whoever was sent DISCONNECT stays disconnected: no step takes a session *)
(* back to CONNECTED, in particular not the rest of a handshake that       *)
(* stop() interrupted (ClientHandler::disconnect, the START case).         *)
NoReturn ==
    [][\A i \in DOMAIN handlers :
          handlers[i].state \in {"DISCONNECTED", "ERROR", "DESTROYED"} =>
             handlers'[i].state \in {handlers[i].state, "DESTROYED"}]_vars

(* The idle check that ends a datagram's own callback never takes away the *)
(* session of that datagram, unless it is disconnected: the timestamp is   *)
(* refreshed first, in every state (handleDataFromClient, handleClient).   *)
SenderSurvivesCheck ==
    [][(pc = "check" /\ current # 0) =>
          \/ handlers[current].state = "DISCONNECTED"
          \/ \E e \in Endpoints : clients'[e] = current]_vars

Stale(a) == /\ addressMap[a] # 0
            /\ LET h == handlers[addressMap[a]] IN
                  h.state = "DISCONNECTED" \/ h.age > IdleTimeout

(* While there is traffic, a session that is disconnected or silent for    *)
(* too long does not stay: it is reaped, or its client is heard again      *)
(* (checkIdleClients, and its call from both callbacks).                   *)
StaleSessionsGo == \A a \in Addresses : Stale(a) ~> (~Stale(a) \/ Ended)

(* Once the signal handler ran, start() ends (stopPolling, startPolling).  *)
StopEnds == interrupted ~> Ended

(* The server implements the address leases of AddressLease.tla.           *)
Lease == INSTANCE AddressLease WITH
    Leasable   <- TunAddress + 1 .. HighestAddress - 1,
    NoEndpoint <- 0,
    holder     <- [a \in TunAddress + 1 .. HighestAddress - 1 |->
                     IF addressMap[a] = 0 THEN 0
                     ELSE handlers[addressMap[a]].external],
    used       <- TunAddress + 1 .. lastUsed

ImplementsLease == Lease!Spec
=============================================================================
