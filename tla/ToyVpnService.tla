---------------------------- MODULE ToyVpnService ----------------------------
(***************************************************************************)
(* The app's connection (ToyVpnService.kt, ToyVpnServiceManager.kt, the    *)
(* two screens): the main thread runs the screens, the manager's receiver  *)
(* and the callbacks of the service; every onStartCommand launches a       *)
(* coroutine on another thread that performs the handshake, establishes    *)
(* the VPN and forwards traffic, and shares the fields of the service with *)
(* the main thread.                                                        *)
(*                                                                         *)
(* Android is external: intents sent with sendBroadcast are delivered in   *)
(* order, startService and stopSelf turn into callbacks that are delivered *)
(* in order, and a callback runs when the main thread is idle.             *)
(*                                                                         *)
(* Instances of the service and coroutines are numbered; a coroutine's     *)
(* number also names the tunnel and the VPN interface it opened.           *)
(***************************************************************************)
EXTENDS Integers, Sequences, FiniteSets

CONSTANTS MaxStarts,       \* bound: connections the user asks for
          MaxGoodbyes,     \* bound: DISCONNECTs received in one connection
          Patient          \* the user connects only when all is quiet

ASSUME ServiceAssumption ==
          /\ MaxStarts \in Nat \ {0} /\ MaxGoodbyes \in Nat
          /\ Patient \in BOOLEAN

Ids == 1 .. MaxStarts

None == 0

VARIABLES
    vpnState,      \* vpnServiceState of the manager
    backStack,     \* of the NavController, the screen shown last
    recreated,     \* the activity has been re-created
    starts,        \* connections asked for so far
    overtaken,     \* history: disconnectVpn has met the last attempt inside
                   \* establishVpnConnection
    broadcasts,    \* intents on their way to the receivers
    callbacks,     \* onStartCommand and onDestroy, on their way
    record,        \* instance the system regards as started, or None
    instances,     \* instances the system has made a record of
    service,       \* the instance between onCreate and onDestroy, or None
    main,          \* what the main thread is doing
    vpnInterface, vpnTunnel, vpnConnected, isForwardingTraffic,
                   \* the fields of each instance
    owner,         \* instance of each coroutine, None before its launch
    pc,            \* where each coroutine is
    using,         \* interface and tunnel its forwarding loop was given
    goodbyes,      \* DISCONNECTs received since the last Connect
    tunnels,       \* tunnels that are open
    interfaces,    \* VPN interfaces that are up
    revoked        \* the permission was withdrawn

ui == <<vpnState, backStack, recreated, starts, overtaken>>
system == <<callbacks, record, instances>>
fields == <<vpnInterface, vpnTunnel, vpnConnected, isForwardingTraffic>>
jobs == <<owner, pc, using, goodbyes>>
devices == <<tunnels, interfaces>>
vars == <<ui, broadcasts, system, service, main, fields, jobs, devices, revoked>>

Screens == {"connect", "stats"}

VpnConnectionState == {"CONNECTING", "CONNECTED", "DISCONNECTING", "DISCONNECTED"}

Intents == {"STARTED", "STOPPED", "ERROR", "STOP"}

Callbacks == [name : {"onStartCommand", "onDestroy"}, for : Ids]

Idle == [at |-> "idle", for |-> None, then |-> "return"]

PCs == {"none", "handshake", "establish", "connect", "announce", "assign",
        "begin", "streams", "loop", "body", "quit", "fail", "end", "giveUp",
        "done"}

Init == /\ vpnState = "DISCONNECTED" /\ backStack = <<"connect">>
        /\ recreated = FALSE /\ starts = 0 /\ overtaken = FALSE
        /\ broadcasts = << >> /\ callbacks = << >>
        /\ record = None /\ instances = 0
        /\ service = None /\ main = Idle
        /\ vpnInterface = [i \in Ids |-> None]
        /\ vpnTunnel = [i \in Ids |-> None]
        /\ vpnConnected = [i \in Ids |-> FALSE]
        /\ isForwardingTraffic = [i \in Ids |-> FALSE]
        /\ owner = [j \in Ids |-> None] /\ pc = [j \in Ids |-> "none"]
        /\ using = [j \in Ids |-> [interface |-> None, tunnel |-> None]]
        /\ goodbyes = 0
        /\ tunnels = {} /\ interfaces = {} /\ revoked = FALSE

Send(intent) == broadcasts' = Append(broadcasts, intent)

MainIdle == main = Idle

-----------------------------------------------------------------------------
(* The screens and the manager, on the main thread. *)

screen == backStack[Len(backStack)]

Quiet == /\ broadcasts = << >> /\ callbacks = << >> /\ service = None
         /\ \A j \in Ids : pc[j] \in {"none", "done"}

(* The Connect button, and startVpnService. *)
Connect ==
    /\ MainIdle /\ screen = "connect" /\ vpnState # "CONNECTING"
    /\ starts < MaxStarts /\ (Patient => Quiet)
    /\ vpnState' = "CONNECTING" /\ starts' = starts + 1
    /\ overtaken' = FALSE
    /\ record' = IF record = None THEN instances + 1 ELSE record
    /\ instances' = IF record = None THEN instances + 1 ELSE instances
    /\ callbacks' = Append(callbacks, [name |-> "onStartCommand", for |-> record'])
    /\ goodbyes' = 0
    /\ UNCHANGED <<backStack, recreated, broadcasts, service, main, fields, owner,
                   pc, using, devices, revoked>>

(* The Disconnect button, and stopVpnService. *)
Disconnect ==
    /\ MainIdle /\ screen = "stats"
    /\ vpnState \notin {"DISCONNECTED", "DISCONNECTING"}
    /\ vpnState' = "DISCONNECTING" /\ Send("STOP")
    /\ UNCHANGED <<backStack, recreated, starts, overtaken, system, service,
                   main, fields, jobs, devices, revoked>>

(* The screens follow the state: a LaunchedEffect pushes the other screen, *)
(* and what was shown stays below it.                                      *)
Navigate ==
    /\ MainIdle
    /\ \/ screen = "connect" /\ vpnState = "CONNECTED"
          /\ backStack' = Append(backStack, "stats")
       \/ screen = "stats" /\ vpnState = "DISCONNECTED"
          /\ backStack' = Append(backStack, "connect")
    /\ UNCHANGED <<vpnState, recreated, starts, overtaken, broadcasts, system,
                   service, main, fields, jobs, devices, revoked>>

(* The NavHost pops a screen as long as there is one below it. *)
Back ==
    /\ MainIdle /\ Len(backStack) > 1
    /\ backStack' = SubSeq(backStack, 1, Len(backStack) - 1)
    /\ UNCHANGED <<vpnState, recreated, starts, overtaken, broadcasts, system,
                   service, main, fields, jobs, devices, revoked>>

(* A new activity makes a new manager, which begins DISCONNECTED.  After a *)
(* rotation of the device the back stack is restored; an activity that was *)
(* finished begins with a new one.  Once only.                             *)
Recreate ==
    /\ MainIdle /\ ~recreated
    /\ recreated' = TRUE /\ vpnState' = "DISCONNECTED"
    /\ backStack' \in {backStack, <<"connect">>}
    /\ UNCHANGED <<starts, overtaken, broadcasts, system, service, main, fields,
                   jobs, devices, revoked>>

Arrives(intents) ==
    /\ MainIdle /\ broadcasts # << >> /\ Head(broadcasts) \in intents
    /\ broadcasts' = Tail(broadcasts)

(* seeded bug: the receiver is registered for VPN_SERVICE_STARTED only *)
StateAfterStartedOnly(intent) == IF intent = "STARTED" THEN "CONNECTED" ELSE vpnState

(* seeded bug: nothing follows from STOPPED *)
StateAfterIgnoringStops(intent) ==
    CASE intent = "STARTED" -> "CONNECTED"
      [] intent = "ERROR" -> "DISCONNECTED"
      [] OTHER -> vpnState

StateAfter(intent) == IF intent = "STARTED" THEN "CONNECTED" ELSE "DISCONNECTED"

ManagerReceives ==
    /\ Arrives({"STARTED", "STOPPED", "ERROR"})
    /\ vpnState' = StateAfter(Head(broadcasts))
    /\ UNCHANGED <<backStack, recreated, starts, overtaken, system, service,
                   main, fields, jobs, devices, revoked>>

-----------------------------------------------------------------------------
(* The service, on the main thread. *)

(* stopSelf stops the instance the system knows, if i still is it.         *)
StopSelf(i) ==
    IF record = i
    THEN /\ record' = None
         /\ callbacks' = Append(callbacks, [name |-> "onDestroy", for |-> i])
         /\ UNCHANGED instances
    ELSE UNCHANGED system

Due(name) == MainIdle /\ callbacks # << >> /\ Head(callbacks).name = name

Launched == Cardinality({j \in Ids : owner[j] # None})

(* onCreate, if the instance is new, and onStartCommand: a coroutine.      *)
OnStartCommand ==
    /\ Due("onStartCommand")
    /\ callbacks' = Tail(callbacks)
    /\ service' = Head(callbacks).for
    /\ owner' = [owner EXCEPT ![Launched + 1] = Head(callbacks).for]
    /\ pc' = [pc EXCEPT ![Launched + 1] = "handshake"]
    /\ UNCHANGED <<ui, broadcasts, record, instances, main, fields, using,
                   goodbyes, devices, revoked>>

(* establishVpnConnection is running. *)
Establishing(j) == pc[j] \in {"handshake", "establish", "connect", "announce"}

(* disconnectVpn up to its wait, on behalf of onReceive or onDestroy.      *)
BeginDisconnect(i, then) ==
    /\ overtaken' = (overtaken \/ \E j \in Ids : owner[j] = i /\ Establishing(j))
    /\ vpnConnected' = [vpnConnected EXCEPT ![i] = FALSE]
    /\ main' = [at |-> "wait", for |-> i, then |-> then]
    /\ UNCHANGED <<vpnInterface, vpnTunnel, isForwardingTraffic>>

OnReceiveStop ==
    /\ Arrives({"STOP"}) /\ service # None
    /\ StopSelf(service)
    /\ BeginDisconnect(service, "return")
    /\ UNCHANGED <<vpnState, backStack, recreated, starts, service, jobs,
                   devices, revoked>>

(* No instance, no receiver. *)
StopIsLost ==
    /\ Arrives({"STOP"}) /\ service = None
    /\ UNCHANGED <<ui, system, service, main, fields, jobs, devices, revoked>>

OnDestroy ==
    /\ Due("onDestroy")
    /\ callbacks' = Tail(callbacks)
    /\ BeginDisconnect(Head(callbacks).for, "destroy")
    /\ UNCHANGED <<vpnState, backStack, recreated, starts, broadcasts, record,
                   instances, service, jobs, devices, revoked>>

(* seeded bug: nobody waits for the loop *)
NoWait(i) == TRUE

LoopHasEnded(i) == ~isForwardingTraffic[i]

AwaitLoop ==
    /\ main.at = "wait" /\ LoopHasEnded(main.for)
    /\ main' = [main EXCEPT !.at = "close"]
    /\ UNCHANGED <<ui, broadcasts, system, service, fields, jobs, devices, revoked>>

(* seeded bug: the interface is forgotten *)
CloseTunnel(i) ==
    /\ tunnels' = tunnels \ {vpnTunnel[i]}
    /\ UNCHANGED <<interfaces, vpnInterface>>

(* seeded bug: the closed interface is still referred to *)
KeepReference(i) ==
    /\ tunnels' = tunnels \ {vpnTunnel[i]}
    /\ interfaces' = interfaces \ {vpnInterface[i]}
    /\ UNCHANGED vpnInterface

CloseBoth(i) ==
    /\ tunnels' = tunnels \ {vpnTunnel[i]}
    /\ interfaces' = interfaces \ {vpnInterface[i]}
    /\ vpnInterface' = [vpnInterface EXCEPT ![i] = None]

(* What is there is closed, and the main thread goes on; the DISCONNECT    *)
(* message that is put together here is sent to nobody.                    *)
EndDisconnect ==
    /\ main.at = "close" /\ main' = Idle
    /\ IF vpnTunnel[main.for] # None
       THEN CloseBoth(main.for) ELSE UNCHANGED <<devices, vpnInterface>>
    /\ IF main.then = "destroy"
       THEN service' = None /\ Send("STOPPED")
       ELSE UNCHANGED <<service, broadcasts>>
    /\ UNCHANGED <<ui, system, vpnTunnel, vpnConnected, isForwardingTraffic,
                   jobs, revoked>>

(* The user withdraws the permission; onRevoke runs on a thread of the     *)
(* system.                                                                 *)
Revoke ==
    /\ ~revoked /\ revoked' = TRUE
    /\ IF service # None /\ vpnInterface[service] # None
       THEN /\ vpnConnected' = [vpnConnected EXCEPT ![service] = FALSE]
            /\ StopSelf(service)
       ELSE UNCHANGED <<vpnConnected, system>>
    /\ UNCHANGED <<ui, broadcasts, service, main, vpnInterface, vpnTunnel,
                   isForwardingTraffic, jobs, devices>>

-----------------------------------------------------------------------------
(* A coroutine. *)

Goto(j, from, to) == pc[j] = from /\ pc' = [pc EXCEPT ![j] = to]

(* The server's parameters arrive. *)
HandshakeSucceeds(j) ==
    /\ Goto(j, "handshake", "establish")
    /\ tunnels' = tunnels \cup {j}
    /\ UNCHANGED <<ui, broadcasts, system, service, main, fields, owner, using,
                   goodbyes, interfaces, revoked>>

(* They do not, or make no sense; the tunnel, if it was opened, stays open.*)
HandshakeFails(j) ==
    /\ Goto(j, "handshake", "giveUp")
    /\ tunnels' \in {tunnels, tunnels \cup {j}}
    /\ Send("ERROR")
    /\ UNCHANGED <<ui, system, service, main, fields, owner, using, goodbyes,
                   interfaces, revoked>>

(* establish() gives no interface to an app without the permission.        *)
Establish(j) ==
    /\ Goto(j, "establish", "connect")
    /\ vpnInterface' = [vpnInterface EXCEPT ![owner[j]] =
                          IF revoked THEN None ELSE j]
    /\ interfaces' = IF revoked THEN interfaces ELSE interfaces \cup {j}
    /\ UNCHANGED <<ui, broadcasts, system, service, main, vpnTunnel,
                   vpnConnected, isForwardingTraffic, owner, using, goodbyes,
                   tunnels, revoked>>

EstablishFails(j) ==
    /\ Goto(j, "establish", "giveUp") /\ Send("ERROR")
    /\ UNCHANGED <<ui, system, service, main, fields, owner, using, goodbyes,
                   devices, revoked>>

SetConnected(j) ==
    /\ Goto(j, "connect", "announce")
    /\ vpnConnected' = [vpnConnected EXCEPT ![owner[j]] = TRUE]
    /\ UNCHANGED <<ui, broadcasts, system, service, main, vpnInterface,
                   vpnTunnel, isForwardingTraffic, owner, using, goodbyes,
                   devices, revoked>>

Announce(j) ==
    /\ Goto(j, "announce", "assign") /\ Send("STARTED")
    /\ UNCHANGED <<ui, system, service, main, fields, owner, using, goodbyes,
                   devices, revoked>>

AssignTunnel(j) ==
    /\ Goto(j, "assign", "begin")
    /\ vpnTunnel' = [vpnTunnel EXCEPT ![owner[j]] = j]
    /\ UNCHANGED <<ui, broadcasts, system, service, main, vpnInterface,
                   vpnConnected, isForwardingTraffic, owner, using, goodbyes,
                   devices, revoked>>

BeginForwarding(j) ==
    /\ Goto(j, "begin", "streams")
    /\ isForwardingTraffic' = [isForwardingTraffic EXCEPT ![owner[j]] = TRUE]
    /\ UNCHANGED <<ui, broadcasts, system, service, main, vpnInterface,
                   vpnTunnel, vpnConnected, owner, using, goodbyes, devices,
                   revoked>>

(* A stream on no descriptor is an exception. *)
OpenStreams(j) ==
    /\ \/ /\ Goto(j, "streams", "loop") /\ vpnInterface[owner[j]] # None
          /\ using' = [using EXCEPT ![j] = [interface |-> vpnInterface[owner[j]],
                                            tunnel |-> vpnTunnel[owner[j]]]]
          /\ UNCHANGED broadcasts
       \/ /\ Goto(j, "streams", "fail") /\ vpnInterface[owner[j]] = None
          /\ Send("ERROR") /\ UNCHANGED using
    /\ UNCHANGED <<ui, system, service, main, fields, owner, goodbyes, devices,
                   revoked>>

(* seeded bug: only the interface is looked at *)
HasInterface(i) == vpnInterface[i] # None

MayForward(i) == vpnInterface[i] # None /\ vpnConnected[i]

LoopTest(j) ==
    /\ Goto(j, "loop", IF MayForward(owner[j]) THEN "body" ELSE "end")
    /\ UNCHANGED <<ui, broadcasts, system, service, main, fields, owner, using,
                   goodbyes, devices, revoked>>

(* Packets and keep-alives go either way, if both descriptors are open.    *)
Forward(j) ==
    /\ Goto(j, "body", "loop")
    /\ using[j].interface \in interfaces /\ using[j].tunnel \in tunnels
    /\ UNCHANGED <<ui, broadcasts, system, service, main, fields, owner, using,
                   goodbyes, devices, revoked>>

ForwardFails(j) ==
    /\ Goto(j, "body", "fail") /\ Send("ERROR")
    /\ UNCHANGED <<ui, system, service, main, fields, owner, using, goodbyes,
                   devices, revoked>>

(* DISCONNECT from the server, which sends it three times.                 *)
ServerDisconnects(j) ==
    /\ Goto(j, "body", "quit") /\ Send("ERROR")
    /\ using[j].tunnel \in tunnels /\ goodbyes < MaxGoodbyes
    /\ goodbyes' = goodbyes + 1
    /\ UNCHANGED <<ui, system, service, main, fields, owner, using, devices,
                   revoked>>

(* The end of stopSelfOnError, wherever it was called.                     *)
StopSelfOnError(j) ==
    /\ \/ Goto(j, "giveUp", "done") \/ Goto(j, "quit", "loop") \/ Goto(j, "fail", "end")
    /\ StopSelf(owner[j])
    /\ UNCHANGED <<ui, broadcasts, service, main, fields, owner, using,
                   goodbyes, devices, revoked>>

(* seeded bug: the flag is not reset when the loop ends *)
FlagStays(i) == UNCHANGED isForwardingTraffic

ResetFlag(i) == isForwardingTraffic' = [isForwardingTraffic EXCEPT ![i] = FALSE]

EndForwarding(j) ==
    /\ Goto(j, "end", "done")
    /\ ResetFlag(owner[j])
    /\ UNCHANGED <<ui, broadcasts, system, service, main, vpnInterface,
                   vpnTunnel, vpnConnected, owner, using, goodbyes, devices,
                   revoked>>

-----------------------------------------------------------------------------
Coroutine(j) ==
    \/ HandshakeSucceeds(j) \/ HandshakeFails(j)
    \/ Establish(j) \/ EstablishFails(j) \/ SetConnected(j) \/ Announce(j)
    \/ AssignTunnel(j) \/ BeginForwarding(j) \/ OpenStreams(j) \/ LoopTest(j)
    \/ Forward(j) \/ ForwardFails(j) \/ ServerDisconnects(j)
    \/ StopSelfOnError(j) \/ EndForwarding(j)

(* What the main thread does without the user. *)
Deliver  == ManagerReceives \/ OnReceiveStop \/ StopIsLost
CallBack == OnStartCommand \/ OnDestroy
DisconnectVpn == AwaitLoop \/ EndDisconnect

User == Connect \/ Disconnect \/ Back \/ Recreate

Next == \/ User \/ Revoke \/ Navigate
        \/ Deliver \/ CallBack \/ DisconnectVpn
        \/ \E j \in Ids : Coroutine(j)

Spec == Init /\ [][Next]_vars

(* Threads are scheduled, broadcasts and callbacks delivered; a handshake  *)
(* ends, since it makes a bounded number of attempts.                      *)
FairSpec == /\ Spec
            /\ WF_vars(Deliver) /\ WF_vars(CallBack) /\ WF_vars(DisconnectVpn)
            /\ \A j \in Ids : WF_vars(Coroutine(j))

-----------------------------------------------------------------------------
(* Properties. *)

TypeOK ==
    /\ vpnState \in VpnConnectionState
    /\ backStack \in Seq(Screens) /\ backStack # << >>
    /\ recreated \in BOOLEAN /\ starts \in 0 .. MaxStarts
    /\ overtaken \in BOOLEAN
    /\ broadcasts \in Seq(Intents)
    /\ callbacks \in Seq(Callbacks)
    /\ record \in Ids \cup {None} /\ instances \in 0 .. MaxStarts
    /\ service \in Ids \cup {None}
    /\ main \in [at : {"idle", "wait", "close"}, for : Ids \cup {None},
                 then : {"return", "destroy"}]
    /\ vpnInterface \in [Ids -> interfaces \cup {None}]
    /\ vpnTunnel \in [Ids -> Ids \cup {None}]
    /\ vpnConnected \in [Ids -> BOOLEAN]
    /\ isForwardingTraffic \in [Ids -> BOOLEAN]
    /\ owner \in [Ids -> Ids \cup {None}] /\ pc \in [Ids -> PCs]
    /\ using \in [Ids -> [interface : Ids \cup {None}, tunnel : Ids \cup {None}]]
    /\ goodbyes \in 0 .. MaxGoodbyes
    /\ tunnels \in SUBSET Ids /\ interfaces \in SUBSET Ids
    /\ revoked \in BOOLEAN

(* A disconnection closes no descriptor under the forwarding loop, which   *)
(* it told to stop and waited for (disconnectVpn), unless it had met the   *)
(* handshake, whose vpnConnected.set(true) comes afterwards.               *)
NoUseAfterClose ==
    \A j \in Ids : (pc[j] = "body" /\ ~overtaken) =>
        using[j].interface \in interfaces /\ using[j].tunnel \in tunnels

(* disconnectVpn, which blocks the main thread, returns, unless it had met *)
(* the handshake (disconnectVpn, forwardTraffic).                          *)
MainThreadReturns == main.at = "wait" ~> (MainIdle \/ overtaken)

(* A connection that is told to end, by DISCONNECT from the server or by a *)
(* disconnection that finds its loop running, leaves nothing behind: loop, *)
(* service, tunnel and interface are gone (forwardTraffic, stopSelfOnError,*)
(* disconnectVpn, onDestroy).                                              *)
ToldToEnd(j) ==
    \/ pc[j] = "quit"
    \/ main.at = "wait" /\ owner[j] = main.for /\ isForwardingTraffic[owner[j]]

StopReleases ==
    \A j \in Ids : (ToldToEnd(j) /\ ~overtaken) ~>
        pc[j] = "done" /\ service # owner[j] /\ j \notin interfaces \cup tunnels

(* A connection attempt is answered by VPN_SERVICE_STARTED or by an error, *)
(* unless a disconnection met it first (onStartCommand, stopSelfOnError).  *)
ConnectingEnds == vpnState = "CONNECTING" ~> (vpnState # "CONNECTING" \/ overtaken)

(* The screens show a connection only while its service is there or the    *)
(* news of its end is on the way behind STARTED, for a user who connects   *)
(* when all is quiet and unless a disconnection met the handshake          *)
(* (establishVpnConnection, onDestroy, the manager's receiver).            *)
NoGhostConnection ==
    (vpnState = "CONNECTED" /\ ~overtaken) =>
        service # None \/ \E n \in DOMAIN broadcasts : broadcasts[n] = "STOPPED"

(* A disconnection the user asked for is answered (onReceive, onDestroy).  *)
DisconnectConfirmed ==
    vpnState = "DISCONNECTING" ~> (vpnState # "DISCONNECTING" \/ overtaken)

Undisturbed == [](~revoked /\ ~recreated)

(* docs/Disconnect.txt: Disconnect stops the VPN service.  The interface   *)
(* is down in the end.                                                     *)
DisconnectStopsVpn ==
    Undisturbed => (vpnState = "DISCONNECTING" ~> interfaces = {})
=============================================================================
