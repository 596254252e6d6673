------------------------------ MODULE App_proofs ------------------------------
(***************************************************************************)
(* Proofs about the app.  Of ToyVpnService: type correctness for every     *)
(* user, and, for the user who connects only when all is quiet and as long *)
(* as no disconnection has met the handshake, that the forwarding loop     *)
(* uses no descriptor after it was closed and that no connection is shown  *)
(* that is not there.  Of Statistics: what is shown is what arrived.       *)
(***************************************************************************)
EXTENDS ToyVpnService, Statistics, FiniteSetTheorems, SequenceTheorems, TLAPS

(* Coroutines are launched in the order of their numbers, and an interface *)
(* is referred to by the instance whose coroutine opened it, only.         *)
LaunchInv ==
    /\ instances <= starts
    /\ \E n \in 0 .. MaxStarts : \A j \in Ids : owner[j] # None <=> j <= n
    /\ \A j \in Ids : pc[j] = "none" <=> owner[j] = None
    /\ main.at # "idle" => main.for # None
    /\ \A i \in Ids : vpnInterface[i] # None => owner[vpnInterface[i]] = i

Active(j) == pc[j] \notin {"none", "done"}

(* From vpnTunnel's assignment to the end of the forwarding loop. *)
Late(j) == pc[j] \in {"assign", "begin", "streams", "loop", "body", "quit",
                      "fail", "end"}

(* At most one callback is on its way: the start of the instance the       *)
(* system has just made a record of, or the end of the one that runs.      *)
CallbackInv ==
    /\ Len(callbacks) <= 1
    /\ \A n \in 1 .. Len(callbacks) :
         \/ /\ callbacks[n].name = "onStartCommand"
            /\ callbacks[n].for = record /\ service = None
            /\ \A j \in Ids : ~Active(j)
         \/ /\ callbacks[n].name = "onDestroy"
            /\ callbacks[n].for = service /\ record = None
    /\ (record # None /\ callbacks = << >>) => service = record

(* The main thread disconnects the instance that runs, which is stopped.   *)
MainInv ==
    main.at # "idle" =>
        /\ main.for = service /\ record = None
        /\ main.then = "destroy" => callbacks = << >>

(* One coroutine at a time, and what it finds at each stage as long as no  *)
(* disconnection has met the handshake.                                    *)
JobInv ==
    /\ \A j, k \in Ids : Active(j) /\ Active(k) => j = k
    /\ \A j \in Ids : ~overtaken =>
         /\ Establishing(j) => main.at = "idle" /\ service = owner[j]
         /\ pc[j] \in {"establish", "connect", "announce"} => j \in tunnels
         /\ (pc[j] \in {"connect", "announce"} \/ Late(j)) =>
               vpnInterface[owner[j]] \in {None, j}
         /\ (Late(j) /\ vpnConnected[owner[j]]) =>
               main.at = "idle" /\ service = owner[j] /\ j \in tunnels

(* What the forwarding loop works on, and that disconnectVpn sees it run.  *)
LoopInv ==
    \A j \in Ids : ~overtaken =>
        /\ (Late(j) /\ pc[j] # "assign") => vpnTunnel[owner[j]] = j
        /\ (Late(j) /\ pc[j] \notin {"assign", "begin"}) =>
              isForwardingTraffic[owner[j]]
        /\ pc[j] \in {"loop", "body", "quit"} =>
              using[j] = [interface |-> j, tunnel |-> j]
        /\ pc[j] = "body" =>
              /\ main.at # "close" /\ service = owner[j]
              /\ vpnInterface[owner[j]] = j /\ j \in tunnels

(* VPN_SERVICE_STARTED is on its way for the service that is there, or     *)
(* VPN_SERVICE_STOPPED comes behind it.                                    *)
NoticeInv ==
    \A n \in DOMAIN broadcasts : (broadcasts[n] = "STARTED" /\ ~overtaken) =>
        service # None \/ \E m \in DOMAIN broadcasts : m > n /\ broadcasts[m] = "STOPPED"

PatientInv == /\ CallbackInv /\ MainInv /\ JobInv /\ LoopInv
              /\ NoticeInv /\ NoGhostConnection

IInv == /\ TypeOK /\ LaunchInv
        /\ Patient => PatientInv

-----------------------------------------------------------------------------
(* Coroutines 1 .. n have been launched: n of them. *)
LEMMA LaunchedCounts ==
  ASSUME NEW n \in 0 .. MaxStarts, \A j \in Ids : owner[j] # None <=> j <= n
  PROVE  Launched = n
  <1>1. {j \in Ids : owner[j] # None} = 1 .. n
    BY ServiceAssumption DEF Ids
  <1>2. 1 \in Int /\ n \in Int /\ n >= 0
    BY ServiceAssumption
  <1>3. Cardinality(1 .. n) = n
    BY <1>2, FS_Interval
  <1> QED
    BY <1>1, <1>3 DEF Launched

(* stopSelf appends at most one callback, onDestroy. *)
LEMMA StopSelfTypes ==
  ASSUME TypeOK, NEW i \in Ids, StopSelf(i)
  PROVE  /\ record' \in Ids \cup {None} /\ callbacks' \in Seq(Callbacks)
         /\ instances' = instances
  <1>1. [name |-> "onDestroy", for |-> i] \in Callbacks
    BY DEF Callbacks
  <1>2. CASE record = i
    <2>1. /\ record' = None /\ instances' = instances
          /\ callbacks' = Append(callbacks, [name |-> "onDestroy", for |-> i])
      BY <1>2 DEF StopSelf
    <2>2. callbacks \in Seq(Callbacks)
      BY DEF TypeOK
    <2> QED
      BY <1>1, <2>1, <2>2
  <1>3. CASE record # i
    BY <1>3 DEF StopSelf, TypeOK, system
  <1> QED
    BY <1>2, <1>3

(* The callback that is due is one. *)
LEMMA DueTypes ==
  ASSUME TypeOK, callbacks # << >>
  PROVE  /\ Head(callbacks) \in Callbacks /\ Tail(callbacks) \in Seq(Callbacks)
         /\ Head(callbacks).for \in Ids
         /\ Head(callbacks).name \in {"onStartCommand", "onDestroy"}
  <1>1. Head(callbacks) \in Callbacks /\ Tail(callbacks) \in Seq(Callbacks)
    BY DEF TypeOK
  <1> QED
    BY <1>1 DEF Callbacks

(* Every step keeps the types. *)
LEMMA TypeStep ==
  ASSUME TypeOK, LaunchInv, [Next]_vars
  PROVE  TypeOK'
  <1> USE DEF TypeOK, LaunchInv, VpnConnectionState, Intents, PCs,
       ui, system, fields, jobs, devices
  <1>1. CASE Connect
    <2>1. record' \in Ids /\ starts' \in 0 .. MaxStarts /\ instances' \in 0 .. MaxStarts
      BY <1>1, ServiceAssumption DEF Connect, Ids, None
    <2>2. [name |-> "onStartCommand", for |-> record'] \in Callbacks
      BY <2>1 DEF Callbacks
    <2>3. callbacks' \in Seq(Callbacks)
      BY <1>1, <2>2 DEF Connect
    <2>4. goodbyes' \in 0 .. MaxGoodbyes
      BY <1>1, ServiceAssumption DEF Connect
    <2> QED
      BY <1>1, <2>1, <2>3, <2>4 DEF Connect
  <1>2. CASE Disconnect
    BY <1>2 DEF Disconnect, MainIdle, Idle, Send
  <1>3. CASE Back
    <2>1. /\ backStack \in Seq(Screens) /\ Len(backStack) > 1
          /\ backStack' = SubSeq(backStack, 1, Len(backStack) - 1)
      BY <1>3 DEF Back
    <2>2. backStack' \in Seq(Screens) /\ Len(backStack') = Len(backStack) - 1
      BY <2>1
    <2>3. Len(backStack') # Len(<< >>)
      BY <2>1, <2>2
    <2>4. backStack' # << >>
      BY <2>3, Zenon
    <2> QED
      BY <1>3, <2>2, <2>4 DEF Back, MainIdle, Idle
  <1>4. CASE Recreate
    <2>1. backStack' \in Seq(Screens) /\ backStack' # << >>
      <3>1. <<"connect">> \in Seq(Screens) /\ <<"connect">> # << >>
        BY DEF Screens
      <3> QED
        BY <1>4, <3>1 DEF Recreate
    <2> QED
      BY <1>4, <2>1 DEF Recreate, MainIdle, Idle
  <1>5. CASE Revoke
    <2>1. /\ record' \in Ids \cup {None} /\ callbacks' \in Seq(Callbacks)
          /\ instances' = instances
      BY <1>5, StopSelfTypes DEF Revoke
    <2> QED
      BY <1>5, <2>1 DEF Revoke
  <1>6. CASE Navigate
    <2>1. \E s \in Screens : backStack' = Append(backStack, s)
      BY <1>6 DEF Navigate, Screens
    <2>2. backStack' \in Seq(Screens) /\ Len(backStack') # Len(<< >>)
      BY <2>1
    <2>3. backStack' # << >>
      BY <2>2, Zenon
    <2> QED
      BY <1>6, <2>2, <2>3 DEF Navigate, MainIdle, Idle
  <1>7. CASE ManagerReceives
    BY <1>7 DEF ManagerReceives, Arrives, MainIdle, Idle, StateAfter
  <1>8. CASE OnReceiveStop
    <2>1. /\ record' \in Ids \cup {None} /\ callbacks' \in Seq(Callbacks)
          /\ instances' = instances
      BY <1>8, StopSelfTypes DEF OnReceiveStop
    <2> QED
      BY <1>8, <2>1 DEF OnReceiveStop, Arrives, BeginDisconnect
  <1>9. CASE StopIsLost
    BY <1>9 DEF StopIsLost, Arrives, MainIdle, Idle
  <1>10. CASE OnStartCommand
    <2>1. Head(callbacks).for \in Ids /\ callbacks' \in Seq(Callbacks)
      BY <1>10, DueTypes DEF OnStartCommand, Due
    <2>2. PICK n \in 0 .. MaxStarts : \A j \in Ids : owner[j] # None <=> j <= n
      OBVIOUS
    <2>3. Launched = n
      BY <2>2, LaunchedCounts
    <2>4. \A i \in Ids : vpnInterface[i] # None => owner'[vpnInterface[i]] = owner[vpnInterface[i]]
      BY <1>10, <2>2, <2>3 DEF OnStartCommand, Ids, None
    <2> QED
      BY ZenonT(40), <1>10, <2>1 DEF OnStartCommand
  <1>11. CASE OnDestroy
    <2>1. Head(callbacks).for \in Ids /\ callbacks' \in Seq(Callbacks)
      BY <1>11, DueTypes DEF OnDestroy, Due
    <2> QED
      BY <1>11, <2>1 DEF OnDestroy, BeginDisconnect
  <1>12. CASE AwaitLoop
    BY <1>12 DEF AwaitLoop, LoopHasEnded
  <1>13. CASE EndDisconnect
    <2>1. main.for \in Ids /\ main' \in [at : {"idle", "wait", "close"},
                                        for : Ids \cup {None}, then : {"return", "destroy"}]
      BY <1>13 DEF EndDisconnect, Idle
    <2>2. \A i \in Ids : (vpnInterface[i] = vpnInterface[main.for] /\ vpnInterface[i] # None)
                            => i = main.for
      BY <2>1
    <2>3. /\ vpnInterface' \in [Ids -> interfaces' \cup {None}]
          /\ tunnels' \in SUBSET Ids /\ interfaces' \in SUBSET Ids
      <3>1. CASE vpnTunnel[main.for] # None
        <4>1. /\ tunnels' = tunnels \ {vpnTunnel[main.for]}
              /\ interfaces' = interfaces \ {vpnInterface[main.for]}
              /\ vpnInterface' = [vpnInterface EXCEPT ![main.for] = None]
          BY <1>13, <3>1 DEF EndDisconnect, CloseBoth
        <4>2. \A i \in Ids : vpnInterface'[i] \in interfaces' \cup {None}
          BY <2>1, <2>2, <4>1
        <4> QED
          BY <4>1, <4>2
      <3>2. CASE vpnTunnel[main.for] = None
        BY <1>13, <3>2 DEF EndDisconnect
      <3> QED
        BY <3>1, <3>2
    <2>4. broadcasts' \in Seq(Intents) /\ service' \in Ids \cup {None}
      <3>1. CASE main.then = "destroy"
        <4>1. broadcasts' = Append(broadcasts, "STOPPED") /\ service' = None
          BY <1>13, <3>1 DEF EndDisconnect, Send
        <4>2. "STOPPED" \in Intents
          BY DEF Intents
        <4> QED
          BY <4>1, <4>2
      <3>2. CASE main.then # "destroy"
        BY <1>13, <3>2 DEF EndDisconnect
      <3> QED
        BY <3>1, <3>2
    <2> QED
      BY <1>13, <2>1, <2>3, <2>4 DEF EndDisconnect
  <1>14. CASE \E j \in Ids : HandshakeSucceeds(j)
    <2> PICK j \in Ids : HandshakeSucceeds(j)
      BY <1>14
    <2> QED
      BY DEF HandshakeSucceeds, Goto
  <1>15. CASE \E j \in Ids : HandshakeFails(j)
    <2> PICK j \in Ids : HandshakeFails(j)
      BY <1>15
    <2> QED
      BY DEF HandshakeFails, Goto, Send
  <1>16. CASE \E j \in Ids : Establish(j)
    <2> PICK j \in Ids : Establish(j)
      BY <1>16
    <2> QED
      BY DEF Establish, Goto
  <1>17. CASE \E j \in Ids : EstablishFails(j)
    <2> PICK j \in Ids : EstablishFails(j)
      BY <1>17
    <2> QED
      BY DEF EstablishFails, Goto, Send
  <1>18. CASE \E j \in Ids : SetConnected(j)
    <2> PICK j \in Ids : SetConnected(j)
      BY <1>18
    <2> QED
      BY DEF SetConnected, Goto
  <1>19. CASE \E j \in Ids : Announce(j)
    <2> PICK j \in Ids : Announce(j)
      BY <1>19
    <2> QED
      BY DEF Announce, Goto, Send
  <1>20. CASE \E j \in Ids : AssignTunnel(j)
    <2> PICK j \in Ids : AssignTunnel(j)
      BY <1>20
    <2> QED
      BY DEF AssignTunnel, Goto
  <1>21. CASE \E j \in Ids : BeginForwarding(j)
    <2> PICK j \in Ids : BeginForwarding(j)
      BY <1>21
    <2> QED
      BY DEF BeginForwarding, Goto
  <1>22. CASE \E j \in Ids : OpenStreams(j)
    <2> PICK j \in Ids : OpenStreams(j)
      BY <1>22
    <2> QED
      <3>1. using' \in [Ids -> [interface : Ids \cup {None}, tunnel : Ids \cup {None}]]
        <4>1. [interface |-> vpnInterface[owner[j]], tunnel |-> vpnTunnel[owner[j]]]
                \in [interface : Ids \cup {None}, tunnel : Ids \cup {None}]
          BY DEF OpenStreams, Goto
        <4> QED
          BY <4>1 DEF OpenStreams
      <3>2. pc' \in [Ids -> PCs] /\ broadcasts' \in Seq(Intents)
        <4>1. broadcasts' = broadcasts \/ broadcasts' = Append(broadcasts, "ERROR")
          BY DEF OpenStreams, Send
        <4>2. pc' = [pc EXCEPT ![j] = "loop"] \/ pc' = [pc EXCEPT ![j] = "fail"]
          BY DEF OpenStreams, Goto
        <4>3. broadcasts \in Seq(Intents) /\ "ERROR" \in Intents /\ pc \in [Ids -> PCs]
          OBVIOUS
        <4>4. pc' \in [Ids -> PCs]
          BY <4>2, <4>3
        <4>5. Append(broadcasts, "ERROR") \in Seq(Intents)
          BY <4>3
        <4> QED
          BY <4>1, <4>3, <4>4, <4>5, Zenon
      <3> QED
        BY <3>1, <3>2 DEF OpenStreams
  <1>23. CASE \E j \in Ids : LoopTest(j)
    <2> PICK j \in Ids : LoopTest(j)
      BY <1>23
    <2> QED
      BY DEF LoopTest, Goto, MayForward
  <1>24. CASE \E j \in Ids : Forward(j)
    <2> PICK j \in Ids : Forward(j)
      BY <1>24
    <2> QED
      BY DEF Forward, Goto
  <1>25. CASE \E j \in Ids : ForwardFails(j)
    <2> PICK j \in Ids : ForwardFails(j)
      BY <1>25
    <2> QED
      BY DEF ForwardFails, Goto, Send
  <1>26. CASE \E j \in Ids : ServerDisconnects(j)
    <2> PICK j \in Ids : ServerDisconnects(j)
      BY <1>26
    <2> QED
      <3>1. goodbyes' \in 0 .. MaxGoodbyes
        BY ServiceAssumption DEF ServerDisconnects
      <3> QED
        BY <3>1 DEF ServerDisconnects, Goto, Send
  <1>27. CASE \E j \in Ids : StopSelfOnError(j)
    <2> PICK j \in Ids : StopSelfOnError(j)
      BY <1>27
    <2> QED
      <3>1. owner[j] \in Ids
        BY DEF StopSelfOnError, Goto
      <3>2. /\ record' \in Ids \cup {None} /\ callbacks' \in Seq(Callbacks)
            /\ instances' = instances
        BY <3>1, StopSelfTypes DEF StopSelfOnError
      <3>3. pc' \in [Ids -> PCs]
        BY DEF StopSelfOnError, Goto
      <3> QED
        BY <3>2, <3>3 DEF StopSelfOnError
  <1>28. CASE \E j \in Ids : EndForwarding(j)
    <2> PICK j \in Ids : EndForwarding(j)
      BY <1>28
    <2> QED
      BY DEF EndForwarding, Goto, ResetFlag
  <1>29. CASE UNCHANGED vars
    BY <1>29 DEF vars
  <1> HIDE DEF TypeOK, LaunchInv, VpnConnectionState, Intents, PCs
  <1> QED
    BY <1>1, <1>2, <1>3, <1>4, <1>5, <1>6, <1>7, <1>8, <1>9, <1>10, <1>11, <1>12, <1>13, <1>14, <1>15, <1>16, <1>17, <1>18, <1>19, <1>20, <1>21, <1>22, <1>23, <1>24, <1>25, <1>26, <1>27, <1>28, <1>29
    DEF Next, User, Deliver, CallBack, DisconnectVpn, Coroutine

(* Every step keeps coroutines, instances and interfaces in order. *)
LEMMA LaunchStep ==
  ASSUME TypeOK, LaunchInv, [Next]_vars
  PROVE  LaunchInv'
  <1> USE DEF TypeOK, LaunchInv,
       ui, system, fields, jobs, devices
  <1>1. CASE Connect
    BY <1>1 DEF Connect, MainIdle, Idle, Quiet
  <1>2. CASE Disconnect
    BY <1>2 DEF Disconnect, MainIdle, Idle, Send
  <1>3. CASE Back
    BY <1>3 DEF Back, MainIdle, Idle
  <1>4. CASE Recreate
    BY <1>4 DEF Recreate, MainIdle, Idle
  <1>5. CASE Revoke
    BY <1>5 DEF Revoke, StopSelf
  <1>6. CASE Navigate
    BY <1>6 DEF Navigate, MainIdle, Idle
  <1>7. CASE ManagerReceives
    BY <1>7 DEF ManagerReceives, Arrives, MainIdle, Idle, StateAfter
  <1>8. CASE OnReceiveStop
    BY <1>8 DEF OnReceiveStop, Arrives, MainIdle, Idle, StopSelf, BeginDisconnect
  <1>9. CASE StopIsLost
    BY <1>9 DEF StopIsLost, Arrives, MainIdle, Idle
  <1>10. CASE OnStartCommand
    <2>1. Head(callbacks).for \in Ids
      BY <1>10, DueTypes DEF OnStartCommand, Due
    <2>2. PICK n \in 0 .. MaxStarts : \A j \in Ids : owner[j] # None <=> j <= n
      OBVIOUS
    <2>3. Launched = n
      BY <2>2, LaunchedCounts
    <2>4. /\ owner' = [owner EXCEPT ![n + 1] = Head(callbacks).for]
          /\ pc' = [pc EXCEPT ![n + 1] = "handshake"]
      BY <1>10, <2>3 DEF OnStartCommand
    <2>5. \E m \in 0 .. MaxStarts : \A j \in Ids : owner'[j] # None <=> j <= m
      <3>1. CASE n = MaxStarts
        <4>1. \A j \in Ids : owner'[j] = owner[j]
          BY <2>4, <3>1, ServiceAssumption DEF Ids
        <4> QED
          BY <2>2, <4>1
      <3>2. CASE n < MaxStarts
        <4>1. n + 1 \in 0 .. MaxStarts /\ \A j \in Ids : owner'[j] # None <=> j <= n + 1
          BY <2>1, <2>2, <2>4, <3>2, ServiceAssumption DEF Ids, None
        <4> QED
          BY <4>1
      <3> QED
        BY <3>1, <3>2, ServiceAssumption
    <2>6. \A j \in Ids : pc'[j] = "none" <=> owner'[j] = None
      BY <2>1, <2>4 DEF Ids, None
    <2>7. \A i \in Ids : vpnInterface[i] # None => owner'[vpnInterface[i]] = i
      BY <2>2, <2>4 DEF Ids, None
    <2> QED
      BY <1>10, <2>5, <2>6, <2>7 DEF OnStartCommand
  <1>11. CASE OnDestroy
    <2>1. Head(callbacks).for \in Ids
      BY <1>11, DueTypes DEF OnDestroy, Due
    <2>2. main'.for # None
      BY <1>11, <2>1 DEF OnDestroy, BeginDisconnect, Ids, None
    <2> QED
      BY <1>11, <2>2 DEF OnDestroy, BeginDisconnect
  <1>12. CASE AwaitLoop
    BY <1>12 DEF AwaitLoop, LoopHasEnded
  <1>13. CASE EndDisconnect
    BY <1>13 DEF EndDisconnect, CloseBoth, Idle, Send
  <1>14. CASE \E j \in Ids : HandshakeSucceeds(j)
    <2> PICK j \in Ids : HandshakeSucceeds(j)
      BY <1>14
    <2> QED
      BY DEF HandshakeSucceeds, Goto
  <1>15. CASE \E j \in Ids : HandshakeFails(j)
    <2> PICK j \in Ids : HandshakeFails(j)
      BY <1>15
    <2> QED
      BY DEF HandshakeFails, Goto, Send
  <1>16. CASE \E j \in Ids : Establish(j)
    <2> PICK j \in Ids : Establish(j)
      BY <1>16
    <2> QED
      BY DEF Establish, Goto
  <1>17. CASE \E j \in Ids : EstablishFails(j)
    <2> PICK j \in Ids : EstablishFails(j)
      BY <1>17
    <2> QED
      BY DEF EstablishFails, Goto, Send
  <1>18. CASE \E j \in Ids : SetConnected(j)
    <2> PICK j \in Ids : SetConnected(j)
      BY <1>18
    <2> QED
      BY DEF SetConnected, Goto
  <1>19. CASE \E j \in Ids : Announce(j)
    <2> PICK j \in Ids : Announce(j)
      BY <1>19
    <2> QED
      BY DEF Announce, Goto, Send
  <1>20. CASE \E j \in Ids : AssignTunnel(j)
    <2> PICK j \in Ids : AssignTunnel(j)
      BY <1>20
    <2> QED
      BY DEF AssignTunnel, Goto
  <1>21. CASE \E j \in Ids : BeginForwarding(j)
    <2> PICK j \in Ids : BeginForwarding(j)
      BY <1>21
    <2> QED
      BY DEF BeginForwarding, Goto
  <1>22. CASE \E j \in Ids : OpenStreams(j)
    <2> PICK j \in Ids : OpenStreams(j)
      BY <1>22
    <2> QED
      BY DEF OpenStreams, Goto, Send
  <1>23. CASE \E j \in Ids : LoopTest(j)
    <2> PICK j \in Ids : LoopTest(j)
      BY <1>23
    <2> QED
      BY DEF LoopTest, Goto, MayForward
  <1>24. CASE \E j \in Ids : Forward(j)
    <2> PICK j \in Ids : Forward(j)
      BY <1>24
    <2> QED
      BY DEF Forward, Goto
  <1>25. CASE \E j \in Ids : ForwardFails(j)
    <2> PICK j \in Ids : ForwardFails(j)
      BY <1>25
    <2> QED
      BY DEF ForwardFails, Goto, Send
  <1>26. CASE \E j \in Ids : ServerDisconnects(j)
    <2> PICK j \in Ids : ServerDisconnects(j)
      BY <1>26
    <2> QED
      BY DEF ServerDisconnects, Goto, Send
  <1>27. CASE \E j \in Ids : StopSelfOnError(j)
    <2> PICK j \in Ids : StopSelfOnError(j)
      BY <1>27
    <2> QED
      BY DEF StopSelfOnError, Goto, StopSelf
  <1>28. CASE \E j \in Ids : EndForwarding(j)
    <2> PICK j \in Ids : EndForwarding(j)
      BY <1>28
    <2> QED
      BY DEF EndForwarding, Goto, ResetFlag
  <1>29. CASE UNCHANGED vars
    BY <1>29 DEF vars
  <1> HIDE DEF TypeOK, LaunchInv
  <1> QED
    BY <1>1, <1>2, <1>3, <1>4, <1>5, <1>6, <1>7, <1>8, <1>9, <1>10, <1>11, <1>12, <1>13, <1>14, <1>15, <1>16, <1>17, <1>18, <1>19, <1>20, <1>21, <1>22, <1>23, <1>24, <1>25, <1>26, <1>27, <1>28, <1>29
    DEF Next, User, Deliver, CallBack, DisconnectVpn, Coroutine

-----------------------------------------------------------------------------
(* Callbacks of one connection only are on their way. *)
LEMMA CallbackStep ==
  ASSUME TypeOK, LaunchInv, PatientInv, Patient, [Next]_vars
  PROVE  CallbackInv'
  <1> USE DEF TypeOK, CallbackInv, MainInv, Active, Establishing, Late, PatientInv, JobInv, Idle, None, Ids,
       ui, system, fields, jobs, devices
  <1>1. CASE Connect
    BY <1>1 DEF Connect, MainIdle, Idle, Quiet
  <1>2. CASE Disconnect
    BY <1>2 DEF Disconnect, MainIdle, Idle, Send
  <1>3. CASE Back
    BY <1>3 DEF Back, MainIdle, Idle
  <1>4. CASE Recreate
    BY <1>4 DEF Recreate, MainIdle, Idle
  <1>5. CASE Revoke
    BY <1>5 DEF Revoke, StopSelf
  <1>6. CASE Navigate
    BY <1>6 DEF Navigate, MainIdle, Idle
  <1>7. CASE ManagerReceives
    BY <1>7 DEF ManagerReceives, Arrives, MainIdle, Idle, StateAfter
  <1>8. CASE OnReceiveStop
    BY <1>8 DEF OnReceiveStop, Arrives, MainIdle, Idle, StopSelf, BeginDisconnect
  <1>9. CASE StopIsLost
    BY <1>9 DEF StopIsLost, Arrives, MainIdle, Idle
  <1>10. CASE OnStartCommand
    BY <1>10 DEF OnStartCommand, Due, MainIdle, Idle
  <1>11. CASE OnDestroy
    BY <1>11 DEF OnDestroy, Due, MainIdle, Idle, BeginDisconnect
  <1>12. CASE AwaitLoop
    BY <1>12 DEF AwaitLoop, LoopHasEnded
  <1>13. CASE EndDisconnect
    BY <1>13 DEF EndDisconnect, CloseBoth, Idle, Send
  <1>14. CASE \E j \in Ids : HandshakeSucceeds(j)
    <2> PICK j \in Ids : HandshakeSucceeds(j)
      BY <1>14
    <2> QED
      BY DEF HandshakeSucceeds, Goto
  <1>15. CASE \E j \in Ids : HandshakeFails(j)
    <2> PICK j \in Ids : HandshakeFails(j)
      BY <1>15
    <2> QED
      BY DEF HandshakeFails, Goto, Send
  <1>16. CASE \E j \in Ids : Establish(j)
    <2> PICK j \in Ids : Establish(j)
      BY <1>16
    <2> QED
      BY DEF Establish, Goto
  <1>17. CASE \E j \in Ids : EstablishFails(j)
    <2> PICK j \in Ids : EstablishFails(j)
      BY <1>17
    <2> QED
      BY DEF EstablishFails, Goto, Send
  <1>18. CASE \E j \in Ids : SetConnected(j)
    <2> PICK j \in Ids : SetConnected(j)
      BY <1>18
    <2> QED
      BY DEF SetConnected, Goto
  <1>19. CASE \E j \in Ids : Announce(j)
    <2> PICK j \in Ids : Announce(j)
      BY <1>19
    <2> QED
      BY DEF Announce, Goto, Send
  <1>20. CASE \E j \in Ids : AssignTunnel(j)
    <2> PICK j \in Ids : AssignTunnel(j)
      BY <1>20
    <2> QED
      BY DEF AssignTunnel, Goto
  <1>21. CASE \E j \in Ids : BeginForwarding(j)
    <2> PICK j \in Ids : BeginForwarding(j)
      BY <1>21
    <2> QED
      BY DEF BeginForwarding, Goto
  <1>22. CASE \E j \in Ids : OpenStreams(j)
    <2> PICK j \in Ids : OpenStreams(j)
      BY <1>22
    <2> QED
      BY DEF OpenStreams, Goto, Send
  <1>23. CASE \E j \in Ids : LoopTest(j)
    <2> PICK j \in Ids : LoopTest(j)
      BY <1>23
    <2> QED
      BY DEF LoopTest, Goto, MayForward
  <1>24. CASE \E j \in Ids : Forward(j)
    <2> PICK j \in Ids : Forward(j)
      BY <1>24
    <2> QED
      BY DEF Forward, Goto
  <1>25. CASE \E j \in Ids : ForwardFails(j)
    <2> PICK j \in Ids : ForwardFails(j)
      BY <1>25
    <2> QED
      BY DEF ForwardFails, Goto, Send
  <1>26. CASE \E j \in Ids : ServerDisconnects(j)
    <2> PICK j \in Ids : ServerDisconnects(j)
      BY <1>26
    <2> QED
      BY DEF ServerDisconnects, Goto, Send
  <1>27. CASE \E j \in Ids : StopSelfOnError(j)
    <2> PICK j \in Ids : StopSelfOnError(j)
      BY <1>27
    <2> QED
      <3>1. Active(j) /\ owner[j] # None
        BY DEF StopSelfOnError, Goto, LaunchInv
      <3>2. \A k \in Ids : Active(k)' => Active(k)
        <4>1. /\ pc[j] \in {"giveUp", "quit", "fail"}
              /\ \E p \in PCs : pc' = [pc EXCEPT ![j] = p]
          BY DEF StopSelfOnError, Goto, PCs
        <4> QED
          BY <4>1
      <3>3. CASE record = owner[j]
        <4>1. callbacks = << >> /\ service = record
          BY <3>1, <3>3
        <4>2. callbacks' = <<[name |-> "onDestroy", for |-> record]>> /\ record' = None
          BY <3>3, <4>1 DEF StopSelfOnError, StopSelf
        <4>3. service' = service
          BY DEF StopSelfOnError
        <4>4. Len(callbacks') = 1 /\ callbacks' # << >> /\ callbacks'[1].name = "onDestroy"
              /\ callbacks'[1].for = service'
          BY <4>1, <4>2, <4>3
        <4> QED
          BY <4>2, <4>4
      <3>4. CASE record # owner[j]
        <4>1. UNCHANGED <<system, service, broadcasts, main, ui>>
          BY <3>4 DEF StopSelfOnError, StopSelf
        <4> QED
          BY <3>1, <3>2, <4>1
      <3> QED
        BY <3>3, <3>4
  <1>28. CASE \E j \in Ids : EndForwarding(j)
    <2> PICK j \in Ids : EndForwarding(j)
      BY <1>28
    <2> QED
      BY DEF EndForwarding, Goto, ResetFlag
  <1>29. CASE UNCHANGED vars
    BY <1>29 DEF vars
  <1> HIDE DEF TypeOK, CallbackInv, MainInv, Active, Establishing, Late, PatientInv, JobInv, Idle, None, Ids
  <1> QED
    BY <1>1, <1>2, <1>3, <1>4, <1>5, <1>6, <1>7, <1>8, <1>9, <1>10, <1>11, <1>12, <1>13, <1>14, <1>15, <1>16, <1>17, <1>18, <1>19, <1>20, <1>21, <1>22, <1>23, <1>24, <1>25, <1>26, <1>27, <1>28, <1>29
    DEF Next, User, Deliver, CallBack, DisconnectVpn, Coroutine

(* The main thread disconnects the instance that runs. *)
LEMMA MainStep ==
  ASSUME TypeOK, LaunchInv, PatientInv, Patient, [Next]_vars
  PROVE  MainInv'
  <1> USE DEF TypeOK, CallbackInv, MainInv, PatientInv, JobInv, Idle, None, Active, Establishing, Late,
       ui, system, fields, jobs, devices
  <1>1. CASE Connect
    BY <1>1 DEF Connect, MainIdle, Idle, Quiet
  <1>2. CASE Disconnect
    BY <1>2 DEF Disconnect, MainIdle, Idle, Send
  <1>3. CASE Back
    BY <1>3 DEF Back, MainIdle, Idle
  <1>4. CASE Recreate
    BY <1>4 DEF Recreate, MainIdle, Idle
  <1>5. CASE Revoke
    BY <1>5 DEF Revoke, StopSelf
  <1>6. CASE Navigate
    BY <1>6 DEF Navigate, MainIdle, Idle
  <1>7. CASE ManagerReceives
    BY <1>7 DEF ManagerReceives, Arrives, MainIdle, Idle, StateAfter
  <1>8. CASE OnReceiveStop
    BY <1>8 DEF OnReceiveStop, Arrives, MainIdle, Idle, StopSelf, BeginDisconnect
  <1>9. CASE StopIsLost
    BY <1>9 DEF StopIsLost, Arrives, MainIdle, Idle
  <1>10. CASE OnStartCommand
    BY <1>10 DEF OnStartCommand, Due, MainIdle, Idle
  <1>11. CASE OnDestroy
    <2>1. callbacks # << >> /\ Head(callbacks).name = "onDestroy"
      BY <1>11 DEF OnDestroy, Due
    <2>2. Head(callbacks) = callbacks[1] /\ 1 \in 1 .. Len(callbacks) /\ Tail(callbacks) = << >>
      BY <2>1
    <2>3. Head(callbacks).for = service /\ record = None
      BY <2>1, <2>2
    <2>4. service # None
      BY <2>1, <2>3, DueTypes DEF Ids
    <2>5. main'.for = service' /\ callbacks' = << >> /\ record' = None /\ service' # None
      BY <1>11, <2>2, <2>3, <2>4 DEF OnDestroy, BeginDisconnect
    <2> QED
      BY <2>5
  <1>12. CASE AwaitLoop
    BY <1>12 DEF AwaitLoop, LoopHasEnded
  <1>13. CASE EndDisconnect
    BY <1>13 DEF EndDisconnect, CloseBoth, Idle, Send
  <1>14. CASE \E j \in Ids : HandshakeSucceeds(j)
    <2> PICK j \in Ids : HandshakeSucceeds(j)
      BY <1>14
    <2> QED
      BY DEF HandshakeSucceeds, Goto
  <1>15. CASE \E j \in Ids : HandshakeFails(j)
    <2> PICK j \in Ids : HandshakeFails(j)
      BY <1>15
    <2> QED
      BY DEF HandshakeFails, Goto, Send
  <1>16. CASE \E j \in Ids : Establish(j)
    <2> PICK j \in Ids : Establish(j)
      BY <1>16
    <2> QED
      BY DEF Establish, Goto
  <1>17. CASE \E j \in Ids : EstablishFails(j)
    <2> PICK j \in Ids : EstablishFails(j)
      BY <1>17
    <2> QED
      BY DEF EstablishFails, Goto, Send
  <1>18. CASE \E j \in Ids : SetConnected(j)
    <2> PICK j \in Ids : SetConnected(j)
      BY <1>18
    <2> QED
      BY DEF SetConnected, Goto
  <1>19. CASE \E j \in Ids : Announce(j)
    <2> PICK j \in Ids : Announce(j)
      BY <1>19
    <2> QED
      BY DEF Announce, Goto, Send
  <1>20. CASE \E j \in Ids : AssignTunnel(j)
    <2> PICK j \in Ids : AssignTunnel(j)
      BY <1>20
    <2> QED
      BY DEF AssignTunnel, Goto
  <1>21. CASE \E j \in Ids : BeginForwarding(j)
    <2> PICK j \in Ids : BeginForwarding(j)
      BY <1>21
    <2> QED
      BY DEF BeginForwarding, Goto
  <1>22. CASE \E j \in Ids : OpenStreams(j)
    <2> PICK j \in Ids : OpenStreams(j)
      BY <1>22
    <2> QED
      BY DEF OpenStreams, Goto, Send
  <1>23. CASE \E j \in Ids : LoopTest(j)
    <2> PICK j \in Ids : LoopTest(j)
      BY <1>23
    <2> QED
      BY DEF LoopTest, Goto, MayForward
  <1>24. CASE \E j \in Ids : Forward(j)
    <2> PICK j \in Ids : Forward(j)
      BY <1>24
    <2> QED
      BY DEF Forward, Goto
  <1>25. CASE \E j \in Ids : ForwardFails(j)
    <2> PICK j \in Ids : ForwardFails(j)
      BY <1>25
    <2> QED
      BY DEF ForwardFails, Goto, Send
  <1>26. CASE \E j \in Ids : ServerDisconnects(j)
    <2> PICK j \in Ids : ServerDisconnects(j)
      BY <1>26
    <2> QED
      BY DEF ServerDisconnects, Goto, Send
  <1>27. CASE \E j \in Ids : StopSelfOnError(j)
    <2> PICK j \in Ids : StopSelfOnError(j)
      BY <1>27
    <2> QED
      <3>1. Active(j) /\ owner[j] # None
        BY DEF StopSelfOnError, Goto, LaunchInv
      <3>2. CASE record = owner[j]
        <4>1. service = record
          BY <3>1, <3>2
        <4>2. record' = None /\ main' = main /\ service' = service
          BY <3>2 DEF StopSelfOnError, StopSelf
        <4> QED
          BY <3>1, <3>2, <4>1, <4>2
      <3>3. CASE record # owner[j]
        <4>1. UNCHANGED <<record, callbacks, service, main>>
          BY <3>3 DEF StopSelfOnError, StopSelf
        <4> QED
          BY <4>1
      <3> QED
        BY <3>2, <3>3
  <1>28. CASE \E j \in Ids : EndForwarding(j)
    <2> PICK j \in Ids : EndForwarding(j)
      BY <1>28
    <2> QED
      BY DEF EndForwarding, Goto, ResetFlag
  <1>29. CASE UNCHANGED vars
    BY <1>29 DEF vars
  <1> HIDE DEF TypeOK, CallbackInv, MainInv, PatientInv, JobInv, Idle, None, Active, Establishing, Late
  <1> QED
    BY <1>1, <1>2, <1>3, <1>4, <1>5, <1>6, <1>7, <1>8, <1>9, <1>10, <1>11, <1>12, <1>13, <1>14, <1>15, <1>16, <1>17, <1>18, <1>19, <1>20, <1>21, <1>22, <1>23, <1>24, <1>25, <1>26, <1>27, <1>28, <1>29
    DEF Next, User, Deliver, CallBack, DisconnectVpn, Coroutine

(* One coroutine at a time. *)
LEMMA JobStep ==
  ASSUME TypeOK, LaunchInv, PatientInv, Patient, [Next]_vars
  PROVE  JobInv'
  <1> USE DEF TypeOK, LaunchInv, CallbackInv, MainInv, PatientInv, JobInv, Idle, None, Active, Establishing, Late,
       ui, system, fields, jobs, devices
  <1>1. CASE Connect
    BY <1>1 DEF Connect, MainIdle, Idle, Quiet
  <1>2. CASE Disconnect
    BY <1>2 DEF Disconnect, Send
  <1>3. CASE Back
    BY <1>3 DEF Back, MainIdle, Idle
  <1>4. CASE Recreate
    BY <1>4 DEF Recreate, MainIdle, Idle
  <1>5. CASE Revoke
    BY <1>5 DEF Revoke, StopSelf
  <1>6. CASE Navigate
    BY <1>6 DEF Navigate, MainIdle, Idle
  <1>7. CASE ManagerReceives
    BY <1>7 DEF ManagerReceives, Arrives, MainIdle, Idle, StateAfter
  <1>8. CASE OnReceiveStop
    BY <1>8 DEF OnReceiveStop, Arrives, MainIdle, Idle, StopSelf, BeginDisconnect
  <1>9. CASE StopIsLost
    BY <1>9 DEF StopIsLost, Arrives, MainIdle, Idle
  <1>10. CASE OnStartCommand
    BY <1>10 DEF OnStartCommand, Due, MainIdle, Idle
  <1>11. CASE OnDestroy
    <2>1. callbacks # << >> /\ Head(callbacks).name = "onDestroy"
      BY <1>11 DEF OnDestroy, Due
    <2>2. Head(callbacks) = callbacks[1] /\ 1 \in 1 .. Len(callbacks)
      BY <2>1
    <2>3. Head(callbacks).for = service /\ service \in Ids
      BY <2>1, <2>2, DueTypes
    <2>4. /\ vpnConnected' = [vpnConnected EXCEPT ![service] = FALSE]
          /\ UNCHANGED <<vpnInterface, service, jobs, devices>>
      BY <1>11, <2>3 DEF OnDestroy, BeginDisconnect
    <2>5. ~overtaken' => ~overtaken /\ \A j \in Ids : owner[j] = service => ~Establishing(j)
      BY <1>11, <2>3 DEF OnDestroy, BeginDisconnect
    <2> QED
      BY <2>3, <2>4, <2>5
  <1>12. CASE AwaitLoop
    BY <1>12 DEF AwaitLoop, LoopHasEnded
  <1>13. CASE EndDisconnect
    <2>1. /\ main.at = "close" /\ UNCHANGED <<ui, vpnConnected, jobs>>
          /\ vpnInterface' = vpnInterface
                \/ vpnInterface' = [vpnInterface EXCEPT ![main.for] = None]
      BY <1>13 DEF EndDisconnect, CloseBoth
    <2>2. \A j \in Ids : ~overtaken =>
             ~Establishing(j) /\ ~(Late(j) /\ vpnConnected[owner[j]])
      BY <2>1
    <2> QED
      BY <2>1, <2>2
  <1>14. CASE \E j \in Ids : HandshakeSucceeds(j)
    <2> PICK j \in Ids : HandshakeSucceeds(j)
      BY <1>14
    <2> QED
      BY DEF HandshakeSucceeds, Goto
  <1>15. CASE \E j \in Ids : HandshakeFails(j)
    <2> PICK j \in Ids : HandshakeFails(j)
      BY <1>15
    <2> QED
      BY DEF HandshakeFails, Goto, Send
  <1>16. CASE \E j \in Ids : Establish(j)
    <2> PICK j \in Ids : Establish(j)
      BY <1>16
    <2> QED
      BY DEF Establish, Goto
  <1>17. CASE \E j \in Ids : EstablishFails(j)
    <2> PICK j \in Ids : EstablishFails(j)
      BY <1>17
    <2> QED
      BY DEF EstablishFails, Goto, Send
  <1>18. CASE \E j \in Ids : SetConnected(j)
    <2> PICK j \in Ids : SetConnected(j)
      BY <1>18
    <2> QED
      <3>1. /\ pc[j] = "connect" /\ pc' = [pc EXCEPT ![j] = "announce"]
            /\ vpnConnected' = [vpnConnected EXCEPT ![owner[j]] = TRUE]
            /\ UNCHANGED <<ui, service, main, vpnInterface, owner, devices>>
        BY DEF SetConnected, Goto
      <3>2. \A k \in Ids : k # j => ~Active(k) /\ pc'[k] = pc[k]
        BY <3>1
      <3>3. \A k \in Ids : ~Late(k)' /\ (Active(k)' => k = j)
        BY <3>1, <3>2
      <3> QED
        BY <3>1, <3>2, <3>3
  <1>19. CASE \E j \in Ids : Announce(j)
    <2> PICK j \in Ids : Announce(j)
      BY <1>19
    <2> QED
      BY DEF Announce, Goto, Send
  <1>20. CASE \E j \in Ids : AssignTunnel(j)
    <2> PICK j \in Ids : AssignTunnel(j)
      BY <1>20
    <2> QED
      BY DEF AssignTunnel, Goto
  <1>21. CASE \E j \in Ids : BeginForwarding(j)
    <2> PICK j \in Ids : BeginForwarding(j)
      BY <1>21
    <2> QED
      BY DEF BeginForwarding, Goto
  <1>22. CASE \E j \in Ids : OpenStreams(j)
    <2> PICK j \in Ids : OpenStreams(j)
      BY <1>22
    <2> QED
      <3>1. /\ pc[j] = "streams" /\ UNCHANGED <<ui, system, service, main, fields, owner, devices>>
            /\ pc' = [pc EXCEPT ![j] = "loop"] \/ pc' = [pc EXCEPT ![j] = "fail"]
        BY DEF OpenStreams, Goto
      <3>2. \A k \in Ids : ~Establishing(k)' /\ (Active(k)' => Active(k)) /\ (Late(k)' => Late(k))
        BY <3>1
      <3> QED
        BY <3>1, <3>2
  <1>23. CASE \E j \in Ids : LoopTest(j)
    <2> PICK j \in Ids : LoopTest(j)
      BY <1>23
    <2> QED
      BY DEF LoopTest, Goto, MayForward
  <1>24. CASE \E j \in Ids : Forward(j)
    <2> PICK j \in Ids : Forward(j)
      BY <1>24
    <2> QED
      BY DEF Forward, Goto
  <1>25. CASE \E j \in Ids : ForwardFails(j)
    <2> PICK j \in Ids : ForwardFails(j)
      BY <1>25
    <2> QED
      BY DEF ForwardFails, Goto, Send
  <1>26. CASE \E j \in Ids : ServerDisconnects(j)
    <2> PICK j \in Ids : ServerDisconnects(j)
      BY <1>26
    <2> QED
      BY DEF ServerDisconnects, Goto, Send
  <1>27. CASE \E j \in Ids : StopSelfOnError(j)
    <2> PICK j \in Ids : StopSelfOnError(j)
      BY <1>27
    <2> QED
      <3>1. /\ pc[j] \in {"giveUp", "quit", "fail"}
            /\ UNCHANGED <<ui, service, main, fields, owner, devices, broadcasts>>
            /\ \/ pc[j] = "giveUp" /\ pc' = [pc EXCEPT ![j] = "done"]
               \/ pc[j] = "quit" /\ pc' = [pc EXCEPT ![j] = "loop"]
               \/ pc[j] = "fail" /\ pc' = [pc EXCEPT ![j] = "end"]
        BY DEF StopSelfOnError, Goto
      <3>2. \A k \in Ids : k # j => ~Establishing(k) /\ ~Active(k)
        BY <3>1
      <3>3. \A k \in Ids : ~Establishing(k)' /\ (Active(k)' => Active(k)) /\ (Late(k)' => Late(k))
        BY <3>1, <3>2
      <3> QED
        BY <3>1, <3>3
  <1>28. CASE \E j \in Ids : EndForwarding(j)
    <2> PICK j \in Ids : EndForwarding(j)
      BY <1>28
    <2> QED
      BY DEF EndForwarding, Goto, ResetFlag
  <1>29. CASE UNCHANGED vars
    BY <1>29 DEF vars
  <1> HIDE DEF TypeOK, LaunchInv, CallbackInv, MainInv, PatientInv, JobInv, Idle, None, Active, Establishing, Late
  <1> QED
    BY <1>1, <1>2, <1>3, <1>4, <1>5, <1>6, <1>7, <1>8, <1>9, <1>10, <1>11, <1>12, <1>13, <1>14, <1>15, <1>16, <1>17, <1>18, <1>19, <1>20, <1>21, <1>22, <1>23, <1>24, <1>25, <1>26, <1>27, <1>28, <1>29
    DEF Next, User, Deliver, CallBack, DisconnectVpn, Coroutine

(* The loop works on what is open. *)
LEMMA LoopStep ==
  ASSUME TypeOK, LaunchInv, PatientInv, Patient, [Next]_vars
  PROVE  LoopInv'
  <1> USE DEF TypeOK, LaunchInv, CallbackInv, MainInv, PatientInv, JobInv, LoopInv, Idle, None, Active, Establishing, Late,
       ui, system, fields, jobs, devices
  <1>1. CASE Connect
    BY <1>1 DEF Connect, MainIdle, Idle, Quiet
  <1>2. CASE Disconnect
    BY <1>2 DEF Disconnect, MainIdle, Idle, Send
  <1>3. CASE Back
    BY <1>3 DEF Back, MainIdle, Idle
  <1>4. CASE Recreate
    BY <1>4 DEF Recreate, MainIdle, Idle
  <1>5. CASE Revoke
    BY <1>5 DEF Revoke, StopSelf
  <1>6. CASE Navigate
    BY <1>6 DEF Navigate, MainIdle, Idle
  <1>7. CASE ManagerReceives
    BY <1>7 DEF ManagerReceives, Arrives, MainIdle, Idle, StateAfter
  <1>8. CASE OnReceiveStop
    BY <1>8 DEF OnReceiveStop, Arrives, MainIdle, Idle, StopSelf, BeginDisconnect
  <1>9. CASE StopIsLost
    BY <1>9 DEF StopIsLost, Arrives, MainIdle, Idle
  <1>10. CASE OnStartCommand
    BY <1>10 DEF OnStartCommand, Due, MainIdle, Idle
  <1>11. CASE OnDestroy
    BY <1>11 DEF OnDestroy, Due, MainIdle, Idle, BeginDisconnect
  <1>12. CASE AwaitLoop
    BY <1>12 DEF AwaitLoop, LoopHasEnded
  <1>13. CASE EndDisconnect
    <2>1. \A j \in Ids : ~overtaken => pc[j] # "body"
      BY <1>13 DEF EndDisconnect
    <2>2. UNCHANGED <<ui, vpnTunnel, isForwardingTraffic, jobs>>
      BY <1>13 DEF EndDisconnect
    <2> QED
      BY <2>1, <2>2
  <1>14. CASE \E j \in Ids : HandshakeSucceeds(j)
    <2> PICK j \in Ids : HandshakeSucceeds(j)
      BY <1>14
    <2> QED
      BY DEF HandshakeSucceeds, Goto
  <1>15. CASE \E j \in Ids : HandshakeFails(j)
    <2> PICK j \in Ids : HandshakeFails(j)
      BY <1>15
    <2> QED
      BY DEF HandshakeFails, Goto, Send
  <1>16. CASE \E j \in Ids : Establish(j)
    <2> PICK j \in Ids : Establish(j)
      BY <1>16
    <2> QED
      <3>1. \A k \in Ids : k # j => ~Active(k) /\ ~Late(k)' /\ ~Active(k)'
        BY DEF Establish, Goto
      <3>2. pc'[j] = "connect"
        BY DEF Establish, Goto
      <3> QED
        BY <3>1, <3>2
  <1>17. CASE \E j \in Ids : EstablishFails(j)
    <2> PICK j \in Ids : EstablishFails(j)
      BY <1>17
    <2> QED
      BY DEF EstablishFails, Goto, Send
  <1>18. CASE \E j \in Ids : SetConnected(j)
    <2> PICK j \in Ids : SetConnected(j)
      BY <1>18
    <2> QED
      BY DEF SetConnected, Goto
  <1>19. CASE \E j \in Ids : Announce(j)
    <2> PICK j \in Ids : Announce(j)
      BY <1>19
    <2> QED
      BY DEF Announce, Goto, Send
  <1>20. CASE \E j \in Ids : AssignTunnel(j)
    <2> PICK j \in Ids : AssignTunnel(j)
      BY <1>20
    <2> QED
      <3>1. \A k \in Ids : k # j => ~Active(k) /\ ~Late(k)' /\ ~Active(k)'
        BY DEF AssignTunnel, Goto
      <3>2. pc'[j] = "begin" /\ vpnTunnel'[owner'[j]] = j
        BY DEF AssignTunnel, Goto, LaunchInv
      <3> QED
        BY <3>1, <3>2
  <1>21. CASE \E j \in Ids : BeginForwarding(j)
    <2> PICK j \in Ids : BeginForwarding(j)
      BY <1>21
    <2> QED
      BY DEF BeginForwarding, Goto
  <1>22. CASE \E j \in Ids : OpenStreams(j)
    <2> PICK j \in Ids : OpenStreams(j)
      BY <1>22
    <2> QED
      <3>1. /\ pc[j] = "streams" /\ UNCHANGED <<ui, system, service, main, fields, owner, devices>>
            /\ pc' = [pc EXCEPT ![j] = "loop"] \/ pc' = [pc EXCEPT ![j] = "fail"]
        BY DEF OpenStreams, Goto
      <3>2. \A k \in Ids : k # j => ~Active(k)
        BY <3>1
      <3>3. ~overtaken => vpnTunnel[owner[j]] = j /\ isForwardingTraffic[owner[j]]
        BY <3>1
      <3>4. \A k \in Ids : k # j => ~Active(k)' /\ pc'[k] = pc[k]
        BY <3>1, <3>2
      <3>5. (pc'[j] = "loop" /\ ~overtaken) => using'[j] = [interface |-> j, tunnel |-> j]
        <4>1. SUFFICES ASSUME pc'[j] = "loop", ~overtaken
                       PROVE  using'[j] = [interface |-> j, tunnel |-> j]
          OBVIOUS
        <4>2. vpnInterface[owner[j]] # None /\
              using' = [using EXCEPT ![j] = [interface |-> vpnInterface[owner[j]],
                                             tunnel |-> vpnTunnel[owner[j]]]]
          BY <4>1 DEF OpenStreams, Goto
        <4>3. vpnInterface[owner[j]] = j
          BY <3>1, <4>1, <4>2
        <4> QED
          BY <3>3, <4>1, <4>2, <4>3
      <3> QED
        BY <3>1, <3>3, <3>4, <3>5
  <1>23. CASE \E j \in Ids : LoopTest(j)
    <2> PICK j \in Ids : LoopTest(j)
      BY <1>23
    <2> QED
      BY DEF LoopTest, Goto, MayForward
  <1>24. CASE \E j \in Ids : Forward(j)
    <2> PICK j \in Ids : Forward(j)
      BY <1>24
    <2> QED
      BY DEF Forward, Goto
  <1>25. CASE \E j \in Ids : ForwardFails(j)
    <2> PICK j \in Ids : ForwardFails(j)
      BY <1>25
    <2> QED
      BY DEF ForwardFails, Goto, Send
  <1>26. CASE \E j \in Ids : ServerDisconnects(j)
    <2> PICK j \in Ids : ServerDisconnects(j)
      BY <1>26
    <2> QED
      BY DEF ServerDisconnects, Goto, Send
  <1>27. CASE \E j \in Ids : StopSelfOnError(j)
    <2> PICK j \in Ids : StopSelfOnError(j)
      BY <1>27
    <2> QED
      <3>1. /\ UNCHANGED <<ui, service, main, fields, owner, devices, using>>
            /\ \/ pc[j] = "giveUp" /\ pc' = [pc EXCEPT ![j] = "done"]
               \/ pc[j] = "quit" /\ pc' = [pc EXCEPT ![j] = "loop"]
               \/ pc[j] = "fail" /\ pc' = [pc EXCEPT ![j] = "end"]
        BY DEF StopSelfOnError, Goto
      <3> QED
        BY <3>1
  <1>28. CASE \E j \in Ids : EndForwarding(j)
    <2> PICK j \in Ids : EndForwarding(j)
      BY <1>28
    <2> QED
      BY DEF EndForwarding, Goto, ResetFlag
  <1>29. CASE UNCHANGED vars
    BY <1>29 DEF vars
  <1> HIDE DEF TypeOK, LaunchInv, CallbackInv, MainInv, PatientInv, JobInv, LoopInv, Idle, None, Active, Establishing, Late
  <1> QED
    BY <1>1, <1>2, <1>3, <1>4, <1>5, <1>6, <1>7, <1>8, <1>9, <1>10, <1>11, <1>12, <1>13, <1>14, <1>15, <1>16, <1>17, <1>18, <1>19, <1>20, <1>21, <1>22, <1>23, <1>24, <1>25, <1>26, <1>27, <1>28, <1>29
    DEF Next, User, Deliver, CallBack, DisconnectVpn, Coroutine


(* What a step that sends, delivers, or does neither leaves of the notices.*)
LEMMA SendKeepsNotices ==
  ASSUME TypeOK, NoticeInv, NoGhostConnection, NEW x \in Intents, Send(x),
         overtaken' = overtaken, vpnState' = "CONNECTED" => vpnState = "CONNECTED",
         service' = service \/ x = "STOPPED",
         x = "STARTED" => service # None \/ overtaken
  PROVE  NoticeInv' /\ NoGhostConnection'
  <1> DEFINE last == Len(broadcasts) + 1
  <1>1. broadcasts \in Seq(Intents) /\ broadcasts' = Append(broadcasts, x)
    BY DEF TypeOK, Send
  <1>2. /\ DOMAIN broadcasts = 1 .. Len(broadcasts) /\ DOMAIN broadcasts' = 1 .. last
        /\ Len(broadcasts) \in Nat /\ broadcasts'[last] = x
        /\ \A n \in DOMAIN broadcasts : broadcasts'[n] = broadcasts[n]
    BY <1>1
  <1>3. CASE x = "STOPPED"
    <2>1. last \in DOMAIN broadcasts' /\ \A n \in DOMAIN broadcasts' : n < last \/ n = last
      BY <1>2
    <2> QED
      BY <1>2, <1>3, <2>1 DEF NoticeInv, NoGhostConnection
  <1>4. CASE x # "STOPPED"
    <2>1. service' = service
      BY <1>4
    <2>2. \A n \in DOMAIN broadcasts' : n \in DOMAIN broadcasts \/ n = last
      BY <1>2
    <2>3. DOMAIN broadcasts \subseteq DOMAIN broadcasts'
      BY <1>2
    <2> QED
      BY <1>2, <2>1, <2>2, <2>3 DEF NoticeInv, NoGhostConnection
  <1> QED
    BY <1>3, <1>4

LEMMA DeliveryKeepsNotices ==
  ASSUME TypeOK, NoticeInv, NoGhostConnection, broadcasts # << >>,
         broadcasts' = Tail(broadcasts), service' = service,
         ~overtaken' => ~overtaken,
         vpnState' = "CONNECTED" =>
            \/ Head(broadcasts) = "STARTED"
            \/ vpnState = "CONNECTED" /\ (Head(broadcasts) # "STOPPED" \/ service # None)
  PROVE  NoticeInv' /\ NoGhostConnection'
  <1>1. broadcasts \in Seq(Intents)
    BY DEF TypeOK
  <1>2. /\ DOMAIN broadcasts = 1 .. Len(broadcasts) /\ Len(broadcasts) \in Nat \ {0}
        /\ DOMAIN broadcasts' = 1 .. Len(broadcasts) - 1
        /\ \A n \in 1 .. Len(broadcasts) - 1 : broadcasts'[n] = broadcasts[n + 1]
        /\ Head(broadcasts) = broadcasts[1]
    BY <1>1
  <1>3. \A m \in DOMAIN broadcasts : m > 1 =>
           m - 1 \in DOMAIN broadcasts' /\ broadcasts'[m - 1] = broadcasts[m]
    BY <1>2
  <1>4. NoticeInv'
    <2> SUFFICES ASSUME NEW n \in DOMAIN broadcasts', broadcasts'[n] = "STARTED",
                        ~overtaken', service = None
                 PROVE  \E m \in DOMAIN broadcasts' : m > n /\ broadcasts'[m] = "STOPPED"
      BY DEF NoticeInv
    <2>1. n + 1 \in DOMAIN broadcasts /\ broadcasts[n + 1] = "STARTED" /\ n \in Int /\ n >= 1
      BY <1>2
    <2>2. PICK m \in DOMAIN broadcasts : m > n + 1 /\ broadcasts[m] = "STOPPED"
      BY <2>1 DEF NoticeInv
    <2>3. m \in Int /\ m > 1 /\ m - 1 > n
      BY <1>2, <2>1, <2>2
    <2> QED
      BY <1>3, <2>2, <2>3
  <1>5. NoGhostConnection'
    <2> SUFFICES ASSUME vpnState' = "CONNECTED", ~overtaken', service = None
                 PROVE  \E m \in DOMAIN broadcasts' : broadcasts'[m] = "STOPPED"
      BY DEF NoGhostConnection
    <2>1. \E m \in DOMAIN broadcasts : m > 1 /\ broadcasts[m] = "STOPPED"
      <3>1. CASE Head(broadcasts) = "STARTED"
        <4>1. 1 \in DOMAIN broadcasts /\ broadcasts[1] = "STARTED"
          BY <1>2, <3>1
        <4> QED
          BY <4>1 DEF NoticeInv
      <3>2. CASE Head(broadcasts) # "STARTED"
        <4>1. vpnState = "CONNECTED" /\ broadcasts[1] # "STOPPED"
          BY <1>2, <3>2
        <4>2. PICK m \in DOMAIN broadcasts : broadcasts[m] = "STOPPED"
          BY <4>1 DEF NoGhostConnection
        <4>3. m > 1
          BY <1>2, <4>1, <4>2
        <4> QED
          BY <4>2, <4>3
      <3> QED
        BY <3>1, <3>2
    <2> QED
      BY <1>3, <2>1
  <1> QED
    BY <1>4, <1>5

LEMMA OtherStepsKeepNotices ==
  ASSUME NoticeInv, NoGhostConnection, broadcasts' = broadcasts,
         service' = service \/ service' # None, ~overtaken' => ~overtaken,
         vpnState' = "CONNECTED" => vpnState = "CONNECTED"
  PROVE  NoticeInv' /\ NoGhostConnection'
  BY DEF NoticeInv, NoGhostConnection

(* VPN_SERVICE_STARTED is sent for the service that is there, and          *)
(* VPN_SERVICE_STOPPED behind it when the service ends.                    *)
LEMMA NoticeStep ==
  ASSUME TypeOK, LaunchInv, PatientInv, Patient, [Next]_vars
  PROVE  NoticeInv' /\ NoGhostConnection'
  <1>0. NoticeInv /\ NoGhostConnection
    BY DEF PatientInv
  <1> USE DEF ui, system, fields, jobs, devices
  <1>1. CASE Connect
    BY <1>1 DEF Connect, Quiet, NoticeInv, NoGhostConnection
  <1>2. CASE Disconnect
    <2>1. "STOP" \in Intents /\ vpnState' # "CONNECTED"
      BY <1>2 DEF Disconnect, Intents
    <2> QED
      BY <1>0, <1>2, <2>1, SendKeepsNotices DEF Disconnect
  <1>3. CASE Back \/ Recreate \/ Navigate
    BY <1>0, <1>3, OtherStepsKeepNotices DEF Back, Recreate, Navigate
  <1>4. CASE Revoke
    BY <1>0, <1>4, OtherStepsKeepNotices DEF Revoke
  <1>5. CASE ManagerReceives
    BY <1>0, <1>5, DeliveryKeepsNotices DEF ManagerReceives, Arrives, StateAfter
  <1>6. CASE OnReceiveStop
    <2>1. ~overtaken' => ~overtaken
      BY <1>6 DEF OnReceiveStop, BeginDisconnect
    <2>2. /\ broadcasts # << >> /\ broadcasts' = Tail(broadcasts)
          /\ Head(broadcasts) = "STOP" /\ service' = service /\ vpnState' = vpnState
      BY <1>6 DEF OnReceiveStop, Arrives
    <2> QED
      BY <1>0, <2>1, <2>2, DeliveryKeepsNotices
  <1>7. CASE StopIsLost
    BY <1>0, <1>7, DeliveryKeepsNotices DEF StopIsLost, Arrives
  <1>8. CASE OnStartCommand
    <2>1. service' # None
      BY <1>8, DueTypes DEF OnStartCommand, Due, Ids, None
    <2> QED
      BY <1>0, <1>8, <2>1, OtherStepsKeepNotices DEF OnStartCommand
  <1>9. CASE OnDestroy
    <2>1. ~overtaken' => ~overtaken
      BY <1>9 DEF OnDestroy, BeginDisconnect
    <2> QED
      BY <1>0, <1>9, <2>1, OtherStepsKeepNotices DEF OnDestroy
  <1>10. CASE AwaitLoop
    BY <1>0, <1>10, OtherStepsKeepNotices DEF AwaitLoop
  <1>11. CASE EndDisconnect
    <2>1. overtaken' = overtaken /\ vpnState' = vpnState
      BY <1>11 DEF EndDisconnect
    <2>2. CASE main.then = "destroy"
      <3>1. Send("STOPPED") /\ "STOPPED" \in Intents
        BY <1>11, <2>2 DEF EndDisconnect, Intents
      <3> QED
        BY <1>0, <2>1, <3>1, SendKeepsNotices
    <2>3. CASE main.then # "destroy"
      <3>1. service' = service /\ broadcasts' = broadcasts
        BY <1>11, <2>3 DEF EndDisconnect
      <3> QED
        BY <1>0, <2>1, <3>1, OtherStepsKeepNotices
    <2> QED
      BY <2>2, <2>3
  <1>12. CASE \E j \in Ids : Announce(j)
    <2> PICK j \in Ids : Announce(j)
      BY <1>12
    <2>1. "STARTED" \in Intents /\ Send("STARTED") /\ UNCHANGED <<ui, service>>
      BY DEF Announce, Intents
    <2>2. service # None \/ overtaken
      <3>1. Establishing(j) /\ owner[j] # None
        BY DEF Announce, Goto, Establishing, LaunchInv
      <3> QED
        BY <3>1 DEF PatientInv, JobInv
    <2> QED
      BY <1>0, <2>1, <2>2, SendKeepsNotices
  <1>13. CASE \E j \in Ids : HandshakeFails(j) \/ EstablishFails(j) \/ ForwardFails(j)
                             \/ ServerDisconnects(j)
    <2>1. "ERROR" \in Intents /\ Send("ERROR") /\ UNCHANGED <<ui, service>>
      BY <1>13 DEF HandshakeFails, EstablishFails, ForwardFails, ServerDisconnects, Intents
    <2> QED
      BY <1>0, <2>1, SendKeepsNotices
  <1>14. CASE \E j \in Ids : OpenStreams(j)
    <2>1. UNCHANGED <<ui, service>> /\ (broadcasts' = broadcasts \/ Send("ERROR"))
      BY <1>14 DEF OpenStreams
    <2>2. "ERROR" \in Intents
      BY DEF Intents
    <2> QED
      BY <1>0, <2>1, <2>2, SendKeepsNotices, OtherStepsKeepNotices
  <1>15. CASE \E j \in Ids : \/ HandshakeSucceeds(j) \/ Establish(j) \/ SetConnected(j)
                             \/ AssignTunnel(j) \/ BeginForwarding(j) \/ LoopTest(j)
                             \/ Forward(j) \/ StopSelfOnError(j) \/ EndForwarding(j)
    BY <1>0, <1>15, OtherStepsKeepNotices
    DEF HandshakeSucceeds, Establish, SetConnected, AssignTunnel, BeginForwarding,
        LoopTest, Forward, StopSelfOnError, EndForwarding
  <1>16. CASE UNCHANGED vars
    BY <1>0, <1>16, OtherStepsKeepNotices DEF vars
  <1> QED
    BY <1>1, <1>2, <1>3, <1>4, <1>5, <1>6, <1>7, <1>8, <1>9, <1>10, <1>11, <1>12, <1>13,
       <1>14, <1>15, <1>16
    DEF Next, User, Deliver, CallBack, DisconnectVpn, Coroutine

-----------------------------------------------------------------------------
(* Before anything was asked for there is nothing to be disturbed. *)
LEMMA ServiceInit == Init => IInv
  <1> SUFFICES ASSUME Init PROVE IInv
    OBVIOUS
  <1>1. TypeOK
    <2>1. recreated \in BOOLEAN /\ revoked \in BOOLEAN /\ overtaken \in BOOLEAN
      BY Zenon DEF Init
    <2>2. backStack \in Seq(Screens) /\ backStack # << >>
      BY DEF Init, Screens
    <2> QED
      BY <2>1, <2>2, ServiceAssumption DEF Init, TypeOK, VpnConnectionState, PCs, Idle, None
  <1>2. LaunchInv
    <2>1. \A j \in Ids : owner[j] # None <=> j <= 0
      BY DEF Init, Ids, None
    <2>2. 0 \in 0 .. MaxStarts
      BY ServiceAssumption
    <2> QED
      BY <2>1, <2>2 DEF Init, LaunchInv, Idle
  <1>3. PatientInv
    BY DEF Init, PatientInv, CallbackInv, MainInv, JobInv, LoopInv, NoticeInv,
           NoGhostConnection, Active, Establishing, Late, Idle, None
  <1> QED
    BY <1>1, <1>2, <1>3 DEF IInv

(* The invariant is inductive: for every user what TypeOK and LaunchInv    *)
(* say, for the patient one all of it.                                     *)
THEOREM ServiceInvariant == Spec => []IInv
  <1>1. IInv /\ [Next]_vars => IInv'
    <2> SUFFICES ASSUME IInv, [Next]_vars PROVE IInv'
      OBVIOUS
    <2>1. TypeOK /\ LaunchInv /\ TypeOK' /\ LaunchInv'
      BY TypeStep, LaunchStep DEF IInv
    <2>2. ASSUME Patient PROVE PatientInv'
      <3>1. PatientInv
        BY <2>2 DEF IInv
      <3>2. CallbackInv' /\ MainInv' /\ JobInv'
        BY <2>1, <2>2, <3>1, CallbackStep, MainStep, JobStep
      <3>3. LoopInv' /\ NoticeInv' /\ NoGhostConnection'
        BY <2>1, <2>2, <3>1, LoopStep, NoticeStep
      <3> QED
        BY <3>2, <3>3 DEF PatientInv
    <2> QED
      BY <2>1, <2>2 DEF IInv
  <1> QED
    BY ServiceInit, <1>1, PTL DEF Spec

(* Typing, whatever the user does; no instance refers to an interface that *)
(* was closed.                                                             *)
THEOREM ServiceTypeCorrect == Spec => []TypeOK
  BY ServiceInvariant, PTL DEF IInv

(* With one connection at a time the forwarding loop never works on a      *)
(* descriptor that disconnectVpn has closed, however screens, stop, error, *)
(* revocation and rotation interleave, unless a disconnection has met the  *)
(* handshake.                                                              *)
THEOREM LoopUsesOpenDescriptors ==
  ASSUME Patient
  PROVE  Spec => []NoUseAfterClose
  <1>1. IInv => NoUseAfterClose
    <2> SUFFICES ASSUME IInv, NEW j \in Ids, pc[j] = "body", ~overtaken
                 PROVE  using[j].interface \in interfaces /\ using[j].tunnel \in tunnels
      BY DEF NoUseAfterClose
    <2>1. LoopInv /\ TypeOK /\ LaunchInv
      BY DEF IInv, PatientInv
    <2>2. using[j] = [interface |-> j, tunnel |-> j] /\ vpnInterface[owner[j]] = j /\ j \in tunnels
      BY <2>1 DEF LoopInv
    <2>3. owner[j] \in Ids /\ j # None
      <3>1. owner[j] # None
        BY <2>1 DEF LaunchInv
      <3>2. owner \in [Ids -> Ids \cup {None}]
        BY <2>1 DEF TypeOK
      <3>3. j # None
        BY ServiceAssumption DEF Ids, None
      <3> QED
        BY <3>1, <3>2, <3>3
    <2>4. vpnInterface[owner[j]] \in interfaces \cup {None}
      <3>1. vpnInterface \in [Ids -> interfaces \cup {None}]
        BY <2>1 DEF TypeOK
      <3> QED
        BY <2>3, <3>1
    <2>5. j \in interfaces
      BY <2>2, <2>3, <2>4
    <2> QED
      BY <2>2, <2>5
  <1> QED
    BY ServiceInvariant, <1>1, PTL

(* With one connection at a time the screens show no connection whose      *)
(* service has ended, except while VPN_SERVICE_STOPPED is on its way to    *)
(* them and unless a disconnection has met the handshake.                  *)
THEOREM NoLateStarted ==
  ASSUME Patient
  PROVE  Spec => []NoGhostConnection
  <1>1. IInv => NoGhostConnection
    BY DEF IInv, PatientInv
  <1> QED
    BY ServiceInvariant, <1>1, PTL


-----------------------------------------------------------------------------
(* The statistics. *)

(* Where s has an element of S.                                            *)
Places(s, S) == {i \in DOMAIN s : s[i] \in S}

Analyses == {Analysed(w) : w \in Wire}
Message == [what : {"batch"}, data : Seq(Analyses)] \cup [what : {"apply"}, data : LiveData]
Counters == LiveData \ Range(Trackers)

StatisticsType ==
    /\ packetDataList \in Seq(Analyses) /\ batches \in Seq(Seq(Analyses))
    /\ looper \in Seq(Message)
    /\ clock \in Int /\ handled \in Seq([data : Analyses, at : Int])
    /\ domainData \in [Range(Trackers) -> [Names -> Seq(Int)]]
    /\ DOMAIN connections = Range(ConnectionCounts)
    /\ value = [f \in LiveData |-> value[f]] /\ pending = [f \in LiveData |-> pending[f]]
    /\ \A f \in Counters : value[f] \in Int /\ pending[f] \in Int \cup {Nothing}
    /\ \A t \in Range(Trackers) : pending[t] \in {<< >>, Nothing}

(* Each message in the looper applies a value that waits, and no two apply *)
(* the same.                                                               *)
Waits(msg) == msg.what = "apply" => pending[msg.data] # Nothing
Once(s) == \A i, j \in DOMAIN s :
    s[i].what = "apply" /\ s[j].what = "apply" /\ s[i].data = s[j].data => i = j
LooperInv == (\A i \in DOMAIN looper : Waits(looper[i])) /\ Once(looper)

(* Who has been seen is who has been recorded.                             *)
ConnectionsInv ==
    /\ connections["udpConnections"] = Seen("UDP")
    /\ connections["tcpConnections"] = Seen("TCP")

(* The entries of a name from any time on are as many as the names of the  *)
(* window that arrived from that time on.                                  *)
From(x) == {time \in Int : time >= x}
Arrived(t, n, x) == {i \in Recent(t) : handled[i].data[t] = n /\ handled[i].at >= x}
DomainsInv ==
    /\ \A i \in DOMAIN handled : handled[i].at <= clock
    /\ \A t \in Range(Trackers) : \A n \in Names :
          /\ \A j \in DOMAIN domainData[t][n] : domainData[t][n][j] <= clock
          /\ \A x \in Int : Cardinality(Places(domainData[t][n], From(x)))
                                = Cardinality(Arrived(t, n, x))

(* What a LiveData shows when all posts have been applied.                 *)
Coming(f) == IF pending[f] = Nothing THEN value[f] ELSE pending[f]
ShownInv ==
    /\ \A k \in Range(ConnectionCounts) : Coming(k) = Cardinality(connections[k])
    /\ \A f \in FlagCounts : f \notin missed => Coming(f) = Counted(f)
    /\ \A t \in Range(Trackers) : t \notin missed => IsTopList(t, Coming(t))

CountingInv == ConnectionsInv /\ DomainsInv /\ ShownInv
StatisticsInv == StatisticsType /\ LooperInv /\ CountingInv

-----------------------------------------------------------------------------
(* What a filter keeps. *)

(* Induction over the natural numbers, for a set: from the library's       *)
(* theorems about well-founded orderings.                                  *)
LEMMA NatSets ==
    ASSUME NEW S, 0 \in S, \A n \in Nat : n \in S => n + 1 \in S
    PROVE  \A n \in Nat : n \in S
  <1> DEFINE T == {0 .. n : n \in Nat \ S}
  <1>1. SUFFICES ASSUME NEW m \in Nat, m \notin S PROVE FALSE
    OBVIOUS
  <1>2. T \subseteq FiniteSubsetsOf(Nat)
    <2> SUFFICES ASSUME NEW n \in Nat PROVE 0 .. n \in FiniteSubsetsOf(Nat)
      OBVIOUS
    <2>1. IsFiniteSet(0 .. n)
      BY FS_Interval
    <2> QED
      BY <2>1 DEF FiniteSubsetsOf
  <1>3. T # {}
    BY <1>1
  <1>4. IsWellFoundedOn(StrictSubsetOrdering(Nat), FiniteSubsetsOf(Nat))
    BY FS_StrictSubsetOrderingWellFounded
  <1>5. PICK x \in T : \A y \in T : ~(<<y, x>> \in StrictSubsetOrdering(Nat))
    <2> HIDE DEF T
    <2> QED
      BY <1>2, <1>3, <1>4, WFMin
  <1>6. PICK n \in Nat \ S : x = 0 .. n
    BY <1>5
  <1>7. n # 0 /\ n - 1 \in Nat /\ n - 1 \notin S
    BY <1>1, <1>6
  <1>8. 0 .. n - 1 \in T
    BY <1>7
  <1>9. 0 .. n - 1 \subseteq 0 .. n /\ n \in 0 .. n /\ n \notin 0 .. n - 1
    BY <1>7
  <1>10. <<0 .. n - 1, 0 .. n>> \in StrictSubsetOrdering(Nat)
    <2>1. 0 .. n - 1 \in SUBSET Nat /\ 0 .. n \in SUBSET Nat
      OBVIOUS
    <2> QED
      BY <1>9, <2>1 DEF StrictSubsetOrdering
  <1> QED
    BY <1>5, <1>6, <1>8, <1>10

(* What is kept of one element more. *)
Grown(x, y, K) == IF y \in K THEN Append(x, y) ELSE x

(* What the recursion in Kept asks of a function.                          *)
Filters(f, s, K) ==
    f = [i \in 0 .. Len(s) |->
            IF i = 0 THEN << >> ELSE Grown(f[i - 1], s[i], K)]

(* It has exactly one solution, whose values are sequences.                *)
Filtered(f, s, K, A) ==
    /\ Filters(f, s, K) /\ f \in [0 .. Len(s) -> Seq(A)]
    /\ \A g : Filters(g, s, K) => g = f

LEMMA KeptFilters ==
    ASSUME NEW K, NEW A, NEW s, NEW f, Filtered(f, s, K, A)
    PROVE  Kept(s, K) = f[Len(s)]
  <1> DEFINE F == CHOOSE g : g = [i \in 0 .. Len(s) |->
                     IF i = 0 THEN << >> ELSE Grown(g[i - 1], s[i], K)]
  <1>1. Kept(s, K) = F[Len(s)]
    BY DEF Kept, Grown
  <1>2. F = f
    BY DEF Filters, Filtered
  <1> QED
    BY <1>1, <1>2

LEMMA FilteredEmpty ==
    ASSUME NEW K, NEW A
    PROVE  Filtered([i \in {0} |-> << >>], << >>, K, A)
  <1> DEFINE f == [i \in {0} |-> << >>]
  <1>1. Len(<< >>) = 0 /\ 0 .. 0 = {0} /\ << >> \in Seq(A)
    OBVIOUS
  <1>2. Filters(f, << >>, K) /\ f \in [{0} -> Seq(A)]
    BY <1>1 DEF Filters
  <1>3. ASSUME NEW g, Filters(g, << >>, K) PROVE g = f
    BY <1>1, <1>3 DEF Filters
  <1> QED
    BY <1>1, <1>2, <1>3 DEF Filtered

(* One element more. *)
LEMMA FilteredAppend ==
    ASSUME NEW K, NEW A, NEW s \in Seq(A), NEW t \in A, NEW f, Filtered(f, s, K, A)
    PROVE  \E g : /\ Filtered(g, Append(s, t), K, A)
                  /\ g[Len(s) + 1] = Grown(f[Len(s)], t, K)
  <1> DEFINE n == Len(s)
             more == Append(s, t)
             g == [i \in 0 .. n + 1 |-> IF i = n + 1 THEN Grown(f[n], t, K) ELSE f[i]]
  <1>1. /\ n \in Nat /\ Len(more) = n + 1 /\ more[n + 1] = t
        /\ \A i \in 1 .. n : more[i] = s[i]
    OBVIOUS
  <1>2. f \in [0 .. n -> Seq(A)]
    BY DEF Filtered
  <1>3. Grown(f[n], t, K) \in Seq(A)
    <2>1. f[n] \in Seq(A)
      BY <1>1, <1>2
    <2> QED
      BY <2>1 DEF Grown
  <1>4. g \in [0 .. n + 1 -> Seq(A)]
    BY <1>1, <1>2, <1>3
  <1>5. \A i \in 0 .. n : f[i] = IF i = 0 THEN << >> ELSE Grown(f[i - 1], s[i], K)
    <2>1. f = [i \in 0 .. n |-> IF i = 0 THEN << >> ELSE Grown(f[i - 1], s[i], K)]
      BY DEF Filtered, Filters
    <2> HIDE DEF n
    <2> QED
      BY <2>1
  <1>6. Filters(g, more, K)
    <2>1. ASSUME NEW i \in 0 .. n + 1
          PROVE  g[i] = IF i = 0 THEN << >> ELSE Grown(g[i - 1], more[i], K)
      <3>1. CASE i = n + 1
        <4>1. i # 0 /\ i - 1 = n /\ n \in 0 .. n + 1 /\ n # n + 1
          BY <1>1, <3>1
        <4>2. g[i - 1] = f[n] /\ g[i] = Grown(f[n], t, K)
          BY <3>1, <4>1
        <4> HIDE DEF g, n, more
        <4> QED
          BY <1>1, <3>1, <4>1, <4>2
      <3>2. CASE i # n + 1
        <4>1. i \in 0 .. n /\ g[i] = f[i]
          BY <1>1, <3>2
        <4>2. i # 0 => i - 1 \in 0 .. n /\ g[i - 1] = f[i - 1] /\ more[i] = s[i]
          BY <1>1, <3>2
        <4> QED
          BY <1>5, <4>1, <4>2
      <3> QED
        BY <3>1, <3>2
    <2>2. g = [i \in 0 .. n + 1 |-> g[i]]
      BY <1>4
    <2> HIDE DEF g, n, more
    <2> QED
      BY <1>1, <2>1, <2>2 DEF Filters
  <1>7. ASSUME NEW h, Filters(h, more, K) PROVE h = g
    <2> DEFINE r == [i \in 0 .. n |-> h[i]]
    <2>1. h = [i \in 0 .. n + 1 |->
                  IF i = 0 THEN << >> ELSE Grown(h[i - 1], more[i], K)]
      BY <1>1, <1>7 DEF Filters
    <2>2. \A i \in 0 .. n + 1 :
             h[i] = IF i = 0 THEN << >> ELSE Grown(h[i - 1], more[i], K)
      <3> HIDE DEF n, more
      <3> QED
        BY <2>1
    <2>3. ASSUME NEW i \in 0 .. n
          PROVE  r[i] = IF i = 0 THEN << >> ELSE Grown(r[i - 1], s[i], K)
      <3>1. i \in 0 .. n + 1 /\ (i # 0 => i - 1 \in 0 .. n /\ more[i] = s[i])
        BY <1>1
      <3>2. r[i] = h[i] /\ (i # 0 => r[i - 1] = h[i - 1])
        BY <3>1
      <3> QED
        BY <2>2, <3>1, <3>2
    <2>4. r = [i \in 0 .. n |-> IF i = 0 THEN << >> ELSE Grown(r[i - 1], s[i], K)]
      <3>1. r = [i \in 0 .. n |-> r[i]]
        OBVIOUS
      <3> HIDE DEF r, n
      <3> QED
        BY <2>3, <3>1
    <2>5. Filters(r, s, K)
      <3> HIDE DEF r
      <3> QED
        BY <2>4 DEF Filters
    <2>6. r = f
      <3> HIDE DEF r, n, more, g
      <3> QED
        BY <2>5 DEF Filtered
    <2>7. \A i \in 0 .. n : h[i] = f[i]
      BY <2>6
    <2>8. h[n + 1] = Grown(f[n], t, K)
      <3>1. n + 1 # 0 /\ n + 1 \in 0 .. n + 1 /\ n \in 0 .. n /\ (n + 1) - 1 = n
        BY <1>1
      <3>2. h[n + 1] = Grown(h[n], more[n + 1], K)
        <4> HIDE DEF n, more
        <4> QED
          BY <2>2, <3>1
      <3> QED
        BY <1>1, <2>7, <3>1, <3>2
    <2>9. h = [i \in 0 .. n + 1 |-> h[i]]
      <3> HIDE DEF n, more
      <3> QED
        BY <2>1
    <2>10. ASSUME NEW i \in 0 .. n + 1 PROVE h[i] = g[i]
      <3>1. CASE i = n + 1
        BY <2>8, <3>1
      <3>2. CASE i # n + 1
        <4>1. i \in 0 .. n
          BY <1>1, <3>2
        <4> QED
          BY <2>7, <3>2, <4>1
      <3> QED
        BY <3>1, <3>2
    <2> HIDE DEF n, g
    <2> QED
      BY <1>4, <2>9, <2>10
  <1>8. g[n + 1] = Grown(f[n], t, K)
    BY <1>1
  <1>9. Filtered(g, more, K, A)
    <2> HIDE DEF g, n, more
    <2> QED
      BY <1>1, <1>4, <1>6, <1>7 DEF Filtered
  <1> QED
    BY <1>8, <1>9

(* Every sequence is filtered by one: induction on its length.             *)
LEMMA EverySequenceFilters ==
    ASSUME NEW K, NEW A, NEW s \in Seq(A)
    PROVE  \E f : Filtered(f, s, K, A)
  <1> DEFINE S == {n \in Nat : \A r \in Seq(A) : Len(r) = n => \E f : Filtered(f, r, K, A)}
  <1>1. 0 \in S
    <2>1. ASSUME NEW r \in Seq(A), Len(r) = 0 PROVE \E f : Filtered(f, r, K, A)
      <3>1. r = << >>
        BY <2>1
      <3> QED
        BY <3>1, FilteredEmpty
    <2> QED
      BY <2>1
  <1>2. ASSUME NEW n \in Nat, n \in S PROVE n + 1 \in S
    <2>1. ASSUME NEW r \in Seq(A), Len(r) = n + 1 PROVE \E f : Filtered(f, r, K, A)
      <3> DEFINE front == SubSeq(r, 1, n)
      <3>1. /\ front \in Seq(A) /\ Len(front) = n
            /\ r[n + 1] \in A /\ r = Append(front, r[n + 1])
        BY <2>1
      <3>2. PICK f : Filtered(f, front, K, A)
        BY <1>2, <3>1
      <3> HIDE DEF front
      <3> QED
        BY ZenonT(40), <3>1, <3>2, FilteredAppend
    <2> QED
      BY <2>1
  <1> HIDE DEF S
  <1>3. Len(s) \in S
    BY <1>1, <1>2, NatSets
  <1> QED
    BY <1>3 DEF S

(* What is kept of a sequence is one. *)
LEMMA KeptType ==
    ASSUME NEW K, NEW A, NEW s \in Seq(A)
    PROVE  Kept(s, K) \in Seq(A)
  <1>1. PICK f : Filtered(f, s, K, A)
    BY EverySequenceFilters
  <1>2. f \in [0 .. Len(s) -> Seq(A)] /\ Len(s) \in 0 .. Len(s)
    BY <1>1 DEF Filtered
  <1> QED
    BY <1>1, <1>2, KeptFilters

(* One element more. *)
LEMMA KeptGrows ==
    ASSUME NEW K, NEW A, NEW s \in Seq(A), NEW t \in A
    PROVE  Kept(Append(s, t), K) = Grown(Kept(s, K), t, K)
  <1>1. PICK f : Filtered(f, s, K, A)
    BY EverySequenceFilters
  <1>2. PICK g : /\ Filtered(g, Append(s, t), K, A)
                 /\ g[Len(s) + 1] = Grown(f[Len(s)], t, K)
    BY <1>1, FilteredAppend
  <1>3. Len(Append(s, t)) = Len(s) + 1
    OBVIOUS
  <1> QED
    BY <1>1, <1>2, <1>3, KeptFilters

LEMMA KeptEmpty ==
    ASSUME NEW K
    PROVE  Kept(<< >>, K) = << >>
  <1>1. Filtered([i \in {0} |-> << >>], << >>, K, {})
    BY FilteredEmpty
  <1> QED
    BY <1>1, KeptFilters

LEMMA PlacesFinite ==
    ASSUME NEW A, NEW s \in Seq(A), NEW S
    PROVE  IsFiniteSet(Places(s, S)) /\ Cardinality(Places(s, S)) \in Nat
  <1>1. IsFiniteSet(1 .. Len(s)) /\ Places(s, S) \in SUBSET (1 .. Len(s))
    BY FS_Interval DEF Places
  <1> QED
    BY <1>1, FS_Subset, FS_CardinalityType

LEMMA NoPlaces ==
    ASSUME NEW S
    PROVE  Cardinality(Places(<< >>, S)) = 0
  <1>1. Places(<< >>, S) = {}
    BY DEF Places
  <1> QED
    BY <1>1, FS_EmptySet

LEMMA PlacesAppend ==
    ASSUME NEW A, NEW s \in Seq(A), NEW t \in A, NEW S
    PROVE  Cardinality(Places(Append(s, t), S)) =
               Cardinality(Places(s, S)) + IF t \in S THEN 1 ELSE 0
  <1> DEFINE n == Len(s)
  <1>1. /\ n \in Nat /\ DOMAIN s = 1 .. n /\ DOMAIN Append(s, t) = 1 .. n + 1
        /\ Append(s, t)[n + 1] = t /\ \A i \in 1 .. n : Append(s, t)[i] = s[i]
    OBVIOUS
  <1>2. Places(Append(s, t), S) = IF t \in S THEN Places(s, S) \cup {n + 1} ELSE Places(s, S)
    <2> HIDE DEF n
    <2>1. \A i \in 1 .. n + 1 : i \in 1 .. n \/ i = n + 1
      BY <1>1
    <2>2. n + 1 \in 1 .. n + 1 /\ 1 .. n \subseteq 1 .. n + 1
      BY <1>1
    <2> QED
      BY <1>1, <2>1, <2>2 DEF Places
  <1>3. n + 1 \notin Places(s, S)
    BY <1>1 DEF Places
  <1>4. IsFiniteSet(Places(s, S)) /\ Cardinality(Places(s, S)) \in Nat
    BY PlacesFinite
  <1>5. Cardinality(Places(s, S) \cup {n + 1}) = Cardinality(Places(s, S)) + 1
    BY <1>3, <1>4, FS_AddElement
  <1> QED
    BY <1>2, <1>4, <1>5

(* Two sequences have the places of both. *)
LEMMA PlacesConcat ==
    ASSUME NEW A, NEW a \in Seq(A), NEW b \in Seq(A), NEW S
    PROVE  Cardinality(Places(a \o b, S)) =
               Cardinality(Places(a, S)) + Cardinality(Places(b, S))
  <1> DEFINE n == Len(a)
             shifted == {n + i : i \in Places(b, S)}
             f == [i \in Places(b, S) |-> n + i]
  <1>1. /\ n \in Nat /\ Len(b) \in Nat /\ DOMAIN a = 1 .. n /\ DOMAIN b = 1 .. Len(b)
        /\ DOMAIN (a \o b) = 1 .. n + Len(b)
        /\ \A i \in 1 .. n : (a \o b)[i] = a[i]
        /\ \A i \in 1 .. Len(b) : (a \o b)[n + i] = b[i]
    OBVIOUS
  <1>2. Places(a \o b, S) = Places(a, S) \cup shifted
    <2> HIDE DEF n
    <2>1. ASSUME NEW i \in Places(a \o b, S) PROVE i \in Places(a, S) \cup {n + j : j \in Places(b, S)}
      <3>1. CASE i <= n
        <4>1. i \in 1 .. n
          BY <1>1, <2>1, <3>1 DEF Places
        <4> QED
          BY <1>1, <2>1, <4>1 DEF Places
      <3>2. CASE ~(i <= n)
        <4>1. i \in 1 .. n + Len(b) /\ (a \o b)[i] \in S
          BY <1>1, <2>1 DEF Places
        <4>2. i - n \in 1 .. Len(b) /\ n + (i - n) = i
          BY <1>1, <3>2, <4>1
        <4>3. i - n \in Places(b, S)
          BY <1>1, <4>1, <4>2 DEF Places
        <4> QED
          BY <4>2, <4>3
      <3> QED
        BY <3>1, <3>2
    <2>2. ASSUME NEW i \in Places(a, S) PROVE i \in Places(a \o b, S)
      <3>1. i \in 1 .. n /\ i \in 1 .. n + Len(b)
        BY <1>1, <2>2 DEF Places
      <3> QED
        BY <1>1, <2>2, <3>1 DEF Places
    <2>3. ASSUME NEW j \in Places(b, S) PROVE n + j \in Places(a \o b, S)
      <3>1. j \in 1 .. Len(b) /\ n + j \in 1 .. n + Len(b) /\ b[j] \in S
        BY <1>1, <2>3 DEF Places
      <3> QED
        BY <1>1, <3>1 DEF Places
    <2> QED
      BY <2>1, <2>2, <2>3
  <1>3. Places(a, S) \cap shifted = {}
    BY <1>1 DEF Places
  <1>4. /\ IsFiniteSet(Places(a, S)) /\ Cardinality(Places(a, S)) \in Nat
        /\ IsFiniteSet(Places(b, S)) /\ Cardinality(Places(b, S)) \in Nat
    BY PlacesFinite
  <1>5. f \in Bijection(Places(b, S), shifted)
    <2>1. f \in [Places(b, S) -> shifted]
      OBVIOUS
    <2>2. \A i, j \in Places(b, S) : f[i] = f[j] => i = j
      BY <1>1 DEF Places
    <2>3. \A k \in shifted : \E i \in Places(b, S) : f[i] = k
      OBVIOUS
    <2> HIDE DEF f, shifted
    <2> QED
      BY <2>1, <2>2, <2>3 DEF Bijection, Injection, Surjection, IsInjective
  <1>6. IsFiniteSet(shifted) /\ Cardinality(shifted) = Cardinality(Places(b, S))
    <2>1. ExistsBijection(Places(b, S), shifted)
      BY <1>5 DEF ExistsBijection
    <2> HIDE DEF shifted, f
    <2> QED
      BY <1>4, <2>1, FS_Bijection
  <1> HIDE DEF shifted
  <1>7. Cardinality(Places(a, S) \cup shifted) =
            Cardinality(Places(a, S)) + Cardinality(shifted) - Cardinality(Places(a, S) \cap shifted)
    BY <1>4, <1>6, FS_Union
  <1>8. Cardinality(Places(a, S) \cap shifted) = 0
    BY <1>3, FS_EmptySet
  <1> QED
    BY <1>2, <1>4, <1>6, <1>7, <1>8

(* What is kept is what is in K: induction on the length.                  *)
LEMMA KeptPlaces ==
    ASSUME NEW K, NEW A, NEW s \in Seq(A), NEW T
    PROVE  Cardinality(Places(Kept(s, K), T)) = Cardinality(Places(s, K \cap T))
  <1> DEFINE Same(r) == Cardinality(Places(Kept(r, K), T)) = Cardinality(Places(r, K \cap T))
             S == {n \in Nat : \A r \in Seq(A) : Len(r) = n => Same(r)}
  <1>1. 0 \in S
    <2>1. ASSUME NEW r \in Seq(A), Len(r) = 0 PROVE Same(r)
      <3>1. r = << >>
        BY <2>1
      <3> QED
        BY <3>1, KeptEmpty, NoPlaces
    <2> QED
      BY <2>1
  <1>2. ASSUME NEW n \in Nat, n \in S PROVE n + 1 \in S
    <2>1. ASSUME NEW r \in Seq(A), Len(r) = n + 1 PROVE Same(r)
      <3> DEFINE front == SubSeq(r, 1, n)
                 t == r[n + 1]
      <3>1. front \in Seq(A) /\ Len(front) = n /\ t \in A /\ r = Append(front, t)
        BY <2>1
      <3> HIDE DEF front, t
      <3>2. Same(front)
        BY <1>2, <3>1
      <3>3. Kept(r, K) = Grown(Kept(front, K), t, K) /\ Kept(front, K) \in Seq(A)
        BY <3>1, KeptGrows, KeptType
      <3>4. Cardinality(Places(r, K \cap T)) =
                Cardinality(Places(front, K \cap T)) + IF t \in K \cap T THEN 1 ELSE 0
        BY <3>1, PlacesAppend
      <3>5. Cardinality(Places(front, K \cap T)) \in Nat
        BY <3>1, PlacesFinite
      <3>6. CASE t \in K
        <4>1. Cardinality(Places(Append(Kept(front, K), t), T)) =
                  Cardinality(Places(Kept(front, K), T)) + IF t \in T THEN 1 ELSE 0
          BY <3>1, <3>3, PlacesAppend
        <4> QED
          BY <3>2, <3>3, <3>4, <3>6, <4>1 DEF Grown
      <3>7. CASE t \notin K
        BY <3>2, <3>3, <3>4, <3>5, <3>7 DEF Grown
      <3> QED
        BY <3>6, <3>7
    <2> HIDE DEF Same
    <2> QED
      BY <2>1
  <1> HIDE DEF S
  <1>3. Len(s) \in S
    BY <1>1, <1>2, NatSets
  <1> QED
    BY <1>3 DEF S

(* What is kept was there, and is in K. *)
LEMMA KeptMembers ==
    ASSUME NEW K, NEW A, NEW s \in Seq(A), NEW i \in DOMAIN Kept(s, K)
    PROVE  Kept(s, K)[i] \in K /\ \E j \in DOMAIN s : s[j] = Kept(s, K)[i]
  <1> DEFINE x == Kept(s, K)[i]
  <1>1. i \in Places(Kept(s, K), {x})
    BY DEF Places
  <1>2. Kept(s, K) \in Seq(A)
    BY KeptType
  <1>3. /\ IsFiniteSet(Places(Kept(s, K), {x})) /\ IsFiniteSet(Places(s, K \cap {x}))
    BY <1>2, PlacesFinite
  <1>4. Cardinality(Places(Kept(s, K), {x})) # 0
    <2> HIDE DEF x
    <2> QED
      BY <1>1, <1>3, FS_EmptySet
  <1>5. Cardinality(Places(s, K \cap {x})) # 0
    <2> HIDE DEF x
    <2> QED
      BY <1>4, KeptPlaces
  <1>6. Places(s, K \cap {x}) # {}
    <2> HIDE DEF x
    <2> QED
      BY <1>5, FS_EmptySet
  <1> QED
    BY <1>6 DEF Places

(* No element of a sequence without repetitions is kept twice.             *)
LEMMA KeptDistinct ==
    ASSUME NEW K, NEW A, NEW s \in Seq(A), \A i, j \in DOMAIN s : s[i] = s[j] => i = j,
           NEW i \in DOMAIN Kept(s, K), NEW j \in DOMAIN Kept(s, K),
           Kept(s, K)[i] = Kept(s, K)[j]
    PROVE  i = j
  <1> DEFINE x == Kept(s, K)[i]
             P == Places(Kept(s, K), {x})
             Q == Places(s, K \cap {x})
  <1>1. i \in P /\ j \in P
    BY DEF Places
  <1>2. Kept(s, K) \in Seq(A)
    BY KeptType
  <1>3. /\ IsFiniteSet(P) /\ Cardinality(P) \in Nat
        /\ IsFiniteSet(Q) /\ Cardinality(Q) \in Nat
    BY <1>2, PlacesFinite
  <1>4. Cardinality(P) = Cardinality(Q)
    <2> HIDE DEF x
    <2> QED
      BY KeptPlaces
  <1>5. x \in K /\ \E m \in DOMAIN s : s[m] = x
    BY KeptMembers
  <1>6. PICK m \in DOMAIN s : Q = {m}
    <2>1. PICK m \in DOMAIN s : s[m] = x
      BY <1>5
    <2>2. Q = {m}
      BY <1>5, <2>1 DEF Places
    <2> QED
      BY <2>2
  <1> HIDE DEF P, Q, x
  <1>7. Cardinality(P) = 1
    BY <1>4, <1>6, FS_Singleton
  <1>8. PICK y : P = {y}
    BY <1>3, <1>7, FS_Singleton
  <1> QED
    BY <1>1, <1>8

-----------------------------------------------------------------------------
(* What is posted. *)

(* Which LiveData there are, and that each is posted once.                 *)
LEMMA Shown ==
    /\ FlagCounts = {"packet", "IPv4", "IPv6", "UDP", "TCP", "DNS", "TLS"}
    /\ Range(ConnectionCounts) = {"udpConnections", "tcpConnections"}
    /\ Range(Trackers) = {"dnsQuery", "tlsServerName"}
    /\ LiveData = FlagCounts \cup Range(ConnectionCounts) \cup Range(Trackers)
    /\ Counters = FlagCounts \cup Range(ConnectionCounts)
  <1>1. FlagCounts = {"packet", "IPv4", "IPv6", "UDP", "TCP", "DNS", "TLS"}
    BY DEF FlagCounts, Range, Flags
  <1>2. Range(ConnectionCounts) = {"udpConnections", "tcpConnections"}
    BY DEF Range, ConnectionCounts
  <1>3. Range(Trackers) = {"dnsQuery", "tlsServerName"}
    BY DEF Range, Trackers
  <1>4. LiveData = {"packet", "IPv4", "IPv6", "UDP", "TCP", "DNS", "TLS",
                    "udpConnections", "tcpConnections", "dnsQuery", "tlsServerName"}
    BY DEF Range, LiveData, Flags, ConnectionCounts, Trackers
  <1> QED
    BY <1>1, <1>2, <1>3, <1>4 DEF Counters

(* Two sequences without repetitions, one after the other. *)
LEMMA Joined ==
    ASSUME NEW A, NEW a \in Seq(A), NEW b \in Seq(A),
           \A i, j \in DOMAIN a : a[i] = a[j] => i = j,
           \A i, j \in DOMAIN b : b[i] = b[j] => i = j,
           Range(a) \cap Range(b) = {}
    PROVE  /\ a \o b \in Seq(A) /\ Range(a \o b) = Range(a) \cup Range(b)
           /\ \A i, j \in DOMAIN (a \o b) : (a \o b)[i] = (a \o b)[j] => i = j
  <1> DEFINE n == Len(a)
             c == a \o b
  <1>1. /\ n \in Nat /\ Len(b) \in Nat /\ DOMAIN a = 1 .. n /\ DOMAIN b = 1 .. Len(b)
        /\ c \in Seq(A) /\ DOMAIN c = 1 .. n + Len(b)
        /\ \A i \in 1 .. n : c[i] = a[i]
        /\ \A i \in 1 .. Len(b) : c[n + i] = b[i]
    OBVIOUS
  <1> HIDE DEF c, n
  <1>2. ASSUME NEW i \in DOMAIN c
        PROVE  \/ i \in DOMAIN a /\ c[i] = a[i] /\ c[i] \in Range(a)
               \/ i - n \in DOMAIN b /\ c[i] = b[i - n] /\ c[i] \in Range(b)
    <2>1. CASE i <= n
      BY <1>1, <2>1 DEF Range
    <2>2. CASE ~(i <= n)
      <3>1. i \in 1 .. n + Len(b)
        BY <1>1
      <3>2. i - n \in 1 .. Len(b) /\ n + (i - n) = i
        BY <1>1, <2>2, <3>1
      <3> QED
        BY <1>1, <3>2 DEF Range
    <2> QED
      BY <2>1, <2>2
  <1>3. ASSUME NEW i \in DOMAIN c, NEW j \in DOMAIN c, c[i] = c[j] PROVE i = j
    <2>1. CASE i - n \in DOMAIN b /\ c[i] = b[i - n] /\ j - n \in DOMAIN b /\ c[j] = b[j - n]
      <3>1. i - n = j - n
        BY <1>3, <2>1
      <3> QED
        BY <1>1, <3>1
    <2>2. CASE i \in DOMAIN a /\ c[i] = a[i] /\ j \in DOMAIN a /\ c[j] = a[j]
      BY <1>3, <2>2
    <2> QED
      BY <1>2, <1>3, <2>1, <2>2
  <1>4. Range(c) = Range(a) \cup Range(b)
    <2>1. Range(c) \subseteq Range(a) \cup Range(b)
      BY <1>2 DEF Range
    <2>2. ASSUME NEW x \in Range(a) PROVE x \in Range(c)
      <3>1. PICK i \in 1 .. n : a[i] = x
        BY <1>1 DEF Range
      <3>2. i \in 1 .. n + Len(b)
        BY <1>1
      <3> QED
        BY <1>1, <3>1, <3>2 DEF Range
    <2>3. ASSUME NEW x \in Range(b) PROVE x \in Range(c)
      <3>1. PICK i \in 1 .. Len(b) : b[i] = x
        BY <1>1 DEF Range
      <3>2. n + i \in 1 .. n + Len(b)
        BY <1>1
      <3> QED
        BY <1>1, <3>1, <3>2 DEF Range
    <2> QED
      BY <2>1, <2>2, <2>3
  <1> QED
    BY <1>1, <1>3, <1>4 DEF c

LEMMA PostedOnBatch ==
    /\ Flags \o ConnectionCounts \in Seq(LiveData) /\ Range(Flags \o ConnectionCounts) = Counters
    /\ \A i, j \in DOMAIN (Flags \o ConnectionCounts) :
          (Flags \o ConnectionCounts)[i] = (Flags \o ConnectionCounts)[j] => i = j
  <1>1. Flags \in Seq(LiveData) /\ ConnectionCounts \in Seq(LiveData)
    BY Shown DEF Flags, ConnectionCounts
  <1>2. \A i, j \in DOMAIN Flags : Flags[i] = Flags[j] => i = j
    BY DEF Flags
  <1>3. \A i, j \in DOMAIN ConnectionCounts : ConnectionCounts[i] = ConnectionCounts[j] => i = j
    BY DEF ConnectionCounts
  <1>4. Range(Flags) \cap Range(ConnectionCounts) = {} /\ Range(Flags) = FlagCounts
    BY Shown DEF FlagCounts
  <1> QED
    BY <1>1, <1>2, <1>3, <1>4, Shown, Joined

LEMMA PostedOnConnect ==
    LET fs == Flags \o ConnectionCounts \o Trackers IN
    /\ fs \in Seq(LiveData) /\ Range(fs) = LiveData
    /\ \A i, j \in DOMAIN fs : fs[i] = fs[j] => i = j
  <1>1. Trackers \in Seq(LiveData)
    BY Shown DEF Trackers
  <1>2. \A i, j \in DOMAIN Trackers : Trackers[i] = Trackers[j] => i = j
    BY DEF Trackers
  <1>3. Counters \cap Range(Trackers) = {} /\ LiveData = Counters \cup Range(Trackers)
    BY Shown
  <1> DEFINE fs == Flags \o ConnectionCounts
  <1> HIDE DEF fs
  <1>4. /\ fs \in Seq(LiveData) /\ Range(fs) = Counters
        /\ \A i, j \in DOMAIN fs : fs[i] = fs[j] => i = j
    BY PostedOnBatch DEF fs
  <1>5. /\ fs \o Trackers \in Seq(LiveData) /\ Range(fs \o Trackers) = LiveData
        /\ \A i, j \in DOMAIN (fs \o Trackers) : (fs \o Trackers)[i] = (fs \o Trackers)[j] => i = j
    <2>1. Range(fs \o Trackers) = Range(fs) \cup Range(Trackers)
      BY <1>1, <1>2, <1>3, <1>4, Joined
    <2>2. fs \o Trackers \in Seq(LiveData)
      BY <1>1, <1>2, <1>3, <1>4, Joined
    <2>3. \A i, j \in DOMAIN (fs \o Trackers) : (fs \o Trackers)[i] = (fs \o Trackers)[j] => i = j
      BY <1>1, <1>2, <1>3, <1>4, Joined
    <2> QED
      BY <1>3, <1>4, <2>1, <2>2, <2>3
  <1> QED
    BY <1>5 DEF fs

(* What the analysis says of names.                                        *)
LEMMA NamesAnalysed ==
    ASSUME NEW a \in Analyses, NEW t \in Range(Trackers)
    PROVE  a[t] \in Names \cup {Nothing}
  <1>1. PICK w \in Wire : a = Analysed(w)
    BY DEF Analyses
  <1>2. w.name \in Names \cup {Nothing}
    BY DEF Names
  <1>3. a.dnsQuery \in Names \cup {Nothing} /\ a.tlsServerName \in Names \cup {Nothing}
    <2>1. a.dnsQuery \in {w.name, Nothing}
      BY <1>1 DEF Analysed
    <2>2. a.tlsServerName \in {w.name, Nothing}
      BY <1>1 DEF Analysed
    <2> QED
      BY <1>2, <2>1, <2>2
  <1> QED
    BY <1>3, Shown

-----------------------------------------------------------------------------
(* The looper. *)

(* Messages put behind others that apply other values. *)
LEMMA OnceConcat ==
    ASSUME NEW a \in Seq(Message), NEW b \in Seq(Message), Once(a), Once(b),
           \A i \in DOMAIN a : \A j \in DOMAIN b :
               a[i].what = "apply" /\ b[j].what = "apply" => a[i].data # b[j].data
    PROVE  Once(a \o b)
  <1> DEFINE n == Len(a)
             c == a \o b
  <1>1. /\ n \in Nat /\ Len(b) \in Nat /\ DOMAIN a = 1 .. n /\ DOMAIN b = 1 .. Len(b)
        /\ DOMAIN c = 1 .. n + Len(b)
        /\ \A i \in 1 .. n : c[i] = a[i]
        /\ \A i \in 1 .. Len(b) : c[n + i] = b[i]
    OBVIOUS
  <1>2. ASSUME NEW i \in DOMAIN c PROVE \/ i \in DOMAIN a /\ c[i] = a[i]
                                        \/ i - n \in DOMAIN b /\ c[i] = b[i - n]
    <2>1. CASE i <= n
      BY <1>1, <2>1
    <2>2. CASE ~(i <= n)
      <3> HIDE DEF n, c
      <3>1. i \in 1 .. n + Len(b)
        BY <1>1
      <3>2. i - n \in 1 .. Len(b) /\ n + (i - n) = i
        BY <1>1, <2>2, <3>1
      <3> QED
        BY <1>1, <3>2
    <2> QED
      BY <2>1, <2>2
  <1> HIDE DEF c, n
  <1>3. ASSUME NEW i \in DOMAIN c, NEW j \in DOMAIN c, c[i].what = "apply",
               c[j].what = "apply", c[i].data = c[j].data
        PROVE  i = j
    <2>1. CASE i \in DOMAIN a /\ c[i] = a[i] /\ j \in DOMAIN a /\ c[j] = a[j]
      BY <1>3, <2>1 DEF Once
    <2>2. CASE i - n \in DOMAIN b /\ c[i] = b[i - n] /\ j - n \in DOMAIN b /\ c[j] = b[j - n]
      <3>1. i - n = j - n
        BY <1>3, <2>2 DEF Once
      <3> QED
        BY <1>1, <3>1
    <2> QED
      BY <1>2, <1>3, <2>1, <2>2
  <1> QED
    BY <1>3 DEF Once, c

LEMMA TailOnce ==
    ASSUME NEW s \in Seq(Message), s # << >>, Once(s)
    PROVE  /\ Tail(s) \in Seq(Message) /\ Once(Tail(s))
           /\ \A i \in DOMAIN Tail(s) : /\ i + 1 \in DOMAIN s /\ Tail(s)[i] = s[i + 1]
                                        /\ i + 1 # 1
  <1>1. /\ Tail(s) \in Seq(Message) /\ Len(s) \in Nat /\ Len(s) >= 1
        /\ DOMAIN Tail(s) = 1 .. Len(s) - 1
        /\ \A i \in 1 .. Len(s) - 1 : Tail(s)[i] = s[i + 1]
    OBVIOUS
  <1>2. \A i \in DOMAIN Tail(s) : i + 1 \in DOMAIN s /\ Tail(s)[i] = s[i + 1] /\ i \in Nat
    BY <1>1
  <1>3. Once(Tail(s))
    BY <1>2 DEF Once
  <1> QED
    BY <1>1, <1>2, <1>3

(* A message put between others. *)
LEMMA Inserted ==
    ASSUME NEW s \in Seq(Message), NEW e \in Message, e.what # "apply", NEW k \in 1 .. Len(s),
           Once(s)
    PROVE  /\ InsertAt(s, k + 1, e) \in Seq(Message) /\ Once(InsertAt(s, k + 1, e))
           /\ \A i \in DOMAIN InsertAt(s, k + 1, e) :
                 \/ InsertAt(s, k + 1, e)[i] = e
                 \/ \E j \in DOMAIN s : InsertAt(s, k + 1, e)[i] = s[j]
  <1> DEFINE c == InsertAt(s, k + 1, e)
             From1(i) == IF i <= k THEN i ELSE i - 1
  <1>1. /\ Len(s) \in Nat /\ DOMAIN s = 1 .. Len(s)
    OBVIOUS
  <1>2. /\ c \in Seq(Message) /\ DOMAIN c = 1 .. Len(s) + 1
        /\ \A i \in 1 .. Len(s) + 1 : c[i] = IF i <= k THEN s[i] ELSE IF i = k + 1 THEN e ELSE s[i - 1]
    <2> DEFINE a == SubSeq(s, 1, k)
               b == SubSeq(s, k + 1, Len(s))
    <2>1. c = (a \o <<e>>) \o b
      <3>1. k \in Int /\ (k + 1) - 1 = k
        OBVIOUS
      <3>2. c = SubSeq(s, 1, (k + 1) - 1) \o <<e>> \o SubSeq(s, k + 1, Len(s))
        BY DEF InsertAt
      <3> HIDE DEF c
      <3> QED
        BY <3>1, <3>2
    <2>2. /\ a \in Seq(Message) /\ Len(a) = k /\ \A i \in 1 .. k : a[i] = s[i]
      OBVIOUS
    <2>3. /\ b \in Seq(Message) /\ Len(b) = Len(s) - k
          /\ \A i \in 1 .. Len(s) - k : b[i] = s[k + i]
      OBVIOUS
    <2> HIDE DEF a, b, c
    <2>4. /\ a \o <<e>> \in Seq(Message) /\ Len(a \o <<e>>) = k + 1
          /\ \A i \in 1 .. k : (a \o <<e>>)[i] = s[i]
          /\ (a \o <<e>>)[k + 1] = e
      BY <2>2
    <2> DEFINE d == a \o <<e>>
    <2> HIDE DEF d
    <2>5. /\ d \in Seq(Message) /\ Len(d) = k + 1 /\ c = d \o b
          /\ \A i \in 1 .. k : d[i] = s[i]
          /\ d[k + 1] = e
      BY <2>1, <2>4 DEF d
    <2>6. /\ c \in Seq(Message) /\ DOMAIN c = 1 .. Len(s) + 1
          /\ \A i \in 1 .. k + 1 : c[i] = d[i]
          /\ \A i \in 1 .. Len(s) - k : c[k + 1 + i] = b[i]
      <3>1. /\ d \o b \in Seq(Message) /\ DOMAIN (d \o b) = 1 .. Len(d) + Len(b)
            /\ \A i \in 1 .. Len(d) : (d \o b)[i] = d[i]
            /\ \A i \in 1 .. Len(b) : (d \o b)[Len(d) + i] = b[i]
        <4>1. d \in Seq(Message) /\ b \in Seq(Message)
          BY <2>3, <2>5
        <4> QED
          BY ONLY <4>1
      <3>2. (k + 1) + (Len(s) - k) = Len(s) + 1
        BY <1>1
      <3>3. /\ c \in Seq(Message) /\ DOMAIN c = 1 .. Len(d) + Len(b)
            /\ \A i \in 1 .. Len(d) : c[i] = d[i]
            /\ \A i \in 1 .. Len(b) : c[Len(d) + i] = b[i]
        <4>1. c = d \o b
          BY <2>5
        <4> QED
          BY ONLY <3>1, <4>1
      <3>4. Len(d) = k + 1 /\ Len(b) = Len(s) - k
        BY <2>3, <2>5
      <3> HIDE DEF c
      <3> QED
        BY ONLY <3>2, <3>3, <3>4
    <2>7. ASSUME NEW i \in 1 .. Len(s) + 1, i > k + 1 PROVE c[i] = s[i - 1]
      <3>1. i - (k + 1) \in 1 .. Len(s) - k /\ k + 1 + (i - (k + 1)) = i
            /\ k + (i - (k + 1)) = i - 1
        BY <2>7
      <3> QED
        BY ZenonT(40), <2>3, <2>6, <3>1
    <2>8. ASSUME NEW i \in 1 .. Len(s) + 1, i <= k PROVE c[i] = s[i]
      <3>1. i \in 1 .. k /\ i \in 1 .. k + 1
        BY <2>8
      <3> QED
        BY <2>5, <2>6, <3>1
    <2>9. c[k + 1] = e
      <3>1. k + 1 \in 1 .. k + 1
        OBVIOUS
      <3> QED
        BY <2>5, <2>6, <3>1
    <2>10. \A i \in 1 .. Len(s) + 1 : i <= k \/ i = k + 1 \/ i > k + 1
      OBVIOUS
    <2> QED
      BY <2>6, <2>7, <2>8, <2>9, <2>10
  <1> HIDE DEF c
  <1>3. \A i \in DOMAIN c : \/ i = k + 1 /\ c[i] = e
                            \/ i # k + 1 /\ From1(i) \in DOMAIN s /\ c[i] = s[From1(i)]
    BY <1>1, <1>2
  <1>4. \A i, j \in DOMAIN c : i # k + 1 /\ j # k + 1 /\ From1(i) = From1(j) => i = j
    BY <1>1, <1>2
  <1> HIDE DEF From1
  <1>5. Once(c)
    BY <1>3, <1>4 DEF Once
  <1> QED
    BY <1>2, <1>3, <1>5 DEF c

(* Where an element of two sequences comes from. *)
LEMMA Concatenated ==
    ASSUME NEW A, NEW a \in Seq(A), NEW b \in Seq(A)
    PROVE  /\ a \o b \in Seq(A)
           /\ \A i \in DOMAIN (a \o b) : \/ i \in DOMAIN a /\ (a \o b)[i] = a[i]
                                         \/ i - Len(a) \in DOMAIN b /\ (a \o b)[i] = b[i - Len(a)]
  <1> DEFINE n == Len(a)
             c == a \o b
  <1>1. /\ n \in Nat /\ Len(b) \in Nat /\ DOMAIN a = 1 .. n /\ DOMAIN b = 1 .. Len(b)
        /\ c \in Seq(A) /\ DOMAIN c = 1 .. n + Len(b)
        /\ \A i \in 1 .. n : c[i] = a[i]
        /\ \A i \in 1 .. Len(b) : c[n + i] = b[i]
    OBVIOUS
  <1> HIDE DEF n, c
  <1>2. ASSUME NEW i \in DOMAIN c
        PROVE  \/ i \in DOMAIN a /\ c[i] = a[i]
               \/ i - n \in DOMAIN b /\ c[i] = b[i - n]
    <2>1. CASE i <= n
      BY <1>1, <2>1
    <2>2. CASE ~(i <= n)
      <3>1. i \in 1 .. n + Len(b)
        BY <1>1
      <3>2. i - n \in 1 .. Len(b) /\ n + (i - n) = i
        BY <1>1, <2>2, <3>1
      <3> QED
        BY <1>1, <3>2
    <2> QED
      BY <2>1, <2>2
  <1> QED
    BY <1>1, <1>2 DEF n, c

(* Who posts leaves the looper in order: a message for each value that did *)
(* not wait, and, perhaps, a batch between two of them.                    *)
LEMMA Posting ==
    ASSUME StatisticsType, NEW fs \in Seq(LiveData), \A i, j \in DOMAIN fs : fs[i] = fs[j] => i = j,
           NEW posted, \A f \in Range(fs) : posted[f] # Nothing,
           NEW rest \in Seq(Message), \A i \in DOMAIN rest : Waits(rest[i]), Once(rest),
           PostValues(fs, posted, rest)
    PROVE  /\ looper' \in Seq(Message) /\ LooperInv' /\ batches' \in Seq(Seq(Analyses))
           /\ pending' = [f \in LiveData |-> IF f \in Range(fs) THEN posted[f] ELSE pending[f]]
  <1> DEFINE free == {f \in LiveData : pending[f] = Nothing}
             new == Kept(fs, free)
             messages == [i \in DOMAIN new |-> Application(new[i])]
             Good(c) == /\ c \in Seq(Message) /\ Once(c)
                        /\ \A i \in DOMAIN c : c[i].what = "apply" =>
                              c[i].data \in free /\ c[i].data \in Range(fs)
  <1>1. pending' = [f \in LiveData |-> IF f \in Range(fs) THEN posted[f] ELSE pending[f]]
    BY DEF PostValues
  <1>2. new \in Seq(LiveData) /\ DOMAIN new = 1 .. Len(new) /\ Len(new) \in Nat
    <2>1. new \in Seq(LiveData)
      BY KeptType
    <2> HIDE DEF new
    <2> QED
      BY <2>1
  <1>3. \A i \in DOMAIN new : new[i] \in LiveData /\ new[i] \in free /\ new[i] \in Range(fs)
    <2> SUFFICES ASSUME NEW i \in DOMAIN new
                 PROVE  new[i] \in LiveData /\ new[i] \in free /\ new[i] \in Range(fs)
      OBVIOUS
    <2>1. new[i] \in free /\ \E j \in DOMAIN fs : fs[j] = new[i]
      <3> HIDE DEF free
      <3> QED
        BY KeptMembers
    <2> HIDE DEF new
    <2> QED
      BY <2>1 DEF Range
  <1>4. \A i, j \in DOMAIN new : new[i] = new[j] => i = j
    <2> HIDE DEF free
    <2> QED
      BY KeptDistinct
  <1> HIDE DEF new
  <1>5. \A i \in DOMAIN new : /\ Application(new[i]) \in Message
                              /\ Application(new[i]).what = "apply"
                              /\ Application(new[i]).data = new[i]
    BY <1>3 DEF Application, Message
  <1>6. messages \in Seq(Message) /\ DOMAIN messages = DOMAIN new /\ Len(messages) = Len(new)
    <2>1. \A i \in 1 .. Len(new) : Application(new[i]) \in Message
      BY <1>2, <1>5
    <2> HIDE DEF Message, Application
    <2> QED
      BY <1>2, <2>1
  <1>7. Good(messages)
    <2>1. \A i \in DOMAIN messages : messages[i].what = "apply" /\ messages[i].data = new[i]
      BY <1>5
    <2> HIDE DEF messages
    <2> QED
      BY <1>3, <1>4, <1>6, <2>1 DEF Once
  <1>8. ASSUME NEW c, Good(c), looper' = rest \o c
        PROVE  looper' \in Seq(Message) /\ LooperInv'
    <2> HIDE DEF new, messages
    <2>1. ASSUME NEW i \in DOMAIN rest, NEW j \in DOMAIN c, rest[i].what = "apply",
                 c[j].what = "apply"
          PROVE  rest[i].data # c[j].data
      BY <1>8, <2>1 DEF Waits
    <2>2. looper' \in Seq(Message) /\ Once(looper')
      BY <1>8, <2>1, OnceConcat
    <2>3. \A i \in DOMAIN (rest \o c) :
             \/ i \in DOMAIN rest /\ (rest \o c)[i] = rest[i]
             \/ i - Len(rest) \in DOMAIN c /\ (rest \o c)[i] = c[i - Len(rest)]
      <3>1. c \in Seq(Message)
        BY <1>8
      <3> HIDE DEF Good
      <3> QED
        BY <3>1, Concatenated
    <2>4. ASSUME NEW i \in DOMAIN looper', looper'[i].what = "apply"
          PROVE  pending'[looper'[i].data] # Nothing
      <3>1. looper'[i].data \in LiveData
        <4>1. looper'[i] \in Message
          BY <2>2
        <4> QED
          BY <2>4, <4>1 DEF Message
      <3>2. CASE i \in DOMAIN rest /\ looper'[i] = rest[i]
        <4>1. pending[rest[i].data] # Nothing
          BY <2>4, <3>2 DEF Waits
        <4> QED
          BY <1>1, <3>1, <3>2, <4>1
      <3>3. CASE i - Len(rest) \in DOMAIN c /\ looper'[i] = c[i - Len(rest)]
        <4>1. looper'[i].data \in Range(fs)
          BY <1>8, <2>4, <3>3
        <4> QED
          BY <1>1, <3>1, <4>1
      <3> QED
        BY <1>8, <2>3, <3>2, <3>3
    <2>5. \A i \in DOMAIN looper' : looper'[i].what = "apply" => pending'[looper'[i].data] # Nothing
      BY <2>4
    <2>6. LooperInv'
      BY <2>2, <2>5 DEF LooperInv, Waits, Once
    <2> QED
      BY <2>2, <2>6
  <1>9. CASE looper' = rest \o messages /\ UNCHANGED batches
    <2>1. batches' \in Seq(Seq(Analyses))
      BY <1>9 DEF StatisticsType
    <2> HIDE DEF Good, messages
    <2> QED
      BY <1>1, <1>7, <1>8, <1>9, <2>1
  <1>10. CASE \E k \in 1 .. Len(new) - 1 :
                 /\ batches # << >> /\ batches' = Tail(batches)
                 /\ looper' = rest \o InsertAt(messages, k + 1, Batch(Head(batches)))
    <2>1. PICK k \in 1 .. Len(new) - 1 :
                 /\ batches # << >> /\ batches' = Tail(batches)
                 /\ looper' = rest \o InsertAt(messages, k + 1, Batch(Head(batches)))
      BY <1>10
    <2>2. batches \in Seq(Seq(Analyses))
      BY DEF StatisticsType
    <2>3. batches' \in Seq(Seq(Analyses)) /\ Head(batches) \in Seq(Analyses)
      BY <2>1, <2>2
    <2> DEFINE e == Batch(Head(batches))
    <2>4. e \in Message /\ e.what = "batch" /\ e.what # "apply"
      BY <2>3 DEF Batch, Message
    <2>5. k \in 1 .. Len(messages)
      BY <1>2, <1>6
    <2> DEFINE c == InsertAt(messages, k + 1, e)
    <2> HIDE DEF messages, e
    <2>6. /\ c \in Seq(Message) /\ Once(c)
          /\ \A i \in DOMAIN c : c[i] = e \/ \E j \in DOMAIN messages : c[i] = messages[j]
      BY <1>7, <2>4, <2>5, Inserted
    <2>7. Good(c)
      <3> HIDE DEF c
      <3> QED
        BY <1>7, <2>4, <2>6
    <2>8. looper' = rest \o c
      BY <2>1 DEF e
    <2> HIDE DEF Good, c
    <2> QED
      BY <1>1, <1>8, <2>3, <2>7, <2>8
  <1> QED
    <2>1. \/ looper' = rest \o messages /\ UNCHANGED batches
          \/ \E k \in 1 .. Len(new) - 1 :
                 /\ batches # << >> /\ batches' = Tail(batches)
                 /\ looper' = rest \o InsertAt(messages, k + 1, Batch(Head(batches)))
      BY DEF PostValues, new
    <2> QED
      BY <1>9, <1>10, <2>1

-----------------------------------------------------------------------------
(* What has been handled.                                                  *)
Entry == [data : Analyses, at : Int]
Stamped(data) == [i \in DOMAIN data |-> [data |-> data[i], at |-> clock]]

LEMMA StampedEntries ==
    ASSUME clock \in Int, NEW data \in Seq(Analyses)
    PROVE  /\ Stamped(data) \in Seq(Entry) /\ DOMAIN Stamped(data) = DOMAIN data
           /\ \A i \in DOMAIN data : /\ Stamped(data)[i] \in Entry
                                     /\ Stamped(data)[i].data = data[i]
                                     /\ Stamped(data)[i].at = clock
  <1>1. DOMAIN data = 1 .. Len(data) /\ Len(data) \in Nat /\ \A i \in DOMAIN data : data[i] \in Analyses
    OBVIOUS
  <1>2. \A i \in DOMAIN data : [data |-> data[i], at |-> clock] \in Entry
    BY <1>1 DEF Entry
  <1>3. \A i \in DOMAIN data : /\ Stamped(data)[i] \in Entry
                               /\ Stamped(data)[i].data = data[i]
                               /\ Stamped(data)[i].at = clock
    BY <1>2 DEF Stamped
  <1>4. DOMAIN Stamped(data) = 1 .. Len(data) /\ Stamped(data) = [i \in 1 .. Len(data) |-> Stamped(data)[i]]
    BY <1>1 DEF Stamped
  <1>5. Stamped(data) \in Seq(Entry)
    BY <1>1, <1>3, <1>4
  <1> QED
    BY <1>1, <1>3, <1>4, <1>5

(* handled grows by a batch. *)
Handles(data) ==
    /\ data \in Seq(Analyses) /\ handled \in Seq(Entry) /\ clock \in Int
    /\ handled' = handled \o Stamped(data)

LEMMA HandledParts ==
    ASSUME NEW data, Handles(data)
    PROVE  /\ handled' \in Seq(Entry) /\ DOMAIN handled \subseteq DOMAIN handled'
           /\ \A i \in DOMAIN handled : handled'[i] = handled[i]
           /\ \A i \in DOMAIN data : /\ Len(handled) + i \in DOMAIN handled'
                                     /\ handled'[Len(handled) + i].data = data[i]
                                     /\ handled'[Len(handled) + i].at = clock
           /\ \A i \in DOMAIN handled' :
                 \/ i \in DOMAIN handled
                 \/ i - Len(handled) \in DOMAIN data /\ Len(handled) + (i - Len(handled)) = i
  <1> DEFINE b == Stamped(data)
             n == Len(handled)
  <1>1. /\ b \in Seq(Entry) /\ DOMAIN b = DOMAIN data
        /\ \A i \in DOMAIN data : b[i].data = data[i] /\ b[i].at = clock
    BY StampedEntries DEF Handles
  <1> HIDE DEF b
  <1>2. handled \in Seq(Entry) /\ handled' = handled \o b
    BY DEF Handles, b
  <1>3. /\ n \in Nat /\ Len(b) \in Nat /\ DOMAIN handled = 1 .. n /\ DOMAIN b = 1 .. Len(b)
        /\ handled' \in Seq(Entry) /\ DOMAIN handled' = 1 .. n + Len(b)
        /\ \A i \in 1 .. n : handled'[i] = handled[i]
        /\ \A i \in 1 .. Len(b) : handled'[n + i] = b[i]
    BY <1>1, <1>2
  <1> HIDE DEF n
  <1>4. \A i \in 1 .. Len(b) : n + i \in 1 .. n + Len(b)
    BY <1>3
  <1>5. \A i \in 1 .. n + Len(b) : i \in 1 .. n \/ (i - n \in 1 .. Len(b) /\ n + (i - n) = i)
    BY <1>3
  <1>6. 1 .. n \subseteq 1 .. n + Len(b)
    BY <1>3
  <1> QED
    BY <1>1, <1>3, <1>4, <1>5, <1>6 DEF n

(* Counting what is handled.                                               *)
LEMMA HandledPlaces ==
    ASSUME NEW data, Handles(data), NEW S
    PROVE  Cardinality(Places(handled', S)) =
               Cardinality(Places(handled, S)) + Cardinality(Places(Stamped(data), S))
  <1>1. Stamped(data) \in Seq(Entry) /\ handled \in Seq(Entry) /\ handled' = handled \o Stamped(data)
    BY StampedEntries DEF Handles
  <1> QED
    BY <1>1, PlacesConcat

LEMMA CountedGrows ==
    ASSUME NEW data, Handles(data), NEW f
    PROVE  Counted(f)' = Counted(f) + Occurrences(data, f)
  <1> DEFINE S == {h \in Entry : f \in h.data.flags}
  <1>1. handled' \in Seq(Entry)
    BY HandledParts
  <1>2. handled \in Seq(Entry) /\ data \in Seq(Analyses) /\ clock \in Int
    BY DEF Handles
  <1>3. {i \in DOMAIN handled' : f \in handled'[i].data.flags} = Places(handled', S)
    BY <1>1 DEF Places
  <1>4. {i \in DOMAIN handled : f \in handled[i].data.flags} = Places(handled, S)
    BY <1>2 DEF Places
  <1>5. {i \in DOMAIN data : f \in data[i].flags} = Places(Stamped(data), S)
    BY <1>2, StampedEntries DEF Places
  <1> HIDE DEF S
  <1>6. Cardinality(Places(handled', S)) =
            Cardinality(Places(handled, S)) + Cardinality(Places(Stamped(data), S))
    BY HandledPlaces
  <1>7. Counted(f)' = Cardinality(Places(handled', S))
    BY <1>3 DEF Counted
  <1> QED
    BY <1>4, <1>5, <1>6, <1>7 DEF Counted, Occurrences

LEMMA OccurrencesType ==
    ASSUME NEW data \in Seq(Analyses), NEW f
    PROVE  Occurrences(data, f) \in Nat
  <1> DEFINE S == {a \in Analyses : f \in a.flags}
  <1>1. {i \in DOMAIN data : f \in data[i].flags} = Places(data, S)
    BY DEF Places
  <1> QED
    BY <1>1, PlacesFinite DEF Occurrences

(* Who is seen.                                                            *)
LEMMA SeenGrows ==
    ASSUME NEW data, Handles(data), NEW flag
    PROVE  Seen(flag)' = Seen(flag) \cup ConnectionIDs(data, flag)
  <1> DEFINE n == Len(handled)
  <1> HIDE DEF n
  <1>1. /\ DOMAIN handled \subseteq DOMAIN handled'
        /\ \A i \in DOMAIN handled : handled'[i] = handled[i]
        /\ \A i \in DOMAIN data : n + i \in DOMAIN handled' /\ handled'[n + i].data = data[i]
        /\ \A i \in DOMAIN handled' : i \in DOMAIN handled \/ (i - n \in DOMAIN data /\ n + (i - n) = i)
    BY HandledParts DEF n
  <1>2. ASSUME NEW c \in Seen(flag)' PROVE c \in Seen(flag) \cup ConnectionIDs(data, flag)
    <2>1. PICK i \in DOMAIN handled' : flag \in handled'[i].data.flags /\ c = handled'[i].data.connectionID
      BY <1>2 DEF Seen
    <2>2. CASE i \in DOMAIN handled
      BY <1>1, <2>1, <2>2 DEF Seen
    <2>3. CASE i - n \in DOMAIN data /\ n + (i - n) = i
      <3>1. handled'[i].data = data[i - n]
        BY <1>1, <2>3
      <3> QED
        BY <2>1, <2>3, <3>1 DEF ConnectionIDs
    <2> QED
      BY <1>1, <2>2, <2>3
  <1>3. ASSUME NEW c \in Seen(flag) PROVE c \in Seen(flag)'
    <2>1. PICK i \in DOMAIN handled : flag \in handled[i].data.flags /\ c = handled[i].data.connectionID
      BY <1>3 DEF Seen
    <2> QED
      BY <1>1, <2>1 DEF Seen
  <1>4. ASSUME NEW c \in ConnectionIDs(data, flag) PROVE c \in Seen(flag)'
    <2>1. PICK i \in DOMAIN data : flag \in data[i].flags /\ c = data[i].connectionID
      BY <1>4 DEF ConnectionIDs
    <2> QED
      BY <1>1, <2>1 DEF Seen
  <1> QED
    BY <1>2, <1>3, <1>4

LEMMA SeenFinite ==
    ASSUME handled \in Seq(Entry), NEW flag
    PROVE  IsFiniteSet(Seen(flag)) /\ Cardinality(Seen(flag)) \in Nat
  <1> DEFINE P == {i \in DOMAIN handled : flag \in handled[i].data.flags}
  <1>1. IsFiniteSet(P)
    <2>1. IsFiniteSet(1 .. Len(handled)) /\ P \in SUBSET (1 .. Len(handled))
      BY FS_Interval
    <2> QED
      BY <2>1, FS_Subset
  <1>2. IsFiniteSet({handled[i].data.connectionID : i \in P})
    <2> DEFINE T == {handled[i].data.connectionID : i \in P}
               f == [i \in P |-> handled[i].data.connectionID]
    <2>1. f \in Surjection(P, T)
      <3>1. f \in [P -> T] /\ \A y \in T : \E x \in P : f[x] = y
        OBVIOUS
      <3> HIDE DEF f, P, T
      <3> QED
        BY <3>1 DEF Surjection
    <2> HIDE DEF f, P, T
    <2>2. IsFiniteSet(T)
      BY <1>1, <2>1, FS_Surjection
    <2> QED
      BY <2>2 DEF T
  <1> QED
    BY <1>2, FS_CardinalityType DEF Seen

-----------------------------------------------------------------------------
(* The window of a tracker.                                                *)
LEMMA NamedData ==
    ASSUME NEW data \in Seq(Analyses), NEW t \in Range(Trackers)
    PROVE  t \in NamesIn(data) <=> \E i \in DOMAIN data : data[i][t] # Nothing
  <1>1. \A i \in DOMAIN data : data[i] \in Analyses
    OBVIOUS
  <1>2. \A i \in DOMAIN data : data[i][t] \in Names \cup {Nothing}
    BY <1>1, NamesAnalysed
  <1>3. Nothing \notin Names
    BY DEF Names
  <1> QED
    BY <1>2, <1>3 DEF NamesIn, NamedAt

(* The last name in a batch arrives now. *)
LEMMA RecentMoves ==
    ASSUME NEW data, Handles(data), \A i \in DOMAIN handled : handled[i].at <= clock,
           NEW t \in Range(Trackers), t \in NamesIn(data)
    PROVE  Recent(t)' = {i \in DOMAIN handled' : /\ handled'[i].data[t] # Nothing
                                                 /\ handled'[i].at >= clock - Window}
  <1> DEFINE n == Len(handled)
  <1> HIDE DEF n
  <1>1. /\ DOMAIN handled \subseteq DOMAIN handled' /\ handled' \in Seq(Entry)
        /\ \A i \in DOMAIN handled : handled'[i] = handled[i]
        /\ \A i \in DOMAIN data : /\ n + i \in DOMAIN handled' /\ handled'[n + i].data = data[i]
                                  /\ handled'[n + i].at = clock
        /\ \A i \in DOMAIN handled' : i \in DOMAIN handled \/ (i - n \in DOMAIN data /\ n + (i - n) = i)
    BY HandledParts DEF n
  <1>2. clock \in Int /\ Window \in Int /\ data \in Seq(Analyses)
    BY StatisticsAssumption DEF Handles
  <1>3. \A i \in DOMAIN handled' : handled'[i].at \in Int /\ handled'[i].at <= clock
    <2> TAKE i \in DOMAIN handled'
    <2>1. handled'[i] \in Entry
      BY <1>1
    <2>2. handled'[i].at \in Int
      BY <2>1 DEF Entry
    <2>3. CASE i \in DOMAIN handled
      BY <1>1, <2>2, <2>3
    <2>4. CASE i - n \in DOMAIN data /\ n + (i - n) = i
      <3>1. handled'[i].at = clock
        BY <1>1, <2>4
      <3> QED
        BY <1>2, <2>2, <3>1
    <2> QED
      BY <1>1, <2>3, <2>4
  <1>4. PICK k \in DOMAIN data : data[k][t] # Nothing
    BY <1>2, NamedData
  <1>5. n + k \in DOMAIN handled' /\ handled'[n + k].data[t] # Nothing /\ handled'[n + k].at = clock
    BY <1>1, <1>4
  <1> DEFINE with == {i \in DOMAIN handled' : handled'[i].data[t] # Nothing}
  <1>6. Recent(t)' = {i \in with : \A j \in with : handled'[i].at >= handled'[j].at - Window}
    BY DEF Recent
  <1>7. ASSUME NEW i \in with
        PROVE  (\A j \in with : handled'[i].at >= handled'[j].at - Window) <=> handled'[i].at >= clock - Window
    <2>1. handled'[i].at \in Int /\ \A j \in with : handled'[j].at \in Int /\ handled'[j].at <= clock
      BY <1>3
    <2>2. n + k \in with
      BY <1>5
    <2> HIDE DEF with
    <2>3. ASSUME \A j \in with : handled'[i].at >= handled'[j].at - Window
          PROVE  handled'[i].at >= clock - Window
      BY <1>5, <2>2, <2>3
    <2>4. ASSUME handled'[i].at >= clock - Window, NEW j \in with
          PROVE  handled'[i].at >= handled'[j].at - Window
      BY <1>2, <2>1, <2>4
    <2> QED
      BY <2>3, <2>4
  <1>8. Recent(t)' = {i \in with : handled'[i].at >= clock - Window}
    <2> HIDE DEF with
    <2> QED
      BY <1>6, <1>7
  <1> QED
    BY <1>8

(* Without a name the window stays where it is. *)
LEMMA RecentStays ==
    ASSUME NEW data, Handles(data), NEW t \in Range(Trackers), t \notin NamesIn(data)
    PROVE  /\ Recent(t)' = Recent(t)
           /\ \A i \in Recent(t) : handled'[i] = handled[i]
  <1> DEFINE n == Len(handled)
  <1> HIDE DEF n
  <1>1. /\ DOMAIN handled \subseteq DOMAIN handled'
        /\ \A i \in DOMAIN handled : handled'[i] = handled[i]
        /\ \A i \in DOMAIN data : n + i \in DOMAIN handled' /\ handled'[n + i].data = data[i]
        /\ \A i \in DOMAIN handled' : i \in DOMAIN handled \/ (i - n \in DOMAIN data /\ n + (i - n) = i)
    BY HandledParts DEF n
  <1>2. \A i \in DOMAIN data : data[i][t] = Nothing
    BY NamedData DEF Handles
  <1> DEFINE with == {i \in DOMAIN handled : handled[i].data[t] # Nothing}
             with1 == {i \in DOMAIN handled' : handled'[i].data[t] # Nothing}
  <1>3. with1 = with
    <2>1. ASSUME NEW i \in with1 PROVE i \in with
      <3>1. i \in DOMAIN handled' /\ handled'[i].data[t] # Nothing
        OBVIOUS
      <3>2. CASE i \in DOMAIN handled
        BY <1>1, <3>1, <3>2
      <3>3. CASE i - n \in DOMAIN data /\ n + (i - n) = i
        <4>1. handled'[i].data = data[i - n]
          BY <1>1, <3>3
        <4> QED
          BY <1>2, <3>1, <3>3, <4>1
      <3> QED
        BY <1>1, <3>1, <3>2, <3>3
    <2>2. ASSUME NEW i \in with PROVE i \in with1
      BY <1>1
    <2> QED
      BY <2>1, <2>2
  <1>4. \A i \in with : handled'[i] = handled[i]
    BY <1>1
  <1>5. Recent(t)' = {i \in with1 : \A j \in with1 : handled'[i].at >= handled'[j].at - Window}
    BY DEF Recent
  <1>6. Recent(t) = {i \in with : \A j \in with : handled[i].at >= handled[j].at - Window}
    BY DEF Recent
  <1> HIDE DEF with, with1
  <1> QED
    BY <1>3, <1>4, <1>5, <1>6

(* In the window all that counts of an entry is its time. *)
Since(t, n, y) == {h \in Entry : h.data[t] = n /\ h.at >= y}

(* Before the batch, counted from a time within the window to come ... *)
LEMMA ArrivedBefore ==
    ASSUME handled \in Seq(Entry), clock \in Int, \A i \in DOMAIN handled : handled[i].at <= clock,
           NEW t \in Range(Trackers), NEW n \in Names, NEW y \in Int, y >= clock - Window
    PROVE  Arrived(t, n, y) = Places(handled, Since(t, n, y))
  <1>1. Nothing \notin Names /\ Window \in Int
    BY StatisticsAssumption DEF Names
  <1>2. \A i \in DOMAIN handled : handled[i] \in Entry
    OBVIOUS
  <1>3. \A i \in DOMAIN handled : handled[i].at \in Int
    BY <1>2 DEF Entry
  <1>4. ASSUME NEW i \in DOMAIN handled, handled[i].data[t] = n, handled[i].at >= y
        PROVE  i \in Recent(t)
    <2>1. ASSUME NEW j \in DOMAIN handled PROVE handled[i].at >= handled[j].at - Window
      <3>1. handled[i].at \in Int /\ handled[j].at \in Int /\ handled[j].at <= clock
        BY <1>3
      <3> QED
        BY <1>1, <1>4, <3>1
    <2> QED
      BY <1>1, <1>4, <2>1 DEF Recent
  <1>5. \A i \in Recent(t) : i \in DOMAIN handled
    BY DEF Recent
  <1> QED
    BY <1>2, <1>4, <1>5 DEF Arrived, Places, Since

(* ... and after it. *)
LEMMA ArrivedNow ==
    ASSUME NEW data, Handles(data), \A i \in DOMAIN handled : handled[i].at <= clock,
           NEW t \in Range(Trackers), t \in NamesIn(data), NEW n \in Names, NEW x \in Int,
           NEW y \in Int, y >= x, y >= clock - Window, y = x \/ y = clock - Window
    PROVE  Arrived(t, n, x)' = Places(handled', Since(t, n, y))
  <1>1. Nothing \notin Names /\ Window \in Int /\ clock \in Int
    BY StatisticsAssumption DEF Names, Handles
  <1>2. handled' \in Seq(Entry)
    BY HandledParts
  <1>3. \A i \in DOMAIN handled' : handled'[i] \in Entry
    BY <1>2
  <1>4. \A i \in DOMAIN handled' : handled'[i].at \in Int
    BY <1>3 DEF Entry
  <1>5. Arrived(t, n, x)' = {i \in Recent(t)' : handled'[i].data[t] = n /\ handled'[i].at >= x}
    BY DEF Arrived
  <1>6. Recent(t)' = {i \in DOMAIN handled' : /\ handled'[i].data[t] # Nothing
                                              /\ handled'[i].at >= clock - Window}
    BY RecentMoves
  <1>7. ASSUME NEW i \in DOMAIN handled'
        PROVE  handled'[i].at >= y <=> (handled'[i].at >= x /\ handled'[i].at >= clock - Window)
    <2>1. handled'[i].at \in Int
      BY <1>4
    <2> QED
      BY <1>1, <2>1
  <1> QED
    BY <1>1, <1>3, <1>5, <1>6, <1>7 DEF Places, Since

-----------------------------------------------------------------------------
(* What is recorded.                                                       *)
Now(data, t, n) == [i \in 1 .. Cardinality(NamedAt(data, t, n)) |-> clock]
Young(times) == {time \in Range(times) : time >= clock - Window}

LEMMA NamedFinite ==
    ASSUME NEW data \in Seq(Analyses), NEW t, NEW n
    PROVE  IsFiniteSet(NamedAt(data, t, n)) /\ Cardinality(NamedAt(data, t, n)) \in Nat
  <1>1. IsFiniteSet(1 .. Len(data)) /\ NamedAt(data, t, n) \in SUBSET (1 .. Len(data))
    BY FS_Interval DEF NamedAt
  <1> QED
    BY <1>1, FS_Subset, FS_CardinalityType

LEMMA NowType ==
    ASSUME clock \in Int, NEW data \in Seq(Analyses), NEW t, NEW n
    PROVE  /\ Now(data, t, n) \in Seq(Int) /\ DOMAIN Now(data, t, n) = 1 .. Cardinality(NamedAt(data, t, n))
           /\ \A i \in DOMAIN Now(data, t, n) : Now(data, t, n)[i] = clock
  <1> DEFINE m == Cardinality(NamedAt(data, t, n))
  <1>1. m \in Nat
    BY NamedFinite
  <1> HIDE DEF m
  <1>2. [i \in 1 .. m |-> clock] \in Seq(Int)
    BY <1>1
  <1>3. Now(data, t, n) = [i \in 1 .. m |-> clock]
    BY DEF Now, m
  <1> QED
    BY <1>2, <1>3 DEF m

LEMMA RecordedAt ==
    ASSUME clock \in Int, NEW data \in Seq(Analyses), NEW t, NEW times \in [Names -> Seq(Int)],
           NEW n \in Names
    PROVE  /\ times[n] \o Now(data, t, n) \in Seq(Int)
           /\ Recorded(times, data, t)[n] =
                  Kept(times[n] \o Now(data, t, n), Young(times[n] \o Now(data, t, n)))
           /\ Recorded(times, data, t)[n] \in Seq(Int)
  <1> DEFINE s == times[n] \o Now(data, t, n)
  <1>1. s \in Seq(Int)
    <2>1. times[n] \in Seq(Int) /\ Now(data, t, n) \in Seq(Int)
      BY NowType
    <2> QED
      BY <2>1
  <1>2. Recorded(times, data, t)[n] = Kept(s, Young(s))
    BY DEF Recorded, CleanedUp, Young, Now
  <1> HIDE DEF s
  <1>3. Kept(s, Young(s)) \in Seq(Int)
    BY <1>1, KeptType
  <1> QED
    BY <1>1, <1>2, <1>3 DEF s

LEMMA RecordedType ==
    ASSUME clock \in Int, NEW data \in Seq(Analyses), NEW t, NEW times \in [Names -> Seq(Int)]
    PROVE  Recorded(times, data, t) \in [Names -> Seq(Int)]
  <1>1. \A n \in Names : Recorded(times, data, t)[n] \in Seq(Int)
    BY RecordedAt
  <1>2. Recorded(times, data, t) = [n \in Names |-> Recorded(times, data, t)[n]]
    BY DEF Recorded
  <1> QED
    BY <1>1, <1>2

(* Nothing old is kept, and nothing comes from the future. *)
LEMMA RecordedYoung ==
    ASSUME clock \in Int, NEW data \in Seq(Analyses), NEW t, NEW times \in [Names -> Seq(Int)],
           NEW n \in Names, \A j \in DOMAIN times[n] : times[n][j] <= clock,
           NEW i \in DOMAIN Recorded(times, data, t)[n]
    PROVE  /\ Recorded(times, data, t)[n][i] \in Int
           /\ Recorded(times, data, t)[n][i] <= clock
           /\ Recorded(times, data, t)[n][i] >= clock - Window
  <1> DEFINE b == Now(data, t, n)
             s == times[n] \o b
  <1>1. /\ s \in Seq(Int) /\ Recorded(times, data, t)[n] = Kept(s, Young(s))
        /\ Recorded(times, data, t)[n] \in Seq(Int)
    BY RecordedAt
  <1>2. /\ times[n] \in Seq(Int) /\ b \in Seq(Int) /\ \A j \in DOMAIN b : b[j] = clock
    BY NowType
  <1> HIDE DEF b
  <1>3. \A j \in DOMAIN s : s[j] <= clock
    <2>1. ASSUME NEW j \in DOMAIN s PROVE \/ j \in DOMAIN times[n] /\ s[j] = times[n][j]
                                          \/ j - Len(times[n]) \in DOMAIN b /\ s[j] = b[j - Len(times[n])]
      BY <1>2, Concatenated
    <2> HIDE DEF s
    <2> QED
      BY <1>2, <2>1
  <1> HIDE DEF s
  <1> DEFINE K == Young(s)
             r == Kept(s, K)
  <1>4. r[i] \in K /\ \E j \in DOMAIN s : s[j] = r[i]
    <2> HIDE DEF K
    <2>1. i \in DOMAIN Kept(s, K)
      BY <1>1 DEF K
    <2> QED
      BY <1>1, <2>1, KeptMembers
  <1>5. r[i] >= clock - Window /\ r[i] <= clock
    BY <1>3, <1>4 DEF Young
  <1>6. r[i] \in Int
    BY <1>1, <1>4
  <1> QED
    BY <1>1, <1>5, <1>6

(* Recorded of a name is, from any time on, what was, and what is added. *)
LEMMA RecordedPlaces ==
    ASSUME clock \in Int, NEW data \in Seq(Analyses), NEW t, NEW times \in [Names -> Seq(Int)],
           NEW n \in Names, NEW x \in Int,
           NEW y \in Int, y >= x, y >= clock - Window, y = x \/ y = clock - Window
    PROVE  Cardinality(Places(Recorded(times, data, t)[n], From(x))) =
               Cardinality(Places(times[n], From(y))) + Cardinality(Places(Stamped(data), Since(t, n, y)))
  <1> DEFINE b == Now(data, t, n)
             s == times[n] \o b
             m == Cardinality(NamedAt(data, t, n))
  <1>1. s \in Seq(Int) /\ Recorded(times, data, t)[n] = Kept(s, Young(s))
    BY RecordedAt
  <1>2. /\ times[n] \in Seq(Int) /\ b \in Seq(Int) /\ DOMAIN b = 1 .. m
        /\ \A j \in DOMAIN b : b[j] = clock
    BY NowType
  <1>3. m \in Nat
    BY NamedFinite
  <1>4. Window \in Int
    BY StatisticsAssumption
  <1> HIDE DEF b
  <1>5. Cardinality(Places(s, From(y))) =
            Cardinality(Places(times[n], From(y))) + Cardinality(Places(b, From(y)))
    BY <1>2, PlacesConcat
  <1> HIDE DEF s
  <1>6. Cardinality(Places(Kept(s, Young(s)), From(x))) = Cardinality(Places(s, Young(s) \cap From(x)))
    BY <1>1, KeptPlaces
  <1>7. Places(s, Young(s) \cap From(x)) = Places(s, From(y))
    <2>1. ASSUME NEW j \in DOMAIN s PROVE s[j] \in Young(s) \cap From(x) <=> s[j] \in From(y)
      <3>1. s[j] \in Int /\ s[j] \in Range(s)
        BY <1>1 DEF Range
      <3>2. s[j] \in Young(s) <=> s[j] >= clock - Window
        BY <3>1 DEF Young
      <3> QED
        BY <1>4, <3>1, <3>2 DEF From
    <2> QED
      BY <2>1 DEF Places
  <1>8. Cardinality(Places(b, From(y))) = Cardinality(Places(Stamped(data), Since(t, n, y)))
    <2> HIDE DEF m
    <2>1. \A i \in DOMAIN data : Stamped(data)[i] \in Since(t, n, y) <=> (data[i][t] = n /\ clock >= y)
      BY StampedEntries DEF Since
    <2>2. DOMAIN Stamped(data) = DOMAIN data
      BY StampedEntries
    <2>3. \A i \in DOMAIN b : b[i] \in From(y) <=> clock >= y
      BY <1>2 DEF From
    <2>4. CASE clock >= y
      <3>1. Places(b, From(y)) = 1 .. m
        BY <1>2, <2>3, <2>4 DEF Places
      <3>2. Places(Stamped(data), Since(t, n, y)) = NamedAt(data, t, n)
        BY <2>1, <2>2, <2>4 DEF Places, NamedAt
      <3>3. Cardinality(1 .. m) = m
        BY <1>3, FS_Interval
      <3> QED
        BY <3>1, <3>2, <3>3 DEF m
    <2>5. CASE ~(clock >= y)
      <3>1. Places(b, From(y)) = {}
        BY <1>2, <2>3, <2>5 DEF Places
      <3>2. Places(Stamped(data), Since(t, n, y)) = {}
        BY <2>1, <2>2, <2>5 DEF Places
      <3> QED
        BY <3>1, <3>2
    <2> QED
      BY <2>4, <2>5
  <1> QED
    BY <1>1, <1>5, <1>6, <1>7, <1>8

(* The domains, after a batch. *)
Records(data) ==
    /\ domainData \in [Range(Trackers) -> [Names -> Seq(Int)]]
    /\ domainData' = [t \in Range(Trackers) |->
           IF t \in NamesIn(data) THEN Recorded(domainData[t], data, t) ELSE domainData[t]]

LEMMA DomainsBatch ==
    ASSUME NEW data, Handles(data), Records(data), DomainsInv, clock' = clock
    PROVE  DomainsInv'
  <1>1. /\ clock \in Int /\ data \in Seq(Analyses) /\ handled \in Seq(Entry) /\ Window \in Int
        /\ \A t \in Range(Trackers) : domainData[t] \in [Names -> Seq(Int)]
        /\ \A i \in DOMAIN handled : handled[i].at <= clock
    BY StatisticsAssumption DEF Handles, Records, DomainsInv
  <1>2. \A i \in DOMAIN handled' : handled'[i].at <= clock
    <2> TAKE i \in DOMAIN handled'
    <2>1. CASE i \in DOMAIN handled
      BY <1>1, <2>1, HandledParts
    <2>2. CASE i - Len(handled) \in DOMAIN data /\ Len(handled) + (i - Len(handled)) = i
      <3>1. handled'[i].at = clock
        BY <2>2, HandledParts
      <3> QED
        BY <1>1, <3>1
    <2> QED
      BY <2>1, <2>2, HandledParts
  <1>3. ASSUME NEW t \in Range(Trackers), NEW n \in Names
        PROVE  /\ \A j \in DOMAIN domainData'[t][n] : domainData'[t][n][j] <= clock
               /\ \A x \in Int : Cardinality(Places(domainData'[t][n], From(x)))
                                     = Cardinality(Arrived(t, n, x)')
    <2>1. /\ \A j \in DOMAIN domainData[t][n] : domainData[t][n][j] <= clock
          /\ \A x \in Int : Cardinality(Places(domainData[t][n], From(x)))
                                     = Cardinality(Arrived(t, n, x))
      BY DEF DomainsInv
    <2>2. CASE t \in NamesIn(data)
      <3> DEFINE times == domainData[t]
      <3>1. domainData'[t] = Recorded(times, data, t)
        BY <2>2 DEF Records
      <3>2. times \in [Names -> Seq(Int)] /\ \A j \in DOMAIN times[n] : times[n][j] <= clock
        BY <1>1, <2>1
      <3> HIDE DEF times
      <3>3. \A j \in DOMAIN domainData'[t][n] : domainData'[t][n][j] <= clock
        BY <1>1, <3>1, <3>2, RecordedYoung
      <3>4. ASSUME NEW x \in Int
            PROVE  Cardinality(Places(domainData'[t][n], From(x))) = Cardinality(Arrived(t, n, x)')
        <4> DEFINE y == IF x >= clock - Window THEN x ELSE clock - Window
        <4>1. y \in Int /\ y >= x /\ y >= clock - Window /\ (y = x \/ y = clock - Window)
          BY <1>1
        <4> HIDE DEF y
        <4>2. Cardinality(Places(Recorded(times, data, t)[n], From(x))) =
                  Cardinality(Places(times[n], From(y))) + Cardinality(Places(Stamped(data), Since(t, n, y)))
          <5>1. clock \in Int /\ data \in Seq(Analyses) /\ times \in [Names -> Seq(Int)]
            BY <1>1, <3>2
          <5> QED
            BY <4>1, <5>1, RecordedPlaces
        <4>3. Cardinality(Places(times[n], From(y))) = Cardinality(Places(handled, Since(t, n, y)))
          BY <1>1, <2>1, <4>1, ArrivedBefore DEF times
        <4>4. Cardinality(Places(handled', Since(t, n, y))) =
                  Cardinality(Places(handled, Since(t, n, y))) + Cardinality(Places(Stamped(data), Since(t, n, y)))
          BY HandledPlaces
        <4>5. Arrived(t, n, x)' = Places(handled', Since(t, n, y))
          BY <1>1, <2>2, <4>1, ArrivedNow
        <4> QED
          BY <3>1, <4>2, <4>3, <4>4, <4>5
      <3> QED
        BY <3>3, <3>4
    <2>3. CASE t \notin NamesIn(data)
      <3>1. domainData'[t] = domainData[t]
        BY <2>3 DEF Records
      <3>2. Recent(t)' = Recent(t) /\ \A i \in Recent(t) : handled'[i] = handled[i]
        BY <2>3, RecentStays
      <3>3. ASSUME NEW x \in Int PROVE Arrived(t, n, x)' = Arrived(t, n, x)
        BY <3>2 DEF Arrived
      <3> QED
        BY <2>1, <3>1, <3>3
    <2> QED
      BY <2>2, <2>3
  <1> QED
    BY <1>2, <1>3 DEF DomainsInv, Places, From

(* The list of the most frequent names. *)
Most(s, times, known) ==
    LET listed == {s[i].domain : i \in DOMAIN s}
    IN  /\ Cardinality(listed) = Len(s) /\ listed \subseteq known
        /\ Len(s) = TopCount \/ listed = known
        /\ \A i \in DOMAIN s :
              /\ s[i].count = Len(times[s[i].domain])
              /\ i > 1 => s[i - 1].count >= s[i].count
              /\ \A n \in known \ listed : s[i].count >= Len(times[n])

(* getTopDomains returns such a list. *)
LEMMA TopIsMost ==
    ASSUME NEW times \in [Names -> Seq(Int)], NEW known, known = {n \in Names : times[n] # << >>},
           IsFiniteSet(known), NEW s \in TopDomains(times)
    PROVE  Most(s, times, known)
  <1> DEFINE L == Cardinality(known)
             m == IF L < TopCount THEN L ELSE TopCount
  <1>1. L \in Nat /\ TopCount \in Nat /\ m \in Nat /\ m <= L /\ (m = L \/ m = TopCount)
    BY FS_CardinalityType, StatisticsAssumption
  <1>2. PICK p \in [1 .. L -> known] :
            /\ \A i, j \in 1 .. L : i # j => p[i] # p[j]
            /\ \A i, j \in DOMAIN p : i < j => Len(times[p[i]]) >= Len(times[p[j]])
            /\ s = [i \in 1 .. (IF Len(p) < TopCount THEN Len(p) ELSE TopCount) |->
                       [domain |-> p[i], count |-> Len(times[p[i]])]]
    BY DEF TopDomains, SetToSeqs
  <1> HIDE DEF L, m
  <1>3. Len(p) = L /\ DOMAIN p = 1 .. L
    BY <1>1, <1>2
  <1>4. /\ DOMAIN s = 1 .. m /\ Len(s) = m
        /\ \A i \in 1 .. m : s[i] = [domain |-> p[i], count |-> Len(times[p[i]])]
    <2>1. s = [i \in 1 .. m |-> [domain |-> p[i], count |-> Len(times[p[i]])]]
      BY <1>2, <1>3 DEF m
    <2> QED
      BY <1>1, <2>1
  <1>5. \A i \in 1 .. m : i \in 1 .. L /\ s[i].domain = p[i] /\ s[i].count = Len(times[p[i]])
    <2>1. 1 .. m \subseteq 1 .. L
      BY <1>1
    <2>2. \A i \in 1 .. m : s[i].domain = p[i] /\ s[i].count = Len(times[p[i]])
      BY <1>4
    <2> QED
      BY <2>1, <2>2
  <1> DEFINE listed == {s[i].domain : i \in DOMAIN s}
             f == [i \in 1 .. m |-> p[i]]
  <1>6. listed = {p[i] : i \in 1 .. m}
    <2>1. DOMAIN s = 1 .. m /\ \A i \in 1 .. m : s[i].domain = p[i]
      BY <1>4, <1>5
    <2> QED
      BY ONLY <2>1
  <1>7. listed \subseteq known
    <2>1. \A i \in 1 .. m : p[i] \in known
      BY <1>2, <1>5
    <2> HIDE DEF listed
    <2> QED
      BY <1>6, <2>1
  <1>8. Cardinality(listed) = m
    <2>1. f \in Bijection(1 .. m, listed)
      <3>1. f \in [1 .. m -> listed] /\ \A y \in listed : \E i \in 1 .. m : f[i] = y
        <4> HIDE DEF listed
        <4> QED
          BY <1>6
      <3>2. \A i, j \in 1 .. m : f[i] = f[j] => i = j
        BY <1>2, <1>5
      <3> HIDE DEF f, listed
      <3> QED
        BY <3>1, <3>2 DEF Bijection, Injection, Surjection, IsInjective
    <2>2. ExistsBijection(1 .. m, listed)
      BY <2>1 DEF ExistsBijection
    <2> HIDE DEF listed
    <2> QED
      BY <1>1, <2>2, FS_CountingElements
  <1>9. \A n \in known : \E i \in 1 .. L : p[i] = n
    <2>1. p \in Injection(1 .. L, known)
      BY <1>2 DEF Injection, IsInjective
    <2>2. IsFiniteSet(1 .. L) /\ Cardinality(1 .. L) = L
      BY <1>1, FS_Interval
    <2>3. p \in Surjection(1 .. L, known)
      BY <2>1, <2>2, FS_Injection DEF L
    <2> QED
      BY <2>3 DEF Surjection
  <1>10. m = TopCount \/ listed = known
    <2>1. CASE m = L
      <3>1. listed = known
        <4> HIDE DEF listed
        <4> QED
          BY <1>6, <1>7, <1>9, <2>1
      <3> QED
        BY <3>1
    <2> QED
      BY <1>1, <2>1
  <1>11. ASSUME NEW i \in 1 .. m PROVE i > 1 => s[i - 1].count >= s[i].count
    <2>1. SUFFICES ASSUME i > 1 PROVE s[i - 1].count >= s[i].count
      OBVIOUS
    <2>2. i - 1 \in 1 .. m /\ i - 1 < i
      BY <1>1, <2>1
    <2>3. i \in 1 .. L /\ i - 1 \in 1 .. L
      BY <1>5, <2>2
    <2>4. Len(times[p[i - 1]]) >= Len(times[p[i]])
      BY <1>2, <1>3, <2>2, <2>3
    <2> QED
      BY <1>5, <2>2, <2>4
  <1>12. ASSUME NEW i \in 1 .. m, NEW n \in known \ listed PROVE s[i].count >= Len(times[n])
    <2>1. PICK j \in 1 .. L : p[j] = n
      BY <1>9
    <2>2. j \notin 1 .. m
      <3> HIDE DEF listed
      <3> QED
        BY <1>6, <1>12, <2>1
    <2>3. i < j /\ i \in 1 .. L
      BY <1>1, <1>5, <2>2
    <2>4. Len(times[p[i]]) >= Len(times[p[j]])
      BY <1>2, <1>3, <2>3
    <2> QED
      BY <1>5, <2>1, <2>4
  <1>13. \A i \in DOMAIN s : s[i].count = Len(times[s[i].domain])
    BY <1>4, <1>5
  <1> HIDE DEF listed
  <1>14. /\ Cardinality(listed) = Len(s) /\ listed \subseteq known
         /\ Len(s) = TopCount \/ listed = known
         /\ \A i \in DOMAIN s :
              /\ s[i].count = Len(times[s[i].domain])
              /\ i > 1 => s[i - 1].count >= s[i].count
              /\ \A n \in known \ listed : s[i].count >= Len(times[n])
    BY <1>4, <1>7, <1>8, <1>10, <1>11, <1>12, <1>13
  <1> QED
    BY <1>14 DEF Most, listed

(* A list made after a batch is right: what is recorded of a name is what  *)
(* the window has of it.                                                   *)
LEMMA TopBatch ==
    ASSUME NEW data, Handles(data), Records(data), DomainsInv, clock' = clock,
           NEW t \in Range(Trackers), t \in NamesIn(data), NEW s \in TopDomains(domainData'[t])
    PROVE  IsTopList(t, s)'
  <1> DEFINE times == domainData'[t]
             known == {n \in Names : times[n] # << >>}
             names == {handled'[i].data[t] : i \in Recent(t)'}
  <1>1. /\ clock \in Int /\ data \in Seq(Analyses) /\ Window \in Int /\ handled' \in Seq(Entry)
        /\ domainData[t] \in [Names -> Seq(Int)] /\ Nothing \notin Names
        /\ \A i \in DOMAIN handled : handled[i].at <= clock
    <2>1. handled' \in Seq(Entry)
      BY HandledParts
    <2>2. clock \in Int /\ data \in Seq(Analyses)
      BY DEF Handles
    <2>3. domainData[t] \in [Names -> Seq(Int)]
      BY DEF Records
    <2>4. \A i \in DOMAIN handled : handled[i].at <= clock
      BY DEF DomainsInv
    <2> QED
      BY <2>1, <2>2, <2>3, <2>4, StatisticsAssumption DEF Names
  <1>0. PICK x \in Int : x = clock - Window
    BY <1>1
  <1>2. times = Recorded(domainData[t], data, t)
    BY DEF Records
  <1>3. times \in [Names -> Seq(Int)]
    BY <1>1, <1>2, RecordedType
  <1>4. DomainsInv'
    BY DomainsBatch
  <1>5. Recent(t)' = {i \in DOMAIN handled' : handled'[i].data[t] # Nothing /\ handled'[i].at >= x}
    BY <1>0, <1>1, RecentMoves
  <1>6. \A i \in DOMAIN handled' : handled'[i] \in Entry /\ handled'[i].data[t] \in Names \cup {Nothing}
    <2> TAKE i \in DOMAIN handled'
    <2>1. handled'[i] \in Entry
      BY <1>1
    <2>2. handled'[i].data \in Analyses
      BY <2>1 DEF Entry
    <2> QED
      BY <2>1, <2>2, NamesAnalysed
  <1>7. IsFiniteSet(Recent(t)')
    <2>1. IsFiniteSet(1 .. Len(handled')) /\ Recent(t)' \in SUBSET (1 .. Len(handled'))
      BY <1>1, <1>5, FS_Interval
    <2> QED
      BY <2>1, FS_Subset
  <1> HIDE DEF times
  <1>8. ASSUME NEW n \in Names PROVE Len(times[n]) = Frequency(t, n)'
    <2>2. Cardinality(Places(times[n], From(x))) = Cardinality(Arrived(t, n, x)')
      BY <1>4 DEF DomainsInv, times
    <2>3. Arrived(t, n, x)' = {i \in Recent(t)' : handled'[i].data[t] = n}
      <3>1. Arrived(t, n, x)' = {i \in Recent(t)' : handled'[i].data[t] = n /\ handled'[i].at >= x}
        BY DEF Arrived
      <3> QED
        BY <1>5, <3>1
    <2>4. Places(times[n], From(x)) = 1 .. Len(times[n])
      <3>1. times[n] \in Seq(Int)
        BY <1>3
      <3>2. ASSUME NEW j \in DOMAIN domainData[t][n] PROVE domainData[t][n][j] <= clock
        BY DEF DomainsInv
      <3>3. \A j \in DOMAIN times[n] : times[n][j] >= x
        BY <1>0, <1>1, <1>2, <3>2, RecordedYoung
      <3>4. \A j \in DOMAIN times[n] : times[n][j] \in From(x)
        BY <3>1, <3>3 DEF From
      <3> QED
        BY <3>1, <3>4 DEF Places
    <2>5. Len(times[n]) \in Nat
      BY <1>3
    <2>6. Cardinality(1 .. Len(times[n])) = Len(times[n])
      BY <2>5, FS_Interval
    <2> QED
      BY <2>2, <2>3, <2>4, <2>6 DEF Frequency
  <1>9. names = known
    <2>1. ASSUME NEW n \in names PROVE n \in known
      <3>1. PICK i \in Recent(t)' : n = handled'[i].data[t]
        OBVIOUS
      <3>2. n \in Names
        BY <1>5, <1>6, <3>1
      <3> DEFINE P == {j \in Recent(t)' : handled'[j].data[t] = n}
      <3>3. i \in P /\ P \in SUBSET Recent(t)'
        BY <3>1
      <3>4. Frequency(t, n)' = Cardinality(P)
        BY DEF Frequency
      <3> HIDE DEF P
      <3>5. IsFiniteSet(P)
        BY <1>7, <3>3, FS_Subset
      <3>6. Cardinality(P) # 0
        BY <3>3, <3>5, FS_EmptySet
      <3>7. Len(times[n]) # 0
        BY <1>8, <3>2, <3>4, <3>6
      <3> QED
        BY <3>2, <3>7
    <2>2. ASSUME NEW n \in known PROVE n \in names
      <3> DEFINE P == {j \in Recent(t)' : handled'[j].data[t] = n}
      <3>1. n \in Names /\ Len(times[n]) # 0
        BY <1>3
      <3>2. Frequency(t, n)' = Cardinality(P)
        BY DEF Frequency
      <3>3. Cardinality(P) # 0
        BY <1>8, <3>1, <3>2
      <3>4. P # {}
        <4> HIDE DEF P
        <4> QED
          BY <3>3, FS_EmptySet
      <3> QED
        BY <3>4
    <2> HIDE DEF names, known
    <2> QED
      BY <2>1, <2>2
  <1>10. IsFiniteSet(names)
    <2> DEFINE f == [i \in Recent(t)' |-> handled'[i].data[t]]
    <2>1. f \in Surjection(Recent(t)', names)
      <3>1. f \in [Recent(t)' -> names] /\ \A y \in names : \E i \in Recent(t)' : f[i] = y
        OBVIOUS
      <3> HIDE DEF f, names
      <3> QED
        BY <3>1 DEF Surjection
    <2> HIDE DEF f, names
    <2> QED
      BY <1>7, <2>1, FS_Surjection
  <1>11. Most(s, times, known)
    <2>1. s \in TopDomains(times) /\ IsFiniteSet(known)
      BY <1>9, <1>10 DEF times
    <2> QED
      BY <1>3, <2>1, TopIsMost
  <1> DEFINE listed == {s[i].domain : i \in DOMAIN s}
  <1>12. /\ Cardinality(listed) = Len(s) /\ listed \subseteq names
         /\ Len(s) = TopCount \/ listed = names
         /\ \A i \in DOMAIN s :
              /\ s[i].count = Len(times[s[i].domain])
              /\ i > 1 => s[i - 1].count >= s[i].count
              /\ \A n \in names \ listed : s[i].count >= Len(times[n])
    <2> HIDE DEF names, known
    <2> QED
      BY <1>9, <1>11 DEF Most
  <1>13. names \subseteq Names
    BY <1>9
  <1>14. \A i \in DOMAIN s : s[i].domain \in listed
    OBVIOUS
  <1> HIDE DEF listed, names, known
  <1>15. \A i \in DOMAIN s :
              /\ s[i].count = Frequency(t, s[i].domain)'
              /\ i > 1 => s[i - 1].count >= s[i].count
              /\ \A n \in names \ listed : s[i].count >= Frequency(t, n)'
    <2> TAKE i \in DOMAIN s
    <2>1. s[i].domain \in Names /\ \A n \in names \ listed : n \in Names
      BY <1>12, <1>13, <1>14
    <2>2. Len(times[s[i].domain]) = Frequency(t, s[i].domain)'
      BY <1>8, <2>1
    <2>3. \A n \in names \ listed : Len(times[n]) = Frequency(t, n)'
      BY <1>8, <2>1
    <2> QED
      BY <1>12, <2>2, <2>3
  <1> QED
    BY <1>12, <1>15 DEF IsTopList, listed, names

(* A list stays right while no name arrives. *)
LEMMA TopStays ==
    ASSUME NEW t, NEW s, Recent(t)' = Recent(t), \A i \in Recent(t) : handled'[i] = handled[i],
           IsTopList(t, s)
    PROVE  IsTopList(t, s)'
  <1>1. {handled'[i].data[t] : i \in Recent(t)'} = {handled[i].data[t] : i \in Recent(t)}
    OBVIOUS
  <1>2. \A n : Frequency(t, n)' = Frequency(t, n)
    BY DEF Frequency
  <1> DEFINE names == {handled[i].data[t] : i \in Recent(t)}
             listed == {s[i].domain : i \in DOMAIN s}
  <1>3. /\ Cardinality(listed) = Len(s) /\ listed \subseteq names
        /\ Len(s) = TopCount \/ listed = names
        /\ \A i \in DOMAIN s :
              /\ s[i].count = Frequency(t, s[i].domain)
              /\ i > 1 => s[i - 1].count >= s[i].count
              /\ \A n \in names \ listed : s[i].count >= Frequency(t, n)
    BY DEF IsTopList
  <1> HIDE DEF names, listed
  <1>4. \A i \in DOMAIN s :
              /\ s[i].count = Frequency(t, s[i].domain)'
              /\ i > 1 => s[i - 1].count >= s[i].count
              /\ \A n \in names \ listed : s[i].count >= Frequency(t, n)'
    BY <1>2, <1>3
  <1>5. {handled'[i].data[t] : i \in Recent(t)'} = names
    BY <1>1 DEF names
  <1> QED
    BY <1>3, <1>4, <1>5 DEF IsTopList, listed

-----------------------------------------------------------------------------
(* What does not change while nothing is handled. *)
LEMMA ConnectionsStay ==
    ASSUME ConnectionsInv, UNCHANGED <<handled, connections>>
    PROVE  ConnectionsInv'
  BY DEF ConnectionsInv, Seen

LEMMA DomainsStay ==
    ASSUME StatisticsType, DomainsInv, UNCHANGED <<handled, domainData>>,
           clock' \in Int, clock' >= clock
    PROVE  DomainsInv'
  <1>1. clock \in Int /\ handled \in Seq(Entry) /\ domainData \in [Range(Trackers) -> [Names -> Seq(Int)]]
    BY DEF StatisticsType, Entry
  <1>2. \A i \in DOMAIN handled' : handled'[i].at <= clock'
    <2> TAKE i \in DOMAIN handled'
    <2>1. handled[i] \in Entry /\ handled[i].at <= clock
      BY <1>1 DEF DomainsInv
    <2>2. handled[i].at \in Int
      BY <2>1 DEF Entry
    <2> QED
      BY <1>1, <2>1, <2>2
  <1>3. ASSUME NEW t \in Range(Trackers), NEW n \in Names
        PROVE  /\ \A j \in DOMAIN domainData'[t][n] : domainData'[t][n][j] <= clock'
               /\ \A x \in Int : Cardinality(Places(domainData'[t][n], From(x)))
                                     = Cardinality(Arrived(t, n, x)')
    <2>1. /\ \A j \in DOMAIN domainData[t][n] : domainData[t][n][j] <= clock
          /\ \A x \in Int : Cardinality(Places(domainData[t][n], From(x)))
                                     = Cardinality(Arrived(t, n, x))
      BY DEF DomainsInv
    <2>2. domainData[t][n] \in Seq(Int)
      BY <1>1
    <2>3. \A j \in DOMAIN domainData[t][n] : domainData[t][n][j] \in Int
      BY <2>2
    <2>4. \A x : Arrived(t, n, x)' = Arrived(t, n, x)
      BY DEF Arrived, Recent
    <2> QED
      BY <1>1, <2>1, <2>3, <2>4
  <1> QED
    BY <1>2, <1>3 DEF DomainsInv, Places, From

LEMMA ShownStays ==
    ASSUME ShownInv, UNCHANGED <<handled, connections, missed>>,
           \A f \in LiveData : Coming(f)' = Coming(f)
    PROVE  ShownInv'
  <1>1. \A k \in Range(ConnectionCounts) : Coming(k)' = Cardinality(connections'[k])
    BY Shown DEF ShownInv
  <1>2. \A f \in FlagCounts : f \notin missed' => Coming(f)' = Counted(f)'
    <2>1. \A f : Counted(f)' = Counted(f)
      BY DEF Counted
    <2> QED
      BY <2>1, Shown DEF ShownInv
  <1>3. ASSUME NEW t \in Range(Trackers), t \notin missed' PROVE IsTopList(t, Coming(t))'
    <2>1. PICK s : s = Coming(t)
      OBVIOUS
    <2>2. IsTopList(t, s) /\ Coming(t)' = s
      BY <1>3, <2>1, Shown DEF ShownInv
    <2>3. Recent(t)' = Recent(t) /\ \A i \in Recent(t) : handled'[i] = handled[i]
      BY DEF Recent
    <2>4. IsTopList(t, s)'
      BY <2>2, <2>3, TopStays
    <2> QED
      BY <2>2, <2>4
  <1> QED
    BY <1>1, <1>2, <1>3 DEF ShownInv

LEMMA QuietStep ==
    ASSUME StatisticsInv, UNCHANGED <<handled, connections, domainData, value, pending, missed>>,
           clock' \in Int, clock' >= clock
    PROVE  CountingInv'
  <1>1. \A f \in LiveData : Coming(f)' = Coming(f)
    BY DEF Coming
  <1> QED
    BY <1>1, ConnectionsStay, DomainsStay, ShownStays DEF StatisticsInv, CountingInv

LEMMA TypeStays ==
    ASSUME StatisticsType, UNCHANGED <<handled, connections, domainData, value, pending>>,
           clock' \in Int, looper' \in Seq(Message), packetDataList' \in Seq(Analyses),
           batches' \in Seq(Seq(Analyses))
    PROVE  StatisticsType'
  BY DEF StatisticsType

LEMMA LooperStays ==
    ASSUME LooperInv, UNCHANGED <<looper, pending>>
    PROVE  LooperInv'
  BY DEF LooperInv, Waits, Once

-----------------------------------------------------------------------------
(* Nothing handled yet: so it is at first, and again after Connect. *)
Fresh ==
    /\ handled = << >> /\ connections = NoConnections /\ domainData = NoTimes
    /\ \A f \in LiveData : Coming(f) = Empty(f)

(* Nothing is counted, and nothing shown. *)
LEMMA FreshCounts == Fresh => CountingInv
  <1> SUFFICES ASSUME Fresh PROVE CountingInv
    OBVIOUS
  <1> USE DEF Fresh
  <1>1. ConnectionsInv
    BY Shown DEF ConnectionsInv, Seen, NoConnections
  <1>2. DomainsInv
    <2>1. ASSUME NEW t \in Range(Trackers), NEW n \in Names
          PROVE  /\ domainData[t][n] = << >>
                 /\ \A x \in Int : Cardinality(Places(domainData[t][n], From(x)))
                                       = Cardinality(Arrived(t, n, x))
      <3>1. domainData[t][n] = << >>
        BY DEF NoTimes
      <3>2. \A x \in Int : Arrived(t, n, x) = {}
        BY DEF Arrived, Recent
      <3> QED
        BY <3>1, <3>2, NoPlaces, FS_EmptySet
    <2> QED
      BY <2>1 DEF DomainsInv
  <1>3. \A k \in Range(ConnectionCounts) : Coming(k) = 0 /\ connections[k] = {}
    BY Shown DEF Empty, NoConnections
  <1>4. \A f \in FlagCounts : Coming(f) = 0 /\ Counted(f) = Cardinality({})
    <2>1. \A f \in FlagCounts : Coming(f) = 0
      BY Shown DEF Empty
    <2>2. \A f \in FlagCounts : Counted(f) = Cardinality({})
      BY DEF Counted
    <2> QED
      BY <2>1, <2>2
  <1>5. ASSUME NEW t \in Range(Trackers) PROVE IsTopList(t, Coming(t))
    <2>1. Coming(t) = << >>
      BY Shown DEF Empty
    <2>2. {handled[i].data[t] : i \in Recent(t)} = {}
      BY DEF Recent
    <2> DEFINE s == << >>
    <2>3. DOMAIN s = {} /\ Len(s) = 0 /\ {s[i].domain : i \in DOMAIN s} = {}
      OBVIOUS
    <2> HIDE DEF s
    <2>4. IsTopList(t, s)
      BY <2>2, <2>3, FS_EmptySet DEF IsTopList
    <2> QED
      BY <2>1, <2>4 DEF s
  <1>6. ShownInv
    BY <1>3, <1>4, <1>5, FS_EmptySet DEF ShownInv
  <1> QED
    BY <1>1, <1>2, <1>6 DEF CountingInv

LEMMA InitStep ==
    ASSUME StatisticsInit
    PROVE  StatisticsInv
  <1> USE DEF StatisticsInit
  <1>1. StatisticsType
    <2>1. << >> \in Seq(Int) /\ << >> \in Seq(Message) /\ << >> \in Seq(Analyses)
          /\ << >> \in Seq(Seq(Analyses)) /\ << >> \in Seq([data : Analyses, at : Int])
      OBVIOUS
    <2>2. NoTimes \in [Range(Trackers) -> [Names -> Seq(Int)]]
      BY <2>1 DEF NoTimes
    <2>3. \A f \in Counters : f \in LiveData /\ Empty(f) = 0
      BY DEF Counters, Empty
    <2>4. \A t \in Range(Trackers) : t \in LiveData
      BY Shown
    <2>5. DOMAIN connections = Range(ConnectionCounts)
      BY DEF NoConnections
    <2> QED
      BY <2>1, <2>2, <2>3, <2>4, <2>5 DEF StatisticsType
  <1>2. LooperInv
    BY DEF LooperInv, Once
  <1>3. Fresh
    BY DEF Fresh, Coming
  <1> QED
    BY <1>1, <1>2, <1>3, FreshCounts DEF StatisticsInv

LEMMA ProcessPacketStep ==
    ASSUME StatisticsInv, NEW w \in Wire, ProcessPacket(w)
    PROVE  StatisticsInv'
  <1>1. UNCHANGED <<looper, value, pending, connections, domainData, clock, handled, missed>>
    BY DEF ProcessPacket, model
  <1>2. /\ packetDataList \in Seq(Analyses) /\ batches \in Seq(Seq(Analyses)) /\ clock \in Int
        /\ looper \in Seq(Message)
    BY DEF StatisticsInv, StatisticsType
  <1>3. Append(packetDataList, Analysed(w)) \in Seq(Analyses)
    <2>1. Analysed(w) \in Analyses
      BY DEF Analyses
    <2> QED
      BY <1>2, <2>1
  <1>4. packetDataList' \in Seq(Analyses) /\ batches' \in Seq(Seq(Analyses))
    <2> DEFINE batch == Append(packetDataList, Analysed(w))
    <2>1. Append(batches, batch) \in Seq(Seq(Analyses)) /\ << >> \in Seq(Analyses)
      BY <1>2, <1>3
    <2>2. \/ packetDataList' = packetDataList /\ batches' = batches
          \/ packetDataList' = << >> /\ batches' = Append(batches, batch)
          \/ packetDataList' = batch /\ batches' = batches
      BY DEF ProcessPacket, sending
    <2> HIDE DEF batch
    <2>3. batch \in Seq(Analyses)
      BY <1>3 DEF batch
    <2> QED
      BY <1>2, <2>1, <2>2, <2>3
  <1>5. StatisticsType'
    BY <1>1, <1>2, <1>4, TypeStays DEF StatisticsInv
  <1>6. LooperInv'
    BY <1>1, LooperStays DEF StatisticsInv
  <1>7. CountingInv'
    BY <1>1, <1>2, QuietStep
  <1> QED
    BY <1>5, <1>6, <1>7 DEF StatisticsInv

LEMMA HandOverStep ==
    ASSUME StatisticsInv, HandOver
    PROVE  StatisticsInv'
  <1>1. /\ UNCHANGED <<packetDataList, value, pending, connections, domainData, clock, handled, missed>>
        /\ batches # << >> /\ batches' = Tail(batches)
        /\ looper' = Append(looper, Batch(Head(batches)))
    BY DEF HandOver, model, bounds
  <1>2. /\ packetDataList \in Seq(Analyses) /\ batches \in Seq(Seq(Analyses)) /\ clock \in Int
        /\ looper \in Seq(Message)
    BY DEF StatisticsInv, StatisticsType
  <1>3. batches' \in Seq(Seq(Analyses)) /\ Head(batches) \in Seq(Analyses)
    BY <1>1, <1>2
  <1> DEFINE e == Batch(Head(batches))
  <1>4. e \in Message /\ e.what # "apply"
    BY <1>3 DEF Batch, Message
  <1> HIDE DEF e
  <1>5. /\ looper' \in Seq(Message) /\ DOMAIN looper = 1 .. Len(looper) /\ Len(looper) \in Nat
        /\ DOMAIN looper' = 1 .. Len(looper) + 1 /\ looper'[Len(looper) + 1] = e
        /\ \A i \in 1 .. Len(looper) : looper'[i] = looper[i]
    BY <1>1, <1>2, <1>4 DEF e
  <1>6. \A i \in DOMAIN looper' : looper'[i] = e \/ (i \in DOMAIN looper /\ looper'[i] = looper[i])
    BY <1>5
  <1>7. LooperInv'
    BY <1>1, <1>4, <1>6 DEF StatisticsInv, LooperInv, Waits, Once
  <1>8. StatisticsType'
    BY <1>1, <1>2, <1>3, <1>5, TypeStays DEF StatisticsInv
  <1>9. CountingInv'
    BY <1>1, <1>2, QuietStep
  <1> QED
    BY <1>7, <1>8, <1>9 DEF StatisticsInv

LEMMA TickStep ==
    ASSUME StatisticsInv, Tick
    PROVE  StatisticsInv'
  <1>1. /\ UNCHANGED <<packetDataList, batches, looper, value, pending, connections, domainData,
                       handled, missed>>
        /\ clock' = clock + 1
    BY DEF Tick, model, sending
  <1>2. /\ packetDataList \in Seq(Analyses) /\ batches \in Seq(Seq(Analyses)) /\ clock \in Int
        /\ looper \in Seq(Message)
    BY DEF StatisticsInv, StatisticsType
  <1>3. clock' \in Int /\ clock' >= clock
    BY <1>1, <1>2
  <1>4. StatisticsType'
    BY <1>1, <1>2, <1>3, TypeStays DEF StatisticsInv
  <1>5. LooperInv'
    BY <1>1, LooperStays DEF StatisticsInv
  <1>6. CountingInv'
    BY <1>1, <1>3, QuietStep
  <1> QED
    BY <1>4, <1>5, <1>6 DEF StatisticsInv

LEMMA ApplyStep ==
    ASSUME StatisticsInv, Apply
    PROVE  StatisticsInv'
  <1> DEFINE g == Head(looper).data
  <1>1. /\ looper # << >> /\ Head(looper).what = "apply" /\ looper' = Tail(looper)
        /\ value' = [value EXCEPT ![g] = pending[g]]
        /\ pending' = [pending EXCEPT ![g] = Nothing]
        /\ UNCHANGED <<packetDataList, batches, connections, domainData, clock, handled, missed>>
    BY DEF Apply, First, sending, model, bounds
  <1>2. StatisticsType /\ LooperInv /\ looper \in Seq(Message) /\ Once(looper)
    BY DEF StatisticsInv, StatisticsType, LooperInv
  <1>3. /\ looper' \in Seq(Message) /\ Once(looper')
        /\ \A i \in DOMAIN looper' : /\ i + 1 \in DOMAIN looper /\ looper'[i] = looper[i + 1]
                                     /\ i + 1 # 1
    BY <1>1, <1>2, TailOnce
  <1>4. 1 \in DOMAIN looper /\ Head(looper) = looper[1] /\ Head(looper) \in Message
    BY <1>1, <1>2
  <1>5. g \in LiveData /\ pending[g] # Nothing
    <2>1. g \in LiveData
      BY <1>1, <1>4 DEF Message
    <2>2. Waits(looper[1])
      BY <1>2, <1>4 DEF LooperInv
    <2> QED
      BY <1>1, <1>4, <2>1, <2>2 DEF Waits
  <1> HIDE DEF g
  <1>6. /\ value' = [f \in LiveData |-> IF f = g THEN pending[g] ELSE value[f]]
        /\ pending' = [f \in LiveData |-> IF f = g THEN Nothing ELSE pending[f]]
    <2>1. value = [f \in LiveData |-> value[f]] /\ pending = [f \in LiveData |-> pending[f]]
      BY <1>2 DEF StatisticsType
    <2>2. DOMAIN value = LiveData /\ DOMAIN pending = LiveData
      BY ONLY <2>1
    <2> QED
      BY ONLY <1>1, <2>2
  <1>7. LooperInv'
    <2>1. ASSUME NEW i \in DOMAIN looper', looper'[i].what = "apply"
          PROVE  pending'[looper'[i].data] # Nothing
      <3>1. i + 1 \in DOMAIN looper /\ looper'[i] = looper[i + 1] /\ i + 1 # 1
        BY <1>3
      <3>2. Waits(looper[i + 1]) /\ looper[i + 1].what = "apply"
        BY <1>2, <2>1, <3>1 DEF LooperInv
      <3>3. looper[i + 1].data # g
        BY <1>1, <1>2, <1>4, <3>1, <3>2 DEF Once, g
      <3>4. looper[i + 1].data \in LiveData
        <4>1. looper[i + 1] \in Message
          BY <1>2, <3>1
        <4> QED
          BY <3>2, <4>1 DEF Message
      <3> QED
        BY <1>6, <3>1, <3>2, <3>3, <3>4 DEF Waits
    <2> QED
      BY <1>3, <2>1 DEF LooperInv, Waits, Once
  <1>8. \A f \in LiveData : Coming(f)' = Coming(f)
    BY <1>5, <1>6 DEF Coming
  <1>9. StatisticsType'
    <2>1. \A f \in Counters : f \in LiveData
      BY Shown
    <2>2. \A t \in Range(Trackers) : t \in LiveData
      BY Shown
    <2>3. \A f \in Counters : value'[f] \in Int /\ pending'[f] \in Int \cup {Nothing}
      BY <1>2, <1>5, <1>6, <2>1 DEF StatisticsType
    <2>4. \A t \in Range(Trackers) : pending'[t] \in {<< >>, Nothing}
      BY <1>2, <1>6, <2>2 DEF StatisticsType
    <2>5. value' = [f \in LiveData |-> value'[f]] /\ pending' = [f \in LiveData |-> pending'[f]]
      BY <1>6
    <2> QED
      BY <1>1, <1>2, <1>3, <2>3, <2>4, <2>5 DEF StatisticsType
  <1>10. CountingInv'
    <2>1. clock \in Int /\ CountingInv
      BY <1>2 DEF StatisticsType, StatisticsInv
    <2>2. clock' \in Int /\ clock' >= clock
      BY <1>1, <2>1
    <2> QED
      BY <1>1, <1>2, <1>8, <2>1, <2>2, ConnectionsStay, DomainsStay, ShownStays DEF CountingInv
  <1> QED
    BY <1>7, <1>9, <1>10 DEF StatisticsInv

LEMMA ConnectStep ==
    ASSUME StatisticsInv, ConnectVpn
    PROVE  StatisticsInv'
  <1> DEFINE fs == Flags \o ConnectionCounts \o Trackers
             posted == [f \in LiveData |-> Empty(f)]
  <1>1. /\ PostValues(fs, posted, looper)
        /\ connections' = NoConnections /\ domainData' = NoTimes /\ handled' = << >>
        /\ UNCHANGED <<packetDataList, value, clock>>
    BY DEF ConnectVpn
  <1>2. StatisticsType /\ LooperInv /\ looper \in Seq(Message)
    BY DEF StatisticsInv, StatisticsType
  <1>3. /\ fs \in Seq(LiveData) /\ Range(fs) = LiveData
        /\ \A i, j \in DOMAIN fs : fs[i] = fs[j] => i = j
    BY PostedOnConnect
  <1> HIDE DEF fs
  <1>4. \A f \in LiveData : posted[f] = Empty(f) /\ Empty(f) # Nothing
    BY StatisticsAssumption DEF Empty
  <1> HIDE DEF posted
  <1>5. (\A i \in DOMAIN looper : Waits(looper[i])) /\ Once(looper)
    BY <1>2 DEF LooperInv
  <1>6. /\ looper' \in Seq(Message) /\ LooperInv' /\ batches' \in Seq(Seq(Analyses))
        /\ pending' = [f \in LiveData |-> IF f \in Range(fs) THEN posted[f] ELSE pending[f]]
    BY <1>1, <1>2, <1>3, <1>4, <1>5, Posting
  <1>7. \A f \in LiveData : pending'[f] = Empty(f)
    BY <1>3, <1>4, <1>6
  <1>8. StatisticsType'
    <2>1. << >> \in Seq([data : Analyses, at : Int]) /\ << >> \in Seq(Int)
      OBVIOUS
    <2>2. NoTimes \in [Range(Trackers) -> [Names -> Seq(Int)]]
      BY <2>1 DEF NoTimes
    <2>3. \A f \in Counters : f \in LiveData /\ Empty(f) = 0
      BY DEF Counters, Empty
    <2>4. \A t \in Range(Trackers) : t \in LiveData /\ Empty(t) = << >>
      BY Shown DEF Empty
    <2>5. DOMAIN connections' = Range(ConnectionCounts)
      BY <1>1 DEF NoConnections
    <2>6. pending' = [f \in LiveData |-> pending'[f]]
      BY <1>6
    <2>7. \A f \in Counters : pending'[f] \in Int \cup {Nothing}
      BY <1>7, <2>3
    <2>8. \A t \in Range(Trackers) : pending'[t] \in {<< >>, Nothing}
      BY <1>7, <2>4
    <2> QED
      BY <1>1, <1>2, <1>6, <2>1, <2>2, <2>5, <2>6, <2>7, <2>8 DEF StatisticsType
  <1>9. Fresh'
    <2>1. \A f \in LiveData : Coming(f)' = Empty(f)
      BY <1>4, <1>7 DEF Coming
    <2> QED
      BY <1>1, <2>1 DEF Fresh
  <1>10. CountingInv'
    BY <1>9, FreshCounts, PTL
  <1> QED
    BY <1>6, <1>8, <1>10 DEF StatisticsInv

HandledType == handled \in Seq(Entry)
SeenNumbers == \A flag \in {"UDP", "TCP"} : Cardinality(Seen(flag)) \in Nat
LEMMA SeenCounted == HandledType => SeenNumbers
  BY SeenFinite DEF HandledType, SeenNumbers

LEMMA BatchStep ==
    ASSUME StatisticsInv, OnPacketDataArrives
    PROVE  StatisticsInv'
  <1> DEFINE data == Head(looper).data
             named == NamesIn(data)
             fs == Flags \o ConnectionCounts
             posted == Totals(data)
  <1>1. /\ looper # << >> /\ Head(looper).what = "batch"
        /\ connections' = [connections EXCEPT
                     !["udpConnections"] = @ \cup ConnectionIDs(data, "UDP"),
                     !["tcpConnections"] = @ \cup ConnectionIDs(data, "TCP")]
        /\ domainData' = [t \in Range(Trackers) |->
                  IF t \in named THEN Recorded(domainData[t], data, t)
                  ELSE domainData[t]]
        /\ PostValues(fs, posted, Tail(looper))
        /\ missed' = missed \cup {f \in named \cup FlagCounts : pending[f] # Nothing}
        /\ handled' = handled \o [i \in DOMAIN data |-> [data |-> data[i], at |-> clock]]
        /\ UNCHANGED <<packetDataList, clock>>
    BY DEF OnPacketDataArrives, First, bounds
  <1>2. PICK top : /\ \A t \in named : top[t] \in TopDomains(domainData'[t])
                   /\ value' = [f \in LiveData |-> IF f \in named THEN top[f] ELSE value[f]]
    BY DEF OnPacketDataArrives
  <1>3. /\ StatisticsType /\ LooperInv /\ ConnectionsInv /\ DomainsInv /\ ShownInv
        /\ looper \in Seq(Message) /\ Once(looper) /\ clock \in Int /\ handled \in Seq(Entry)
        /\ domainData \in [Range(Trackers) -> [Names -> Seq(Int)]]
    BY DEF StatisticsInv, CountingInv, StatisticsType, LooperInv, Entry
  <1>4. data \in Seq(Analyses)
    <2>1. Head(looper) \in Message
      BY <1>1, <1>3
    <2> QED
      BY <1>1, <2>1 DEF Message
  <1>5. named \subseteq Range(Trackers)
    BY DEF NamesIn
  <1> HIDE DEF data, named, fs, posted
  <1>6. Handles(data)
    BY <1>1, <1>3, <1>4 DEF Handles, Stamped
  <1>7. Records(data)
    BY <1>1, <1>3 DEF Records, named
  <1>8. ConnectionsInv'
    <2>1. /\ Seen("UDP")' = Seen("UDP") \cup ConnectionIDs(data, "UDP")
          /\ Seen("TCP")' = Seen("TCP") \cup ConnectionIDs(data, "TCP")
      BY <1>6, SeenGrows
    <2>2. DOMAIN connections = {"udpConnections", "tcpConnections"}
      BY <1>3, Shown DEF StatisticsType
    <2>3. /\ connections'["udpConnections"] = connections["udpConnections"] \cup ConnectionIDs(data, "UDP")
          /\ connections'["tcpConnections"] = connections["tcpConnections"] \cup ConnectionIDs(data, "TCP")
      BY <1>1, <2>2
    <2> QED
      BY <1>3, <2>1, <2>3 DEF ConnectionsInv
  <1>9. DomainsInv'
    BY <1>1, <1>3, <1>6, <1>7, DomainsBatch
  <1>10. handled' \in Seq(Entry)
    BY <1>6, HandledParts
  <1>11. \A k \in Range(ConnectionCounts) : Cardinality(connections'[k]) \in Int
    <2>1. HandledType'
      BY <1>10 DEF HandledType
    <2>2. SeenNumbers'
      BY <2>1, SeenCounted, PTL
    <2>3. Cardinality(Seen("UDP")') \in Nat /\ Cardinality(Seen("TCP")') \in Nat
      BY <2>2 DEF SeenNumbers
    <2> QED
      BY <1>8, <2>3, Shown DEF ConnectionsInv
  <1>12. /\ \A f \in FlagCounts : posted[f] = value[f] + Occurrences(data, f)
         /\ \A k \in Range(ConnectionCounts) : posted[k] = Cardinality(connections'[k])
    <2>1. \A f \in Counters : posted[f] = IF f \in FlagCounts THEN value[f] + Occurrences(data, f)
                                         ELSE Cardinality(connections'[f])
      BY DEF posted, Totals, Total, Counters
    <2> QED
      BY <2>1, Shown
  <1>13. \A f \in Counters : value[f] \in Int /\ posted[f] \in Int
    <2>1. \A f \in Counters : value[f] \in Int
      BY <1>3 DEF StatisticsType
    <2>2. \A f \in FlagCounts : Occurrences(data, f) \in Nat
      BY <1>4, OccurrencesType
    <2>3. \A f \in FlagCounts : posted[f] \in Int
      BY <1>12, <2>1, <2>2, Shown
    <2> QED
      BY <1>11, <1>12, <2>1, <2>3, Shown
  <1>14. /\ looper' \in Seq(Message) /\ LooperInv' /\ batches' \in Seq(Seq(Analyses))
         /\ pending' = [f \in LiveData |-> IF f \in Counters THEN posted[f] ELSE pending[f]]
    <2>1. /\ fs \in Seq(LiveData) /\ Range(fs) = Counters
          /\ \A i, j \in DOMAIN fs : fs[i] = fs[j] => i = j
      BY PostedOnBatch DEF fs
    <2>2. \A f \in Range(fs) : posted[f] # Nothing
      BY <1>13, <2>1, StatisticsAssumption
    <2>3. Tail(looper) \in Seq(Message) /\ Once(Tail(looper))
      BY <1>1, <1>3, TailOnce
    <2>4. \A i \in DOMAIN Tail(looper) : Waits(Tail(looper)[i])
      <3>1. \A i \in DOMAIN Tail(looper) : i + 1 \in DOMAIN looper /\ Tail(looper)[i] = looper[i + 1]
        BY <1>1, <1>3, TailOnce
      <3> QED
        BY <1>3, <3>1 DEF LooperInv
    <2>5. PostValues(fs, posted, Tail(looper))
      BY <1>1
    <2> DEFINE rest == Tail(looper)
    <2> HIDE DEF rest
    <2>6. /\ rest \in Seq(Message) /\ Once(rest) /\ PostValues(fs, posted, rest)
          /\ \A i \in DOMAIN rest : Waits(rest[i])
      BY <2>3, <2>4, <2>5 DEF rest
    <2> QED
      BY <1>3, <2>1, <2>2, <2>6, Posting
  <1>15. StatisticsType'
    <2>1. \A f \in Counters : f \in LiveData /\ f \notin named
      BY <1>5 DEF Counters
    <2>2. \A f \in Counters : value'[f] \in Int /\ pending'[f] \in Int \cup {Nothing}
      BY <1>2, <1>13, <1>14, <2>1
    <2>3. \A t \in Range(Trackers) : pending'[t] \in {<< >>, Nothing}
      BY <1>3, <1>14, Shown DEF StatisticsType
    <2>4. value' = [f \in LiveData |-> value'[f]] /\ pending' = [f \in LiveData |-> pending'[f]]
      BY <1>2, <1>14
    <2>5. domainData' \in [Range(Trackers) -> [Names -> Seq(Int)]]
      <3>1. \A t \in Range(Trackers) : domainData[t] \in [Names -> Seq(Int)]
        BY <1>3
      <3>2. \A t \in Range(Trackers) : Recorded(domainData[t], data, t) \in [Names -> Seq(Int)]
        BY <1>3, <1>4, <3>1, RecordedType
      <3> QED
        BY <1>1, <3>1, <3>2
    <2>6. DOMAIN connections' = Range(ConnectionCounts)
      <3>1. DOMAIN connections = Range(ConnectionCounts)
        BY <1>3 DEF StatisticsType
      <3> QED
        BY <1>1, <3>1
    <2>7. packetDataList' \in Seq(Analyses) /\ clock' \in Int
      BY <1>1, <1>3 DEF StatisticsType
    <2>8. handled' \in Seq([data : Analyses, at : Int])
      BY <1>10 DEF Entry
    <2> QED
      BY <1>14, <2>2, <2>3, <2>4, <2>5, <2>6, <2>7, <2>8 DEF StatisticsType
  <1>16. ShownInv'
    <2>1. \A k \in Range(ConnectionCounts) : Coming(k)' = Cardinality(connections'[k])
      <3> TAKE k \in Range(ConnectionCounts)
      <3>1. k \in Counters /\ k \in LiveData
        BY Shown
      <3>2. pending'[k] = Cardinality(connections'[k])
        BY <1>12, <1>14, <3>1
      <3>3. pending'[k] # Nothing
        BY <1>13, <1>14, <3>1, StatisticsAssumption
      <3> QED
        BY <3>2, <3>3 DEF Coming
    <2>2. ASSUME NEW f \in FlagCounts, f \notin missed' PROVE Coming(f)' = Counted(f)'
      <3>1. f \in Counters /\ f \in LiveData
        BY Shown
      <3>2. f \notin missed /\ pending[f] = Nothing
        BY <1>1, <2>2
      <3>3. value[f] = Counted(f)
        BY <1>3, <3>2 DEF ShownInv, Coming
      <3>4. Counted(f)' = Counted(f) + Occurrences(data, f)
        BY <1>6, CountedGrows
      <3>5. pending'[f] = value[f] + Occurrences(data, f) /\ pending'[f] # Nothing
        BY <1>12, <1>13, <1>14, <3>1, StatisticsAssumption
      <3> QED
        BY <3>3, <3>4, <3>5 DEF Coming
    <2>3. ASSUME NEW t \in Range(Trackers), t \notin missed' PROVE IsTopList(t, Coming(t))'
      <3>1. t \in LiveData /\ t \notin Counters /\ pending'[t] = pending[t] /\ t \notin missed
        BY <1>1, <1>14, <2>3, Shown
      <3>2. CASE t \in named
        <4>1. pending[t] = Nothing
          BY <1>1, <2>3, <3>2
        <4>2. Coming(t)' = top[t]
          BY <1>2, <3>1, <3>2, <4>1 DEF Coming
        <4>3. PICK s : s = top[t]
          OBVIOUS
        <4>4. s \in TopDomains(domainData'[t]) /\ t \in NamesIn(data)
          BY <1>2, <3>2, <4>3 DEF named
        <4>5. IsTopList(t, s)'
          BY <1>1, <1>3, <1>6, <1>7, <4>4, TopBatch
        <4> QED
          BY <4>2, <4>3, <4>5
      <3>3. CASE t \notin named
        <4>1. Coming(t)' = Coming(t)
          BY <1>2, <3>1, <3>3 DEF Coming
        <4>2. PICK s : s = Coming(t)
          OBVIOUS
        <4>3. IsTopList(t, s)
          BY <1>3, <3>1, <4>2 DEF ShownInv
        <4>4. Recent(t)' = Recent(t) /\ \A i \in Recent(t) : handled'[i] = handled[i]
          BY <1>6, <3>3, RecentStays DEF named
        <4>5. IsTopList(t, s)'
          BY <4>3, <4>4, TopStays
        <4> QED
          BY <4>1, <4>2, <4>5
      <3> QED
        BY <3>2, <3>3
    <2> QED
      BY <2>1, <2>2, <2>3 DEF ShownInv
  <1> QED
    BY <1>8, <1>9, <1>14, <1>15, <1>16 DEF StatisticsInv, CountingInv

LEMMA StutterStep ==
    ASSUME StatisticsInv, UNCHANGED statistics
    PROVE  StatisticsInv'
  <1>1. UNCHANGED <<packetDataList, batches, looper, value, pending, connections, domainData,
                    clock, handled, missed>>
    BY DEF statistics, sending, model, bounds
  <1>2. /\ packetDataList \in Seq(Analyses) /\ batches \in Seq(Seq(Analyses)) /\ clock \in Int
        /\ looper \in Seq(Message)
    BY DEF StatisticsInv, StatisticsType
  <1>3. StatisticsType'
    BY <1>1, <1>2, TypeStays DEF StatisticsInv
  <1>4. LooperInv'
    BY <1>1, LooperStays DEF StatisticsInv
  <1>5. CountingInv'
    BY <1>1, <1>2, QuietStep
  <1> QED
    BY <1>3, <1>4, <1>5 DEF StatisticsInv

(* The inductive invariant: the types, the posts under way, and that what  *)
(* is recorded, and will be shown once all posts are applied, is what was  *)
(* handled since Connect (connectVpn, onPacketDataArrives).                *)
THEOREM StatisticsInvariant == StatisticsSpec => []StatisticsInv
  <1>1. StatisticsInit => StatisticsInv
    BY InitStep
  <1>2. StatisticsInv /\ [StatisticsNext]_statistics => StatisticsInv'
    BY ProcessPacketStep, HandOverStep, BatchStep, ConnectStep, ApplyStep, TickStep, StutterStep
       DEF StatisticsNext
  <1> QED
    BY <1>1, <1>2, PTL DEF StatisticsSpec

(* A number or a list that nobody is about to change is what arrived since *)
(* Connect: the packets, the distinct connections and the most frequent    *)
(* names of the window, except where an update met a post that was not     *)
(* applied yet (ToyVpnViewModel.onPacketDataArrives, DomainTracker).       *)
THEOREM StatisticsAreRight == StatisticsSpec => []ShownIsWhatArrived
  <1>1. StatisticsInv => ShownIsWhatArrived
    <2> SUFFICES ASSUME StatisticsInv, NEW f \in LiveData, Settled(f)
                 PROVE  /\ f = "udpConnections" => value[f] = Cardinality(Seen("UDP"))
                        /\ f = "tcpConnections" => value[f] = Cardinality(Seen("TCP"))
                        /\ f \in FlagCounts \ missed => value[f] = Counted(f)
                        /\ f \in Range(Trackers) \ missed => IsTopList(f, value[f])
      BY DEF ShownIsWhatArrived
    <2>1. Coming(f) = value[f]
      BY DEF Settled, Coming
    <2>2. ConnectionsInv /\ ShownInv
      BY DEF StatisticsInv, CountingInv
    <2> QED
      BY <2>1, <2>2, Shown DEF ConnectionsInv, ShownInv
  <1> QED
    BY <1>1, StatisticsInvariant, PTL
=============================================================================
