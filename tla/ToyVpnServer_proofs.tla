------------------------ MODULE ToyVpnServer_proofs ------------------------
(***************************************************************************)
(* Proofs about ToyVpnServer, for every set of endpoints, every network    *)
(* and every pair of timeouts.                                             *)
(***************************************************************************)
EXTENDS ToyVpnServer, SequenceTheorems, TLAPS

(* Where the main thread is agrees with what it works on.                  *)
ControlOK ==
    /\ lastUsed < HighestAddress
    /\ pc \in {"handle", "reply"} => current # 0
    /\ pc \in {"handle", "reply", "check"} => batch # << >>

TypeInv == TypeOK /\ ControlOK

(* The heap holds the sessions in the order of their addresses, so that an *)
(* address names one object for ever.                                      *)
HeapOK ==
    /\ Len(handlers) = lastUsed - TunAddress
    /\ \A i \in 1 .. Len(handlers) : handlers[i].address = TunAddress + i

(* The object that handleClient works on is registered, alive, and was     *)
(* heard in this very callback.                                            *)
CurrentOK ==
    /\ pc \notin {"handle", "reply", "check"} => current = 0
    /\ current # 0 => clients[handlers[current].external] = current
    /\ (current # 0 /\ pc \in {"reply", "check"}) => handlers[current].age = 0

(* Between sending the parameters and becoming connected, the object is    *)
(* still in START, and its client has been told its address.               *)
ReplyOK ==
    pc = "reply" =>
        /\ handlers[current].state = "START"
        /\ handlers[current].external \in told[handlers[current].address]

(* What was told about an address was told to the endpoint of its object.  *)
ToldOK ==
    \A a \in Addresses : \A e \in told[a] :
        \E i \in 1 .. Len(handlers) :
            handlers[i].address = a /\ handlers[i].external = e

(* Sessions that were connected were told their address.                   *)
AdmittedOK ==
    \A i \in 1 .. Len(handlers) :
        handlers[i].state \in {"CONNECTED", "DISCONNECTED"} =>
            handlers[i].external \in told[handlers[i].address]

(* The inductive invariant.                                                *)
SessionInv == HeapOK /\ TablesAgree /\ CurrentOK /\ ReplyOK /\ ToldOK /\ AdmittedOK

IInv == TypeInv /\ SessionInv

-----------------------------------------------------------------------------
(* A function on 1 .. n is a sequence of length n. *)
LEMMA FunctionIsSeq ==
    ASSUME NEW S, NEW n \in Nat, NEW f \in [1 .. n -> S]
    PROVE  f \in Seq(S) /\ Len(f) = n /\ DOMAIN f = 1 .. n
  <1>1. f \in Seq(S)
    BY SeqDef
  <1>2. DOMAIN f = 1 .. n
    OBVIOUS
  <1> QED
    BY <1>1, <1>2, LenProperties

(* What the operations of ClientHandler make of an object is an object.    *)
LEMMA HandlerOperations ==
    ASSUME NEW h \in Handler
    PROVE  /\ Heard(h) \in Handler /\ Destroyed(h) \in Handler
           /\ \A s \in State : Moved(h, s) \in Handler
           /\ [h EXCEPT !.age = Older(@)] \in Handler
  <1>1. 0 \in Ages /\ Older(h.age) \in Ages
    BY IdleTimeoutAssumption DEF Handler, Ages, Older
  <1>2. /\ Heard(h) \in Handler /\ Destroyed(h) \in Handler
        /\ [h EXCEPT !.age = Older(@)] \in Handler
    BY <1>1 DEF Handler, Heard, Destroyed
  <1>3. \A s \in State : Moved(h, s) \in Handler
    BY DEF Handler, Moved
  <1> QED
    BY <1>2, <1>3

LEMMA NewHandlerType ==
    ASSUME NEW e \in Endpoints, NEW a \in Addresses
    PROVE  NewHandler(e, a) \in Handler
  BY IdleTimeoutAssumption DEF NewHandler, Handler, State, Ages

LEMMA EffectType ==
    ASSUME NEW h \in Handler,
           NEW k \in {"params", "packet", "goodbye", "tun", "record", "close"}
    PROVE  For(k, h) \in Effect
  BY DEF For, Effect, Handler

LEMMA BatchTail ==
    ASSUME batch \in Batches
    PROVE  Tail(batch) \in Batches \cup {<< >>}
  <1>1. CASE batch = <<"socket">>
    BY <1>1
  <1>2. CASE batch = <<"tun">>
    BY <1>2
  <1>3. CASE batch = <<"socket", "tun">>
    BY <1>3 DEF Batches
  <1>4. CASE batch = <<"tun", "socket">>
    BY <1>4 DEF Batches
  <1> QED
    BY <1>1, <1>2, <1>3, <1>4 DEF Batches

LEMMA TypeInit == Init => TypeInv
  <1> SUFFICES ASSUME Init PROVE TypeInv
    OBVIOUS
  <1>1. handlers \in Seq(Handler) /\ Len(handlers) = 0
    BY EmptySeq DEF Init
  <1>2. TablesType
    BY <1>1, NetworkAssumption DEF Init, TablesType, Addresses
  <1>3. LoopType
    <2>1. sinceCheck \in 0 .. CheckInterval + 1 /\ pc \in PCs
      BY CheckIntervalAssumption DEF Init, PCs
    <2>2. polling \in BOOLEAN /\ interrupted \in BOOLEAN
      BY Zenon DEF Init
    <2>3. batch \in Batches \cup {<< >>}
      BY Zenon DEF Init
    <2> QED
      BY <2>1, <2>2, <2>3, Zenon DEF LoopType
  <1>4. OutputType
    BY DEF Init, OutputType
  <1>5. ControlOK
    BY NetworkAssumption DEF Init, ControlOK
  <1> QED
    BY <1>2, <1>3, <1>4, <1>5 DEF TypeInv, TypeOK

(* The heap after Becomes(h). *)
LEMMA BecomesHeap ==
    ASSUME TablesType, current # 0, NEW h \in Handler,
           handlers' = [handlers EXCEPT ![current] = h]
    PROVE  /\ handlers' \in Seq(Handler)
           /\ Len(handlers') = Len(handlers)
           /\ \A j \in 1 .. Len(handlers) :
                 handlers'[j] = IF j = current THEN h ELSE handlers[j]
  <1>1. current \in 1 .. Len(handlers)
    BY LenProperties DEF TablesType
  <1> QED
    BY <1>1, ExceptSeq DEF TablesType

-----------------------------------------------------------------------------
(* One lemma per kind of step: what it leaves well typed.                  *)

(* Steps that leave the tables alone.                                      *)
LEMMA QuietTables ==
    ASSUME TablesType, UNCHANGED tables, current' \in 0 .. Len(handlers)
    PROVE  TablesType'
  BY DEF TablesType, tables

(* Steps that only move the control of the loop.                           *)
LEMMA LoopTypeStep ==
    ASSUME LoopType, UNCHANGED <<sinceCheck, polling, interrupted>>,
           batch' \in Batches \cup {<< >>}, pc' \in PCs
    PROVE  LoopType'
  <1>1. sinceCheck' \in 0 .. CheckInterval + 1
    BY DEF LoopType
  <1>2. polling' \in BOOLEAN /\ interrupted' \in BOOLEAN
    BY Zenon DEF LoopType
  <1> QED
    BY <1>1, <1>2, Zenon DEF LoopType

(* A step that gives an existing object a new value.                       *)
LEMMA BecomesTables ==
    ASSUME TablesType, current # 0, NEW h \in Handler, Becomes(h)
    PROVE  TablesType'
  <1>1. /\ handlers' \in Seq(Handler)
        /\ Len(handlers') = Len(handlers)
    BY BecomesHeap DEF Becomes
  <1> QED
    BY <1>1 DEF TablesType, Becomes

(* A step that maps every object to a new value.                           *)
LEMMA MappedTables ==
    ASSUME TablesType, NEW f \in [DOMAIN handlers -> Handler],
           handlers' = f
    PROVE  /\ handlers' \in Seq(Handler)
           /\ Len(handlers') = Len(handlers)
           /\ \A i \in 1 .. Len(handlers) : handlers'[i] = f[i]
  <1>1. Len(handlers) \in Nat /\ DOMAIN handlers = 1 .. Len(handlers)
    BY LenProperties DEF TablesType
  <1> QED
    BY <1>1, FunctionIsSeq

LEMMA CurrentHandler ==
    ASSUME TablesType, current # 0
    PROVE  handlers[current] \in Handler
  <1>1. current \in 1 .. Len(handlers)
    BY LenProperties DEF TablesType
  <1> QED
    BY <1>1, ElementOfSeq DEF TablesType

LEMMA QuietStep ==
    ASSUME TypeInv, UNCHANGED <<tables, sinceCheck, loop, told>>,
           current' \in 0 .. Len(handlers), pc' \in PCs,
           effects' \in SUBSET Effect, ControlOK'
    PROVE  TypeInv'
  <1>1. TablesType'
    BY QuietTables DEF TypeInv, TypeOK
  <1>2. LoopType'
    <2>1. UNCHANGED <<sinceCheck, polling, interrupted, batch>>
      BY DEF loop
    <2> QED
      BY <2>1, LoopTypeStep DEF TypeInv, TypeOK, LoopType
  <1>3. OutputType'
    BY DEF TypeInv, TypeOK, OutputType
  <1> QED
    BY <1>1, <1>2, <1>3 DEF TypeInv, TypeOK

(* A datagram handled: the object becomes h and the control moves on.      *)
LEMMA BecomesStep ==
    ASSUME TypeInv, current # 0, NEW h \in Handler, Becomes(h),
           pc \in {"handle", "reply"}, pc' \in {"reply", "check"},
           effects' \in SUBSET Effect, told' \in [Addresses -> SUBSET Endpoints]
    PROVE  TypeInv'
  <1>1. TablesType'
    BY BecomesTables DEF TypeInv, TypeOK
  <1>2. LoopType'
    <2>1. /\ UNCHANGED <<sinceCheck, polling, interrupted, batch>>
          /\ pc' \in PCs
      BY DEF Becomes, loop, PCs
    <2> QED
      BY <2>1, LoopTypeStep DEF TypeInv, TypeOK, LoopType
  <1>3. OutputType'
    BY DEF OutputType
  <1>4. ControlOK'
    BY DEF TypeInv, ControlOK, Becomes, loop
  <1> QED
    BY <1>1, <1>2, <1>3, <1>4 DEF TypeInv, TypeOK

LEMMA TypeStep == TypeInv /\ [Next]_vars => TypeInv'
  <1> SUFFICES ASSUME TypeInv, [Next]_vars PROVE TypeInv'
    OBVIOUS
  <1>a. TablesType /\ LoopType /\ OutputType /\ ControlOK
    BY DEF TypeInv, TypeOK
  <1>b. current # 0 => handlers[current] \in Handler
    BY <1>a, CurrentHandler
  <1>c. /\ told \in [Addresses -> SUBSET Endpoints]
        /\ current \in 0 .. Len(handlers) /\ 0 \in 0 .. Len(handlers)
    <2>1. Len(handlers) \in Nat
      BY <1>a, LenProperties DEF TablesType
    <2> QED
      BY <1>a, <2>1 DEF OutputType, TablesType
  <1>1. CASE AnyEvent
    <2>1. PICK ready \in Batches : EpollWait(ready)
      BY <1>1 DEF AnyEvent
    <2>2. TablesType'
      BY <1>a, <1>c, <2>1, QuietTables DEF EpollWait
    <2>3. LoopType'
      BY <1>a, <2>1, LoopTypeStep DEF EpollWait, PCs
    <2>4. OutputType'
      BY <1>a, <2>1 DEF EpollWait, OutputType
    <2>5. ControlOK'
      BY <1>a, <2>1 DEF EpollWait, ControlOK, tables
    <2> QED
      BY <2>2, <2>3, <2>4, <2>5 DEF TypeInv, TypeOK
  <1>2. CASE EpollError
    <2>1. TablesType'
      BY <1>a, <1>c, <1>2, QuietTables DEF EpollError
    <2>2. LoopType'
      <3>1. sinceCheck' \in 0 .. CheckInterval + 1 /\ pc' \in PCs
        BY <1>a, <1>2 DEF EpollError, LoopType, PCs
      <3>2. /\ batch' \in Batches \cup {<< >>}
            /\ polling' \in BOOLEAN /\ interrupted' \in BOOLEAN
        BY <1>a, <1>2, Zenon DEF EpollError, LoopType
      <3> QED
        BY <3>1, <3>2, Zenon DEF LoopType
    <2>3. OutputType'
      BY <1>a, <1>2 DEF EpollError, OutputType
    <2>4. ControlOK'
      BY <1>a, <1>2 DEF EpollError, ControlOK, tables
    <2> QED
      BY <2>1, <2>2, <2>3, <2>4 DEF TypeInv, TypeOK
  <1>3. CASE LeaveLoop
    <2>1. /\ UNCHANGED <<tables, sinceCheck, loop, told>>
          /\ current' \in 0 .. Len(handlers) /\ pc' \in PCs
          /\ effects' \in SUBSET Effect
      BY <1>3, <1>c DEF LeaveLoop, PCs
    <2>2. ControlOK'
      BY <1>3, <1>a DEF LeaveLoop, ControlOK, tables, loop
    <2> QED
      BY <2>1, <2>2, QuietStep
  <1>4. CASE BatchDone
    <2>1. /\ UNCHANGED <<tables, sinceCheck, loop, told>>
          /\ current' \in 0 .. Len(handlers) /\ pc' \in PCs
          /\ effects' \in SUBSET Effect
      BY <1>4, <1>c DEF BatchDone, PCs
    <2>2. ControlOK'
      BY <1>4, <1>a DEF BatchDone, ControlOK, tables, loop
    <2> QED
      BY <2>1, <2>2, QuietStep
  <1>5. CASE ReceiveNothing
    <2>1. /\ UNCHANGED <<tables, sinceCheck, loop, told>>
          /\ current' \in 0 .. Len(handlers) /\ pc' \in PCs
          /\ effects' \in SUBSET Effect
      BY <1>5, <1>c DEF ReceiveNothing, Due, PCs
    <2>2. ControlOK'
      BY <1>5, <1>a DEF ReceiveNothing, Due, ControlOK, tables, loop
    <2> QED
      BY <2>1, <2>2, QuietStep
  <1>6. CASE \E e \in Endpoints : ReceiveKnown(e)
    <2>1. PICK e \in Endpoints : ReceiveKnown(e)
      BY <1>6
    <2>2. /\ UNCHANGED <<tables, sinceCheck, loop, told>>
          /\ current' \in 0 .. Len(handlers) /\ pc' \in PCs
          /\ effects' \in SUBSET Effect
      BY <1>a, <2>1 DEF ReceiveKnown, TablesType, PCs
    <2>3. ControlOK'
      BY <1>a, <2>1 DEF ReceiveKnown, Due, ControlOK, tables, loop
    <2> QED
      BY <2>2, <2>3, QuietStep
  <1>7. CASE \E e \in Endpoints : RegisterClient(e)
    <2>1. PICK e \in Endpoints : RegisterClient(e)
      BY <1>7
    <2>2. /\ NextAddress \in Addresses /\ NextAddress < HighestAddress
          /\ Len(handlers) \in Nat
      BY <1>a, <2>1, NetworkAssumption, LenProperties
         DEF RegisterClient, AddressLeft, NextAddress, ControlOK, TablesType, Addresses
    <2>3. /\ handlers' \in Seq(Handler)
          /\ Len(handlers') = Len(handlers) + 1
      BY <1>a, <2>1, <2>2, NewHandlerType, AppendProperties
         DEF RegisterClient, TablesType
    <2>4. TablesType'
      BY <1>a, <2>1, <2>2, <2>3 DEF RegisterClient, TablesType
    <2>5. LoopType'
      <3>1. /\ UNCHANGED <<sinceCheck, polling, interrupted, batch>>
            /\ pc' \in PCs
        BY <2>1 DEF RegisterClient, loop, PCs
      <3> QED
        BY <1>a, <3>1, LoopTypeStep DEF LoopType
    <2>6. OutputType'
      BY <1>a, <2>1 DEF RegisterClient, OutputType
    <2>7. ControlOK'
      BY <1>a, <2>1, <2>2 DEF RegisterClient, Due, ControlOK, loop
    <2> QED
      BY <2>4, <2>5, <2>6, <2>7 DEF TypeInv, TypeOK
  <1>8. CASE \E e \in Endpoints : OutOfAddresses(e)
    <2>1. PICK e \in Endpoints : OutOfAddresses(e)
      BY <1>8
    <2>2. /\ UNCHANGED <<tables, sinceCheck, loop, told>>
          /\ current' \in 0 .. Len(handlers) /\ pc' \in PCs
          /\ effects' \in SUBSET Effect
      BY <1>c, <2>1 DEF OutOfAddresses, PCs
    <2>3. ControlOK'
      BY <1>a, <2>1 DEF OutOfAddresses, ControlOK, tables, loop
    <2> QED
      BY <2>2, <2>3, QuietStep
  <1>9. CASE \E m \in Messages : SendParams(m)
    <2>1. PICK m \in Messages : SendParams(m)
      BY <1>9
    <2>2. current # 0 /\ handlers[current] \in Handler
      BY <1>a, <1>b, <2>1 DEF SendParams, ControlOK
    <2>3. Heard(handlers[current]) \in Handler
      BY <2>2, HandlerOperations DEF State
    <2>4. effects' \in SUBSET Effect
      BY <2>1, <2>2, EffectType DEF SendParams
    <2>5. told' \in [Addresses -> SUBSET Endpoints]
      BY <1>c, <2>1, <2>2 DEF SendParams, Handler
    <2> QED
      BY <2>1, <2>2, <2>3, <2>4, <2>5, BecomesStep DEF SendParams
  <1>10. CASE \E m \in Messages : SendParamsFails(m)
    <2>1. PICK m \in Messages : SendParamsFails(m)
      BY <1>10
    <2>2. current # 0 /\ handlers[current] \in Handler
      BY <1>a, <1>b, <2>1 DEF SendParamsFails, ControlOK
    <2>3. Moved(Heard(handlers[current]), "ERROR") \in Handler
      BY <2>2, HandlerOperations DEF State
    <2>4. effects' \in SUBSET Effect
      BY <2>1, <2>2, EffectType DEF SendParamsFails
    <2>5. told' \in [Addresses -> SUBSET Endpoints]
      BY <1>c, <2>1, <2>2 DEF SendParamsFails
    <2> QED
      BY <2>1, <2>2, <2>3, <2>4, <2>5, BecomesStep DEF SendParamsFails
  <1>11. CASE BecomeConnected
    <2>1. BecomeConnected
      BY <1>11
    <2>2. current # 0 /\ handlers[current] \in Handler
      BY <1>a, <1>b, <2>1 DEF BecomeConnected, ControlOK
    <2>3. Moved(handlers[current], "CONNECTED") \in Handler
      BY <2>2, HandlerOperations DEF State
    <2>4. effects' \in SUBSET Effect
      BY <2>1, <2>2, EffectType DEF BecomeConnected
    <2>5. told' \in [Addresses -> SUBSET Endpoints]
      BY <1>c, <2>1, <2>2 DEF BecomeConnected
    <2> QED
      BY <2>1, <2>2, <2>3, <2>4, <2>5, BecomesStep DEF BecomeConnected
  <1>12. CASE \E m \in Messages : RejectSecret(m)
    <2>1. PICK m \in Messages : RejectSecret(m)
      BY <1>12
    <2>2. current # 0 /\ handlers[current] \in Handler
      BY <1>a, <1>b, <2>1 DEF RejectSecret, ControlOK
    <2>3. Moved(Heard(handlers[current]), "ERROR") \in Handler
      BY <2>2, HandlerOperations DEF State
    <2>4. effects' \in SUBSET Effect
      BY <2>1, <2>2, EffectType DEF RejectSecret
    <2>5. told' \in [Addresses -> SUBSET Endpoints]
      BY <1>c, <2>1, <2>2 DEF RejectSecret
    <2> QED
      BY <2>1, <2>2, <2>3, <2>4, <2>5, BecomesStep DEF RejectSecret
  <1>13. CASE \E m \in Messages : ClientLeaves(m)
    <2>1. PICK m \in Messages : ClientLeaves(m)
      BY <1>13
    <2>2. current # 0 /\ handlers[current] \in Handler
      BY <1>a, <1>b, <2>1 DEF ClientLeaves, ControlOK
    <2>3. Moved(Heard(handlers[current]), "DISCONNECTED") \in Handler
      BY <2>2, HandlerOperations DEF State
    <2>4. effects' \in SUBSET Effect
      BY <2>1, <2>2, EffectType DEF ClientLeaves
    <2>5. told' \in [Addresses -> SUBSET Endpoints]
      BY <1>c, <2>1, <2>2 DEF ClientLeaves
    <2> QED
      BY <2>1, <2>2, <2>3, <2>4, <2>5, BecomesStep DEF ClientLeaves
  <1>14. CASE \E m \in Messages : ForwardToTun(m)
    <2>1. PICK m \in Messages : ForwardToTun(m)
      BY <1>14
    <2>2. current # 0 /\ handlers[current] \in Handler
      BY <1>a, <1>b, <2>1 DEF ForwardToTun, ControlOK
    <2>3. Heard(handlers[current]) \in Handler
      BY <2>2, HandlerOperations DEF State
    <2>4. effects' \in SUBSET Effect
      BY <2>1, <2>2, EffectType DEF ForwardToTun
    <2>5. told' \in [Addresses -> SUBSET Endpoints]
      BY <1>c, <2>1, <2>2 DEF ForwardToTun
    <2> QED
      BY <2>1, <2>2, <2>3, <2>4, <2>5, BecomesStep DEF ForwardToTun
  <1>15. CASE \E m \in Messages : IgnoreData(m)
    <2>1. PICK m \in Messages : IgnoreData(m)
      BY <1>15
    <2>2. current # 0 /\ handlers[current] \in Handler
      BY <1>a, <1>b, <2>1 DEF IgnoreData, ControlOK
    <2>3. Heard(handlers[current]) \in Handler
      BY <2>2, HandlerOperations DEF State
    <2>4. effects' \in SUBSET Effect
      BY <2>1, <2>2, EffectType DEF IgnoreData
    <2>5. told' \in [Addresses -> SUBSET Endpoints]
      BY <1>c, <2>1, <2>2 DEF IgnoreData
    <2> QED
      BY <2>1, <2>2, <2>3, <2>4, <2>5, BecomesStep DEF IgnoreData
  <1>16. CASE \E a \in Addresses : DeliverFromTun(a)
    <2>1. PICK a \in Addresses : DeliverFromTun(a)
      BY <1>16
    <2>2. addressMap[a] \in 1 .. Len(handlers)
      BY <1>a, <2>1, LenProperties DEF DeliverFromTun, TablesType
    <2>3. handlers[addressMap[a]] \in Handler
      BY <1>a, <2>2, ElementOfSeq DEF TablesType
    <2>4. /\ UNCHANGED <<tables, sinceCheck, loop, told>>
          /\ current' \in 0 .. Len(handlers) /\ pc' \in PCs
      BY <1>c, <2>1 DEF DeliverFromTun, PCs
    <2>5. effects' \in SUBSET Effect
      BY <2>1, <2>3, EffectType DEF DeliverFromTun
    <2>6. ControlOK'
      BY <1>a, <2>1 DEF DeliverFromTun, Due, ControlOK, tables, loop
    <2> QED
      BY <2>4, <2>5, <2>6, QuietStep
  <1>17. CASE DropFromTun
    <2>1. /\ UNCHANGED <<tables, sinceCheck, loop, told>>
          /\ current' \in 0 .. Len(handlers) /\ pc' \in PCs
          /\ effects' \in SUBSET Effect
      BY <1>17, <1>c DEF DropFromTun, Due, PCs
    <2>2. ControlOK'
      BY <1>17, <1>a DEF DropFromTun, Due, ControlOK, tables, loop
    <2> QED
      BY <2>1, <2>2, QuietStep
  <1>18. CASE CheckIdleClients
    <2>1. TablesType'
      <3>1. CASE Reap
        <4> DEFINE f == [i \in DOMAIN handlers |->
                 IF \/ \E e \in Endpoints : clients'[e] = i
                    \/ \E a \in Addresses : addressMap'[a] = i
                 THEN handlers[i] ELSE Destroyed(handlers[i])]
        <4>1. f \in [DOMAIN handlers -> Handler]
          BY <1>a, ElementOfSeq, LenProperties, HandlerOperations DEF TablesType
        <4>2. /\ handlers' \in Seq(Handler)
              /\ Len(handlers') = Len(handlers)
          BY <1>a, <3>1, <4>1, MappedTables DEF Reap
        <4> QED
          BY <1>a, <1>c, <1>18, <3>1, <4>2
             DEF TablesType, Reap, CheckIdleClients
      <3>2. CASE UNCHANGED tables
        BY <1>a, <1>c, <1>18, <3>2, QuietTables DEF CheckIdleClients
      <3> QED
        BY <1>18, <3>1, <3>2 DEF CheckIdleClients, tables
    <2>2. LoopType'
      <3>1. sinceCheck' \in 0 .. CheckInterval + 1
        BY <1>a, <1>18, CheckIntervalAssumption DEF CheckIdleClients, LoopType
      <3>2. batch' \in Batches \cup {<< >>}
        <4>1. batch \in Batches
          BY <1>a, <1>18 DEF CheckIdleClients, LoopType, ControlOK
        <4> QED
          BY <4>1, <1>18, BatchTail DEF CheckIdleClients
      <3>3. pc' \in PCs
        BY <1>18 DEF CheckIdleClients, PCs
      <3>4. polling' \in BOOLEAN /\ interrupted' \in BOOLEAN
        BY <1>a, <1>18, Zenon DEF CheckIdleClients, LoopType
      <3> QED
        BY <3>1, <3>2, <3>3, <3>4, Zenon DEF LoopType
    <2>3. OutputType'
      BY <1>a, <1>18 DEF CheckIdleClients, OutputType
    <2>4. ControlOK'
      BY <1>a, <1>18 DEF CheckIdleClients, ControlOK, Reap, tables
    <2> QED
      BY <2>1, <2>2, <2>3, <2>4 DEF TypeInv, TypeOK
  <1>19. CASE Stop
    <2>1. TablesType'
      <3> DEFINE f == [i \in DOMAIN handlers |->
                         IF i \in ConnectedRefs
                         THEN Moved(handlers[i], "DISCONNECTED") ELSE handlers[i]]
      <3>1. f \in [DOMAIN handlers -> Handler]
        BY <1>a, ElementOfSeq, LenProperties, HandlerOperations
           DEF TablesType, State
      <3>2. /\ handlers' \in Seq(Handler)
            /\ Len(handlers') = Len(handlers)
        BY <1>a, <1>19, <3>1, MappedTables DEF Stop
      <3> QED
        BY <1>a, <1>19, <3>2 DEF TablesType, Stop
    <2>2. LoopType'
      <3>1. /\ sinceCheck' \in 0 .. CheckInterval + 1
            /\ pc' \in PCs
        BY <1>a, <1>19 DEF Stop, LoopType
      <3>2. /\ batch' \in Batches \cup {<< >>}
            /\ polling' \in BOOLEAN /\ interrupted' \in BOOLEAN
        BY <1>a, <1>19, Zenon DEF Stop, StopPolling, LoopType
      <3> QED
        BY <3>1, <3>2, Zenon DEF LoopType
    <2>3. OutputType'
      <3>1. \A i \in ConnectedRefs : handlers[i] \in Handler
        BY <1>a, ElementOfSeq, LenProperties DEF ConnectedRefs, TablesType
      <3>2. effects' \in SUBSET Effect
        BY <1>19, <3>1, EffectType DEF Stop
      <3> QED
        BY <1>c, <1>19, <3>2 DEF Stop, OutputType
    <2>4. ControlOK'
      BY <1>a, <1>19 DEF Stop, ControlOK
    <2> QED
      BY <2>1, <2>2, <2>3, <2>4 DEF TypeInv, TypeOK
  <1>20. CASE Tick
    <2>1. TablesType'
      <3> DEFINE f == [i \in DOMAIN handlers |->
                         IF handlers[i].state = "DESTROYED" THEN handlers[i]
                         ELSE [handlers[i] EXCEPT !.age = Older(@)]]
      <3>1. f \in [DOMAIN handlers -> Handler]
        BY <1>a, ElementOfSeq, LenProperties, HandlerOperations DEF TablesType
      <3>2. /\ handlers' \in Seq(Handler)
            /\ Len(handlers') = Len(handlers)
        BY <1>a, <1>20, <3>1, MappedTables DEF Tick
      <3> QED
        BY <1>a, <1>20, <3>2 DEF TablesType, Tick
    <2>2. LoopType'
      <3>1. sinceCheck' \in 0 .. CheckInterval + 1
        BY <1>a, <1>20, CheckIntervalAssumption DEF Tick, LoopType
      <3>2. /\ batch' \in Batches \cup {<< >>} /\ pc' \in PCs
            /\ polling' \in BOOLEAN /\ interrupted' \in BOOLEAN
        BY <1>a, <1>20, Zenon DEF Tick, loop, LoopType
      <3> QED
        BY <3>1, <3>2, Zenon DEF LoopType
    <2>3. OutputType'
      BY <1>a, <1>20 DEF Tick, OutputType
    <2>4. ControlOK'
      BY <1>a, <1>20 DEF Tick, ControlOK, loop
    <2> QED
      BY <2>1, <2>2, <2>3, <2>4 DEF TypeInv, TypeOK
  <1>21. CASE UNCHANGED vars
    BY <1>a, <1>21 DEF vars, tables, loop, TypeInv, TypeOK, TablesType, LoopType,
       OutputType, ControlOK
  <1> QED
    BY <1>1, <1>2, <1>3, <1>4, <1>5, <1>6, <1>7, <1>8, <1>9, <1>10, <1>11, <1>12, <1>13, <1>14, <1>15, <1>16, <1>17, <1>18, <1>19, <1>20, <1>21
       DEF Next, Continue, HandleClient, HandleTunInterface

(* The server keeps its types: no reference leaves the heap, no address    *)
(* leaves the network.                                                     *)
THEOREM TypeCorrect == Spec => []TypeOK
  <1>1. Spec => []TypeInv
    BY TypeInit, TypeStep, PTL DEF Spec
  <1>2. TypeInv => TypeOK
    BY DEF TypeInv
  <1> QED
    BY <1>1, <1>2, PTL
-----------------------------------------------------------------------------
(* What the steps that change the heap make of each object.                *)

SameKey(h, g) == g.external = h.external /\ g.address = h.address

LEMMA RegisterHeap ==
    ASSUME TypeInv, NEW e \in Endpoints, RegisterClient(e)
    PROVE  /\ NextAddress \in Addresses
           /\ Len(handlers') = Len(handlers) + 1
           /\ handlers'[Len(handlers) + 1] = NewHandler(e, NextAddress)
           /\ \A i \in 1 .. Len(handlers) : handlers'[i] = handlers[i]
  <1>1. NextAddress \in Addresses
    BY NetworkAssumption
       DEF TypeInv, TypeOK, RegisterClient, AddressLeft, NextAddress, ControlOK,
           TablesType, Addresses
  <1> QED
    BY <1>1, NewHandlerType, AppendProperties
       DEF RegisterClient, TypeInv, TypeOK, TablesType

LEMMA ReapHeap ==
    ASSUME TypeInv, Reap
    PROVE  /\ Len(handlers') = Len(handlers)
           /\ \A i \in 1 .. Len(handlers) :
                 handlers'[i] = IF \/ \E e \in Endpoints : clients'[e] = i
                                   \/ \E a \in Addresses : addressMap'[a] = i
                                THEN handlers[i] ELSE Destroyed(handlers[i])
  <1> DEFINE f == [i \in DOMAIN handlers |->
           IF \/ \E e \in Endpoints : clients'[e] = i
              \/ \E a \in Addresses : addressMap'[a] = i
           THEN handlers[i] ELSE Destroyed(handlers[i])]
  <1>1. TablesType /\ DOMAIN handlers = 1 .. Len(handlers)
    BY LenProperties DEF TypeInv, TypeOK, TablesType
  <1>2. f \in [DOMAIN handlers -> Handler]
    BY <1>1, ElementOfSeq, HandlerOperations DEF TablesType
  <1>3. handlers' = f
    BY DEF Reap
  <1>4. /\ Len(handlers') = Len(handlers)
        /\ \A i \in 1 .. Len(handlers) : handlers'[i] = f[i]
    BY <1>1, <1>2, <1>3, MappedTables
  <1> QED
    BY <1>1, <1>4

LEMMA StopHeap ==
    ASSUME TypeInv, Stop
    PROVE  /\ Len(handlers') = Len(handlers)
           /\ \A i \in 1 .. Len(handlers) :
                 handlers'[i] = IF i \in ConnectedRefs
                                THEN Moved(handlers[i], "DISCONNECTED")
                                ELSE handlers[i]
  <1> DEFINE f == [i \in DOMAIN handlers |->
                     IF i \in ConnectedRefs
                     THEN Moved(handlers[i], "DISCONNECTED") ELSE handlers[i]]
  <1>1. TablesType /\ DOMAIN handlers = 1 .. Len(handlers)
    BY LenProperties DEF TypeInv, TypeOK, TablesType
  <1>2. f \in [DOMAIN handlers -> Handler]
    BY <1>1, ElementOfSeq, HandlerOperations DEF TablesType, State
  <1>3. handlers' = f
    BY DEF Stop
  <1>4. /\ Len(handlers') = Len(handlers)
        /\ \A i \in 1 .. Len(handlers) : handlers'[i] = f[i]
    BY <1>1, <1>2, <1>3, MappedTables
  <1> QED
    BY <1>1, <1>4

LEMMA TickHeap ==
    ASSUME TypeInv, Tick
    PROVE  /\ Len(handlers') = Len(handlers)
           /\ \A i \in 1 .. Len(handlers) :
                 handlers'[i] = IF handlers[i].state = "DESTROYED"
                                THEN handlers[i]
                                ELSE [handlers[i] EXCEPT !.age = Older(@)]
  <1> DEFINE f == [i \in DOMAIN handlers |->
                     IF handlers[i].state = "DESTROYED" THEN handlers[i]
                     ELSE [handlers[i] EXCEPT !.age = Older(@)]]
  <1>1. TablesType /\ DOMAIN handlers = 1 .. Len(handlers)
    BY LenProperties DEF TypeInv, TypeOK, TablesType
  <1>2. f \in [DOMAIN handlers -> Handler]
    BY <1>1, ElementOfSeq, HandlerOperations DEF TablesType
  <1>3. handlers' = f
    BY DEF Tick
  <1>4. /\ Len(handlers') = Len(handlers)
        /\ \A i \in 1 .. Len(handlers) : handlers'[i] = f[i]
    BY <1>1, <1>2, <1>3, MappedTables
  <1> QED
    BY <1>1, <1>4

(* Steps that touch neither table nor the identity of any object keep the  *)
(* heap and the tables in order, provided they revive or destroy nothing   *)
(* that is registered.                                                     *)
LEMMA StableStep ==
    ASSUME TypeInv, HeapOK, TablesAgree, ToldOK,
           UNCHANGED <<clients, addressMap, lastUsed>>,
           Len(handlers') = Len(handlers),
           \A i \in 1 .. Len(handlers) :
              /\ SameKey(handlers[i], handlers'[i])
              /\ handlers[i].state # "DESTROYED" => handlers'[i].state # "DESTROYED"
    PROVE  /\ HeapOK' /\ TablesAgree'
           /\ told' = told => ToldOK'
  <1>1. HeapOK'
    BY DEF HeapOK, SameKey
  <1>2. TablesAgree'
    <2>1. /\ \A e \in Endpoints : clients[e] # 0 => clients[e] \in 1 .. Len(handlers)
          /\ \A a \in Addresses : addressMap[a] # 0 => addressMap[a] \in 1 .. Len(handlers)
      BY LenProperties DEF TypeInv, TypeOK, TablesType
    <2> QED
      BY <2>1 DEF TablesAgree, SameKey
  <1>3. told' = told => ToldOK'
    BY DEF ToldOK, SameKey
  <1> QED
    BY <1>1, <1>2, <1>3
LEMMA HandlerFields ==
    ASSUME NEW h \in Handler
    PROVE  /\ SameKey(h, Heard(h)) /\ Heard(h).state = h.state /\ Heard(h).age = 0
           /\ SameKey(h, Destroyed(h)) /\ Destroyed(h).state = "DESTROYED"
           /\ \A s \in State : /\ SameKey(h, Moved(h, s))
                               /\ Moved(h, s).state = s /\ Moved(h, s).age = h.age
           /\ \A s \in State : /\ SameKey(h, Moved(Heard(h), s))
                               /\ Moved(Heard(h), s).state = s
                               /\ Moved(Heard(h), s).age = 0
           /\ SameKey(h, [h EXCEPT !.age = Older(@)])
           /\ [h EXCEPT !.age = Older(@)].state = h.state
  BY DEF Handler, SameKey, Heard, Destroyed, Moved

(* handleClient gives the current object the value h.                      *)
LEMMA BecomesSession ==
    ASSUME TypeInv, SessionInv, current # 0, pc \in {"handle", "reply"},
           NEW h \in Handler, Becomes(h),
           SameKey(handlers[current], h), h.state # "DESTROYED", h.age = 0,
           pc' = "check", told' = told,
           h.state \in {"CONNECTED", "DISCONNECTED"} =>
               h.external \in told[h.address]
    PROVE  SessionInv'
  <1>1. /\ Len(handlers') = Len(handlers)
        /\ \A i \in 1 .. Len(handlers) :
              handlers'[i] = IF i = current THEN h ELSE handlers[i]
        /\ current \in 1 .. Len(handlers)
    BY BecomesHeap, LenProperties DEF Becomes, TypeInv, TypeOK, TablesType
  <1>2. HeapOK' /\ TablesAgree' /\ ToldOK'
    <2>1. \A i \in 1 .. Len(handlers) :
              /\ SameKey(handlers[i], handlers'[i])
              /\ handlers[i].state # "DESTROYED" => handlers'[i].state # "DESTROYED"
      BY <1>1 DEF SameKey
    <2> QED
      BY <1>1, <2>1, StableStep DEF Becomes, SessionInv
  <1>3. CurrentOK'
    BY <1>1 DEF SessionInv, CurrentOK, Becomes, SameKey
  <1>4. ReplyOK'
    BY DEF ReplyOK
  <1>5. AdmittedOK'
    BY <1>1 DEF SessionInv, AdmittedOK
  <1> QED
    BY <1>2, <1>3, <1>4, <1>5 DEF SessionInv

(* Steps that leave the tables and the history alone.                      *)
LEMMA QuietSession ==
    ASSUME TypeInv, SessionInv, UNCHANGED <<tables, told>>, CurrentOK',
           pc' # "reply"
    PROVE  SessionInv'
  BY DEF SessionInv, HeapOK, TablesAgree, ToldOK, AdmittedOK, ReplyOK, tables

LEMMA SessionInit == Init => SessionInv
  <1> SUFFICES ASSUME Init PROVE SessionInv
    OBVIOUS
  <1>1. Len(handlers) = 0
    BY EmptySeq DEF Init
  <1>2. HeapOK
    BY <1>1, NetworkAssumption DEF Init, HeapOK
  <1>3. TablesAgree /\ CurrentOK /\ ReplyOK /\ ToldOK
    BY DEF Init, TablesAgree, CurrentOK, ReplyOK, ToldOK
  <1>4. AdmittedOK
    BY <1>1 DEF AdmittedOK
  <1> QED
    BY <1>2, <1>3, <1>4 DEF SessionInv

LEMMA SessionStep == IInv /\ [Next]_vars => SessionInv'
  <1> SUFFICES ASSUME IInv, [Next]_vars PROVE SessionInv'
    OBVIOUS
  <1>a. /\ TypeInv /\ SessionInv
        /\ TablesType /\ LoopType /\ OutputType /\ ControlOK
        /\ HeapOK /\ TablesAgree /\ CurrentOK /\ ReplyOK /\ ToldOK /\ AdmittedOK
    BY DEF IInv, SessionInv, TypeInv, TypeOK
  <1>b. /\ Len(handlers) \in Nat
        /\ \A e \in Endpoints : clients[e] # 0 => clients[e] \in 1 .. Len(handlers)
        /\ \A a \in Addresses : addressMap[a] # 0 => addressMap[a] \in 1 .. Len(handlers)
        /\ current # 0 => current \in 1 .. Len(handlers)
        /\ \A i \in 1 .. Len(handlers) : handlers[i] \in Handler
        /\ DOMAIN handlers = 1 .. Len(handlers)
    BY <1>a, LenProperties, ElementOfSeq DEF TablesType
  <1>c. current # 0 => /\ handlers[current] \in Handler
                       /\ handlers[current].state # "DESTROYED"
    <2>1. current # 0 => handlers[current].external \in Endpoints
      BY <1>b DEF Handler
    <2> QED
      BY <1>a, <1>b, <2>1 DEF CurrentOK, TablesAgree
  <1>1. CASE AnyEvent
    <2>1. UNCHANGED <<tables, told>> /\ pc' # "reply"
      BY <1>1 DEF EpollWait, AnyEvent
    <2>2. CurrentOK'
      BY <1>a, <1>b, <1>1 DEF EpollWait, AnyEvent, CurrentOK, tables
    <2> QED
      BY <1>a, <2>1, <2>2, QuietSession
  <1>2. CASE EpollError
    <2>1. UNCHANGED <<tables, told>> /\ pc' # "reply"
      BY <1>2 DEF EpollError
    <2>2. CurrentOK'
      BY <1>a, <1>b, <1>2 DEF EpollError, CurrentOK, tables
    <2> QED
      BY <1>a, <2>1, <2>2, QuietSession
  <1>3. CASE LeaveLoop
    <2>1. UNCHANGED <<tables, told>> /\ pc' # "reply"
      BY <1>3 DEF LeaveLoop
    <2>2. CurrentOK'
      BY <1>a, <1>b, <1>3 DEF LeaveLoop, CurrentOK, tables
    <2> QED
      BY <1>a, <2>1, <2>2, QuietSession
  <1>4. CASE BatchDone
    <2>1. UNCHANGED <<tables, told>> /\ pc' # "reply"
      BY <1>4 DEF BatchDone
    <2>2. CurrentOK'
      BY <1>a, <1>b, <1>4 DEF BatchDone, CurrentOK, tables
    <2> QED
      BY <1>a, <2>1, <2>2, QuietSession
  <1>5. CASE ReceiveNothing
    <2>1. UNCHANGED <<tables, told>> /\ pc' # "reply"
      BY <1>5 DEF ReceiveNothing, Due
    <2>2. CurrentOK'
      BY <1>a, <1>b, <1>5 DEF ReceiveNothing, Due, CurrentOK, tables
    <2> QED
      BY <1>a, <2>1, <2>2, QuietSession
  <1>6. CASE \E e \in Endpoints : ReceiveKnown(e)
    <2>1. PICK e \in Endpoints : ReceiveKnown(e)
      BY <1>6
    <2>2. UNCHANGED <<tables, told>> /\ pc' # "reply"
      BY <2>1 DEF ReceiveKnown, Due
    <2>3. CurrentOK'
      BY <1>a, <1>b, <2>1 DEF ReceiveKnown, Due, CurrentOK, TablesAgree, tables
    <2> QED
      BY <1>a, <2>2, <2>3, QuietSession
  <1>7. CASE \E e \in Endpoints : RegisterClient(e)
    <2>1. PICK e \in Endpoints : RegisterClient(e)
      BY <1>7
    <2>2. /\ NextAddress \in Addresses
          /\ Len(handlers') = Len(handlers) + 1
          /\ handlers'[Len(handlers) + 1] = NewHandler(e, NextAddress)
          /\ \A i \in 1 .. Len(handlers) : handlers'[i] = handlers[i]
      BY <1>a, <2>1, RegisterHeap
    <2>3. /\ clients[e] = 0 /\ NextAddress = TunAddress + Len(handlers) + 1
          /\ \A i \in 1 .. Len(handlers) : handlers[i].address # NextAddress
          /\ lastUsed' = NextAddress /\ told' = told
      BY <1>a, <1>b, <2>1, NetworkAssumption
         DEF RegisterClient, HeapOK, NextAddress, TablesType, Addresses
    <2>4. HeapOK'
      <3>1. Len(handlers') = lastUsed' - TunAddress
        BY <1>b, <2>2, <2>3, NetworkAssumption
      <3>2. ASSUME NEW i \in 1 .. Len(handlers')
            PROVE  handlers'[i].address = TunAddress + i
        <4>1. CASE i = Len(handlers) + 1
          BY <2>2, <2>3, <4>1, NetworkAssumption DEF NewHandler
        <4>2. CASE i \in 1 .. Len(handlers)
          BY <1>a, <2>2, <4>2 DEF HeapOK
        <4> QED
          BY <1>b, <2>2, <4>1, <4>2
      <3> QED
        BY <3>1, <3>2 DEF HeapOK
    <2>5. TablesAgree'
      <3>1. \A x \in Endpoints : clients'[x] # 0 =>
               /\ handlers'[clients'[x]].external = x
               /\ handlers'[clients'[x]].state # "DESTROYED"
               /\ addressMap'[handlers'[clients'[x]].address] = clients'[x]
        <4> SUFFICES ASSUME NEW x \in Endpoints, clients'[x] # 0
                     PROVE  /\ handlers'[clients'[x]].external = x
                            /\ handlers'[clients'[x]].state # "DESTROYED"
                            /\ addressMap'[handlers'[clients'[x]].address] = clients'[x]
          OBVIOUS
        <4>1. CASE x = e
          BY <1>a, <2>1, <2>2, <4>1 DEF RegisterClient, TablesType, NewHandler
        <4>2. CASE x # e
          <5>1. clients'[x] = clients[x] /\ clients[x] \in 1 .. Len(handlers)
            BY <1>a, <1>b, <2>1, <4>2 DEF RegisterClient, TablesType
          <5>2. handlers[clients[x]].address \in Addresses
            BY <1>b, <5>1 DEF Handler
          <5> QED
            BY <1>a, <2>1, <2>2, <2>3, <5>1, <5>2
               DEF RegisterClient, TablesType, TablesAgree
        <4> QED
          BY <4>1, <4>2
      <3>2. \A a \in Addresses : addressMap'[a] # 0 =>
               /\ handlers'[addressMap'[a]].address = a
               /\ clients'[handlers'[addressMap'[a]].external] = addressMap'[a]
        <4> SUFFICES ASSUME NEW a \in Addresses, addressMap'[a] # 0
                     PROVE  /\ handlers'[addressMap'[a]].address = a
                            /\ clients'[handlers'[addressMap'[a]].external] = addressMap'[a]
          OBVIOUS
        <4>1. CASE a = NextAddress
          BY <1>a, <2>1, <2>2, <4>1 DEF RegisterClient, TablesType, NewHandler
        <4>2. CASE a # NextAddress
          <5>1. addressMap'[a] = addressMap[a] /\ addressMap[a] \in 1 .. Len(handlers)
            BY <1>a, <1>b, <2>1, <4>2 DEF RegisterClient, TablesType
          <5>2. handlers[addressMap[a]].external \in Endpoints
            BY <1>b, <5>1 DEF Handler
          <5>3. handlers[addressMap[a]].external # e
            BY <1>a, <2>3, <5>1 DEF TablesAgree
          <5> QED
            BY <1>a, <2>1, <2>2, <5>1, <5>2, <5>3
               DEF RegisterClient, TablesType, TablesAgree
        <4> QED
          BY <4>1, <4>2
      <3> QED
        BY <3>1, <3>2 DEF TablesAgree
    <2>6. CurrentOK'
      BY <1>a, <1>b, <2>1, <2>2 DEF RegisterClient, CurrentOK, NewHandler, TablesType
    <2>7. ReplyOK'
      BY <2>1 DEF RegisterClient, ReplyOK
    <2>8. ToldOK'
      BY <1>a, <1>b, <2>2, <2>3 DEF ToldOK
    <2>9. AdmittedOK'
      BY <1>a, <1>b, <2>2, <2>3 DEF AdmittedOK, NewHandler
    <2> QED
      BY <2>4, <2>5, <2>6, <2>7, <2>8, <2>9 DEF SessionInv
  <1>8. CASE \E e \in Endpoints : OutOfAddresses(e)
    <2>1. PICK e \in Endpoints : OutOfAddresses(e)
      BY <1>8
    <2>2. UNCHANGED <<tables, told>> /\ pc' # "reply"
      BY <2>1 DEF OutOfAddresses, Due
    <2>3. CurrentOK'
      BY <1>a, <1>b, <2>1 DEF OutOfAddresses, Due, CurrentOK, TablesAgree, tables
    <2> QED
      BY <1>a, <2>2, <2>3, QuietSession
  <1>9. CASE \E m \in Messages : SendParams(m)
    <2>1. PICK m \in Messages : SendParams(m)
      BY <1>9
    <2>2. current # 0 /\ current \in 1 .. Len(handlers) /\ handlers[current] \in Handler
      BY <1>a, <1>b, <2>1 DEF SendParams, ControlOK
    <2>3. /\ Len(handlers') = Len(handlers)
          /\ \A i \in 1 .. Len(handlers) :
                handlers'[i] = IF i = current THEN Heard(handlers[current])
                               ELSE handlers[i]
      BY <1>a, <2>1, <2>2, HandlerOperations, BecomesHeap DEF SendParams, Becomes
    <2>4. /\ SameKey(handlers[current], handlers'[current])
          /\ handlers'[current].state = "START" /\ handlers'[current].age = 0
      BY <2>1, <2>2, <2>3, HandlerFields DEF SendParams, Admits
    <2>5. HeapOK' /\ TablesAgree'
      <3>1. \A i \in 1 .. Len(handlers) :
              /\ SameKey(handlers[i], handlers'[i])
              /\ handlers[i].state # "DESTROYED" => handlers'[i].state # "DESTROYED"
        BY <2>3, <2>4 DEF SameKey
      <3> QED
        BY <1>a, <2>1, <2>3, <3>1, StableStep DEF SendParams, Becomes
    <2>6. CurrentOK'
      BY <1>a, <2>1, <2>2, <2>4 DEF CurrentOK, SendParams, Becomes, SameKey
    <2>7. /\ handlers[current].address \in Addresses
          /\ told' = [told EXCEPT ![handlers[current].address] =
                                      @ \cup {handlers[current].external}]
      BY <2>1, <2>2 DEF SendParams, Handler
    <2>8. ReplyOK'
      BY <1>a, <2>1, <2>4, <2>7 DEF ReplyOK, SendParams, Becomes, SameKey, OutputType
    <2>9. ToldOK'
      <3> SUFFICES ASSUME NEW a \in Addresses, NEW x \in told'[a]
                   PROVE  \E i \in 1 .. Len(handlers') :
                             handlers'[i].address = a /\ handlers'[i].external = x
        BY DEF ToldOK
      <3>1. CASE x \in told[a]
        BY <1>a, <2>2, <2>3, <2>4, <3>1 DEF ToldOK, SameKey
      <3>2. CASE x \notin told[a]
        <4>1. a = handlers[current].address /\ x = handlers[current].external
          BY <1>a, <2>7, <3>2 DEF OutputType
        <4> QED
          BY <2>2, <2>3, <2>4, <4>1 DEF SameKey
      <3> QED
        BY <3>1, <3>2
    <2>10. AdmittedOK'
      <3> SUFFICES ASSUME NEW i \in 1 .. Len(handlers'),
                          handlers'[i].state \in {"CONNECTED", "DISCONNECTED"}
                   PROVE  handlers'[i].external \in told'[handlers'[i].address]
        BY DEF AdmittedOK
      <3>1. i # current /\ handlers'[i] = handlers[i] /\ i \in 1 .. Len(handlers)
        BY <2>3, <2>4
      <3>2. handlers[i].external \in told[handlers[i].address]
        BY <1>a, <3>1 DEF AdmittedOK
      <3>3. handlers[i].address \in Addresses
        BY <1>b, <3>1 DEF Handler
      <3> QED
        BY <1>a, <2>7, <3>1, <3>2, <3>3 DEF OutputType
    <2> QED
      BY <2>5, <2>6, <2>8, <2>9, <2>10 DEF SessionInv
  <1>10. CASE \E m \in Messages : SendParamsFails(m)
    <2>1. PICK m \in Messages : SendParamsFails(m)
      BY <1>10
    <2>2. current # 0 /\ handlers[current] \in Handler /\ handlers[current].state # "DESTROYED"
      BY <1>a, <1>c, <2>1 DEF SendParamsFails, ControlOK
    <2> DEFINE h == Moved(Heard(handlers[current]), "ERROR")
    <2>3. h \in Handler
      BY <2>2, HandlerOperations DEF State
    <2>4. SameKey(handlers[current], h) /\ h.age = 0 /\ h.state = "ERROR"
      BY <1>a, <2>1, <2>2, HandlerOperations, HandlerFields
         DEF SendParamsFails, CurrentOK, SameKey, State
    <2>5. h.state \in {"CONNECTED", "DISCONNECTED"} =>
              h.external \in told[h.address]
      BY <1>a, <1>b, <2>1, <2>2, <2>4
         DEF SendParamsFails, AdmittedOK, ReplyOK, SameKey, Leaves
    <2> HIDE DEF h
    <2>6. Becomes(h) /\ pc' = "check" /\ told' = told /\ pc \in {"handle", "reply"}
      BY <2>1 DEF SendParamsFails, h
    <2>7. h.state # "DESTROYED"
      BY <2>2, <2>4
    <2> QED
      BY <1>a, <2>2, <2>3, <2>4, <2>5, <2>6, <2>7, BecomesSession
  <1>11. CASE BecomeConnected
    <2>1. BecomeConnected
      BY <1>11
    <2>2. current # 0 /\ handlers[current] \in Handler /\ handlers[current].state # "DESTROYED"
      BY <1>a, <1>c, <2>1 DEF BecomeConnected, ControlOK
    <2> DEFINE h == Moved(handlers[current], "CONNECTED")
    <2>3. h \in Handler
      BY <2>2, HandlerOperations DEF State
    <2>4. SameKey(handlers[current], h) /\ h.age = 0 /\ h.state = "CONNECTED"
      BY <1>a, <2>1, <2>2, HandlerOperations, HandlerFields
         DEF BecomeConnected, CurrentOK, SameKey, State
    <2>5. h.state \in {"CONNECTED", "DISCONNECTED"} =>
              h.external \in told[h.address]
      BY <1>a, <1>b, <2>1, <2>2, <2>4
         DEF BecomeConnected, AdmittedOK, ReplyOK, SameKey, Leaves
    <2> HIDE DEF h
    <2>6. Becomes(h) /\ pc' = "check" /\ told' = told /\ pc \in {"handle", "reply"}
      BY <2>1 DEF BecomeConnected, h
    <2>7. h.state # "DESTROYED"
      BY <2>2, <2>4
    <2> QED
      BY <1>a, <2>2, <2>3, <2>4, <2>5, <2>6, <2>7, BecomesSession
  <1>12. CASE \E m \in Messages : RejectSecret(m)
    <2>1. PICK m \in Messages : RejectSecret(m)
      BY <1>12
    <2>2. current # 0 /\ handlers[current] \in Handler /\ handlers[current].state # "DESTROYED"
      BY <1>a, <1>c, <2>1 DEF RejectSecret, ControlOK
    <2> DEFINE h == Moved(Heard(handlers[current]), "ERROR")
    <2>3. h \in Handler
      BY <2>2, HandlerOperations DEF State
    <2>4. SameKey(handlers[current], h) /\ h.age = 0 /\ h.state = "ERROR"
      BY <1>a, <2>1, <2>2, HandlerOperations, HandlerFields
         DEF RejectSecret, CurrentOK, SameKey, State
    <2>5. h.state \in {"CONNECTED", "DISCONNECTED"} =>
              h.external \in told[h.address]
      BY <1>a, <1>b, <2>1, <2>2, <2>4
         DEF RejectSecret, AdmittedOK, ReplyOK, SameKey, Leaves
    <2> HIDE DEF h
    <2>6. Becomes(h) /\ pc' = "check" /\ told' = told /\ pc \in {"handle", "reply"}
      BY <2>1 DEF RejectSecret, h
    <2>7. h.state # "DESTROYED"
      BY <2>2, <2>4
    <2> QED
      BY <1>a, <2>2, <2>3, <2>4, <2>5, <2>6, <2>7, BecomesSession
  <1>13. CASE \E m \in Messages : ClientLeaves(m)
    <2>1. PICK m \in Messages : ClientLeaves(m)
      BY <1>13
    <2>2. current # 0 /\ handlers[current] \in Handler /\ handlers[current].state # "DESTROYED"
      BY <1>a, <1>c, <2>1 DEF ClientLeaves, ControlOK
    <2> DEFINE h == Moved(Heard(handlers[current]), "DISCONNECTED")
    <2>3. h \in Handler
      BY <2>2, HandlerOperations DEF State
    <2>4. SameKey(handlers[current], h) /\ h.age = 0 /\ h.state = "DISCONNECTED"
      BY <1>a, <2>1, <2>2, HandlerOperations, HandlerFields
         DEF ClientLeaves, CurrentOK, SameKey, State
    <2>5. h.state \in {"CONNECTED", "DISCONNECTED"} =>
              h.external \in told[h.address]
      BY <1>a, <1>b, <2>1, <2>2, <2>4
         DEF ClientLeaves, AdmittedOK, ReplyOK, SameKey, Leaves
    <2> HIDE DEF h
    <2>6. Becomes(h) /\ pc' = "check" /\ told' = told /\ pc \in {"handle", "reply"}
      BY <2>1 DEF ClientLeaves, h
    <2>7. h.state # "DESTROYED"
      BY <2>2, <2>4
    <2> QED
      BY <1>a, <2>2, <2>3, <2>4, <2>5, <2>6, <2>7, BecomesSession
  <1>14. CASE \E m \in Messages : ForwardToTun(m)
    <2>1. PICK m \in Messages : ForwardToTun(m)
      BY <1>14
    <2>2. current # 0 /\ handlers[current] \in Handler /\ handlers[current].state # "DESTROYED"
      BY <1>a, <1>c, <2>1 DEF ForwardToTun, ControlOK
    <2> DEFINE h == Heard(handlers[current])
    <2>3. h \in Handler
      BY <2>2, HandlerOperations DEF State
    <2>4. SameKey(handlers[current], h) /\ h.age = 0 /\ h.state = handlers[current].state
      BY <1>a, <2>1, <2>2, HandlerOperations, HandlerFields
         DEF ForwardToTun, CurrentOK, SameKey, State
    <2>5. h.state \in {"CONNECTED", "DISCONNECTED"} =>
              h.external \in told[h.address]
      BY <1>a, <1>b, <2>1, <2>2, <2>4
         DEF ForwardToTun, AdmittedOK, ReplyOK, SameKey, Leaves
    <2> HIDE DEF h
    <2>6. Becomes(h) /\ pc' = "check" /\ told' = told /\ pc \in {"handle", "reply"}
      BY <2>1 DEF ForwardToTun, h
    <2>7. h.state # "DESTROYED"
      BY <2>2, <2>4
    <2> QED
      BY <1>a, <2>2, <2>3, <2>4, <2>5, <2>6, <2>7, BecomesSession
  <1>15. CASE \E m \in Messages : IgnoreData(m)
    <2>1. PICK m \in Messages : IgnoreData(m)
      BY <1>15
    <2>2. current # 0 /\ handlers[current] \in Handler /\ handlers[current].state # "DESTROYED"
      BY <1>a, <1>c, <2>1 DEF IgnoreData, ControlOK
    <2> DEFINE h == Heard(handlers[current])
    <2>3. h \in Handler
      BY <2>2, HandlerOperations DEF State
    <2>4. SameKey(handlers[current], h) /\ h.age = 0 /\ h.state = handlers[current].state
      BY <1>a, <2>1, <2>2, HandlerOperations, HandlerFields
         DEF IgnoreData, CurrentOK, SameKey, State
    <2>5. h.state \in {"CONNECTED", "DISCONNECTED"} =>
              h.external \in told[h.address]
      BY <1>a, <1>b, <2>1, <2>2, <2>4
         DEF IgnoreData, AdmittedOK, ReplyOK, SameKey, Leaves
    <2> HIDE DEF h
    <2>6. Becomes(h) /\ pc' = "check" /\ told' = told /\ pc \in {"handle", "reply"}
      BY <2>1 DEF IgnoreData, h
    <2>7. h.state # "DESTROYED"
      BY <2>2, <2>4
    <2> QED
      BY <1>a, <2>2, <2>3, <2>4, <2>5, <2>6, <2>7, BecomesSession
  <1>16. CASE \E a \in Addresses : DeliverFromTun(a)
    <2>1. PICK a \in Addresses : DeliverFromTun(a)
      BY <1>16
    <2>2. UNCHANGED <<tables, told>> /\ pc' # "reply"
      BY <2>1 DEF DeliverFromTun, Due
    <2>3. CurrentOK'
      BY <1>a, <1>b, <2>1 DEF DeliverFromTun, Due, CurrentOK, TablesAgree, tables
    <2> QED
      BY <1>a, <2>2, <2>3, QuietSession
  <1>17. CASE DropFromTun
    <2>1. UNCHANGED <<tables, told>> /\ pc' # "reply"
      BY <1>17 DEF DropFromTun, Due
    <2>2. CurrentOK'
      BY <1>a, <1>b, <1>17 DEF DropFromTun, Due, CurrentOK, tables
    <2> QED
      BY <1>a, <2>1, <2>2, QuietSession
  <1>18. CASE CheckIdleClients
    <2>1. CASE Reap
      <3>1. /\ Len(handlers') = Len(handlers) /\ lastUsed' = lastUsed /\ told' = told
            /\ \A i \in 1 .. Len(handlers) :
                 handlers'[i] = IF \/ \E e \in Endpoints : clients'[e] = i
                                   \/ \E a \in Addresses : addressMap'[a] = i
                                THEN handlers[i] ELSE Destroyed(handlers[i])
        BY <1>a, <1>18, <2>1, ReapHeap DEF Reap, CheckIdleClients
      <3>2. \A i \in 1 .. Len(handlers) :
               /\ SameKey(handlers[i], handlers'[i])
               /\ handlers'[i].state \in {handlers[i].state, "DESTROYED"}
        BY <1>b, <3>1, HandlerFields DEF SameKey
      <3>3. HeapOK'
        BY <1>a, <3>1, <3>2 DEF HeapOK, SameKey
      <3>4. IdleRefs \subseteq 1 .. Len(handlers)
        BY <1>b DEF IdleRefs
      <3>5. \A i, j \in 1 .. Len(handlers) :
               handlers[i].address = handlers[j].address => i = j
        BY <1>a, NetworkAssumption DEF HeapOK
      <3>6. ASSUME NEW x \in Endpoints, clients'[x] # 0
            PROVE  /\ handlers'[clients'[x]].external = x
                   /\ handlers'[clients'[x]].state # "DESTROYED"
                   /\ addressMap'[handlers'[clients'[x]].address] = clients'[x]
        <4>1. /\ clients'[x] = clients[x] /\ clients[x] \in 1 .. Len(handlers)
              /\ clients[x] \notin IdleRefs
          BY <1>b, <2>1, <3>6 DEF Reap
        <4>2. handlers'[clients[x]] = handlers[clients[x]]
          BY <3>1, <4>1
        <4>3. handlers[clients[x]].address \in Addresses
          BY <1>b, <4>1 DEF Handler
        <4>4. handlers[clients[x]].address \notin ErasedAddresses(IdleRefs)
          BY <3>4, <3>5, <4>1 DEF ErasedAddresses
        <4> QED
          BY <1>a, <2>1, <4>1, <4>2, <4>3, <4>4 DEF Reap, TablesAgree
      <3>7. ASSUME NEW a \in Addresses, addressMap'[a] # 0
            PROVE  /\ handlers'[addressMap'[a]].address = a
                   /\ clients'[handlers'[addressMap'[a]].external] = addressMap'[a]
        <4>1. /\ addressMap'[a] = addressMap[a] /\ addressMap[a] \in 1 .. Len(handlers)
              /\ a \notin ErasedAddresses(IdleRefs)
          BY <1>b, <2>1, <3>7 DEF Reap
        <4>2. handlers'[addressMap[a]] = handlers[addressMap[a]]
          BY <3>1, <4>1
        <4>3. /\ handlers[addressMap[a]].address = a
              /\ clients[handlers[addressMap[a]].external] = addressMap[a]
              /\ handlers[addressMap[a]].external \in Endpoints
          BY <1>a, <1>b, <4>1 DEF TablesAgree, Handler
        <4>4. addressMap[a] \notin IdleRefs
          BY <4>1, <4>3 DEF ErasedAddresses
        <4> QED
          BY <2>1, <4>1, <4>2, <4>3, <4>4 DEF Reap
      <3>8. TablesAgree'
        BY <3>6, <3>7 DEF TablesAgree
      <3>9. CurrentOK' /\ ReplyOK'
        BY <1>18 DEF CheckIdleClients, CurrentOK, ReplyOK
      <3>10. ToldOK'
        BY <1>a, <3>1, <3>2 DEF ToldOK, SameKey
      <3>11. AdmittedOK'
        BY <1>a, <3>1, <3>2 DEF AdmittedOK, SameKey
      <3> QED
        BY <3>3, <3>8, <3>9, <3>10, <3>11 DEF SessionInv
    <2>2. CASE UNCHANGED tables
      <3>1. told' = told /\ pc' # "reply" /\ CurrentOK'
        BY <1>18 DEF CheckIdleClients, CurrentOK
      <3> QED
        BY <1>a, <2>2, <3>1, QuietSession
    <2> QED
      BY <1>18, <2>1, <2>2 DEF CheckIdleClients, tables
  <1>19. CASE Stop
    <2>1. /\ Len(handlers') = Len(handlers)
          /\ \A i \in 1 .. Len(handlers) :
                handlers'[i] = IF i \in ConnectedRefs
                               THEN Moved(handlers[i], "DISCONNECTED")
                               ELSE handlers[i]
      BY <1>a, <1>19, StopHeap
    <2>2. \A i \in 1 .. Len(handlers) :
             /\ SameKey(handlers[i], handlers'[i])
             /\ handlers[i].state # "DESTROYED" => handlers'[i].state # "DESTROYED"
             /\ handlers'[i].state \in {"CONNECTED", "DISCONNECTED"} =>
                    handlers[i].state \in {"CONNECTED", "DISCONNECTED"}
             /\ handlers[i].state = "START" => handlers'[i].state = "START"
             /\ handlers'[i].age = handlers[i].age
      <3>1. ASSUME NEW i \in 1 .. Len(handlers), i \in ConnectedRefs
            PROVE  /\ SameKey(handlers[i], handlers'[i])
                   /\ handlers[i].state = "CONNECTED"
                   /\ handlers'[i].state = "DISCONNECTED"
                   /\ handlers'[i].age = handlers[i].age
        <4>1. handlers'[i] = Moved(handlers[i], "DISCONNECTED")
          BY <2>1, <3>1
        <4>2. handlers[i].state = "CONNECTED"
          BY <3>1 DEF ConnectedRefs
        <4> QED
          <5>1. handlers[i] \in Handler
            BY <1>b
          <5> QED
            BY <4>1, <4>2, <5>1 DEF Handler, Moved, SameKey
      <3>2. ASSUME NEW i \in 1 .. Len(handlers), i \notin ConnectedRefs
            PROVE  handlers'[i] = handlers[i]
        BY <2>1, <3>2
      <3> QED
        <4>1. ASSUME NEW i \in 1 .. Len(handlers)
              PROVE  /\ SameKey(handlers[i], handlers'[i])
                     /\ handlers[i].state # "DESTROYED" =>
                            handlers'[i].state # "DESTROYED"
                     /\ handlers'[i].state \in {"CONNECTED", "DISCONNECTED"} =>
                            handlers[i].state \in {"CONNECTED", "DISCONNECTED"}
                     /\ handlers[i].state = "START" => handlers'[i].state = "START"
                     /\ handlers'[i].age = handlers[i].age
          <5>1. CASE i \in ConnectedRefs
            BY <3>1, <5>1
          <5>2. CASE i \notin ConnectedRefs
            BY <3>2, <5>2 DEF SameKey
          <5> QED
            BY <5>1, <5>2
        <4> QED
          BY <4>1
    <2>3. HeapOK' /\ TablesAgree' /\ ToldOK'
      <3>1. UNCHANGED <<clients, addressMap, lastUsed>> /\ told' = told
        BY <1>19 DEF Stop
      <3> QED
        BY <1>a, <2>1, <2>2, <3>1, StableStep
    <2>4. CurrentOK'
      BY <1>a, <1>b, <1>19, <2>2 DEF Stop, CurrentOK, SameKey
    <2>5. ReplyOK'
      BY <1>a, <1>b, <1>19, <2>2 DEF Stop, ReplyOK, SameKey, ControlOK
    <2>6. AdmittedOK'
      BY <1>a, <1>19, <2>1, <2>2 DEF Stop, AdmittedOK, SameKey
    <2> QED
      BY <2>3, <2>4, <2>5, <2>6 DEF SessionInv
  <1>20. CASE Tick
    <2>1. /\ Len(handlers') = Len(handlers)
          /\ \A i \in 1 .. Len(handlers) :
                handlers'[i] = IF handlers[i].state = "DESTROYED"
                               THEN handlers[i]
                               ELSE [handlers[i] EXCEPT !.age = Older(@)]
      BY <1>a, <1>20, TickHeap
    <2>2. \A i \in 1 .. Len(handlers) :
             /\ SameKey(handlers[i], handlers'[i])
             /\ handlers[i].state # "DESTROYED" => handlers'[i].state # "DESTROYED"
             /\ handlers'[i].state \in {"CONNECTED", "DISCONNECTED"} =>
                    handlers[i].state \in {"CONNECTED", "DISCONNECTED"}
             /\ handlers[i].state = "START" => handlers'[i].state = "START"
      <3>1. ASSUME NEW i \in 1 .. Len(handlers)
            PROVE  /\ SameKey(handlers[i], handlers'[i])
                   /\ handlers'[i].state = handlers[i].state
        <4>1. handlers[i] \in Handler
          BY <1>b
        <4>2. CASE handlers[i].state = "DESTROYED"
          BY <2>1, <4>2 DEF SameKey
        <4>3. CASE handlers[i].state # "DESTROYED"
          BY <2>1, <4>1, <4>3, HandlerFields
        <4> QED
          BY <4>2, <4>3
      <3> QED
        BY <3>1
    <2>3. HeapOK' /\ TablesAgree' /\ ToldOK'
      <3>1. UNCHANGED <<clients, addressMap, lastUsed>> /\ told' = told
        BY <1>20 DEF Tick
      <3> QED
        BY <1>a, <2>1, <2>2, <3>1, StableStep
    <2>4. CurrentOK'
      BY <1>a, <1>b, <1>20, <2>2 DEF Tick, CurrentOK, SameKey
    <2>5. ReplyOK'
      BY <1>a, <1>b, <1>20, <2>2 DEF Tick, ReplyOK, SameKey, ControlOK
    <2>6. AdmittedOK'
      BY <1>a, <1>20, <2>1, <2>2 DEF Tick, AdmittedOK, SameKey
    <2> QED
      BY <2>3, <2>4, <2>5, <2>6 DEF SessionInv
  <1>21. CASE UNCHANGED vars
    BY <1>a, <1>21 DEF vars, tables, SessionInv, HeapOK, TablesAgree, CurrentOK,
       ReplyOK, ToldOK, AdmittedOK
  <1> QED
    BY <1>1, <1>2, <1>3, <1>4, <1>5, <1>6, <1>7, <1>8, <1>9, <1>10, <1>11, <1>12, <1>13,
       <1>14, <1>15, <1>16, <1>17, <1>18, <1>19, <1>20, <1>21
       DEF Next, Continue, HandleClient, HandleTunInterface

THEOREM Invariance == Spec => []IInv
  <1>1. Init => IInv
    BY TypeInit, SessionInit DEF IInv
  <1>2. IInv /\ [Next]_vars => IInv'
    BY TypeStep, SessionStep DEF IInv
  <1> QED
    BY <1>1, <1>2, PTL DEF Spec

(* The two tables describe the same live sessions in every reachable state.*)
THEOREM TablesAlwaysAgree == Spec => []TablesAgree
  <1>1. IInv => TablesAgree
    BY DEF IInv, SessionInv
  <1> QED
    BY <1>1, Invariance, PTL

-----------------------------------------------------------------------------
(* What the steps after the first make of the heap: a new session, a round *)
(* of reaping, or objects that keep their keys and never come back.        *)

Unregistering == CheckIdleClients /\ Reap

KeepsSessions ==
    /\ UNCHANGED <<clients, addressMap, lastUsed>>
    /\ Len(handlers') = Len(handlers)
    /\ \A i \in 1 .. Len(handlers) :
          /\ SameKey(handlers[i], handlers'[i])
          /\ handlers[i].state \in {"DISCONNECTED", "ERROR", "DESTROYED"} =>
                handlers'[i].state = handlers[i].state

LEMMA BecomesKeeps ==
    ASSUME TypeInv, current # 0, NEW h \in Handler, Becomes(h),
           SameKey(handlers[current], h),
           handlers[current].state \in {"DISCONNECTED", "ERROR", "DESTROYED"} =>
               h.state = handlers[current].state
    PROVE  KeepsSessions
  <1>1. /\ Len(handlers') = Len(handlers)
        /\ \A i \in 1 .. Len(handlers) :
              handlers'[i] = IF i = current THEN h ELSE handlers[i]
    BY BecomesHeap DEF Becomes, TypeInv, TypeOK
  <1> QED
    BY <1>1 DEF KeepsSessions, Becomes, SameKey

LEMMA HeapStep ==
    ASSUME IInv, [Next]_vars
    PROVE  \/ \E e \in Endpoints : RegisterClient(e)
           \/ Unregistering
           \/ KeepsSessions
  <1>a. TypeInv /\ TablesType /\ ControlOK /\ ReplyOK
    BY DEF IInv, SessionInv, TypeInv, TypeOK
  <1>b. /\ current # 0 => handlers[current] \in Handler
        /\ \A i \in 1 .. Len(handlers) : handlers[i] \in Handler
    BY <1>a, CurrentHandler, ElementOfSeq DEF TablesType
  <1>q. UNCHANGED tables => KeepsSessions
    BY DEF tables, KeepsSessions, SameKey
  <1>1. CASE AnyEvent
    BY <1>q, <1>1 DEF AnyEvent, EpollWait
  <1>2. CASE EpollError
    BY <1>q, <1>2 DEF EpollError
  <1>3. CASE LeaveLoop
    BY <1>q, <1>3 DEF LeaveLoop
  <1>4. CASE BatchDone
    BY <1>q, <1>4 DEF BatchDone
  <1>5. CASE ReceiveNothing
    BY <1>q, <1>5 DEF ReceiveNothing
  <1>6. CASE \E e \in Endpoints : ReceiveKnown(e)
    BY <1>q, <1>6 DEF ReceiveKnown
  <1>7. CASE \E e \in Endpoints : RegisterClient(e)
    BY <1>7
  <1>8. CASE \E e \in Endpoints : OutOfAddresses(e)
    BY <1>q, <1>8 DEF OutOfAddresses
  <1>9. CASE \E m \in Messages : SendParams(m)
    <2>1. PICK m \in Messages : SendParams(m)
      BY <1>9
    <2> DEFINE h == Heard(handlers[current])
    <2>2. current # 0 /\ handlers[current] \in Handler
      BY <1>a, <1>b, <2>1 DEF SendParams, ControlOK
    <2>3. h \in Handler
      BY <2>2, HandlerOperations DEF State
    <2>4. SameKey(handlers[current], h) /\ h.state = handlers[current].state
      BY <2>2, HandlerOperations, HandlerFields DEF State
    <2>5. handlers[current].state \in {"DISCONNECTED", "ERROR", "DESTROYED"} =>
              h.state = handlers[current].state
      BY <1>a, <2>1, <2>4 DEF SendParams
    <2> HIDE DEF h
    <2>6. Becomes(h)
      BY <2>1 DEF SendParams, h
    <2> QED
      BY <1>a, <2>2, <2>3, <2>4, <2>5, <2>6, BecomesKeeps
  <1>10. CASE \E m \in Messages : SendParamsFails(m)
    <2>1. PICK m \in Messages : SendParamsFails(m)
      BY <1>10
    <2> DEFINE h == Moved(Heard(handlers[current]), "ERROR")
    <2>2. current # 0 /\ handlers[current] \in Handler
      BY <1>a, <1>b, <2>1 DEF SendParamsFails, ControlOK
    <2>3. h \in Handler
      BY <2>2, HandlerOperations DEF State
    <2>4. SameKey(handlers[current], h) /\ h.state = "ERROR"
      BY <2>2, HandlerOperations, HandlerFields DEF State
    <2>5. handlers[current].state \in {"DISCONNECTED", "ERROR", "DESTROYED"} =>
              h.state = handlers[current].state
      BY <1>a, <2>1, <2>4 DEF SendParamsFails, Admits
    <2> HIDE DEF h
    <2>6. Becomes(h)
      BY <2>1 DEF SendParamsFails, h
    <2> QED
      BY <1>a, <2>2, <2>3, <2>4, <2>5, <2>6, BecomesKeeps
  <1>11. CASE BecomeConnected
    <2>1. BecomeConnected
      BY <1>11
    <2> DEFINE h == Moved(handlers[current], "CONNECTED")
    <2>2. current # 0 /\ handlers[current] \in Handler
      BY <1>a, <1>b, <2>1 DEF BecomeConnected, ControlOK
    <2>3. h \in Handler
      BY <2>2, HandlerOperations DEF State
    <2>4. SameKey(handlers[current], h) /\ h.state = "CONNECTED"
      BY <2>2, HandlerOperations, HandlerFields DEF State
    <2>5. handlers[current].state \in {"DISCONNECTED", "ERROR", "DESTROYED"} =>
              h.state = handlers[current].state
      BY <1>a, <2>1, <2>4 DEF BecomeConnected, ReplyOK
    <2> HIDE DEF h
    <2>6. Becomes(h)
      BY <2>1 DEF BecomeConnected, h
    <2> QED
      BY <1>a, <2>2, <2>3, <2>4, <2>5, <2>6, BecomesKeeps
  <1>12. CASE \E m \in Messages : RejectSecret(m)
    <2>1. PICK m \in Messages : RejectSecret(m)
      BY <1>12
    <2> DEFINE h == Moved(Heard(handlers[current]), "ERROR")
    <2>2. current # 0 /\ handlers[current] \in Handler
      BY <1>a, <1>b, <2>1 DEF RejectSecret, ControlOK
    <2>3. h \in Handler
      BY <2>2, HandlerOperations DEF State
    <2>4. SameKey(handlers[current], h) /\ h.state = "ERROR"
      BY <2>2, HandlerOperations, HandlerFields DEF State
    <2>5. handlers[current].state \in {"DISCONNECTED", "ERROR", "DESTROYED"} =>
              h.state = handlers[current].state
      BY <1>a, <2>1, <2>4 DEF RejectSecret, Rejects
    <2> HIDE DEF h
    <2>6. Becomes(h)
      BY <2>1 DEF RejectSecret, h
    <2> QED
      BY <1>a, <2>2, <2>3, <2>4, <2>5, <2>6, BecomesKeeps
  <1>13. CASE \E m \in Messages : ClientLeaves(m)
    <2>1. PICK m \in Messages : ClientLeaves(m)
      BY <1>13
    <2> DEFINE h == Moved(Heard(handlers[current]), "DISCONNECTED")
    <2>2. current # 0 /\ handlers[current] \in Handler
      BY <1>a, <1>b, <2>1 DEF ClientLeaves, ControlOK
    <2>3. h \in Handler
      BY <2>2, HandlerOperations DEF State
    <2>4. SameKey(handlers[current], h) /\ h.state = "DISCONNECTED"
      BY <2>2, HandlerOperations, HandlerFields DEF State
    <2>5. handlers[current].state \in {"DISCONNECTED", "ERROR", "DESTROYED"} =>
              h.state = handlers[current].state
      BY <1>a, <2>1, <2>4 DEF ClientLeaves, Leaves
    <2> HIDE DEF h
    <2>6. Becomes(h)
      BY <2>1 DEF ClientLeaves, h
    <2> QED
      BY <1>a, <2>2, <2>3, <2>4, <2>5, <2>6, BecomesKeeps
  <1>14. CASE \E m \in Messages : ForwardToTun(m)
    <2>1. PICK m \in Messages : ForwardToTun(m)
      BY <1>14
    <2> DEFINE h == Heard(handlers[current])
    <2>2. current # 0 /\ handlers[current] \in Handler
      BY <1>a, <1>b, <2>1 DEF ForwardToTun, ControlOK
    <2>3. h \in Handler
      BY <2>2, HandlerOperations DEF State
    <2>4. SameKey(handlers[current], h) /\ h.state = handlers[current].state
      BY <2>2, HandlerOperations, HandlerFields DEF State
    <2>5. handlers[current].state \in {"DISCONNECTED", "ERROR", "DESTROYED"} =>
              h.state = handlers[current].state
      BY <1>a, <2>1, <2>4 DEF ForwardToTun
    <2> HIDE DEF h
    <2>6. Becomes(h)
      BY <2>1 DEF ForwardToTun, h
    <2> QED
      BY <1>a, <2>2, <2>3, <2>4, <2>5, <2>6, BecomesKeeps
  <1>15. CASE \E m \in Messages : IgnoreData(m)
    <2>1. PICK m \in Messages : IgnoreData(m)
      BY <1>15
    <2> DEFINE h == Heard(handlers[current])
    <2>2. current # 0 /\ handlers[current] \in Handler
      BY <1>a, <1>b, <2>1 DEF IgnoreData, ControlOK
    <2>3. h \in Handler
      BY <2>2, HandlerOperations DEF State
    <2>4. SameKey(handlers[current], h) /\ h.state = handlers[current].state
      BY <2>2, HandlerOperations, HandlerFields DEF State
    <2>5. handlers[current].state \in {"DISCONNECTED", "ERROR", "DESTROYED"} =>
              h.state = handlers[current].state
      BY <1>a, <2>1, <2>4 DEF IgnoreData
    <2> HIDE DEF h
    <2>6. Becomes(h)
      BY <2>1 DEF IgnoreData, h
    <2> QED
      BY <1>a, <2>2, <2>3, <2>4, <2>5, <2>6, BecomesKeeps
  <1>16. CASE \E a \in Addresses : DeliverFromTun(a)
    BY <1>q, <1>16 DEF DeliverFromTun
  <1>17. CASE DropFromTun
    BY <1>q, <1>17 DEF DropFromTun
  <1>18. CASE CheckIdleClients
    <2>1. CASE Reap
      BY <1>18, <2>1 DEF Unregistering
    <2>2. CASE UNCHANGED tables
      BY <1>q, <2>2
    <2> QED
      BY <1>18, <2>1, <2>2 DEF CheckIdleClients
  <1>19. CASE Stop
    <2>1. /\ Len(handlers') = Len(handlers)
          /\ \A i \in 1 .. Len(handlers) :
                handlers'[i] = IF i \in ConnectedRefs
                               THEN Moved(handlers[i], "DISCONNECTED")
                               ELSE handlers[i]
      BY <1>a, <1>19, StopHeap
    <2>2. ASSUME NEW i \in 1 .. Len(handlers)
          PROVE  /\ SameKey(handlers[i], handlers'[i])
                 /\ handlers[i].state \in {"DISCONNECTED", "ERROR", "DESTROYED"} =>
                       handlers'[i].state = handlers[i].state
      <3>1. CASE i \in ConnectedRefs
        <4>1. handlers[i].state = "CONNECTED" /\ handlers[i] \in Handler
          BY <1>b, <3>1 DEF ConnectedRefs
        <4> QED
          BY <2>1, <3>1, <4>1 DEF Handler, Moved, SameKey
      <3>2. CASE i \notin ConnectedRefs
        BY <2>1, <3>2 DEF SameKey
      <3> QED
        BY <3>1, <3>2
    <2> QED
      BY <1>19, <2>1, <2>2 DEF Stop, KeepsSessions
  <1>20. CASE Tick
    <2>1. /\ Len(handlers') = Len(handlers)
          /\ \A i \in 1 .. Len(handlers) :
                handlers'[i] = IF handlers[i].state = "DESTROYED"
                               THEN handlers[i]
                               ELSE [handlers[i] EXCEPT !.age = Older(@)]
      BY <1>a, <1>20, TickHeap
    <2>2. ASSUME NEW i \in 1 .. Len(handlers)
          PROVE  /\ SameKey(handlers[i], handlers'[i])
                 /\ handlers'[i].state = handlers[i].state
      <3>1. handlers[i] \in Handler
        BY <1>b
      <3>2. CASE handlers[i].state = "DESTROYED"
        BY <2>1, <3>2 DEF SameKey
      <3>3. CASE handlers[i].state # "DESTROYED"
        BY <2>1, <3>1, <3>3, HandlerFields
      <3> QED
        BY <3>2, <3>3
    <2> QED
      BY <1>20, <2>1, <2>2 DEF Tick, KeepsSessions
  <1>21. CASE UNCHANGED vars
    BY <1>q, <1>21 DEF vars
  <1> QED
    BY <1>1, <1>2, <1>3, <1>4, <1>5, <1>6, <1>7, <1>8, <1>9, <1>10, <1>11, <1>12, <1>13,
       <1>14, <1>15, <1>16, <1>17, <1>18, <1>19, <1>20, <1>21
       DEF Next, Continue, HandleClient, HandleTunInterface

(* No step brings a session back that was disconnected, refused or reaped: *)
(* a signal in the middle of a handshake included.                         *)
THEOREM DisconnectedForGood == Spec => NoReturn
  <1>1. IInv /\ [Next]_vars =>
            [\A i \in DOMAIN handlers :
               handlers[i].state \in {"DISCONNECTED", "ERROR", "DESTROYED"} =>
                  handlers'[i].state \in {handlers[i].state, "DESTROYED"}]_vars
    <2> SUFFICES ASSUME IInv, [Next]_vars, NEW i \in DOMAIN handlers,
                        handlers[i].state \in {"DISCONNECTED", "ERROR", "DESTROYED"}
                 PROVE  handlers'[i].state \in {handlers[i].state, "DESTROYED"}
      OBVIOUS
    <2>1. TypeInv /\ i \in 1 .. Len(handlers) /\ handlers[i] \in Handler
      BY LenProperties, ElementOfSeq DEF IInv, TypeInv, TypeOK, TablesType
    <2>2. CASE \E e \in Endpoints : RegisterClient(e)
      BY <2>1, <2>2, RegisterHeap
    <2>3. CASE Unregistering
      BY <2>1, <2>3, ReapHeap, HandlerFields DEF Unregistering
    <2>4. CASE KeepsSessions
      BY <2>1, <2>4 DEF KeepsSessions
    <2> QED
      BY <2>2, <2>3, <2>4, HeapStep
  <1> QED
    BY <1>1, Invariance, PTL DEF Spec, NoReturn

-----------------------------------------------------------------------------
(* What a step does outside the tables.                                    *)

(* An effect is on behalf of an object, and DISCONNECT and writes to the   *)
(* TUN interface only on behalf of one whose client was told its address.  *)
Grounded(x) ==
    /\ \E i \in 1 .. Len(handlers) :
          x.to = handlers[i].external /\ x.address = handlers[i].address
    /\ x.kind \in {"goodbye", "tun"} => x.to \in told[x.address]

OutputInv == \A x \in effects : Grounded(x)

LEMMA SilentSteps ==
    ASSUME [Next]_vars
    PROVE  \/ effects' = {}
           \/ \E m \in Messages : SendParams(m) \/ ClientLeaves(m) \/ ForwardToTun(m)
           \/ \E a \in Addresses : DeliverFromTun(a)
           \/ Stop
           \/ UNCHANGED vars
  BY DEF Next, Continue, HandleClient, HandleTunInterface, AnyEvent, EpollWait,
         EpollError, LeaveLoop, BatchDone, ReceiveNothing, ReceiveKnown,
         RegisterClient, OutOfAddresses, SendParamsFails, BecomeConnected,
         RejectSecret, IgnoreData, DropFromTun, CheckIdleClients, Tick

LEMMA OutputStep == IInv /\ OutputInv /\ [Next]_vars => OutputInv'
  <1> SUFFICES ASSUME IInv, OutputInv, [Next]_vars PROVE OutputInv'
    OBVIOUS
  <1>a. /\ TypeInv /\ TablesType /\ ControlOK /\ AdmittedOK
        /\ \A i \in 1 .. Len(handlers) : handlers[i] \in Handler
        /\ current # 0 => current \in 1 .. Len(handlers)
        /\ \A a \in Addresses : addressMap[a] # 0 => addressMap[a] \in 1 .. Len(handlers)
    BY LenProperties, ElementOfSeq
       DEF IInv, SessionInv, TypeInv, TypeOK, TablesType
  (* All effects of a step that keeps the sessions are For(k, handlers[i]). *)
  <1>b. ASSUME KeepsSessions,
               NEW i \in 1 .. Len(handlers), NEW k, NEW x,
               x = For(k, handlers[i]),
               k \in {"goodbye", "tun"} =>
                   handlers[i].external \in told'[handlers[i].address]
        PROVE  Grounded(x)'
    BY <1>b DEF Grounded, For, KeepsSessions, SameKey
  <1>1. CASE effects' = {}
    BY <1>1 DEF OutputInv
  <1>2. CASE \E m \in Messages : SendParams(m) \/ ClientLeaves(m) \/ ForwardToTun(m)
    <2>1. PICK m \in Messages : SendParams(m) \/ ClientLeaves(m) \/ ForwardToTun(m)
      BY <1>2
    <2>2. current \in 1 .. Len(handlers)
      BY <1>a, <2>1 DEF SendParams, ClientLeaves, ForwardToTun, ControlOK
    <2>3. KeepsSessions
      <3>1. ~(\E e \in Endpoints : RegisterClient(e)) /\ ~Unregistering
        BY <2>1 DEF SendParams, ClientLeaves, ForwardToTun, RegisterClient, Due,
                    Unregistering, CheckIdleClients
      <3> QED
        BY <3>1, HeapStep
    <2>4. CASE SendParams(m)
      <3>1. effects' = {For("params", handlers[current])}
        BY <2>4 DEF SendParams
      <3> QED
        BY <1>b, <2>2, <2>3, <3>1 DEF OutputInv
    <2>5. CASE ClientLeaves(m)
      <3>1. effects' = {For("close", handlers[current])}
        BY <2>5 DEF ClientLeaves
      <3> QED
        BY <1>b, <2>2, <2>3, <3>1 DEF OutputInv
    <2>6. CASE ForwardToTun(m)
      <3>1. /\ effects' = {For(k, handlers[current]) : k \in {"tun", "record"}}
            /\ handlers[current].state = "CONNECTED" /\ told' = told
        BY <2>6 DEF ForwardToTun, Forwards
      <3>2. handlers[current].external \in told'[handlers[current].address]
        BY <1>a, <2>2, <3>1 DEF AdmittedOK
      <3>3. ASSUME NEW x \in effects'
            PROVE  \E k \in {"tun", "record"} : x = For(k, handlers[current])
        BY <3>1
      <3> QED
        BY <1>b, <2>2, <2>3, <3>2, <3>3 DEF OutputInv
    <2> QED
      BY <2>1, <2>4, <2>5, <2>6
  <1>3. CASE \E a \in Addresses : DeliverFromTun(a)
    <2>1. PICK a \in Addresses : DeliverFromTun(a)
      BY <1>3
    <2>2. /\ addressMap[a] \in 1 .. Len(handlers)
          /\ effects' = {For(k, handlers[addressMap[a]]) : k \in {"packet", "record"}}
      BY <1>a, <2>1 DEF DeliverFromTun
    <2>3. KeepsSessions
      BY <2>1 DEF DeliverFromTun, KeepsSessions, SameKey, tables
    <2>4. ASSUME NEW x \in effects'
          PROVE  \E k \in {"packet", "record"} : x = For(k, handlers[addressMap[a]])
      BY <2>2
    <2> QED
      BY <1>b, <2>2, <2>3, <2>4 DEF OutputInv
  <1>4. CASE Stop
    <2>1. KeepsSessions
      <3>1. CASE \E e \in Endpoints : RegisterClient(e)
        BY <1>4, <3>1 DEF Stop, RegisterClient, loop
      <3>2. CASE Unregistering
        BY <1>4, <3>2 DEF Stop, Unregistering, CheckIdleClients
      <3> QED
        BY <3>1, <3>2, HeapStep
    <2>2. ASSUME NEW i \in ConnectedRefs
          PROVE  /\ i \in 1 .. Len(handlers)
                 /\ handlers[i].external \in told'[handlers[i].address]
      <3>1. i \in 1 .. Len(handlers) /\ handlers[i].state = "CONNECTED"
        BY <1>a, <2>2, LenProperties DEF ConnectedRefs, TablesType
      <3>2. told' = told
        BY <1>4 DEF Stop
      <3> QED
        BY <1>a, <3>1, <3>2 DEF AdmittedOK
    <2>3. ASSUME NEW x \in effects'
          PROVE  \E k \in {"goodbye", "close"}, i \in ConnectedRefs :
                    x = For(k, handlers[i])
      BY <1>4, <2>3 DEF Stop
    <2> QED
      BY <1>b, <2>1, <2>2, <2>3 DEF OutputInv
  <1>5. CASE UNCHANGED vars
    BY <1>5 DEF vars, tables, OutputInv, Grounded
  <1> QED
    BY <1>1, <1>2, <1>3, <1>4, <1>5, SilentSteps

LEMMA OutputInvariant == Spec => []OutputInv
  <1>1. Init => OutputInv
    BY DEF Init, OutputInv
  <1> QED
    BY <1>1, OutputStep, Invariance, PTL DEF Spec

(* An address is told to one endpoint only, and its packets go nowhere     *)
(* else: the heap gives every address one object for ever.                 *)
THEOREM PacketsReachTheirClient == Spec => []NoMisdelivery
  <1>1. ASSUME IInv, OutputInv PROVE NoMisdelivery
    <2>1. \A i, j \in 1 .. Len(handlers) :
              handlers[i].address = handlers[j].address => i = j
      BY <1>1, NetworkAssumption DEF IInv, SessionInv, HeapOK
    <2>2. \A i \in 1 .. Len(handlers) : handlers[i].address \in Addresses
      <3>1. \A i \in 1 .. Len(handlers) : handlers[i] \in Handler
        BY <1>1, ElementOfSeq DEF IInv, TypeInv, TypeOK, TablesType
      <3> QED
        BY <3>1 DEF Handler
    <2>3. \A i \in 1 .. Len(handlers) :
              told[handlers[i].address] \subseteq {handlers[i].external}
      BY <1>1, <2>1, <2>2 DEF IInv, SessionInv, ToldOK
    <2>4. \A a \in Addresses : \A d, e \in told[a] : d = e
      BY <1>1, <2>1 DEF IInv, SessionInv, ToldOK
    <2>5. \A x \in effects : told[x.address] \subseteq {x.to}
      BY <1>1, <2>3 DEF OutputInv, Grounded
    <2> QED
      BY <2>4, <2>5 DEF NoMisdelivery
  <1> QED
    BY <1>1, Invariance, OutputInvariant, PTL

(* Nobody is served, or sent DISCONNECT, who was not sent parameters.      *)
THEOREM OnlyAdmittedClients == Spec => []OnlyAdmittedServed
  <1>1. ASSUME IInv, OutputInv PROVE OnlyAdmittedServed
    <2>1. DOMAIN handlers = 1 .. Len(handlers)
      BY <1>1, LenProperties DEF IInv, TypeInv, TypeOK, TablesType
    <2> QED
      BY <1>1, <2>1 DEF IInv, SessionInv, AdmittedOK, OutputInv, Grounded,
             OnlyAdmittedServed
  <1> QED
    BY <1>1, Invariance, OutputInvariant, PTL

(* The idle check after a datagram spares the session of that datagram:    *)
(* its age is 0 by then, and the timeout is positive.                      *)
THEOREM CheckSparesSender == Spec => SenderSurvivesCheck
  <1>1. IInv /\ [Next]_vars =>
          [(pc = "check" /\ current # 0) =>
              \/ handlers[current].state = "DISCONNECTED"
              \/ \E e \in Endpoints : clients'[e] = current]_vars
    <2> SUFFICES ASSUME IInv, [Next]_vars, pc = "check", current # 0,
                        handlers[current].state # "DISCONNECTED"
                 PROVE  \E e \in Endpoints : clients'[e] = current
      OBVIOUS
    <2> DEFINE e == handlers[current].external
    <2>1. /\ TypeInv /\ TablesType /\ handlers[current] \in Handler
          /\ clients[e] = current /\ handlers[current].age = 0
      BY CurrentHandler
         DEF IInv, SessionInv, TypeInv, TypeOK, CurrentOK
    <2>2. e \in Endpoints
      BY <2>1 DEF Handler
    <2>3. ~IsIdle(handlers[current])
      BY <2>1, IdleTimeoutAssumption DEF IsIdle
    <2>4. CASE Unregistering
      <3>1. current \notin IdleRefs
        BY <2>3 DEF IdleRefs
      <3> QED
        BY <2>1, <2>2, <2>4, <3>1 DEF Unregistering, Reap
    <2>5. CASE KeepsSessions
      BY <2>1, <2>2, <2>5 DEF KeepsSessions
    <2>6. ~(\E x \in Endpoints : RegisterClient(x))
      BY DEF RegisterClient, Due
    <2> QED
      BY <2>4, <2>5, <2>6, HeapStep
  <1> QED
    BY <1>1, Invariance, PTL DEF Spec, SenderSurvivesCheck

-----------------------------------------------------------------------------
(* The server implements AddressLease.                                     *)

Leasable == TunAddress + 1 .. HighestAddress - 1

LeaseHolder == [a \in Leasable |->
                  IF addressMap[a] = 0 THEN 0 ELSE handlers[addressMap[a]].external]

LEMMA LeaseInit == Init => Lease!Init
  BY NetworkAssumption DEF Init, Lease!Init, Addresses

LEMMA LeaseStep ==
    ASSUME IInv, IInv', [Next]_vars, 0 \notin Endpoints
    PROVE  [Lease!Next]_(Lease!leaseVars)
  <1>a. /\ TypeInv /\ HeapOK /\ TablesAgree /\ TablesType /\ ControlOK
        /\ Leasable \subseteq Addresses
        /\ \A i \in 1 .. Len(handlers) : handlers[i] \in Handler
        /\ \A e \in Endpoints : clients[e] # 0 => clients[e] \in 1 .. Len(handlers)
        /\ \A a \in Addresses : addressMap[a] # 0 => addressMap[a] \in 1 .. Len(handlers)
    BY LenProperties, ElementOfSeq, NetworkAssumption
       DEF IInv, SessionInv, TypeInv, TypeOK, TablesType, Leasable, Addresses
  <1>1. CASE \E e \in Endpoints : RegisterClient(e)
    <2>1. PICK e \in Endpoints : RegisterClient(e)
      BY <1>1
    <2>2. /\ NextAddress \in Addresses
          /\ handlers'[Len(handlers) + 1] = NewHandler(e, NextAddress)
          /\ \A i \in 1 .. Len(handlers) : handlers'[i] = handlers[i]
      BY <1>a, <2>1, RegisterHeap
    <2>3. /\ NextAddress \in Leasable /\ NextAddress \notin TunAddress + 1 .. lastUsed
          /\ TunAddress + 1 .. lastUsed' = (TunAddress + 1 .. lastUsed) \cup {NextAddress}
      BY <1>a, <2>1, NetworkAssumption
         DEF RegisterClient, AddressLeft, NextAddress, TablesType, ControlOK,
             Addresses, Leasable
    <2>4. \A b \in Leasable : LeaseHolder[b] # e
      <3> SUFFICES ASSUME NEW b \in Leasable, LeaseHolder[b] = e PROVE FALSE
        OBVIOUS
      <3>1. addressMap[b] # 0 /\ handlers[addressMap[b]].external = e
        BY DEF LeaseHolder
      <3>2. clients[e] # 0
        BY <1>a, <3>1 DEF TablesAgree
      <3> QED
        BY <2>1, <3>2 DEF RegisterClient
    <2>5. LeaseHolder' = [LeaseHolder EXCEPT ![NextAddress] = e]
      <3>1. ASSUME NEW a \in Leasable, a # NextAddress
            PROVE  LeaseHolder'[a] = LeaseHolder[a]
        <4>1. a \in Addresses /\ addressMap'[a] = addressMap[a]
          BY <1>a, <2>1, <3>1 DEF RegisterClient, TablesType
        <4> QED
          BY <1>a, <2>2, <4>1 DEF LeaseHolder, Leasable
      <3>2. LeaseHolder'[NextAddress] = e
        <4>1. addressMap'[NextAddress] = Len(handlers) + 1 /\ Len(handlers) + 1 # 0
          BY <1>a, <2>1, <2>2, LenProperties DEF RegisterClient, TablesType
        <4> QED
          BY <2>2, <2>3, <4>1 DEF LeaseHolder, NewHandler, Leasable
      <3> QED
        BY <3>1, <3>2 DEF LeaseHolder, Leasable
    <2>6. Lease!Grant
      BY <2>3, <2>4, <2>5 DEF Lease!Grant, LeaseHolder, Leasable
    <2> QED
      BY <2>6 DEF Lease!Next
  <1>2. CASE Unregistering
    <2>1. /\ Reap /\ lastUsed' = lastUsed
          /\ \A i \in 1 .. Len(handlers) :
                handlers'[i] = IF \/ \E e \in Endpoints : clients'[e] = i
                                  \/ \E a \in Addresses : addressMap'[a] = i
                               THEN handlers[i] ELSE Destroyed(handlers[i])
      BY <1>a, <1>2, ReapHeap DEF Unregistering, Reap
    <2> DEFINE S == {a \in Leasable : addressMap[a] # 0
                                      /\ a \in ErasedAddresses(IdleRefs)}
    <2>2. \A a \in S : LeaseHolder[a] # 0
      <3> SUFFICES ASSUME NEW a \in S PROVE LeaseHolder[a] # 0
        OBVIOUS
      <3>1. addressMap[a] \in 1 .. Len(handlers)
        BY <1>a
      <3>2. handlers[addressMap[a]].external \in Endpoints
        BY <1>a, <3>1 DEF Handler
      <3> QED
        BY <3>1, <3>2 DEF LeaseHolder
    <2>3. ASSUME NEW a \in Leasable
          PROVE  LeaseHolder'[a] = IF a \in S THEN 0 ELSE LeaseHolder[a]
      <3>1. addressMap'[a] = IF a \in ErasedAddresses(IdleRefs) THEN 0 ELSE addressMap[a]
        BY <1>a, <2>1 DEF Reap
      <3>2. CASE addressMap'[a] = 0
        BY <3>1, <3>2 DEF LeaseHolder, Leasable
      <3>3. CASE addressMap'[a] # 0
        <4>1. /\ addressMap'[a] = addressMap[a] /\ a \notin S
              /\ addressMap[a] \in 1 .. Len(handlers)
          BY <1>a, <3>1, <3>3
        <4>2. handlers'[addressMap[a]] = handlers[addressMap[a]]
          BY <1>a, <2>1, <4>1
        <4> QED
          BY <4>1, <4>2 DEF LeaseHolder, Leasable
      <3> QED
        BY <3>2, <3>3
    <2>4. LeaseHolder' = [a \in Leasable |-> IF a \in S THEN 0 ELSE LeaseHolder[a]]
      BY <2>3 DEF LeaseHolder, Leasable
    <2>5. S \in SUBSET {a \in Leasable : LeaseHolder[a] # 0}
      BY <2>2
    <2> HIDE DEF S
    <2>6. Lease!Release
      BY <2>1, <2>4, <2>5 DEF Lease!Release, Lease!Held, LeaseHolder, Leasable
    <2> QED
      BY <2>6 DEF Lease!Next
  <1>3. CASE KeepsSessions
    <2>1. ASSUME NEW a \in Leasable PROVE LeaseHolder'[a] = LeaseHolder[a]
      BY <1>3, <1>a DEF KeepsSessions, SameKey, LeaseHolder, Leasable
    <2>2. LeaseHolder' = LeaseHolder /\ lastUsed' = lastUsed
      BY <1>3, <2>1 DEF KeepsSessions, LeaseHolder, Leasable
    <2> QED
      BY <2>2 DEF Lease!leaseVars, LeaseHolder, Leasable
  <1> QED
    BY <1>1, <1>2, <1>3, HeapStep

(* The server grants and releases leases exactly as AddressLease allows.   *)
THEOREM ServerImplementsLease ==
    ASSUME 0 \notin Endpoints
    PROVE  Spec => ImplementsLease
  <1>1. Init => Lease!Init
    BY LeaseInit
  <1>2. IInv /\ IInv' /\ [Next]_vars => [Lease!Next]_(Lease!leaseVars)
    BY LeaseStep
  <1> QED
    BY <1>1, <1>2, Invariance, PTL DEF Spec, Lease!Spec, ImplementsLease
=============================================================================
