---------------------------- MODULE ClientHandler ----------------------------
(***************************************************************************)
(* The server's session object for one client (server/ClientHandler.h):    *)
(* what a datagram does to it, by the class of the datagram and the state  *)
(* of the session.  ToyVpnServer.tla keeps these objects in its tables and *)
(* turns the cases into actions.                                           *)
(*                                                                         *)
(* A datagram is reduced to what handleDataFromClient tells apart:         *)
(*   "secret"       first byte 0, then the configured secret               *)
(*   "wrongSecret"  first byte 0, then any other bytes                     *)
(*   "disconnect"   first byte 0, then the ten bytes DISCONNECT            *)
(*   "keepalive"    the single byte 0                                      *)
(*   "data"         first byte not 0 (an IP packet)                        *)
(*                                                                         *)
(* m_LastMessageTimestamp is kept as an age: whole ticks since the last    *)
(* message, saturating one past IdleTimeout, where isIdle turns true.      *)
(***************************************************************************)
EXTENDS Integers

CONSTANTS Endpoints,       \* external (address, port) pairs of clients
          TunAddress,      \* lowest host address: the server's own
          HighestAddress,  \* highest host address of the private network
          IdleTimeout      \* m_ClientIdleTimeoutSec, in ticks

ASSUME NetworkAssumption ==
          /\ TunAddress \in Nat /\ HighestAddress \in Nat
          /\ TunAddress < HighestAddress

ASSUME IdleTimeoutAssumption == IdleTimeout \in Nat \ {0}

Addresses == TunAddress .. HighestAddress

Ages == 0 .. IdleTimeout + 1

Older(age) == IF age <= IdleTimeout THEN age + 1 ELSE age

Messages == {"secret", "wrongSecret", "disconnect", "keepalive", "data"}

State == {"START", "CONNECTED", "DISCONNECTED", "ERROR"}

(* "DESTROYED" is no State of the code: it marks an object whose last      *)
(* shared_ptr is gone.                                                     *)
Handler == [external : Endpoints,
            address  : Addresses,
            state    : State \cup {"DESTROYED"},
            age      : Ages]

(* A fresh object: m_LastMessageTimestamp is the clock's epoch, long ago.  *)
NewHandler(e, a) ==
    [external |-> e, address |-> a, state |-> "START", age |-> IdleTimeout + 1]

Destroyed(h) == [h EXCEPT !.state = "DESTROYED", !.age = 0]

(* seeded bug: only a connected client is kept alive *)
HeardConnected(h) == IF h.state = "CONNECTED" THEN [h EXCEPT !.age = 0] ELSE h

(* Every datagram refreshes the timestamp, whatever the state.             *)
Heard(h) == [h EXCEPT !.age = 0]

Moved(h, s) == [h EXCEPT !.state = s]

(* seeded bug: the secret is accepted in every state *)
AdmitsAlways(h, m) == m = "secret"

(* The cases of handleDataFromClient that do something.                    *)
Admits(h, m)   == h.state = "START" /\ m = "secret"
Rejects(h, m)  == h.state = "START" /\ m \in {"wrongSecret", "disconnect"}
Leaves(h, m)   == h.state = "CONNECTED" /\ m = "disconnect"
Forwards(h, m) == h.state = "CONNECTED" /\ m \in {"secret", "wrongSecret", "data"}

(* seeded bug: the state is not looked at *)
IsSilent(h) == h.age > IdleTimeout

IsIdle(h) == h.state = "DISCONNECTED" \/ h.age > IdleTimeout
=============================================================================
