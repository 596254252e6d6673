---------------------------- MODULE TunnelProtocol ----------------------------
(***************************************************************************)
(* The tunnel between the app and the server: handshake() and              *)
(* forwardTraffic() of ToyVpnService.kt against the session table of       *)
(* ToyVpnServer.h, whose sessions are ClientHandler's, over a network that *)
(* loses, reorders and duplicates datagrams.  Clients leave without a word *)
(* and come back, from another port or from the same; the server forgets   *)
(* silent sessions, is stopped or killed, and started again.               *)
(*                                                                         *)
(* Clocks are left out: a session may be reaped whenever no datagram of a  *)
(* handshake of its endpoint is under way (a datagram lives for less than  *)
(* the 60 s of silence), and a handshake is given up only when nothing of  *)
(* it is under way (or for less than its 5 s).                             *)
(***************************************************************************)
EXTENDS ClientHandler, FiniteSets

CONSTANTS Clients, None,
          MaxAttempts,      \* bound: handshakes of all clients
          MaxLives,         \* bound: times the server is started
          MaxInFlight       \* bound: packets are sent only below it

ASSUME NoneAssumption == None \notin Handler

VARIABLES
    client,        \* of each app: where its coroutine is, its socket, its parameters
    open,          \* endpoints with an open channel
    attempts,
    up, life,      \* the server runs; how often it was started
    sessions,      \* m_Clients: endpoint -> session
    lastUsed,      \* m_LastUsedClientAddress
    net            \* datagrams under way

server == <<up, life, sessions, lastUsed>>
vars == <<client, open, attempts, server, net>>

(* spoiled: the first byte of the handshake's buffer is not 0.             *)
(* disturbed (history): something kept the handshake from its end.         *)
Off == [pc |-> "off", endpoint |-> None, address |-> 0, life |-> 0,
        spoiled |-> FALSE, disturbed |-> FALSE]

Datagram(to, e, what) == [to |-> to, endpoint |-> e, what |-> what,
                          address |-> 0, life |-> 0]
ToServer(e, what) == Datagram("server", e, what)
ToClient(e, what) == Datagram("client", e, what)
Params(h) == [ToClient(h.external, "params") EXCEPT !.address = h.address, !.life = life]

Init ==
    /\ client = [i \in Clients |-> Off] /\ open = {}
    /\ attempts = 0
    /\ up = TRUE /\ life = 1 /\ lastUsed = TunAddress
    /\ sessions = [e \in Endpoints |-> None]
    /\ net = {}

At(i, pc) == client[i].pc = pc
HandshakeAt(e) == {i \in Clients : At(i, "handshake") /\ client[i].endpoint = e}
Disturb(c, S) == [i \in Clients |-> IF i \in S /\ At(i, "handshake")
                                    THEN [c[i] EXCEPT !.disturbed = TRUE] ELSE c[i]]

(* A datagram that was read may come again. *)
Read(d) == d \in net /\ net' \in {net, net \ {d}}

-----------------------------------------------------------------------------
(* The app. *)

(* A channel from a port that no open channel has, and the secret, once.   *)
BeginHandshake(i, secret) ==
    /\ At(i, "off") /\ attempts < MaxAttempts
    /\ attempts' = attempts + 1
    /\ \E e \in Endpoints \ open :
          /\ open' = open \cup {e}
          /\ net' = net \cup {ToServer(e, secret)}
          /\ client' = [client EXCEPT ![i] = [Off EXCEPT !.pc = "handshake",
                 !.endpoint = e,
                 !.disturbed = \/ secret # "secret" \/ ~up \/ sessions[e] # None
                               \/ \E d \in net : d.endpoint = e]]
    /\ UNCHANGED server

(* The buffer is not cleared between reads: once its first byte is not 0,  *)
(* it stays so, and the parameters are not recognised.                     *)
Recognised(i) == ~client[i].spoiled

ReceiveParams(i, d) ==
    /\ At(i, "handshake") /\ d.what = "params" /\ Recognised(i)
    /\ client' = [client EXCEPT ![i].pc = "connected", ![i].address = d.address,
                                ![i].life = d.life, ![i].disturbed = FALSE]
    /\ UNCHANGED open

IgnoreControl(i, d) ==
    /\ At(i, "handshake") /\ d.what \in {"params", "disconnect"} /\ ~Recognised(i)
    /\ UNCHANGED <<client, open>>

ReceivePacketEarly(i, d) ==
    /\ At(i, "handshake") /\ d.what = "packet"
    /\ client' = [client EXCEPT ![i].spoiled = TRUE, ![i].disturbed = TRUE]
    /\ UNCHANGED open

(* DISCONNECT is no parameter string.  The channel stays open. *)
ParseFails(i, d) ==
    /\ At(i, "handshake") /\ d.what = "disconnect" /\ Recognised(i)
    /\ client' = [client EXCEPT ![i] = [Off EXCEPT !.disturbed = TRUE]]
    /\ UNCHANGED open

(* The loop writes packets to the interface, obeys DISCONNECT and passes   *)
(* over anything else that begins with 0.                                  *)
ForwardToInterface(i, d) ==
    /\ At(i, "connected") /\ d.what \in {"packet", "params"}
    /\ UNCHANGED <<client, open>>

ServerDisconnected(i, d) ==
    /\ At(i, "connected") /\ d.what = "disconnect"
    /\ client' = [client EXCEPT ![i].pc = "leaving"]
    /\ UNCHANGED open

Receive(i) == \E d \in net :
    /\ d.to = "client" /\ d.endpoint = client[i].endpoint /\ Read(d)
    /\ \/ ReceiveParams(i, d) \/ IgnoreControl(i, d) \/ ReceivePacketEarly(i, d)
       \/ ParseFails(i, d) \/ ForwardToInterface(i, d) \/ ServerDisconnected(i, d)
    /\ UNCHANGED <<attempts, server>>

HandshakeDatagrams == {"secret", "wrongSecret", "params"}
HandshakeUnderWay(e) ==
    \E d \in net : d.endpoint = e /\ d.what \in HandshakeDatagrams

(* After MAX_HANDSHAKE_ATTEMPTS reads.  The channel stays open. *)
HandshakeTimesOut(i) ==
    /\ At(i, "handshake") /\ ~HandshakeUnderWay(client[i].endpoint)
    /\ client' = [client EXCEPT ![i] = Off]
    /\ UNCHANGED <<open, attempts, server, net>>

(* A packet from the interface, or a keep-alive of an idle loop. *)
SendToServer(i) ==
    /\ client[i].pc \in {"connected", "leaving"} /\ Cardinality(net) < MaxInFlight
    /\ \E what \in {"data", "keepalive"} :
          net' = net \cup {ToServer(client[i].endpoint, what)}
    /\ UNCHANGED <<client, open, attempts, server>>

(* disconnectVpn(), by the user or after DISCONNECT: nothing is sent. *)
Leave(i) ==
    /\ client[i].pc \in {"connected", "leaving"}
    /\ client' = [client EXCEPT ![i] = Off]
    /\ open' = open \ {client[i].endpoint}
    /\ UNCHANGED <<attempts, server, net>>

-----------------------------------------------------------------------------
(* The server. *)

(* seeded bug: whoever sends the secret is taken for a new client *)
UnknownOrAgain(e, m) == sessions[e] = None \/ m = "secret"

Unknown(e, m) == sessions[e] = None

NextAddress == lastUsed + 1

(* The session after datagram m, and what it answers. *)
After(h, m) == LET g == Heard(h) IN
    IF Admits(h, m) THEN Moved(g, "CONNECTED")
    ELSE IF Rejects(h, m) THEN Moved(g, "ERROR") ELSE g

(* seeded bug: a session is admitted without an answer *)
NoAnswer(h, m) == {}

Answer(h, m) ==
    IF Admits(h, m) THEN {Params(h)} ELSE {}

HandleWith(h, d) ==
    /\ sessions' = [sessions EXCEPT ![d.endpoint] = After(h, d.what)]
    /\ net' \in {net \cup Answer(h, d.what), (net \ {d}) \cup Answer(h, d.what)}
    /\ UNCHANGED <<client, open, attempts, up, life>>

HandleClient(d) ==
    /\ up /\ d \in net /\ d.to = "server"
    /\ \/ /\ ~Unknown(d.endpoint, d.what)
          /\ HandleWith(sessions[d.endpoint], d)
          /\ UNCHANGED lastUsed
       \/ /\ Unknown(d.endpoint, d.what) /\ NextAddress # HighestAddress
          /\ HandleWith(NewHandler(d.endpoint, NextAddress), d)
          /\ lastUsed' = NextAddress

(* The server is gone, and every session with it. *)
Gone ==
    /\ up' = FALSE /\ sessions' = [e \in Endpoints |-> None]
    /\ client' = Disturb(client, Clients)
    /\ UNCHANGED <<open, attempts, life, lastUsed>>

OutOfAddresses(d) ==
    /\ up /\ d \in net /\ d.to = "server" /\ Unknown(d.endpoint, d.what)
    /\ NextAddress = HighestAddress
    /\ Gone /\ net' = net \ {d}

(* A packet for a client's address, whatever the state of its session. *)
HandleTunInterface(e) ==
    /\ up /\ sessions[e] # None /\ Cardinality(net) < MaxInFlight
    /\ net' = net \cup {ToClient(e, "packet")}
    /\ UNCHANGED <<client, open, attempts, server>>

Reap(e) ==
    /\ up /\ sessions[e] # None /\ ~HandshakeUnderWay(e)
    /\ sessions' = [sessions EXCEPT ![e] = None]
    /\ client' = Disturb(client, HandshakeAt(e))
    /\ UNCHANGED <<open, attempts, up, life, lastUsed, net>>

(* stop(): three copies to every connected session, of which any number    *)
(* arrives. *)
Stop ==
    /\ up /\ Gone
    /\ net' = net \cup {ToClient(e, "disconnect") :
                           e \in {f \in Endpoints : sessions[f] # None
                                                    /\ sessions[f].state = "CONNECTED"}}

Kill == up /\ Gone /\ UNCHANGED net

Start ==
    /\ ~up /\ life < MaxLives
    /\ up' = TRUE /\ life' = life + 1 /\ lastUsed' = TunAddress
    /\ UNCHANGED <<client, open, attempts, sessions, net>>

(* The network, or an endpoint nobody listens at.                          *)
Lose(d) ==
    /\ d \in net /\ net' = net \ {d}
    /\ client' = Disturb(client, HandshakeAt(d.endpoint))
    /\ UNCHANGED <<open, attempts, server>>

App(i) ==
    \/ BeginHandshake(i, "secret") \/ BeginHandshake(i, "wrongSecret")
    \/ Receive(i) \/ HandshakeTimesOut(i) \/ SendToServer(i) \/ Leave(i)

Server ==
    \/ \E d \in net : HandleClient(d) \/ OutOfAddresses(d)
    \/ \E e \in Endpoints : HandleTunInterface(e) \/ Reap(e)
    \/ Stop \/ Kill \/ Start

Next == (\E i \in Clients : App(i)) \/ Server \/ (\E d \in net : Lose(d))

Spec == Init /\ [][Next]_vars

(* The server reads its socket and the app its channel, which it gives up  *)
(* after a time.                                                           *)
Serve(e) == \E d \in net : /\ d.endpoint = e /\ d.what = "secret"
                          /\ (HandleClient(d) \/ OutOfAddresses(d))
ReadAnswer(i) == Receive(i) /\ client'[i].pc # "handshake"
FairSpec ==
    /\ Spec
    /\ \A e \in Endpoints : WF_vars(Serve(e))
    /\ \A i \in Clients : WF_vars(ReadAnswer(i)) /\ WF_vars(HandshakeTimesOut(i))

-----------------------------------------------------------------------------
(* Within one life of the server the two ends mean the same by an address: *)
(* a connected app is the only one that was told its address, no session   *)
(* of another endpoint gets that address's packets, even if the app's own  *)
(* session has been forgotten, and a session that forwards what the app    *)
(* sends has the app's address (handshake, handleClient, createVpnSettings,*)
(* checkIdleClients).                                                      *)
Current(i) == At(i, "connected") /\ up /\ client[i].life = life
EndsAgree == \A i \in Clients : Current(i) =>
    /\ \A j \in Clients \ {i} : Current(j) => client[j].address # client[i].address
    /\ \A e \in Endpoints : sessions[e] # None =>
          IF e # client[i].endpoint THEN sessions[e].address # client[i].address
          ELSE sessions[e].state = "CONNECTED" =>
                   sessions[e].address = client[i].address

(* A handshake comes to its end with the parameters, unless a datagram is  *)
(* lost, the server goes, the secret is wrong, the endpoint has been used  *)
(* before and is still known, or a packet or DISCONNECT comes first: there *)
(* is no other reason, although the secret is sent only once (handshake).  *)
HandshakeCompletes ==
    \A i \in Clients : At(i, "handshake") ~> (At(i, "connected") \/ client[i].disturbed)
=============================================================================
