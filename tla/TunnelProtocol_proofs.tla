------------------------ MODULE TunnelProtocol_proofs ------------------------
(***************************************************************************)
(* Proofs about TunnelProtocol, for any number of apps, endpoints,         *)
(* datagrams, handshakes and lives of the server, over a network that      *)
(* loses, reorders and duplicates: the two ends agree on addresses.        *)
(***************************************************************************)
EXTENDS TunnelProtocol, TLAPS

Apps == [pc : {"off", "handshake", "connected", "leaving"},
         endpoint : Endpoints \cup {None}, address : Int, life : Nat,
         spoiled : BOOLEAN, disturbed : BOOLEAN]

Datagrams == [to : {"server", "client"}, endpoint : Endpoints,
              what : {"secret", "wrongSecret", "data", "keepalive", "params",
                      "packet", "disconnect"},
              address : Int, life : Nat]

TunnelTypeOK ==
    /\ client \in [Clients -> Apps] /\ open \in SUBSET Endpoints
    /\ attempts \in Nat /\ up \in BOOLEAN /\ life \in Nat \ {0}
    /\ lastUsed \in TunAddress .. HighestAddress - 1
    /\ sessions \in [Endpoints -> Handler \cup {None}]
    /\ net \in SUBSET Datagrams

(* An app that is not off has an open channel of its own; what has been    *)
(* sent or understood is of this life of the server or of an earlier one.  *)
ChannelInv ==
    /\ \A i \in Clients : client[i].pc # "off" => client[i].endpoint \in open
    /\ \A i, j \in Clients :
         (client[i].pc # "off" /\ client[i].endpoint = client[j].endpoint
            /\ client[j].pc # "off") => i = j
    /\ \A i \in Clients : client[i].life <= life
    /\ \A d \in net : d.life <= life
    /\ \A e \in Endpoints : sessions[e] # None => up /\ sessions[e].external = e

(* An address is given to one endpoint, in ascending order, and no other   *)
(* endpoint gets it while an app uses it.                                  *)
AddressInv ==
    /\ \A e \in Endpoints : sessions[e] # None => sessions[e].address <= lastUsed
    /\ \A e, f \in Endpoints :
         (sessions[e] # None /\ sessions[f] # None
            /\ sessions[e].address = sessions[f].address) => e = f
    /\ \A i \in Clients : Current(i) =>
         /\ client[i].address <= lastUsed
         /\ \A e \in Endpoints :
              (sessions[e] # None /\ sessions[e].address = client[i].address)
                 => e = client[i].endpoint
         /\ \A j \in Clients :
              (Current(j) /\ client[j].address = client[i].address) => i = j

(* Parameters under way are those of a session that is still there.        *)
ParamsInv ==
    \A d \in net : (d.what = "params" /\ d.life = life /\ up) =>
        /\ sessions[d.endpoint] # None
        /\ sessions[d.endpoint].state = "CONNECTED"
        /\ sessions[d.endpoint].address = d.address

(* The server knows a connected app as the app does, or has forgotten it,  *)
(* and then nothing can make it a client again behind its back.            *)
Agreed(i) == LET e == client[i].endpoint IN
    /\ sessions[e] # None /\ sessions[e].state = "CONNECTED"
    /\ sessions[e].address = client[i].address

Forgotten(i) == LET e == client[i].endpoint IN
    /\ sessions[e] # None => sessions[e].state # "CONNECTED"
    /\ \A d \in net : d.endpoint = e => d.what # "secret"

AgreementInv == \A i \in Clients : Current(i) => Agreed(i) \/ Forgotten(i)

IInv == /\ TunnelTypeOK /\ ChannelInv /\ AddressInv /\ ParamsInv /\ AgreementInv

-----------------------------------------------------------------------------
(* What a datagram does to a session: it stays where it is, and becomes a  *)
(* client's only by the secret.                                            *)
LEMMA AfterDatagram ==
  ASSUME NEW h \in Handler, NEW m
  PROVE  /\ After(h, m) \in Handler /\ After(h, m) # None
         /\ After(h, m).address = h.address /\ After(h, m).external = h.external
         /\ h.state = "CONNECTED" => After(h, m).state = "CONNECTED"
         /\ After(h, m).state = "CONNECTED" => h.state = "CONNECTED" \/ m = "secret"
         /\ Answer(h, m) # {} => Answer(h, m) = {Params(h)} /\ After(h, m).state = "CONNECTED"
  <1> DEFINE g == Heard(h)
  <1>1. /\ g \in Handler /\ g.address = h.address /\ g.external = h.external
        /\ g.state = h.state
    BY IdleTimeoutAssumption DEF Heard, Handler, Ages
  <1>2. \A s \in State : /\ Moved(g, s) \in Handler /\ Moved(g, s).address = h.address
                         /\ Moved(g, s).external = h.external /\ Moved(g, s).state = s
    BY <1>1 DEF Moved, Handler
  <1>3. {"START", "CONNECTED", "ERROR"} \subseteq State
    BY DEF State
  <1> HIDE DEF g
  <1>4. CASE Admits(h, m)
    <2>1. After(h, m) = Moved(g, "CONNECTED") /\ h.state = "START" /\ m = "secret"
      BY <1>4 DEF After, Admits, g
    <2>2. Answer(h, m) = {Params(h)}
      BY <1>4 DEF Answer
    <2> QED
      BY <1>2, <1>3, <2>1, <2>2, NoneAssumption
  <1>5. CASE ~Admits(h, m)
    <2>1. Answer(h, m) = {}
      BY <1>5 DEF Answer
    <2>2. CASE Rejects(h, m)
      <3>1. After(h, m) = Moved(g, "ERROR") /\ h.state = "START"
        BY <1>5, <2>2 DEF After, Rejects, g
      <3> QED
        BY <1>2, <1>3, <2>1, <3>1, NoneAssumption
    <2>3. CASE ~Rejects(h, m)
      <3>1. After(h, m) = g
        BY <1>5, <2>3 DEF After, g
      <3> QED
        BY <1>1, <2>1, <3>1, NoneAssumption
    <2> QED
      BY <2>2, <2>3
  <1> QED
    BY <1>4, <1>5

(* handleClient, in terms of the session h the datagram finds, or creates  *)
(* with the next address, and the session g it leaves.                     *)
Handles(d, h, g) ==
    /\ up /\ d.to = "server"
    /\ sessions' = [sessions EXCEPT ![d.endpoint] = g]
    /\ g # None /\ g.address = h.address /\ g.external = h.external
    /\ h.external = d.endpoint
    /\ \/ sessions[d.endpoint] # None /\ h = sessions[d.endpoint] /\ lastUsed' = lastUsed
       \/ /\ sessions[d.endpoint] = None /\ h.state = "START"
          /\ h.address = lastUsed + 1 /\ lastUsed' = lastUsed + 1
          /\ lastUsed + 1 # HighestAddress
    /\ h.state = "CONNECTED" => g.state = "CONNECTED"
    /\ g.state = "CONNECTED" => h.state = "CONNECTED" \/ d.what = "secret"
    /\ net' \subseteq net \cup {Params(h)}
    /\ \A x \in net' : x \in net \/ (x = Params(h) /\ g.state = "CONNECTED")
    /\ UNCHANGED <<client, open, attempts, up, life>>

(* handleClient does no more than that.                                    *)
LEMMA HandleClientIs ==
  ASSUME TunnelTypeOK, ChannelInv, NEW d \in net, HandleClient(d)
  PROVE  \E h, g \in Handler : Handles(d, h, g)
  <1>1. d.endpoint \in Endpoints
    BY DEF TunnelTypeOK, Datagrams
  <1>2. ASSUME NEW h \in Handler, HandleWith(h, d)
        PROVE  /\ \A x \in net' : x \in net \/ (x = Params(h) /\ After(h, d.what).state = "CONNECTED")
               /\ sessions' = [sessions EXCEPT ![d.endpoint] = After(h, d.what)]
               /\ UNCHANGED <<client, open, attempts, up, life>>
    <2>1. \/ net' = net \cup Answer(h, d.what)
          \/ net' = (net \ {d}) \cup Answer(h, d.what)
      BY <1>2 DEF HandleWith
    <2>2. Answer(h, d.what) = {} \/ Answer(h, d.what) = {Params(h)}
      BY AfterDatagram
    <2>3. Answer(h, d.what) # {} => After(h, d.what).state = "CONNECTED"
      BY AfterDatagram
    <2> QED
      BY <1>2, <2>1, <2>2, <2>3 DEF HandleWith
  <1>3. CASE ~Unknown(d.endpoint, d.what)
    <2> DEFINE h == sessions[d.endpoint]
    <2>1. h \in Handler /\ h # None /\ h.external = d.endpoint
      BY <1>1, <1>3 DEF Unknown, TunnelTypeOK, ChannelInv
    <2>2. HandleWith(h, d) /\ lastUsed' = lastUsed /\ up /\ d.to = "server"
      BY <1>3 DEF HandleClient
    <2>3. Handles(d, h, After(h, d.what))
      BY <1>2, <2>1, <2>2, AfterDatagram DEF Handles
    <2> QED
      BY <2>1, <2>3, AfterDatagram
  <1>4. CASE Unknown(d.endpoint, d.what)
    <2> DEFINE h == NewHandler(d.endpoint, NextAddress)
    <2>1. h \in Handler /\ h.state = "START" /\ h.address = lastUsed + 1 /\ h.external = d.endpoint
      BY <1>1, <1>4, NetworkAssumption, IdleTimeoutAssumption
      DEF NewHandler, NextAddress, Handler, State, Addresses, Ages, TunnelTypeOK
    <2>2. /\ HandleWith(h, d) /\ lastUsed' = lastUsed + 1 /\ lastUsed + 1 # HighestAddress
          /\ up /\ d.to = "server" /\ sessions[d.endpoint] = None
      BY <1>4 DEF HandleClient, Unknown, NextAddress
    <2> HIDE DEF h
    <2>3. Handles(d, h, After(h, d.what))
      <3>1. /\ \A x \in net' : x \in net \/ (x = Params(h) /\ After(h, d.what).state = "CONNECTED")
            /\ sessions' = [sessions EXCEPT ![d.endpoint] = After(h, d.what)]
            /\ UNCHANGED <<client, open, attempts, up, life>>
        BY <1>2, <2>1, <2>2
      <3>2. /\ After(h, d.what) # None
            /\ After(h, d.what).address = h.address /\ After(h, d.what).external = h.external
            /\ h.state = "CONNECTED" => After(h, d.what).state = "CONNECTED"
            /\ After(h, d.what).state = "CONNECTED" => h.state = "CONNECTED" \/ d.what = "secret"
        BY <2>1, AfterDatagram
      <3> QED
        BY <2>1, <2>2, <3>1, <3>2 DEF Handles
    <2> QED
      BY <2>1, <2>3, AfterDatagram
  <1> QED
    BY <1>3, <1>4

-----------------------------------------------------------------------------
(* A handshake that is disturbed is disturbed, and nothing else.           *)
SameApp(i) ==
    /\ client'[i] \in Apps /\ client'[i].pc = client[i].pc
    /\ client'[i].endpoint = client[i].endpoint
    /\ client'[i].address = client[i].address /\ client'[i].life = client[i].life

(* Disturb changes what is remembered of a handshake only.                 *)
LEMMA DisturbedApps ==
  ASSUME TunnelTypeOK, NEW S, client' = Disturb(client, S)
  PROVE  client' \in [Clients -> Apps] /\ \A i \in Clients : SameApp(i)
  <1>1. \A i \in Clients : SameApp(i)
    BY DEF TunnelTypeOK, Disturb, Apps, SameApp
  <1> QED
    BY <1>1 DEF SameApp, Disturb

(* An app that is off is an app.                                           *)
LEMMA OffIsApp == Off \in Apps /\ Off.pc = "off" /\ Off.life = 0
  BY DEF Off, Apps

(* An app reads: it connects with the parameters it reads, or is connected *)
(* to what it was connected to, or not connected.                          *)
Reads(i, d) ==
    /\ d.to = "client" /\ d.endpoint = client[i].endpoint
    /\ \E a \in Apps :
         /\ client' = [client EXCEPT ![i] = a]
         /\ client[i].pc # "off"
         /\ a.pc # "off" => a.endpoint = client[i].endpoint
         /\ \/ /\ client[i].pc = "handshake" /\ a.pc = "connected" /\ d.what = "params"
               /\ a.address = d.address /\ a.life = d.life
            \/ a = client[i]
            \/ a.pc # "connected" /\ a.life \in {0, client[i].life}
    /\ net' \subseteq net
    /\ UNCHANGED <<open, attempts, server>>

(* Whatever is read, in whatever state, is one of these cases.             *)
LEMMA ReceiveIs ==
  ASSUME TunnelTypeOK, NEW i \in Clients, Receive(i)
  PROVE  \E d \in net : Reads(i, d)
  <1> PICK d \in net :
        /\ d.to = "client" /\ d.endpoint = client[i].endpoint /\ Read(d)
        /\ \/ ReceiveParams(i, d) \/ IgnoreControl(i, d) \/ ReceivePacketEarly(i, d)
           \/ ParseFails(i, d) \/ ForwardToInterface(i, d) \/ ServerDisconnected(i, d)
        /\ UNCHANGED <<attempts, server>>
    BY DEF Receive
  <1>1. client[i] \in Apps /\ d \in Datagrams /\ client \in [Clients -> Apps]
    BY DEF TunnelTypeOK
  <1>2. net' \subseteq net
    BY DEF Read
  <1>3. CASE ReceiveParams(i, d)
    <2> DEFINE a == [client[i] EXCEPT !.pc = "connected", !.address = d.address,
                                      !.life = d.life, !.disturbed = FALSE]
    <2>1. a \in Apps /\ client' = [client EXCEPT ![i] = a]
      BY <1>1, <1>3 DEF ReceiveParams, Apps, Datagrams
    <2>2. a.pc = "connected" /\ a.endpoint = client[i].endpoint
          /\ a.address = d.address /\ a.life = d.life
      BY <1>1 DEF Apps
    <2>3. client[i].pc = "handshake" /\ d.what = "params" /\ UNCHANGED open
      BY <1>3 DEF ReceiveParams, At
    <2> HIDE DEF a
    <2> QED
      BY <1>2, <2>1, <2>2, <2>3 DEF Reads
  <1>4. CASE IgnoreControl(i, d) \/ ForwardToInterface(i, d)
    <2>1. client' = [client EXCEPT ![i] = client[i]] /\ client[i].pc # "off" /\ UNCHANGED open
      BY <1>1, <1>4 DEF IgnoreControl, ForwardToInterface, At
    <2> QED
      BY <1>1, <1>2, <2>1 DEF Reads
  <1>5. CASE ReceivePacketEarly(i, d)
    <2> DEFINE a == [client[i] EXCEPT !.spoiled = TRUE, !.disturbed = TRUE]
    <2>1. a \in Apps /\ client' = [client EXCEPT ![i] = a]
      BY <1>1, <1>5 DEF ReceivePacketEarly, Apps
    <2>2. a.pc = client[i].pc /\ a.endpoint = client[i].endpoint /\ a.life = client[i].life
      BY <1>1 DEF Apps
    <2>3. client[i].pc = "handshake" /\ UNCHANGED open
      BY <1>5 DEF ReceivePacketEarly, At
    <2> HIDE DEF a
    <2> QED
      BY <1>2, <2>1, <2>2, <2>3 DEF Reads
  <1>6. CASE ParseFails(i, d)
    <2> DEFINE a == [Off EXCEPT !.disturbed = TRUE]
    <2>2. a \in Apps /\ a.pc = "off" /\ a.life = 0
      BY OffIsApp DEF Apps
    <2>3. client' = [client EXCEPT ![i] = a]
      BY <1>6 DEF ParseFails
    <2>4. client[i].pc = "handshake" /\ UNCHANGED open
      BY <1>6 DEF ParseFails, At
    <2> HIDE DEF a
    <2> QED
      BY <1>2, <2>2, <2>3, <2>4 DEF Reads
  <1>7. CASE ServerDisconnected(i, d)
    <2> DEFINE a == [client[i] EXCEPT !.pc = "leaving"]
    <2>1. a \in Apps /\ client' = [client EXCEPT ![i] = a]
      BY <1>1, <1>7 DEF ServerDisconnected, Apps
    <2>2. a.pc = "leaving" /\ a.endpoint = client[i].endpoint /\ a.life = client[i].life
      BY <1>1 DEF Apps
    <2>3. client[i].pc = "connected" /\ UNCHANGED open
      BY <1>7 DEF ServerDisconnected, At
    <2> HIDE DEF a
    <2> QED
      BY <1>2, <2>1, <2>2, <2>3 DEF Reads
  <1> QED
    BY <1>3, <1>4, <1>5, <1>6, <1>7

(* An app begins: a new channel, and one datagram.                         *)
Begins(i, e, d) ==
    /\ client[i].pc = "off" /\ e \in Endpoints \ open /\ open' = open \cup {e}
    /\ d \in Datagrams /\ d.endpoint = e /\ d.life = 0 /\ d.what # "params"
    /\ net' = net \cup {d} /\ attempts' = attempts + 1
    /\ \E a \in Apps : /\ client' = [client EXCEPT ![i] = a]
                      /\ a.pc = "handshake" /\ a.endpoint = e /\ a.life = 0
    /\ UNCHANGED server

(* handshake() up to its first read is such a beginning.                   *)
LEMMA BeginHandshakeIs ==
  ASSUME TunnelTypeOK, NEW i \in Clients, NEW secret \in {"secret", "wrongSecret"},
         BeginHandshake(i, secret)
  PROVE  \E e, d : Begins(i, e, d)
  <1> DEFINE Disturbs(e) == \/ secret # "secret" \/ ~up \/ sessions[e] # None
                            \/ \E d \in net : d.endpoint = e
  <1>1. PICK e \in Endpoints \ open :
          /\ open' = open \cup {e} /\ net' = net \cup {ToServer(e, secret)}
          /\ client' = [client EXCEPT ![i] =
                [Off EXCEPT !.pc = "handshake", !.endpoint = e, !.disturbed = Disturbs(e)]]
    BY DEF BeginHandshake
  <1> DEFINE a == [Off EXCEPT !.pc = "handshake", !.endpoint = e, !.disturbed = Disturbs(e)]
  <1>2. Disturbs(e) \in BOOLEAN
    OBVIOUS
  <1> HIDE DEF Disturbs
  <1>3. ASSUME NEW b \in BOOLEAN
        PROVE  LET c == [Off EXCEPT !.pc = "handshake", !.endpoint = e, !.disturbed = b]
               IN  c \in Apps /\ c.pc = "handshake" /\ c.endpoint = e /\ c.life = 0
    BY OffIsApp DEF Apps
  <1>4. a \in Apps /\ a.pc = "handshake" /\ a.endpoint = e /\ a.life = 0
    BY <1>2, <1>3
  <1>5. client' = [client EXCEPT ![i] = a]
    BY <1>1
  <1>6. /\ ToServer(e, secret) \in Datagrams /\ ToServer(e, secret).endpoint = e
        /\ ToServer(e, secret).life = 0 /\ ToServer(e, secret).what = secret
    BY DEF ToServer, Datagram, Datagrams
  <1> HIDE DEF a
  <1>7. client[i].pc = "off" /\ attempts' = attempts + 1 /\ UNCHANGED server
    BY DEF BeginHandshake, At
  <1>8. Begins(i, e, ToServer(e, secret))
    BY <1>1, <1>4, <1>5, <1>6, <1>7 DEF Begins
  <1> QED
    BY <1>8

(* Datagrams that are no part of a handshake. *)
Sends(D) == /\ net' = net \cup D
            /\ D \subseteq {d \in Datagrams : d.life = 0 /\ d.what \notin HandshakeDatagrams}

(* So are packets, keep-alives and DISCONNECTs, either way.                *)
LEMMA Sent ==
  ASSUME NEW e \in Endpoints
  PROVE  \A what \in {"data", "keepalive", "packet", "disconnect"} :
           \A d \in {ToServer(e, what), ToClient(e, what)} :
             d \in Datagrams /\ d.life = 0 /\ d.what \notin HandshakeDatagrams
  BY DEF ToServer, ToClient, Datagram, Datagrams, HandshakeDatagrams

(* Every step is one of these. *)
LEMMA Steps ==
  ASSUME IInv, [Next]_vars
  PROVE  \/ \E i \in Clients : \E e, d : Begins(i, e, d)
         \/ \E i \in Clients, d \in net : Reads(i, d)
         \/ \E i \in Clients :
               /\ client' = [client EXCEPT ![i] = Off] /\ net' = net /\ UNCHANGED <<attempts, server>>
               /\ open' = open \/ (client[i].pc # "off" /\ open' = open \ {client[i].endpoint})
         \/ (\E D : Sends(D)) /\ UNCHANGED <<client, open, attempts, server>>
         \/ \E d \in net, h, g \in Handler : Handles(d, h, g)
         \/ \E D : Gone /\ (Sends(D) \/ net' \subseteq net)
         \/ \E e \in Endpoints : Reap(e)
         \/ Start
         \/ \E d \in net : Lose(d)
         \/ UNCHANGED vars
  <1> USE DEF IInv
  <1>1. CASE \E i \in Clients : App(i)
    <2> PICK i \in Clients : App(i)
      BY <1>1
    <2>1. CASE BeginHandshake(i, "secret") \/ BeginHandshake(i, "wrongSecret")
      BY <2>1, BeginHandshakeIs
    <2>2. CASE Receive(i)
      BY <2>2, ReceiveIs
    <2>3. CASE HandshakeTimesOut(i)
      BY <2>3 DEF HandshakeTimesOut
    <2>4. CASE SendToServer(i)
      <3>1. client[i].endpoint \in Endpoints
        BY <2>4 DEF SendToServer, ChannelInv, TunnelTypeOK
      <3>2. PICK what \in {"data", "keepalive"} : net' = net \cup {ToServer(client[i].endpoint, what)}
        BY <2>4 DEF SendToServer
      <3>3. Sends({ToServer(client[i].endpoint, what)})
        BY <3>1, <3>2, Sent DEF Sends
      <3> QED
        BY <2>4, <3>3 DEF SendToServer
    <2>5. CASE Leave(i)
      <3>1. client[i].pc # "off"
        BY <2>5 DEF Leave
      <3> QED
        BY <2>5, <3>1 DEF Leave
    <2> QED
      BY <2>1, <2>2, <2>3, <2>4, <2>5 DEF App
  <1>2. CASE Server
    <2>1. CASE \E d \in net : HandleClient(d)
      BY <2>1, HandleClientIs
    <2>2. CASE \E d \in net : OutOfAddresses(d)
      BY <2>2 DEF OutOfAddresses
    <2>3. CASE \E e \in Endpoints : HandleTunInterface(e)
      <3>1. PICK e \in Endpoints : HandleTunInterface(e)
        BY <2>3
      <3>2. Sends({ToClient(e, "packet")})
        BY <3>1, Sent DEF HandleTunInterface, Sends
      <3> QED
        BY <3>1, <3>2 DEF HandleTunInterface
    <2>4. CASE Stop
      <3> DEFINE D == {ToClient(e, "disconnect") :
                         e \in {f \in Endpoints : sessions[f] # None
                                                  /\ sessions[f].state = "CONNECTED"}}
      <3>1. Sends(D) /\ Gone
        BY <2>4, Sent DEF Stop, Sends
      <3> QED
        BY <3>1
    <2>5. CASE Kill
      BY <2>5 DEF Kill
    <2> QED
      BY <1>2, <2>1, <2>2, <2>3, <2>4, <2>5 DEF Server
  <1> QED
    BY <1>1, <1>2 DEF Next

-----------------------------------------------------------------------------
(* Every step keeps the types. *)
LEMMA TypeStep ==
  ASSUME IInv, [Next]_vars
  PROVE  TunnelTypeOK'
  <1> USE DEF IInv, TunnelTypeOK
  <1>1. CASE \E i \in Clients : \E e, d : Begins(i, e, d)
    <2> PICK i \in Clients : \E e, d : Begins(i, e, d)
      BY <1>1
    <2> PICK e, d : Begins(i, e, d)
      OBVIOUS
    <2> QED
      BY DEF Begins, server
  <1>2. CASE \E i \in Clients, d \in net : Reads(i, d)
    <2> PICK i \in Clients, d \in net : Reads(i, d)
      BY <1>2
    <2> QED
      BY DEF Reads, server
  <1>3. CASE \E i \in Clients :
               /\ client' = [client EXCEPT ![i] = Off] /\ net' = net /\ UNCHANGED <<attempts, server>>
               /\ open' = open \/ (client[i].pc # "off" /\ open' = open \ {client[i].endpoint})
    BY <1>3, OffIsApp DEF server
  <1>4. CASE (\E D : Sends(D)) /\ UNCHANGED <<client, open, attempts, server>>
    BY <1>4 DEF Sends, server, HandshakeDatagrams
  <1>5. CASE \E d \in net, h, g \in Handler : Handles(d, h, g)
    <2> PICK d \in net, h \in Handler, g \in Handler : Handles(d, h, g)
      BY <1>5
    <2> QED
      <3>1. d.endpoint \in Endpoints /\ h.external = d.endpoint /\ h.address \in Int
        BY NetworkAssumption DEF Handles, Datagrams, Handler, Addresses
      <3>2. Params(h) \in Datagrams
        BY <3>1 DEF Params, ToClient, Datagram, Datagrams
      <3>3. net' \in SUBSET Datagrams
        BY <3>2 DEF Handles
      <3>4. sessions' \in [Endpoints -> Handler \cup {None}]
        BY DEF Handles
      <3>5. lastUsed' \in TunAddress .. HighestAddress - 1
        BY NetworkAssumption DEF Handles
      <3> QED
        BY <3>3, <3>4, <3>5 DEF Handles
  <1>6. CASE \E D : Gone /\ (Sends(D) \/ net' \subseteq net)
    <2>1. client' \in [Clients -> Apps] /\ \A i \in Clients : SameApp(i)
      BY <1>6, DisturbedApps DEF Gone
    <2> QED
      BY <1>6, <2>1 DEF Gone, Sends, SameApp, HandshakeDatagrams
  <1>7. CASE \E e \in Endpoints : Reap(e)
    <2> PICK e \in Endpoints : Reap(e)
      BY <1>7
    <2>1. client' \in [Clients -> Apps] /\ \A i \in Clients : SameApp(i)
      BY DisturbedApps DEF Reap
    <2> QED
      BY <2>1 DEF Reap, SameApp
  <1>8. CASE Start
    <2>1. TunAddress \in TunAddress .. HighestAddress - 1 /\ life + 1 \in Nat \ {0}
      BY NetworkAssumption
    <2>2. /\ up' = TRUE /\ life' = life + 1 /\ lastUsed' = TunAddress
          /\ UNCHANGED <<client, open, attempts, sessions, net>>
      BY <1>8 DEF Start
    <2> QED
      BY <2>1, <2>2
  <1>9. CASE \E d \in net : Lose(d)
    <2> PICK d \in net : Lose(d)
      BY <1>9
    <2>1. client' \in [Clients -> Apps] /\ \A i \in Clients : SameApp(i)
      BY DisturbedApps DEF Lose
    <2> QED
      BY <2>1 DEF Lose, SameApp, server
  <1>10. CASE UNCHANGED vars
    BY <1>10 DEF vars, server
  <1> HIDE DEF IInv, TunnelTypeOK
  <1> QED
    BY Steps, <1>1, <1>2, <1>3, <1>4, <1>5, <1>6, <1>7, <1>8, <1>9, <1>10

(* Every app keeps a channel of its own. *)
LEMMA ChannelStep ==
  ASSUME IInv, [Next]_vars
  PROVE  ChannelInv'
  <1> USE DEF IInv, TunnelTypeOK, ChannelInv
  <1>1. CASE \E i \in Clients : \E e, d : Begins(i, e, d)
    <2> PICK i \in Clients : \E e, d : Begins(i, e, d)
      BY <1>1
    <2> PICK e, d : Begins(i, e, d)
      OBVIOUS
    <2> QED
      BY DEF Begins, server
  <1>2. CASE \E i \in Clients, d \in net : Reads(i, d)
    <2> PICK i \in Clients, d \in net : Reads(i, d)
      BY <1>2
    <2> QED
      BY DEF Reads, server
  <1>3. CASE \E i \in Clients :
               /\ client' = [client EXCEPT ![i] = Off] /\ net' = net /\ UNCHANGED <<attempts, server>>
               /\ open' = open \/ (client[i].pc # "off" /\ open' = open \ {client[i].endpoint})
    BY <1>3, OffIsApp DEF server
  <1>4. CASE (\E D : Sends(D)) /\ UNCHANGED <<client, open, attempts, server>>
    BY <1>4 DEF Sends, server, HandshakeDatagrams
  <1>5. CASE \E d \in net, h, g \in Handler : Handles(d, h, g)
    <2> PICK d \in net, h \in Handler, g \in Handler : Handles(d, h, g)
      BY <1>5
    <2> QED
      <3>1. \A x \in net' : x.life <= life
        <4>1. Params(h).life = life /\ life <= life
          BY DEF Params, ToClient, Datagram
        <4> QED
          BY <4>1 DEF Handles
      <3>2. \A e \in Endpoints : sessions'[e] # None => up /\ sessions'[e].external = e
        BY DEF Handles
      <3> QED
        BY <3>1, <3>2 DEF Handles
  <1>6. CASE \E D : Gone /\ (Sends(D) \/ net' \subseteq net)
    <2>1. client' \in [Clients -> Apps] /\ \A i \in Clients : SameApp(i)
      BY <1>6, DisturbedApps DEF Gone
    <2> QED
      BY <1>6, <2>1 DEF Gone, Sends, SameApp, HandshakeDatagrams
  <1>7. CASE \E e \in Endpoints : Reap(e)
    <2> PICK e \in Endpoints : Reap(e)
      BY <1>7
    <2>1. client' \in [Clients -> Apps] /\ \A i \in Clients : SameApp(i)
      BY DisturbedApps DEF Reap
    <2> QED
      BY <2>1 DEF Reap, SameApp
  <1>8. CASE Start
    BY <1>8 DEF Start, Apps, Datagrams
  <1>9. CASE \E d \in net : Lose(d)
    <2> PICK d \in net : Lose(d)
      BY <1>9
    <2>1. client' \in [Clients -> Apps] /\ \A i \in Clients : SameApp(i)
      BY DisturbedApps DEF Lose
    <2> QED
      BY <2>1 DEF Lose, SameApp, server
  <1>10. CASE UNCHANGED vars
    BY <1>10 DEF vars, server
  <1> HIDE DEF IInv, TunnelTypeOK, ChannelInv
  <1> QED
    BY Steps, <1>1, <1>2, <1>3, <1>4, <1>5, <1>6, <1>7, <1>8, <1>9, <1>10

(* No address is given twice. *)
LEMMA AddressStep ==
  ASSUME IInv, [Next]_vars
  PROVE  AddressInv'
  <1> USE DEF IInv, TunnelTypeOK, ChannelInv, AddressInv, Current, At
  <1>1. CASE \E i \in Clients : \E e, d : Begins(i, e, d)
    <2> PICK i \in Clients : \E e, d : Begins(i, e, d)
      BY <1>1
    <2> PICK e, d : Begins(i, e, d)
      OBVIOUS
    <2> QED
      BY DEF Begins, server
  <1>2. CASE \E i \in Clients, d \in net : Reads(i, d)
    <2> PICK i \in Clients, d \in net : Reads(i, d)
      BY <1>2
    <2> QED
      <3> PICK a \in Apps :
             /\ client' = [client EXCEPT ![i] = a]
             /\ client[i].pc # "off"
             /\ a.pc # "off" => a.endpoint = client[i].endpoint
             /\ \/ /\ client[i].pc = "handshake" /\ a.pc = "connected" /\ d.what = "params"
                   /\ a.address = d.address /\ a.life = d.life
                \/ a = client[i]
                \/ a.pc # "connected" /\ a.life \in {0, client[i].life}
        BY DEF Reads
      <3>1. UNCHANGED server /\ d.endpoint = client[i].endpoint /\ d.endpoint \in Endpoints
        BY DEF Reads, Datagrams
      <3>2. \A k \in Clients \ {i} : client'[k] = client[k] /\ (Current(k)' <=> Current(k))
        BY <3>1 DEF server
      <3>3. client'[i] = a
        OBVIOUS
      <3>4. CASE a.pc = "connected" /\ d.what = "params" /\ a.address = d.address
                 /\ a.life = d.life /\ client[i].pc = "handshake" /\ a.life = life /\ up
        <4>1. sessions[d.endpoint] # None /\ sessions[d.endpoint].address = a.address
              /\ a.endpoint = d.endpoint
          BY <3>1, <3>4 DEF ParamsInv
        <4>2. a.address <= lastUsed
          BY <3>1, <4>1
        <4>3. \A e \in Endpoints : (sessions[e] # None /\ sessions[e].address = a.address)
                                     => e = a.endpoint
          BY <3>1, <4>1
        <4>4. \A j \in Clients \ {i} : Current(j) => client[j].address # a.address
          <5>1. SUFFICES ASSUME NEW j \in Clients \ {i}, Current(j), client[j].address = a.address
                         PROVE  FALSE
            OBVIOUS
          <5>2. d.endpoint = client[j].endpoint
            BY <3>1, <4>1, <5>1
          <5> QED
            BY <3>1, <3>4, <5>1, <5>2
        <4> QED
          BY <3>1, <3>2, <3>3, <4>2, <4>3, <4>4 DEF server
      <3>5. CASE a = client[i] \/ a.pc # "connected" \/ a.life # life \/ ~up
        BY <3>1, <3>2, <3>3, <3>5 DEF server
      <3> QED
        BY <3>4, <3>5
  <1>3. CASE \E i \in Clients :
               /\ client' = [client EXCEPT ![i] = Off] /\ net' = net /\ UNCHANGED <<attempts, server>>
               /\ open' = open \/ (client[i].pc # "off" /\ open' = open \ {client[i].endpoint})
    BY <1>3, OffIsApp DEF server
  <1>4. CASE (\E D : Sends(D)) /\ UNCHANGED <<client, open, attempts, server>>
    BY <1>4 DEF Sends, server, HandshakeDatagrams
  <1>5. CASE \E d \in net, h, g \in Handler : Handles(d, h, g)
    <2> PICK d \in net, h \in Handler, g \in Handler : Handles(d, h, g)
      BY <1>5
    <2> QED
      <3>1. CASE sessions[d.endpoint] # None
        <4>1. /\ \A e \in Endpoints : /\ sessions'[e] # None <=> sessions[e] # None
                                     /\ sessions'[e].address = sessions[e].address
              /\ lastUsed' = lastUsed /\ UNCHANGED <<client, up, life>>
          BY <3>1 DEF Handles
        <4> QED
          BY <4>1
      <3>2. CASE sessions[d.endpoint] = None
        <4>1. /\ \A e \in Endpoints \ {d.endpoint} : sessions'[e] = sessions[e]
              /\ sessions'[d.endpoint].address = lastUsed + 1
              /\ lastUsed' = lastUsed + 1 /\ UNCHANGED <<client, up, life>>
          BY <3>2 DEF Handles, Datagrams
        <4>2. \A e \in Endpoints : sessions[e] # None =>
                 sessions[e].address \in Int /\ sessions[e].address < lastUsed + 1
          BY NetworkAssumption DEF Handler, Addresses
        <4>3. \A i \in Clients : Current(i) => client[i].address < lastUsed + 1
          BY NetworkAssumption DEF Apps
        <4>4. \A e \in Endpoints : sessions'[e] # None => sessions'[e].address <= lastUsed'
          <5>1. lastUsed \in Int
            BY NetworkAssumption
          <5>2. \A e \in Endpoints \ {d.endpoint} :
                  sessions'[e] # None => sessions'[e].address <= lastUsed + 1
            BY <4>1, <4>2, <5>1
          <5> QED
            BY <4>1, <5>1, <5>2
        <4>5. \A e, f \in Endpoints :
                (sessions'[e] # None /\ sessions'[f] # None
                   /\ sessions'[e].address = sessions'[f].address) => e = f
          BY <4>1, <4>2
        <4>6. ASSUME NEW i \in Clients, Current(i)
              PROVE  /\ client[i].address <= lastUsed'
                     /\ \A e \in Endpoints :
                          (sessions'[e] # None /\ sessions'[e].address = client[i].address)
                             => e = client[i].endpoint
          BY <4>1, <4>3, <4>6, NetworkAssumption DEF Apps
        <4> QED
          BY <4>1, <4>4, <4>5, <4>6
      <3> QED
        BY <3>1, <3>2
  <1>6. CASE \E D : Gone /\ (Sends(D) \/ net' \subseteq net)
    <2>1. client' \in [Clients -> Apps] /\ \A i \in Clients : SameApp(i)
      BY <1>6, DisturbedApps DEF Gone
    <2> QED
      BY <1>6, <2>1 DEF Gone, Sends, SameApp, HandshakeDatagrams
  <1>7. CASE \E e \in Endpoints : Reap(e)
    <2> PICK e \in Endpoints : Reap(e)
      BY <1>7
    <2>1. client' \in [Clients -> Apps] /\ \A i \in Clients : SameApp(i)
      BY DisturbedApps DEF Reap
    <2> QED
      BY <2>1 DEF Reap, SameApp
  <1>8. CASE Start
    BY <1>8 DEF Start, Apps
  <1>9. CASE \E d \in net : Lose(d)
    <2> PICK d \in net : Lose(d)
      BY <1>9
    <2>1. client' \in [Clients -> Apps] /\ \A i \in Clients : SameApp(i)
      BY DisturbedApps DEF Lose
    <2> QED
      BY <2>1 DEF Lose, SameApp, server
  <1>10. CASE UNCHANGED vars
    BY <1>10 DEF vars, server
  <1> HIDE DEF IInv, TunnelTypeOK, ChannelInv, AddressInv, Current, At
  <1> QED
    BY Steps, <1>1, <1>2, <1>3, <1>4, <1>5, <1>6, <1>7, <1>8, <1>9, <1>10

(* A session is not reaped while its parameters are under way. *)
LEMMA ParamsStep ==
  ASSUME IInv, [Next]_vars
  PROVE  ParamsInv'
  <1> USE DEF IInv, TunnelTypeOK, ParamsInv
  <1>1. CASE \E i \in Clients : \E e, d : Begins(i, e, d)
    <2> PICK i \in Clients : \E e, d : Begins(i, e, d)
      BY <1>1
    <2> PICK e, d : Begins(i, e, d)
      OBVIOUS
    <2> QED
      BY DEF Begins, server
  <1>2. CASE \E i \in Clients, d \in net : Reads(i, d)
    <2> PICK i \in Clients, d \in net : Reads(i, d)
      BY <1>2
    <2> QED
      BY DEF Reads, server
  <1>3. CASE \E i \in Clients :
               /\ client' = [client EXCEPT ![i] = Off] /\ net' = net /\ UNCHANGED <<attempts, server>>
               /\ open' = open \/ (client[i].pc # "off" /\ open' = open \ {client[i].endpoint})
    BY <1>3, OffIsApp DEF server
  <1>4. CASE (\E D : Sends(D)) /\ UNCHANGED <<client, open, attempts, server>>
    BY <1>4 DEF Sends, server, HandshakeDatagrams
  <1>5. CASE \E d \in net, h, g \in Handler : Handles(d, h, g)
    <2> PICK d \in net, h \in Handler, g \in Handler : Handles(d, h, g)
      BY <1>5
    <2> QED
      <3>1. ASSUME NEW x \in net', x \in net, x.what = "params", x.life = life
            PROVE  /\ sessions'[x.endpoint] # None
                   /\ sessions'[x.endpoint].state = "CONNECTED"
                   /\ sessions'[x.endpoint].address = x.address
        BY <3>1 DEF Handles, Datagrams
      <3>2. ASSUME NEW x \in net', x = Params(h), g.state = "CONNECTED"
            PROVE  /\ sessions'[x.endpoint] # None
                   /\ sessions'[x.endpoint].state = "CONNECTED"
                   /\ sessions'[x.endpoint].address = x.address
        <4>1. x.endpoint = d.endpoint /\ x.address = h.address /\ d.endpoint \in Endpoints
          BY <3>2 DEF Handles, Params, ToClient, Datagram, Datagrams
        <4>2. sessions'[d.endpoint] = g
          BY <4>1 DEF Handles
        <4> QED
          BY <3>2, <4>1, <4>2 DEF Handles
      <3>3. \A x \in net' : x \in net \/ (x = Params(h) /\ g.state = "CONNECTED")
        BY DEF Handles
      <3> QED
        BY <3>1, <3>2, <3>3 DEF Handles
  <1>6. CASE \E D : Gone /\ (Sends(D) \/ net' \subseteq net)
    <2>1. client' \in [Clients -> Apps] /\ \A i \in Clients : SameApp(i)
      BY <1>6, DisturbedApps DEF Gone
    <2> QED
      BY <1>6, <2>1 DEF Gone, Sends, SameApp, HandshakeDatagrams
  <1>7. CASE \E e \in Endpoints : Reap(e)
    <2> PICK e \in Endpoints : Reap(e)
      BY <1>7
    <2>1. client' \in [Clients -> Apps] /\ \A i \in Clients : SameApp(i)
      BY DisturbedApps DEF Reap
    <2> QED
      BY <2>1 DEF Reap, SameApp, HandshakeUnderWay, HandshakeDatagrams
  <1>8. CASE Start
    BY <1>8 DEF Start, ChannelInv, Datagrams
  <1>9. CASE \E d \in net : Lose(d)
    <2> PICK d \in net : Lose(d)
      BY <1>9
    <2>1. client' \in [Clients -> Apps] /\ \A i \in Clients : SameApp(i)
      BY DisturbedApps DEF Lose
    <2> QED
      BY <2>1 DEF Lose, SameApp, server
  <1>10. CASE UNCHANGED vars
    BY <1>10 DEF vars, server
  <1> HIDE DEF IInv, TunnelTypeOK, ParamsInv
  <1> QED
    BY Steps, <1>1, <1>2, <1>3, <1>4, <1>5, <1>6, <1>7, <1>8, <1>9, <1>10

(* Agreed or forgotten. *)
LEMMA AgreementStep ==
  ASSUME IInv, [Next]_vars
  PROVE  AgreementInv'
  <1> USE DEF IInv, TunnelTypeOK, ChannelInv, AgreementInv, Agreed, Forgotten, Current, At
  <1>1. CASE \E i \in Clients : \E e, d : Begins(i, e, d)
    <2> PICK i \in Clients : \E e, d : Begins(i, e, d)
      BY <1>1
    <2> PICK e, d : Begins(i, e, d)
      OBVIOUS
    <2> QED
      BY DEF Begins, server
  <1>2. CASE \E i \in Clients, d \in net : Reads(i, d)
    <2> PICK i \in Clients, d \in net : Reads(i, d)
      BY <1>2
    <2> QED
      <3> PICK a \in Apps :
             /\ client' = [client EXCEPT ![i] = a]
             /\ client[i].pc # "off"
             /\ a.pc # "off" => a.endpoint = client[i].endpoint
             /\ \/ /\ client[i].pc = "handshake" /\ a.pc = "connected" /\ d.what = "params"
                   /\ a.address = d.address /\ a.life = d.life
                \/ a = client[i]
                \/ a.pc # "connected" /\ a.life \in {0, client[i].life}
        BY DEF Reads
      <3>1. UNCHANGED server /\ d.endpoint = client[i].endpoint /\ net' \subseteq net
        BY DEF Reads
      <3>2. \A k \in Clients \ {i} : client'[k] = client[k]
        OBVIOUS
      <3>3. client'[i] = a
        OBVIOUS
      <3>4. ASSUME NEW k \in Clients \ {i}, Current(k)' PROVE (Agreed(k) \/ Forgotten(k))'
        BY <3>1, <3>2, <3>4 DEF server
      <3>5. ASSUME Current(i)' PROVE (Agreed(i) \/ Forgotten(i))'
        <4>1. CASE a = client[i]
          BY <3>1, <3>3, <3>5, <4>1 DEF server
        <4>2. CASE a # client[i]
          <5>1. d.what = "params" /\ a.address = d.address /\ d.life = life /\ up
                /\ a.endpoint = d.endpoint
            BY <3>1, <3>3, <3>5, <4>2 DEF server
          <5> QED
            BY <3>1, <3>3, <5>1 DEF server, ParamsInv
        <4> QED
          BY <4>1, <4>2
      <3> QED
        BY <3>4, <3>5
  <1>3. CASE \E i \in Clients :
               /\ client' = [client EXCEPT ![i] = Off] /\ net' = net /\ UNCHANGED <<attempts, server>>
               /\ open' = open \/ (client[i].pc # "off" /\ open' = open \ {client[i].endpoint})
    BY <1>3, OffIsApp DEF server
  <1>4. CASE (\E D : Sends(D)) /\ UNCHANGED <<client, open, attempts, server>>
    BY <1>4 DEF Sends, server, HandshakeDatagrams
  <1>5. CASE \E d \in net, h, g \in Handler : Handles(d, h, g)
    <2> PICK d \in net, h \in Handler, g \in Handler : Handles(d, h, g)
      BY <1>5
    <2> QED
      <3> SUFFICES ASSUME NEW i \in Clients, Current(i)' PROVE (Agreed(i) \/ Forgotten(i))'
        OBVIOUS
      <3>1. Current(i) /\ client' = client
        BY DEF Handles
      <3>2. \A x \in net' : x \in net \/ x.what = "params"
        BY DEF Handles, Params, ToClient, Datagram
      <3>3. CASE d.endpoint # client[i].endpoint
        <4>1. sessions'[client[i].endpoint] = sessions[client[i].endpoint]
          BY <3>1, <3>3 DEF Handles
        <4> QED
          BY <3>1, <3>2, <4>1
      <3>4. CASE d.endpoint = client[i].endpoint
        <4>1. sessions'[d.endpoint] = g /\ d.endpoint \in Endpoints
          BY DEF Handles, Datagrams
        <4>2. CASE Agreed(i)
          BY <3>1, <3>4, <4>1, <4>2 DEF Handles
        <4>3. CASE Forgotten(i)
          <5>1. d.what # "secret"
            BY <3>4, <4>3
          <5>2. h.state # "CONNECTED"
            BY <3>4, <4>3 DEF Handles
          <5>3. g.state # "CONNECTED"
            BY <5>1, <5>2 DEF Handles
          <5> QED
            BY <3>1, <3>2, <3>4, <4>1, <4>3, <5>3
        <4> QED
          BY <3>1, <4>2, <4>3
      <3> QED
        BY <3>3, <3>4
  <1>6. CASE \E D : Gone /\ (Sends(D) \/ net' \subseteq net)
    <2>1. client' \in [Clients -> Apps] /\ \A i \in Clients : SameApp(i)
      BY <1>6, DisturbedApps DEF Gone
    <2> QED
      BY <1>6, <2>1 DEF Gone, Sends, SameApp, HandshakeDatagrams
  <1>7. CASE \E e \in Endpoints : Reap(e)
    <2> PICK e \in Endpoints : Reap(e)
      BY <1>7
    <2>1. client' \in [Clients -> Apps] /\ \A i \in Clients : SameApp(i)
      BY DisturbedApps DEF Reap
    <2> QED
      BY <2>1 DEF Reap, SameApp, HandshakeUnderWay, HandshakeDatagrams
  <1>8. CASE Start
    BY <1>8 DEF Start, Apps
  <1>9. CASE \E d \in net : Lose(d)
    <2> PICK d \in net : Lose(d)
      BY <1>9
    <2>1. client' \in [Clients -> Apps] /\ \A i \in Clients : SameApp(i)
      BY DisturbedApps DEF Lose
    <2> QED
      BY <2>1 DEF Lose, SameApp, server
  <1>10. CASE UNCHANGED vars
    BY <1>10 DEF vars, server
  <1> HIDE DEF IInv, TunnelTypeOK, ChannelInv, AgreementInv, Agreed, Forgotten, Current, At
  <1> QED
    BY Steps, <1>1, <1>2, <1>3, <1>4, <1>5, <1>6, <1>7, <1>8, <1>9, <1>10

-----------------------------------------------------------------------------
(* At first nobody has a session, a channel or a datagram under way.       *)
LEMMA TunnelInit == Init => IInv
  <1> SUFFICES ASSUME Init PROVE IInv
    OBVIOUS
  <1>1. TunnelTypeOK
    BY OffIsApp, NetworkAssumption DEF Init, TunnelTypeOK
  <1>2. ChannelInv
    BY OffIsApp DEF Init, ChannelInv
  <1>3. AddressInv /\ ParamsInv /\ AgreementInv
    BY OffIsApp DEF Init, AddressInv, ParamsInv, AgreementInv, Current, At
  <1> QED
    BY <1>1, <1>2, <1>3 DEF IInv

(* The invariant is inductive.                                             *)
THEOREM TunnelInvariant == Spec => []IInv
  <1>1. IInv /\ [Next]_vars => IInv'
    <2> SUFFICES ASSUME IInv, [Next]_vars PROVE IInv'
      OBVIOUS
    <2> QED
      BY TypeStep, ChannelStep, AddressStep, ParamsStep, AgreementStep DEF IInv
  <1> QED
    BY TunnelInit, <1>1, PTL DEF Spec

(* Within one life of the server the app and the server mean the same by   *)
(* an address, whatever the network does and whoever leaves, is forgotten  *)
(* or comes back from a port that has been used.                           *)
THEOREM BothEndsAgree == Spec => []EndsAgree
  <1>1. IInv => EndsAgree
    <2> SUFFICES ASSUME IInv, NEW i \in Clients, Current(i)
                 PROVE  /\ \A j \in Clients \ {i} : Current(j) => client[j].address # client[i].address
                        /\ \A e \in Endpoints : sessions[e] # None =>
                              IF e # client[i].endpoint THEN sessions[e].address # client[i].address
                              ELSE sessions[e].state = "CONNECTED" =>
                                       sessions[e].address = client[i].address
      BY DEF EndsAgree
    <2>1. Agreed(i) \/ Forgotten(i)
      BY DEF IInv, AgreementInv
    <2> QED
      BY <2>1 DEF IInv, AddressInv, Agreed, Forgotten
  <1> QED
    BY TunnelInvariant, <1>1, PTL
=============================================================================
