------------------------------ MODULE Statistics ------------------------------
(***************************************************************************)
(* The statistics of the app, from a packet in the tunnel to the numbers   *)
(* on the screen: the analysis of a packet (cpp/PacketAnalyzer.cpp,        *)
(* PacketProcessor.kt), the batches ToyVpnService.processPacket broadcasts,*)
(* and ToyVpnViewModel, which adds them up on the main thread with         *)
(* DomainTracker's windows.                                                *)
(*                                                                         *)
(* A value posted to a LiveData is applied by a later message of the main  *)
(* thread's looper, and only the last one posted; other threads may put a  *)
(* batch into the looper between any two posts.                            *)
(***************************************************************************)
EXTENDS Integers, Sequences, SequencesExt, FiniteSets

CONSTANTS
    Wire,            \* packets: [family, transport, connection, content, name]
    UnquotableNames, \* names that break the JSON text they are put into
    BatchSize,       \* PACKET_DATA_BATCH_SIZE
    Window, TopCount,\* of the DNS domains and of the TLS server names
    Nothing,
    MaxPackets, MaxTime, MaxConnects   \* bounds

ASSUME StatisticsAssumption ==
    /\ BatchSize \in Nat \ {0} /\ Window \in Nat /\ TopCount \in Nat \ {0}
    /\ Nothing \notin Int \cup {<< >>}

Flags == <<"packet", "IPv4", "IPv6", "UDP", "TCP", "DNS", "TLS">>
ConnectionCounts == <<"tcpConnections", "udpConnections">>
Trackers == <<"dnsQuery", "tlsServerName">>
FlagCounts == Range(Flags)
LiveData == Range(Flags \o ConnectionCounts \o Trackers)

VARIABLES
    packetDataList,  \* the service's batch
    batches,         \* batches under way to the main thread
    looper,          \* messages of the main thread
    value, pending,  \* of each LiveData
    connections,     \* udpConnections, tcpConnections
    domainData,      \* of each tracker: the times of each name
    clock, packets, connects,
    handled,         \* packets counted since connectVpn(), with their time (history)
    missed           \* LiveData whose update met a post not yet applied (history)

sending == <<packetDataList, batches>>
model == <<connections, domainData>>
bounds == <<clock, packets, connects>>
statistics == <<sending, looper, value, pending, model, bounds, handled, missed>>

Names == {w.name : w \in Wire} \ {Nothing}
(* Messages of the looper. *)
Batch(data) == [what |-> "batch", data |-> data]
Application(f) == [what |-> "apply", data |-> f]

Empty(f) == IF f \in Range(Trackers) THEN << >> ELSE 0
NoTimes == [t \in Range(Trackers) |-> [n \in Names |-> << >>]]
NoConnections == [k \in Range(ConnectionCounts) |-> {}]

StatisticsInit ==
    /\ packetDataList = << >> /\ batches = << >> /\ looper = << >>
    /\ value = [f \in LiveData |-> Empty(f)]
    /\ pending = [f \in LiveData |-> Nothing]
    /\ connections = NoConnections /\ domainData = NoTimes
    /\ clock = 0 /\ packets = 0 /\ connects = 0
    /\ handled = << >> /\ missed = {}

-----------------------------------------------------------------------------
(* The analysis: which layers there are, the connection, and the name of   *)
(* the first query of a DNS query or of a client hello.                    *)
IsDns(w) == w.content \in {"dnsQuery", "dnsResponse"}
IsTls(w) == w.content \in {"clientHello", "tls"}

Analysed(w) ==
    [flags |-> {"packet", w.family} \cup ({w.transport} \ {Nothing})
               \cup (IF IsDns(w) THEN {"DNS"} ELSE {})
               \cup (IF IsTls(w) THEN {"TLS"} ELSE {}),
     connectionID  |-> IF w.transport \in {"TCP", "UDP"} THEN w.connection ELSE Nothing,
     dnsQuery      |-> IF w.content = "dnsQuery" THEN w.name ELSE Nothing,
     tlsServerName |-> IF w.content = "clientHello" THEN w.name ELSE Nothing]

(* The names are not escaped; what is no JSON is not counted. *)
Decodes(data) == {data.dnsQuery, data.tlsServerName} \cap UnquotableNames = {}

(* processPacket(): the batch goes when it is full, or when the last one   *)
(* went more than PACKET_DATA_BATCH_INTERVAL_MSEC ago.                     *)
ProcessPacket(w) ==
    /\ packets < MaxPackets /\ packets' = packets + 1
    /\ LET batch == Append(packetDataList, Analysed(w)) IN
          IF ~Decodes(Analysed(w)) THEN UNCHANGED sending
          ELSE \/ packetDataList' = << >> /\ batches' = Append(batches, batch)
               \/ /\ Len(batch) < BatchSize
                  /\ packetDataList' = batch /\ UNCHANGED batches
    /\ UNCHANGED <<looper, value, pending, model, clock, connects, handled, missed>>

(* The system hands a broadcast to the main thread's looper, at any time.  *)
HandOver ==
    /\ batches # << >> /\ batches' = Tail(batches)
    /\ looper' = Append(looper, Batch(Head(batches)))
    /\ UNCHANGED <<packetDataList, value, pending, model, bounds, handled, missed>>

-----------------------------------------------------------------------------
(* The main thread. *)

(* The elements of s that are in S, in their order: who does not wait yet, *)
(* and what removeAll leaves.                                              *)
Kept(s, S) ==
    LET F[i \in 0 .. Len(s)] ==
            IF i = 0 THEN << >>
            ELSE IF s[i] \in S THEN Append(F[i - 1], s[i]) ELSE F[i - 1]
    IN  F[Len(s)]

First(what) == looper # << >> /\ Head(looper).what = what

(* A callback posts a value to each LiveData of fs, in this order: a       *)
(* message, unless one is already waiting.  The system may put a batch     *)
(* between two of the messages.                                            *)
PostValues(fs, posted, rest) ==
    LET new == Kept(fs, {f \in LiveData : pending[f] = Nothing})
        messages == [i \in DOMAIN new |-> Application(new[i])]
    IN  /\ pending' = [f \in LiveData |-> IF f \in Range(fs) THEN posted[f] ELSE pending[f]]
        /\ \/ looper' = rest \o messages /\ UNCHANGED batches
           \/ \E k \in 1 .. Len(new) - 1 :
                 /\ batches # << >> /\ batches' = Tail(batches)
                 /\ looper' = rest \o InsertAt(messages, k + 1, Batch(Head(batches)))

Occurrences(data, f) == Cardinality({i \in DOMAIN data : f \in data[i].flags})
ConnectionIDs(data, flag) ==
    {data[i].connectionID : i \in {j \in DOMAIN data : flag \in data[j].flags}}

(* Where data names n, and the trackers for which it has a name. *)
NamedAt(data, t, n) == {i \in DOMAIN data : data[i][t] = n}
NamesIn(data) == {t \in Range(Trackers) : \E n \in Names : NamedAt(data, t, n) # {}}

(* cleanUpOldDomains() *)
CleanedUp(times) == Kept(times, {time \in Range(times) : time >= clock - Window})

Recorded(times, data, t) == [n \in Names |->
    CleanedUp(times[n] \o [i \in 1 .. Cardinality(NamedAt(data, t, n)) |-> clock])]

(* getTopDomains(): names with as many entries come in any order. *)
TopDomains(times) ==
    LET known == {n \in Names : times[n] # << >>}
        count(n) == Len(times[n])
    IN  {[i \in 1 .. (IF Len(s) < TopCount THEN Len(s) ELSE TopCount) |->
              [domain |-> s[i], count |-> count(s[i])]] :
         s \in {p \in SetToSeqs(known) :
                   \A i, j \in DOMAIN p : i < j => count(p[i]) >= count(p[j])}}

(* seeded bug: the number of connections is added up like the others *)
AddedUp(f, data) == value[f] + (IF f \in FlagCounts THEN Occurrences(data, f)
                                ELSE Cardinality(connections'[f]))

Total(f, data) == IF f \in FlagCounts THEN value[f] + Occurrences(data, f)
                  ELSE Cardinality(connections'[f])

Totals(data) == [f \in LiveData \ Range(Trackers) |-> Total(f, data)]

(* onPacketDataArrives(): connections and domains are recorded, the lists  *)
(* set at once, the counters posted.                                       *)
OnPacketDataArrives ==
    /\ First("batch")
    /\ LET data == Head(looper).data
           named == NamesIn(data)
       IN  /\ connections' = [connections EXCEPT
                     !["udpConnections"] = @ \cup ConnectionIDs(data, "UDP"),
                     !["tcpConnections"] = @ \cup ConnectionIDs(data, "TCP")]
           /\ domainData' = [t \in Range(Trackers) |->
                  IF t \in named THEN Recorded(domainData[t], data, t)
                  ELSE domainData[t]]
           /\ \E top \in [named -> UNION {TopDomains(domainData'[t]) : t \in named}] :
                 /\ \A t \in named : top[t] \in TopDomains(domainData'[t])
                 /\ value' = [f \in LiveData |-> IF f \in named THEN top[f] ELSE value[f]]
           /\ PostValues(Flags \o ConnectionCounts, Totals(data), Tail(looper))
           /\ missed' = missed \cup {f \in named \cup FlagCounts : pending[f] # Nothing}
           /\ handled' = handled \o [i \in DOMAIN data |-> [data |-> data[i], at |-> clock]]
    /\ UNCHANGED <<packetDataList, bounds>>

ConnectVpn ==
    /\ connects < MaxConnects /\ connects' = connects + 1
    /\ PostValues(Flags \o ConnectionCounts \o Trackers,
                  [f \in LiveData |-> Empty(f)], looper)
    /\ connections' = NoConnections /\ domainData' = NoTimes
    /\ handled' = << >> /\ missed' = {}
    /\ UNCHANGED <<packetDataList, value, clock, packets>>

Apply ==
    /\ First("apply") /\ looper' = Tail(looper)
    /\ value' = [value EXCEPT ![Head(looper).data] = pending[Head(looper).data]]
    /\ pending' = [pending EXCEPT ![Head(looper).data] = Nothing]
    /\ UNCHANGED <<sending, model, bounds, handled, missed>>

(* Only a batch looks at the clock. *)
Tick == /\ clock < MaxTime /\ ~First("apply") /\ clock' = clock + 1
        /\ UNCHANGED <<sending, looper, value, pending, model, packets, connects,
                       handled, missed>>

StatisticsNext == (\E w \in Wire : ProcessPacket(w)) \/ HandOver \/ OnPacketDataArrives
        \/ ConnectVpn \/ Apply \/ Tick

StatisticsSpec == StatisticsInit /\ [][StatisticsNext]_statistics

-----------------------------------------------------------------------------
(* A LiveData nobody is about to change. *)
Settled(f) == pending[f] = Nothing

Counted(f) == Cardinality({i \in DOMAIN handled : f \in handled[i].data.flags})
Seen(flag) == {handled[i].data.connectionID :
                   i \in {j \in DOMAIN handled : flag \in handled[j].data.flags}}

(* A list of names is right if it has the most frequent names of the       *)
(* window that ended when the last name arrived, with their counts.        *)
Recent(t) == LET with == {i \in DOMAIN handled : handled[i].data[t] # Nothing} IN
    {i \in with : \A j \in with : handled[i].at >= handled[j].at - Window}
Frequency(t, n) == Cardinality({i \in Recent(t) : handled[i].data[t] = n})
IsTopList(t, s) ==
    LET listed == {s[i].domain : i \in DOMAIN s}
        names == {handled[i].data[t] : i \in Recent(t)}
    IN  /\ Cardinality(listed) = Len(s) /\ listed \subseteq names
        /\ Len(s) = TopCount \/ listed = names
        /\ \A i \in DOMAIN s :
              /\ s[i].count = Frequency(t, s[i].domain)
              /\ i > 1 => s[i - 1].count >= s[i].count
              /\ \A n \in names \ listed : s[i].count >= Frequency(t, n)

(* What is shown is what arrived since Connect, whatever still came from   *)
(* the connection before: packets by protocol and top names, unless a      *)
(* batch met a post that was not applied yet; distinct connections even    *)
(* then, since the next post makes up for what was lost (connectVpn,       *)
(* onPacketDataArrives, getTopDomains).                                    *)
ShownIsWhatArrived ==
    \A f \in LiveData : Settled(f) =>
        /\ f = "udpConnections" => value[f] = Cardinality(Seen("UDP"))
        /\ f = "tcpConnections" => value[f] = Cardinality(Seen("TCP"))
        /\ f \in FlagCounts \ missed => value[f] = Counted(f)
        /\ f \in Range(Trackers) \ missed => IsTopList(f, value[f])
=============================================================================
