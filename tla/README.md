# ToyVpn-PcapPlusPlus in TLA+

Specifications of the ToyVpn server (`server/`, C++) and of its Android app
(`app/`, Kotlin), the TLC runs that check them on small instances, and theorems
that TLAPS proves for every value of the constants: about the server's tables,
its command line and life cycle, its capture with the packet queue and the list
of free blocks, and its logger, about the app's service and its statistics, and
about the protocol between the two ends.
`PROJECT.json` lists the runs, which definition models which lines of the
source, the hazards the properties are for, and what disagrees with the
documentation.

## 1. The system

A client app sends its secret in a UDP datagram to the server, gets an internal
address back, and from then on every IP packet of the device travels in a UDP
datagram to the server, which writes it to a TUN interface, and back.

| component | state | operations | talks to |
|---|---|---|---|
| **Server main thread** (`ToyVpnServer.h`, `EpollWrapper.h`) | `m_Clients` (endpoint -> session), `m_ClientAddressMap` (address -> session), `m_LastUsedClientAddress`, `m_LastIdleClientsCheck`, `m_IsPolling` | `handleClient`, `handleTunInterface`, `checkIdleClients`, `createVpnSettings`, `stop` | socket and TUN descriptors through epoll; sessions; capture |
| **Client session** (`ClientHandler.h`) | `m_State`, `m_LastMessageTimestamp`, address, endpoint | `handleDataFromClient`, `handleDataFromTun`, `disconnect`, `isIdle` | socket, TUN, capture |
| **Capture** (`PacketHandler.h`) | queue, `m_PcapWriters`, `m_StopFlag`, a thread | `handlePacket`, `clientDisconnected`, `run`, `stop`, destructor | main thread through a lock-free queue; files; the logger's mutex |
| **Life cycle and host configuration** (`main.cpp`, `NatAndRoutingWrapper.h`, `IpForwardingWrapper.h`, `TunInterfaceWrapper.h`, `ServerSocketWrapper.h`) | iptables rules, route, `ip_forward`, TUN device, socket | `init`, destructors, rollback, SIGINT handler | the host |
| **VPN service of the app** (`ToyVpnService.kt`) | `vpnInterface`, `vpnTunnel`, `vpnConnected`, `isForwardingTraffic` | `onStartCommand` (a coroutine: handshake, establish, forward), STOP, `disconnectVpn`, `onDestroy`, `onRevoke` | server by UDP; manager by broadcasts |
| **Manager and screens** (`ToyVpnServiceManager.kt`, `ConnectScreen.kt`, `StatsScreen.kt`, `MainActivity.kt`) | `vpnServiceState`, the `NavController`'s back stack | `startVpnService`, `stopVpnService`, the receiver, navigation | service by intents |
| **Statistics** (`ToyVpnViewModel.kt`, `DomainTracker.kt`) | counters, connection maps, time-stamped domains | `onPacketDataArrives`, `connectVpn`, `getTopDomains` | manager, screens |
| **Pure algorithms** (`VpnSettings.kt`, `VpnSettings.h`, `Utils.kt`, input validation) | none | parameter string there and back, `humanize`, validation | |
| **Packet analysis** (`PacketAnalyzer.cpp`, `PacketProcessor.kt`) | none | classification of a packet | PcapPlusPlus |
| **Packet queue** (`libs/concurrentqueue`) | counters, block index, blocks, free list | `enqueue`, `try_dequeue_bulk`, destructor | main thread, capture thread, SIGINT handler |
| **Logger** (`libs/AixLog`, `Log.h`) | a buffer per thread, shared metadata, recursive mutex | stream operators, `overflow`, `sync` | every thread of the server |
| **Command line** (`libs/argparse`, `main.cpp`) | arguments, used and stored values | registration, `parse_args` | main |

What is hard about it:

* `stop()` runs in the SIGINT handler, on the main thread, between any two
  steps of whatever it was doing, and it joins another thread.
* Two tables share the sessions, sessions are reaped from inside the callbacks
  that use them, and packets for an address may arrive long after its client is
  gone.
* The capture thread and the main thread share a queue and, without any
  synchronisation, the table of writers; end-of-session markers must keep their
  place among the packets.
* The queue is lock-free: elements, blocks, index and counters are read while
  others change them, blocks are used again, allocations may fail, and the
  SIGINT handler may enter `enqueue` a second time on the same thread.
* What `start()` does to the host (rules, forwarding) has to be undone whatever
  fails, and survives a process that is killed.
* Datagrams are lost, doubled and reordered between two ends that both forget
  each other without a word, and ports are used again.
* In the app one object is shared by the main thread and by one coroutine per
  connection, through four fields that are set one after the other, while
  Android decides when intents and callbacks are delivered; what is posted to a
  `LiveData` takes effect later than what is assigned.

What makes each component correct is stated with its properties below.

## 2. The modules

| module | models | kind |
|---|---|---|
| `AddressLease` | what the server promises about internal addresses | abstract specification |
| `ClientHandler` | the session object: what each class of datagram does in each state | operators on a record |
| `ToyVpnServer` | the main thread with its tables, loop, idle check and signal handler | state machine, uses `ClientHandler`, implements `AddressLease` |
| `ToyVpnServer_proofs` | theorems about `ToyVpnServer` | proofs |
| `PacketHandler` | the capture: main thread, capture thread, logger's mutex | state machine |
| `PacketHandler_proofs` | theorems about `PacketHandler` | proofs |
| `ToyVpnService` | the app's service, its manager and the two buttons | state machine |
| `App_proofs` | theorems about `ToyVpnService` and `Statistics` | proofs |
| `ArgumentParser` | `parse_args` on the options `main` registers, token by token | state machine |
| `ServerLifecycle` | `main`, `start()`, `stop()`, the destructors, and the host | state machine, extends `ArgumentParser` |
| `ServerLifecycle_proofs` | theorems about `ServerLifecycle` | proofs |
| `TunnelProtocol` | handshake and forwarding between apps and server over a network | state machine, composes the app's tunnel with `ClientHandler` |
| `TunnelProtocol_proofs` | theorems about `TunnelProtocol` | proofs |
| `BulkQueue` | what the packet queue promises | abstract specification |
| `ConcurrentQueue`, `MCConcurrentQueue` | the packet queue, one atomic operation per action | state machine, implements `BulkQueue` |
| `ConcurrentQueueInvariant` | its inductive invariant | definitions, extends `ConcurrentQueue` |
| `ConcurrentQueue_proofs` | theorems about `ConcurrentQueue` | proofs |
| `SignalledQueue` | the queue with a signal handler inside `enqueue` | extends `ConcurrentQueue` |
| `FreeList` | the lock-free list of free blocks | state machine |
| `FreeList_proofs` | theorems about `FreeList` | proofs |
| `Logger` | the operators of a log line | state machine |
| `Logger_proofs` | theorems about `Logger` | proofs |
| `Statistics`, `MCStatistics` | from a packet to the numbers on the screen | state machine |

### ToyVpnServer

Sessions are records on a heap (`handlers`), so that an object both tables
refer to is one object, as the `shared_ptr` is; an object that no table refers
to any more is marked destroyed. A callback is split where a signal may tell
the difference: taking the datagram and looking the session up or making it
(`ReceiveKnown`, `RegisterClient`), each case of `handleDataFromClient`
(`SendParams`, `RejectSecret`, `ClientLeaves`, `ForwardToTun`, `IgnoreData`),
the assignment of CONNECTED after the parameters were sent (`BecomeConnected`),
and the idle check that ends the callback (`CheckIdleClients`, one step, both
tables). `Stop` is enabled between any two of them, once, since PcapPlusPlus
runs the handler once. A datagram is reduced to its class: right secret, wrong
secret, DISCONNECT, keep-alive, data. Time is counted in ticks of whatever
length; it passes only in `epoll_wait`, as a callback takes less than a tick.
`effects` is what the last step sent or wrote, so that properties can speak of
what leaves the server.

Properties: `TablesAgree` (the tables describe the same live sessions),
`NoMisdelivery` (an address is told to one endpoint over the life of the server
and its packets go nowhere else), `OnlyAdmittedServed` and `NoReturn` (the
session automaton under interruption by the signal handler),
`SenderSurvivesCheck` (a datagram's own idle check does not reap its session),
`ImplementsLease` (refinement of `AddressLease`), `StaleSessionsGo` and
`StopEnds` (liveness).

Simplifications: every operation on an `unordered_map` is atomic (a signal in
the middle of an insertion is undefined behaviour of the container); a receive
that fails after epoll reported the descriptor readable is not modelled; the
model begins where `start()` enters `startPolling()`. `createVpnSettings`
throws at the highest host address, so addresses are taken from the one after
the server's own to the last but one, each at most once.

### PacketHandler

The main thread makes the calls the server makes (`HandlePacket`,
`ClientDisconnected`, the latter once per address: addresses are not reused and
`NoReturn` holds), writes log lines, and is interrupted by SIGINT or leaves by
an exception. The capture thread is `run()` with a step for every access to
shared state. `Lookup` is the data race: while the capture thread inserts or
erases, `find()` may see the key or not, and may miss any key. `open()` may
fail and starts the file anew if it does not. `logLock` is the recursive mutex
of AixLog; only what matters is kept, namely that the main thread may hold it
when the signal arrives.

Properties: `CaptureUnbroken` (file, batch and queue of a client together are
an unbroken run of its packets, each of those still under way at one place; the
run starts with the first one, or, if the file
was made again, with the first packet after the session was closed),
`PacketsAreTaken`, `MarkersTakeEffect`, `StopReturns` (liveness).

### ToyVpnService

One main thread (screens, manager's receiver, callbacks of the service) and one
coroutine per `onStartCommand`, with a step for every field it shares.
`disconnectVpn` blocks the main thread (`main.at = "wait"`). Broadcasts are
delivered in the order they were sent and callbacks in the order the system
queued them, each when the main thread is idle; `record` is the instance the
system regards as started, so that `stopSelf` of an old instance does not stop
a new one. A coroutine's number names its tunnel and its interface, which makes
leaks visible. Not modelled: Android's own binding to a `VpnService` while its
interface is up (the code relies on `onDestroy` following `stopSelf`), the
batches of packet data, and restarts of a killed process.

The screens are the `NavController`'s back stack (`backStack`, the screen shown
last). `navigate()` has no `popUpTo` on either screen, so a new screen is pushed
and the old ones stay below it: after a first disconnection the stack is connect,
stats, connect, and Back during the next attempt shows the statistics, where
Disconnect is enabled. A screen that is fading out is taken for gone. A
re-created activity has the old stack (rotation) or a new one.

Properties: `NoUseAfterClose`, `MainThreadReturns`, `StopReleases`,
`ConnectingEnds`, `NoGhostConnection`, `DisconnectConfirmed`. They hold for a *patient* user, who connects again only
when the last connection is over, through Back, Disconnect, re-creation and
revocation at any time, with one exception that each statement names:
`overtaken`, a history variable that no action reads. It is set when
`disconnectVpn` runs while a coroutine of its instance has not finished
`establishVpnConnection`, which nobody cancels and which sets `vpnConnected` and
broadcasts STARTED afterwards; the next Connect clears it. STOP and revocation
get there. Section 4 says what then goes wrong, and what an impatient user meets.

### ArgumentParser and ServerLifecycle

`argv` is written one token ahead of what the parser looks at, so that the
parser's choices, and nothing else, branch the state space; tokens come from a
table with spellings of options, good and bad values and strangers. The parser
works through them as `parse_args_internal` does: splitting at `=`, letters of a
single dash, negative numbers as values, repetitions, required options. Its
result is compared with the grammar of the options main registers
(`ParsesGrammar`); a line with `-t` or `--tun`, which the README documents and
main does not register, is left out of the comparison (section 4).

`ServerLifecycle` goes on with `start()`, one action per call that can fail, up
to the polling loop, which it keeps as one place. `configureNat` is a loop over
three commands with its rollback, used by `init` (-A) and by the destructor
(-D). `Stop` is the SIGINT handler at any point of `start()`; during
`std::system` SIGINT is ignored by the parent. The destructors run in the order
of the members, and an exception that leaves one ends in `std::terminate`. The
host's part (`forward`, `rules`) outlives the process, which may be killed
anywhere and started again, so that it may find its own leftovers.

Properties: `ConfiguredWhileServing`, `LeavesHostAsFound`, `ForeignRulesStay`,
`ParsesGrammar`, `InterruptEnds` (liveness). `botched` and `heeded` in them are
the two things that do go wrong: see section 4.

### TunnelProtocol

`net` is the set of datagrams under way; reading one may leave it there (a
duplicate), any may be lost, and none has a place in an order. An app's
coroutine is `off`, in its `handshake`, `connected`, or `leaving`; the server's
side is `ClientHandler`'s session in a table by endpoint. A channel that is not
closed keeps its port (`open`), and a failed handshake does not close its own;
a later channel may get a port the server still knows. Clocks are left out: the
server may forget a session whenever no datagram of a handshake of its endpoint
is under way, and a handshake is given up when nothing of it is under way; both
are what the timeouts amount to if a datagram lives for less than the 5 s of a
handshake and the 60 s of silence.

Properties: `EndsAgree` (within one life of the server the two ends mean the
same by an address, although either may have forgotten the other) and
`HandshakeCompletes` (nothing but the listed accidents keeps a handshake from
its end; `disturbed` is set by exactly those).

### ConcurrentQueue, FreeList, SignalledQueue

`ConcurrentQueue` has the implicit producer of the main thread and a set of
consumers, since the queue is built for several even though the capture thread
is alone. One action is one atomic load, store or read-modify-write of shared
memory together with the thread's own work after it. Index headers are kept in
the order they were made, since readers may still hold an old one; entries are
shared between them, as in the code. An enqueue at the start of a block may
fail in the index or in the allocation of the block. The refinement mapping to
`BulkQueue` reads the queue's contents the way a consumer would, through the
index, so that an element that is there but cannot be found is missing.
`FreeList` opens the one operation `ConcurrentQueue` takes as atomic.
`SignalledQueue` saves the frame of an interrupted `enqueue`, runs the
handler's, and resumes.

Properties: `ImplementsFifo`, `BlocksOwned`, `AssertionsHold` (three assertions
the code itself makes: what a look-up finds, that the slot of a larger index is
fresh, and the count of emptied elements), `AllBlocksReturned` (after the destructor), `OwnedOnce`
and `NothingLost` (free list). What `FreeList` says of "the list" it says of a
sequence of nodes that `freeListHead` and `freeListNext` link (`IsList`).

Memory orders are not modelled: the interleaving of atomic operations is
sequentially consistent, which the `acquire`/`release` pairs alone do not give.
Counters do not wrap.

### Logger

Every stream operator takes the mutex for itself, so one operator is one action
and lines interleave. `metadata` is shared, `buffer` is per thread.
`OneThreadPerLine` says what the buffers are for. `LinesAccountedFor` says that
what has gone through a thread's buffer, and what is in it, is what the thread
wrote, once and in order, and that a record has the
severity, time and function of its line *unless another line has overwritten
them since*, which does happen (section 4). The signal handler comes between
two operators: inside one it would enter the recursive mutex and the half-done
operation, which is undefined behaviour of the containers.

### Statistics

A packet is a record of what the analysis can tell apart. The main thread's
looper is a sequence of messages: batches that were delivered, and pending
posts of `LiveData`. `PostValues` is a callback that posts several values, into
which the system may put a batch at any place; `Kept` is a filter, of those
that wait for no message yet there, of the times in the window in
`cleanUpOldDomains`. `handled` is what arrived since
the last Connect; `ShownIsWhatArrived` compares it with every number and list
on the screen, except those `missed` names: fields a batch has added to while an
older post was not applied yet, which do come out wrong (section 4). Only a
batch looks at the clock, so that time passes only then.

## 3. The runs

| run | instance | shows |
|---|---|---|
| `server` | 2 endpoints, addresses 1..5 (the server's, 3 leases, the highest), timeout 1 tick, check interval 0 | all properties of `ToyVpnServer` |
| `lifecycle` | 11 tokens, 7 per command line, 2 processes | all properties of `ServerLifecycle` and `ArgumentParser` |
| `capture` | 2 clients, 2 packets each, batches of 2 | all properties of `PacketHandler` |
| `shutdown_completes` | 1 client, 2 packets | shutdown may wait for the capture thread for ever |
| `queue` | 2 consumers, 6 items in blocks of 2, an index of 2 that grows, 1 pool block, dequeues of up to 3, claims in vain while fewer than 2 are recorded | all properties of `ConcurrentQueue`, and that it implements `BulkQueue` |
| `queue_reentered` | 1 consumer, 4 items | an enqueue inside an enqueue breaks the index |
| `freelist` | 3 threads, 2 nodes | all properties of `FreeList` |
| `logger` | 2 threads, 2 lines of 2 pieces each, severities 1 and 2 | all properties of `Logger` |
| `tunnel` | 2 apps, 2 ports, addresses 1..4, 2 handshakes, 2 lives of the server | both properties of `TunnelProtocol` |
| `statistics` | 4 kinds of packets, 3 packets, batches of 2, 3 instants, 1 Connect | the screen against a count |
| `app` | 2 connections, 2 DISCONNECTs each, patient user | all properties of `ToyVpnService` but the next |
| `app_disconnect_stops` | 1 connection | Disconnect right after STARTED leaves the interface up |

Why the bounds are enough. Server: three leases for two endpoints let an
endpoint be reaped and come back twice, and let the network run out; the
timeout of 1 and the interval of 0 ticks keep "just silent", "silent too long"
and "check due" apart, and only the order of these matters. The heap is bounded
by the addresses, since a session takes one and none comes back. Life cycle:
seven tokens are the three required options with values and one more; two
processes are a killed one and one that finds its leftovers. Capture: two
packets are one before and one after a marker, or two in a batch; two clients
interleave in one queue; a batch of two is split and filled. Queue: six items
of three blocks fill the index of two and make it grow while a consumer may
hold the old header; a dequeue of three spans two blocks; one pool block makes
blocks come from pool, free list and heap; two consumers claim in vain
together. `MaxOvercommit` bounds only how often a call may find nothing, after
which the counters have the same differences. The consumers are interchangeable
and all properties of the run are safety properties, so symmetry is sound.
Free list: with two nodes a third thread can find either at the head while two
others add and take; a head that comes back with another successor needs no
more. Logger: a line begins with the severity of the other line or with
another, and the filter is below or above; a third severity adds no case.
Tunnel: two handshakes are two apps at once, or one that comes back from the
same port or another; two leases and the highest address; two lives tell a
server from its successor; one other datagram at a time, besides those of the
handshakes. Statistics: three packets are a full batch and the beginning of the
next. App: two connections are what it takes for a back stack with the
statistics below the Connect screen, and for the broadcasts of one connection to
meet the next; of two DISCONNECTs one arrives while the first is carried out, and
the third that the server sends would do what the second does.
`CHECK_DEADLOCK FALSE` is set where the system ends: the server returns or
fails, the process is dead, the capture or queue is destroyed, the bounded
calls are made, the user stops asking for connections.

Fairness. `BusySpec`: the main thread runs (`WF(Continue)`), events keep coming
(`WF(AnyEvent)`: idle sessions are looked for only in callbacks, so without
traffic nothing is reaped), and clocks advance (`SF(Tick)`, strong because time
passes only while the loop waits). `PacketHandler`: both threads are scheduled;
`SF(Work)` because the capture thread gets the logger's mutex if it is free
over and over. `ServerLifecycle`: the process is scheduled; failures, signals
and restarts are not demanded. `TunnelProtocol`: the server reads its socket
and the app its channel, which it gives up in the end; neither sending nor
delivery is demanded of the network, whose losses are accidents of their own.
`ToyVpnService`: weak fairness of each thread and of the delivery of broadcasts
and callbacks; a handshake ends because it makes a bounded number of attempts.
Nothing is assumed of the user.

## 4. What disagrees with the documentation

The three violations are listed with their lines under `findings`. Met while
modelling, without a run of their own:

* SIGINT between the send of the parameters and `m_State = CONNECTED`
  (`ClientHandler.h:47-52`) skips a client that has its parameters: it is not
  told of the shutdown (`server/README.md:107-109`).
* A regular shutdown drops what is still in the queue (`PacketHandler.h:64`),
  and a packet after a client's end marker starts its file anew (lines 94-97),
  though `main.cpp:84` says that all traffic is saved.
* `clientDisconnected` enqueues a marker only if there is a writer already
  (`PacketHandler.h:34`): a client that leaves before its first packet was taken
  out keeps its file open until the server ends.
* `server/README.md:60` lists `-t, --tun`. main registers both names as the one
  string `-t, --tun` (`main.cpp:15`), so that the parser takes either for an
  unknown argument and main returns 1; the interface can be named only by the
  argument `-t, --tun`, which nothing documents. By the README a line with `-t`
  is right, by the code it is wrong: `ParsesGrammar` says nothing of it.
* Disconnect during a handshake is not obeyed (`docs/Disconnect.txt:11-12`: the
  service stops and the end is broadcast), and a patient user gets there: connect,
  disconnect, connect again, and Back while CONNECTING, which shows the statistics
  of the first connection (`StatsScreen.kt:82` and `ConnectScreen.kt:129` push
  without `popUpTo`), whose Disconnect is enabled (`StatsScreen.kt:167`).
  `disconnectVpn` finds nothing to stop, STOPPED is broadcast, and the coroutine,
  which nobody cancelled, sets `vpnConnected` (`ToyVpnService.kt:145`) and
  broadcasts STARTED. The screens show a connection whose service is gone; its
  Disconnect sends STOP to no receiver, and the state stays DISCONNECTING. If
  `vpnConnected.set(true)` comes while `disconnectVpn` waits for the loop, the
  main thread waits for ever. TLC finds this within seconds, and the same by a
  revocation, if the exception `overtaken` is taken out of `NoGhostConnection`,
  `DisconnectConfirmed` or `MainThreadReturns`.
* An impatient user needs no second handshake: Disconnect, Back and Connect
  (enabled in state DISCONNECTING) before STOP is delivered put two coroutines on
  one instance, the newer one sets `vpnConnected` again under `disconnectVpn`
  (`ToyVpnService.kt:145`), and the main thread waits for ever. A revocation
  that meets the handshake does the same.
* An address is taken by the first datagram of an endpoint, before the secret is
  looked at (`server/README.md:101-102` has it the other way round), and a
  rejected session keeps the address to itself until it is reaped.
* The app builds its DISCONNECT message and never writes it
  (`ToyVpnService.kt:302-304`, `docs/Disconnect.txt:8`). A new connection from
  the same port is then taken for the old session, which forwards the secret as
  a packet and does not answer.
* An app whose session was reaped, or whose server was started again, goes on
  sending to a server that does not know it (its keep-alives are taken for a
  handshake without a secret), and nothing tells it.
* The handshake's buffer is not cleared between reads: a packet that comes
  before the parameters leaves a first byte that hides them
  (`ToyVpnService.kt:271-280`).
* A failed handshake leaves its channel open.
* A re-created activity shows DISCONNECTED while the service goes on.
* An exception that ends `start()` hangs in `~PacketHandler`, which joins a
  thread that nobody told to stop; `ShutdownCompletes` fails for this reason
  too. SIGINT before the loop has the same end if the `PacketHandler` is made
  after it, and is without effect if it comes before the epoll is made.
* When an iptables -D of the destructor fails, `rollback()` runs -D for the
  ones already removed, which takes a second copy of a rule away if there is
  one, and the exception that follows leaves a destructor: forwarding stays on.
* A killed server leaves rules and forwarding behind; the next one takes them
  for what it found.
* A log line may carry the severity, time or function of another thread's line,
  and be held back or let through by it (`aixlog.hpp:1139-1205`); the mutex is
  taken once per operator.
* A batch that is handled before an earlier post was applied counts from the
  old value: after Connect it brings back the counts of the old connection, and
  two batches in a row lose the first one's (`ToyVpnViewModel.kt:109`). The
  lists of names, which are assigned, are emptied again by a post of Connect
  that is applied after them.
* Names of domains are put into JSON text without escaping
  (`PacketAnalyzer.cpp:70-147`): one with a quote in it makes its packet
  uncounted.
* `std::stoi` takes `1200x` for an MTU.

## 5. What is proved

Each theorem holds for every value of the constants that satisfies the named
assumptions of its module, which TLC evaluates in the runs. No property below is
inductive as it stands. In each module of proofs `IInv` (for
`ConcurrentQueue`, `QueueInv`) is the inductive invariant; there is a lemma for each group of its conjuncts and, in it, a step
for each action; the theorems are its consequences.

**`ToyVpnServer_proofs`**: for every set of endpoints, every network, timeout
and check interval (`NetworkAssumption`, `IdleTimeoutAssumption`,
`CheckIntervalAssumption`).

* `TypeCorrect`: `Spec => []TypeOK`
* `TablesAlwaysAgree`: `Spec => []TablesAgree`
* `PacketsReachTheirClient`: `Spec => []NoMisdelivery`
* `OnlyAdmittedClients`: `Spec => []OnlyAdmittedServed`
* `DisconnectedForGood`: `Spec => NoReturn`
* `CheckSparesSender`: `Spec => SenderSurvivesCheck`
* `ServerImplementsLease`: `Spec => ImplementsLease`, if 0, which stands for
  "nobody", is not an endpoint

`IInv` is the conjunction of the types and of five facts about sessions: every
object on the heap carries the address of its place (`HeapOK`, which makes
addresses unique and fresh), the tables agree, the session being handled is in
its table and alive (`CurrentOK`; the idle check must not have destroyed it), a
session whose parameters were just sent is not yet connected or was interrupted
(`ReplyOK`), an address was told only to the endpoint of the object that holds
it (`ToldOK`), and a connected or disconnected session was told its address
(`AdmittedOK`). Actions that only turn the object being handled into another one
share `BecomesTables` and `BecomesSession`, actions that leave the heap alone
share `QuietStep`. `OutputInv` adds what `effects` holds. The two action
properties follow from `HeapStep`, which says how an object may change in one
step, and the refinement from `LeaseStep`: registering a client is a grant, an
idle check a release, everything else a stutter.

**`PacketHandler_proofs`**: for every set of addresses, number of packets and
size of a batch (`PacketHandlerAssumption`).

* `HandlerInvariant`: `Spec => []IInv`
* `HandlerTypeCorrect`: `Spec => []TypeOK`
* `NothingLostInCapture`: `Spec => []CaptureUnbroken`

`CaptureUnbroken` speaks of packets only; what keeps it is where the markers
are. `CaptureInv` says, with the first number `lo` of the run, that what is under
way carries exactly the packets from the next one to the last one sent, in
order (`Carries`), that a marker divides them at the packet after which the
session was closed (`Divides`), and that without a writer the next packet is
the first or the first one after the session was closed (`Begins`), which is
what a file made anew then starts with. `WorkerInv` says what the capture thread
holds at each place, among it that it opens a file only for the address of the
packet in its hand. The data race (`Lookup`) only decides whether a marker is
sent, and the proof shows that the run is unbroken either way.

**`ServerLifecycle_proofs`**: for every set of tokens and every number of
processes (`MaxRunsAssumption`).

* `HostInvariant`: `Spec => []IInv`
* `TypeCorrect`: `Spec => []TypeOK`
* `LoopOnConfiguredHost`: `Spec => []ConfiguredWhileServing`
* `ExitRestoresHost`: `Spec => []LeavesHostAsFound`
* `ForeignRulesKept`: `Spec => []ForeignRulesStay`
* `ParserInvariant`: `Spec => []ParserInv`
* `CommandLineReadRight`: `Spec => []ParsesGrammar`

`ReadyInv` says which parts of `start()` have been made at each place,
`ForwardInv` what `m_InitialValue` is and what the host's flag is, `CommandsInv`
which of the three commands `m_CommandRun` names, and `RulesInv` counts the rules:
each is there once more than it was found if this process still has to remove it
(`IsAdded`), and as often as found if not. This needs "no iptables -D has
failed": the rollback in the destructor does remove too much then (section 4),
which is why `botched` is in the property.

The parser reads tokens from the left, the grammar describes the whole line.
`ParserInv` is what ties them while the loop is under way (`ReadingInv`): what
is left is the end of the line (`RestInv`); the options in hand are the last of
the place the loop is at, with the values they have got so far (`PendingInv`);
`used` is exactly the options that are done, none of them twice (`UsedInv`); and
each value taken belongs to one of those, each of which has its value or can do
without one (`ValuesInv`). A line that is accepted is then `WellFormed` and means
what the grammar says, and a line that is refused is not. Lines with `-t` or
`--tun` (`NamesTun`) are left out of the theorem as they are of the property: by
the README those lines are right, and the parser refuses them (section 4). That the loop's letters
are the grammar's (`LineOf`, a recursive function over the tokens) is an induction
on the length of the line: the library's induction theorems take an operator, so
the proof goes by the least counterexample (`NatSets`), which the theorems on
well-founded orderings of finite sets give.

**`FreeList_proofs`**: for every finite set of threads and every finite set of
nodes (`FreeListAssumption`).

* `FreeListInvariant`: `Spec => []IInv`
* `FreeListTypeCorrect`: `Spec => []TypeOK`
* `BlockOwnedOnce`: `Spec => []OwnedOnce`
* `BlockNeverLost`: `Spec => []NothingLost`

There is a sequence `s` that the head and the successors link (`IsList`), such
that a node is in one place (`PlaceInv`), has the flag "should be on the list"
exactly while it is nowhere (`MarkInv`), and has a reference count of the number
of threads that look at it, a cardinality, and one more for the list
(`CountInv`). Two more facts carry the algorithm. `LocalInv`: what a thread has
read as the successor of a node on which it holds a reference is not out of
date, so that a compare-and-swap that finds the head it expects links the right
list, however often that head has left and come back (ABA). `WaitInv`: a flagged
node that nobody links is looked at by somebody, who will link it when he lets
go.

**`App_proofs`**, the service: for any number of connections and DISCONNECTs
(`ServiceAssumption`).

* `ServiceInvariant`: `Spec => []IInv`
* `ServiceTypeCorrect`: `Spec => []TypeOK`
* `LoopUsesOpenDescriptors`: `Patient => (Spec => []NoUseAfterClose)`
* `NoLateStarted`: `Patient => (Spec => []NoGhostConnection)`

The last two have the patient user as a hypothesis, as the run has: without it
TLC finds two coroutines on one instance and a descriptor that is closed under
the loop (section 4). `IInv` is the types and the order of launches
(`LaunchInv`) for every user and `PatientInv` for a patient one, whatever he does
with the screens and the permission. Of it `CallbackInv` (at most one callback is
queued, and for which instance), `MainInv` (the main thread disconnects the
instance that runs, which has been stopped) and that at most one coroutine is
active hold unconditionally. The rest is said while no disconnection has met the
handshake (`~overtaken`): what the coroutine has opened at each of its places and
that `vpnConnected` means that nobody disconnects (`JobInv`), what the loop works
on and that `disconnectVpn` sees it run (`LoopInv`), and that a STARTED in the
queue is for a service that is there or has STOPPED behind it (`NoticeInv`). The
exception is needed: a coroutine that was overtaken
goes on to `vpnConnected.set(true)` with the service gone, and `JobInv` fails
there.

The statistics: for every set of packets, size of batch, window and length of
list, and any number of packets and connections (`StatisticsAssumption`; that
what stands for "nothing" is neither a number nor the empty list is what
`null` is in the code).

* `StatisticsInvariant`: `StatisticsSpec => []StatisticsInv`
* `StatisticsAreRight`: `StatisticsSpec => []ShownIsWhatArrived`

The numbers shown run behind the ones recorded, so the invariant speaks of what
a field *will* show when its post is applied (`Coming`, `ShownInv`), which is
right as long as each field that waits has one message, and each message a field
that waits (`LooperInv`: posting keeps that, wherever a batch comes between).
`ConnectionsInv` says that the recorded connections are those of what was
handled, `DomainsInv` that a name has, from any time `x` on, as many entries as
arrivals in its window: "from any time on" is what makes it inductive, since the
window moves on with the next name and drops entries on both sides. How many
elements a filter keeps (`KeptPlaces`) is an induction over a sequence, proved
as the one about `LineOf` is; that the list of the most frequent names, the
beginning of a sorted permutation, is one (`TopIsMost`) is counting.

**`TunnelProtocol_proofs`**: for any number of apps, endpoints, datagrams,
handshakes and lives of the server (`NoneAssumption`, that what stands for "no
session" is none of the sessions, and the assumptions on network and timeout).

* `TunnelInvariant`: `Spec => []IInv`
* `BothEndsAgree`: `Spec => []EndsAgree`

`ChannelInv` says that an open channel is one app's, `AddressInv` that an address
is held by one endpoint and one app, `ParamsInv` that parameters of this life of
the server, still under way somewhere, are those of a session that is still
there, and `AgreementInv` that the server knows a connected app as the app knows
itself, or has forgotten it and nothing is under way that could make it a client
again behind its back. The last is what the 5 s of a handshake and the 60 s of
silence are for, and what the guard of the server's forgetting stands for.

**`Logger_proofs`**: for every set of threads, number of lines and of pieces
(`LoggerAssumption`).

* `LoggerInvariant`: `Spec => []IInv`
* `TextStaysApart`: `Spec => []OneThreadPerLine`
* `NoLineIsLost`: `Spec => []LinesAccountedFor`

`StreamInv` says that the cached buffer is that of the cached thread
(`get_stream`), `BufferInv` that what went through a thread's buffer followed by
what is in it is what the thread wrote, `LineInv` that the shared metadata still
has what a line set and no other line has set since, for the lines of all
threads and for the one that the signal handler interrupted, and `RecordInv`
that the record shown last has it too.

**`ConcurrentQueue_proofs`**: for any number of consumers, size of blocks (at
least 2), first index (at least 2, as `concurrentqueue.h:796` asserts), pool and
bulk, and every bound on what is enqueued and claimed (`QueueAssumption`).

* `OutlineHolds`: `Spec => []Outline`
* `QueueHolds`: `Spec => []QueueInv`
* `BlocksAreOwned`: `Spec => []BlocksOwned`
* `QueueAsserts`: `Spec => []AssertionsHold`
* `AllReturned`: `Spec => []AllBlocksReturned`
* `QueueRefinesFifo`: `Spec => ImplementsFifo`

The invariant, in `ConcurrentQueueInvariant`, has three layers, each inductive
given the ones before it.

`Outline` does not look at the contents of the index. `CounterInv`: there is an
assignment of places to the claims under way, disjoint and between `headIndex`
and what was claimed and not given back, such that what is granted of a claim is
below `tailIndex`. This is why a consumer may trust the difference of counters it
has read at different times, and why `headIndex` never passes `tailIndex`.
`RangesInv`: what consumers have taken with `headIndex` is disjoint.
`ProducerInv`: what `enqueue` has at each place.

`IndexInv` is about the ring. `RingInv`: each header, the old ones too, goes over
its entries in the order in which the newest goes over them, up to a shift
(`Agree`), and the newest has the keys in steps of a block back from its tail; so
a consumer that counts entries from the tail of an old header gets to the entry
it means, if that was there when it took the header. `EntryInv` names the one
entry that may have the key of a block that is not linked yet, or, after a
failed allocation, of one that never was; and it says that the slot after the
tail of an index that has just been doubled is fresh.

`BlocksInv` relates the ring to blocks. A position is open until its element is
moved out and counted. `LinkInv`: every block with an open position has one
entry with its key that leads to it, and no entry leads to another block.
`WorkInv`: every block that a consumer still has to visit is in reach of the
header it holds, and the slot it is at has it. `MemoryInv`: a block is in use if
and only if an entry leads to it, the producer is about to link it or a consumer
is about to give it back; it counts its closed positions (a cardinality: the
consumer whose addition makes it `BlockSize` is the last, and the only one to
unlink it), and it has an element exactly where one is stored and not yet moved.
`ItemsInv`: what a consumer has moved out is the beginning of its range. When
the queue is destroyed, `EndInv` takes its place.

The refinement follows from the invariant without a new induction: it makes the
abstract queue the run of numbers from `headIndex` to `tailIndex`, and what a
consumer has been given its whole range (`Strong`). `enqueue` is then a step of
the abstract queue at its store of `tailIndex`, a dequeue at its addition to
`headIndex` and at its return, and every other step a stutter (`FifoStep`).

Only model-checked:

* Liveness: it needs ENABLED, which the provers do not have.
* The three violations, which are counterexamples and need no proof.

## 6. Not modelled, and the plan

Next: what is modelled of the packet queue takes its atomic operations for
sequentially consistent, and the free list of blocks for atomic. `FreeList` is
proved on its own; that `ConcurrentQueue` with `FreeList` in place of its
`Candidates` still implements `BulkQueue` is the composition to state next.

Left out:

* The failing receive: `recvfrom`'s -1 is kept in a `size_t`
  (`ToyVpnServer.h:91`) and what follows reads an endpoint nobody wrote and past
  the end of the buffer: undefined behaviour that an unconnected UDP socket
  hardly gets to.
* A signal in the middle of an operation on an `unordered_map` or of the
  logger: undefined behaviour of the containers.
* Of `libs/concurrentqueue`: explicit producers and tokens, single dequeues,
  several enqueuing threads (the server has one), wrap-around of the counters,
  weak memory. Of `libs/AixLog`: sinks but the console, formats. Of
  `libs/argparse`: subparsers, kinds of arguments `main` does not register, the
  text of the usage.
* `humanize`, the validation of the input and the wording of the parameter
  string: functions without state, which a table of examples tests better.
* Parsing of packets (PcapPlusPlus), layout, theme, wording of log lines.
