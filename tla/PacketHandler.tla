---------------------------- MODULE PacketHandler ----------------------------
(***************************************************************************)
(* The capture of traffic to pcapng files (server/PacketHandler.h): the    *)
(* server's main thread enqueues packets and end-of-session markers in a   *)
(* lock-free queue, a worker thread takes them out in bulk and keeps one   *)
(* file writer per client address, and shutdown joins the worker, either   *)
(* in stop(), called from the SIGINT handler, or in the destructor, on the *)
(* way out of an exception.                                                *)
(*                                                                         *)
(* The packets of an address are numbered in the order handlePacket is     *)
(* called; MaxPackets bounds how many there are.  The queue is the         *)
(* vendored moodycamel queue: FIFO, since only the main thread enqueues.   *)
(*                                                                         *)
(* Both threads write log lines.  The logger is a recursive mutex          *)
(* (libs/AixLog): logLock says which thread holds it across steps.         *)
(***************************************************************************)
EXTENDS Integers, Sequences

CONSTANTS Addresses,        \* internal addresses of clients
          NoAddress,        \* no address
          MaxPackets,       \* bound: packets handed over per address
          DequeueBulkSize   \* m_DequeueBulkSize

ASSUME PacketHandlerAssumption ==
          /\ NoAddress \notin Addresses
          /\ MaxPackets \in Nat /\ DequeueBulkSize \in Nat \ {0}

VARIABLES
    queue,      \* m_PacketQueue
    items,      \* what is left of the worker's current batch
    writers,    \* keys of m_PcapWriters
    usable,     \* those of them whose open() succeeded
    mutating,   \* key the worker is inserting or erasing, else NoAddress
    files,      \* packets in the file of each address
    stopFlag,   \* m_StopFlag
    worker,     \* where the worker thread is
    main,       \* where the main thread is
    logLock,    \* "free" or "main"
    sent,       \* packets handed to handlePacket (history)
    closedAt,   \* sent when clientDisconnected was called (history)
    failed      \* open() failed once (history)

calls == <<sent, closedAt>>
store == <<writers, usable, mutating, files, failed>>
vars == <<queue, items, store, stopFlag, worker, main, logLock, calls>>

Marker == 0                   \* the empty item of clientDisconnected

NotYet == -1                  \* clientDisconnected has not been called

Item == [address : Addresses, body : 0 .. MaxPackets]

WorkerPCs == {"hello", "test", "dequeue", "work", "open", "announce", "write",
              "erase", "bye", "done"}

MainPCs == {"serving", "logging", "stopping", "joining", "stopped", "exiting",
            "gone"}

Init == /\ queue = << >> /\ items = << >>
        /\ writers = {} /\ usable = {} /\ mutating = NoAddress
        /\ files = [a \in Addresses |-> << >>]
        /\ stopFlag = FALSE
        /\ worker = "hello" /\ main = "serving" /\ logLock = "free"
        /\ sent = [a \in Addresses |-> 0]
        /\ closedAt = [a \in Addresses |-> NotYet]
        /\ failed = [a \in Addresses |-> FALSE]

-----------------------------------------------------------------------------
(* The main thread: the calls ToyVpnServer makes. *)

(* From either direction of the tunnel; also for a session that has been   *)
(* closed and not yet reaped, and after stop() for the rest of the events. *)
HandlePacket(a) ==
    /\ main \in {"serving", "stopped"} /\ sent[a] < MaxPackets
    /\ sent' = [sent EXCEPT ![a] = @ + 1]
    /\ queue' = Append(queue, [address |-> a, body |-> sent[a] + 1])
    /\ UNCHANGED <<items, store, stopFlag, worker, main, logLock, closedAt>>

(* What find() on m_PcapWriters may answer: it reads the table without     *)
(* synchronisation, so that it may miss a key while the worker changes the *)
(* table, and may or may not see the key being inserted or erased.         *)
Lookup(a) == IF mutating = NoAddress
             THEN {(a \in writers)}
             ELSE {FALSE, (a \in writers \cup {mutating})}

(* seeded bug: the marker overtakes the packets *)
MarkerFirst(a) == <<[address |-> a, body |-> Marker]>> \o queue

WithMarker(a) == Append(queue, [address |-> a, body |-> Marker])

(* A session is closed at most once (ToyVpnServer!NoReturn). *)
ClientDisconnected(a) ==
    /\ main \in {"serving", "stopping"} /\ closedAt[a] = NotYet
    /\ closedAt' = [closedAt EXCEPT ![a] = sent[a]]
    /\ \E found \in Lookup(a) :
          queue' = IF found THEN WithMarker(a) ELSE queue
    /\ UNCHANGED <<items, store, stopFlag, worker, main, logLock, sent>>

(* A log line of the main thread, of which it has many.                    *)
BeginLog ==
    /\ main = "serving" /\ logLock = "free"
    /\ main' = "logging" /\ logLock' = "main"
    /\ UNCHANGED <<queue, items, store, stopFlag, worker, calls>>

EndLog ==
    /\ main = "logging"
    /\ main' = "serving" /\ logLock' = "free"
    /\ UNCHANGED <<queue, items, store, stopFlag, worker, calls>>

(* SIGINT: the handler runs ToyVpnServer::stop on the main thread, also in *)
(* the middle of a log line, whose mutex the thread then keeps.            *)
Interrupt ==
    /\ main \in {"serving", "logging"}
    /\ main' = "stopping"
    /\ UNCHANGED <<queue, items, store, stopFlag, worker, logLock, calls>>

(* seeded bug: stop() joins without telling the worker *)
NoStopFlag == stopFlag' = stopFlag

SetStopFlag == stopFlag' = TRUE

Stop ==
    /\ main = "stopping"
    /\ SetStopFlag
    /\ main' = "joining"
    /\ UNCHANGED <<queue, items, store, worker, logLock, calls>>

(* The join of stop() returns; the interrupted code goes on.               *)
Joined ==
    /\ main = "joining" /\ worker = "done"
    /\ main' = "stopped" /\ logLock' = "free"
    /\ UNCHANGED <<queue, items, store, stopFlag, worker, calls>>

(* start() has returned, or thrown: the destructor runs.                   *)
Exit ==
    /\ main \in {"serving", "stopped"}
    /\ main' = "exiting"
    /\ UNCHANGED <<queue, items, store, stopFlag, worker, logLock, calls>>

(* ~PacketHandler joins a thread that nobody joined, then the members go:  *)
(* the writers close their files.                                          *)
Destroyed ==
    /\ main = "exiting" /\ worker = "done"
    /\ main' = "gone" /\ writers' = {} /\ usable' = {}
    /\ UNCHANGED <<queue, items, mutating, files, failed, stopFlag, worker,
                   logLock, calls>>

-----------------------------------------------------------------------------
(* The worker thread, run(). *)

(* A log line of the worker: it waits for the mutex. *)
CanLog == logLock = "free"

Hello ==
    /\ worker = "hello" /\ CanLog
    /\ worker' = "test"
    /\ UNCHANGED <<queue, items, store, stopFlag, main, logLock, calls>>

(* seeded bug: an empty queue ends the loop *)
LoopWhileBusy == ~stopFlag /\ queue # << >>

LoopCondition == ~stopFlag

Test ==
    /\ worker = "test"
    /\ worker' = IF LoopCondition THEN "dequeue" ELSE "bye"
    /\ UNCHANGED <<queue, items, store, stopFlag, main, logLock, calls>>

BulkCount == IF Len(queue) < DequeueBulkSize THEN Len(queue) ELSE DequeueBulkSize

DequeueBulk ==
    /\ worker = "dequeue"
    /\ items' = SubSeq(queue, 1, BulkCount)
    /\ queue' = SubSeq(queue, BulkCount + 1, Len(queue))
    /\ worker' = "work"
    /\ UNCHANGED <<store, stopFlag, main, logLock, calls>>

(* The end of a batch; the sleep of 100 ms is not modelled as a state.     *)
BatchDone ==
    /\ worker = "work" /\ items = << >>
    /\ worker' = "test"
    /\ UNCHANGED <<queue, items, store, stopFlag, main, logLock, calls>>

(* The next item decides: a marker removes a writer, a packet is written,  *)
(* by a writer made for it if there is none.  removePcapWriter looks for   *)
(* the writer first, and erasing an absent key would change nothing.       *)
BeginErase ==
    /\ worker = "work" /\ items # << >>
    /\ Head(items).body = Marker
    /\ mutating' = Head(items).address /\ worker' = "erase"
    /\ UNCHANGED <<queue, items, writers, usable, files, failed, stopFlag, main,
                   logLock, calls>>

(* seeded bug: the file is closed, the entry stays *)
KeepWriter(a) == writers' = writers /\ usable' = usable \ {a}

(* seeded bug: the entry goes, the open device does not *)
LeakDevice(a) == writers' = writers \ {a} /\ usable' = usable

EraseWriter(a) == writers' = writers \ {a} /\ usable' = usable \ {a}

RemovePcapWriter ==
    /\ worker = "erase"
    /\ EraseWriter(mutating)
    /\ mutating' = NoAddress /\ items' = Tail(items) /\ worker' = "work"
    /\ UNCHANGED <<queue, files, failed, stopFlag, main, logLock, calls>>

FindPcapWriter ==
    /\ worker = "work" /\ items # << >>
    /\ Head(items).body # Marker /\ Head(items).address \in writers
    /\ worker' = "write"
    /\ UNCHANGED <<queue, items, store, stopFlag, main, logLock, calls>>

BeginCreate ==
    /\ worker = "work" /\ items # << >>
    /\ Head(items).body # Marker /\ Head(items).address \notin writers
    /\ mutating' = Head(items).address /\ worker' = "open"
    /\ UNCHANGED <<queue, items, writers, usable, files, failed, stopFlag, main,
                   logLock, calls>>

(* open() starts an empty file, whatever the file held. *)
CreatePcapWriter ==
    /\ worker = "open"
    /\ writers' = writers \cup {mutating}
    /\ usable' = usable \cup {mutating}
    /\ files' = [files EXCEPT ![mutating] = << >>]
    /\ mutating' = NoAddress /\ worker' = "announce"
    /\ UNCHANGED <<queue, items, failed, stopFlag, main, logLock, calls>>

(* Nobody looks at what open() returns; the writer stays in the table.     *)
CreatePcapWriterFails ==
    /\ worker = "open"
    /\ writers' = writers \cup {mutating}
    /\ failed' = [failed EXCEPT ![mutating] = TRUE]
    /\ mutating' = NoAddress /\ worker' = "announce"
    /\ UNCHANGED <<queue, items, usable, files, stopFlag, main, logLock, calls>>

Announce ==
    /\ worker = "announce" /\ CanLog
    /\ worker' = "write"
    /\ UNCHANGED <<queue, items, store, stopFlag, main, logLock, calls>>

(* writePacket fails, unnoticed, on a writer that is not open.             *)
WritePacket ==
    /\ worker = "write"
    /\ LET item == Head(items) IN
          files' = IF item.address \in usable
                   THEN [files EXCEPT ![item.address] = Append(@, item.body)]
                   ELSE files
    /\ items' = Tail(items) /\ worker' = "work"
    /\ UNCHANGED <<queue, writers, usable, mutating, failed, stopFlag, main,
                   logLock, calls>>

Bye ==
    /\ worker = "bye" /\ CanLog
    /\ worker' = "done"
    /\ UNCHANGED <<queue, items, store, stopFlag, main, logLock, calls>>

-----------------------------------------------------------------------------
Work == \/ Hello \/ Test \/ DequeueBulk \/ BatchDone
        \/ BeginErase \/ RemovePcapWriter
        \/ FindPcapWriter \/ BeginCreate \/ CreatePcapWriter
        \/ CreatePcapWriterFails \/ Announce \/ WritePacket \/ Bye

(* What the main thread does without waiting for input. *)
Finish == EndLog \/ Stop \/ Joined \/ Destroyed

Next == \/ \E a \in Addresses : HandlePacket(a)
        \/ \E a \in Addresses : ClientDisconnected(a)
        \/ BeginLog \/ Interrupt \/ Exit
        \/ Finish \/ Work

Spec == Init /\ [][Next]_vars

(* Both threads are scheduled, and a thread that waits for the log mutex   *)
(* gets it when it is free over and over.                                  *)
FairSpec == Spec /\ WF_vars(Finish) /\ SF_vars(Work)

-----------------------------------------------------------------------------
(* Properties. *)

TypeOK ==
    /\ queue \in Seq(Item) /\ items \in Seq(Item)
    /\ writers \in SUBSET Addresses /\ usable \in SUBSET writers
    /\ mutating \in Addresses \cup {NoAddress}
    /\ files \in [Addresses -> Seq(1 .. MaxPackets)]
    /\ stopFlag \in BOOLEAN
    /\ worker \in WorkerPCs /\ main \in MainPCs /\ logLock \in {"free", "main"}
    /\ sent \in [Addresses -> 0 .. MaxPackets]
    /\ closedAt \in [Addresses -> 0 .. MaxPackets \cup {NotYet}]
    /\ failed \in [Addresses -> BOOLEAN]

InFlight == items \o queue

(* The places in it of the packets of a. *)
Places(a) == {i \in DOMAIN InFlight :
                 InFlight[i].address = a /\ InFlight[i].body # Marker}

(* If no open() failed, the file of an address and what is still on its    *)
(* way are an unbroken, ordered run of the packets handed over, up to the  *)
(* last one.  The run starts with the first packet, or, when the file was  *)
(* made again, with the first packet after the session was closed (run(),  *)
(* getOrCreatePcapWriter, clientDisconnected).                             *)
IsRun(s, lo) == s = [i \in 1 .. Len(s) |-> lo + i - 1]

CaptureUnbroken ==
    \A a \in Addresses : ~failed[a] =>
        \E lo \in {1, closedAt[a] + 1} \ {NotYet + 1} :
            LET next == lo + Len(files[a]) IN
            /\ IsRun(files[a], lo) /\ next <= sent[a] + 1
            /\ {InFlight[i].body : i \in Places(a)} = next .. sent[a]
            /\ \A i, j \in Places(a) : i < j => InFlight[i].body < InFlight[j].body

(* Every packet handed over is dealt with unless the server stops (run()). *)
PacketsAreTaken ==
    \A a \in Addresses : \A k \in 1 .. MaxPackets :
        (sent[a] = k /\ ~stopFlag) ~>
            (stopFlag \/ \A i \in Places(a) : InFlight[i].body > k)

(* A marker that was enqueued takes effect: the writer goes, unless the    *)
(* server stops (removePcapWriter).                                        *)
MarkersTakeEffect ==
    \A a \in Addresses :
        (\E i \in DOMAIN queue : queue[i] = [address |-> a, body |-> Marker])
            ~> (a \notin writers \/ stopFlag)

(* stop() returns, if the signal did not arrive in the middle of a log     *)
(* line of the main thread (stop(), run()).                                *)
StopReturns == (main = "stopping" /\ logLock = "free") ~> main = "stopped"

(* server/README.md: cleans up configurations upon shutdown.  The process  *)
(* gets past the PacketHandler, to the objects that undo the configuration.*)
ShutdownCompletes == main \in {"stopping", "exiting"} ~> main \in {"stopped", "gone"}
=============================================================================
