------------------------ MODULE PacketHandler_proofs ------------------------
(***************************************************************************)
(* Proofs about PacketHandler, for any number of clients and packets and   *)
(* any size of a batch: no packet of a capture is lost, doubled or out of  *)
(* order, however the two threads interleave.                              *)
(***************************************************************************)
EXTENDS PacketHandler, SequenceTheorems, TLAPS

(* What the worker holds at each stage.                                    *)
WorkerInv ==
    /\ worker \in {"hello", "test", "dequeue", "bye", "done"} => items = << >>
    /\ worker \in {"erase", "open"} =>
          items # << >> /\ mutating = items[1].address
    /\ worker = "erase" => items[1].body = Marker
    /\ worker \in {"open", "announce", "write"} =>
          items # << >> /\ items[1].body # Marker
    /\ worker = "open" => mutating \notin writers
    /\ worker \in {"announce", "write"} => items[1].address \in writers
    /\ main = "gone" => worker = "done"

(* A session is closed in the course of its packets.                       *)
ClosedInv ==
    /\ \A a \in Addresses : closedAt[a] <= sent[a]
    /\ \A a \in writers : ~failed[a] => a \in usable

(* The packets of a in the sequence s are next .. last, in order.          *)
IsPacket(s, a, i) == i \in 1 .. Len(s) /\ s[i].address = a /\ s[i].body # Marker

Carries(s, a, next, last) ==
    /\ \A i \in Nat : IsPacket(s, a, i) => s[i].body \in next .. last
    /\ \A n \in next .. last : \E i \in Nat : IsPacket(s, a, i) /\ s[i].body = n
    /\ \A i, j \in Nat :
         (IsPacket(s, a, i) /\ IsPacket(s, a, j) /\ i < j) => s[i].body < s[j].body

(* A marker of a divides them at the packet that was the last one when the *)
(* session was closed, and that packet or a later one is the next.         *)
IsMarker(s, a, i) == i \in 1 .. Len(s) /\ s[i].address = a /\ s[i].body = Marker

Divides(s, a, next, closed) ==
    \A i \in Nat : IsMarker(s, a, i) =>
        /\ closed # NotYet /\ next <= closed + 1
        /\ \A j \in Nat : IsPacket(s, a, j) /\ j > i => s[j].body > closed
        /\ \A j \in Nat : IsPacket(s, a, j) /\ j < i => s[j].body <= closed

(* A file is made when the first packet is the next to be written, or the  *)
(* first one after the session was closed.                                 *)
Begins(next, closed) == next = 1 \/ (closed # NotYet /\ next = closed + 1)

CaptureInv(a, lo) ==
    LET next == lo + Len(files[a]) IN
    /\ IsRun(files[a], lo) /\ next <= sent[a] + 1
    /\ Carries(InFlight, a, next, sent[a]) /\ Divides(InFlight, a, next, closedAt[a])
    /\ (a \notin writers /\ main # "gone") => Begins(next, closedAt[a])

Starts(a) == {1, closedAt[a] + 1} \ {NotYet + 1}

FilesInv == \A a \in Addresses : ~failed[a] => \E lo \in Starts(a) : CaptureInv(a, lo)

IInv == TypeOK /\ WorkerInv /\ ClosedInv /\ FilesInv

-----------------------------------------------------------------------------
(* How the operations on the queue and on the batch change what is under   *)
(* way: it is appended to, taken from, or passed on as it is.              *)
LEMMA UnderWay ==
  ASSUME NEW S, NEW s \in Seq(S), NEW t \in Seq(S)
  PROVE  /\ s \o t \in Seq(S) /\ Len(s \o t) = Len(s) + Len(t)
         /\ \A i \in 1 .. Len(s) : (s \o t)[i] = s[i]
         /\ \A i \in Len(s) + 1 .. Len(s) + Len(t) : (s \o t)[i] = t[i - Len(s)]
  OBVIOUS

(* What is appended to the queue comes last under way (handlePacket,       *)
(* clientDisconnected).                                                    *)
LEMMA AppendUnderWay ==
  ASSUME NEW S, NEW s \in Seq(S), NEW t \in Seq(S), NEW x \in S
  PROVE  s \o Append(t, x) = Append(s \o t, x)
  <1> DEFINE u == s \o Append(t, x)
             v == Append(s \o t, x)
  <1>1. u \in Seq(S) /\ v \in Seq(S) /\ Len(u) = Len(v)
    OBVIOUS
  <1>2. \A i \in 1 .. Len(u) : u[i] = v[i]
    OBVIOUS
  <1> QED
    BY <1>1, <1>2, SeqEqual

(* What the worker takes from its batch was the first under way.           *)
LEMMA TailUnderWay ==
  ASSUME NEW S, NEW s \in Seq(S), NEW t \in Seq(S), s # << >>
  PROVE  /\ Tail(s) \o t = Tail(s \o t) /\ s \o t # << >>
         /\ (s \o t)[1] = s[1] /\ Head(s) = s[1]
  <1> DEFINE u == Tail(s) \o t
             v == Tail(s \o t)
  <1>1. s \o t # << >> /\ (s \o t)[1] = s[1] /\ Head(s) = s[1] /\ Len(s) \in Nat \ {0}
    OBVIOUS
  <1>2. u \in Seq(S) /\ v \in Seq(S) /\ Len(u) = Len(v)
    BY <1>1
  <1>3. \A i \in 1 .. Len(u) : u[i] = v[i]
    BY <1>1
  <1> QED
    BY <1>1, <1>2, <1>3, SeqEqual

(* Taking a batch out of the queue leaves what is under way as it is (the  *)
(* try_dequeue_bulk of run()).                                             *)
LEMMA BatchUnderWay ==
  ASSUME NEW S, NEW t \in Seq(S), NEW n \in 0 .. Len(t)
  PROVE  /\ SubSeq(t, 1, n) \in Seq(S) /\ SubSeq(t, n + 1, Len(t)) \in Seq(S)
         /\ SubSeq(t, 1, n) \o SubSeq(t, n + 1, Len(t)) = t
  <1> DEFINE u == SubSeq(t, 1, n)
             v == SubSeq(t, n + 1, Len(t))
  <1>1. u \in Seq(S) /\ Len(u) = n /\ \A i \in 1 .. n : u[i] = t[i]
    OBVIOUS
  <1>2. v \in Seq(S) /\ Len(v) = Len(t) - n /\ \A i \in 1 .. Len(t) - n : v[i] = t[n + i]
    OBVIOUS
  <1> HIDE DEF u, v
  <1>3. u \o v \in Seq(S) /\ Len(u \o v) = Len(t)
    BY <1>1, <1>2
  <1>4. \A i \in 1 .. Len(t) : (u \o v)[i] = t[i]
    <2>1. \A i \in 1 .. Len(u) : (u \o v)[i] = u[i]
      BY <1>1, <1>2, UnderWay
    <2>2. \A i \in Len(u) + 1 .. Len(u) + Len(v) : (u \o v)[i] = v[i - Len(u)]
      BY <1>1, <1>2, UnderWay
    <2>3. \A i \in n + 1 .. Len(t) : i - n \in 1 .. Len(t) - n /\ n + (i - n) = i
      OBVIOUS
    <2>4. \A i \in n + 1 .. Len(t) : (u \o v)[i] = t[i]
      BY <1>1, <1>2, <2>2, <2>3
    <2>5. \A i \in 1 .. Len(t) : i \in 1 .. n \/ i \in n + 1 .. Len(t)
      OBVIOUS
    <2> QED
      BY <1>1, <2>1, <2>4, <2>5
  <1>5. u \o v = t
    BY <1>3, <1>4, SeqEqual
  <1> QED
    BY <1>1, <1>2, <1>5 DEF u, v

-----------------------------------------------------------------------------
(* The first item of a batch is one, and so is every other.                *)
LEMMA FirstItem ==
  ASSUME TypeOK, items # << >>
  PROVE  /\ Head(items) = items[1] /\ Tail(items) \in Seq(Item)
         /\ items[1].address \in Addresses /\ items[1].body \in 0 .. MaxPackets
  <1>1. items \in Seq(Item) /\ Len(items) \in Nat \ {0}
    BY DEF TypeOK
  <1>2. Head(items) = items[1] /\ Tail(items) \in Seq(Item) /\ items[1] \in Item
    BY <1>1
  <1> QED
    BY <1>2 DEF Item

(* Every step keeps the types. *)
LEMMA TypeStep ==
  ASSUME TypeOK, WorkerInv, ClosedInv, [Next]_vars
  PROVE  TypeOK'
  <1> USE DEF TypeOK, WorkerInv, WorkerPCs, MainPCs, Marker, NotYet,
       calls, store
  <1>0. /\ items # << >> =>
              /\ Head(items) = items[1] /\ Tail(items) \in Seq(Item)
              /\ items[1].address \in Addresses /\ items[1].body \in 0 .. MaxPackets
        /\ MaxPackets \in Nat /\ DequeueBulkSize \in Nat \ {0} /\ NoAddress \notin Addresses
    BY FirstItem, PacketHandlerAssumption
  <1>1. CASE \E a \in Addresses : HandlePacket(a)
    <2> PICK a \in Addresses : HandlePacket(a)
      BY <1>1
    <2>1. [address |-> a, body |-> sent[a] + 1] \in Item
      BY <1>0 DEF HandlePacket, Item
    <2>2. queue' \in Seq(Item)
      BY <2>1 DEF HandlePacket
    <2> QED
      BY <1>0, <2>2 DEF HandlePacket
  <1>2. CASE \E a \in Addresses : ClientDisconnected(a)
    <2> PICK a \in Addresses : ClientDisconnected(a)
      BY <1>2
    <2>1. [address |-> a, body |-> Marker] \in Item
      BY <1>0 DEF Item
    <2>2. queue' \in Seq(Item)
      <3>1. queue' = queue \/ queue' = Append(queue, [address |-> a, body |-> Marker])
        BY DEF ClientDisconnected, WithMarker
      <3>2. Append(queue, [address |-> a, body |-> Marker]) \in Seq(Item)
        BY <2>1
      <3> QED
        BY <3>1, <3>2, Zenon
    <2> QED
      BY <2>2 DEF ClientDisconnected
  <1>3. CASE BeginLog
    BY <1>3 DEF BeginLog
  <1>4. CASE EndLog
    BY <1>4 DEF EndLog
  <1>5. CASE Interrupt
    BY <1>5 DEF Interrupt
  <1>6. CASE Stop
    BY <1>6 DEF Stop, SetStopFlag
  <1>7. CASE Joined
    BY <1>7 DEF Joined
  <1>8. CASE Exit
    BY <1>8 DEF Exit
  <1>9. CASE Destroyed
    BY <1>9 DEF Destroyed
  <1>10. CASE Hello
    BY <1>10 DEF Hello, CanLog
  <1>11. CASE Test
    BY <1>11 DEF Test, LoopCondition
  <1>12. CASE DequeueBulk
    <2>1. BulkCount \in 0 .. Len(queue)
      BY <1>0 DEF BulkCount
    <2>2. items' \in Seq(Item) /\ queue' \in Seq(Item)
      BY <1>12, <2>1, BatchUnderWay DEF DequeueBulk
    <2> QED
      BY <1>12, <2>2 DEF DequeueBulk
  <1>13. CASE BatchDone
    BY <1>13 DEF BatchDone
  <1>14. CASE BeginErase
    BY <1>0, <1>14 DEF BeginErase
  <1>15. CASE RemovePcapWriter
    BY <1>0, <1>15 DEF RemovePcapWriter, EraseWriter
  <1>16. CASE FindPcapWriter
    BY <1>16 DEF FindPcapWriter
  <1>17. CASE BeginCreate
    BY <1>0, <1>17 DEF BeginCreate
  <1>18. CASE CreatePcapWriter
    BY <1>0, <1>18 DEF CreatePcapWriter
  <1>19. CASE CreatePcapWriterFails
    BY <1>0, <1>19 DEF CreatePcapWriterFails
  <1>20. CASE Announce
    BY <1>20 DEF Announce, CanLog
  <1>21. CASE WritePacket
    <2>1. items[1].body \in 1 .. MaxPackets
      BY <1>0, <1>21 DEF WritePacket
    <2>2. files' \in [Addresses -> Seq(1 .. MaxPackets)]
      <3>1. CASE items[1].address \in usable
        <4>1. files' = [files EXCEPT ![items[1].address] =
                          Append(files[items[1].address], items[1].body)]
          BY <1>0, <1>21, <3>1 DEF WritePacket
        <4>2. Append(files[items[1].address], items[1].body) \in Seq(1 .. MaxPackets)
          BY <1>0, <1>21, <2>1 DEF WritePacket
        <4> QED
          BY <4>1, <4>2
      <3>2. CASE items[1].address \notin usable
        BY <1>0, <1>21, <3>2 DEF WritePacket
      <3> QED
        BY <3>1, <3>2
    <2> QED
      BY <1>0, <1>21, <2>2 DEF WritePacket
  <1>22. CASE Bye
    BY <1>22 DEF Bye, CanLog
  <1>23. CASE UNCHANGED vars
    BY <1>23 DEF vars
  <1> HIDE DEF TypeOK, WorkerInv, WorkerPCs, MainPCs, Marker, NotYet
  <1> QED
    BY <1>1, <1>2, <1>3, <1>4, <1>5, <1>6, <1>7, <1>8, <1>9, <1>10, <1>11, <1>12, <1>13, <1>14, <1>15, <1>16, <1>17, <1>18, <1>19, <1>20, <1>21, <1>22, <1>23
    DEF Next, Finish, Work

(* The worker handles the first item of its batch. *)
LEMMA WorkerStep ==
  ASSUME TypeOK, WorkerInv, [Next]_vars
  PROVE  WorkerInv'
  <1> USE DEF TypeOK, WorkerInv, Marker,
       calls, store
  <1>0. /\ items # << >> =>
              /\ Head(items) = items[1] /\ Tail(items) \in Seq(Item)
              /\ items[1].address \in Addresses /\ items[1].body \in 0 .. MaxPackets
        /\ MaxPackets \in Nat /\ DequeueBulkSize \in Nat \ {0} /\ NoAddress \notin Addresses
    BY FirstItem, PacketHandlerAssumption
  <1>1. CASE \E a \in Addresses : HandlePacket(a)
    <2> PICK a \in Addresses : HandlePacket(a)
      BY <1>1
    <2> QED
      BY DEF HandlePacket
  <1>2. CASE \E a \in Addresses : ClientDisconnected(a)
    <2> PICK a \in Addresses : ClientDisconnected(a)
      BY <1>2
    <2> QED
      BY DEF ClientDisconnected, Lookup, WithMarker
  <1>3. CASE BeginLog
    BY <1>3 DEF BeginLog
  <1>4. CASE EndLog
    BY <1>4 DEF EndLog
  <1>5. CASE Interrupt
    BY <1>5 DEF Interrupt
  <1>6. CASE Stop
    BY <1>6 DEF Stop, SetStopFlag
  <1>7. CASE Joined
    BY <1>7 DEF Joined
  <1>8. CASE Exit
    BY <1>8 DEF Exit
  <1>9. CASE Destroyed
    BY <1>9 DEF Destroyed
  <1>10. CASE Hello
    BY <1>10 DEF Hello, CanLog
  <1>11. CASE Test
    BY <1>11 DEF Test, LoopCondition
  <1>12. CASE DequeueBulk
    BY <1>12 DEF DequeueBulk
  <1>13. CASE BatchDone
    BY <1>13 DEF BatchDone
  <1>14. CASE BeginErase
    BY <1>14 DEF BeginErase
  <1>15. CASE RemovePcapWriter
    BY <1>15 DEF RemovePcapWriter, EraseWriter
  <1>16. CASE FindPcapWriter
    BY <1>16 DEF FindPcapWriter
  <1>17. CASE BeginCreate
    BY <1>17 DEF BeginCreate
  <1>18. CASE CreatePcapWriter
    BY <1>18 DEF CreatePcapWriter
  <1>19. CASE CreatePcapWriterFails
    BY <1>19 DEF CreatePcapWriterFails
  <1>20. CASE Announce
    BY <1>20 DEF Announce, CanLog
  <1>21. CASE WritePacket
    BY <1>21 DEF WritePacket
  <1>22. CASE Bye
    BY <1>22 DEF Bye, CanLog
  <1>23. CASE UNCHANGED vars
    BY <1>23 DEF vars
  <1> HIDE DEF TypeOK, WorkerInv, Marker
  <1> QED
    BY <1>1, <1>2, <1>3, <1>4, <1>5, <1>6, <1>7, <1>8, <1>9, <1>10, <1>11, <1>12, <1>13, <1>14, <1>15, <1>16, <1>17, <1>18, <1>19, <1>20, <1>21, <1>22, <1>23
    DEF Next, Finish, Work

(* Every writer is open unless open() failed. *)
LEMMA ClosedStep ==
  ASSUME TypeOK, WorkerInv, ClosedInv, [Next]_vars
  PROVE  ClosedInv'
  <1> USE DEF TypeOK, WorkerInv, ClosedInv, NotYet,
       calls, store
  <1>0. /\ items # << >> =>
              /\ Head(items) = items[1] /\ Tail(items) \in Seq(Item)
              /\ items[1].address \in Addresses /\ items[1].body \in 0 .. MaxPackets
        /\ MaxPackets \in Nat /\ DequeueBulkSize \in Nat \ {0} /\ NoAddress \notin Addresses
    BY FirstItem, PacketHandlerAssumption
  <1>1. CASE \E a \in Addresses : HandlePacket(a)
    <2> PICK a \in Addresses : HandlePacket(a)
      BY <1>1
    <2>1. sent' = [sent EXCEPT ![a] = sent[a] + 1] /\ UNCHANGED <<closedAt, store>>
      BY DEF HandlePacket
    <2>2. \A b \in Addresses : sent[b] \in Int /\ closedAt[b] \in Int /\ closedAt[b] <= sent[b]
      BY <1>0
    <2>3. \A b \in Addresses : closedAt[b] <= sent'[b]
      BY <2>1, <2>2
    <2> QED
      BY <2>1, <2>3
  <1>2. CASE \E a \in Addresses : ClientDisconnected(a)
    <2> PICK a \in Addresses : ClientDisconnected(a)
      BY <1>2
    <2> QED
      BY DEF ClientDisconnected, Lookup, WithMarker
  <1>3. CASE BeginLog
    BY <1>3 DEF BeginLog
  <1>4. CASE EndLog
    BY <1>4 DEF EndLog
  <1>5. CASE Interrupt
    BY <1>5 DEF Interrupt
  <1>6. CASE Stop
    BY <1>6 DEF Stop, SetStopFlag
  <1>7. CASE Joined
    BY <1>7 DEF Joined
  <1>8. CASE Exit
    BY <1>8 DEF Exit
  <1>9. CASE Destroyed
    BY <1>9 DEF Destroyed
  <1>10. CASE Hello
    BY <1>10 DEF Hello, CanLog
  <1>11. CASE Test
    BY <1>11 DEF Test, LoopCondition
  <1>12. CASE DequeueBulk
    BY <1>12 DEF DequeueBulk
  <1>13. CASE BatchDone
    BY <1>13 DEF BatchDone
  <1>14. CASE BeginErase
    BY <1>14 DEF BeginErase
  <1>15. CASE RemovePcapWriter
    BY <1>15 DEF RemovePcapWriter, EraseWriter
  <1>16. CASE FindPcapWriter
    BY <1>16 DEF FindPcapWriter
  <1>17. CASE BeginCreate
    BY <1>17 DEF BeginCreate
  <1>18. CASE CreatePcapWriter
    BY <1>0, <1>18 DEF CreatePcapWriter
  <1>19. CASE CreatePcapWriterFails
    BY <1>0, <1>19 DEF CreatePcapWriterFails
  <1>20. CASE Announce
    BY <1>20 DEF Announce, CanLog
  <1>21. CASE WritePacket
    BY <1>21 DEF WritePacket
  <1>22. CASE Bye
    BY <1>22 DEF Bye, CanLog
  <1>23. CASE UNCHANGED vars
    BY <1>23 DEF vars
  <1> HIDE DEF TypeOK, WorkerInv, ClosedInv, NotYet
  <1> QED
    BY <1>1, <1>2, <1>3, <1>4, <1>5, <1>6, <1>7, <1>8, <1>9, <1>10, <1>11, <1>12, <1>13, <1>14, <1>15, <1>16, <1>17, <1>18, <1>19, <1>20, <1>21, <1>22, <1>23
    DEF Next, Finish, Work

-----------------------------------------------------------------------------
(* Where packets and markers are in a sequence that has grown ...          *)
LEMMA InLonger ==
  ASSUME NEW s \in Seq(Item), NEW x \in Item, NEW a \in Addresses
  PROVE  LET t == Append(s, x) IN
         /\ t \in Seq(Item) /\ Len(s) \in Nat
         /\ \A i \in 1 .. Len(s) : t[i] = s[i] /\ s[i].body \in Int
         /\ t[Len(s) + 1] = x
         /\ \A i \in Nat : IsPacket(t, a, i) <=>
               \/ IsPacket(s, a, i)
               \/ i = Len(s) + 1 /\ x.address = a /\ x.body # Marker
         /\ \A i \in Nat : IsMarker(t, a, i) <=>
               \/ IsMarker(s, a, i)
               \/ i = Len(s) + 1 /\ x.address = a /\ x.body = Marker
  <1> DEFINE t == Append(s, x)
  <1>1. /\ t \in Seq(Item) /\ Len(s) \in Nat /\ Len(t) = Len(s) + 1
        /\ \A i \in 1 .. Len(s) : t[i] = s[i] /\ s[i] \in Item
        /\ t[Len(s) + 1] = x
    OBVIOUS
  <1>2. \A i \in 1 .. Len(s) : s[i].body \in Int
    BY <1>1, PacketHandlerAssumption DEF Item
  <1> HIDE DEF t
  <1>3. \A i \in Nat : i \in 1 .. Len(t) <=> (i \in 1 .. Len(s) \/ i = Len(s) + 1)
    BY <1>1
  <1>4. \A i \in Nat : IsPacket(t, a, i) <=>
           \/ IsPacket(s, a, i)
           \/ i = Len(s) + 1 /\ x.address = a /\ x.body # Marker
    BY <1>1, <1>3 DEF IsPacket
  <1>5. \A i \in Nat : IsMarker(t, a, i) <=>
           \/ IsMarker(s, a, i)
           \/ i = Len(s) + 1 /\ x.address = a /\ x.body = Marker
    BY <1>1, <1>3 DEF IsMarker
  <1> QED
    BY <1>1, <1>2, <1>4, <1>5 DEF t

(* ... and in one that has lost its head.                                  *)
LEMMA InTail ==
  ASSUME NEW s \in Seq(Item), s # << >>, NEW a \in Addresses
  PROVE  LET t == Tail(s) IN
         /\ t \in Seq(Item) /\ s[1].body \in Int
         /\ \A i \in Nat : IsPacket(t, a, i) <=> (i # 0 /\ IsPacket(s, a, i + 1))
         /\ \A i \in Nat : IsMarker(t, a, i) <=> (i # 0 /\ IsMarker(s, a, i + 1))
         /\ \A i \in Nat : IsPacket(t, a, i) => t[i] = s[i + 1] /\ s[i + 1].body \in Int
  <1> DEFINE t == Tail(s)
  <1>1. /\ t \in Seq(Item) /\ Len(t) = Len(s) - 1 /\ Len(s) \in Nat \ {0}
        /\ \A i \in 1 .. Len(t) : t[i] = s[i + 1]
        /\ \A i \in 1 .. Len(s) : s[i] \in Item
    OBVIOUS
  <1>2. \A i \in 1 .. Len(s) : s[i].body \in Int
    BY <1>1, PacketHandlerAssumption DEF Item
  <1> HIDE DEF t
  <1>3. \A i \in Nat : i \in 1 .. Len(t) <=> (i # 0 /\ i + 1 \in 1 .. Len(s))
    BY <1>1
  <1>4. \A i \in Nat : IsPacket(t, a, i) <=> (i # 0 /\ IsPacket(s, a, i + 1))
    BY <1>1, <1>3 DEF IsPacket
  <1>5. \A i \in Nat : IsMarker(t, a, i) <=> (i # 0 /\ IsMarker(s, a, i + 1))
    BY <1>1, <1>3 DEF IsMarker
  <1>6. \A i \in Nat : IsPacket(t, a, i) => t[i] = s[i + 1] /\ s[i + 1].body \in Int
    BY <1>1, <1>2, <1>3 DEF IsPacket
  <1>7. s[1].body \in Int
    BY <1>1, <1>2
  <1> QED
    BY <1>1, <1>4, <1>5, <1>6, <1>7 DEF t

(* An empty run, and a run made longer.                                    *)
LEMMA LongerRun ==
  ASSUME NEW lo \in Int, NEW f \in Seq(Int), IsRun(f, lo)
  PROVE  IsRun(Append(f, lo + Len(f)), lo)
  <1> DEFINE g == Append(f, lo + Len(f))
             h == [i \in 1 .. Len(g) |-> lo + i - 1]
  <1>1. g \in Seq(Int) /\ Len(g) = Len(f) + 1 /\ Len(f) \in Nat
    OBVIOUS
  <1>2. h \in Seq(Int) /\ Len(h) = Len(g)
    BY <1>1
  <1>3. \A i \in 1 .. Len(f) : f[i] = lo + i - 1
    BY DEF IsRun
  <1>4. \A i \in 1 .. Len(g) : g[i] = h[i]
    BY <1>1, <1>3
  <1>5. g = h
    BY <1>1, <1>2, <1>4, SeqEqual
  <1> QED
    BY <1>5 DEF IsRun

(* What is under way is a sequence of items, and what the operations of    *)
(* the two threads make of it.                                             *)
LEMMA InFlightItems ==
  ASSUME TypeOK
  PROVE  /\ InFlight \in Seq(Item)
         /\ items # << >> => InFlight # << >> /\ InFlight[1] = items[1]
  <1>1. items \in Seq(Item) /\ queue \in Seq(Item)
    BY DEF TypeOK
  <1>2. InFlight \in Seq(Item)
    BY <1>1, UnderWay DEF InFlight
  <1> QED
    BY <1>1, <1>2, TailUnderWay DEF InFlight

(* A step of the worker that is done with an item takes the first one.     *)
LEMMA InFlightTakes ==
  ASSUME TypeOK, items # << >>, items' = Tail(items), queue' = queue
  PROVE  InFlight' = Tail(InFlight)
  <1>1. items \in Seq(Item) /\ queue \in Seq(Item)
    BY DEF TypeOK
  <1> QED
    BY <1>1, TailUnderWay DEF InFlight

(* A call of the main thread that enqueues an item appends it.             *)
LEMMA InFlightGrows ==
  ASSUME TypeOK, NEW x \in Item, items' = items, queue' = Append(queue, x)
  PROVE  InFlight' = Append(InFlight, x)
  <1>1. items \in Seq(Item) /\ queue \in Seq(Item)
    BY DEF TypeOK
  <1> QED
    BY <1>1, AppendUnderWay DEF InFlight

(* A new batch changes nothing under way.                                  *)
LEMMA InFlightStays ==
  ASSUME TypeOK, WorkerInv, DequeueBulk
  PROVE  InFlight' = InFlight
  <1>1. items = << >> /\ queue \in Seq(Item)
    BY DEF TypeOK, WorkerInv, DequeueBulk
  <1>2. BulkCount \in 0 .. Len(queue)
    BY <1>1, PacketHandlerAssumption DEF BulkCount
  <1>3. items' \o queue' = queue
    BY <1>1, <1>2, BatchUnderWay DEF DequeueBulk
  <1>4. << >> \o queue = queue
    BY <1>1
  <1> QED
    BY <1>1, <1>3, <1>4 DEF InFlight

(* A step that changes nothing of the capture of a.                        *)
LEMMA SameFile ==
  ASSUME NEW a \in Addresses, NEW lo, CaptureInv(a, lo), InFlight' = InFlight,
         files'[a] = files[a], sent'[a] = sent[a], closedAt'[a] = closedAt[a],
         (a \notin writers' /\ main' # "gone") => (a \notin writers /\ main # "gone")
  PROVE  CaptureInv(a, lo)'
  BY DEF CaptureInv

-----------------------------------------------------------------------------
(* A packet more: the next number, at the end.                             *)
LEMMA CarriesMore ==
  ASSUME NEW s \in Seq(Item), NEW x \in Item, NEW a \in Addresses,
         NEW next \in Int, NEW last \in Nat, Carries(s, a, next, last),
         x.address = a, x.body = last + 1, next <= last + 1
  PROVE  Carries(Append(s, x), a, next, last + 1)
  <1> DEFINE t == Append(s, x)
  <1>1. /\ Len(s) \in Nat
        /\ \A i \in 1 .. Len(s) : t[i] = s[i] /\ s[i].body \in Int
        /\ t[Len(s) + 1].body = last + 1
        /\ \A i \in Nat : IsPacket(t, a, i) <=> (IsPacket(s, a, i) \/ i = Len(s) + 1)
    BY InLonger DEF Marker
  <1>2. \A i \in Nat : IsPacket(s, a, i) => i \in 1 .. Len(s)
    BY DEF IsPacket
  <1> HIDE DEF t
  <1>3. ASSUME NEW i \in Nat, IsPacket(t, a, i) PROVE t[i].body \in next .. last + 1
    <2>1. CASE IsPacket(s, a, i)
      BY <1>1, <1>2, <2>1 DEF Carries
    <2>2. CASE i = Len(s) + 1
      BY <1>1, <1>3, <2>2
    <2> QED
      BY <1>1, <1>3, <2>1, <2>2
  <1>4. ASSUME NEW n \in next .. last + 1
        PROVE  \E i \in Nat : IsPacket(t, a, i) /\ t[i].body = n
    <2>1. CASE n = last + 1
      BY <1>1, <2>1
    <2>2. CASE n # last + 1
      <3>1. PICK i \in Nat : IsPacket(s, a, i) /\ s[i].body = n
        BY <2>2 DEF Carries
      <3> QED
        BY <1>1, <1>2, <3>1
    <2> QED
      BY <2>1, <2>2
  <1>5. ASSUME NEW i \in Nat, NEW j \in Nat, IsPacket(t, a, i), IsPacket(t, a, j), i < j
        PROVE  t[i].body < t[j].body
    <2>1. IsPacket(s, a, i) /\ i \in 1 .. Len(s)
      BY <1>1, <1>2, <1>5
    <2>2. s[i].body <= last /\ s[i].body \in Int
      BY <1>1, <2>1 DEF Carries
    <2>3. CASE IsPacket(s, a, j)
      BY <1>1, <1>2, <1>5, <2>1, <2>3 DEF Carries
    <2>4. CASE j = Len(s) + 1
      BY <1>1, <2>1, <2>2, <2>4
    <2> QED
      BY <1>1, <1>5, <2>3, <2>4
  <1> QED
    BY <1>3, <1>4, <1>5 DEF Carries, t

(* Anything else at the end changes nothing.                               *)
LEMMA CarriesOther ==
  ASSUME NEW s \in Seq(Item), NEW x \in Item, NEW a \in Addresses,
         NEW next, NEW last, Carries(s, a, next, last),
         x.address # a \/ x.body = Marker
  PROVE  Carries(Append(s, x), a, next, last)
  <1>1. /\ \A i \in 1 .. Len(s) : Append(s, x)[i] = s[i]
        /\ \A i \in Nat : IsPacket(Append(s, x), a, i) <=> IsPacket(s, a, i)
    BY InLonger
  <1>2. \A i \in Nat : IsPacket(s, a, i) => i \in 1 .. Len(s)
    BY DEF IsPacket
  <1> QED
    BY <1>1, <1>2 DEF Carries

(* What comes after a marker does not disturb it.                          *)
LEMMA DividesMore ==
  ASSUME NEW s \in Seq(Item), NEW x \in Item, NEW a \in Addresses,
         NEW next \in Int, NEW closed \in Int, Divides(s, a, next, closed),
         x.address = a => x.body > closed /\ x.body # Marker
  PROVE  Divides(Append(s, x), a, next, closed)
  <1> DEFINE t == Append(s, x)
  <1>1. /\ Len(s) \in Nat
        /\ \A i \in 1 .. Len(s) : t[i] = s[i]
        /\ t[Len(s) + 1] = x
        /\ \A i \in Nat : IsPacket(t, a, i) =>
               (IsPacket(s, a, i) \/ (i = Len(s) + 1 /\ x.body > closed))
        /\ \A i \in Nat : IsMarker(t, a, i) => IsMarker(s, a, i)
    BY InLonger
  <1>2. \A i \in Nat : IsPacket(s, a, i) \/ IsMarker(s, a, i) => i \in 1 .. Len(s)
    BY DEF IsPacket, IsMarker
  <1> HIDE DEF t
  <1>3. ASSUME NEW i \in Nat, IsMarker(t, a, i)
        PROVE  /\ closed # NotYet /\ next <= closed + 1
               /\ \A j \in Nat : IsPacket(t, a, j) /\ j > i => t[j].body > closed
               /\ \A j \in Nat : IsPacket(t, a, j) /\ j < i => t[j].body <= closed
    <2>1. IsMarker(s, a, i) /\ i \in 1 .. Len(s)
      BY <1>1, <1>2, <1>3
    <2>2. \A j \in Nat : IsPacket(t, a, j) /\ j > i => t[j].body > closed
      BY <1>1, <1>2, <2>1 DEF Divides
    <2>3. \A j \in Nat : IsPacket(t, a, j) /\ j < i => t[j].body <= closed
      BY <1>1, <1>2, <2>1 DEF Divides
    <2> QED
      BY <2>1, <2>2, <2>3 DEF Divides
  <1> QED
    BY <1>3 DEF Divides, t

(* The marker comes after all that was handed over.                        *)
LEMMA DividesMarker ==
  ASSUME NEW s \in Seq(Item), NEW x \in Item, NEW a \in Addresses,
         NEW next \in Int, NEW last \in Nat, Carries(s, a, next, last),
         Divides(s, a, next, NotYet), next <= last + 1, x.body = Marker
  PROVE  Divides(Append(s, x), a, next, last)
  <1> DEFINE t == Append(s, x)
  <1>1. /\ Len(s) \in Nat
        /\ \A i \in 1 .. Len(s) : t[i] = s[i]
        /\ \A i \in Nat : IsPacket(t, a, i) <=> IsPacket(s, a, i)
        /\ \A i \in Nat : IsMarker(t, a, i) => (IsMarker(s, a, i) \/ i = Len(s) + 1)
    BY InLonger
  <1>2. \A i \in Nat : IsPacket(s, a, i) => i \in 1 .. Len(s) /\ s[i].body <= last
    BY DEF IsPacket, Carries
  <1>3. \A i \in Nat : ~IsMarker(s, a, i)
    BY DEF Divides
  <1> HIDE DEF t
  <1>4. last # NotYet
    BY DEF NotYet
  <1> QED
    BY <1>1, <1>2, <1>3, <1>4 DEF Divides, t

-----------------------------------------------------------------------------
(* If the head is no packet of a, the tail carries what there was ...      *)
LEMMA TailCarries ==
  ASSUME NEW s \in Seq(Item), s # << >>, NEW a \in Addresses,
         NEW next, NEW last, Carries(s, a, next, last), ~IsPacket(s, a, 1)
  PROVE  Carries(Tail(s), a, next, last)
  <1> DEFINE t == Tail(s)
  <1>1. /\ \A i \in Nat : IsPacket(t, a, i) <=> (i # 0 /\ IsPacket(s, a, i + 1))
        /\ \A i \in Nat : IsPacket(t, a, i) => t[i] = s[i + 1]
    BY InTail
  <1>2. \A i \in Nat : IsPacket(s, a, i) => i - 1 \in Nat \ {0} /\ (i - 1) + 1 = i
    BY DEF IsPacket
  <1> HIDE DEF t
  <1>3. \A i \in Nat : IsPacket(t, a, i) => t[i].body \in next .. last
    BY <1>1 DEF Carries
  <1>4. ASSUME NEW n \in next .. last
        PROVE  \E i \in Nat : IsPacket(t, a, i) /\ t[i].body = n
    <2>1. PICK i \in Nat : IsPacket(s, a, i) /\ s[i].body = n
      BY DEF Carries
    <2>2. IsPacket(t, a, i - 1)
      BY <1>1, <1>2, <2>1
    <2> QED
      BY <1>1, <1>2, <2>1, <2>2
  <1>5. ASSUME NEW i \in Nat, NEW j \in Nat, IsPacket(t, a, i), IsPacket(t, a, j), i < j
        PROVE  t[i].body < t[j].body
    <2>1. i + 1 \in Nat /\ j + 1 \in Nat /\ i + 1 < j + 1
      BY <1>5
    <2> QED
      BY <1>1, <1>5, <2>1 DEF Carries
  <1> QED
    BY <1>3, <1>4, <1>5 DEF Carries, t

(* ... and if it is one, it is the next, and the tail carries the rest.    *)
LEMMA HeadIsNext ==
  ASSUME NEW s \in Seq(Item), s # << >>, NEW a \in Addresses,
         NEW next \in Int, NEW last \in Int, Carries(s, a, next, last), IsPacket(s, a, 1)
  PROVE  /\ s[1].body = next /\ next <= last
         /\ Carries(Tail(s), a, next + 1, last)
  <1> DEFINE t == Tail(s)
  <1>1. /\ \A i \in Nat : IsPacket(t, a, i) <=> (i # 0 /\ IsPacket(s, a, i + 1))
        /\ \A i \in Nat : IsPacket(t, a, i) => t[i] = s[i + 1]
    BY InTail
  <1>2. \A i \in Nat : IsPacket(s, a, i) =>
           i = 1 \/ (1 < i /\ i - 1 \in Nat \ {0} /\ (i - 1) + 1 = i)
    BY DEF IsPacket
  <1> HIDE DEF t
  <1>3. s[1].body \in next .. last
    BY DEF Carries
  <1>4. s[1].body = next
    <2>1. PICK i \in Nat : IsPacket(s, a, i) /\ s[i].body = next
      BY <1>3 DEF Carries
    <2>2. i # 1 => s[1].body < s[i].body
      BY <1>2, <2>1 DEF Carries
    <2> QED
      BY <1>3, <2>1, <2>2
  <1>5. \A i \in Nat : IsPacket(t, a, i) => t[i].body \in next + 1 .. last
    <2>1. \A i \in Nat : IsPacket(t, a, i) =>
             /\ IsPacket(s, a, i + 1) /\ 1 < i + 1 /\ t[i] = s[i + 1]
      BY <1>1
    <2>2. \A i \in Nat : IsPacket(s, a, i) /\ 1 < i => s[i].body \in next .. last /\ next < s[i].body
      BY <1>4 DEF Carries
    <2>3. \A i \in Nat : i + 1 \in Nat
      OBVIOUS
    <2> QED
      BY <2>1, <2>2, <2>3
  <1>6. ASSUME NEW n \in next + 1 .. last
        PROVE  \E i \in Nat : IsPacket(t, a, i) /\ t[i].body = n
    <2>1. PICK i \in Nat : IsPacket(s, a, i) /\ s[i].body = n
      BY DEF Carries
    <2>2. i # 1
      BY <1>4, <2>1
    <2>3. IsPacket(t, a, i - 1)
      BY <1>1, <1>2, <2>1, <2>2
    <2> QED
      BY <1>1, <1>2, <2>1, <2>2, <2>3
  <1>7. ASSUME NEW i \in Nat, NEW j \in Nat, IsPacket(t, a, i), IsPacket(t, a, j), i < j
        PROVE  t[i].body < t[j].body
    <2>1. i + 1 \in Nat /\ j + 1 \in Nat /\ i + 1 < j + 1
      BY <1>7
    <2> QED
      BY <1>1, <1>7, <2>1 DEF Carries
  <1>8. Carries(t, a, next + 1, last)
    BY <1>5, <1>6, <1>7 DEF Carries
  <1> QED
    BY <1>3, <1>4, <1>8 DEF t

(* Markers divide the tail as they divided the whole, and the head, if it  *)
(* is a packet, was before every one of them.                              *)
LEMMA TailDivides ==
  ASSUME NEW s \in Seq(Item), s # << >>, NEW a \in Addresses, NEW next \in Int,
         NEW closed \in Int, Divides(s, a, next, closed),
         NEW after \in {next, next + 1},
         after = next + 1 => IsPacket(s, a, 1) /\ s[1].body = next
  PROVE  Divides(Tail(s), a, after, closed)
  <1> DEFINE t == Tail(s)
  <1>1. /\ \A i \in Nat : IsPacket(t, a, i) <=> (i # 0 /\ IsPacket(s, a, i + 1))
        /\ \A i \in Nat : IsMarker(t, a, i) <=> (i # 0 /\ IsMarker(s, a, i + 1))
        /\ \A i \in Nat : IsPacket(t, a, i) => t[i] = s[i + 1]
    BY InTail
  <1> HIDE DEF t
  <1>2. ASSUME NEW i \in Nat, IsMarker(t, a, i)
        PROVE  /\ closed # NotYet /\ after <= closed + 1
               /\ \A j \in Nat : IsPacket(t, a, j) /\ j > i => t[j].body > closed
               /\ \A j \in Nat : IsPacket(t, a, j) /\ j < i => t[j].body <= closed
    <2>1. IsMarker(s, a, i + 1) /\ i + 1 \in Nat /\ 1 < i + 1
      BY <1>1, <1>2
    <2>2. closed # NotYet /\ next <= closed + 1
      BY <2>1 DEF Divides
    <2>3. after = next + 1 => next <= closed
      BY <2>1 DEF Divides
    <2>4. \A j \in Nat : j + 1 \in Nat /\ (j > i => j + 1 > i + 1) /\ (j < i => j + 1 < i + 1)
      OBVIOUS
    <2>5. \A j \in Nat : IsPacket(t, a, j) /\ j > i => t[j].body > closed
      BY <1>1, <2>1, <2>4 DEF Divides
    <2>6. \A j \in Nat : IsPacket(t, a, j) /\ j < i => t[j].body <= closed
      BY <1>1, <2>1, <2>4 DEF Divides
    <2> QED
      BY <2>2, <2>3, <2>5, <2>6
  <1> QED
    BY <1>2 DEF Divides, t

(* When the marker is reached, all that was handed over before is written. *)
LEMMA MarkerReached ==
  ASSUME NEW s \in Seq(Item), NEW a \in Addresses, NEW next \in Int,
         NEW last \in Int, NEW closed \in Int, closed <= last,
         Carries(s, a, next, last), Divides(s, a, next, closed), IsMarker(s, a, 1)
  PROVE  Begins(next, closed)
  <1>1. closed # NotYet /\ next <= closed + 1
    BY DEF Divides
  <1>2. CASE next <= closed
    <2>1. PICK i \in Nat : IsPacket(s, a, i) /\ s[i].body = next
      BY <1>2 DEF Carries
    <2>2. i > 1
      BY <2>1 DEF IsPacket, IsMarker
    <2>3. s[i].body > closed
      BY <2>1, <2>2 DEF Divides
    <2> QED
      BY <1>2, <2>1, <2>3
  <1> QED
    BY <1>1, <1>2 DEF Begins

-----------------------------------------------------------------------------
(* The files and what is under way, step by step: handlePacket ...         *)
LEMMA HandlePacketFile ==
  ASSUME TypeOK, NEW a \in Addresses, NEW lo \in Int, CaptureInv(a, lo),
         closedAt[a] <= sent[a], NEW b \in Addresses, HandlePacket(b)
  PROVE  CaptureInv(a, lo)'
  <1> DEFINE next == lo + Len(files[a])
             x == [address |-> b, body |-> sent[b] + 1]
  <1>1. /\ sent[a] \in Nat /\ sent[b] \in Nat /\ closedAt[a] \in Int /\ next \in Int
        /\ sent[b] + 1 \in 0 .. MaxPackets /\ sent[b] + 1 # Marker
    BY PacketHandlerAssumption DEF TypeOK, Marker, NotYet, HandlePacket
  <1>2. x \in Item /\ x.address = b /\ x.body = sent[b] + 1 /\ InFlight \in Seq(Item)
    BY <1>1, InFlightItems DEF Item
  <1>3. InFlight' = Append(InFlight, x)
    BY <1>2, InFlightGrows DEF HandlePacket
  <1>4. /\ sent' = [sent EXCEPT ![b] = sent[b] + 1] /\ UNCHANGED <<files, closedAt, writers>>
        /\ main # "gone"
    BY DEF HandlePacket, store
  <1>5. /\ IsRun(files[a], lo) /\ next <= sent[a] + 1
        /\ Carries(InFlight, a, next, sent[a]) /\ Divides(InFlight, a, next, closedAt[a])
        /\ (a \notin writers /\ main # "gone") => Begins(next, closedAt[a])
    BY DEF CaptureInv
  <1>6. next' = next
    BY <1>4
  <1> HIDE DEF x, next
  <1>7. Divides(InFlight', a, next, closedAt[a])
    BY <1>1, <1>2, <1>3, <1>5, DividesMore
  <1>8. Carries(InFlight', a, next, sent'[a]) /\ next <= sent'[a] + 1
    <2>1. CASE a = b
      <3>1. sent'[a] = sent[a] + 1
        BY <1>4, <2>1 DEF TypeOK
      <3> QED
        BY <1>1, <1>2, <1>3, <1>5, <2>1, <3>1, CarriesMore
    <2>2. CASE a # b
      <3>1. sent'[a] = sent[a]
        BY <1>4, <2>2
      <3> QED
        BY <1>1, <1>2, <1>3, <1>5, <2>2, <3>1, CarriesOther
    <2> QED
      BY <2>1, <2>2
  <1> QED
    BY <1>4, <1>5, <1>6, <1>7, <1>8 DEF CaptureInv, next

(* ... clientDisconnected ...                                              *)
LEMMA ClientDisconnectedFile ==
  ASSUME TypeOK, NEW a \in Addresses, NEW lo \in Int, CaptureInv(a, lo),
         NEW b \in Addresses, ClientDisconnected(b)
  PROVE  CaptureInv(a, lo)'
  <1> DEFINE next == lo + Len(files[a])
             x == [address |-> b, body |-> Marker]
  <1>1. /\ sent[a] \in Nat /\ closedAt[a] \in Int /\ next \in Int
        /\ Marker \in 0 .. MaxPackets /\ closedAt[b] = NotYet
    BY PacketHandlerAssumption DEF TypeOK, Marker, NotYet, ClientDisconnected
  <1>2. x \in Item /\ x.address = b /\ x.body = Marker /\ InFlight \in Seq(Item)
    BY <1>1, InFlightItems DEF Item
  <1>3. InFlight' = Append(InFlight, x) \/ InFlight' = InFlight
    <2>1. CASE queue' = Append(queue, x)
      BY <1>2, <2>1, InFlightGrows DEF ClientDisconnected
    <2>2. CASE queue' = queue
      BY <2>2 DEF ClientDisconnected, InFlight
    <2> QED
      BY <2>1, <2>2 DEF ClientDisconnected, WithMarker
  <1>4. /\ closedAt' = [closedAt EXCEPT ![b] = sent[b]] /\ UNCHANGED <<files, sent, writers>>
        /\ main # "gone"
    BY DEF ClientDisconnected, store
  <1>5. /\ IsRun(files[a], lo) /\ next <= sent[a] + 1
        /\ Carries(InFlight, a, next, sent[a]) /\ Divides(InFlight, a, next, closedAt[a])
        /\ (a \notin writers /\ main # "gone") => Begins(next, closedAt[a])
    BY DEF CaptureInv
  <1>6. next' = next
    BY <1>4
  <1>9. a # b => closedAt'[a] = closedAt[a]
    BY <1>4
  <1>10. a = b => closedAt'[a] = sent[a]
    BY <1>4 DEF TypeOK
  <1> HIDE DEF x, next
  <1>7. Carries(InFlight', a, next, sent[a])
    <2>1. CASE InFlight' = InFlight
      BY <1>5, <2>1
    <2>2. CASE InFlight' = Append(InFlight, x)
      BY <1>2, <1>5, <2>2, CarriesOther
    <2> QED
      BY <1>3, <2>1, <2>2
  <1>8. Divides(InFlight', a, next, closedAt'[a])
    <2>1. CASE a # b
      <3>1. CASE InFlight' = InFlight
        BY <1>5, <1>9, <2>1, <3>1
      <3>2. CASE InFlight' = Append(InFlight, x)
        BY <1>1, <1>2, <1>5, <1>9, <2>1, <3>2, DividesMore
      <3> QED
        BY <1>3, <3>1, <3>2
    <2>2. CASE a = b
      <3>1. CASE InFlight' = InFlight
        BY <1>1, <1>5, <2>2, <3>1 DEF Divides
      <3>2. CASE InFlight' = Append(InFlight, x)
        BY <1>1, <1>2, <1>5, <1>10, <2>2, <3>2, DividesMarker
      <3> QED
        BY <1>3, <3>1, <3>2
    <2> QED
      BY <2>1, <2>2
  <1>11. a \notin writers => Begins(next, closedAt'[a])
    BY <1>1, <1>4, <1>5, <1>9 DEF Begins
  <1> QED
    BY <1>4, <1>5, <1>6, <1>7, <1>8, <1>11 DEF CaptureInv, next

(* ... and the worker taking its next item, be it a marker, whose writer   *)
(* goes ...                                                                *)
LEMMA RemovePcapWriterFile ==
  ASSUME TypeOK, WorkerInv, NEW a \in Addresses, NEW lo \in Int, CaptureInv(a, lo),
         closedAt[a] <= sent[a], RemovePcapWriter
  PROVE  CaptureInv(a, lo)'
  <1> DEFINE next == lo + Len(files[a])
  <1>1. /\ items # << >> /\ items[1].body = Marker /\ mutating = items[1].address
        /\ items' = Tail(items) /\ queue' = queue
        /\ writers' = writers \ {mutating} /\ UNCHANGED <<files, sent, closedAt, main>>
    BY DEF RemovePcapWriter, EraseWriter, WorkerInv, calls
  <1>2. InFlight' = Tail(InFlight) /\ InFlight \in Seq(Item) /\ InFlight # << >>
        /\ InFlight[1] = items[1]
    BY <1>1, InFlightTakes, InFlightItems
  <1>3. sent[a] \in Int /\ closedAt[a] \in Int /\ next \in Int
    BY DEF TypeOK, NotYet
  <1>4. /\ IsRun(files[a], lo) /\ next <= sent[a] + 1
        /\ Carries(InFlight, a, next, sent[a]) /\ Divides(InFlight, a, next, closedAt[a])
        /\ (a \notin writers /\ main # "gone") => Begins(next, closedAt[a])
    BY DEF CaptureInv
  <1>5. next' = next
    BY <1>1
  <1> HIDE DEF next
  <1>6. Carries(InFlight', a, next, sent[a])
    BY <1>1, <1>2, <1>4, TailCarries DEF IsPacket
  <1>7. Divides(InFlight', a, next, closedAt[a])
    <2>1. Divides(InFlight, a, next, closedAt[a]) /\ next \in {next, next + 1}
          /\ next # next + 1
      BY <1>3, <1>4
    <2> QED
      BY <1>2, <1>3, <2>1, TailDivides
  <1>8. a = mutating => Begins(next, closedAt[a])
    <2>1. a = mutating => IsMarker(InFlight, a, 1)
      BY <1>1, <1>2 DEF IsMarker
    <2> QED
      BY <1>2, <1>3, <1>4, <2>1, MarkerReached
  <1> QED
    BY <1>1, <1>4, <1>5, <1>6, <1>7, <1>8 DEF CaptureInv, next

(* ... or a packet, for which a file may be made ...                       *)
LEMMA CreatePcapWriterFile ==
  ASSUME TypeOK, WorkerInv, NEW a \in Addresses, NEW lo \in Starts(a), CaptureInv(a, lo),
         CreatePcapWriter
  PROVE  \E first \in Starts(a)' : CaptureInv(a, first)'
  <1>1. /\ writers' = writers \cup {mutating} /\ mutating \notin writers
        /\ files' = [files EXCEPT ![mutating] = << >>]
        /\ UNCHANGED <<items, queue, sent, closedAt, main>> /\ main # "gone"
    BY DEF CreatePcapWriter, WorkerInv, calls
  <1>2. InFlight' = InFlight /\ Starts(a)' = Starts(a)
    BY <1>1 DEF InFlight, Starts
  <1>3. CASE a # mutating
    <2>1. files'[a] = files[a]
      BY <1>1, <1>3
    <2>2. (a \notin writers' /\ main' # "gone") => (a \notin writers /\ main # "gone")
      BY <1>1
    <2>3. CaptureInv(a, lo)'
      BY <1>1, <1>2, <2>1, <2>2, SameFile
    <2> QED
      BY <1>2, <2>3
  <1>4. CASE a = mutating
    <2> DEFINE next == lo + Len(files[a])
    <2>1. next \in Int /\ closedAt[a] \in Int
      BY DEF TypeOK, Starts, NotYet
    <2>2. /\ next <= sent[a] + 1 /\ Begins(next, closedAt[a])
          /\ Carries(InFlight, a, next, sent[a]) /\ Divides(InFlight, a, next, closedAt[a])
      BY <1>1, <1>4 DEF CaptureInv
    <2>3. next \in Starts(a)
      BY <2>1, <2>2 DEF Begins, Starts, NotYet
    <2>4. files'[a] = << >>
      BY <1>1, <1>4 DEF TypeOK
    <2>5. next + Len(files'[a]) = next /\ IsRun(files'[a], next)
      <3>1. << >> = [i \in 1 .. Len(<< >>) |-> next + i - 1]
        OBVIOUS
      <3> QED
        BY <2>1, <2>4, <3>1 DEF IsRun
    <2> HIDE DEF next
    <2>6. \A first : first = next => CaptureInv(a, first)'
      BY <1>1, <1>2, <1>4, <2>2, <2>5 DEF CaptureInv
    <2> QED
      BY <1>2, <2>3, <2>6
  <1> QED
    BY <1>3, <1>4

(* ... and to whose file it is appended.                                   *)
LEMMA WritePacketFile ==
  ASSUME TypeOK, WorkerInv, ClosedInv, NEW a \in Addresses, ~failed[a],
         NEW lo \in Int, CaptureInv(a, lo), WritePacket
  PROVE  CaptureInv(a, lo)'
  <1> DEFINE next == lo + Len(files[a])
  <1>1. /\ items # << >> /\ items[1].body # Marker /\ items[1].address \in writers
        /\ items' = Tail(items) /\ queue' = queue /\ Head(items) = items[1]
        /\ UNCHANGED <<writers, sent, closedAt, main>>
    BY FirstItem DEF WritePacket, WorkerInv, calls
  <1>2. InFlight' = Tail(InFlight) /\ InFlight \in Seq(Item) /\ InFlight # << >>
        /\ InFlight[1] = items[1]
    BY <1>1, InFlightTakes, InFlightItems
  <1>3. sent[a] \in Int /\ closedAt[a] \in Int /\ next \in Int /\ Len(files[a]) \in Nat
    BY DEF TypeOK, NotYet
  <1>4. /\ IsRun(files[a], lo) /\ next <= sent[a] + 1
        /\ Carries(InFlight, a, next, sent[a]) /\ Divides(InFlight, a, next, closedAt[a])
        /\ (a \notin writers /\ main # "gone") => Begins(next, closedAt[a])
    BY DEF CaptureInv
  <1>5. CASE items[1].address # a
    <2>1. files'[a] = files[a]
      BY <1>1, <1>5 DEF WritePacket
    <2>2. next' = next
      BY <2>1
    <2>3. ~IsPacket(InFlight, a, 1)
      BY <1>2, <1>5 DEF IsPacket
    <2> HIDE DEF next
    <2>4. Carries(InFlight', a, next, sent[a])
      BY <1>2, <1>4, <2>3, TailCarries
    <2>5. Divides(InFlight', a, next, closedAt[a])
      BY <1>2, <1>3, <1>4, TailDivides
    <2> QED
      BY <1>1, <1>4, <2>1, <2>2, <2>4, <2>5 DEF CaptureInv, next
  <1>6. CASE items[1].address = a
    <2>1. a \in usable
      BY <1>1, <1>6 DEF ClosedInv
    <2>2. files'[a] = Append(files[a], items[1].body)
      BY <1>1, <1>6, <2>1 DEF WritePacket, TypeOK
    <2>3. IsPacket(InFlight, a, 1)
      <3>1. 1 \in 1 .. Len(InFlight)
        BY <1>2
      <3> QED
        BY <1>1, <1>2, <1>6, <3>1 DEF IsPacket
    <2>4. /\ items[1].body = next /\ next <= sent[a]
          /\ Carries(Tail(InFlight), a, next + 1, sent[a])
      BY <1>2, <1>3, <1>4, <2>3, HeadIsNext
    <2>5. Divides(Tail(InFlight), a, next + 1, closedAt[a])
      BY <1>2, <1>3, <1>4, <2>3, <2>4, TailDivides
    <2>6. files[a] \in Seq(Int) /\ Len(files[a]) \in Nat
      <3>1. files[a] \in Seq(1 .. MaxPackets)
        BY DEF TypeOK
      <3>2. Len(files[a]) \in Nat
        BY <3>1
      <3>3. [i \in 1 .. Len(files[a]) |-> lo + i - 1] \in Seq(Int)
        BY <1>3, <3>2
      <3> QED
        BY <1>4, <3>2, <3>3 DEF IsRun
    <2>7. IsRun(files'[a], lo) /\ Len(files'[a]) = Len(files[a]) + 1
      <3>1. files'[a] = Append(files[a], lo + Len(files[a]))
        BY <2>2, <2>4
      <3>2. lo \in Int
        BY <1>3
      <3>3. IsRun(Append(files[a], lo + Len(files[a])), lo)
        BY <1>4, <2>6, <3>2, LongerRun
      <3>4. Len(Append(files[a], lo + Len(files[a]))) = Len(files[a]) + 1
        BY <2>6
      <3> QED
        BY <3>1, <3>3, <3>4
    <2>8. lo + Len(files'[a]) = next + 1 /\ next + 1 <= sent[a] + 1
      BY <1>3, <2>4, <2>7
    <2>9. a \in writers'
      BY <1>1, <1>6
    <2> HIDE DEF next
    <2> QED
      BY <1>1, <1>2, <2>4, <2>5, <2>7, <2>8, <2>9 DEF CaptureInv
  <1> QED
    BY <1>5, <1>6

(* Every step keeps every capture whose file could be opened.              *)
LEMMA FilesStep ==
  ASSUME TypeOK, WorkerInv, ClosedInv, FilesInv, [Next]_vars
  PROVE  FilesInv'
  <1> SUFFICES ASSUME NEW a \in Addresses, ~failed'[a]
               PROVE  \E lo \in Starts(a)' : CaptureInv(a, lo)'
    BY DEF FilesInv
  <1>1. CASE CreatePcapWriterFails
    <2>1. /\ failed' = [failed EXCEPT ![mutating] = TRUE] /\ writers' = writers \cup {mutating}
          /\ UNCHANGED <<files, items, queue, sent, closedAt, main>>
      BY <1>1 DEF CreatePcapWriterFails, calls
    <2>2. ~failed[a]
      BY <2>1 DEF TypeOK
    <2>3. PICK lo \in Starts(a) : CaptureInv(a, lo)
      BY <2>2 DEF FilesInv
    <2>4. CaptureInv(a, lo)'
      BY <2>1, <2>3, SameFile DEF InFlight
    <2> QED
      BY <2>1, <2>3, <2>4 DEF Starts
  <1>2. CASE ~CreatePcapWriterFails
    <2>1. failed' = failed
      BY <1>2 DEF Next, Finish, Work, vars, store, HandlePacket, ClientDisconnected,
                  BeginLog, EndLog, Interrupt, Stop, Joined, Exit, Destroyed, Hello, Test,
                  DequeueBulk, BatchDone, BeginErase, RemovePcapWriter, FindPcapWriter,
                  BeginCreate, CreatePcapWriter, Announce, WritePacket, Bye
    <2>2. PICK lo \in Starts(a) : CaptureInv(a, lo)
      BY <2>1 DEF FilesInv
    <2>3. lo \in Int /\ closedAt[a] <= sent[a] /\ ~failed[a]
      BY <2>1 DEF Starts, ClosedInv, TypeOK, NotYet
    <2>4. CASE CreatePcapWriter
      BY <2>2, <2>4, CreatePcapWriterFile
    <2>5. CASE ~CreatePcapWriter
      <3>1. CASE \E b \in Addresses : ClientDisconnected(b)
        <4> PICK b \in Addresses : ClientDisconnected(b)
          BY <3>1
        <4>1. CaptureInv(a, lo)'
          BY <2>2, <2>3, ClientDisconnectedFile
        <4>2. a # b => closedAt'[a] = closedAt[a]
          BY DEF ClientDisconnected
        <4>3. a = b => lo = 1 /\ closedAt'[a] + 1 # NotYet + 1
          BY <2>2 DEF ClientDisconnected, Starts, TypeOK, NotYet
        <4>4. lo \in Starts(a)'
          BY <2>2, <4>2, <4>3 DEF Starts, NotYet
        <4> QED
          BY <4>1, <4>4
      <3>2. CASE ~ \E b \in Addresses : ClientDisconnected(b)
        <4>1. closedAt' = closedAt
          BY <1>2, <2>5, <3>2
             DEF Next, Finish, Work, vars, calls, HandlePacket,
                  BeginLog, EndLog, Interrupt, Stop, Joined, Exit, Destroyed, Hello, Test,
                  DequeueBulk, BatchDone, BeginErase, RemovePcapWriter, FindPcapWriter,
                  BeginCreate, Announce, WritePacket, Bye
        <4>2. CaptureInv(a, lo)'
          <5>1. CASE \E b \in Addresses : HandlePacket(b)
            BY <2>2, <2>3, <5>1, HandlePacketFile
          <5>2. CASE RemovePcapWriter
            BY <2>2, <2>3, <5>2, RemovePcapWriterFile
          <5>3. CASE WritePacket
            BY <2>2, <2>3, <5>3, WritePacketFile
          <5>4. CASE DequeueBulk
            BY <2>2, <5>4, InFlightStays, SameFile DEF DequeueBulk, store, calls
          <5>5. CASE Destroyed
            BY <2>2, <5>5, SameFile DEF Destroyed, InFlight, calls
          <5>6. CASE \/ BeginLog \/ EndLog \/ Interrupt \/ Stop \/ Joined \/ Exit
                     \/ Hello \/ Test \/ BatchDone \/ BeginErase \/ FindPcapWriter
                     \/ BeginCreate \/ Announce \/ Bye \/ UNCHANGED vars
            <6>1. /\ UNCHANGED <<items, queue, files, sent, closedAt, writers>>
                  /\ main' # "gone" => main # "gone"
              BY <5>6 DEF BeginLog, EndLog, Interrupt, Stop, Joined, Exit, Hello, Test,
                          BatchDone, BeginErase, FindPcapWriter, BeginCreate, Announce,
                          Bye, vars, store, calls
            <6> QED
              BY <2>2, <6>1, SameFile DEF InFlight
          <5> QED
            BY <1>2, <2>5, <3>2, <5>1, <5>2, <5>3, <5>4, <5>5, <5>6
               DEF Next, Finish, Work
        <4> QED
          BY <2>2, <4>1, <4>2 DEF Starts
      <3> QED
        BY <3>1, <3>2
    <2> QED
      BY <2>4, <2>5
  <1> QED
    BY <1>1, <1>2

-----------------------------------------------------------------------------
(* At first there is nothing under way and no file.                        *)
LEMMA HandlerInit == Init => IInv
  <1> SUFFICES ASSUME Init PROVE IInv
    OBVIOUS
  <1>1. TypeOK
    <2>1. stopFlag \in BOOLEAN
      BY Zenon DEF Init
    <2> QED
      BY <2>1, PacketHandlerAssumption DEF Init, TypeOK, WorkerPCs, MainPCs, NotYet
  <1>2. WorkerInv /\ ClosedInv
    BY DEF Init, WorkerInv, ClosedInv, NotYet
  <1>3. ASSUME NEW a \in Addresses PROVE \E lo \in Starts(a) : CaptureInv(a, lo)
    <2>1. /\ files[a] = << >> /\ sent[a] = 0 /\ closedAt[a] = NotYet /\ InFlight = << >>
          /\ 1 \in Starts(a)
      BY DEF Init, InFlight, Starts, NotYet
    <2>2. \A i \in Nat : ~IsPacket(InFlight, a, i) /\ ~IsMarker(InFlight, a, i)
      BY <2>1 DEF IsPacket, IsMarker
    <2>3. 1 + Len(files[a]) = 1 /\ 1 .. 0 = {}
      BY <2>1
    <2>4. Carries(InFlight, a, 1, sent[a]) /\ Divides(InFlight, a, 1, closedAt[a])
      BY <2>1, <2>2, <2>3 DEF Carries, Divides
    <2>5. IsRun(files[a], 1) /\ Begins(1, closedAt[a])
      BY <2>1 DEF IsRun, Begins
    <2>6. CaptureInv(a, 1)
      BY <2>1, <2>3, <2>4, <2>5 DEF CaptureInv
    <2> QED
      BY <2>1, <2>6
  <1> QED
    BY <1>1, <1>2, <1>3 DEF IInv, FilesInv

(* The invariant is inductive.                                             *)
THEOREM HandlerInvariant == Spec => []IInv
  <1>1. IInv /\ [Next]_vars => IInv'
    BY TypeStep, WorkerStep, ClosedStep, FilesStep DEF IInv
  <1> QED
    BY HandlerInit, <1>1, PTL DEF Spec

(* Typing: only handed-over packets are written, and only an entry of      *)
(* m_PcapWriters has an open device.                                       *)
THEOREM HandlerTypeCorrect == Spec => []TypeOK
  BY HandlerInvariant, PTL DEF IInv

(* No packet of a capture is lost, doubled or put out of order on its way  *)
(* through the queue, the batches and the writers that come and go.        *)
THEOREM NothingLostInCapture == Spec => []CaptureUnbroken
  <1>1. IInv => CaptureUnbroken
    <2> SUFFICES ASSUME IInv, NEW a \in Addresses, ~failed[a]
                 PROVE  \E lo \in {1, closedAt[a] + 1} \ {NotYet + 1} :
                          LET next == lo + Len(files[a]) IN
                          /\ IsRun(files[a], lo) /\ next <= sent[a] + 1
                          /\ {InFlight[i].body : i \in Places(a)} = next .. sent[a]
                          /\ \A i, j \in Places(a) : i < j => InFlight[i].body < InFlight[j].body
      BY DEF CaptureUnbroken
    <2>1. PICK lo \in Starts(a) : CaptureInv(a, lo)
      BY DEF IInv, FilesInv
    <2> DEFINE next == lo + Len(files[a])
    <2>2. IsRun(files[a], lo) /\ next <= sent[a] + 1 /\ Carries(InFlight, a, next, sent[a])
      BY <2>1 DEF CaptureInv
    <2>3. InFlight \in Seq(Item) /\ DOMAIN InFlight = 1 .. Len(InFlight)
          /\ DOMAIN InFlight \subseteq Nat
      BY InFlightItems DEF IInv
    <2>4. \A i : i \in Places(a) <=> (i \in Nat /\ IsPacket(InFlight, a, i))
      BY <2>3 DEF Places, IsPacket
    <2> HIDE DEF next
    <2>5. {InFlight[i].body : i \in Places(a)} = next .. sent[a]
      BY <2>2, <2>4 DEF Carries
    <2>6. \A i, j \in Places(a) : i < j => InFlight[i].body < InFlight[j].body
      BY <2>2, <2>4 DEF Carries
    <2> QED
      BY <2>1, <2>2, <2>5, <2>6 DEF Starts, next
  <1> QED
    BY HandlerInvariant, <1>1, PTL
=============================================================================
