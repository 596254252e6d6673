--------------------------- MODULE ConcurrentQueue ---------------------------
(***************************************************************************)
(* The lock-free queue between the server's main thread and the capture    *)
(* thread (server/libs/concurrentqueue/concurrentqueue.h), as              *)
(* PacketHandler uses it: enqueue() by one thread, which gives one         *)
(* implicit producer, and try_dequeue_bulk().  The capture thread is one   *)
(* consumer; the queue is made for several, so Consumers is a set.         *)
(*                                                                         *)
(* Elements live in blocks of BlockSize.  The blocks that are in use are   *)
(* found through an index, a ring of entries that the producer extends and *)
(* doubles when it is full; a header of the index stays readable when a    *)
(* larger one has replaced it.  A consumer claims a range of positions     *)
(* with three counters, looks the blocks up, moves the elements out and    *)
(* gives back each block it has emptied.                                   *)
(*                                                                         *)
(* One action is one atomic operation on shared memory, with what follows  *)
(* it in the thread's own memory.  Their order is sequentially consistent; *)
(* the counters do not wrap.  The free list of blocks is FreeList's.  An   *)
(* allocation may fail.                                                    *)
(***************************************************************************)
EXTENDS Integers, Sequences, FiniteSets

CONSTANTS
    Consumers,
    BlockSize,           \* BLOCK_SIZE, 32 in the program
    InitialIndexSize,    \* IMPLICIT_INITIAL_INDEX_SIZE, 32 in the program
    PoolSize,            \* blocks made by the constructor, 32 in the program
    MaxDequeue,          \* the argument max of try_dequeue_bulk()
    MaxItems,            \* bound: items enqueued
    MaxOvercommit        \* bound: claims in vain

ASSUME QueueAssumption ==
    /\ BlockSize \in Nat \ {0, 1} /\ InitialIndexSize \in Nat \ {0, 1}
    /\ PoolSize \in Nat /\ MaxDequeue \in Nat \ {0} /\ MaxItems \in Nat
    /\ MaxOvercommit \in Nat

VARIABLES
    listed, hashed,      \* the producer is in the list, in the hash of thread ids
    headIndex, tailIndex,
    optimistic,          \* dequeueOptimisticCount
    overcommit,          \* dequeueOvercommit
    entries,             \* BlockIndexEntry: key and value
    headers,             \* BlockIndexHeader, in the order they are made
    home,                \* where each block is: pool, used, free or dead
    elements,            \* of each block; 0: no element is there
    completed,           \* elementsCompletelyDequeued of each block
    tailBlock,
    producer,            \* where enqueue() is, and its locals
    c,                   \* where each try_dequeue_bulk() is, and its locals
    ended                \* the queue is destroyed

counters == <<headIndex, tailIndex, optimistic, overcommit>>
index == <<entries, headers>>
memory == <<home, elements, completed>>
vars == <<listed, hashed, counters, index, memory, tailBlock, producer, c, ended>>

NoBlock == 0
Junk == -1                    \* an entry's value before it is first written
InvalidKey == 1               \* INVALID_BLOCK_BASE
Blocks == 1 .. PoolSize + (MaxItems \div BlockSize) + 2
Pool == 1 .. PoolSize
Least(S) == {x \in S : \A y \in S : x <= y}

Base(i) == i - (i % BlockSize)
Capacity(h) == Len(h.index)
Entry(h, slot) == h.index[(slot % Capacity(h)) + 1]
blockIndex == headers[Len(headers)]

Frame(pc, tail) == [pc |-> pc, tail |-> tail, entry |-> 0, block |-> NoBlock]
FreshEntry == [key |-> InvalidKey, value |-> Junk]
Idle == [pc |-> "idle", tail |-> 0, over |-> 0, desired |-> 0, count |-> 0,
         index |-> 0, end |-> 0, header |-> 0, slot |-> 0, block |-> NoBlock,
         moved |-> 0, items |-> << >>]

Init ==
    /\ listed = FALSE /\ hashed = FALSE
    /\ headIndex = 0 /\ tailIndex = 0 /\ optimistic = 0 /\ overcommit = 0
    /\ entries = << >> /\ headers = << >>
    /\ home = [b \in Blocks |-> IF b \in Pool THEN "pool" ELSE "dead"]
    /\ elements = [b \in Blocks |-> [i \in 0 .. BlockSize - 1 |-> 0]]
    /\ completed = [b \in Blocks |-> 0]
    /\ tailBlock = NoBlock /\ producer = Frame("idle", 0)
    /\ c = [k \in Consumers |-> Idle] /\ ended = FALSE

-----------------------------------------------------------------------------
(* enqueue() *)

(* A step of enqueue(): its frame goes from one place to another.          *)
(* currentTailIndex is tail, idxEntry is entry, newBlock is block.         *)
Move(from, to, frame) ==
    /\ producer.pc = from
    /\ producer' = [frame EXCEPT !.pc = to]
    /\ UNCHANGED <<c, ended>>
Producer(from, to) == Move(from, to, producer)
Leave(from) == Move(from, "idle", Frame("idle", 0))

AtBlockStart(i) == i % BlockSize = 0
FirstStep(i) == IF AtBlockStart(i) THEN "insert" ELSE "write"

Enqueue ==
    /\ ~ended /\ tailIndex < MaxItems
    /\ Move("idle", IF hashed THEN FirstStep(tailIndex) ELSE "create",
            Frame("idle", tailIndex))
    /\ UNCHANGED <<listed, hashed, counters, index, memory, tailBlock>>

(* No producer of this thread yet: one is made, with its first index, and  *)
(* put into the list.  If the index could not be had, it has none for ever.*)
CreateProducer ==
    /\ Producer("create", "hash")
    /\ listed' = TRUE
    /\ \/ /\ entries' = [e \in 1 .. InitialIndexSize |-> FreshEntry]
          /\ headers' = <<[tail |-> InitialIndexSize - 1,
                           index |-> [s \in 1 .. InitialIndexSize |-> s]]>>
       \/ UNCHANGED index
    /\ UNCHANGED <<hashed, counters, memory, tailBlock>>

CreateFails ==
    /\ Leave("create")
    /\ UNCHANGED <<listed, hashed, counters, index, memory, tailBlock>>

HashProducer ==
    /\ Producer("hash", FirstStep(tailIndex))
    /\ hashed' = TRUE
    /\ UNCHANGED <<listed, counters, index, memory, tailBlock>>

NoIndex ==
    /\ headers = << >> /\ Leave("insert")
    /\ UNCHANGED <<listed, hashed, counters, index, memory, tailBlock>>

(* insert_block_index_entry(): the slot after the tail, if it is not used. *)
NextEntry == Entry(blockIndex, blockIndex.tail + 1)

SlotIsFree == entries[NextEntry].key = InvalidKey \/ entries[NextEntry].value = NoBlock

(* The slot of a larger index is taken without a look at it.               *)
StoreKey ==
    /\ headers # << >>
    /\ producer.pc = "grown" \/ (producer.pc = "insert" /\ SlotIsFree)
    /\ Move(producer.pc, "advance", [producer EXCEPT !.entry = NextEntry])
    /\ entries' = [entries EXCEPT ![NextEntry].key = producer.tail]
    /\ UNCHANGED <<listed, hashed, counters, headers, memory, tailBlock>>

MoveTail(n) ==
    headers' = [headers EXCEPT ![Len(headers)].tail = (@ + n) % Capacity(blockIndex)]

AdvanceTail ==
    /\ Producer("advance", "requisition")
    /\ MoveTail(1)
    /\ UNCHANGED <<listed, hashed, counters, entries, memory, tailBlock>>

(* seeded bug: the tail of a larger index is one too far *)
FirstNew(n) == n

LastOld(n) == n - 1

(* new_block_index(): the old entries, the oldest first, and as many new.  *)
NewBlockIndex ==
    /\ headers # << >> /\ ~SlotIsFree
    /\ Producer("insert", "grown")
    /\ LET n == Capacity(blockIndex) IN
          /\ entries' = entries \o [e \in 1 .. n |-> FreshEntry]
          /\ headers' = Append(headers,
                [tail  |-> LastOld(n),
                 index |-> [s \in 1 .. 2 * n |->
                               IF s <= n THEN Entry(blockIndex, blockIndex.tail + s)
                               ELSE Len(entries) + s - n]])
    /\ UNCHANGED <<listed, hashed, counters, memory, tailBlock>>

NewBlockIndexFails ==
    /\ headers # << >> /\ ~SlotIsFree
    /\ Leave("insert")
    /\ UNCHANGED <<listed, hashed, counters, index, memory, tailBlock>>

(* requisition_block(): the initial pool, the free list, the heap; an      *)
(* address that was freed may come back.                                   *)
In(place) == {b \in Blocks : home[b] = place}
Candidates == IF In("pool") # {} THEN Least(In("pool"))
              ELSE IF In("free") # {} THEN In("free")
              ELSE Least(In("dead"))

RequisitionBlock ==
    /\ \E b \in Candidates :
          /\ Move("requisition", "publish", [producer EXCEPT !.block = b])
          /\ home' = [home EXCEPT ![b] = "used"]
          /\ completed' = [completed EXCEPT ![b] = 0]
    /\ UNCHANGED <<listed, hashed, counters, index, elements, tailBlock>>

RequisitionFails ==
    /\ In("pool") = {} /\ In("free") = {}
    /\ Producer("requisition", "rewind")
    /\ UNCHANGED <<listed, hashed, counters, index, memory, tailBlock>>

RewindTail ==
    /\ Producer("rewind", "retract")
    /\ MoveTail(-1)
    /\ UNCHANGED <<listed, hashed, counters, entries, memory, tailBlock>>

Retract ==
    /\ Leave("retract")
    /\ entries' = [entries EXCEPT ![producer.entry].value = NoBlock]
    /\ UNCHANGED <<listed, hashed, counters, headers, memory, tailBlock>>

PublishBlock ==
    /\ Producer("publish", "write")
    /\ entries' = [entries EXCEPT ![producer.entry].value = producer.block]
    /\ tailBlock' = producer.block
    /\ UNCHANGED <<listed, hashed, counters, headers, memory>>

WriteElement ==
    /\ Producer("write", "store")
    /\ elements' = [elements EXCEPT ![tailBlock][producer.tail % BlockSize] =
                                        producer.tail + 1]
    /\ UNCHANGED <<listed, hashed, counters, index, home, completed, tailBlock>>

StoreTail ==
    /\ Leave("store")
    /\ tailIndex' = producer.tail + 1
    /\ UNCHANGED <<listed, hashed, headIndex, optimistic, overcommit, index,
                   memory, tailBlock>>

EnqueueStep ==
    \/ Enqueue \/ CreateProducer \/ CreateFails \/ HashProducer
    \/ NoIndex \/ StoreKey \/ AdvanceTail \/ NewBlockIndex \/ NewBlockIndexFails
    \/ RequisitionBlock \/ RequisitionFails \/ RewindTail \/ Retract
    \/ PublishBlock \/ WriteElement \/ StoreTail

-----------------------------------------------------------------------------
(* try_dequeue_bulk().  Each step of consumer k assigns some of its locals.*)

At(k, p) == c[k].pc = p
Step(k, p, locals) ==
    /\ c' = [c EXCEPT ![k] = [locals EXCEPT !.pc = p]]
    /\ UNCHANGED <<listed, hashed, headers, tailIndex, tailBlock, producer, ended>>

Smaller(m, n) == IF m <= n THEN m ELSE n

(* An empty list of producers gives 0 at once, which changes nothing. *)
LoadTail(k) ==
    /\ At(k, "idle") /\ listed /\ ~ended /\ overcommit < MaxOvercommit
    /\ Step(k, "over", [c[k] EXCEPT !.tail = tailIndex])
    /\ UNCHANGED <<headIndex, optimistic, overcommit, entries, memory>>

LoadOvercommit(k) ==
    /\ At(k, "over")
    /\ Step(k, "optimistic", [c[k] EXCEPT !.over = overcommit])
    /\ UNCHANGED <<headIndex, optimistic, overcommit, entries, memory>>

Desired(k) == c[k].tail - (optimistic - c[k].over)

LoadOptimistic(k) ==
    /\ At(k, "optimistic")
    /\ IF Desired(k) > 0
       THEN Step(k, "claim", [c[k] EXCEPT !.desired = Smaller(Desired(k), MaxDequeue),
                                          !.tail = 0])
       ELSE Step(k, "idle", Idle)
    /\ UNCHANGED <<headIndex, optimistic, overcommit, entries, memory>>

(* From here on, over is myDequeueCount - overcommit. *)
ClaimOptimistic(k) ==
    /\ At(k, "claim")
    /\ optimistic' = optimistic + c[k].desired
    /\ Step(k, "reload", [c[k] EXCEPT !.over = optimistic - @])
    /\ UNCHANGED <<headIndex, overcommit, entries, memory>>

Actual(k) == Smaller(tailIndex - c[k].over, c[k].desired)

ReloadTail(k) ==
    /\ At(k, "reload")
    /\ LET n == IF Actual(k) > 0 THEN Actual(k) ELSE 0 IN
          Step(k, IF n < c[k].desired THEN "return" ELSE "first",
               [c[k] EXCEPT !.count = n, !.over = 0])
    /\ UNCHANGED <<headIndex, optimistic, overcommit, entries, memory>>

(* What was claimed in vain is made up for. *)
Overcommit(k) ==
    /\ At(k, "return")
    /\ overcommit' = overcommit + (c[k].desired - c[k].count)
    /\ IF c[k].count > 0 THEN Step(k, "first", c[k]) ELSE Step(k, "idle", Idle)
    /\ UNCHANGED <<headIndex, optimistic, entries, memory>>

ClaimElements(k) ==
    /\ At(k, "first")
    /\ headIndex' = headIndex + c[k].count
    /\ Step(k, "header", [Idle EXCEPT !.index = headIndex,
                                     !.end = headIndex + c[k].count])
    /\ UNCHANGED <<optimistic, overcommit, entries, memory>>

(* get_block_index_index_for_index(): header, tail, key of the tail.  A    *)
(* header is never left, so a consumer may go on with an old one.          *)
LoadHeader(k) ==
    /\ At(k, "header")
    /\ Step(k, "tail", [c[k] EXCEPT !.header = Len(headers)])
    /\ UNCHANGED <<headIndex, optimistic, overcommit, entries, memory>>

Header(k) == headers[c[k].header]

LoadIndexTail(k) ==
    /\ At(k, "tail")
    /\ Step(k, "key", [c[k] EXCEPT !.slot = Header(k).tail])
    /\ UNCHANGED <<headIndex, optimistic, overcommit, entries, memory>>

TailKey(k) == entries[Entry(Header(k), c[k].slot)].key
SlotOf(k) == (c[k].slot + (Base(c[k].index) - TailKey(k)) \div BlockSize)
                 % Capacity(Header(k))

LookUp(k) ==
    /\ At(k, "key")
    /\ Step(k, "move", [c[k] EXCEPT !.slot = SlotOf(k)])
    /\ UNCHANGED <<headIndex, optimistic, overcommit, entries, memory>>

(* The elements of one block are moved out and destroyed. *)
EntryOf(k) == Entry(Header(k), c[k].slot)

(* seeded bug: the block is emptied to its end *)
WholeBlock(k) == Base(c[k].index) + BlockSize

BlockEnd(k) == Smaller(Base(c[k].index) + BlockSize, c[k].end)

MoveElements(k) ==
    /\ At(k, "move") /\ entries[EntryOf(k)].value \in Blocks
    /\ LET b == entries[EntryOf(k)].value
           n == BlockEnd(k) - c[k].index
           first == c[k].index % BlockSize
       IN  /\ Step(k, "count", [c[k] EXCEPT
                     !.block = b, !.moved = n, !.index = @ + n,
                     !.items = @ \o [i \in 1 .. n |-> elements[b][first + i - 1]]])
           /\ elements' = [elements EXCEPT ![b] = [i \in DOMAIN @ |->
                               IF i \in first .. first + n - 1 THEN 0 ELSE @[i]]]
    /\ UNCHANGED <<headIndex, optimistic, overcommit, entries, home, completed>>

NextBlock(k) ==
    IF c[k].index = c[k].end THEN Step(k, "done", [Idle EXCEPT !.items = c[k].items])
    ELSE Step(k, "move", [c[k] EXCEPT !.slot = (@ + 1) % Capacity(Header(k)),
                                      !.block = NoBlock, !.moved = 0])

(* set_many_empty(): the last of the block's elements are gone. *)
IsEmptyNow(k) == completed[c[k].block] + c[k].moved = BlockSize

CountElements(k) ==
    /\ At(k, "count")
    /\ completed' = [completed EXCEPT ![c[k].block] = @ + c[k].moved]
    /\ IF IsEmptyNow(k) THEN Step(k, "unlink", c[k]) ELSE NextBlock(k)
    /\ UNCHANGED <<headIndex, optimistic, overcommit, entries, home, elements>>

(* seeded bug: the entry goes on to lead to the block *)
StayLinked(k) ==
    /\ At(k, "unlink") /\ Step(k, "free", c[k])
    /\ UNCHANGED <<headIndex, optimistic, overcommit, entries, memory>>

UnlinkBlock(k) ==
    /\ At(k, "unlink")
    /\ entries' = [entries EXCEPT ![EntryOf(k)].value = NoBlock]
    /\ Step(k, "free", c[k])
    /\ UNCHANGED <<headIndex, optimistic, overcommit, memory>>

(* add_block_to_free_list(): a block of the initial pool is kept, any      *)
(* other destroyed.                                                        *)
Freed(b) == IF home[b] # "used" THEN "freed twice"
            ELSE IF b \in Pool THEN "free" ELSE "dead"

FreeBlock(k) ==
    /\ At(k, "free")
    /\ home' = [home EXCEPT ![c[k].block] = Freed(c[k].block)]
    /\ NextBlock(k)
    /\ UNCHANGED <<headIndex, optimistic, overcommit, entries, elements, completed>>

Return(k) ==
    /\ At(k, "done") /\ Step(k, "idle", Idle)
    /\ UNCHANGED <<headIndex, optimistic, overcommit, entries, memory>>

DequeueStep(k) ==
    \/ LoadTail(k) \/ LoadOvercommit(k) \/ LoadOptimistic(k)
    \/ ClaimOptimistic(k) \/ ReloadTail(k) \/ Overcommit(k) \/ ClaimElements(k)
    \/ LoadHeader(k) \/ LoadIndexTail(k) \/ LookUp(k) \/ MoveElements(k)
    \/ CountElements(k) \/ UnlinkBlock(k) \/ FreeBlock(k) \/ Return(k)

-----------------------------------------------------------------------------
(* ~ConcurrentQueue(), when no call is in progress: ~ImplicitProducer()    *)
(* destroys the elements that are left and gives back their blocks, each   *)
(* when the next one is entered, and at last tailBlock, by a rule of its   *)
(* own.                                                                    *)
Holding(i) == {e \in DOMAIN entries : entries[e].key = Base(i)
                                     /\ entries[e].value \in Blocks}
BlockOf(i) == entries[CHOOSE e \in Holding(i) : TRUE].value

Left == headIndex .. tailIndex - 1

(* seeded bug: the last block goes only with elements in it *)
FreesWithElements == tailBlock # NoBlock /\ headIndex # tailIndex

FreesLast == tailBlock # NoBlock /\ (headIndex # tailIndex \/ ~AtBlockStart(tailIndex))
GivenBack == {BlockOf(i) : i \in {j \in Left : Base(j) # Base(tailIndex - 1)}}
             \cup (IF FreesLast THEN {tailBlock} ELSE {})

Destroy ==
    /\ ~ended /\ producer.pc = "idle" /\ \A k \in Consumers : At(k, "idle")
    /\ ended' = TRUE
    /\ home' = [b \in Blocks |-> IF b \in GivenBack THEN Freed(b) ELSE home[b]]
    /\ elements' = [b \in Blocks |-> [i \in 0 .. BlockSize - 1 |->
                       IF \E j \in Left : b = BlockOf(j) /\ j % BlockSize = i
                       THEN 0 ELSE elements[b][i]]]
    /\ UNCHANGED <<listed, hashed, counters, index, completed, tailBlock, producer, c>>

Next == EnqueueStep \/ (\E k \in Consumers : DequeueStep(k)) \/ Destroy

Spec == Init /\ [][Next]_vars

-----------------------------------------------------------------------------
(* What a reader who follows the index finds at position i. *)
Found(i) == IF Holding(i) = {} THEN 0 ELSE elements[BlockOf(i)][i % BlockSize]

Fifo == INSTANCE BulkQueue WITH
    sent <- tailIndex,
    queue <- IF ended THEN << >>
             ELSE [n \in 1 .. tailIndex - headIndex |-> Found(headIndex + n - 1)],
    out <- [k \in Consumers |->
               c[k].items \o [n \in 1 .. c[k].end - c[k].index |->
                                  Found(c[k].index + n - 1)]]

(* The queue is a FIFO queue: the index leads to every element that was    *)
(* enqueued and not taken, in order, whatever the producer and the other   *)
(* consumers do in the meantime, and each is given to one consumer, once.  *)
ImplementsFifo == Fifo!Spec

(* A block is used by one part of the ring at a time: none is given back   *)
(* twice, no two entries lead to the same one, and whatever an entry, the  *)
(* producer or a consumer is about to touch is a block in use, never one   *)
(* that waits in the free list or was destroyed.                           *)
InHand == {producer.block} \cup {c[k].block : k \in Consumers}
          \cup (IF producer.pc \in {"write", "store"} THEN {tailBlock} ELSE {})
Linked == {entries[e].value : e \in DOMAIN entries}
BlocksOwned ==
    /\ \A b \in Blocks : home[b] # "freed twice"
    /\ ~ended => InHand \cup Linked \subseteq In("used") \cup {NoBlock, Junk}
    /\ \A d, e \in DOMAIN entries :
          entries[d].value = entries[e].value /\ entries[d].value \in Blocks => d = e

(* What the code asserts: an index that is looked up leads to an entry     *)
(* with its key and a block; a slot of a grown index is fresh; no block is *)
(* emptied of more elements than it has.                                   *)
LooksUpItsKey(k) ==
    At(k, "key") => /\ TailKey(k) # InvalidKey
                    /\ LET e == entries[Entry(Header(k), SlotOf(k))] IN
                          e.key = Base(c[k].index) /\ e.value \in Blocks
SlotIsFresh == producer.pc = "grown" => entries[NextEntry].key = InvalidKey
AssertionsHold ==
    /\ SlotIsFresh
    /\ \A k \in Consumers :
         /\ LooksUpItsKey(k)
         /\ At(k, "count") => completed[c[k].block] + c[k].moved <= BlockSize

(* After the destructor every block is back: none of the initial pool is   *)
(* missing, none of the others leaked, and every element was destroyed.    *)
AllBlocksReturned ==
    ended => \A b \in Blocks : /\ home[b] \in {"pool", "free", "dead"}
                               /\ \A i \in DOMAIN elements[b] : elements[b][i] = 0
=============================================================================
