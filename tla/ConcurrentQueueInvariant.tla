---------------------- MODULE ConcurrentQueueInvariant ----------------------
(***************************************************************************)
(* The inductive invariant of ConcurrentQueue.  Outline: the types, the    *)
(* counters, the ranges of the consumers, the places of the producer.      *)
(* IndexInv: the rings and the producer's entry.  BlocksInv: the links     *)
(* from the index to blocks, what consumers find through them, and what is *)
(* in memory; EndInv in its place when the queue is destroyed.             *)
(***************************************************************************)
EXTENDS ConcurrentQueue

(* Where a try_dequeue_bulk() may use what it has found in the index, and  *)
(* where it has positions of its own.                                      *)
Looking == {"tail", "key", "move", "count", "unlink", "free"}
Working == {"header"} \cup Looking

PCs == {"idle", "over", "optimistic", "claim", "reload", "return", "first", "done"}
       \cup Working
ProducerPCs == {"idle", "create", "hash", "insert", "grown", "advance", "requisition",
                "publish", "rewind", "retract", "write", "store"}
ProducerFrames == [pc : ProducerPCs, tail : Nat, entry : Nat, block : Blocks \cup {NoBlock}]

Frames == [pc : PCs, tail : Int, over : Int, desired : Int, count : Int,
           index : Nat, end : Nat, header : Nat, slot : Nat, block : Blocks \cup {NoBlock},
           moved : Nat, items : Seq(Nat)]

(* The types. *)
FramesOK == c \in [Consumers -> Frames]
CountersOK == /\ headIndex \in Nat /\ tailIndex \in Nat
              /\ optimistic \in Int /\ overcommit \in Int
ProducerOK == /\ listed \in BOOLEAN /\ hashed \in BOOLEAN /\ ended \in BOOLEAN
              /\ producer \in ProducerFrames
              /\ tailBlock \in Blocks \cup {NoBlock}
IndexOK == /\ entries \in Seq([key : Nat, value : Blocks \cup {NoBlock, Junk}])
           /\ headers \in Seq([tail : Nat, index : Seq(Nat)])
MemoryOK == /\ home \in [Blocks -> {"pool", "used", "free", "dead", "freed twice"}]
            /\ elements \in [Blocks -> [0 .. BlockSize - 1 -> Nat]]
            /\ completed \in [Blocks -> Nat]
Types == FramesOK /\ CountersOK /\ ProducerOK /\ IndexOK /\ MemoryOK

(* Every header goes over entries, and a consumer has a header once it     *)
(* looks for blocks.                                                       *)
HeadersOK == \A g \in DOMAIN headers :
    /\ Capacity(headers[g]) \in Nat \ {0, 1}
    /\ \A s \in 1 .. Capacity(headers[g]) : headers[g].index[s] \in DOMAIN entries
HeldOK == \A k \in Consumers : c[k].pc \in Looking => c[k].header \in DOMAIN headers

(* The counters: a claim has a place of its own between headIndex and what *)
(* has been claimed and not been given back, and what is granted of it is  *)
(* below tailIndex.                                                        *)
Claiming == {"reload", "return", "first"}
Size(f) == IF f.pc = "first" THEN f.count ELSE f.desired

Placed(f, p, head, tail, total) ==
    /\ head <= p /\ p + Size(f) <= total
    /\ f.pc = "reload" => p <= f.over \/ p + f.desired <= tail
    /\ (f.pc \in {"return", "first"} /\ f.count > 0) => p + f.count <= tail

Claims(fs, at, head, tail, total) ==
    /\ \A k \in Consumers : fs[k].pc \in Claiming => Placed(fs[k], at[k], head, tail, total)
    /\ \A j, k \in Consumers :
         (j # k /\ fs[j].pc \in Claiming /\ fs[k].pc \in Claiming) =>
            at[j] + Size(fs[j]) <= at[k] \/ at[k] + Size(fs[k]) <= at[j]

ClaimInv(f, over) ==
    /\ f.pc \in {"optimistic", "claim"} => f.over <= over
    /\ f.pc \in {"claim", "reload", "return", "first"} => f.desired \in 1 .. MaxDequeue
    /\ f.pc = "return" => f.count \in 0 .. f.desired - 1
    /\ f.pc = "first" => f.count \in 1 .. f.desired

CounterInv ==
    /\ headIndex <= tailIndex /\ headIndex <= optimistic - overcommit
    /\ \A k \in Consumers : ClaimInv(c[k], overcommit)
    /\ \E at \in [Consumers -> Nat] :
          Claims(c, at, headIndex, tailIndex, optimistic - overcommit)

(* The ranges of positions that consumers have claimed and what they have  *)
(* taken of them.                                                          *)
Start(f) == f.index - Len(f.items)

RangeInv(f, head) ==
    /\ f.pc \notin Working => f.index = 0 /\ f.end = 0
    /\ f.pc \notin Working \cup {"done"} => f.items = << >>
    /\ f.pc \notin {"count", "unlink", "free"} => f.block = NoBlock
    /\ f.pc \in Working =>
         Start(f) \in Nat /\ f.index <= f.end /\ f.end <= head
    /\ f.pc \in {"header", "tail", "key", "move"} => f.index < f.end
    /\ f.pc = "count" => /\ f.moved \in 1 .. Len(f.items)
                         /\ Base(f.index - 1) <= f.index - f.moved
    /\ f.pc \in {"count", "unlink", "free"} =>
         /\ 0 < f.index /\ f.block \in Blocks
         /\ f.index = f.end \/ AtBlockStart(f.index)

ItemsInv == \A k \in Consumers : c[k].pc \in Working =>
    \A n \in 1 .. Len(c[k].items) : c[k].items[n] = Start(c[k]) + n

Apart(f, g) == f.end <= Start(g) \/ g.end <= Start(f)

RangesInv ==
    /\ \A k \in Consumers : RangeInv(c[k], headIndex)
    /\ \A j, k \in Consumers :
         (j # k /\ c[j].pc \in Working /\ c[k].pc \in Working) => Apart(c[j], c[k])

(* enqueue(): what the producer has before its steps.                      *)
Busy(pcs) == producer.pc \in pcs
Inserting == {"advance", "requisition", "publish", "rewind", "retract"}

Links(e) == entries[e].value \in Blocks
Key(e) == entries[e].key
Keyed(e) == Key(e) # InvalidKey

ProducerInv ==
    /\ ~Busy({"idle"}) => producer.tail = tailIndex
    /\ ~hashed => tailIndex = 0 /\ Busy({"idle", "create", "hash"})
    /\ Busy({"create", "hash"}) => ~hashed
    /\ ~hashed /\ ~Busy({"hash"}) => headers = << >>
    /\ headers = << >> => /\ entries = << >> /\ tailIndex = 0
                          /\ Busy({"idle", "create", "hash", "insert"})
    /\ Busy({"insert", "grown"} \cup Inserting) => AtBlockStart(tailIndex)
    /\ (tailIndex > 0 \/ Busy({"write", "store"})) => tailBlock \in Blocks
    /\ ~Busy({"publish", "write", "store"}) => producer.block = NoBlock
    /\ Busy({"write", "store"}) => producer.block \in {NoBlock, tailBlock}
    /\ Busy({"publish"}) => producer.block \in Blocks

EntryInv ==
    /\ Busy({"grown"}) => ~Keyed(NextEntry)
    /\ Busy({"advance", "retract"}) => producer.entry = NextEntry
    /\ Busy({"requisition", "publish", "rewind"}) =>
          producer.entry = Entry(blockIndex, blockIndex.tail)
    /\ Busy(Inserting) =>
          /\ producer.entry \in DOMAIN entries
          /\ Key(producer.entry) = tailIndex /\ ~Links(producer.entry)
    /\ \A e \in DOMAIN entries : (Keyed(e) /\ entries[e].value = Junk) =>
          Busy(Inserting) /\ e = producer.entry

(* The last position for which there is a block, and the key of the entry  *)
(* at the tail of the index.                                               *)
Latest == IF Busy({"write", "store"}) THEN tailIndex ELSE tailIndex - 1
Top == IF Busy({"requisition", "publish", "rewind"}) THEN tailIndex ELSE Base(Latest)

(* The rings: a header of the index goes over its entries in the order the *)
(* last one does, and the last one has the keys in their order.  The entry *)
(* after the tail may have the next key already, or after a failure still. *)
RingOK(g) ==
    /\ Capacity(g) \in Nat \ {0, 1}
    /\ \A s \in 1 .. Capacity(g) : g.index[s] \in 1 .. Capacity(g)
    /\ \A s, t \in 1 .. Capacity(g) : g.index[s] = g.index[t] => s = t

Divides(m, n) == \E q \in Nat : n = q * m
Agree(g, h) == \E r \in Int : \A x \in Int :
                  Entry(h, x) <= Capacity(g) => Entry(g, x + r) = Entry(h, x)

KeyAt(e, y) ==
    /\ e = Entry(blockIndex, blockIndex.tail + y) /\ Key(e) = Top + y * BlockSize
    /\ y = 1 => /\ AtBlockStart(tailIndex) /\ ~Links(e)
                /\ ~Busy({"requisition", "publish", "rewind", "write", "store"})

RingInv == headers # << >> =>
    /\ Len(entries) = Capacity(blockIndex)
    /\ \A g \in DOMAIN headers : /\ RingOK(headers[g]) /\ Agree(headers[g], blockIndex)
                                 /\ Divides(Capacity(headers[g]), Capacity(blockIndex))
    /\ \A g \in DOMAIN headers : g # Len(headers) =>
          Keyed(Entry(headers[g], headers[g].tail))
    /\ \A e \in DOMAIN entries : Keyed(e) =>
          \E y \in 1 - Capacity(blockIndex) .. 1 : KeyAt(e, y)
    /\ Top >= 0 => Keyed(Entry(blockIndex, blockIndex.tail))
    /\ (Busy({"requisition", "rewind"}) /\ tailIndex > 0) =>
          Keyed(Entry(blockIndex, blockIndex.tail - 1))
    /\ \A e \in DOMAIN entries : Links(e) => Keyed(e)

(* Positions whose element is still to be moved out, or has been moved and *)
(* not been counted.                                                       *)
Mine(f, i) == f.index <= i /\ i < f.end
Counts(f, i) == f.pc = "count" /\ f.index - f.moved <= i /\ i < f.index
Pending(i) == i >= headIndex \/ \E k \in Consumers : Mine(c[k], i)
Counting(i) == \E k \in Consumers : Counts(c[k], i)
Open(i) == Pending(i) \/ Counting(i)
Of(b) == b .. b + BlockSize - 1
Closed(b) == {i \in Of(b) : ~Open(i)}

(* The entries that lead to blocks: one to each block with open positions. *)
Unlinking(b) == \E k \in Consumers : c[k].pc = "unlink" /\ c[k].block = b
LinkOK(e) ==
    /\ Key(e) \in Nat /\ AtBlockStart(Key(e)) /\ Key(e) <= Latest
    /\ Latest < Key(e) + BlockSize => entries[e].value = tailBlock
    /\ (\E i \in Of(Key(e)) : Open(i)) \/ Unlinking(entries[e].value)
IsLinkOf(e, b) == e \in DOMAIN entries /\ Links(e) /\ Key(e) = b
LinkInv ==
    /\ \A e \in DOMAIN entries : Links(e) => LinkOK(e)
    /\ \A d, e \in DOMAIN entries :
         (/\ Links(d) /\ Links(e)
          /\ Key(d) = Key(e) \/ entries[d].value = entries[e].value) => d = e
    /\ \A i \in 0 .. Base(Latest) + BlockSize - 1 : Open(i) => \E e : IsLinkOf(e, Base(i))

(* What a consumer finds through its header.                               *)
Reclaiming(k) == c[k].pc \in {"unlink", "free"}
Reach(k) == Capacity(headers[c[k].header])
After(k) == Entry(Header(k), c[k].slot + 1)
LookInv(k) ==
    /\ \A i \in c[k].index .. c[k].end - 1 : \E e \in 1 .. Reach(k) : IsLinkOf(e, Base(i))
    /\ c[k].pc = "key" => Keyed(EntryOf(k))
    /\ c[k].pc = "move" => IsLinkOf(EntryOf(k), Base(c[k].index))
    /\ c[k].pc \in {"count", "unlink"} =>
         IsLinkOf(EntryOf(k), Base(c[k].index - 1)) /\ entries[EntryOf(k)].value = c[k].block
    /\ (c[k].pc \in {"count", "unlink", "free"} /\ c[k].index < c[k].end) =>
         IsLinkOf(After(k), c[k].index)
    /\ Reclaiming(k) => \A i \in Of(Base(c[k].index - 1)) : ~Open(i)
    /\ c[k].pc = "free" => /\ \A e \in DOMAIN entries : entries[e].value # c[k].block
                           /\ Busy({"publish"}) => producer.block # c[k].block
WorkInv ==
    /\ \A k \in Consumers : c[k].pc \in Looking =>
          LookInv(k)
    /\ \A j, k \in Consumers : (j # k /\ Reclaiming(j) /\ Reclaiming(k)) =>
         /\ Base(c[j].index - 1) # Base(c[k].index - 1)
         /\ c[j].block # c[k].block

(* What is in memory: a block is in use if an entry leads to it, or its    *)
(* maker or its destroyer has it, and counts the closed positions.         *)
Stored(i) == i < tailIndex \/ (Busy({"store"}) /\ i = tailIndex)
Content(i) == IF Pending(i) /\ Stored(i) THEN i + 1 ELSE 0
IsLinked(b) == \E e \in DOMAIN entries : entries[e].value = b
IsUsed(b) == \/ IsLinked(b)
             \/ Busy({"publish"}) /\ producer.block = b
             \/ \E k \in Consumers : c[k].pc = "free" /\ c[k].block = b
Holds(e) ==
    /\ completed[entries[e].value] = Cardinality(Closed(Key(e)))
    /\ \A i \in Of(Key(e)) : elements[entries[e].value][i - Key(e)] = Content(i)
MemoryInv ==
    /\ \A b \in Blocks : home[b] # "freed twice" /\ (home[b] = "used" <=> IsUsed(b))
    /\ \A b \in Blocks : ~IsLinked(b) => \A i \in 0 .. BlockSize - 1 : elements[b][i] = 0
    /\ Busy({"publish"}) => completed[producer.block] = 0 /\ ~IsLinked(producer.block)
    /\ \A e \in DOMAIN entries : Links(e) => Holds(e)

(* The end: everything has been given back.                                *)
EndInv ==
    /\ Busy({"idle"}) /\ \A k \in Consumers : c[k].pc = "idle" /\ c[k].items = << >>
                                              /\ c[k].index = 0 /\ c[k].end = 0
    /\ \A b \in Blocks : /\ home[b] \in {"pool", "free", "dead"}
                         /\ \A i \in DOMAIN elements[b] : elements[b][i] = 0
    /\ \A d, e \in DOMAIN entries : (Links(d) /\ entries[d].value = entries[e].value) => d = e
=============================================================================
