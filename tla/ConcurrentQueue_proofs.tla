----------------------- MODULE ConcurrentQueue_proofs -----------------------
(***************************************************************************)
(* Proofs about ConcurrentQueue, for every number of consumers, every size *)
(* of blocks, pool, index and bulk, and every bound: its invariant, and    *)
(* that it is a FIFO queue.                                                *)
(***************************************************************************)
EXTENDS ConcurrentQueueInvariant, SequenceTheorems, FiniteSetTheorems, TLAPS

-----------------------------------------------------------------------------
(* Where blocks begin.                                                     *)
LEMMA BaseIs ==
  ASSUME NEW i \in Int
  PROVE  /\ Base(i) \in Int /\ Base(i) <= i /\ i < Base(i) + BlockSize
         /\ AtBlockStart(Base(i)) /\ i % BlockSize = i - Base(i)
         /\ i >= 0 => Base(i) \in Nat
         /\ AtBlockStart(i) <=> Base(i) = i
  <1>1. BlockSize \in Nat \ {0}
    BY QueueAssumption
  <1>2. i % BlockSize \in 0 .. BlockSize - 1
    BY <1>1
  <1>3. (i - (i % BlockSize)) % BlockSize = 0
    BY <1>1
  <1> DEFINE r == i % BlockSize
             q == i \div BlockSize
  <1>4. i = BlockSize * q + r /\ q \in Int /\ r \in Int
    BY <1>1
  <1>5. i >= 0 => q >= 0
    BY <1>1
  <1>6. (i >= 0 /\ q >= 0) => BlockSize * q >= 0
    BY <1>1, <1>4
  <1> HIDE DEF r, q
  <1>7. i >= 0 => i - r >= 0
    BY <1>1, <1>4, <1>5, <1>6
  <1> QED
    BY <1>1, <1>2, <1>3, <1>7 DEF Base, AtBlockStart, r

(* A position belongs to one block.                                        *)
LEMMA OneBase ==
  ASSUME NEW b \in Int, AtBlockStart(b), NEW i \in Int, b <= i, i < b + BlockSize
  PROVE  Base(i) = b
  <1>1. BlockSize \in Nat \ {0} /\ b % BlockSize = 0
    BY QueueAssumption DEF AtBlockStart
  <1> DEFINE q == b \div BlockSize
  <1>2. q \in Int /\ b = BlockSize * q
    BY <1>1
  <1>3. (BlockSize * q + (i - b)) % BlockSize = i - b
    BY <1>1, <1>2
  <1>4. i % BlockSize = i - b
    BY <1>2, <1>3
  <1> QED
    BY <1>4 DEF Base

(* Blocks follow each other at the distance of their size.                 *)
LEMMA BlocksFollow ==
  ASSUME NEW a \in Int, AtBlockStart(a)
  PROVE  /\ AtBlockStart(a + BlockSize) /\ AtBlockStart(a - BlockSize)
         /\ \A b \in Int : (AtBlockStart(b) /\ a < b) => a + BlockSize <= b
         /\ AtBlockStart(0) /\ ~AtBlockStart(InvalidKey)
  <1>1. BlockSize \in Nat \ {0, 1} /\ a % BlockSize = 0
    BY QueueAssumption DEF AtBlockStart
  <1> DEFINE q == a \div BlockSize
  <1>0. q \in Int /\ a = BlockSize * q
    BY <1>1
  <1>2. (a + BlockSize) % BlockSize = 0 /\ (a - BlockSize) % BlockSize = 0
    <2>1. (BlockSize * (q + 1) + 0) % BlockSize = 0 /\ (BlockSize * (q - 1) + 0) % BlockSize = 0
      BY <1>0, <1>1
    <2>2. BlockSize * (q + 1) + 0 = a + BlockSize /\ BlockSize * (q - 1) + 0 = a - BlockSize
      BY <1>0, <1>1
    <2> QED
      BY <2>1, <2>2
  <1>3. ASSUME NEW b \in Int, AtBlockStart(b), a < b, b < a + BlockSize PROVE FALSE
    BY <1>1, <1>3, OneBase, BaseIs
  <1>4. 0 % BlockSize = 0 /\ 1 % BlockSize = 1
    BY <1>1
  <1> QED
    BY <1>1, <1>2, <1>3, <1>4 DEF AtBlockStart, InvalidKey

(* Positions of one block have the same base.                              *)
LEMMA SameBase ==
  ASSUME NEW i \in Int, NEW j \in Int, Base(i) <= j, j < Base(i) + BlockSize
  PROVE  Base(j) = Base(i)
  BY BaseIs, OneBase

(* The blocks, as numbers.                                                 *)
LEMMA BlocksAre ==
    /\ Blocks \subseteq Nat /\ NoBlock \notin Blocks /\ Junk \notin Blocks
    /\ MaxItems \div BlockSize \in Nat /\ Pool \subseteq Blocks
    /\ NoBlock \in Int /\ Junk \in Int
  <1>1. MaxItems \in Nat /\ BlockSize \in Nat \ {0} /\ PoolSize \in Nat
    BY QueueAssumption
  <1>2. MaxItems \div BlockSize \in Nat
    BY <1>1
  <1> QED
    BY <1>1, <1>2 DEF Blocks, Pool, NoBlock, Junk

(* Division with a remainder.                                              *)
LEMMA Quotient ==
  ASSUME NEW n \in Nat \ {0}, NEW i \in Int
  PROVE  \E d \in Int : \E r \in 0 .. n - 1 : i = d * n + r /\ i % n = r /\ i \div n = d
  <1> DEFINE dd == i \div n
             rr == i % n
  <1>1. i = n * dd + rr /\ dd \in Int /\ rr \in 0 .. n - 1
    OBVIOUS
  <1>2. i % n = rr /\ i \div n = dd
    OBVIOUS
  <1> HIDE DEF dd, rr
  <1>3. i = dd * n + rr
    BY <1>1
  <1> QED
    BY <1>1, <1>2, <1>3

(* Divisions that are exact. *)
LEMMA ExactDivision ==
  ASSUME NEW n \in Nat \ {0}, NEW q \in Int, NEW r \in 0 .. n - 1
  PROVE  (q * n + r) % n = r /\ (q * n + r) \div n = q /\ (q * n) \div n = q
  OBVIOUS

-----------------------------------------------------------------------------
(* Rings: slots at the distance of the capacity are the same.              *)
LEMMA EntryCongruent ==
  ASSUME NEW h, Capacity(h) \in Nat \ {0}, NEW x \in Int, NEW y \in Int, NEW q \in Int,
         x = y + q * Capacity(h)
  PROVE  Entry(h, x) = Entry(h, y)
  <1> DEFINE m == Capacity(h)
  <1>1. m \in Nat \ {0}
    OBVIOUS
  <1>2. PICK d \in Int : \E r \in 0 .. m - 1 : y = d * m + r /\ y % m = r
    BY <1>1, Quotient
  <1>5. PICK r \in 0 .. m - 1 : y = d * m + r /\ y % m = r
    BY <1>2
  <1> HIDE DEF m
  <1>3. d + q \in Int /\ x = (d + q) * m + r
    BY <1>1, <1>5 DEF m
  <1>4. x % m = r
    BY ZenonT(40), <1>1, <1>3, ExactDivision
  <1> QED
    BY <1>4, <1>5 DEF Entry, m

(* A slot counts modulo the size of the ring. *)
LEMMA EntryModulo ==
  ASSUME NEW h, Capacity(h) \in Nat \ {0}, NEW x \in Int
  PROVE  /\ x % Capacity(h) \in 0 .. Capacity(h) - 1
         /\ Entry(h, x % Capacity(h)) = Entry(h, x)
         /\ Entry(h, (x % Capacity(h)) + 1) = Entry(h, x + 1)
  <1> DEFINE m == Capacity(h)
  <1>1. m \in Nat \ {0}
    OBVIOUS
  <1>5. PICK d \in Int : \E r \in 0 .. m - 1 : x = d * m + r /\ x % m = r
    BY <1>1, Quotient
  <1>2. PICK r \in 0 .. m - 1 : x = d * m + r /\ x % m = r
    BY <1>5
  <1>3. r \in Int /\ x = r + d * m /\ x + 1 = (r + 1) + d * m
    BY <1>1, <1>2
  <1>4. Entry(h, x) = Entry(h, r) /\ Entry(h, x + 1) = Entry(h, r + 1)
    BY <1>1, <1>2, <1>3, EntryCongruent
  <1> QED
    BY <1>2, <1>4

(* A ring shows each of its entries once.                                  *)
LEMMA EntryIs ==
  ASSUME NEW h, RingOK(h), NEW x \in Int
  PROVE  /\ Entry(h, x) \in 1 .. Capacity(h)
         /\ \A y \in Int : Entry(h, x) = Entry(h, y) =>
               \E q \in Int : x = y + q * Capacity(h)
  <1> DEFINE m == Capacity(h)
  <1>1. m \in Nat \ {0}
    BY DEF RingOK
  <1> HIDE DEF m
  <1>2. \A z \in Int : z % m \in 0 .. m - 1
    BY <1>1
  <1>3. \A z \in Int : (z % m) + 1 \in 1 .. m
    BY <1>1, <1>2
  <1>4. Entry(h, x) \in 1 .. m
    BY <1>3 DEF Entry, RingOK, m
  <1>5. ASSUME NEW y \in Int, Entry(h, x) = Entry(h, y)
        PROVE  \E q \in Int : x = y + q * m
    <2>1. (x % m) + 1 = (y % m) + 1
      BY <1>3, <1>5 DEF Entry, RingOK, m
    <2>2. x % m = y % m
      BY <1>2, <2>1
    <2>3. PICK a \in Int : \E r \in 0 .. m - 1 : x = a * m + r /\ x % m = r
      BY <1>1, Quotient
    <2>4. PICK b \in Int : \E r \in 0 .. m - 1 : y = b * m + r /\ y % m = r
      BY <1>1, Quotient
    <2> DEFINE r == y % m
    <2>6. x = a * m + r /\ y = b * m + r /\ r \in Int
      BY <1>2, <2>2, <2>3, <2>4
    <2> HIDE DEF r
    <2>5. x = y + (a - b) * m /\ a - b \in Int
      BY <1>1, <2>6
    <2> QED
      BY <2>5
  <1> QED
    BY <1>4, <1>5 DEF m

(* The entry with another key is as many slots further on as the keys are  *)
(* blocks apart, whatever header a consumer holds: its index of an index   *)
(* is right.                                                               *)
LEMMA RingDistance ==
  ASSUME RingInv, headers # << >>, blockIndex.tail \in Nat,
         NEW g \in DOMAIN headers, NEW s \in Int,
         NEW d \in 1 .. Capacity(headers[g]), NEW e \in 1 .. Capacity(headers[g]),
         d \in DOMAIN entries, e \in DOMAIN entries, Key(d) \in Int, Top \in Int,
         Keyed(d), Keyed(e), Entry(headers[g], s) = d
  PROVE  \E z \in Int : /\ Key(e) = Key(d) + z * BlockSize
                        /\ Entry(headers[g], s + z) = e
  <1> DEFINE h == headers[g]
             m == Capacity(h)
             n == Capacity(blockIndex)
             t == blockIndex.tail
  <1>0. RingOK(h) /\ Agree(h, blockIndex) /\ BlockSize \in Nat /\ m \in Nat \ {0} /\ n \in Int
        /\ t \in Int
    <2>1. blockIndex = headers[Len(headers)]
      BY DEF blockIndex
    <2>2. Len(headers) \in DOMAIN headers \/ n = Len(entries)
      BY DEF RingInv
    <2>3. RingOK(h) /\ Agree(h, blockIndex) /\ m \in Nat \ {0}
      BY DEF RingInv, RingOK
    <2> QED
      BY <2>3, QueueAssumption DEF RingInv
  <1>1. PICK y \in 1 - n .. 1 : KeyAt(e, y)
    BY DEF RingInv
  <1>2. PICK w \in 1 - n .. 1 : KeyAt(d, w)
    BY DEF RingInv
  <1>3. PICK r \in Int : \A x \in Int : Entry(blockIndex, x) <= m => Entry(h, x + r) = Entry(blockIndex, x)
    BY <1>0 DEF Agree
  <1> HIDE DEF h, m, n, t
  <1>4. y \in Int /\ w \in Int /\ t + y \in Int /\ t + w \in Int
    BY <1>0
  <1>5. Entry(h, (t + y) + r) = e /\ Entry(h, (t + w) + r) = d
    <2>1. Entry(blockIndex, t + y) = e /\ Entry(blockIndex, t + w) = d
      BY <1>1, <1>2 DEF KeyAt, t
    <2>2. e <= m /\ d <= m
      BY DEF m, h
    <2> QED
      BY <1>3, <1>4, <2>1, <2>2
  <1>6. Key(e) = Key(d) + (y - w) * BlockSize
    BY <1>0, <1>1, <1>2, <1>4 DEF KeyAt
  <1>7. PICK q \in Int : s = ((t + w) + r) + q * m
    <2>1. Entry(h, s) = Entry(h, (t + w) + r) /\ (t + w) + r \in Int
      BY <1>4, <1>5 DEF h
    <2> QED
      BY <1>0, <2>1, EntryIs DEF m
  <1>8. Entry(h, s + (y - w)) = e
    <2>1. s + (y - w) = ((t + y) + r) + q * m
      BY <1>0, <1>4, <1>7
    <2>2. s + (y - w) \in Int /\ (t + y) + r \in Int
      BY <1>4
    <2> QED
      BY <1>0, <1>5, <2>1, <2>2, EntryCongruent DEF m
  <1> QED
    BY <1>4, <1>6, <1>8 DEF h

(* The fields of a frame, and what a frame is after an assignment.         *)
LEMMA FrameFields ==
  ASSUME NEW f \in Frames
  PROVE  /\ f.pc \in PCs /\ f.tail \in Int /\ f.over \in Int /\ f.desired \in Int
         /\ f.count \in Int /\ f.index \in Nat /\ f.end \in Nat /\ f.header \in Nat
         /\ f.slot \in Nat /\ f.block \in Blocks \cup {NoBlock} /\ f.moved \in Nat
         /\ f.items \in Seq(Nat) /\ Len(f.items) \in Nat /\ Start(f) \in Int
  <1>1. f.items \in Seq(Nat) /\ f.index \in Nat
    BY DEF Frames
  <1>2. Len(f.items) \in Nat
    BY <1>1
  <1>3. Start(f) \in Int
    BY <1>1, <1>2 DEF Start
  <1> QED
    BY <1>1, <1>2, <1>3 DEF Frames

(* Assigning a local of its type gives a frame again. *)
LEMMA FrameAssigned ==
  ASSUME NEW f \in Frames
  PROVE  /\ \A v \in Int : [f EXCEPT !.tail = v] \in Frames
         /\ \A v \in Int : [f EXCEPT !.over = v] \in Frames
         /\ \A v \in Int : [f EXCEPT !.desired = v] \in Frames
         /\ \A v \in Int : [f EXCEPT !.count = v] \in Frames
         /\ \A v \in Nat : [f EXCEPT !.index = v] \in Frames
         /\ \A v \in Nat : [f EXCEPT !.end = v] \in Frames
         /\ \A v \in Nat : [f EXCEPT !.header = v] \in Frames
         /\ \A v \in Nat : [f EXCEPT !.slot = v] \in Frames
         /\ \A v \in Nat : [f EXCEPT !.moved = v] \in Frames
         /\ \A v \in Seq(Nat) : [f EXCEPT !.items = v] \in Frames
         /\ \A v \in Blocks \cup {NoBlock} : [f EXCEPT !.block = v] \in Frames
         /\ \A v \in PCs : [f EXCEPT !.pc = v] \in Frames
  BY DEF Frames

(* The frame of a consumer that is not in a call. *)
LEMMA IdleIs ==
    /\ Idle \in Frames /\ Idle.items = << >> /\ Idle.index = 0 /\ Idle.end = 0
    /\ Idle.block = NoBlock /\ Idle.moved = 0
  <1>1. << >> \in Seq(Nat) /\ NoBlock \in Blocks \cup {NoBlock} /\ "idle" \in PCs
    BY DEF PCs
  <1> QED
    BY <1>1 DEF Idle, Frames, NoBlock

(* What a step of a consumer does to its frame and leaves as it is.        *)
Kept == UNCHANGED <<listed, hashed, headers, tailIndex, tailBlock, producer, ended>>
Others(k) == \A j \in Consumers : j # k => c'[j] = c[j]
Becomes(k, p, f) ==
    /\ c'[k].pc = p /\ c'[k].tail = f.tail /\ c'[k].over = f.over
    /\ c'[k].desired = f.desired /\ c'[k].count = f.count
    /\ c'[k].index = f.index /\ c'[k].end = f.end /\ c'[k].header = f.header
    /\ c'[k].slot = f.slot /\ c'[k].block = f.block /\ c'[k].moved = f.moved
    /\ c'[k].items = f.items

(* Step(k, p, f) assigns frame f, goes to p, and leaves the rest alone. *)
LEMMA StepIs ==
  ASSUME FramesOK, NEW k \in Consumers, NEW p \in PCs, NEW f \in Frames, Step(k, p, f)
  PROVE  Becomes(k, p, f) /\ Others(k) /\ FramesOK' /\ Kept
  <1>1. c' = [c EXCEPT ![k] = [f EXCEPT !.pc = p]] /\ Kept
    BY DEF Step, Kept
  <1>2. [f EXCEPT !.pc = p] \in Frames
    BY FrameAssigned
  <1>3. c'[k] = [f EXCEPT !.pc = p] /\ Others(k)
    BY <1>1 DEF FramesOK, Others
  <1>4. FramesOK'
    BY <1>1, <1>2 DEF FramesOK
  <1> QED
    BY <1>1, <1>3, <1>4 DEF Frames, Becomes

-----------------------------------------------------------------------------
(* The steps of a consumer, one by one. *)

(* The steps of try_dequeue_bulk(), one by one: what each does to its      *)
(* frame and to the shared state.                                          *)
LEMMA LoadTailIs ==
  ASSUME FramesOK, CountersOK, NEW k \in Consumers, LoadTail(k)
  PROVE  /\ c[k].pc = "idle" /\ c'[k].pc = "over"
         /\ c'[k].index = c[k].index /\ c'[k].end = c[k].end /\ c'[k].items = c[k].items
         /\ c'[k].block = c[k].block /\ Others(k) /\ FramesOK' /\ Kept
         /\ UNCHANGED <<headIndex, optimistic, overcommit, entries, home, elements, completed>>
  <1> DEFINE f == [c[k] EXCEPT !.tail = tailIndex]
  <1>1. f \in Frames /\ "over" \in PCs
    BY FrameAssigned DEF FramesOK, CountersOK, PCs
  <1>2. f.index = c[k].index /\ f.end = c[k].end /\ f.items = c[k].items /\ f.block = c[k].block
    BY DEF FramesOK, Frames
  <1>3. Step(k, "over", f)
    BY DEF LoadTail
  <1> HIDE DEF f
  <1>9. Becomes(k, "over", f) /\ Others(k) /\ FramesOK' /\ Kept
    BY <1>1, <1>3, StepIs
  <1> QED
    BY <1>2, <1>9 DEF LoadTail, At, memory, Becomes

(* The second read, of dequeueOvercommit. *)
LEMMA LoadOvercommitIs ==
  ASSUME FramesOK, CountersOK, NEW k \in Consumers, LoadOvercommit(k)
  PROVE  /\ c[k].pc = "over" /\ c'[k].pc = "optimistic" /\ c'[k].over = overcommit
         /\ c'[k].index = c[k].index /\ c'[k].end = c[k].end /\ c'[k].items = c[k].items
         /\ c'[k].block = c[k].block /\ Others(k) /\ FramesOK' /\ Kept
         /\ UNCHANGED <<headIndex, optimistic, overcommit, entries, home, elements, completed>>
  <1> DEFINE f == [c[k] EXCEPT !.over = overcommit]
  <1>1. f \in Frames /\ "optimistic" \in PCs
    BY FrameAssigned DEF FramesOK, CountersOK, PCs
  <1>2. f.index = c[k].index /\ f.end = c[k].end /\ f.items = c[k].items /\ f.block = c[k].block
        /\ f.over = overcommit
    BY DEF FramesOK, Frames
  <1>3. Step(k, "optimistic", f)
    BY DEF LoadOvercommit
  <1> HIDE DEF f
  <1>9. Becomes(k, "optimistic", f) /\ Others(k) /\ FramesOK' /\ Kept
    BY <1>1, <1>3, StepIs
  <1> QED
    BY <1>2, <1>9 DEF LoadOvercommit, At, memory, Becomes

(* The lesser of two numbers. *)
LEMMA SmallerIs ==
  ASSUME NEW m \in Int, NEW n \in Int
  PROVE  /\ Smaller(m, n) \in Int /\ Smaller(m, n) <= m /\ Smaller(m, n) <= n
         /\ Smaller(m, n) = m \/ Smaller(m, n) = n
  BY DEF Smaller

(* What becomes of a call that has found nothing. *)
LEMMA BackToIdle ==
  ASSUME FramesOK, NEW k \in Consumers, Step(k, "idle", Idle)
  PROVE  /\ c'[k].pc = "idle" /\ c'[k].index = 0 /\ c'[k].end = 0 /\ c'[k].items = << >>
         /\ c'[k].block = NoBlock /\ Others(k) /\ FramesOK' /\ Kept
  <1>1. "idle" \in PCs /\ Idle \in Frames
    BY IdleIs DEF PCs
  <1>2. Becomes(k, "idle", Idle) /\ Others(k) /\ FramesOK' /\ Kept
    BY <1>1, StepIs
  <1> QED
    BY <1>2, IdleIs DEF Becomes

(* The third read: there is something to claim, or the call ends. *)
LEMMA LoadOptimisticIs ==
  ASSUME FramesOK, CountersOK, NEW k \in Consumers, LoadOptimistic(k)
  PROVE  /\ c[k].pc = "optimistic"
         /\ \/ /\ c'[k].pc = "claim" /\ c'[k].over = c[k].over
               /\ c'[k].desired \in 1 .. MaxDequeue
               /\ c'[k].index = c[k].index /\ c'[k].end = c[k].end
               /\ c'[k].items = c[k].items /\ c'[k].block = c[k].block
            \/ /\ c'[k].pc = "idle" /\ c'[k].index = 0 /\ c'[k].end = 0
               /\ c'[k].items = << >> /\ c'[k].block = NoBlock
         /\ Others(k) /\ FramesOK' /\ Kept
         /\ UNCHANGED <<headIndex, optimistic, overcommit, entries, home, elements, completed>>
  <1>0. c[k] \in Frames /\ MaxDequeue \in Nat \ {0} /\ Desired(k) \in Int
    BY FrameFields, QueueAssumption DEF FramesOK, CountersOK, Desired
  <1>1. CASE Desired(k) > 0
    <2> DEFINE d == Smaller(Desired(k), MaxDequeue)
               f == [c[k] EXCEPT !.desired = d, !.tail = 0]
    <2>1. d \in 1 .. MaxDequeue
      BY <1>0, <1>1 DEF Smaller
    <2>9. 0 \in Int
      OBVIOUS
    <2> HIDE DEF d
    <2>2. f \in Frames /\ "claim" \in PCs
      <3>1. [c[k] EXCEPT !.desired = d] \in Frames
        BY <1>0, <2>1, FrameAssigned
      <3>2. f = [[c[k] EXCEPT !.desired = d] EXCEPT !.tail = 0]
        BY <1>0 DEF Frames
      <3> DEFINE e == [c[k] EXCEPT !.desired = d]
      <3> HIDE DEF e, f
      <3>3. f \in Frames
        BY <2>9, <3>1, <3>2, FrameAssigned DEF e
      <3> QED
        BY <3>3 DEF PCs
    <2>3. f.index = c[k].index /\ f.end = c[k].end /\ f.items = c[k].items
          /\ f.block = c[k].block /\ f.over = c[k].over /\ f.desired = d
      BY <1>0 DEF Frames
    <2>4. Step(k, "claim", f)
      BY <1>1 DEF LoadOptimistic, d
    <2> HIDE DEF f
    <2>5. /\ c'[k].pc = "claim" /\ c'[k].over = c[k].over /\ c'[k].desired = d
          /\ c'[k].index = c[k].index /\ c'[k].end = c[k].end
          /\ c'[k].items = c[k].items /\ c'[k].block = c[k].block
          /\ Others(k) /\ FramesOK' /\ Kept
      <3>1. Becomes(k, "claim", f) /\ Others(k) /\ FramesOK' /\ Kept
        BY <2>2, <2>4, StepIs
      <3> QED
        BY <2>3, <3>1 DEF Becomes
    <2> QED
      BY <2>1, <2>5 DEF LoadOptimistic, At, memory
  <1>2. CASE ~(Desired(k) > 0)
    <2>1. Step(k, "idle", Idle)
      BY <1>2 DEF LoadOptimistic
    <2> QED
      BY <2>1, BackToIdle DEF LoadOptimistic, At, memory
  <1> QED
    BY <1>1, <1>2

(* The claim: dequeueOptimisticCount grows by what is desired. *)
LEMMA ClaimOptimisticIs ==
  ASSUME FramesOK, CountersOK, NEW k \in Consumers, ClaimOptimistic(k)
  PROVE  /\ c[k].pc = "claim" /\ c'[k].pc = "reload" /\ c'[k].desired = c[k].desired
         /\ c'[k].over = optimistic - c[k].over
         /\ c'[k].index = c[k].index /\ c'[k].end = c[k].end /\ c'[k].items = c[k].items
         /\ c'[k].block = c[k].block /\ Others(k) /\ FramesOK' /\ Kept
         /\ optimistic' = optimistic + c[k].desired
         /\ UNCHANGED <<headIndex, overcommit, entries, home, elements, completed>>
  <1> DEFINE v == optimistic - c[k].over
             f == [c[k] EXCEPT !.over = optimistic - @]
  <1>0. c[k] \in Frames /\ v \in Int
    BY FrameFields DEF FramesOK, CountersOK
  <1>1. f = [c[k] EXCEPT !.over = v]
    BY <1>0 DEF Frames
  <1>2. f \in Frames /\ "reload" \in PCs
    BY <1>0, <1>1, FrameAssigned DEF PCs
  <1>3. f.index = c[k].index /\ f.end = c[k].end /\ f.items = c[k].items /\ f.block = c[k].block
        /\ f.over = v /\ f.desired = c[k].desired
    BY <1>0 DEF Frames
  <1>4. Step(k, "reload", f)
    BY DEF ClaimOptimistic
  <1> HIDE DEF f
  <1>9. Becomes(k, "reload", f) /\ Others(k) /\ FramesOK' /\ Kept
    BY <1>2, <1>4, StepIs
  <1> QED
    BY <1>3, <1>9 DEF ClaimOptimistic, At, memory, Becomes

(* What of the claim is covered by tailIndex. *)
LEMMA ReloadTailIs ==
  ASSUME FramesOK, CountersOK, NEW k \in Consumers, ReloadTail(k), c[k].desired \in 1 .. MaxDequeue
  PROVE  /\ c[k].pc = "reload" /\ c'[k].desired = c[k].desired
         /\ c'[k].count \in 0 .. c[k].desired
         /\ c'[k].count = 0 \/ c'[k].count <= tailIndex - c[k].over
         /\ c'[k].pc = IF c'[k].count < c[k].desired THEN "return" ELSE "first"
         /\ c'[k].index = c[k].index /\ c'[k].end = c[k].end /\ c'[k].items = c[k].items
         /\ c'[k].block = c[k].block /\ Others(k) /\ FramesOK' /\ Kept
         /\ UNCHANGED <<headIndex, optimistic, overcommit, entries, home, elements, completed>>
  <1> DEFINE n == IF Actual(k) > 0 THEN Actual(k) ELSE 0
             p == IF n < c[k].desired THEN "return" ELSE "first"
             f == [c[k] EXCEPT !.count = n, !.over = 0]
  <1>0. c[k] \in Frames /\ c[k].over \in Int /\ tailIndex \in Int /\ c[k].desired \in Int
    BY FrameFields DEF FramesOK, CountersOK
  <1>1. n \in 0 .. c[k].desired /\ (n = 0 \/ n <= tailIndex - c[k].over)
    <2>1. tailIndex - c[k].over \in Int
      BY <1>0
    <2> QED
      BY <1>0, <2>1 DEF Actual, Smaller
  <1>2. Step(k, p, f)
    BY DEF ReloadTail
  <1> HIDE DEF n
  <1>3. p \in PCs
    BY DEF PCs
  <1>4. f \in Frames
    <2>0. n \in Int /\ 0 \in Int
      BY <1>0, <1>1
    <2>1. [c[k] EXCEPT !.count = n] \in Frames
      BY <1>0, <2>0, FrameAssigned
    <2>2. f = [[c[k] EXCEPT !.count = n] EXCEPT !.over = 0]
      BY <1>0 DEF Frames
    <2> DEFINE e == [c[k] EXCEPT !.count = n]
    <2> HIDE DEF e, f
    <2> QED
      BY <2>0, <2>1, <2>2, FrameAssigned DEF e
  <1>5. f.index = c[k].index /\ f.end = c[k].end /\ f.items = c[k].items /\ f.block = c[k].block
        /\ f.count = n /\ f.desired = c[k].desired
    BY <1>0 DEF Frames
  <1> HIDE DEF f, p
  <1>6. /\ c'[k].pc = p /\ c'[k].count = n /\ c'[k].desired = c[k].desired
        /\ c'[k].index = c[k].index /\ c'[k].end = c[k].end /\ c'[k].items = c[k].items
        /\ c'[k].block = c[k].block /\ Others(k) /\ FramesOK' /\ Kept
    <2>1. Becomes(k, p, f) /\ Others(k) /\ FramesOK' /\ Kept
      BY <1>2, <1>3, <1>4, StepIs
    <2> QED
      BY <1>5, <2>1 DEF Becomes
  <1> QED
    BY <1>1, <1>6 DEF ReloadTail, At, memory, p

(* What was claimed in vain is given back. *)
LEMMA OvercommitIs ==
  ASSUME FramesOK, CountersOK, NEW k \in Consumers, Overcommit(k)
  PROVE  /\ c[k].pc = "return"
         /\ overcommit' = overcommit + (c[k].desired - c[k].count)
         /\ \/ /\ c[k].count > 0 /\ c'[k].pc = "first" /\ c'[k].count = c[k].count
               /\ c'[k].desired = c[k].desired
               /\ c'[k].index = c[k].index /\ c'[k].end = c[k].end
               /\ c'[k].items = c[k].items /\ c'[k].block = c[k].block
            \/ /\ ~(c[k].count > 0)
               /\ c'[k].pc = "idle" /\ c'[k].index = 0 /\ c'[k].end = 0
               /\ c'[k].items = << >> /\ c'[k].block = NoBlock
         /\ Others(k) /\ FramesOK' /\ Kept
         /\ UNCHANGED <<headIndex, optimistic, entries, home, elements, completed>>
  <1>0. c[k] \in Frames
    BY DEF FramesOK
  <1>1. CASE c[k].count > 0
    <2>1. Step(k, "first", c[k]) /\ "first" \in PCs
      BY <1>1 DEF Overcommit, PCs
    <2>2. /\ c'[k].pc = "first" /\ c'[k].count = c[k].count
          /\ c'[k].desired = c[k].desired
          /\ c'[k].index = c[k].index /\ c'[k].end = c[k].end
          /\ c'[k].items = c[k].items /\ c'[k].block = c[k].block
          /\ Others(k) /\ FramesOK' /\ Kept
      <3>1. Becomes(k, "first", c[k]) /\ Others(k) /\ FramesOK' /\ Kept
        BY <1>0, <2>1, StepIs
      <3> QED
        BY <3>1, <1>1 DEF Becomes
    <2> QED
      BY <1>1, <2>2 DEF Overcommit, At, memory
  <1>2. CASE ~(c[k].count > 0)
    <2>1. Step(k, "idle", Idle)
      BY <1>2 DEF Overcommit
    <2> QED
      BY <1>2, <2>1, BackToIdle DEF Overcommit, At, memory
  <1> QED
    BY <1>1, <1>2

(* headIndex grows by what was granted: the range is the consumer's own. *)
LEMMA ClaimElementsIs ==
  ASSUME FramesOK, CountersOK, NEW k \in Consumers, ClaimElements(k), c[k].count \in Nat
  PROVE  /\ c[k].pc = "first" /\ c'[k].pc = "header" /\ headIndex' = headIndex + c[k].count
         /\ c'[k].index = headIndex /\ c'[k].end = headIndex'
         /\ c'[k].items = << >> /\ c'[k].block = NoBlock
         /\ Others(k) /\ FramesOK' /\ Kept
         /\ UNCHANGED <<optimistic, overcommit, entries, home, elements, completed>>
  <1> DEFINE n == headIndex + c[k].count
             f == [Idle EXCEPT !.index = headIndex, !.end = n]
  <1>0. headIndex \in Nat /\ n \in Nat
    BY DEF CountersOK
  <1>1. Step(k, "header", f)
    BY DEF ClaimElements
  <1> HIDE DEF n
  <1>2. f \in Frames /\ "header" \in PCs
    <2>1. [Idle EXCEPT !.index = headIndex] \in Frames
      BY <1>0, IdleIs, FrameAssigned
    <2>2. f = [[Idle EXCEPT !.index = headIndex] EXCEPT !.end = n]
      BY IdleIs DEF Frames
    <2>3. f \in Frames
      BY <1>0, <2>1, <2>2, FrameAssigned
    <2> QED
      BY <2>3 DEF PCs, Working
  <1>3. f.index = headIndex /\ f.end = n /\ f.items = << >> /\ f.block = NoBlock
    BY IdleIs DEF Frames
  <1> HIDE DEF f
  <1>9. Becomes(k, "header", f) /\ Others(k) /\ FramesOK' /\ Kept
    BY <1>1, <1>2, StepIs
  <1> QED
    BY <1>3, <1>9 DEF ClaimElements, At, memory, n, Becomes

(* The newest header is taken. *)
LEMMA LoadHeaderIs ==
  ASSUME FramesOK, IndexOK, NEW k \in Consumers, LoadHeader(k)
  PROVE  /\ c[k].pc = "header" /\ c'[k].pc = "tail" /\ c'[k].header = Len(headers)
         /\ c'[k].index = c[k].index /\ c'[k].end = c[k].end /\ c'[k].items = c[k].items
         /\ c'[k].block = c[k].block /\ Others(k) /\ FramesOK' /\ Kept
         /\ UNCHANGED <<headIndex, optimistic, overcommit, entries, home, elements, completed>>
  <1> DEFINE f == [c[k] EXCEPT !.header = Len(headers)]
  <1>0. Len(headers) \in Nat
    BY DEF IndexOK
  <1>1. f \in Frames /\ "tail" \in PCs
    BY <1>0, FrameAssigned DEF FramesOK, PCs, Working, Looking
  <1>2. f.index = c[k].index /\ f.end = c[k].end /\ f.items = c[k].items /\ f.block = c[k].block
        /\ f.header = Len(headers)
    BY DEF FramesOK, Frames
  <1>3. Step(k, "tail", f)
    BY DEF LoadHeader
  <1> HIDE DEF f
  <1>9. Becomes(k, "tail", f) /\ Others(k) /\ FramesOK' /\ Kept
    BY <1>1, <1>3, StepIs
  <1> QED
    BY <1>2, <1>9 DEF LoadHeader, At, memory, Becomes

(* The tail of that header is read. *)
LEMMA LoadIndexTailIs ==
  ASSUME FramesOK, NEW k \in Consumers, LoadIndexTail(k), Header(k).tail \in Nat
  PROVE  /\ c[k].pc = "tail" /\ c'[k].pc = "key" /\ c'[k].slot = Header(k).tail
         /\ c'[k].header = c[k].header
         /\ c'[k].index = c[k].index /\ c'[k].end = c[k].end /\ c'[k].items = c[k].items
         /\ c'[k].block = c[k].block /\ Others(k) /\ FramesOK' /\ Kept
         /\ UNCHANGED <<headIndex, optimistic, overcommit, entries, home, elements, completed>>
  <1> DEFINE v == Header(k).tail
             f == [c[k] EXCEPT !.slot = v]
  <1>1. f \in Frames /\ "key" \in PCs
    BY FrameAssigned DEF FramesOK, PCs, Working, Looking
  <1>2. f.index = c[k].index /\ f.end = c[k].end /\ f.items = c[k].items /\ f.block = c[k].block
        /\ f.header = c[k].header /\ f.slot = v
    BY DEF FramesOK, Frames
  <1>3. Step(k, "key", f)
    BY DEF LoadIndexTail
  <1> HIDE DEF f
  <1>9. Becomes(k, "key", f) /\ Others(k) /\ FramesOK' /\ Kept
    BY <1>1, <1>3, StepIs
  <1> QED
    BY <1>2, <1>9 DEF LoadIndexTail, At, memory, Becomes

(* The slot of the first block is computed. *)
LEMMA LookUpIs ==
  ASSUME FramesOK, NEW k \in Consumers, LookUp(k), SlotOf(k) \in Nat
  PROVE  /\ c[k].pc = "key" /\ c'[k].pc = "move" /\ c'[k].slot = SlotOf(k)
         /\ c'[k].header = c[k].header
         /\ c'[k].index = c[k].index /\ c'[k].end = c[k].end /\ c'[k].items = c[k].items
         /\ c'[k].block = c[k].block /\ Others(k) /\ FramesOK' /\ Kept
         /\ UNCHANGED <<headIndex, optimistic, overcommit, entries, home, elements, completed>>
  <1> DEFINE v == SlotOf(k)
             f == [c[k] EXCEPT !.slot = v]
  <1>1. f \in Frames /\ "move" \in PCs
    BY FrameAssigned DEF FramesOK, PCs, Working, Looking
  <1>2. f.index = c[k].index /\ f.end = c[k].end /\ f.items = c[k].items /\ f.block = c[k].block
        /\ f.header = c[k].header /\ f.slot = v
    BY DEF FramesOK, Frames
  <1>3. Step(k, "move", f)
    BY DEF LookUp
  <1> HIDE DEF f
  <1>9. Becomes(k, "move", f) /\ Others(k) /\ FramesOK' /\ Kept
    BY <1>1, <1>3, StepIs
  <1> QED
    BY <1>2, <1>9 DEF LookUp, At, memory, Becomes

(* Concatenation, element by element. *)
LEMMA ItemsJoined ==
  ASSUME NEW s \in Seq(Nat), NEW n \in Nat, NEW u \in [1 .. n -> Nat]
  PROVE  /\ s \o u \in Seq(Nat) /\ Len(s \o u) = Len(s) + n
         /\ \A i \in 1 .. Len(s) : (s \o u)[i] = s[i]
         /\ \A i \in 1 .. n : (s \o u)[Len(s) + i] = u[i]
  <1>1. u \in Seq(Nat) /\ Len(u) = n
    BY IsASeq
  <1>2. s \o u \in Seq(Nat) /\ Len(s \o u) = Len(s) + n
    BY <1>1, ConcatProperties
  <1>3. \A i \in 1 .. Len(s) : (s \o u)[i] = s[i]
    BY <1>1, ConcatProperties
  <1>4. ASSUME NEW i \in 1 .. n PROVE (s \o u)[Len(s) + i] = u[i]
    <2>1. Len(s) + i \in 1 .. Len(s) + Len(u) /\ ~(Len(s) + i <= Len(s))
          /\ Len(s) + i - Len(s) = i
      BY <1>1
    <2> QED
      BY <1>1, <2>1, ConcatProperties
  <1> QED
    BY <1>2, <1>3, <1>4

(* The elements of one block, up to its end or the end of the range, are   *)
(* moved out.                                                              *)
LEMMA MoveElementsIs ==
  ASSUME FramesOK, MemoryOK, NEW k \in Consumers, MoveElements(k), c[k].index < c[k].end
  PROVE  LET b == entries[EntryOf(k)].value
             i == c[k].index
             n == c'[k].moved
         IN /\ c[k].pc = "move" /\ c'[k].pc = "count" /\ b \in Blocks /\ c'[k].block = b
            /\ n \in Nat \ {0} /\ c'[k].index = i + n /\ c'[k].end = c[k].end
            /\ c'[k].header = c[k].header /\ c'[k].slot = c[k].slot
            /\ i + n <= c[k].end /\ i + n <= Base(i) + BlockSize
            /\ i + n = c[k].end \/ i + n = Base(i) + BlockSize
            /\ Len(c'[k].items) = Len(c[k].items) + n
            /\ \A m \in 1 .. Len(c[k].items) : c'[k].items[m] = c[k].items[m]
            /\ \A m \in 1 .. n : c'[k].items[Len(c[k].items) + m]
                                    = elements[b][i - Base(i) + m - 1]
            /\ elements' = [elements EXCEPT ![b] = [j \in 0 .. BlockSize - 1 |->
                               IF j \in i - Base(i) .. i - Base(i) + n - 1 THEN 0
                               ELSE elements[b][j]]]
            /\ Others(k) /\ FramesOK' /\ Kept
            /\ UNCHANGED <<headIndex, optimistic, overcommit, entries, home, completed>>
  <1> DEFINE b == entries[EntryOf(k)].value
             i == c[k].index
             n == BlockEnd(k) - i
             first == i % BlockSize
             its == c[k].items \o [m \in 1 .. n |-> elements[b][first + m - 1]]
             f == [c[k] EXCEPT !.block = b, !.moved = n, !.index = @ + n, !.items = its]
  <1>0. /\ c[k] \in Frames /\ i \in Nat /\ c[k].end \in Nat /\ c[k].items \in Seq(Nat)
        /\ BlockSize \in Nat \ {0} /\ Base(i) \in Nat /\ i % BlockSize = i - Base(i)
        /\ Base(i) <= i /\ i < Base(i) + BlockSize /\ b \in Blocks
    <2>1. c[k] \in Frames
      BY DEF FramesOK
    <2>2. i \in Nat /\ c[k].end \in Nat /\ c[k].items \in Seq(Nat)
      BY <2>1, FrameFields
    <2>3. PICK z \in Nat : z = i
      BY <2>2
    <2>4. Base(z) \in Nat /\ z % BlockSize = z - Base(z) /\ Base(z) <= z /\ z < Base(z) + BlockSize
      BY BaseIs
    <2>5. b \in Blocks
      BY DEF MoveElements
    <2> QED
      BY <2>1, <2>2, <2>3, <2>4, <2>5, QueueAssumption
  <1>1. /\ n \in Nat \ {0} /\ i + n \in Nat /\ i + n <= c[k].end /\ i + n <= Base(i) + BlockSize
        /\ (i + n = c[k].end \/ i + n = Base(i) + BlockSize)
    BY SMTT(30), <1>0 DEF BlockEnd, Smaller
  <1>2. first = i - Base(i) /\ first \in Nat
    BY <1>0
  <1> HIDE DEF b, i, n, first
  <1>3. \A m \in 1 .. n : elements[b][first + m - 1] \in Nat
    <2> TAKE m \in 1 .. n
    <2>1. first + m - 1 \in 0 .. BlockSize - 1
      BY SMTT(30), <1>0, <1>1, <1>2
    <2>2. elements[b] \in [0 .. BlockSize - 1 -> Nat]
      BY <1>0 DEF MemoryOK
    <2> QED
      BY <2>1, <2>2
  <1>4. /\ its \in Seq(Nat) /\ Len(its) = Len(c[k].items) + n
        /\ \A m \in 1 .. Len(c[k].items) : its[m] = c[k].items[m]
        /\ \A m \in 1 .. n : its[Len(c[k].items) + m] = elements[b][first + m - 1]
    <2> DEFINE g == [m \in 1 .. n |-> elements[b][first + m - 1]]
    <2>1. \A m \in 1 .. n : g[m] = elements[b][first + m - 1]
      OBVIOUS
    <2>2. g \in [1 .. n -> Nat] /\ n \in Nat
      BY <1>1, <1>3
    <2>3. its = c[k].items \o g
      OBVIOUS
    <2> HIDE DEF g, its
    <2>4. PICK s \in Seq(Nat) : s = c[k].items
      BY <1>0
    <2>6. PICK u \in [1 .. n -> Nat] : u = g
      BY <2>2
    <2>7. /\ s \o u \in Seq(Nat) /\ Len(s \o u) = Len(s) + n
          /\ \A m \in 1 .. Len(s) : (s \o u)[m] = s[m]
          /\ \A m \in 1 .. n : (s \o u)[Len(s) + m] = u[m]
      BY <2>2, ItemsJoined
    <2>8. its = s \o u
      BY <2>3, <2>4, <2>6
    <2>5. /\ its \in Seq(Nat) /\ Len(its) = Len(c[k].items) + n
          /\ \A m \in 1 .. Len(c[k].items) : its[m] = c[k].items[m]
          /\ \A m \in 1 .. n : its[Len(c[k].items) + m] = g[m]
      BY <2>4, <2>6, <2>7, <2>8
    <2> QED
      BY <2>1, <2>5
  <1>5. Step(k, "count", f) /\ elements' = [elements EXCEPT ![b] = [j \in DOMAIN @ |->
                               IF j \in first .. first + n - 1 THEN 0 ELSE @[j]]]
    BY DEF MoveElements, b, n, first, i
  <1> HIDE DEF its
  <1>6. f \in Frames /\ f.block = b /\ f.moved = n /\ f.index = i + n /\ f.items = its
        /\ f.end = c[k].end /\ f.header = c[k].header /\ f.slot = c[k].slot
    <2>1. /\ f = [c[k] EXCEPT !.block = b, !.moved = n, !.index = i + n, !.items = its]
          /\ n \in Nat /\ b \in Blocks \cup {NoBlock}
      BY <1>0, <1>1 DEF i, Frames
    <2> HIDE DEF f
    <2> DEFINE f1 == [c[k] EXCEPT !.block = b]
               f2 == [f1 EXCEPT !.moved = n]
               f3 == [f2 EXCEPT !.index = i + n]
    <2>2. f1 \in Frames
      BY <1>0, <2>1, FrameAssigned
    <2>3. f = [f3 EXCEPT !.items = its]
      BY <1>0, <2>1 DEF Frames
    <2>4. /\ f.block = b /\ f.moved = n /\ f.index = i + n /\ f.items = its
          /\ f.end = c[k].end /\ f.header = c[k].header /\ f.slot = c[k].slot
      BY <1>0, <2>1 DEF Frames
    <2> HIDE DEF f1
    <2>5. f2 \in Frames
      BY <2>1, <2>2, FrameAssigned
    <2> HIDE DEF f2
    <2>6. f3 \in Frames
      BY <1>1, <2>5, FrameAssigned
    <2> HIDE DEF f3
    <2> QED
      BY <1>4, <2>3, <2>4, <2>6, FrameAssigned
  <1> HIDE DEF f
  <1>7. "count" \in PCs
    BY DEF PCs, Working, Looking
  <1>8. Becomes(k, "count", f) /\ Others(k) /\ FramesOK' /\ Kept
    BY <1>5, <1>6, <1>7, StepIs
  <1>9. elements' = [elements EXCEPT ![b] = [j \in 0 .. BlockSize - 1 |->
                       IF j \in first .. first + n - 1 THEN 0 ELSE elements[b][j]]]
    <2>1. DOMAIN elements[b] = 0 .. BlockSize - 1 /\ b \in DOMAIN elements
      BY <1>0 DEF MemoryOK
    <2> QED
      BY <1>5, <2>1
  <1>10. c'[k].moved = n /\ c'[k].items = its
    BY <1>6, <1>8 DEF Becomes
  <1>11. /\ c'[k].pc = "count" /\ c'[k].block = b /\ c'[k].index = i + n
         /\ c'[k].end = c[k].end /\ c'[k].header = c[k].header /\ c'[k].slot = c[k].slot
    BY <1>6, <1>8 DEF Becomes
  <1>12. /\ c[k].pc = "move"
         /\ UNCHANGED <<headIndex, optimistic, overcommit, entries, home, completed>>
    BY DEF MoveElements, At
  <1> QED
    BY <1>0, <1>1, <1>2, <1>4, <1>8, <1>9, <1>10, <1>11, <1>12 DEF b, i

-----------------------------------------------------------------------------
(* After a block: the end, or the next one. *)
Finishes(k) == /\ c[k].index = c[k].end
               /\ c'[k].pc = "done" /\ c'[k].index = 0 /\ c'[k].end = 0
               /\ c'[k].items = c[k].items /\ c'[k].block = NoBlock
GoesOn(k) == /\ c[k].index # c[k].end
             /\ c'[k].pc = "move" /\ c'[k].slot = (c[k].slot + 1) % Capacity(Header(k))
             /\ c'[k].header = c[k].header /\ c'[k].index = c[k].index
             /\ c'[k].end = c[k].end /\ c'[k].items = c[k].items /\ c'[k].block = NoBlock

(* After a block the call is finished or goes on with the next slot. *)
LEMMA NextBlockIs ==
  ASSUME FramesOK, NEW k \in Consumers, NextBlock(k), Capacity(Header(k)) \in Nat \ {0}
  PROVE  (Finishes(k) \/ GoesOn(k)) /\ Others(k) /\ FramesOK' /\ Kept
  <1>0. c[k] \in Frames /\ c[k].items \in Seq(Nat) /\ c[k].slot \in Nat
    BY FrameFields DEF FramesOK
  <1>1. CASE c[k].index = c[k].end
    <2> DEFINE f == [Idle EXCEPT !.items = c[k].items]
    <2>1. f \in Frames /\ "done" \in PCs
      BY <1>0, IdleIs, FrameAssigned DEF PCs
    <2>2. Step(k, "done", f)
      BY <1>1 DEF NextBlock
    <2>3. f.index = 0 /\ f.end = 0 /\ f.block = NoBlock /\ f.items = c[k].items
      BY IdleIs DEF Frames
    <2> HIDE DEF f
    <2>4. Becomes(k, "done", f) /\ Others(k) /\ FramesOK' /\ Kept
      BY <2>1, <2>2, StepIs
    <2> QED
      BY <1>1, <2>3, <2>4 DEF Finishes, Becomes
  <1>2. CASE c[k].index # c[k].end
    <2> DEFINE v == (c[k].slot + 1) % Capacity(Header(k))
               g == [c[k] EXCEPT !.slot = v]
               h == [g EXCEPT !.block = NoBlock]
               f == [c[k] EXCEPT !.slot = (@ + 1) % Capacity(Header(k)),
                                 !.block = NoBlock, !.moved = 0]
    <2>1. v \in Nat
      <3>1. c[k].slot + 1 \in Int
        BY <1>0
      <3> QED
        BY <3>1, EntryModulo
    <2>2. Step(k, "move", f)
      BY <1>2 DEF NextBlock
    <2>3. f = [h EXCEPT !.moved = 0]
      BY <1>0 DEF Frames
    <2> HIDE DEF v
    <2>4. f.slot = v /\ f.block = NoBlock /\ f.header = c[k].header
          /\ f.index = c[k].index /\ f.end = c[k].end /\ f.items = c[k].items
      BY <1>0 DEF Frames, v
    <2>5. g \in Frames
      BY <1>0, <2>1, FrameAssigned
    <2> HIDE DEF g
    <2>6. h \in Frames /\ 0 \in Nat
      BY <2>5, FrameAssigned
    <2> HIDE DEF h, f
    <2>7. f \in Frames
      BY <2>3, <2>6, FrameAssigned
    <2>8. "move" \in PCs
      BY DEF PCs, Working, Looking
    <2>9. Becomes(k, "move", f) /\ Others(k) /\ FramesOK' /\ Kept
      BY <2>2, <2>7, <2>8, StepIs
    <2> QED
      BY <1>2, <2>4, <2>9 DEF GoesOn, Becomes, v
  <1> QED
    BY <1>1, <1>2

(* The moved elements are counted; the last ones make the block empty. *)
LEMMA CountElementsIs ==
  ASSUME FramesOK, NEW k \in Consumers, CountElements(k), Capacity(Header(k)) \in Nat \ {0}
  PROVE  /\ c[k].pc = "count" /\ completed' = [completed EXCEPT ![c[k].block] = @ + c[k].moved]
         /\ \/ IsEmptyNow(k) /\ Becomes(k, "unlink", c[k])
            \/ ~IsEmptyNow(k) /\ (Finishes(k) \/ GoesOn(k))
         /\ Others(k) /\ FramesOK' /\ Kept
         /\ UNCHANGED <<headIndex, optimistic, overcommit, entries, home, elements>>
  <1>1. CASE IsEmptyNow(k)
    <2>1. Step(k, "unlink", c[k]) /\ "unlink" \in PCs /\ c[k] \in Frames
      BY <1>1 DEF CountElements, PCs, Working, Looking, FramesOK
    <2>2. Becomes(k, "unlink", c[k]) /\ Others(k) /\ FramesOK' /\ Kept
      BY <2>1, StepIs
    <2> QED
      BY <1>1, <2>2 DEF CountElements, At
  <1>2. CASE ~IsEmptyNow(k)
    <2>1. NextBlock(k)
      BY <1>2 DEF CountElements
    <2>2. (Finishes(k) \/ GoesOn(k)) /\ Others(k) /\ FramesOK' /\ Kept
      BY <2>1, NextBlockIs
    <2> QED
      BY <1>2, <2>2 DEF CountElements, At
  <1> QED
    BY <1>1, <1>2

(* The entry of an empty block no longer leads to it. *)
LEMMA UnlinkBlockIs ==
  ASSUME FramesOK, NEW k \in Consumers, UnlinkBlock(k)
  PROVE  /\ c[k].pc = "unlink" /\ Becomes(k, "free", c[k])
         /\ entries' = [entries EXCEPT ![EntryOf(k)].value = NoBlock]
         /\ Others(k) /\ FramesOK' /\ Kept
         /\ UNCHANGED <<headIndex, optimistic, overcommit, home, elements, completed>>
  <1>1. Step(k, "free", c[k]) /\ "free" \in PCs /\ c[k] \in Frames
    BY DEF UnlinkBlock, PCs, Working, Looking, FramesOK
  <1>2. Becomes(k, "free", c[k]) /\ Others(k) /\ FramesOK' /\ Kept
    BY <1>1, StepIs
  <1> QED
    BY <1>2 DEF UnlinkBlock, At, memory

(* An empty block is given back. *)
LEMMA FreeBlockIs ==
  ASSUME FramesOK, NEW k \in Consumers, FreeBlock(k), Capacity(Header(k)) \in Nat \ {0}
  PROVE  /\ c[k].pc = "free" /\ (Finishes(k) \/ GoesOn(k))
         /\ home' = [home EXCEPT ![c[k].block] = Freed(c[k].block)]
         /\ Others(k) /\ FramesOK' /\ Kept
         /\ UNCHANGED <<headIndex, optimistic, overcommit, entries, elements, completed>>
  <1>1. NextBlock(k)
    BY DEF FreeBlock
  <1>2. (Finishes(k) \/ GoesOn(k)) /\ Others(k) /\ FramesOK' /\ Kept
    BY <1>1, NextBlockIs
  <1> QED
    BY <1>2 DEF FreeBlock, At

(* The call returns. *)
LEMMA ReturnIs ==
  ASSUME FramesOK, NEW k \in Consumers, Return(k)
  PROVE  /\ c[k].pc = "done"
         /\ c'[k].pc = "idle" /\ c'[k].index = 0 /\ c'[k].end = 0 /\ c'[k].items = << >>
         /\ c'[k].block = NoBlock /\ Others(k) /\ FramesOK' /\ Kept
         /\ UNCHANGED <<headIndex, optimistic, overcommit, entries, home, elements, completed>>
  <1>1. Step(k, "idle", Idle)
    BY DEF Return
  <1> QED
    BY <1>1, BackToIdle DEF Return, At, memory

(* What the steps of enqueue() leave to the consumers. *)
LEMMA EnqueueKeeps ==
  ASSUME EnqueueStep
  PROVE  /\ UNCHANGED <<c, ended, headIndex, optimistic, overcommit>>
         /\ tailIndex' = tailIndex \/ (Busy({"store"}) /\ tailIndex' = producer.tail + 1)
  BY DEF EnqueueStep, Enqueue, CreateProducer, CreateFails, HashProducer, NoIndex, StoreKey,
     AdvanceTail, NewBlockIndex, NewBlockIndexFails, RequisitionBlock, RequisitionFails,
     RewindTail, Retract, PublishBlock, WriteElement, StoreTail, Move, Producer, Leave,
     counters, Busy

-----------------------------------------------------------------------------
(* The places of the claims.  Claims that stay as they are keep theirs.    *)
ClaimsOf(fs, at, head, tail, total) ==
    /\ fs \in [Consumers -> Frames] /\ at \in [Consumers -> Nat]
    /\ head \in Int /\ tail \in Int /\ total \in Int
    /\ \A k \in Consumers : fs[k].pc \in Claiming => Size(fs[k]) > 0
    /\ Claims(fs, at, head, tail, total)

(* The fields that the places of claims speak of are numbers. *)
LEMMA SizeIs ==
  ASSUME NEW f \in Frames
  PROVE  /\ Size(f) \in Int /\ f.over \in Int /\ f.desired \in Int /\ f.count \in Int
         /\ f.pc = "first" => Size(f) = f.count
         /\ f.pc # "first" => Size(f) = f.desired
  BY FrameFields DEF Size

(* Claims that stay as they are keep their places when tailIndex grows. *)
LEMMA ClaimsKept ==
  ASSUME NEW fs, NEW gs \in [Consumers -> Frames], NEW at, NEW head, NEW tail, NEW total,
         NEW last \in Int, tail <= last, ClaimsOf(fs, at, head, tail, total),
         \A k \in Consumers : gs[k].pc \in Claiming => gs[k] = fs[k]
  PROVE  Claims(gs, at, head, last, total)
  <1>1. ASSUME NEW k \in Consumers, gs[k].pc \in Claiming
        PROVE  Placed(gs[k], at[k], head, last, total)
    <2>1. gs[k] = fs[k] /\ Placed(fs[k], at[k], head, tail, total)
      BY <1>1 DEF ClaimsOf, Claims
    <2>2. /\ gs[k].desired \in Int /\ gs[k].count \in Int /\ gs[k].over \in Int /\ at[k] \in Int
          /\ head \in Int /\ tail \in Int /\ total \in Int
      BY FrameFields DEF ClaimsOf
    <2> QED
      BY <2>1, <2>2 DEF Placed
  <1>2. ASSUME NEW j \in Consumers, NEW k \in Consumers, j # k,
               gs[j].pc \in Claiming, gs[k].pc \in Claiming
        PROVE  at[j] + Size(gs[j]) <= at[k] \/ at[k] + Size(gs[k]) <= at[j]
    <2>1. gs[j] = fs[j] /\ gs[k] = fs[k]
      BY <1>2
    <2> QED
      BY <1>2, <2>1 DEF ClaimsOf, Claims
  <1> QED
    BY <1>1, <1>2 DEF Claims

(* A new claim takes the place after all others. *)
LEMMA ClaimAdded ==
  ASSUME NEW fs, NEW gs \in [Consumers -> Frames], NEW at, NEW head, NEW tail, NEW total,
         ClaimsOf(fs, at, head, tail, total), head <= total, 0 <= head,
         NEW k \in Consumers, \A j \in Consumers : j # k => gs[j] = fs[j],
         fs[k].pc \notin Claiming, gs[k].pc = "reload", gs[k].desired > 0,
         total <= gs[k].over
  PROVE  \E new \in [Consumers -> Nat] : Claims(gs, new, head, tail, total + gs[k].desired)
  <1> DEFINE new == [at EXCEPT ![k] = total]
             d == gs[k].desired
  <1>0. head \in Int /\ tail \in Int /\ total \in Nat /\ d \in Int
    BY FrameFields DEF ClaimsOf
  <1>1. /\ new \in [Consumers -> Nat] /\ new[k] = total
        /\ \A j \in Consumers : j # k => new[j] = at[j]
    BY <1>0 DEF ClaimsOf
  <1> HIDE DEF new
  <1>2. Size(gs[k]) = d
    BY DEF Size
  <1> HIDE DEF d
  <1>3. Placed(gs[k], new[k], head, tail, total + d)
    <2>1. total + Size(gs[k]) <= total + d
      BY <1>0, <1>2
    <2> QED
      BY <1>1, <2>1 DEF Placed
  <1>4. ASSUME NEW j \in Consumers, j # k, gs[j].pc \in Claiming
        PROVE  /\ Placed(gs[j], new[j], head, tail, total + d)
               /\ new[j] + Size(gs[j]) <= new[k]
    <2>1. Placed(gs[j], at[j], head, tail, total) /\ new[j] = at[j] /\ at[j] \in Int
      BY <1>1, <1>4 DEF ClaimsOf, Claims
    <2>2. Size(gs[j]) \in Int
      BY SizeIs
    <2>3. at[j] + Size(gs[j]) <= total
      BY <2>1 DEF Placed
    <2>4. at[j] + Size(gs[j]) <= total + d
      BY <1>0, <2>1, <2>2, <2>3 DEF d
    <2> QED
      BY <1>1, <2>1, <2>3, <2>4 DEF Placed
  <1>5. ASSUME NEW i \in Consumers, NEW j \in Consumers, i # j, i # k, j # k,
               gs[i].pc \in Claiming, gs[j].pc \in Claiming
        PROVE  new[i] + Size(gs[i]) <= new[j] \/ new[j] + Size(gs[j]) <= new[i]
    <2>1. gs[i] = fs[i] /\ gs[j] = fs[j] /\ new[i] = at[i] /\ new[j] = at[j]
      BY <1>1, <1>5
    <2> QED
      BY <1>5, <2>1 DEF ClaimsOf, Claims
  <1>6. Claims(gs, new, head, tail, total + d)
    <2>1. \A j \in Consumers : gs[j].pc \in Claiming => Placed(gs[j], new[j], head, tail, total + d)
      BY <1>3, <1>4
    <2>2. \A i, j \in Consumers : (i # j /\ gs[i].pc \in Claiming /\ gs[j].pc \in Claiming) =>
            new[i] + Size(gs[i]) <= new[j] \/ new[j] + Size(gs[j]) <= new[i]
      BY <1>4, <1>5
    <2> QED
      BY <2>1, <2>2 DEF Claims
  <1> QED
    BY <1>1, <1>6 DEF d

(* What is granted of a claim is there. *)
LEMMA ClaimGranted ==
  ASSUME NEW fs, NEW gs \in [Consumers -> Frames], NEW at, NEW head, NEW tail, NEW total,
         ClaimsOf(fs, at, head, tail, total),
         NEW k \in Consumers, \A j \in Consumers : j # k => gs[j] = fs[j],
         fs[k].pc = "reload", gs[k].desired = fs[k].desired, gs[k].count \in 0 .. fs[k].desired,
         gs[k].count = 0 \/ gs[k].count <= tail - fs[k].over,
         gs[k].pc = IF gs[k].count < fs[k].desired THEN "return" ELSE "first"
  PROVE  Claims(gs, at, head, tail, total)
  <1>0. /\ head \in Int /\ tail \in Int /\ total \in Int /\ at[k] \in Int
        /\ gs[k].count \in Int /\ fs[k].desired \in Int /\ fs[k].over \in Int
    BY FrameFields DEF ClaimsOf
  <1>1. Size(gs[k]) = fs[k].desired /\ Size(fs[k]) = fs[k].desired
    BY <1>0 DEF Size
  <1>2. fs[k].pc \in Claiming /\ Placed(fs[k], at[k], head, tail, total)
    BY DEF ClaimsOf, Claims, Claiming
  <1>3. Placed(gs[k], at[k], head, tail, total)
    <2>1. head <= at[k] /\ at[k] + Size(gs[k]) <= total
      BY <1>1, <1>2 DEF Placed
    <2>2. at[k] <= fs[k].over \/ at[k] + fs[k].desired <= tail
      BY <1>2 DEF Placed
    <2>3. gs[k].count > 0 => at[k] + gs[k].count <= tail
      BY <1>0, <2>2
    <2>4. gs[k].pc # "reload"
      OBVIOUS
    <2> QED
      BY <2>1, <2>3, <2>4 DEF Placed
  <1>4. ASSUME NEW j \in Consumers, gs[j].pc \in Claiming
        PROVE  /\ Placed(gs[j], at[j], head, tail, total)
               /\ fs[j].pc \in Claiming /\ Size(gs[j]) = Size(fs[j])
    BY <1>1, <1>2, <1>3, <1>4 DEF ClaimsOf, Claims
  <1> QED
    BY <1>4 DEF ClaimsOf, Claims

(* What is given back closes up: the later claims move down.               *)
LEMMA ClaimReturned ==
  ASSUME NEW fs, NEW gs \in [Consumers -> Frames], NEW at, NEW head, NEW tail, NEW total,
         ClaimsOf(fs, at, head, tail, total),
         NEW k \in Consumers, \A j \in Consumers : j # k => gs[j] = fs[j],
         fs[k].pc = "return", fs[k].count \in 0 .. fs[k].desired - 1,
         \/ fs[k].count > 0 /\ gs[k].pc = "first" /\ gs[k].count = fs[k].count
         \/ ~(fs[k].count > 0) /\ gs[k].pc = "idle"
  PROVE  LET v == fs[k].desired - fs[k].count IN
         /\ v > 0 /\ head <= total - v
         /\ \E new \in [Consumers -> Nat] : Claims(gs, new, head, tail, total - v)
  <1> DEFINE d == fs[k].desired
             v == fs[k].desired - fs[k].count
             new == [j \in Consumers |-> IF at[j] >= at[k] + d THEN at[j] - v ELSE at[j]]
  <1>0. /\ head \in Int /\ tail \in Int /\ total \in Int /\ d \in Nat /\ fs[k].count \in Nat
        /\ v \in Nat /\ v > 0 /\ v <= d /\ d - v = fs[k].count
        /\ \A j \in Consumers : at[j] \in Nat
    BY SMTT(30), FrameFields DEF ClaimsOf
  <1>1. /\ fs[k].pc \in Claiming /\ Size(fs[k]) = d /\ head <= at[k] /\ at[k] + d <= total
        /\ fs[k].count > 0 => at[k] + fs[k].count <= tail
    <2>1. fs[k].pc \in Claiming /\ Size(fs[k]) = d
      BY DEF Claiming, Size
    <2> QED
      BY <2>1 DEF ClaimsOf, Claims, Placed
  <1> HIDE DEF v, d
  <1>2. /\ new \in [Consumers -> Nat] /\ new[k] = at[k]
        /\ \A j \in Consumers : new[j] = IF at[j] >= at[k] + d THEN at[j] - v ELSE at[j]
    <2>1. \A j \in Consumers : (IF at[j] >= at[k] + d THEN at[j] - v ELSE at[j]) \in Nat
      BY <1>0
    <2>2. ~(at[k] >= at[k] + d)
      BY <1>0
    <2> QED
      BY <2>1, <2>2
  <1> HIDE DEF new
  <1>3. ASSUME NEW j \in Consumers, j # k, gs[j].pc \in Claiming
        PROVE  /\ gs[j] = fs[j] /\ Size(gs[j]) \in Int /\ Size(gs[j]) > 0
               /\ Placed(gs[j], at[j], head, tail, total)
               /\ at[j] >= at[k] + d \/ (at[j] + Size(gs[j]) <= at[k] /\ at[j] < at[k] + d)
    <2>1. gs[j] = fs[j] /\ Size(gs[j]) \in Int /\ Size(gs[j]) > 0
      BY <1>3, SizeIs DEF ClaimsOf
    <2>2. Placed(gs[j], at[j], head, tail, total)
          /\ (at[j] + Size(gs[j]) <= at[k] \/ at[k] + d <= at[j])
      BY <1>1, <1>3, <2>1 DEF ClaimsOf, Claims
    <2> QED
      BY <1>0, <2>1, <2>2
  <1>4. ASSUME NEW j \in Consumers, j # k, gs[j].pc \in Claiming
        PROVE  Placed(gs[j], new[j], head, tail, total - v)
    <2>0. /\ Placed(gs[j], at[j], head, tail, total) /\ at[j] \in Nat /\ at[k] \in Nat
          /\ gs[j].over \in Int /\ gs[j].desired \in Int /\ gs[j].count \in Int
          /\ Size(gs[j]) \in Int
      BY <1>0, <1>3, <1>4, SizeIs
    <2>1. CASE at[j] >= at[k] + d
      <3>1. new[j] = at[j] - v /\ head <= new[j]
        BY <1>0, <1>1, <1>2, <2>0, <2>1
      <3>2. head <= at[j] /\ at[j] + Size(gs[j]) <= total
        BY <2>0 DEF Placed
      <3>3. new[j] + Size(gs[j]) <= total - v
        BY <1>0, <2>0, <3>1, <3>2
      <3>4. gs[j].pc = "reload" => new[j] <= gs[j].over \/ new[j] + gs[j].desired <= tail
        BY <1>0, <2>0, <3>1 DEF Placed
      <3>5. (gs[j].pc \in {"return", "first"} /\ gs[j].count > 0) => new[j] + gs[j].count <= tail
        BY <1>0, <2>0, <3>1 DEF Placed
      <3> QED
        BY <3>1, <3>3, <3>4, <3>5 DEF Placed
    <2>2. CASE at[j] + Size(gs[j]) <= at[k] /\ at[j] < at[k] + d
      <3>1. new[j] = at[j]
        BY <1>0, <1>2, <2>2
      <3>2. new[j] + Size(gs[j]) <= total - v
        BY <1>0, <1>1, <2>0, <2>2, <3>1
      <3> QED
        BY <2>0, <3>1, <3>2 DEF Placed
    <2> QED
      BY <1>3, <1>4, <2>1, <2>2
  <1>5. ASSUME gs[k].pc \in Claiming
        PROVE  Placed(gs[k], new[k], head, tail, total - v) /\ Size(gs[k]) = d - v
    <2>1. gs[k].pc = "first" /\ gs[k].count = fs[k].count /\ fs[k].count > 0
      BY <1>5 DEF Claiming
    <2>2. Size(gs[k]) = d - v
      BY <1>0, <2>1 DEF Size
    <2>3. at[k] + (d - v) <= total - v
      BY <1>0, <1>1
    <2>4. at[k] + gs[k].count <= tail
      BY <1>1, <2>1
    <2> QED
      BY <1>1, <1>2, <2>1, <2>2, <2>3, <2>4 DEF Placed
  <1>6. ASSUME NEW j \in Consumers, j # k, gs[j].pc \in Claiming, gs[k].pc \in Claiming
        PROVE  new[j] + Size(gs[j]) <= new[k] \/ new[k] + Size(gs[k]) <= new[j]
    <2>1. Size(gs[j]) \in Int /\ Size(gs[k]) = d - v
          /\ (at[j] >= at[k] + d \/ (at[j] + Size(gs[j]) <= at[k] /\ at[j] < at[k] + d))
      BY <1>3, <1>5, <1>6
    <2> QED
      BY <1>0, <1>2, <2>1
  <1>7. ASSUME NEW i \in Consumers, NEW j \in Consumers, i # j, i # k, j # k,
               gs[i].pc \in Claiming, gs[j].pc \in Claiming
        PROVE  new[i] + Size(gs[i]) <= new[j] \/ new[j] + Size(gs[j]) <= new[i]
    <2>1. gs[i] = fs[i] /\ gs[j] = fs[j]
      BY <1>7
    <2>2. at[i] + Size(gs[i]) <= at[j] \/ at[j] + Size(gs[j]) <= at[i]
      BY <1>7, <2>1 DEF ClaimsOf, Claims
    <2>3. /\ Size(gs[i]) \in Int /\ Size(gs[i]) > 0
          /\ at[i] >= at[k] + d \/ (at[i] + Size(gs[i]) <= at[k] /\ at[i] < at[k] + d)
      BY <1>3, <1>7
    <2>4. /\ Size(gs[j]) \in Int /\ Size(gs[j]) > 0
          /\ at[j] >= at[k] + d \/ (at[j] + Size(gs[j]) <= at[k] /\ at[j] < at[k] + d)
      BY <1>3, <1>7
    <2>5. /\ new[i] = IF at[i] >= at[k] + d THEN at[i] - v ELSE at[i]
          /\ new[j] = IF at[j] >= at[k] + d THEN at[j] - v ELSE at[j]
          /\ at[i] \in Nat /\ at[j] \in Nat /\ at[k] \in Nat
      BY <1>0, <1>2
    <2> QED
      BY <1>0, <2>2, <2>3, <2>4, <2>5
  <1>8. Claims(gs, new, head, tail, total - v)
    <2>1. \A j \in Consumers : gs[j].pc \in Claiming => Placed(gs[j], new[j], head, tail, total - v)
      BY <1>4, <1>5
    <2>2. \A i, j \in Consumers : (i # j /\ gs[i].pc \in Claiming /\ gs[j].pc \in Claiming) =>
            new[i] + Size(gs[i]) <= new[j] \/ new[j] + Size(gs[j]) <= new[i]
      BY <1>6, <1>7
    <2> QED
      BY <2>1, <2>2 DEF Claims
  <1>9. head <= total - v
    BY <1>0, <1>1
  <1> QED
    BY <1>0, <1>2, <1>8, <1>9 DEF v

(* What a consumer takes comes first: the claims before it move up, and    *)
(* are covered by elements, since it was.                                  *)
LEMMA ClaimTaken ==
  ASSUME NEW fs, NEW gs \in [Consumers -> Frames], NEW at, NEW head, NEW tail, NEW total,
         ClaimsOf(fs, at, head, tail, total),
         \A j \in Consumers : fs[j].pc = "return" => fs[j].count < fs[j].desired,
         NEW k \in Consumers, \A j \in Consumers : j # k => gs[j] = fs[j],
         fs[k].pc = "first", gs[k].pc = "header"
  PROVE  LET n == fs[k].count IN
         /\ head + n <= tail /\ head + n <= total
         /\ \E new \in [Consumers -> Nat] : Claims(gs, new, head + n, tail, total)
  <1> DEFINE n == fs[k].count
             new == [j \in Consumers |-> IF at[j] < at[k] THEN at[j] + n ELSE at[j]]
  <1>1. fs[k].pc \in Claiming /\ Size(fs[k]) = n /\ gs[k].pc \notin Claiming
    BY DEF Claiming, Size
  <1>0. /\ head \in Int /\ tail \in Int /\ total \in Int /\ n \in Nat /\ n > 0
        /\ \A j \in Consumers : at[j] \in Nat
    <2>1. n \in Int /\ n > 0
      BY <1>1, FrameFields DEF ClaimsOf
    <2> QED
      BY <2>1 DEF ClaimsOf
  <1>2. head <= at[k] /\ at[k] + n <= total /\ at[k] + n <= tail
    BY <1>0, <1>1 DEF ClaimsOf, Claims, Placed
  <1> HIDE DEF n
  <1>3. /\ new \in [Consumers -> Nat]
        /\ \A j \in Consumers : new[j] = IF at[j] < at[k] THEN at[j] + n ELSE at[j]
    <2>1. \A j \in Consumers : (IF at[j] < at[k] THEN at[j] + n ELSE at[j]) \in Nat
      BY <1>0
    <2> QED
      BY <2>1
  <1> HIDE DEF new
  <1>4. ASSUME NEW j \in Consumers, gs[j].pc \in Claiming
        PROVE  /\ j # k /\ gs[j] = fs[j] /\ Size(gs[j]) \in Int /\ Size(gs[j]) > 0
               /\ Placed(gs[j], at[j], head, tail, total)
               /\ at[j] >= at[k] + n \/ (at[j] + Size(gs[j]) <= at[k] /\ at[j] < at[k])
    <2>0. j # k
      BY <1>1, <1>4
    <2>1. gs[j] = fs[j] /\ Size(gs[j]) \in Int /\ Size(gs[j]) > 0
      BY <1>4, <2>0, SizeIs DEF ClaimsOf
    <2>2. Placed(gs[j], at[j], head, tail, total)
          /\ (at[j] + Size(gs[j]) <= at[k] \/ at[k] + n <= at[j])
      BY <1>1, <1>4, <2>0, <2>1 DEF ClaimsOf, Claims
    <2> QED
      BY <1>0, <2>0, <2>1, <2>2
  <1>5. ASSUME NEW j \in Consumers, gs[j].pc \in Claiming
        PROVE  Placed(gs[j], new[j], head + n, tail, total)
    <2>0. /\ Placed(gs[j], at[j], head, tail, total) /\ at[j] \in Nat /\ at[k] \in Nat
          /\ gs[j].over \in Int /\ gs[j].desired \in Int /\ gs[j].count \in Int
          /\ Size(gs[j]) \in Int
      BY <1>0, <1>4, <1>5, SizeIs
    <2>1. CASE at[j] >= at[k] + n
      <3>1. new[j] = at[j] /\ head + n <= new[j]
        BY <1>0, <1>2, <1>3, <2>0, <2>1
      <3> QED
        BY <2>0, <3>1 DEF Placed
    <2>2. CASE at[j] + Size(gs[j]) <= at[k] /\ at[j] < at[k]
      <3>1. new[j] = at[j] + n /\ head <= at[j]
        BY <1>3, <2>0, <2>2 DEF Placed
      <3>2. head + n <= new[j] /\ new[j] + Size(gs[j]) <= total /\ new[j] + Size(gs[j]) <= tail
        BY <1>0, <1>2, <2>0, <2>2, <3>1
      <3>3. gs[j].pc = "reload" => new[j] + gs[j].desired <= tail
        BY <3>2, SizeIs
      <3>4. gs[j].pc = "first" => new[j] + gs[j].count <= tail
        BY <3>2, SizeIs
      <3>5. gs[j].pc = "return" => new[j] + gs[j].count <= tail
        <4> HAVE gs[j].pc = "return"
        <4>1. gs[j].count < gs[j].desired /\ Size(gs[j]) = gs[j].desired
          BY <1>4, <1>5, SizeIs
        <4> QED
          BY <1>0, <2>0, <3>1, <3>2, <4>1
      <3> QED
        BY <3>2, <3>3, <3>4, <3>5 DEF Placed
    <2> QED
      BY <1>4, <1>5, <2>1, <2>2
  <1>6. ASSUME NEW i \in Consumers, NEW j \in Consumers, i # j,
               gs[i].pc \in Claiming, gs[j].pc \in Claiming
        PROVE  new[i] + Size(gs[i]) <= new[j] \/ new[j] + Size(gs[j]) <= new[i]
    <2>1. gs[i] = fs[i] /\ gs[j] = fs[j]
      BY <1>4, <1>6
    <2>2. at[i] + Size(gs[i]) <= at[j] \/ at[j] + Size(gs[j]) <= at[i]
      BY <1>6, <2>1 DEF ClaimsOf, Claims
    <2>3. /\ Size(gs[i]) \in Int /\ Size(gs[i]) > 0
          /\ at[i] >= at[k] + n \/ (at[i] + Size(gs[i]) <= at[k] /\ at[i] < at[k])
      BY <1>4, <1>6
    <2>4. /\ Size(gs[j]) \in Int /\ Size(gs[j]) > 0
          /\ at[j] >= at[k] + n \/ (at[j] + Size(gs[j]) <= at[k] /\ at[j] < at[k])
      BY <1>4, <1>6
    <2>5. /\ new[i] = IF at[i] < at[k] THEN at[i] + n ELSE at[i]
          /\ new[j] = IF at[j] < at[k] THEN at[j] + n ELSE at[j]
          /\ at[i] \in Nat /\ at[j] \in Nat /\ at[k] \in Nat
      BY <1>0, <1>3
    <2> QED
      BY <1>0, <2>2, <2>3, <2>4, <2>5
  <1>7. Claims(gs, new, head + n, tail, total)
    BY <1>5, <1>6 DEF Claims
  <1>8. head + n <= tail /\ head + n <= total
    BY <1>0, <1>2
  <1> QED
    BY <1>3, <1>7, <1>8 DEF n

-----------------------------------------------------------------------------
(* The counters through the steps. *)
LEMMA CountersOf ==
  ASSUME FramesOK, CountersOK, CounterInv
  PROVE  \E at \in [Consumers -> Nat] :
            ClaimsOf(c, at, headIndex, tailIndex, optimistic - overcommit)
  <1>1. PICK at \in [Consumers -> Nat] :
           Claims(c, at, headIndex, tailIndex, optimistic - overcommit)
    BY DEF CounterInv
  <1>2. ASSUME NEW k \in Consumers, c[k].pc \in Claiming PROVE Size(c[k]) > 0
    <2>1. ClaimInv(c[k], overcommit) /\ c[k].desired \in Int /\ c[k].count \in Int
          /\ MaxDequeue \in Nat
      BY FrameFields, QueueAssumption DEF CounterInv, FramesOK
    <2> QED
      BY <1>2, <2>1 DEF ClaimInv, Claiming, Size
  <1> QED
    BY <1>1, <1>2 DEF ClaimsOf, FramesOK, CountersOK

(* Frames that have nothing to do with the counters. *)
LEMMA NoClaim ==
  ASSUME NEW f, NEW over, f.pc \notin {"optimistic", "claim"} \cup Claiming
  PROVE  f.pc \notin Claiming /\ ClaimInv(f, over)
  BY DEF ClaimInv, Claiming

(* Steps that do not take part in the claiming.                            *)
LEMMA CountersKept ==
  ASSUME FramesOK, CountersOK, CounterInv, FramesOK', tailIndex' \in Nat, tailIndex <= tailIndex',
         UNCHANGED <<headIndex, optimistic, overcommit>>,
         \A k \in Consumers :
            c'[k] = c[k] \/ (c'[k].pc \notin Claiming /\ ClaimInv(c'[k], overcommit))
  PROVE  CountersOK' /\ CounterInv'
  <1>1. PICK at \in [Consumers -> Nat] :
           ClaimsOf(c, at, headIndex, tailIndex, optimistic - overcommit)
    BY CountersOf
  <1>2. Claims(c', at, headIndex, tailIndex', optimistic - overcommit)
    <2>1. c' \in [Consumers -> Frames] /\ tailIndex' \in Int
      BY DEF FramesOK
    <2>2. \A k \in Consumers : c'[k].pc \in Claiming => c'[k] = c[k]
      OBVIOUS
    <2> QED
      BY <1>1, <2>1, <2>2, ClaimsKept
  <1>3. \A k \in Consumers : ClaimInv(c'[k], overcommit')
    BY DEF CounterInv
  <1>4. headIndex' <= tailIndex' /\ headIndex' <= optimistic' - overcommit'
    BY DEF CounterInv, CountersOK
  <1>5. Claims(c', at, headIndex', tailIndex', optimistic' - overcommit')
    BY <1>2
  <1> QED
    BY <1>3, <1>4, <1>5 DEF CounterInv, CountersOK

(* A step of enqueue() keeps the counters in order. *)
LEMMA EnqueueCounters ==
  ASSUME FramesOK, CountersOK, CounterInv, EnqueueStep,
         Busy({"store"}) => producer.tail = tailIndex
  PROVE  FramesOK' /\ CountersOK' /\ CounterInv'
  <1>1. FramesOK'
    BY EnqueueKeeps DEF FramesOK
  <1>2. tailIndex' \in Nat /\ tailIndex <= tailIndex'
    BY EnqueueKeeps DEF CountersOK
  <1> QED
    BY <1>1, <1>2, EnqueueKeeps, CountersKept

(* The claims of other consumers than k, and k's. *)
LEMMA OneClaim ==
  ASSUME CounterInv, NEW k \in Consumers, Others(k), overcommit' = overcommit,
         ClaimInv(c'[k], overcommit')
  PROVE  \A j \in Consumers : ClaimInv(c'[j], overcommit')
  BY DEF CounterInv, Others

(* A step of a claim keeps the counters in order. *)
LEMMA ClaimCounters ==
  ASSUME FramesOK, CountersOK, CounterInv, NEW k \in Consumers,
         \/ LoadTail(k) \/ LoadOvercommit(k) \/ LoadOptimistic(k)
         \/ ClaimOptimistic(k) \/ ReloadTail(k) \/ Overcommit(k) \/ ClaimElements(k)
  PROVE  FramesOK' /\ CountersOK' /\ CounterInv'
  <1>0. /\ c[k] \in Frames /\ ClaimInv(c[k], overcommit) /\ MaxDequeue \in Nat
        /\ c[k].over \in Int /\ c[k].desired \in Int /\ c[k].count \in Int
        /\ headIndex \in Nat /\ tailIndex \in Nat /\ optimistic \in Int /\ overcommit \in Int
        /\ headIndex <= tailIndex /\ headIndex <= optimistic - overcommit
    BY FrameFields, QueueAssumption DEF CounterInv, FramesOK, CountersOK
  <1>1. PICK at \in [Consumers -> Nat] :
           ClaimsOf(c, at, headIndex, tailIndex, optimistic - overcommit)
    BY CountersOf
  <1>2. CASE LoadTail(k)
    <2>1. /\ c'[k].pc = "over" /\ Others(k) /\ FramesOK' /\ Kept
          /\ UNCHANGED <<headIndex, optimistic, overcommit>>
      BY <1>2, LoadTailIs
    <2>2. c'[k].pc \notin Claiming /\ ClaimInv(c'[k], overcommit)
      BY <2>1, NoClaim DEF Claiming
    <2> QED
      BY <1>0, <2>1, <2>2, CountersKept DEF Others, Kept
  <1>3. CASE LoadOvercommit(k)
    <2>1. /\ c'[k].pc = "optimistic" /\ c'[k].over = overcommit
          /\ Others(k) /\ FramesOK' /\ Kept
          /\ UNCHANGED <<headIndex, optimistic, overcommit>>
      BY <1>3, LoadOvercommitIs
    <2>2. c'[k].pc \notin Claiming /\ ClaimInv(c'[k], overcommit)
      BY <1>0, <2>1 DEF Claiming, ClaimInv
    <2> QED
      BY <1>0, <2>1, <2>2, CountersKept DEF Others, Kept
  <1>4. CASE LoadOptimistic(k)
    <2>1. /\ c[k].pc = "optimistic"
          /\ \/ /\ c'[k].pc = "claim" /\ c'[k].over = c[k].over
                /\ c'[k].desired \in 1 .. MaxDequeue
             \/ c'[k].pc = "idle"
          /\ Others(k) /\ FramesOK' /\ Kept
          /\ UNCHANGED <<headIndex, optimistic, overcommit>>
      BY <1>4, LoadOptimisticIs
    <2>2. c'[k].pc \notin Claiming /\ ClaimInv(c'[k], overcommit)
      BY <1>0, <2>1 DEF Claiming, ClaimInv
    <2> QED
      BY <1>0, <2>1, <2>2, CountersKept DEF Others, Kept
  <1>5. CASE ClaimOptimistic(k)
    <2>1. /\ c[k].pc = "claim" /\ c'[k].pc = "reload" /\ c'[k].desired = c[k].desired
          /\ c'[k].over = optimistic - c[k].over
          /\ Others(k) /\ FramesOK' /\ Kept
          /\ optimistic' = optimistic + c[k].desired
          /\ UNCHANGED <<headIndex, overcommit>>
      BY <1>5, ClaimOptimisticIs
    <2>2. c[k].over <= overcommit /\ c[k].desired \in 1 .. MaxDequeue /\ c[k].pc \notin Claiming
      BY <1>0, <2>1 DEF ClaimInv, Claiming
    <2>3. c'[k].desired > 0 /\ optimistic - overcommit <= c'[k].over
      BY <1>0, <2>1, <2>2
    <2>4. \E new \in [Consumers -> Nat] :
             Claims(c', new, headIndex, tailIndex, optimistic - overcommit + c'[k].desired)
      BY <1>0, <1>1, <2>1, <2>2, <2>3, ClaimAdded DEF Others, FramesOK
    <2>5. optimistic' - overcommit' = optimistic - overcommit + c'[k].desired
          /\ tailIndex' = tailIndex
      BY <1>0, <2>1 DEF Kept
    <2>6. \E new \in [Consumers -> Nat] :
             Claims(c', new, headIndex', tailIndex', optimistic' - overcommit')
      BY <2>1, <2>4, <2>5
    <2>7. ClaimInv(c'[k], overcommit')
      BY <2>1, <2>2 DEF ClaimInv
    <2>8. headIndex' <= tailIndex' /\ headIndex' <= optimistic' - overcommit' /\ CountersOK'
      BY <1>0, <2>1, <2>2, <2>5 DEF CountersOK
    <2> QED
      BY <2>1, <2>6, <2>7, <2>8, OneClaim DEF CounterInv
  <1>6. CASE ReloadTail(k)
    <2>0. c[k].desired \in 1 .. MaxDequeue
      BY <1>0, <1>6 DEF ReloadTail, At, ClaimInv
    <2>1. /\ c[k].pc = "reload" /\ c'[k].desired = c[k].desired
          /\ c'[k].count \in 0 .. c[k].desired
          /\ c'[k].count = 0 \/ c'[k].count <= tailIndex - c[k].over
          /\ c'[k].pc = IF c'[k].count < c[k].desired THEN "return" ELSE "first"
          /\ Others(k) /\ FramesOK' /\ Kept
          /\ UNCHANGED <<headIndex, optimistic, overcommit>>
      BY <1>6, <2>0, ReloadTailIs
    <2>2. Claims(c', at, headIndex, tailIndex, optimistic - overcommit)
      BY <1>1, <2>1, ClaimGranted DEF Others, FramesOK
    <2>3. tailIndex' = tailIndex /\ CountersOK'
      BY <1>0, <2>1 DEF Kept, CountersOK
    <2>4. Claims(c', at, headIndex', tailIndex', optimistic' - overcommit')
      BY <2>1, <2>2, <2>3
    <2>5. ClaimInv(c'[k], overcommit')
      BY <1>0, <2>0, <2>1 DEF ClaimInv
    <2>6. headIndex' <= tailIndex' /\ headIndex' <= optimistic' - overcommit'
      BY <1>0, <2>1, <2>3
    <2> QED
      BY <2>1, <2>3, <2>4, <2>5, <2>6, OneClaim DEF CounterInv
  <1>7. CASE Overcommit(k)
    <2> DEFINE v == c[k].desired - c[k].count
    <2>1. /\ c[k].pc = "return" /\ overcommit' = overcommit + v
          /\ \/ /\ c[k].count > 0 /\ c'[k].pc = "first" /\ c'[k].count = c[k].count
                /\ c'[k].desired = c[k].desired
             \/ ~(c[k].count > 0) /\ c'[k].pc = "idle"
          /\ Others(k) /\ FramesOK' /\ Kept
          /\ UNCHANGED <<headIndex, optimistic>>
      BY <1>7, OvercommitIs
    <2>2. c[k].count \in 0 .. c[k].desired - 1 /\ c[k].desired \in 1 .. MaxDequeue
      BY <1>0, <2>1 DEF ClaimInv
    <2>3. /\ v > 0 /\ headIndex <= (optimistic - overcommit) - v
          /\ \E new \in [Consumers -> Nat] :
                Claims(c', new, headIndex, tailIndex, (optimistic - overcommit) - v)
      BY <1>1, <2>1, <2>2, ClaimReturned DEF Others, FramesOK
    <2>4. /\ v \in Int /\ tailIndex' = tailIndex /\ CountersOK'
          /\ (optimistic - overcommit) - v = optimistic' - overcommit'
      BY <1>0, <2>1, <2>2 DEF Kept, CountersOK
    <2> HIDE DEF v
    <2>5. \E new \in [Consumers -> Nat] :
             Claims(c', new, headIndex', tailIndex', optimistic' - overcommit')
      BY <2>1, <2>3, <2>4
    <2>6. headIndex' <= tailIndex' /\ headIndex' <= optimistic' - overcommit'
      BY <1>0, <2>1, <2>3, <2>4
    <2>7. ASSUME NEW j \in Consumers PROVE ClaimInv(c'[j], overcommit')
      <3>1. CASE j = k
        BY <1>0, <2>1, <2>2, <3>1 DEF ClaimInv
      <3>2. CASE j # k
        <4>1. c'[j] = c[j] /\ ClaimInv(c[j], overcommit) /\ c[j].over \in Int
          BY <2>1, <3>2, FrameFields DEF Others, CounterInv, FramesOK
        <4>2. c[j].over <= overcommit => c[j].over <= overcommit'
          BY <1>0, <2>1, <2>3, <2>4, <4>1
        <4> QED
          BY <4>1, <4>2 DEF ClaimInv
      <3> QED
        BY <3>1, <3>2
    <2> QED
      BY <2>1, <2>4, <2>5, <2>6, <2>7 DEF CounterInv
  <1>8. CASE ClaimElements(k)
    <2>0. c[k].pc = "first" /\ c[k].count \in 1 .. c[k].desired /\ c[k].count \in Nat
      BY <1>0, <1>8 DEF ClaimElements, At, ClaimInv
    <2>1. /\ c'[k].pc = "header" /\ headIndex' = headIndex + c[k].count
          /\ Others(k) /\ FramesOK' /\ Kept /\ UNCHANGED <<optimistic, overcommit>>
      BY <1>8, <2>0, ClaimElementsIs
    <2>2. \A j \in Consumers : c[j].pc = "return" => c[j].count < c[j].desired
      <3> TAKE j \in Consumers
      <3> HAVE c[j].pc = "return"
      <3>1. c[j].count \in 0 .. c[j].desired - 1 /\ c[j].desired \in Int
        BY FrameFields DEF CounterInv, ClaimInv, FramesOK
      <3> QED
        BY <3>1
    <2>3. /\ headIndex + c[k].count <= tailIndex
          /\ headIndex + c[k].count <= optimistic - overcommit
          /\ \E new \in [Consumers -> Nat] :
                Claims(c', new, headIndex + c[k].count, tailIndex, optimistic - overcommit)
      BY <1>1, <2>0, <2>1, <2>2, ClaimTaken DEF Others, FramesOK
    <2>4. tailIndex' = tailIndex /\ CountersOK'
      BY <1>0, <2>0, <2>1 DEF Kept, CountersOK
    <2>5. \E new \in [Consumers -> Nat] :
             Claims(c', new, headIndex', tailIndex', optimistic' - overcommit')
      BY <2>1, <2>3, <2>4
    <2>6. headIndex' <= tailIndex' /\ headIndex' <= optimistic' - overcommit'
      BY <2>1, <2>3, <2>4
    <2>7. ClaimInv(c'[k], overcommit')
      BY <2>1, NoClaim DEF Claiming
    <2> QED
      BY <2>1, <2>4, <2>5, <2>6, <2>7, OneClaim DEF CounterInv
  <1> QED
    BY <1>2, <1>3, <1>4, <1>5, <1>6, <1>7, <1>8

(* The steps of a consumer that has its elements. *)
LEMMA WorkCounters ==
  ASSUME FramesOK, CountersOK, CounterInv, FramesOK', NEW k \in Consumers, Others(k), Kept,
         UNCHANGED <<headIndex, optimistic, overcommit>>,
         c'[k].pc \in Working \cup {"done", "idle"}
  PROVE  CountersOK' /\ CounterInv'
  <1>1. c'[k].pc \notin Claiming /\ ClaimInv(c'[k], overcommit)
    BY NoClaim DEF Claiming, Working, Looking
  <1>2. tailIndex' \in Nat /\ tailIndex <= tailIndex'
    BY DEF Kept, CountersOK
  <1> QED
    BY <1>1, <1>2, CountersKept DEF Others

-----------------------------------------------------------------------------
(* The steps of enqueue(), one by one: from where to where, and what       *)
(* becomes of its locals.                                                  *)
Goes(from, to, t, e, b) ==
    /\ producer.pc = from /\ producer'.pc = to /\ producer'.tail = t
    /\ producer'.entry = e /\ producer'.block = b
    /\ producer' \in ProducerFrames /\ UNCHANGED <<c, ended>>

(* Move(from, to, f) assigns the producer's frame. *)
LEMMA MoveIs ==
  ASSUME NEW from, NEW to \in ProducerPCs, NEW f \in ProducerFrames, Move(from, to, f)
  PROVE  Goes(from, to, f.tail, f.entry, f.block)
  BY DEF Move, Goes, ProducerFrames

(* A step within enqueue() keeps the locals. *)
LEMMA ProducerIs ==
  ASSUME ProducerOK, NEW from, NEW to \in ProducerPCs, Producer(from, to)
  PROVE  Goes(from, to, producer.tail, producer.entry, producer.block)
  BY MoveIs DEF Producer, ProducerOK

(* A frame of the producer has its type. *)
LEMMA FrameIs ==
  ASSUME NEW pc \in ProducerPCs, NEW t \in Nat
  PROVE  /\ Frame(pc, t) \in ProducerFrames
         /\ Frame(pc, t).tail = t /\ Frame(pc, t).entry = 0 /\ Frame(pc, t).block = NoBlock
  BY DEF Frame, ProducerFrames

(* The end of enqueue(). *)
LEMMA LeaveIs ==
  ASSUME NEW from, Leave(from)
  PROVE  Goes(from, "idle", 0, 0, NoBlock)
  <1>1. "idle" \in ProducerPCs /\ 0 \in Nat
    BY DEF ProducerPCs
  <1> QED
    BY <1>1, MoveIs, FrameIs DEF Leave

(* The steps of enqueue(), one by one: where each goes, and what it        *)
(* changes.                                                                *)
LEMMA EnqueueIs ==
  ASSUME CountersOK, Enqueue
  PROVE  /\ Goes("idle", IF hashed THEN FirstStep(tailIndex) ELSE "create", tailIndex, 0, NoBlock)
         /\ ~ended /\ tailIndex < MaxItems
         /\ UNCHANGED <<listed, hashed, counters, index, memory, tailBlock>>
  <1> DEFINE p == IF hashed THEN FirstStep(tailIndex) ELSE "create"
  <1>1. p \in ProducerPCs /\ tailIndex \in Nat /\ "idle" \in ProducerPCs
    BY DEF ProducerPCs, FirstStep, CountersOK
  <1>2. Move("idle", p, Frame("idle", tailIndex))
    BY DEF Enqueue
  <1> HIDE DEF p
  <1>3. Goes("idle", p, tailIndex, 0, NoBlock)
    BY <1>1, <1>2, MoveIs, FrameIs
  <1> QED
    BY <1>3 DEF Enqueue, p

(* A producer is made, with its first index or without. *)
LEMMA CreateProducerIs ==
  ASSUME ProducerOK, CreateProducer
  PROVE  /\ Goes("create", "hash", producer.tail, producer.entry, producer.block)
         /\ listed' = TRUE
         /\ \/ /\ entries' = [e \in 1 .. InitialIndexSize |-> FreshEntry]
               /\ headers' = <<[tail |-> InitialIndexSize - 1,
                                index |-> [s \in 1 .. InitialIndexSize |-> s]]>>
            \/ UNCHANGED index
         /\ UNCHANGED <<hashed, counters, memory, tailBlock>>
  <1>1. "hash" \in ProducerPCs
    BY DEF ProducerPCs
  <1>2. Goes("create", "hash", producer.tail, producer.entry, producer.block)
    BY <1>1, ProducerIs DEF CreateProducer
  <1> QED
    BY <1>2 DEF CreateProducer

(* No producer could be made. *)
LEMMA CreateFailsIs ==
  ASSUME CreateFails
  PROVE  /\ Goes("create", "idle", 0, 0, NoBlock)
         /\ UNCHANGED <<listed, hashed, counters, index, memory, tailBlock>>
  BY LeaveIs DEF CreateFails

(* The producer is found under its thread from now on. *)
LEMMA HashProducerIs ==
  ASSUME ProducerOK, HashProducer
  PROVE  /\ Goes("hash", FirstStep(tailIndex), producer.tail, producer.entry, producer.block)
         /\ hashed' = TRUE
         /\ UNCHANGED <<listed, counters, index, memory, tailBlock>>
  <1>1. FirstStep(tailIndex) \in ProducerPCs
    BY DEF ProducerPCs, FirstStep
  <1>2. Goes("hash", FirstStep(tailIndex), producer.tail, producer.entry, producer.block)
    BY <1>1, ProducerIs DEF HashProducer
  <1> QED
    BY <1>2 DEF HashProducer

(* A producer without an index takes no elements. *)
LEMMA NoIndexIs ==
  ASSUME NoIndex
  PROVE  /\ headers = << >> /\ Goes("insert", "idle", 0, 0, NoBlock)
         /\ UNCHANGED <<listed, hashed, counters, index, memory, tailBlock>>
  BY LeaveIs DEF NoIndex

(* The slot after the tail gets the key of the new block. *)
LEMMA StoreKeyIs ==
  ASSUME ProducerOK, StoreKey, NextEntry \in Nat
  PROVE  /\ headers # << >> /\ producer.pc \in {"insert", "grown"}
         /\ Goes(producer.pc, "advance", producer.tail, NextEntry, producer.block)
         /\ entries' = [entries EXCEPT ![NextEntry].key = producer.tail]
         /\ UNCHANGED <<listed, hashed, counters, headers, memory, tailBlock>>
  <1> DEFINE f == [producer EXCEPT !.entry = NextEntry]
  <1>1. /\ f \in ProducerFrames /\ f.tail = producer.tail /\ f.entry = NextEntry
        /\ f.block = producer.block /\ "advance" \in ProducerPCs
    BY DEF ProducerFrames, ProducerOK, ProducerPCs
  <1>2. Move(producer.pc, "advance", f)
    BY DEF StoreKey
  <1> HIDE DEF f
  <1>3. Goes(producer.pc, "advance", producer.tail, NextEntry, producer.block)
    BY <1>1, <1>2, MoveIs
  <1> QED
    BY <1>3 DEF StoreKey

(* Its slot was not used, in a larger index either. *)
LEMMA StoredSlotIsFree ==
  ASSUME EntryInv, StoreKey
  PROVE  SlotIsFree
  BY DEF EntryInv, StoreKey, SlotIsFree, Busy, Keyed, Key

(* The tail of the index moves to the new entry. *)
LEMMA AdvanceTailIs ==
  ASSUME ProducerOK, AdvanceTail
  PROVE  /\ Goes("advance", "requisition", producer.tail, producer.entry, producer.block)
         /\ MoveTail(1)
         /\ UNCHANGED <<listed, hashed, counters, entries, memory, tailBlock>>
  <1>1. "requisition" \in ProducerPCs
    BY DEF ProducerPCs
  <1>2. Goes("advance", "requisition", producer.tail, producer.entry, producer.block)
    BY <1>1, ProducerIs DEF AdvanceTail
  <1> QED
    BY <1>2 DEF AdvanceTail

(* The index is doubled. *)
LEMMA NewBlockIndexIs ==
  ASSUME ProducerOK, NewBlockIndex
  PROVE  /\ headers # << >> /\ ~SlotIsFree
         /\ Goes("insert", "grown", producer.tail, producer.entry, producer.block)
         /\ LET n == Capacity(blockIndex) IN
               /\ entries' = entries \o [e \in 1 .. n |-> FreshEntry]
               /\ headers' = Append(headers,
                     [tail  |-> n - 1,
                      index |-> [s \in 1 .. 2 * n |->
                                    IF s <= n THEN Entry(blockIndex, blockIndex.tail + s)
                                    ELSE Len(entries) + s - n]])
         /\ UNCHANGED <<listed, hashed, counters, memory, tailBlock>>
  <1>1. "grown" \in ProducerPCs
    BY DEF ProducerPCs
  <1>2. Goes("insert", "grown", producer.tail, producer.entry, producer.block)
    BY <1>1, ProducerIs DEF NewBlockIndex
  <1> QED
    BY <1>2 DEF NewBlockIndex, LastOld

(* The larger index could not be had. *)
LEMMA NewBlockIndexFailsIs ==
  ASSUME NewBlockIndexFails
  PROVE  /\ headers # << >> /\ ~SlotIsFree /\ Goes("insert", "idle", 0, 0, NoBlock)
         /\ UNCHANGED <<listed, hashed, counters, index, memory, tailBlock>>
  BY LeaveIs DEF NewBlockIndexFails

(* A block that is requisitioned was not in use. *)
LEMMA CandidatesAre ==
    \A b \in Candidates : b \in Blocks /\ home[b] \in {"pool", "free", "dead"}
  BY DEF Candidates, Least, In

(* A block is in the producer's hands. *)
LEMMA RequisitionBlockIs ==
  ASSUME ProducerOK, RequisitionBlock
  PROVE  /\ \E b \in Blocks :
               /\ home[b] \in {"pool", "free", "dead"}
               /\ Goes("requisition", "publish", producer.tail, producer.entry, b)
               /\ home' = [home EXCEPT ![b] = "used"]
               /\ completed' = [completed EXCEPT ![b] = 0]
         /\ UNCHANGED <<listed, hashed, counters, index, elements, tailBlock>>
  <1>1. PICK b \in Candidates :
              /\ Move("requisition", "publish", [producer EXCEPT !.block = b])
              /\ home' = [home EXCEPT ![b] = "used"]
              /\ completed' = [completed EXCEPT ![b] = 0]
    BY DEF RequisitionBlock
  <1>2. b \in Blocks /\ home[b] \in {"pool", "free", "dead"}
    BY CandidatesAre
  <1> DEFINE f == [producer EXCEPT !.block = b]
  <1>3. /\ f \in ProducerFrames /\ f.tail = producer.tail /\ f.entry = producer.entry
        /\ f.block = b /\ "publish" \in ProducerPCs
    BY <1>2 DEF ProducerFrames, ProducerOK, ProducerPCs
  <1>4. Move("requisition", "publish", f)
    BY <1>1
  <1> HIDE DEF f
  <1>5. Goes("requisition", "publish", producer.tail, producer.entry, b)
    BY <1>3, <1>4, MoveIs
  <1> QED
    BY <1>1, <1>2, <1>5 DEF RequisitionBlock

(* No block could be had. *)
LEMMA RequisitionFailsIs ==
  ASSUME ProducerOK, RequisitionFails
  PROVE  /\ Goes("requisition", "rewind", producer.tail, producer.entry, producer.block)
         /\ UNCHANGED <<listed, hashed, counters, index, memory, tailBlock>>
  <1>1. "rewind" \in ProducerPCs
    BY DEF ProducerPCs
  <1>2. Goes("requisition", "rewind", producer.tail, producer.entry, producer.block)
    BY <1>1, ProducerIs DEF RequisitionFails
  <1> QED
    BY <1>2 DEF RequisitionFails

(* The tail of the index moves back. *)
LEMMA RewindTailIs ==
  ASSUME ProducerOK, RewindTail
  PROVE  /\ Goes("rewind", "retract", producer.tail, producer.entry, producer.block)
         /\ MoveTail(-1)
         /\ UNCHANGED <<listed, hashed, counters, entries, memory, tailBlock>>
  <1>1. "retract" \in ProducerPCs
    BY DEF ProducerPCs
  <1>2. Goes("rewind", "retract", producer.tail, producer.entry, producer.block)
    BY <1>1, ProducerIs DEF RewindTail
  <1> QED
    BY <1>2 DEF RewindTail

(* The entry is marked as leading nowhere. *)
LEMMA RetractIs ==
  ASSUME Retract
  PROVE  /\ Goes("retract", "idle", 0, 0, NoBlock)
         /\ entries' = [entries EXCEPT ![producer.entry].value = NoBlock]
         /\ UNCHANGED <<listed, hashed, counters, headers, memory, tailBlock>>
  BY LeaveIs DEF Retract

(* The entry leads to the block. *)
LEMMA PublishBlockIs ==
  ASSUME ProducerOK, PublishBlock
  PROVE  /\ Goes("publish", "write", producer.tail, producer.entry, producer.block)
         /\ entries' = [entries EXCEPT ![producer.entry].value = producer.block]
         /\ tailBlock' = producer.block
         /\ UNCHANGED <<listed, hashed, counters, headers, memory>>
  <1>1. "write" \in ProducerPCs
    BY DEF ProducerPCs
  <1>2. Goes("publish", "write", producer.tail, producer.entry, producer.block)
    BY <1>1, ProducerIs DEF PublishBlock
  <1> QED
    BY <1>2 DEF PublishBlock

(* The element is constructed in its place. *)
LEMMA WriteElementIs ==
  ASSUME ProducerOK, WriteElement
  PROVE  /\ Goes("write", "store", producer.tail, producer.entry, producer.block)
         /\ elements' = [elements EXCEPT ![tailBlock][producer.tail % BlockSize] =
                                        producer.tail + 1]
         /\ UNCHANGED <<listed, hashed, counters, index, home, completed, tailBlock>>
  <1>1. "store" \in ProducerPCs
    BY DEF ProducerPCs
  <1>2. Goes("write", "store", producer.tail, producer.entry, producer.block)
    BY <1>1, ProducerIs DEF WriteElement
  <1> QED
    BY <1>2 DEF WriteElement

(* The element is visible to consumers. *)
LEMMA StoreTailIs ==
  ASSUME StoreTail
  PROVE  /\ Goes("store", "idle", 0, 0, NoBlock) /\ tailIndex' = producer.tail + 1
         /\ UNCHANGED <<listed, hashed, headIndex, optimistic, overcommit, index,
                        memory, tailBlock>>
  BY LeaveIs DEF StoreTail

(* The outline of the state: types, headers, and what enqueue() and the    *)
(* consumers have in hand.                                                 *)
Outline == /\ Types /\ HeadersOK /\ HeldOK /\ ProducerInv /\ CounterInv /\ RangesInv

EntryRecords == [key : Nat, value : Blocks \cup {NoBlock, Junk}]
HeaderRecords == [tail : Nat, index : Seq(Nat)]

(* What a header leads to.                                                 *)
LEMMA HeaderIs ==
  ASSUME IndexOK, HeadersOK, NEW g \in DOMAIN headers
  PROVE  /\ headers[g] \in HeaderRecords /\ headers[g].tail \in Nat
         /\ headers[g].index \in Seq(Nat) /\ Capacity(headers[g]) \in Nat \ {0, 1}
         /\ \A x \in Int : Entry(headers[g], x) \in DOMAIN entries
  <1>1. headers \in Seq(HeaderRecords)
    BY DEF IndexOK, HeaderRecords
  <1>2. headers[g] \in HeaderRecords
    BY <1>1
  <1>3. Capacity(headers[g]) \in Nat \ {0, 1}
    BY DEF HeadersOK
  <1>4. ASSUME NEW x \in Int PROVE Entry(headers[g], x) \in DOMAIN entries
    <2> DEFINE m == Capacity(headers[g])
               y == x % m
    <2>1. y \in 0 .. m - 1 /\ m \in Nat
      BY <1>3
    <2> HIDE DEF m, y
    <2>2. y + 1 \in 1 .. m
      BY <2>1
    <2>3. headers[g].index[y + 1] \in DOMAIN entries
      BY <2>2 DEF HeadersOK, m
    <2> QED
      BY <2>3 DEF Entry, y, m
  <1> QED
    BY <1>2, <1>3, <1>4 DEF HeaderRecords

(* The index in use: its type, and its slots lead to entries. *)
LEMMA BlockIndexIs ==
  ASSUME IndexOK, HeadersOK, headers # << >>
  PROVE  /\ Len(headers) \in DOMAIN headers /\ Len(headers) \in Nat \ {0}
         /\ blockIndex = headers[Len(headers)]
         /\ blockIndex \in HeaderRecords /\ blockIndex.tail \in Nat
         /\ blockIndex.index \in Seq(Nat) /\ Capacity(blockIndex) \in Nat \ {0, 1}
         /\ \A x \in Int : Entry(blockIndex, x) \in DOMAIN entries
         /\ NextEntry \in DOMAIN entries /\ NextEntry \in Nat
         /\ DOMAIN entries = 1 .. Len(entries) /\ Len(entries) \in Nat
  <1>1. headers \in Seq(HeaderRecords) /\ entries \in Seq(EntryRecords)
    BY DEF IndexOK, HeaderRecords, EntryRecords
  <1>2. Len(headers) \in DOMAIN headers /\ Len(headers) \in Nat \ {0}
    BY <1>1
  <1>3. DOMAIN entries = 1 .. Len(entries) /\ Len(entries) \in Nat
    BY <1>1
  <1>4. blockIndex = headers[Len(headers)]
    BY DEF blockIndex
  <1>5. /\ blockIndex \in HeaderRecords /\ blockIndex.tail \in Nat
        /\ blockIndex.index \in Seq(Nat) /\ Capacity(blockIndex) \in Nat \ {0, 1}
        /\ \A x \in Int : Entry(blockIndex, x) \in DOMAIN entries
    BY <1>2, <1>4, HeaderIs
  <1>6. NextEntry \in DOMAIN entries
    <2>1. blockIndex.tail + 1 \in Int
      BY <1>5
    <2> QED
      BY <1>5, <2>1 DEF NextEntry
  <1> QED
    BY <1>2, <1>3, <1>4, <1>5, <1>6

(* An assignment to a part of an entry.                                    *)
LEMMA EntryAssigned ==
  ASSUME IndexOK, NEW e,
         \/ \E v \in Nat : entries' = [entries EXCEPT ![e].key = v]
         \/ \E v \in Blocks \cup {NoBlock, Junk} : entries' = [entries EXCEPT ![e].value = v]
  PROVE  /\ entries' \in Seq(EntryRecords) /\ DOMAIN entries' = DOMAIN entries
         /\ Len(entries') = Len(entries)
         /\ \A d \in DOMAIN entries : d # e => entries'[d] = entries[d]
  <1>1. entries \in Seq(EntryRecords)
    BY DEF IndexOK, EntryRecords
  <1> DEFINE n == Len(entries)
  <1>2. n \in Nat /\ entries \in [1 .. n -> EntryRecords]
    BY <1>1
  <1>3. CASE \E v \in Nat : entries' = [entries EXCEPT ![e].key = v]
    <2>1. PICK v \in Nat : entries' = [entries EXCEPT ![e].key = v]
      BY <1>3
    <2>2. entries' \in [1 .. n -> EntryRecords]
      BY <1>2, <2>1 DEF EntryRecords
    <2>3. \A d \in DOMAIN entries : d # e => entries'[d] = entries[d]
      BY <2>1
    <2> QED
      BY <1>2, <2>2, <2>3
  <1>4. CASE \E v \in Blocks \cup {NoBlock, Junk} : entries' = [entries EXCEPT ![e].value = v]
    <2>1. PICK v \in Blocks \cup {NoBlock, Junk} : entries' = [entries EXCEPT ![e].value = v]
      BY <1>4
    <2>2. entries' \in [1 .. n -> EntryRecords]
      BY <1>2, <2>1 DEF EntryRecords
    <2>3. \A d \in DOMAIN entries : d # e => entries'[d] = entries[d]
      BY <2>1
    <2> QED
      BY <1>2, <2>2, <2>3
  <1> QED
    BY <1>3, <1>4

(* The tail of the index moves; no header changes otherwise.               *)
LEMMA MoveTailIs ==
  ASSUME IndexOK, HeadersOK, headers # << >>, NEW n \in Int, MoveTail(n)
  PROVE  /\ headers' \in Seq(HeaderRecords) /\ Len(headers') = Len(headers)
         /\ DOMAIN headers' = DOMAIN headers
         /\ \A g \in DOMAIN headers : headers'[g].index = headers[g].index
         /\ \A g \in DOMAIN headers : g # Len(headers) => headers'[g] = headers[g]
         /\ headers'[Len(headers)].tail = (blockIndex.tail + n) % Capacity(blockIndex)
         /\ blockIndex'.tail = (blockIndex.tail + n) % Capacity(blockIndex)
         /\ blockIndex'.index = blockIndex.index
  <1> DEFINE l == Len(headers)
             v == (blockIndex.tail + n) % Capacity(blockIndex)
  <1>1. /\ headers \in Seq(HeaderRecords) /\ l \in Nat \ {0} /\ l \in DOMAIN headers
        /\ headers \in [1 .. l -> HeaderRecords]
    <2>1. headers \in Seq(HeaderRecords)
      BY DEF IndexOK, HeaderRecords
    <2>2. Len(headers) \in Nat \ {0} /\ Len(headers) \in DOMAIN headers
      BY BlockIndexIs
    <2> QED
      BY <2>1, <2>2
  <1>2. v \in Nat
    <2>1. Capacity(blockIndex) \in Nat \ {0, 1} /\ blockIndex.tail \in Nat
      BY BlockIndexIs
    <2> DEFINE m == Capacity(blockIndex)
               x == blockIndex.tail + n
    <2>2. m \in Nat \ {0} /\ x \in Int
      BY <2>1
    <2> HIDE DEF m, x
    <2>3. x % m \in Nat
      BY <2>2
    <2> QED
      BY <2>3 DEF m, x
  <1>3. headers[l] \in HeaderRecords /\ blockIndex = headers[l]
    BY <1>1 DEF blockIndex
  <1>4. headers' = [headers EXCEPT ![l].tail = v]
    BY <1>3 DEF MoveTail
  <1> HIDE DEF v, l
  <1>5. headers' \in [1 .. l -> HeaderRecords]
    BY <1>1, <1>2, <1>4 DEF HeaderRecords
  <1>6. headers' \in Seq(HeaderRecords) /\ Len(headers') = l /\ DOMAIN headers' = 1 .. l
    BY <1>1, <1>5
  <1>7. /\ headers'[l].tail = v /\ headers'[l].index = headers[l].index
        /\ \A g \in DOMAIN headers : g # l => headers'[g] = headers[g]
    BY <1>1, <1>3, <1>4 DEF HeaderRecords
  <1>8. blockIndex' = headers'[l]
    BY <1>6 DEF blockIndex
  <1> QED
    BY <1>1, <1>3, <1>6, <1>7, <1>8 DEF v, l

-----------------------------------------------------------------------------
(* The index is as good after a step as before. *)
LEMMA IndexKept ==
  ASSUME IndexOK, HeadersOK, HeldOK, UNCHANGED c, UNCHANGED headers,
         entries' \in Seq(EntryRecords), DOMAIN entries \subseteq DOMAIN entries'
  PROVE  IndexOK' /\ HeadersOK' /\ HeldOK'
  <1>1. IndexOK'
    BY DEF IndexOK, EntryRecords
  <1>2. HeadersOK'
    BY DEF HeadersOK, Capacity
  <1>3. HeldOK'
    BY DEF HeldOK
  <1> QED
    BY <1>1, <1>2, <1>3

(* Moving the tail of the index keeps its type. *)
LEMMA TailMoved ==
  ASSUME IndexOK, HeadersOK, HeldOK, UNCHANGED <<c, entries>>, headers # << >>,
         NEW n \in Int, MoveTail(n)
  PROVE  IndexOK' /\ HeadersOK' /\ HeldOK' /\ headers' # << >>
  <1>1. /\ headers' \in Seq(HeaderRecords) /\ Len(headers') = Len(headers)
        /\ DOMAIN headers' = DOMAIN headers
        /\ \A g \in DOMAIN headers : headers'[g].index = headers[g].index
    BY MoveTailIs
  <1>2. IndexOK'
    BY <1>1 DEF IndexOK, HeaderRecords
  <1>3. HeadersOK'
    BY <1>1 DEF HeadersOK, Capacity
  <1>4. HeldOK'
    BY <1>1 DEF HeldOK
  <1>5. headers' # << >>
    BY <1>1, BlockIndexIs
  <1> QED
    BY <1>2, <1>3, <1>4, <1>5

(* The first index has its type. *)
LEMMA FirstIndex ==
  ASSUME IndexOK, HeldOK, headers = << >>, UNCHANGED c,
         entries' = [e \in 1 .. InitialIndexSize |-> FreshEntry],
         headers' = <<[tail |-> InitialIndexSize - 1,
                       index |-> [s \in 1 .. InitialIndexSize |-> s]]>>
  PROVE  /\ IndexOK' /\ HeadersOK' /\ HeldOK' /\ headers' # << >>
         /\ Len(headers') = 1 /\ Capacity(headers'[1]) = InitialIndexSize
  <1> DEFINE n == InitialIndexSize
             h == [tail |-> n - 1, index |-> [s \in 1 .. n |-> s]]
  <1>1. n \in Nat \ {0, 1}
    BY QueueAssumption
  <1>2. FreshEntry \in EntryRecords
    BY DEF FreshEntry, EntryRecords, InvalidKey
  <1>3. h \in HeaderRecords /\ Capacity(h) = n /\ \A s \in 1 .. n : h.index[s] = s
    <2>1. [s \in 1 .. n |-> s] \in [1 .. n -> Nat]
      BY <1>1
    <2>2. [s \in 1 .. n |-> s] \in Seq(Nat) /\ Len([s \in 1 .. n |-> s]) = n
      BY <1>1, <2>1
    <2> QED
      BY <1>1, <2>2 DEF HeaderRecords, Capacity
  <1>4. entries' \in [1 .. n -> EntryRecords]
    BY <1>1, <1>2
  <1>5. entries' \in Seq(EntryRecords) /\ DOMAIN entries' = 1 .. n
    BY <1>1, <1>4
  <1> HIDE DEF h, n
  <1>6. headers' = <<h>>
    BY DEF h, n
  <1>7. headers' \in Seq(HeaderRecords) /\ Len(headers') = 1 /\ headers'[1] = h
        /\ DOMAIN headers' = {1}
    <2>1. h \in HeaderRecords
      BY <1>3
    <2>2. <<h>> \in Seq(HeaderRecords) /\ Len(<<h>>) = 1 /\ <<h>>[1] = h /\ DOMAIN <<h>> = {1}
      BY <2>1
    <2> QED
      BY <1>6, <2>2
  <1>8. IndexOK'
    BY <1>5, <1>7 DEF IndexOK, EntryRecords, HeaderRecords
  <1>9. HeadersOK'
    BY <1>1, <1>3, <1>5, <1>7 DEF HeadersOK, Capacity
  <1>10. HeldOK'
    BY DEF HeldOK
  <1> QED
    BY <1>3, <1>7, <1>8, <1>9, <1>10 DEF n

(* What new_block_index() makes.                                           *)
LEMMA LargerIndex ==
  ASSUME IndexOK, HeadersOK, HeldOK, headers # << >>, UNCHANGED c, NewBlockIndex,
         ProducerOK
  PROVE  LET n == Capacity(blockIndex) IN
         /\ IndexOK' /\ HeadersOK' /\ HeldOK' /\ headers' # << >>
         /\ entries' \in Seq(EntryRecords) /\ Len(entries') = Len(entries) + n
         /\ \A e \in DOMAIN entries : entries'[e] = entries[e]
         /\ \A e \in DOMAIN entries' : e \notin DOMAIN entries => entries'[e] = FreshEntry
         /\ Len(headers') = Len(headers) + 1
         /\ \A g \in DOMAIN headers : headers'[g] = headers[g]
         /\ blockIndex' = headers'[Len(headers')] /\ blockIndex'.tail = n - 1
         /\ Capacity(blockIndex') = 2 * n
         /\ \A s \in 1 .. n : blockIndex'.index[s] = Entry(blockIndex, blockIndex.tail + s)
         /\ \A s \in n + 1 .. 2 * n : blockIndex'.index[s] = Len(entries) + s - n
  <1> DEFINE n == Capacity(blockIndex)
             l == Len(entries)
             r == [s \in 1 .. 2 * n |-> IF s <= n THEN Entry(blockIndex, blockIndex.tail + s)
                                        ELSE l + s - n]
             h == [tail |-> n - 1, index |-> r]
             new == [e \in 1 .. n |-> FreshEntry]
  <1>0. /\ n \in Nat \ {0, 1} /\ l \in Nat /\ blockIndex.tail \in Nat
        /\ DOMAIN entries = 1 .. l
        /\ \A x \in Int : Entry(blockIndex, x) \in DOMAIN entries
        /\ Len(headers) \in Nat \ {0} /\ headers \in Seq(HeaderRecords)
        /\ entries \in Seq(EntryRecords)
    BY BlockIndexIs DEF IndexOK, EntryRecords, HeaderRecords
  <1>00. n \in Nat \ {0, 1} /\ l \in Nat /\ blockIndex.tail \in Nat
    BY <1>0
  <1>01. \A x \in Int : Entry(blockIndex, x) \in 1 .. l
    BY <1>0
  <1>02. Len(headers) \in Nat \ {0} /\ headers \in Seq(HeaderRecords)
    BY <1>0
  <1>03. entries \in Seq(EntryRecords) /\ DOMAIN entries = 1 .. l
    BY <1>0
  <1>1. entries' = entries \o new /\ headers' = Append(headers, h)
    BY NewBlockIndexIs
  <1> HIDE DEF n, l
  <1>2. ASSUME NEW s \in 1 .. 2 * n PROVE r[s] \in 1 .. l + n /\ r[s] \in Nat
    <2>1. CASE s <= n
      <3>1. blockIndex.tail + s \in Int
        BY <1>00
      <3>2. r[s] = Entry(blockIndex, blockIndex.tail + s)
        BY <2>1
      <3>3. r[s] \in 1 .. l
        BY <1>01, <3>1, <3>2
      <3> HIDE DEF r
      <3> QED
        BY <1>00, <3>3
    <2>2. CASE ~(s <= n)
      <3>1. r[s] = l + s - n
        BY <2>2
      <3> HIDE DEF r
      <3> QED
        BY <1>00, <2>2, <3>1
    <2> QED
      BY <2>1, <2>2
  <1>3. /\ DOMAIN r = 1 .. 2 * n /\ \A s \in 1 .. n : r[s] = Entry(blockIndex, blockIndex.tail + s)
        /\ \A s \in n + 1 .. 2 * n : r[s] = l + s - n
    BY <1>00
  <1>13. r = [s \in 1 .. 2 * n |-> r[s]]
    OBVIOUS
  <1> HIDE DEF r
  <1>4. r \in Seq(Nat) /\ Len(r) = 2 * n
    <2>1. r \in [1 .. 2 * n -> Nat]
      BY <1>2, <1>3, <1>13
    <2>2. 2 * n \in Nat
      BY <1>00
    <2> QED
      BY <2>1, <2>2
  <1>5. h \in HeaderRecords /\ h.tail = n - 1 /\ h.index = r /\ Capacity(h) = 2 * n
    BY <1>0, <1>4 DEF HeaderRecords, Capacity
  <1> HIDE DEF h
  <1>6. /\ headers' \in Seq(HeaderRecords) /\ Len(headers') = Len(headers) + 1
        /\ headers'[Len(headers) + 1] = h
        /\ \A g \in DOMAIN headers : headers'[g] = headers[g]
        /\ DOMAIN headers' = DOMAIN headers \cup {Len(headers) + 1}
    <2>1. h \in HeaderRecords
      BY <1>5
    <2>2. headers' = Append(headers, h)
      BY <1>1
    <2> QED
      BY <1>02, <2>1, <2>2, AppendProperties
  <1>7. new \in Seq(EntryRecords) /\ Len(new) = n /\ \A e \in 1 .. n : new[e] = FreshEntry
    <2>1. FreshEntry \in EntryRecords
      BY DEF FreshEntry, EntryRecords, InvalidKey
    <2>2. new \in [1 .. n -> EntryRecords]
      BY <2>1
    <2> QED
      BY <1>00, <2>2
  <1> HIDE DEF new
  <1>8. /\ entries' \in Seq(EntryRecords) /\ Len(entries') = l + n
        /\ DOMAIN entries' = 1 .. l + n
        /\ \A e \in 1 .. l : entries'[e] = entries[e]
        /\ \A e \in 1 .. l + n : ~(e <= l) => entries'[e] = new[e - l]
    <2>1. entries' = entries \o new
      BY <1>1
    <2>2. entries' \in Seq(EntryRecords) /\ Len(entries') = Len(entries) + Len(new)
      BY <1>03, <1>7, <2>1, ConcatProperties
    <2>3. Len(entries) = l
      BY DEF l
    <2>4. \A e \in 1 .. l : entries'[e] = entries[e]
      BY <1>03, <1>7, <2>1, <2>3, ConcatProperties, <1>00
    <2>5. \A e \in 1 .. l + n : ~(e <= l) => entries'[e] = new[e - l]
      BY <1>03, <1>7, <2>1, <2>3, ConcatProperties, <1>00
    <2>6. DOMAIN entries' = 1 .. l + n
      BY <1>7, <2>2, <2>3
    <2> QED
      BY <1>7, <2>2, <2>3, <2>4, <2>5, <2>6
  <1>9. ASSUME NEW e \in DOMAIN entries', e \notin DOMAIN entries
        PROVE  entries'[e] = FreshEntry
    <2>0. e \in 1 .. l + n /\ e \notin 1 .. l
      BY <1>03, <1>8, <1>9
    <2>1. e \in 1 .. l + n /\ ~(e <= l) /\ e - l \in 1 .. n
      BY <1>00, <2>0
    <2>2. entries'[e] = new[e - l]
      BY <1>8, <2>1
    <2> QED
      BY <1>7, <2>1, <2>2
  <1>10. IndexOK'
    BY <1>6, <1>8 DEF IndexOK, EntryRecords, HeaderRecords
  <1>11. HeadersOK'
    <2> SUFFICES ASSUME NEW g \in DOMAIN headers'
                 PROVE  /\ Capacity(headers'[g]) \in Nat \ {0, 1}
                        /\ \A s \in 1 .. Capacity(headers'[g]) :
                              headers'[g].index[s] \in 1 .. l + n
      BY <1>8 DEF HeadersOK
    <2>1. CASE g \in DOMAIN headers
      <3>1. headers'[g] = headers[g]
        BY <1>6, <2>1
      <3>2. 1 .. l \subseteq 1 .. l + n
        BY <1>00
      <3> QED
        BY <1>03, <2>1, <3>1, <3>2 DEF HeadersOK
    <2>2. CASE g \notin DOMAIN headers
      <3>1. headers'[g] = h
        BY <1>6, <2>2
      <3>2. 2 * n \in Nat \ {0, 1}
        BY <1>00
      <3> QED
        BY <1>2, <1>5, <3>1, <3>2
    <2> QED
      BY <2>1, <2>2
  <1>12. HeldOK'
    BY <1>6 DEF HeldOK
  <1>14. headers' # << >> /\ blockIndex' = h /\ blockIndex' = headers'[Len(headers')]
    BY <1>02, <1>6 DEF blockIndex
  <1>15. /\ \A s \in 1 .. n : blockIndex'.index[s] = Entry(blockIndex, blockIndex.tail + s)
         /\ \A s \in n + 1 .. 2 * n : blockIndex'.index[s] = l + s - n
         /\ blockIndex'.tail = n - 1 /\ Capacity(blockIndex') = 2 * n
    BY <1>3, <1>5, <1>14
  <1>16. \A e \in DOMAIN entries : entries'[e] = entries[e]
    BY <1>03, <1>8
  <1> QED
    BY <1>6, <1>8, <1>9, <1>10, <1>11, <1>12, <1>14, <1>15, <1>16 DEF n, l

(* Position 0 begins a block. *)
LEMMA ZeroStarts == AtBlockStart(0)
  <1>1. 0 \in Int /\ Base(0) \in Int /\ AtBlockStart(Base(0))
    BY BaseIs
  <1> QED
    BY <1>1, BlocksFollow

(* Steps that leave the index, or the blocks and their elements, alone.    *)
LEMMA IndexSame ==
  ASSUME IndexOK, HeadersOK, HeldOK, UNCHANGED <<c, index>>
  PROVE  IndexOK' /\ HeadersOK' /\ HeldOK'
  <1>1. entries' = entries /\ headers' = headers /\ c' = c
    BY DEF index
  <1>2. entries' \in Seq(EntryRecords) /\ DOMAIN entries \subseteq DOMAIN entries'
    BY <1>1 DEF IndexOK, EntryRecords
  <1> QED
    BY <1>1, <1>2, IndexKept

(* Memory that is left alone keeps its type. *)
LEMMA MemorySame ==
  ASSUME MemoryOK, UNCHANGED memory
  PROVE  MemoryOK'
  BY DEF MemoryOK, memory

(* What each step of enqueue() has to keep besides what it does not touch. *)
Own == ProducerOK /\ IndexOK /\ HeadersOK /\ HeldOK /\ MemoryOK /\ ProducerInv

(* A step of enqueue() keeps what belongs to the producer. *)
LEMMA EnqueueOwn ==
  ASSUME Types, HeadersOK, HeldOK, ProducerInv, EnqueueStep
  PROVE  Own'
  <1>0. ProducerOK /\ IndexOK /\ MemoryOK /\ CountersOK /\ tailIndex \in Nat
    BY DEF Types, CountersOK
  <1>1. CASE Enqueue
    <2>1. /\ Goes("idle", IF hashed THEN FirstStep(tailIndex) ELSE "create", tailIndex, 0, NoBlock)
          /\ UNCHANGED <<listed, hashed, counters, index, memory, tailBlock>>
      BY <1>0, <1>1, EnqueueIs
    <2>2. IndexOK' /\ HeadersOK' /\ HeldOK' /\ MemoryOK'
      BY <1>0, <2>1, IndexSame, MemorySame DEF Goes
    <2>3. ProducerOK'
      BY <1>0, <2>1 DEF ProducerOK, Goes
    <2>4. ~AtBlockStart(tailIndex) => tailIndex > 0
      BY <1>0, ZeroStarts
    <2>5. ProducerInv'
      BY <1>0, <2>1, <2>4 DEF ProducerInv, Busy, Goes, FirstStep, counters, index, Inserting
    <2> QED
      BY <2>2, <2>3, <2>5 DEF Own
  <1>2. CASE CreateProducer
    <2>1. /\ Goes("create", "hash", producer.tail, producer.entry, producer.block)
          /\ listed' = TRUE
          /\ UNCHANGED <<hashed, counters, memory, tailBlock>>
      BY <1>0, <1>2, CreateProducerIs
    <2>2. headers = << >> /\ ~hashed /\ tailIndex = 0
      BY <2>1 DEF ProducerInv, Busy, Goes
    <2>3. IndexOK' /\ HeadersOK' /\ HeldOK' /\ (headers' = << >> => entries' = << >>)
      <3>1. CASE UNCHANGED index
        BY <1>0, <2>1, <2>2, <3>1, IndexSame DEF Goes, ProducerInv, index
      <3>2. CASE /\ entries' = [e \in 1 .. InitialIndexSize |-> FreshEntry]
                 /\ headers' = <<[tail |-> InitialIndexSize - 1,
                                  index |-> [s \in 1 .. InitialIndexSize |-> s]]>>
        <4>1. UNCHANGED c
          BY <2>1 DEF Goes
        <4> QED
          BY <1>0, <2>2, <3>2, <4>1, FirstIndex
      <3> QED
        BY <1>0, <1>2, <3>1, <3>2, CreateProducerIs
    <2>4. ProducerOK' /\ MemoryOK'
      BY <1>0, <2>1, MemorySame DEF ProducerOK, Goes
    <2>5. ProducerInv'
      BY <1>0, <2>1, <2>2, <2>3 DEF ProducerInv, Busy, Goes, counters, Inserting
    <2> QED
      BY <2>3, <2>4, <2>5 DEF Own
  <1>3. CASE CreateFails
    <2>1. /\ Goes("create", "idle", 0, 0, NoBlock)
          /\ UNCHANGED <<listed, hashed, counters, index, memory, tailBlock>>
      BY <1>3, CreateFailsIs
    <2>2. IndexOK' /\ HeadersOK' /\ HeldOK' /\ MemoryOK' /\ ProducerOK'
      BY <1>0, <2>1, IndexSame, MemorySame DEF ProducerOK, Goes
    <2>3. ProducerInv'
      BY <1>0, <2>1 DEF ProducerInv, Busy, Goes, counters, index, Inserting
    <2> QED
      BY <2>2, <2>3 DEF Own
  <1>4. CASE HashProducer
    <2>1. /\ Goes("hash", FirstStep(tailIndex), producer.tail, producer.entry, producer.block)
          /\ hashed' = TRUE
          /\ UNCHANGED <<listed, counters, index, memory, tailBlock>>
      BY <1>0, <1>4, HashProducerIs
    <2>2. IndexOK' /\ HeadersOK' /\ HeldOK' /\ MemoryOK' /\ ProducerOK'
      BY <1>0, <2>1, IndexSame, MemorySame DEF ProducerOK, Goes
    <2>3. tailIndex = 0 /\ FirstStep(tailIndex) = "insert"
      BY <2>1, ZeroStarts DEF ProducerInv, Busy, Goes, FirstStep
    <2>4. ProducerInv'
      BY <1>0, <2>1, <2>3, ZeroStarts DEF ProducerInv, Busy, Goes, counters, index, Inserting
    <2> QED
      BY <2>2, <2>4 DEF Own
  <1>5. CASE NoIndex
    <2>1. /\ Goes("insert", "idle", 0, 0, NoBlock)
          /\ UNCHANGED <<listed, hashed, counters, index, memory, tailBlock>>
      BY <1>5, NoIndexIs
    <2>2. IndexOK' /\ HeadersOK' /\ HeldOK' /\ MemoryOK' /\ ProducerOK'
      BY <1>0, <2>1, IndexSame, MemorySame DEF ProducerOK, Goes
    <2>3. ProducerInv'
      BY <1>0, <2>1 DEF ProducerInv, Busy, Goes, counters, index, Inserting
    <2> QED
      BY <2>2, <2>3 DEF Own
  <1>6. CASE StoreKey
    <2>0. headers # << >>
      BY <1>6 DEF StoreKey
    <2>1. /\ producer.pc \in {"insert", "grown"}
          /\ Goes(producer.pc, "advance", producer.tail, NextEntry, producer.block)
          /\ entries' = [entries EXCEPT ![NextEntry].key = producer.tail]
          /\ UNCHANGED <<listed, hashed, counters, headers, memory, tailBlock>>
      BY <1>0, <1>6, <2>0, StoreKeyIs, BlockIndexIs
    <2>2. producer.tail \in Nat
      BY <1>0 DEF ProducerOK, ProducerFrames
    <2>3. entries' \in Seq(EntryRecords) /\ DOMAIN entries' = DOMAIN entries
      BY <1>0, <2>1, <2>2, EntryAssigned
    <2>4. IndexOK' /\ HeadersOK' /\ HeldOK' /\ MemoryOK' /\ ProducerOK'
      BY <1>0, <2>1, <2>3, IndexKept, MemorySame DEF ProducerOK, Goes
    <2>5. ProducerInv'
      BY <1>0, <2>0, <2>1 DEF ProducerInv, Busy, Goes, counters, Inserting
    <2> QED
      BY <2>4, <2>5 DEF Own
  <1>7. CASE AdvanceTail
    <2>1. /\ Goes("advance", "requisition", producer.tail, producer.entry, producer.block)
          /\ MoveTail(1)
          /\ UNCHANGED <<listed, hashed, counters, entries, memory, tailBlock>>
      BY <1>0, <1>7, AdvanceTailIs
    <2>2. headers # << >>
      BY <2>1 DEF ProducerInv, Busy, Goes
    <2>3. IndexOK' /\ HeadersOK' /\ HeldOK' /\ MemoryOK' /\ ProducerOK' /\ headers' # << >>
      BY <1>0, <2>1, <2>2, TailMoved, MemorySame DEF ProducerOK, Goes
    <2>4. ProducerInv'
      BY <1>0, <2>1, <2>2, <2>3 DEF ProducerInv, Busy, Goes, counters, Inserting
    <2> QED
      BY <2>3, <2>4 DEF Own
  <1>8. CASE NewBlockIndex
    <2>1. /\ headers # << >>
          /\ Goes("insert", "grown", producer.tail, producer.entry, producer.block)
          /\ UNCHANGED <<listed, hashed, counters, memory, tailBlock>>
      BY <1>0, <1>8, NewBlockIndexIs
    <2>2. IndexOK' /\ HeadersOK' /\ HeldOK' /\ MemoryOK' /\ ProducerOK' /\ headers' # << >>
      BY <1>0, <1>8, <2>1, LargerIndex, MemorySame DEF ProducerOK, Goes
    <2>3. ProducerInv'
      BY <1>0, <2>1, <2>2 DEF ProducerInv, Busy, Goes, counters, Inserting
    <2> QED
      BY <2>2, <2>3 DEF Own
  <1>9. CASE NewBlockIndexFails
    <2>1. /\ headers # << >> /\ Goes("insert", "idle", 0, 0, NoBlock)
          /\ UNCHANGED <<listed, hashed, counters, index, memory, tailBlock>>
      BY <1>9, NewBlockIndexFailsIs
    <2>2. IndexOK' /\ HeadersOK' /\ HeldOK' /\ MemoryOK' /\ ProducerOK'
      BY <1>0, <2>1, IndexSame, MemorySame DEF ProducerOK, Goes
    <2>3. ProducerInv'
      BY <1>0, <2>1 DEF ProducerInv, Busy, Goes, counters, index, Inserting
    <2> QED
      BY <2>2, <2>3 DEF Own
  <1>10. CASE RequisitionBlock
    <2>0. UNCHANGED <<listed, hashed, counters, index, elements, tailBlock>>
      BY <1>0, <1>10, RequisitionBlockIs
    <2>1. PICK b \in Blocks :
             /\ Goes("requisition", "publish", producer.tail, producer.entry, b)
             /\ home' = [home EXCEPT ![b] = "used"]
             /\ completed' = [completed EXCEPT ![b] = 0]
      BY <1>0, <1>10, RequisitionBlockIs
    <2>2. IndexOK' /\ HeadersOK' /\ HeldOK' /\ ProducerOK'
      BY <1>0, <2>0, <2>1, IndexSame DEF ProducerOK, Goes
    <2>3. MemoryOK'
      BY <1>0, <2>0, <2>1 DEF MemoryOK
    <2>4. ProducerInv'
      BY <1>0, <2>0, <2>1 DEF ProducerInv, Busy, Goes, counters, index, Inserting
    <2> QED
      BY <2>2, <2>3, <2>4 DEF Own
  <1>11. CASE RequisitionFails
    <2>1. /\ Goes("requisition", "rewind", producer.tail, producer.entry, producer.block)
          /\ UNCHANGED <<listed, hashed, counters, index, memory, tailBlock>>
      BY <1>0, <1>11, RequisitionFailsIs
    <2>2. IndexOK' /\ HeadersOK' /\ HeldOK' /\ MemoryOK' /\ ProducerOK'
      BY <1>0, <2>1, IndexSame, MemorySame DEF ProducerOK, Goes
    <2>3. ProducerInv'
      BY <1>0, <2>1 DEF ProducerInv, Busy, Goes, counters, index, Inserting
    <2> QED
      BY <2>2, <2>3 DEF Own
  <1>12. CASE RewindTail
    <2>1. /\ Goes("rewind", "retract", producer.tail, producer.entry, producer.block)
          /\ MoveTail(-1)
          /\ UNCHANGED <<listed, hashed, counters, entries, memory, tailBlock>>
      BY <1>0, <1>12, RewindTailIs
    <2>2. headers # << >> /\ -1 \in Int
      BY <2>1 DEF ProducerInv, Busy, Goes
    <2>3. IndexOK' /\ HeadersOK' /\ HeldOK' /\ MemoryOK' /\ ProducerOK' /\ headers' # << >>
      BY <1>0, <2>1, <2>2, TailMoved, MemorySame DEF ProducerOK, Goes
    <2>4. ProducerInv'
      BY <1>0, <2>1, <2>2, <2>3 DEF ProducerInv, Busy, Goes, counters, Inserting
    <2> QED
      BY <2>3, <2>4 DEF Own
  <1>13. CASE Retract
    <2>1. /\ Goes("retract", "idle", 0, 0, NoBlock)
          /\ entries' = [entries EXCEPT ![producer.entry].value = NoBlock]
          /\ UNCHANGED <<listed, hashed, counters, headers, memory, tailBlock>>
      BY <1>13, RetractIs
    <2>3. entries' \in Seq(EntryRecords) /\ DOMAIN entries' = DOMAIN entries
      BY <1>0, <2>1, EntryAssigned
    <2>4. IndexOK' /\ HeadersOK' /\ HeldOK' /\ MemoryOK' /\ ProducerOK'
      BY <1>0, <2>1, <2>3, IndexKept, MemorySame DEF ProducerOK, Goes
    <2>5. ProducerInv'
      BY <1>0, <2>1 DEF ProducerInv, Busy, Goes, counters, Inserting
    <2> QED
      BY <2>4, <2>5 DEF Own
  <1>14. CASE PublishBlock
    <2>1. /\ Goes("publish", "write", producer.tail, producer.entry, producer.block)
          /\ entries' = [entries EXCEPT ![producer.entry].value = producer.block]
          /\ tailBlock' = producer.block
          /\ UNCHANGED <<listed, hashed, counters, headers, memory>>
      BY <1>0, <1>14, PublishBlockIs
    <2>2. producer.block \in Blocks
      BY <2>1 DEF ProducerInv, Busy, Goes
    <2>3. entries' \in Seq(EntryRecords) /\ DOMAIN entries' = DOMAIN entries
      BY <1>0, <2>1, <2>2, EntryAssigned
    <2>4. IndexOK' /\ HeadersOK' /\ HeldOK' /\ MemoryOK'
      BY <1>0, <2>1, <2>3, IndexKept, MemorySame DEF Goes
    <2>6. ProducerOK'
      BY <1>0, <2>1, <2>2 DEF ProducerOK, Goes
    <2>5. ProducerInv'
      BY <1>0, <2>1, <2>2 DEF ProducerInv, Busy, Goes, counters, Inserting
    <2> QED
      BY <2>4, <2>5, <2>6 DEF Own
  <1>15. CASE WriteElement
    <2>1. /\ Goes("write", "store", producer.tail, producer.entry, producer.block)
          /\ elements' = [elements EXCEPT ![tailBlock][producer.tail % BlockSize] =
                                             producer.tail + 1]
          /\ UNCHANGED <<listed, hashed, counters, index, home, completed, tailBlock>>
      BY <1>0, <1>15, WriteElementIs
    <2>2. IndexOK' /\ HeadersOK' /\ HeldOK' /\ ProducerOK'
      BY <1>0, <2>1, IndexSame DEF ProducerOK, Goes
    <2>3. MemoryOK'
      <3> DEFINE i == producer.tail % BlockSize
                 v == producer.tail + 1
      <3>0. producer.tail \in Nat
        BY <1>0 DEF ProducerOK, ProducerFrames
      <3>4. elements \in [Blocks -> [0 .. BlockSize - 1 -> Nat]]
        BY <1>0 DEF MemoryOK
      <3>1. v \in Nat
        BY <3>0
      <3>2. elements' = [elements EXCEPT ![tailBlock][i] = v]
        BY <2>1
      <3> HIDE DEF i, v
      <3>3. elements' \in [Blocks -> [0 .. BlockSize - 1 -> Nat]]
        BY <3>1, <3>2, <3>4
      <3> QED
        BY <1>0, <2>1, <3>3 DEF MemoryOK
    <2>4. ProducerInv'
      BY <1>0, <2>1 DEF ProducerInv, Busy, Goes, counters, index, Inserting
    <2> QED
      BY <2>2, <2>3, <2>4 DEF Own
  <1>16. CASE StoreTail
    <2>1. /\ Goes("store", "idle", 0, 0, NoBlock) /\ tailIndex' = producer.tail + 1
          /\ UNCHANGED <<listed, hashed, headIndex, optimistic, overcommit, index,
                         memory, tailBlock>>
      BY <1>16, StoreTailIs
    <2>2. IndexOK' /\ HeadersOK' /\ HeldOK' /\ MemoryOK' /\ ProducerOK'
      BY <1>0, <2>1, IndexSame, MemorySame DEF ProducerOK, Goes
    <2>3. ProducerInv'
      BY <1>0, <2>1 DEF ProducerInv, Busy, Goes, index, Inserting
    <2> QED
      BY <2>2, <2>3 DEF Own
  <1> QED
    BY <1>1, <1>2, <1>3, <1>4, <1>5, <1>6, <1>7, <1>8, <1>9, <1>10, <1>11, <1>12, <1>13,
       <1>14, <1>15, <1>16 DEF EnqueueStep

(* A step of enqueue() keeps the outline. *)
LEMMA EnqueueOutline ==
  ASSUME Outline, EnqueueStep
  PROVE  Outline'
  <1>1. Own'
    BY EnqueueOwn DEF Outline
  <1>2. FramesOK' /\ CountersOK' /\ CounterInv'
    <2>1. Busy({"store"}) => producer.tail = tailIndex
      BY DEF Outline, ProducerInv, Busy
    <2> QED
      BY <2>1, EnqueueCounters DEF Outline, Types
  <1>3. RangesInv'
    BY EnqueueKeeps DEF Outline, RangesInv
  <1> QED
    BY <1>1, <1>2, <1>3 DEF Outline, Own, Types

(* What is left to show of a step of consumer k, once its frame is known.  *)
Stays(k) == /\ c[k].pc \in Working /\ Start(c'[k]) = Start(c[k]) /\ c'[k].end = c[k].end
TakesNew(k) == Start(c'[k]) >= headIndex

(* What a step of a consumer has to keep for the outline to hold. *)
LEMMA ConsumerOutline ==
  ASSUME Outline, NEW k \in Consumers, Others(k), Kept, FramesOK', CountersOK', CounterInv',
         MemoryOK', entries' \in Seq(EntryRecords), DOMAIN entries' = DOMAIN entries,
         headIndex <= headIndex', RangeInv(c'[k], headIndex'),
         c'[k].pc \in Working => Stays(k) \/ TakesNew(k),
         c'[k].pc \in Looking => c'[k].header \in DOMAIN headers
  PROVE  Outline'
  <1>0. /\ FramesOK /\ CountersOK /\ ProducerOK /\ IndexOK /\ HeadersOK /\ HeldOK /\ ProducerInv
        /\ RangesInv /\ headIndex \in Nat /\ headIndex' \in Nat
    BY DEF Outline, Types, CountersOK
  <1>1. ProducerOK' /\ IndexOK' /\ HeadersOK' /\ HeldOK'
    <2>1. ProducerOK'
      BY <1>0 DEF ProducerOK, Kept
    <2>2. IndexOK'
      BY <1>0 DEF IndexOK, Kept, EntryRecords
    <2>3. HeadersOK'
      BY <1>0 DEF HeadersOK, Kept, Capacity
    <2>4. HeldOK'
      BY <1>0 DEF HeldOK, Kept, Others
    <2> QED
      BY <2>1, <2>2, <2>3, <2>4
  <1>2. ProducerInv'
    <2>1. entries = << >> => entries' = << >>
      BY <1>0
    <2> QED
      BY <1>0, <2>1 DEF ProducerInv, Kept, Busy
  <1>3. ASSUME NEW j \in Consumers, j # k
        PROVE  /\ c'[j] = c[j] /\ RangeInv(c'[j], headIndex')
               /\ c'[j].pc \in Working => c'[j].end <= headIndex
    <2>1. c'[j] = c[j] /\ RangeInv(c[j], headIndex) /\ c[j].end \in Nat
      BY <1>0, <1>3, FrameFields DEF Others, RangesInv, FramesOK
    <2>2. c[j].end <= headIndex => c[j].end <= headIndex'
      BY <1>0, <2>1
    <2> QED
      BY <2>1, <2>2 DEF RangeInv
  <1>4. ASSUME NEW j \in Consumers, j # k, c'[j].pc \in Working, c'[k].pc \in Working
        PROVE  Apart(c'[j], c'[k])
    <2>1. CASE Stays(k)
      BY <1>0, <1>3, <1>4, <2>1 DEF Stays, RangesInv, Apart
    <2>2. CASE TakesNew(k)
      <3>1. c'[j].end \in Nat /\ Start(c'[k]) \in Int /\ c'[j].end <= headIndex
        BY <1>3, <1>4, FrameFields DEF FramesOK
      <3>2. c'[j].end <= Start(c'[k])
        BY <1>0, <2>2, <3>1 DEF TakesNew
      <3> QED
        BY <3>2 DEF Apart
    <2> QED
      BY <1>4, <2>1, <2>2
  <1>5. RangesInv'
    <2>1. \A j \in Consumers : RangeInv(c'[j], headIndex')
      BY <1>3
    <2>2. \A i, j \in Consumers :
            (i # j /\ c'[i].pc \in Working /\ c'[j].pc \in Working) => Apart(c'[i], c'[j])
      <3> SUFFICES ASSUME NEW i \in Consumers, NEW j \in Consumers, i # j,
                          c'[i].pc \in Working, c'[j].pc \in Working
                   PROVE  Apart(c'[i], c'[j])
        OBVIOUS
      <3>1. CASE i = k
        BY <1>4, <3>1 DEF Apart
      <3>2. CASE j = k
        BY <1>4, <3>2
      <3>3. CASE i # k /\ j # k
        <4>1. c'[i] = c[i] /\ c'[j] = c[j]
          BY <1>3, <3>3
        <4> QED
          BY <1>0, <4>1 DEF RangesInv
      <3> QED
        BY <3>1, <3>2, <3>3
    <2> QED
      BY <2>1, <2>2 DEF RangesInv
  <1> QED
    BY <1>1, <1>2, <1>5 DEF Outline, Types

(* What the outline says of one consumer. *)
LEMMA FrameHeld ==
  ASSUME Outline, NEW k \in Consumers
  PROVE  /\ RangeInv(c[k], headIndex) /\ c[k] \in Frames
         /\ c[k].pc \in Working => /\ headers # << >> /\ c[k].index \in Nat /\ c[k].end \in Nat
                                   /\ c[k].index <= c[k].end /\ c[k].end <= headIndex
         /\ c[k].pc \in Looking => /\ c[k].header \in DOMAIN headers
                                   /\ Capacity(Header(k)) \in Nat \ {0} /\ Header(k).tail \in Nat
                                   /\ \A x \in Int : Entry(Header(k), x) \in DOMAIN entries
  <1>1. /\ RangeInv(c[k], headIndex) /\ c[k] \in Frames /\ headIndex \in Nat /\ tailIndex \in Nat
        /\ IndexOK /\ HeadersOK /\ HeldOK /\ headIndex <= tailIndex
    BY DEF Outline, RangesInv, Types, FramesOK, CountersOK, CounterInv
  <1>2. ASSUME c[k].pc \in Working
        PROVE  /\ headers # << >> /\ c[k].index \in Nat /\ c[k].end \in Nat
               /\ c[k].index <= c[k].end /\ c[k].end <= headIndex
    <2>1. /\ c[k].index <= c[k].end /\ c[k].end <= headIndex
          /\ c[k].index \in Nat /\ c[k].end \in Nat
      BY <1>1, <1>2, FrameFields DEF RangeInv
    <2>2. c[k].end > 0
      BY <1>1, <1>2, <2>1 DEF RangeInv, Working, Looking
    <2>3. tailIndex > 0
      BY <1>1, <2>1, <2>2
    <2> QED
      BY <1>1, <2>1, <2>3 DEF Outline, ProducerInv
  <1>3. ASSUME c[k].pc \in Looking
        PROVE  /\ c[k].header \in DOMAIN headers
               /\ Capacity(Header(k)) \in Nat \ {0} /\ Header(k).tail \in Nat
               /\ \A x \in Int : Entry(Header(k), x) \in DOMAIN entries
    <2>1. c[k].header \in DOMAIN headers
      BY <1>1, <1>3 DEF HeldOK
    <2> QED
      BY <1>1, <2>1, HeaderIs DEF Header
  <1> QED
    BY <1>1, <1>2, <1>3

(* Frames with the range of another frame.                                 *)
LEMMA NotWorking ==
  ASSUME NEW f, NEW head, f.pc \notin Working, f.index = 0, f.end = 0, f.block = NoBlock,
         f.items = << >> \/ f.pc = "done"
  PROVE  RangeInv(f, head)
  BY DEF RangeInv, Working, Looking

(* Entries that are left alone keep their type. *)
LEMMA NoNewEntry ==
  ASSUME Outline, UNCHANGED entries
  PROVE  entries' \in Seq(EntryRecords) /\ DOMAIN entries' = DOMAIN entries
  BY DEF Outline, Types, IndexOK, EntryRecords

(* The steps of a claim keep the outline. *)
LEMMA ClaimOutline ==
  ASSUME Outline, NEW k \in Consumers,
         \/ LoadTail(k) \/ LoadOvercommit(k) \/ LoadOptimistic(k)
         \/ ClaimOptimistic(k) \/ ReloadTail(k) \/ Overcommit(k)
  PROVE  Outline'
  <1>0. /\ FramesOK /\ CountersOK /\ CounterInv /\ MemoryOK /\ headIndex \in Nat
        /\ RangeInv(c[k], headIndex)
    BY FrameHeld DEF Outline, Types, CountersOK
  <1>1. FramesOK' /\ CountersOK' /\ CounterInv'
    BY <1>0, ClaimCounters
  <1>2. ReloadTail(k) => c[k].desired \in 1 .. MaxDequeue
    BY <1>0 DEF ReloadTail, At, CounterInv, ClaimInv
  <1>3. /\ c[k].pc \in {"idle", "over", "optimistic", "claim", "reload", "return"}
        /\ c'[k].pc \in {"idle", "over", "optimistic", "claim", "reload", "return", "first"}
        /\ \/ /\ c'[k].index = c[k].index /\ c'[k].end = c[k].end
              /\ c'[k].items = c[k].items /\ c'[k].block = c[k].block
           \/ /\ c'[k].index = 0 /\ c'[k].end = 0
              /\ c'[k].items = << >> /\ c'[k].block = NoBlock
        /\ Others(k) /\ Kept
        /\ UNCHANGED <<headIndex, entries, home, elements, completed>>
    <2>1. CASE LoadTail(k)
      BY <1>0, <2>1, LoadTailIs
    <2>2. CASE LoadOvercommit(k)
      BY <1>0, <2>2, LoadOvercommitIs
    <2>3. CASE LoadOptimistic(k)
      BY <1>0, <2>3, LoadOptimisticIs
    <2>4. CASE ClaimOptimistic(k)
      BY <1>0, <2>4, ClaimOptimisticIs
    <2>5. CASE ReloadTail(k)
      BY <1>0, <1>2, <2>5, ReloadTailIs
    <2>6. CASE Overcommit(k)
      BY <1>0, <2>6, OvercommitIs
    <2> QED
      BY <2>1, <2>2, <2>3, <2>4, <2>5, <2>6
  <1>4. RangeInv(c'[k], headIndex')
    <2>1. c[k].index = 0 /\ c[k].end = 0 /\ c[k].items = << >> /\ c[k].block = NoBlock
      BY <1>0, <1>3 DEF RangeInv, Working, Looking
    <2>2. c'[k].pc \notin Working
      BY <1>3 DEF Working, Looking
    <2> QED
      BY <1>3, <2>1, <2>2, NotWorking
  <1>5. MemoryOK' /\ headIndex <= headIndex'
    <2>1. MemoryOK'
      BY <1>0, <1>3 DEF MemoryOK
    <2> QED
      BY <1>0, <1>3, <2>1
  <1>6. c'[k].pc \notin Working /\ c'[k].pc \notin Looking
    BY <1>3 DEF Working, Looking
  <1> QED
    BY <1>1, <1>3, <1>4, <1>5, <1>6, NoNewEntry, ConsumerOutline

(* Taking a range keeps the outline: ranges stay apart. *)
LEMMA TakeOutline ==
  ASSUME Outline, NEW k \in Consumers, ClaimElements(k)
  PROVE  Outline'
  <1>0. /\ FramesOK /\ CountersOK /\ CounterInv /\ MemoryOK /\ headIndex \in Nat
        /\ c[k].desired \in Int
    BY FrameFields DEF Outline, Types, CountersOK, FramesOK
  <1>1. FramesOK' /\ CountersOK' /\ CounterInv'
    BY <1>0, ClaimCounters
  <1>2. c[k].count \in Nat /\ c[k].count > 0
    BY <1>0 DEF ClaimElements, At, CounterInv, ClaimInv
  <1>3. /\ c'[k].pc = "header" /\ headIndex' = headIndex + c[k].count
        /\ c'[k].index = headIndex /\ c'[k].end = headIndex'
        /\ c'[k].items = << >> /\ c'[k].block = NoBlock
        /\ Others(k) /\ Kept
        /\ UNCHANGED <<optimistic, overcommit, entries, home, elements, completed>>
    BY <1>0, <1>2, ClaimElementsIs
  <1>4. Start(c'[k]) = headIndex
    BY <1>0, <1>3 DEF Start
  <1>5. headIndex <= headIndex' /\ headIndex < headIndex' /\ headIndex' <= headIndex'
    BY <1>0, <1>2, <1>3
  <1>6. RangeInv(c'[k], headIndex')
    BY <1>0, <1>3, <1>4, <1>5 DEF RangeInv, Working, Looking
  <1>7. MemoryOK' /\ c'[k].pc \notin Looking /\ TakesNew(k)
    <2>1. MemoryOK'
      BY <1>0, <1>3 DEF MemoryOK
    <2> QED
      BY <1>0, <1>3, <1>4, <2>1 DEF Looking, TakesNew
  <1> QED
    BY <1>1, <1>3, <1>5, <1>6, <1>7, NoNewEntry, ConsumerOutline

(* The slot and the key that a consumer computes with are numbers. *)
LEMMA SlotIs ==
  ASSUME Outline, NEW k \in Consumers, c[k].pc = "key"
  PROVE  /\ SlotOf(k) \in Nat /\ TailKey(k) \in Nat
  <1>1. /\ Capacity(Header(k)) \in Nat \ {0} /\ c[k] \in Frames
        /\ \A x \in Int : Entry(Header(k), x) \in DOMAIN entries
    BY FrameHeld DEF Looking
  <1>2. c[k].slot \in Nat /\ c[k].index \in Nat
    BY <1>1, FrameFields
  <1>3. Entry(Header(k), c[k].slot) \in DOMAIN entries
    BY <1>1, <1>2
  <1>4. TailKey(k) \in Nat
    <2>1. entries \in Seq(EntryRecords)
      BY DEF Outline, Types, IndexOK, EntryRecords
    <2>2. entries[Entry(Header(k), c[k].slot)] \in EntryRecords
      BY <1>3, <2>1
    <2> QED
      BY <2>2 DEF TailKey, EntryRecords
  <1>5. Base(c[k].index) \in Int /\ BlockSize \in Nat \ {0}
    <2>1. c[k].index \in Int
      BY <1>2
    <2> QED
      BY <2>1, BaseIs, QueueAssumption
  <1> DEFINE d == Base(c[k].index) - TailKey(k)
             m == Capacity(Header(k))
             x == c[k].slot + d \div BlockSize
  <1>6. d \in Int
    BY <1>4, <1>5
  <1> HIDE DEF d
  <1>7. x \in Int /\ m \in Nat \ {0}
    BY <1>1, <1>2, <1>5, <1>6
  <1> HIDE DEF x, m
  <1>8. x % m \in Nat
    BY <1>7
  <1> QED
    BY <1>4, <1>8 DEF SlotOf, x, m, d

(* The steps of a look-up keep the outline. *)
LEMMA LookOutline ==
  ASSUME Outline, NEW k \in Consumers, LoadHeader(k) \/ LoadIndexTail(k) \/ LookUp(k)
  PROVE  Outline'
  <1>0. /\ FramesOK /\ CountersOK /\ CounterInv /\ MemoryOK /\ IndexOK /\ HeadersOK
        /\ headIndex \in Nat /\ RangeInv(c[k], headIndex)
        /\ c[k].pc \in {"header", "tail", "key"} /\ c[k].pc \in Working
    BY FrameHeld
       DEF Outline, Types, CountersOK, LoadHeader, LoadIndexTail, LookUp, At, Working, Looking
  <1>1. /\ c'[k].pc \in {"tail", "key", "move"}
        /\ c'[k].header \in DOMAIN headers
        /\ c'[k].index = c[k].index /\ c'[k].end = c[k].end
        /\ c'[k].items = c[k].items /\ c'[k].block = c[k].block
        /\ FramesOK' /\ Others(k) /\ Kept
        /\ UNCHANGED <<headIndex, optimistic, overcommit, entries, home, elements, completed>>
    <2>1. CASE LoadHeader(k)
      <3>1. headers # << >>
        BY <1>0, FrameHeld
      <3>2. Len(headers) \in DOMAIN headers
        BY <1>0, <3>1, BlockIndexIs
      <3> QED
        BY <1>0, <2>1, <3>2, LoadHeaderIs
    <2>2. CASE LoadIndexTail(k)
      <3>1. c[k].pc \in Looking
        BY <2>2 DEF LoadIndexTail, At, Looking
      <3> QED
        BY <1>0, <2>2, <3>1, FrameHeld, LoadIndexTailIs
    <2>3. CASE LookUp(k)
      <3>1. c[k].pc \in Looking /\ c[k].pc = "key"
        BY <2>3 DEF LookUp, At, Looking
      <3> QED
        BY <1>0, <2>3, <3>1, FrameHeld, SlotIs, LookUpIs
    <2> QED
      BY <2>1, <2>2, <2>3
  <1>2. Start(c'[k]) = Start(c[k]) /\ c'[k].pc \in Working
    BY <1>1 DEF Start, Working, Looking
  <1>3. RangeInv(c'[k], headIndex')
    BY <1>0, <1>1, <1>2 DEF RangeInv, Working, Looking
  <1>4. MemoryOK' /\ headIndex <= headIndex' /\ Stays(k)
    <2>1. MemoryOK'
      BY <1>0, <1>1 DEF MemoryOK
    <2>2. headIndex <= headIndex'
      BY <1>0, <1>1
    <2> QED
      BY <1>0, <1>1, <1>2, <2>1, <2>2 DEF Stays
  <1>5. CountersOK' /\ CounterInv'
    BY <1>0, <1>1, <1>2, WorkCounters
  <1> QED
    BY <1>1, <1>3, <1>4, <1>5, NoNewEntry, ConsumerOutline

(* Moving elements out keeps the outline. *)
LEMMA MoveOutline ==
  ASSUME Outline, NEW k \in Consumers, MoveElements(k)
  PROVE  Outline'
  <1> DEFINE i == c[k].index
             b == entries[EntryOf(k)].value
             n == c'[k].moved
  <1>0. /\ FramesOK /\ CountersOK /\ CounterInv /\ MemoryOK /\ c[k] \in Frames
        /\ headIndex \in Nat /\ RangeInv(c[k], headIndex)
        /\ c[k].pc = "move" /\ c[k].pc \in Working /\ c[k].pc \in Looking
    BY FrameHeld DEF Outline, Types, CountersOK, MoveElements, At, Working, Looking
  <1>00. i < c[k].end
    BY <1>0 DEF RangeInv
  <1>1. /\ c'[k].pc = "count" /\ b \in Blocks /\ c'[k].block = b
        /\ n \in Nat \ {0} /\ c'[k].index = i + n /\ c'[k].end = c[k].end
        /\ c'[k].header = c[k].header
        /\ i + n <= c[k].end /\ i + n <= Base(i) + BlockSize
        /\ i + n = c[k].end \/ i + n = Base(i) + BlockSize
        /\ Len(c'[k].items) = Len(c[k].items) + n
        /\ Others(k) /\ FramesOK' /\ Kept
        /\ UNCHANGED <<headIndex, optimistic, overcommit, entries, home, completed>>
    BY <1>0, <1>00, MoveElementsIs
  <1>2. elements' = [elements EXCEPT ![b] = [j \in 0 .. BlockSize - 1 |->
                               IF j \in i - Base(i) .. i - Base(i) + n - 1 THEN 0
                               ELSE elements[b][j]]]
    BY <1>0, <1>00, MoveElementsIs
  <1>3. MemoryOK'
    <2>1. elements \in [Blocks -> [0 .. BlockSize - 1 -> Nat]]
      BY <1>0 DEF MemoryOK
    <2> DEFINE g == [j \in 0 .. BlockSize - 1 |->
                               IF j \in i - Base(i) .. i - Base(i) + n - 1 THEN 0
                               ELSE elements[b][j]]
    <2> HIDE DEF b, i, n
    <2>2. g \in [0 .. BlockSize - 1 -> Nat]
      BY <1>1, <2>1
    <2> HIDE DEF g
    <2>3. elements' \in [Blocks -> [0 .. BlockSize - 1 -> Nat]]
      BY <1>2, <2>1, <2>2 DEF g
    <2> QED
      BY <1>0, <1>1, <2>3 DEF MemoryOK
  <1>4. /\ i \in Nat /\ c[k].end \in Nat /\ c[k].items \in Seq(Nat) /\ Len(c[k].items) \in Nat
        /\ Start(c[k]) \in Nat /\ c[k].end <= headIndex
    BY <1>0, FrameFields DEF RangeInv
  <1>5. /\ BlockSize \in Nat \ {0} /\ Base(i) \in Nat /\ Base(i) <= i /\ i < Base(i) + BlockSize
        /\ AtBlockStart(Base(i) + BlockSize)
    <2>1. Base(i) \in Nat /\ Base(i) <= i /\ i < Base(i) + BlockSize /\ AtBlockStart(Base(i))
      <3>1. i \in Int /\ i >= 0
        BY <1>4
      <3> HIDE DEF i
      <3> QED
        BY <3>1, BaseIs
    <2> QED
      BY <2>1, BlocksFollow, QueueAssumption
  <1>6. Base(i + n - 1) = Base(i)
    <2>1. /\ i \in Nat /\ n \in Nat \ {0} /\ BlockSize \in Nat /\ Base(i) \in Nat
          /\ Base(i) <= i /\ i + n <= Base(i) + BlockSize
      BY <1>1, <1>4, <1>5
    <2> HIDE DEF i, b, n
    <2>2. i + n - 1 \in Int /\ Base(i) <= i + n - 1 /\ i + n - 1 < Base(i) + BlockSize
      BY <2>1
    <2> QED
      BY <2>1, <2>2, SameBase
  <1> HIDE DEF b, n
  <1>7. Start(c'[k]) = Start(c[k])
    BY <1>1, <1>4 DEF Start
  <1>8. RangeInv(c'[k], headIndex')
    <2>1. /\ c'[k].pc \in Working /\ c'[k].pc = "count"
          /\ Start(c'[k]) \in Nat /\ c'[k].index <= c'[k].end /\ c'[k].end <= headIndex'
      BY <1>1, <1>4, <1>7 DEF Working, Looking
    <2>2. c'[k].moved \in 1 .. Len(c'[k].items) /\ 0 < c'[k].index
      BY SMTT(30), <1>1, <1>4 DEF n
    <2>3. Base(c'[k].index - 1) <= c'[k].index - c'[k].moved
      <3>1. c'[k].index - c'[k].moved = i
        BY <1>1, <1>4 DEF n
      <3>2. c'[k].index - 1 = i + n - 1
        <4>1. c'[k].index = i + n /\ i \in Nat /\ n \in Int
          BY <1>1, <1>4 DEF n
        <4> HIDE DEF i
        <4> QED
          BY <4>1
      <3> QED
        BY <1>5, <1>6, <3>1, <3>2
    <2>4. c'[k].index = c'[k].end \/ AtBlockStart(c'[k].index)
      BY <1>1, <1>5
    <2> QED
      BY <1>1, <2>1, <2>2, <2>3, <2>4 DEF RangeInv
  <1>9. CountersOK' /\ CounterInv'
    <2>1. c'[k].pc \in Working
      BY <1>1 DEF Working, Looking
    <2> QED
      BY <1>0, <1>1, <2>1, WorkCounters
  <1>10. Stays(k) /\ headIndex <= headIndex' /\ c'[k].header \in DOMAIN headers
    BY <1>0, <1>1, <1>7, FrameHeld DEF Stays
  <1>11. entries' \in Seq(EntryRecords) /\ DOMAIN entries' = DOMAIN entries
    BY <1>1, NoNewEntry
  <1> QED
    BY <1>1, <1>3, <1>8, <1>9, <1>10, <1>11, ConsumerOutline

(* After a block has been emptied, or not. *)
LEMMA RangeAfter ==
  ASSUME Outline, NEW k \in Consumers, c[k].pc \in {"count", "unlink", "free"},
         Becomes(k, "unlink", c[k]) \/ Becomes(k, "free", c[k]) \/ Finishes(k) \/ GoesOn(k),
         headIndex' = headIndex
  PROVE  /\ RangeInv(c'[k], headIndex')
         /\ c'[k].pc \in Working => Stays(k) \/ TakesNew(k)
         /\ c'[k].pc \in Looking => c'[k].header \in DOMAIN headers
         /\ c'[k].pc \in Working \cup {"done", "idle"}
  <1>0. /\ RangeInv(c[k], headIndex) /\ c[k].pc \in Working /\ c[k].pc \in Looking
        /\ c[k].header \in DOMAIN headers /\ c[k].index \in Nat /\ c[k].end \in Nat
        /\ c[k].index <= c[k].end
    BY FrameHeld DEF Working, Looking
  <1>1. CASE Becomes(k, "unlink", c[k]) \/ Becomes(k, "free", c[k])
    <2>1. /\ c'[k].pc \in {"unlink", "free"} /\ c'[k].index = c[k].index /\ c'[k].end = c[k].end
          /\ c'[k].items = c[k].items /\ c'[k].block = c[k].block
          /\ c'[k].header = c[k].header /\ Start(c'[k]) = Start(c[k])
      BY <1>1 DEF Becomes, Start
    <2> QED
      BY <1>0, <2>1 DEF RangeInv, Working, Looking, Stays
  <1>2. CASE Finishes(k)
    <2>1. c'[k].pc \notin Working /\ c'[k].pc \notin Looking
      BY <1>2 DEF Finishes, Working, Looking
    <2> QED
      BY <1>2, <2>1, NotWorking DEF Finishes
  <1>3. CASE GoesOn(k)
    <2>1. /\ c'[k].pc = "move" /\ c'[k].index = c[k].index /\ c'[k].end = c[k].end
          /\ c'[k].items = c[k].items /\ c'[k].block = NoBlock
          /\ c'[k].header = c[k].header /\ Start(c'[k]) = Start(c[k])
          /\ c[k].index < c[k].end
      BY <1>0, <1>3 DEF GoesOn, Start
    <2> QED
      BY <1>0, <2>1 DEF RangeInv, Working, Looking, Stays
  <1> QED
    BY <1>1, <1>2, <1>3

(* Counting, unlinking and giving back keep the outline. *)
LEMMA BlockOutline ==
  ASSUME Outline, NEW k \in Consumers, CountElements(k) \/ UnlinkBlock(k) \/ FreeBlock(k)
  PROVE  Outline'
  <1>0. /\ FramesOK /\ CountersOK /\ CounterInv /\ MemoryOK /\ IndexOK /\ c[k] \in Frames
        /\ c[k].pc \in {"count", "unlink", "free"} /\ headIndex \in Nat
        /\ Capacity(Header(k)) \in Nat \ {0}
    BY FrameHeld
       DEF Outline, Types, CountersOK, CountElements, UnlinkBlock, FreeBlock, At, Looking
  <1>1. /\ Becomes(k, "unlink", c[k]) \/ Becomes(k, "free", c[k]) \/ Finishes(k) \/ GoesOn(k)
        /\ FramesOK' /\ Others(k) /\ Kept /\ UNCHANGED <<headIndex, optimistic, overcommit>>
    <2>1. CASE CountElements(k)
      BY <1>0, <2>1, CountElementsIs
    <2>2. CASE UnlinkBlock(k)
      BY <1>0, <2>2, UnlinkBlockIs
    <2>3. CASE FreeBlock(k)
      BY <1>0, <2>3, FreeBlockIs
    <2> QED
      BY <2>1, <2>2, <2>3
  <1>2. entries' \in Seq(EntryRecords) /\ DOMAIN entries' = DOMAIN entries
    <2>1. CASE CountElements(k)
      BY <1>0, <2>1, CountElementsIs, NoNewEntry
    <2>2. CASE UnlinkBlock(k)
      BY <1>0, <2>2, UnlinkBlockIs, EntryAssigned
    <2>3. CASE FreeBlock(k)
      BY <1>0, <2>3, FreeBlockIs, NoNewEntry
    <2> QED
      BY <2>1, <2>2, <2>3
  <1>3. MemoryOK'
    <2>1. CASE CountElements(k)
      <3>1. c[k].moved \in Nat
        BY <1>0, FrameFields
      <3>2. /\ completed' = [completed EXCEPT ![c[k].block] = @ + c[k].moved]
            /\ UNCHANGED <<home, elements>>
        BY <1>0, <2>1, CountElementsIs
      <3>3. completed \in [Blocks -> Nat]
        BY <1>0 DEF MemoryOK
      <3>5. c[k].block \in Blocks
        BY <1>0, FrameHeld DEF RangeInv
      <3>4. completed' \in [Blocks -> Nat]
        <4> DEFINE b == c[k].block
                   v == completed[b] + c[k].moved
        <4>1. v \in Nat /\ completed' = [completed EXCEPT ![b] = v]
          BY <3>1, <3>2, <3>3, <3>5
        <4> HIDE DEF b, v
        <4> QED
          BY <3>3, <4>1
      <3> QED
        BY <1>0, <3>2, <3>4 DEF MemoryOK
    <2>2. CASE UnlinkBlock(k)
      BY <1>0, <2>2, UnlinkBlockIs DEF MemoryOK
    <2>3. CASE FreeBlock(k)
      <3>1. /\ home' = [home EXCEPT ![c[k].block] = Freed(c[k].block)]
            /\ UNCHANGED <<elements, completed>>
        BY <1>0, <2>3, FreeBlockIs
      <3> QED
        BY <1>0, <3>1 DEF MemoryOK, Freed
    <2> QED
      BY <2>1, <2>2, <2>3
  <1>4. /\ RangeInv(c'[k], headIndex')
        /\ c'[k].pc \in Working => Stays(k) \/ TakesNew(k)
        /\ c'[k].pc \in Looking => c'[k].header \in DOMAIN headers
        /\ c'[k].pc \in Working \cup {"done", "idle"}
    BY <1>0, <1>1, RangeAfter
  <1>5. CountersOK' /\ CounterInv' /\ headIndex <= headIndex'
    BY <1>0, <1>1, <1>4, WorkCounters
  <1> QED
    BY <1>1, <1>2, <1>3, <1>4, <1>5, ConsumerOutline

(* Returning keeps the outline. *)
LEMMA ReturnOutline ==
  ASSUME Outline, NEW k \in Consumers, Return(k)
  PROVE  Outline'
  <1>0. FramesOK /\ CountersOK /\ CounterInv /\ MemoryOK /\ headIndex \in Nat
    BY DEF Outline, Types, CountersOK
  <1>1. /\ c'[k].pc = "idle" /\ c'[k].index = 0 /\ c'[k].end = 0 /\ c'[k].items = << >>
        /\ c'[k].block = NoBlock /\ Others(k) /\ FramesOK' /\ Kept
        /\ UNCHANGED <<headIndex, optimistic, overcommit, entries, home, elements, completed>>
    BY <1>0, ReturnIs
  <1>2. c'[k].pc \notin Working /\ c'[k].pc \notin Looking
        /\ c'[k].pc \in Working \cup {"done", "idle"}
    BY <1>1 DEF Working, Looking
  <1>3. RangeInv(c'[k], headIndex') /\ MemoryOK' /\ headIndex <= headIndex'
    <2>1. RangeInv(c'[k], headIndex')
      BY <1>1, <1>2, NotWorking
    <2>2. MemoryOK'
      BY <1>0, <1>1 DEF MemoryOK
    <2>3. headIndex <= headIndex'
      BY <1>0, <1>1
    <2> QED
      BY <2>1, <2>2, <2>3
  <1>4. CountersOK' /\ CounterInv'
    BY <1>0, <1>1, <1>2, WorkCounters
  <1> QED
    BY <1>1, <1>2, <1>3, <1>4, NoNewEntry, ConsumerOutline

(* The destructor keeps the outline. *)
LEMMA DestroyOutline ==
  ASSUME Outline, Destroy
  PROVE  Outline'
  <1>0. /\ UNCHANGED <<listed, hashed, headIndex, tailIndex, optimistic, overcommit, entries,
                       headers, completed, tailBlock, producer, c>>
        /\ ended' = TRUE
        /\ home' = [b \in Blocks |-> IF b \in GivenBack THEN Freed(b) ELSE home[b]]
        /\ elements' = [b \in Blocks |-> [i \in 0 .. BlockSize - 1 |->
                       IF \E j \in Left : b = BlockOf(j) /\ j % BlockSize = i
                       THEN 0 ELSE elements[b][i]]]
    BY DEF Destroy, counters, index
  <1>1. MemoryOK'
    BY <1>0 DEF Outline, Types, MemoryOK, Freed
  <1>2. FramesOK' /\ CountersOK' /\ CounterInv' /\ RangesInv'
    BY <1>0 DEF Outline, Types, FramesOK, CountersOK, CounterInv, RangesInv
  <1>3. ProducerOK' /\ IndexOK' /\ HeadersOK' /\ HeldOK'
    BY <1>0 DEF Outline, Types, ProducerOK, IndexOK, HeadersOK, HeldOK, Capacity
  <1>4. ProducerInv'
    BY <1>0 DEF Outline, ProducerInv, Busy
  <1> QED
    BY <1>1, <1>2, <1>3, <1>4 DEF Outline, Types

(* The outline holds at first. *)
LEMMA OutlineInit == Init => Outline
  <1> SUFFICES ASSUME Init PROVE Outline
    OBVIOUS
  <1>1. FramesOK /\ CountersOK
    BY IdleIs DEF Init, FramesOK, CountersOK
  <1>2. ProducerOK
    <2>1. Frame("idle", 0) \in ProducerFrames
      BY FrameIs DEF ProducerPCs
    <2> QED
      BY <2>1 DEF Init, ProducerOK
  <1>3. IndexOK /\ HeadersOK
    BY DEF Init, IndexOK, HeadersOK
  <1>4. MemoryOK
    BY DEF Init, MemoryOK
  <1>5. \A k \in Consumers : c[k] = Idle /\ c[k].pc = "idle"
    BY DEF Init, Idle
  <1>6. HeldOK
    BY <1>5 DEF HeldOK, Looking
  <1>7. ProducerInv
    BY FrameIs DEF Init, ProducerInv, Busy, Frame, Inserting
  <1>8. RangesInv
    <2>1. \A k \in Consumers : c[k].pc \notin Working /\ RangeInv(c[k], headIndex)
      BY <1>5, IdleIs, NotWorking DEF Working, Looking
    <2> QED
      BY <2>1 DEF RangesInv
  <1>9. CounterInv
    <2>1. \A k \in Consumers : c[k].pc \notin Claiming /\ ClaimInv(c[k], overcommit)
      BY <1>5, NoClaim DEF Claiming
    <2> DEFINE at == [k \in Consumers |-> 0]
    <2>2. at \in [Consumers -> Nat]
      OBVIOUS
    <2>3. Claims(c, at, headIndex, tailIndex, optimistic - overcommit)
      BY <2>1 DEF Claims
    <2>4. headIndex <= tailIndex /\ headIndex <= optimistic - overcommit
      BY DEF Init
    <2> QED
      BY <2>1, <2>2, <2>3, <2>4 DEF CounterInv
  <1> QED
    BY <1>1, <1>2, <1>3, <1>4, <1>6, <1>7, <1>8, <1>9 DEF Outline, Types

(* Every step keeps the outline. *)
LEMMA OutlineStep == Outline /\ [Next]_vars => Outline'
  <1> SUFFICES ASSUME Outline, [Next]_vars PROVE Outline'
    OBVIOUS
  <1>1. CASE EnqueueStep
    BY <1>1, EnqueueOutline
  <1>2. ASSUME NEW k \in Consumers, DequeueStep(k) PROVE Outline'
    BY <1>2, ClaimOutline, TakeOutline, LookOutline, MoveOutline, BlockOutline, ReturnOutline
       DEF DequeueStep
  <1>3. CASE Destroy
    BY <1>3, DestroyOutline
  <1>4. CASE UNCHANGED vars
    <2>1. UNCHANGED <<listed, hashed, headIndex, tailIndex, optimistic, overcommit, entries,
                      headers, home, elements, completed, tailBlock, producer, c, ended>>
      BY <1>4 DEF vars, counters, index, memory
    <2>2. FramesOK' /\ CountersOK' /\ CounterInv' /\ RangesInv'
      BY <2>1 DEF Outline, Types, FramesOK, CountersOK, CounterInv, RangesInv
    <2>3. ProducerOK' /\ IndexOK' /\ HeadersOK' /\ HeldOK' /\ MemoryOK'
      BY <2>1 DEF Outline, Types, ProducerOK, IndexOK, HeadersOK, HeldOK, Capacity, MemoryOK
    <2>4. ProducerInv'
      BY <2>1 DEF Outline, ProducerInv, Busy
    <2> QED
      BY <2>2, <2>3, <2>4 DEF Outline, Types
  <1> QED
    BY <1>1, <1>2, <1>3, <1>4 DEF Next

(* Types, counters, ranges and what the producer has, in every state. *)
THEOREM OutlineHolds == Spec => []Outline
  BY OutlineInit, OutlineStep, PTL DEF Spec

(* The index: EntryInv and RingInv, step by step.                          *)
IndexInv == EntryInv /\ RingInv

(* When the entry after the tail may have the next key.                    *)
Beginning == AtBlockStart(tailIndex)
             /\ ~Busy({"requisition", "publish", "rewind", "write", "store"})

(* The entries, field by field. *)
LEMMA EntriesAre ==
  ASSUME IndexOK
  PROVE  /\ entries \in Seq(EntryRecords) /\ DOMAIN entries = 1 .. Len(entries)
         /\ Len(entries) \in Nat
         /\ \A e \in DOMAIN entries : Key(e) \in Nat
                /\ entries[e].value \in Blocks \cup {NoBlock, Junk}
  <1>1. entries \in Seq(EntryRecords)
    BY DEF IndexOK, EntryRecords
  <1>2. DOMAIN entries = 1 .. Len(entries) /\ Len(entries) \in Nat
    BY <1>1
  <1>3. \A e \in DOMAIN entries : entries[e] \in EntryRecords
    BY <1>1
  <1> QED
    BY <1>1, <1>2, <1>3 DEF EntryRecords, Key

(* The block before a position.                                            *)
LEMMA BaseBefore ==
  ASSUME NEW i \in Int
  PROVE  /\ AtBlockStart(i) => Base(i - 1) = i - BlockSize
         /\ ~AtBlockStart(i) => Base(i - 1) = Base(i)
  <1>0. BlockSize \in Nat \ {0} /\ i - 1 \in Int
    BY QueueAssumption
  <1>1. AtBlockStart(i) => Base(i - 1) = i - BlockSize
    <2> HAVE AtBlockStart(i)
    <2>1. AtBlockStart(i - BlockSize) /\ i - BlockSize \in Int
      BY <1>0, BlocksFollow
    <2>2. i - BlockSize <= i - 1 /\ i - 1 < (i - BlockSize) + BlockSize
      BY <1>0
    <2> QED
      BY <1>0, <2>1, <2>2, OneBase
  <1>2. ~AtBlockStart(i) => Base(i - 1) = Base(i)
    <2> HAVE ~AtBlockStart(i)
    <2>1. Base(i) \in Int /\ Base(i) < i /\ i < Base(i) + BlockSize
      BY BaseIs
    <2>2. Base(i) <= i - 1 /\ i - 1 < Base(i) + BlockSize
      BY <1>0, <2>1
    <2> QED
      BY <1>0, <2>2, SameBase
  <1> QED
    BY <1>1, <1>2

(* The key at the tail, by the place where enqueue() is.                   *)
LEMMA TopIs ==
  ASSUME CountersOK
  PROVE  /\ Top \in Int
         /\ Busy({"requisition", "publish", "rewind"}) => Top = tailIndex
         /\ Busy({"write", "store"}) => Top = Base(tailIndex)
         /\ Beginning => Top = tailIndex - BlockSize
         /\ ~Busy({"requisition", "publish", "rewind", "write", "store"}) =>
               Top = Base(tailIndex - 1)
  <1>1. tailIndex \in Int /\ tailIndex - 1 \in Int /\ BlockSize \in Nat \ {0}
    BY QueueAssumption DEF CountersOK
  <1>2. Base(tailIndex) \in Int /\ Base(tailIndex - 1) \in Int
    BY <1>1, BaseIs
  <1>3. AtBlockStart(tailIndex) => Base(tailIndex - 1) = tailIndex - BlockSize
    BY <1>1, BaseBefore
  <1> QED
    BY <1>1, <1>2, <1>3 DEF Top, Latest, Busy, Beginning

(* Steps that leave the headers and the tail's key, and the keys but for   *)
(* the next one.                                                           *)
TakesKey(e) == e = NextEntry /\ Key(e)' = tailIndex /\ Beginning /\ ~Links(e)'

(* A step that leaves the headers alone, and takes at most the next key,   *)
(* keeps the rings.                                                        *)
LEMMA RingQuiet ==
  ASSUME RingInv, IndexOK, CountersOK, UNCHANGED headers, Len(entries') = Len(entries),
         DOMAIN entries' = DOMAIN entries,
         \A e \in DOMAIN entries :
            \/ /\ Key(e)' = Key(e)
               /\ Links(e)' => Links(e) \/ (Keyed(e) /\ ~Beginning)
            \/ headers # << >> /\ TakesKey(e),
         headers # << >> => Top' = Top, Beginning => Beginning',
         (headers # << >> /\ Busy({"requisition", "rewind"})') =>
            Busy({"requisition", "rewind"}) /\ tailIndex' = tailIndex,
         HeadersOK
  PROVE  RingInv'
  <1> SUFFICES ASSUME headers # << >>
               PROVE  RingInv'
    BY DEF RingInv
  <1>0. /\ blockIndex' = blockIndex /\ Top' = Top
        /\ \A x \in Int : Entry(blockIndex, x) \in DOMAIN entries
        /\ blockIndex.tail \in Nat
        /\ \A g \in DOMAIN headers : headers[g].tail \in Nat
        /\ \A g \in DOMAIN headers : \A x \in Int : Entry(headers[g], x) \in DOMAIN entries
    BY BlockIndexIs, HeaderIs DEF blockIndex
  <1>1. \A e \in DOMAIN entries : Keyed(e) => Keyed(e)'
    <2>1. tailIndex \in Int /\ (AtBlockStart(tailIndex) => tailIndex # InvalidKey)
      BY BlocksFollow DEF CountersOK
    <2> QED
      BY <2>1 DEF Keyed, TakesKey, Beginning
  <1>9. Capacity(blockIndex) \in Nat \ {0, 1}
    BY BlockIndexIs
  <1>2. /\ Len(entries') = Capacity(blockIndex')
        /\ \A g \in DOMAIN headers' : /\ RingOK(headers'[g]) /\ Agree(headers'[g], blockIndex')
                                      /\ Divides(Capacity(headers'[g]), Capacity(blockIndex'))
    BY <1>0 DEF RingInv
  <1>3. \A g \in DOMAIN headers' : g # Len(headers') =>
          Keyed(Entry(headers[g], headers[g].tail))'
    <2> SUFFICES ASSUME NEW g \in DOMAIN headers, g # Len(headers)
                 PROVE  Keyed(Entry(headers[g], headers[g].tail))'
      OBVIOUS
    <2> DEFINE e == Entry(headers[g], headers[g].tail)
    <2>0. Keyed(e)
      BY DEF RingInv
    <2>4. headers[g].tail \in Int
      BY HeaderIs
    <2>1. e \in DOMAIN entries /\ Keyed(e)
      BY <1>0, <2>0, <2>4
    <2>2. Entry(headers'[g], headers'[g].tail) = e
      OBVIOUS
    <2> HIDE DEF e
    <2>3. entries'[e].key # InvalidKey
      BY <1>1, <2>1 DEF Keyed, Key
    <2> QED
      BY <2>2, <2>3 DEF Keyed, Key
  <1>4. ASSUME NEW e \in DOMAIN entries, Keyed(e)'
        PROVE  \E y \in 1 - Capacity(blockIndex) .. 1 : KeyAt(e, y)'
    <2>4. CASE TakesKey(e)
      <3>1. Top' = tailIndex - BlockSize /\ tailIndex \in Int /\ BlockSize \in Int
        BY <1>0, <2>4, TopIs, QueueAssumption DEF TakesKey, CountersOK
      <3>2. Key(e)' = Top' + 1 * BlockSize
        BY <2>4, <3>1 DEF TakesKey
      <3>3. e = Entry(blockIndex', blockIndex'.tail + 1)
        BY <1>0, <2>4 DEF TakesKey, NextEntry
      <3>4. /\ AtBlockStart(tailIndex)' /\ ~Links(e)'
            /\ ~Busy({"requisition", "publish", "rewind", "write", "store"})'
        BY <2>4 DEF TakesKey, Beginning
      <3>5. KeyAt(e, 1)'
        BY <3>2, <3>3, <3>4 DEF KeyAt
      <3>6. 1 \in 1 - Capacity(blockIndex) .. 1
        BY <1>9
      <3> QED
        BY <3>5, <3>6
    <2> SUFFICES ASSUME ~TakesKey(e)
                 PROVE  \E y \in 1 - Capacity(blockIndex) .. 1 : KeyAt(e, y)'
      BY <2>4
    <2>5. Key(e)' = Key(e) /\ (Links(e)' => Links(e) \/ (Keyed(e) /\ ~Beginning))
      OBVIOUS
    <2>1. PICK y \in 1 - Capacity(blockIndex) .. 1 : KeyAt(e, y)
      BY <1>4, <2>5 DEF RingInv, Keyed
    <2>2. e = Entry(blockIndex', blockIndex'.tail + y) /\ Key(e)' = Top' + y * BlockSize
      BY <1>0, <2>1, <2>5 DEF KeyAt
    <2>3. ASSUME y = 1
          PROVE  /\ AtBlockStart(tailIndex)' /\ ~Links(e)'
                 /\ ~Busy({"requisition", "publish", "rewind", "write", "store"})'
      <3>1. Beginning /\ ~Links(e)
        BY <2>1, <2>3 DEF KeyAt, Beginning
      <3> QED
        BY <2>5, <3>1 DEF Beginning
    <2> QED
      BY <2>2, <2>3 DEF KeyAt
  <1>5. Top' >= 0 => Keyed(Entry(blockIndex, blockIndex.tail))'
    <2> HAVE Top' >= 0
    <2> DEFINE e == Entry(blockIndex, blockIndex.tail)
    <2>0. Keyed(e)
      BY <1>0 DEF RingInv
    <2>4. blockIndex.tail \in Int
      BY <1>0
    <2>1. e \in DOMAIN entries /\ Keyed(e)
      BY <1>0, <2>0, <2>4
    <2>2. Entry(blockIndex', blockIndex'.tail) = e
      BY <1>0
    <2> HIDE DEF e
    <2>3. entries'[e].key # InvalidKey
      BY <1>1, <2>1 DEF Keyed, Key
    <2> QED
      BY <2>2, <2>3 DEF Keyed, Key
  <1>6. (Busy({"requisition", "rewind"})' /\ tailIndex' > 0) =>
          Keyed(Entry(blockIndex, blockIndex.tail - 1))'
    <2> SUFFICES ASSUME Busy({"requisition", "rewind"})', tailIndex' > 0
                 PROVE  Keyed(Entry(blockIndex, blockIndex.tail - 1))'
      OBVIOUS
    <2> DEFINE e == Entry(blockIndex, blockIndex.tail - 1)
    <2>0. blockIndex.tail - 1 \in Int
      BY <1>0
    <2>1. e \in DOMAIN entries /\ Keyed(e)
      BY <1>0, <2>0 DEF RingInv
    <2>2. Entry(blockIndex', blockIndex'.tail - 1) = e
      BY <1>0
    <2> HIDE DEF e
    <2>3. entries'[e].key # InvalidKey
      BY <1>1, <2>1 DEF Keyed, Key
    <2> QED
      BY <2>2, <2>3 DEF Keyed, Key
  <1>7. \A e \in DOMAIN entries : Links(e)' => Keyed(e)'
    BY <1>1 DEF RingInv, TakesKey
  <1> QED
    BY <1>0, <1>2, <1>3, <1>4, <1>5, <1>6, <1>7 DEF RingInv

(* Slots are added modulo the size of the ring. *)
LEMMA EntryShift ==
  ASSUME NEW h, Capacity(h) \in Nat \ {0}, NEW x \in Int, NEW z \in Int
  PROVE  Entry(h, (x % Capacity(h)) + z) = Entry(h, x + z)
  <1> DEFINE m == Capacity(h)
  <1>1. m \in Nat \ {0}
    OBVIOUS
  <1>2. PICK d \in Int : \E r \in 0 .. m - 1 : x = d * m + r /\ x % m = r
    BY <1>1, Quotient
  <1>3. PICK r \in 0 .. m - 1 : x = d * m + r /\ x % m = r
    BY <1>2
  <1> DEFINE a == r + z
             b == x + z
             p == d * m
  <1>6. p \in Int /\ x = p + r /\ r \in Int
    BY <1>1, <1>3
  <1> HIDE DEF p
  <1>7. a \in Int /\ b \in Int /\ b = a + p
    BY <1>6
  <1>4. a \in Int /\ b \in Int /\ b = a + d * m
    BY <1>7 DEF p
  <1> HIDE DEF a, b
  <1>5. Entry(h, b) = Entry(h, a)
    BY <1>1, <1>4, EntryCongruent
  <1> QED
    BY <1>3, <1>5 DEF a, b

(* The rings when the tail has moved.                                      *)
LEMMA RingMoved ==
  ASSUME RingInv, IndexOK, HeadersOK, headers # << >>, UNCHANGED entries,
         NEW n \in Int, MoveTail(n)
  PROVE  /\ headers' # << >>
         /\ Len(entries') = Capacity(blockIndex')
         /\ Capacity(blockIndex') = Capacity(blockIndex)
         /\ \A g \in DOMAIN headers' : /\ RingOK(headers'[g]) /\ Agree(headers'[g], blockIndex')
                                       /\ Divides(Capacity(headers'[g]), Capacity(blockIndex'))
         /\ \A g \in DOMAIN headers' : g # Len(headers') =>
               Keyed(Entry(headers[g], headers[g].tail))'
         /\ \A z \in Int : Entry(blockIndex', blockIndex'.tail + z)
                             = Entry(blockIndex, (blockIndex.tail + n) + z)
  <1>1. /\ Len(headers') = Len(headers) /\ DOMAIN headers' = DOMAIN headers
        /\ \A g \in DOMAIN headers : headers'[g].index = headers[g].index
        /\ \A g \in DOMAIN headers : g # Len(headers) => headers'[g] = headers[g]
        /\ blockIndex'.tail = (blockIndex.tail + n) % Capacity(blockIndex)
        /\ blockIndex'.index = blockIndex.index
    BY MoveTailIs
  <1>2. headers' # << >>
    BY <1>1, BlockIndexIs
  <1>3. /\ Capacity(blockIndex') = Capacity(blockIndex)
        /\ \A x : Entry(blockIndex', x) = Entry(blockIndex, x)
        /\ \A g \in DOMAIN headers : Capacity(headers'[g]) = Capacity(headers[g])
        /\ \A g \in DOMAIN headers : \A x : Entry(headers'[g], x) = Entry(headers[g], x)
    BY <1>1 DEF Capacity, Entry
  <1>4. \A g \in DOMAIN headers' : /\ RingOK(headers'[g]) /\ Agree(headers'[g], blockIndex')
                                   /\ Divides(Capacity(headers'[g]), Capacity(blockIndex'))
    <2> SUFFICES ASSUME NEW g \in DOMAIN headers
                 PROVE  /\ RingOK(headers'[g]) /\ Agree(headers'[g], blockIndex')
                        /\ Divides(Capacity(headers'[g]), Capacity(blockIndex'))
      BY <1>1
    <2>1. RingOK(headers[g]) /\ Agree(headers[g], blockIndex)
          /\ Divides(Capacity(headers[g]), Capacity(blockIndex))
      BY DEF RingInv
    <2>2. RingOK(headers'[g])
      BY <1>1, <1>3, <2>1 DEF RingOK
    <2>3. Agree(headers'[g], blockIndex')
      BY <1>3, <2>1 DEF Agree
    <2> QED
      BY <1>3, <2>1, <2>2, <2>3
  <1>5. \A g \in DOMAIN headers' : g # Len(headers') =>
          Keyed(Entry(headers[g], headers[g].tail))'
    <2> SUFFICES ASSUME NEW g \in DOMAIN headers, g # Len(headers)
                 PROVE  Keyed(Entry(headers[g], headers[g].tail))'
      BY <1>1
    <2>1. Keyed(Entry(headers[g], headers[g].tail))
      BY DEF RingInv
    <2>2. headers'[g] = headers[g]
      BY <1>1
    <2> QED
      BY <2>1, <2>2 DEF Keyed, Key
  <1>6. ASSUME NEW z \in Int
        PROVE  Entry(blockIndex', blockIndex'.tail + z) = Entry(blockIndex, (blockIndex.tail + n) + z)
    <2>1. Capacity(blockIndex) \in Nat \ {0} /\ blockIndex.tail \in Nat
      BY BlockIndexIs
    <2>2. blockIndex.tail + n \in Int
      BY <2>1
    <2>3. Entry(blockIndex, blockIndex'.tail + z) = Entry(blockIndex, (blockIndex.tail + n) + z)
      BY ZenonT(40), <1>1, <2>1, <2>2, EntryShift
    <2> QED
      BY <1>3, <2>3
  <1>7. Len(entries') = Capacity(blockIndex')
    BY <1>3 DEF RingInv
  <1> QED
    BY <1>2, <1>3, <1>4, <1>5, <1>6, <1>7

(* The tail goes to the entry with the next key. *)
LEMMA AdvanceRing ==
  ASSUME Outline, IndexInv, AdvanceTail
  PROVE  IndexInv'
  <1>0. /\ ProducerOK /\ CountersOK /\ IndexOK /\ HeadersOK /\ RingInv /\ EntryInv
        /\ ProducerInv /\ tailIndex \in Nat /\ BlockSize \in Nat \ {0}
    BY QueueAssumption DEF Outline, Types, CountersOK, IndexInv
  <1>1. /\ Goes("advance", "requisition", producer.tail, producer.entry, producer.block)
        /\ MoveTail(1)
        /\ UNCHANGED <<listed, hashed, counters, entries, memory, tailBlock>>
    BY <1>0, AdvanceTailIs
  <1> DEFINE n == Capacity(blockIndex)
             t == blockIndex.tail
  <1>2. /\ headers # << >> /\ Beginning /\ AtBlockStart(tailIndex) /\ entries' = entries
        /\ tailIndex' = tailIndex
    BY <1>0, <1>1 DEF ProducerInv, Busy, Goes, Beginning, Inserting, counters
  <1>3. n \in Nat \ {0, 1} /\ t \in Nat
    BY <1>0, <1>2, BlockIndexIs
  <1>4. /\ headers' # << >> /\ Len(entries') = Capacity(blockIndex')
        /\ Capacity(blockIndex') = Capacity(blockIndex)
        /\ \A g \in DOMAIN headers' : /\ RingOK(headers'[g]) /\ Agree(headers'[g], blockIndex')
                                      /\ Divides(Capacity(headers'[g]), Capacity(blockIndex'))
        /\ \A g \in DOMAIN headers' : g # Len(headers') =>
               Keyed(Entry(headers[g], headers[g].tail))'
        /\ \A z \in Int : Entry(blockIndex', blockIndex'.tail + z) = Entry(blockIndex, (t + 1) + z)
    BY <1>0, <1>1, <1>2, RingMoved
  <1>5. Top = tailIndex - BlockSize /\ Top' = tailIndex
    <2>1. Top' = tailIndex
      BY <1>1, <1>2 DEF Top, Busy, Goes
    <2> QED
      BY <1>0, <1>2, <2>1, TopIs
  <1> DEFINE d == producer.entry
  <1>6. d = Entry(blockIndex, t + 1) /\ Key(d) = tailIndex /\ d \in DOMAIN entries /\ ~Links(d)
        /\ Keyed(d)
    <2>1. d = Entry(blockIndex, t + 1) /\ Key(d) = tailIndex /\ d \in DOMAIN entries /\ ~Links(d)
      BY <1>0, <1>1 DEF EntryInv, Busy, Goes, Inserting, NextEntry
    <2> QED
      BY <1>0, <1>2, <2>1, BlocksFollow DEF Keyed
  <1>7. Entry(blockIndex', blockIndex'.tail) = d
        /\ Entry(blockIndex', blockIndex'.tail - 1) = Entry(blockIndex, t)
    <2>1. Entry(blockIndex', blockIndex'.tail + 0) = Entry(blockIndex, (t + 1) + 0)
          /\ Entry(blockIndex', blockIndex'.tail + (-1)) = Entry(blockIndex, (t + 1) + (-1))
      BY <1>4
    <2>2. (t + 1) + 0 = t + 1 /\ (t + 1) + (-1) = t
      BY <1>3
    <2>3. blockIndex'.tail + 0 = blockIndex'.tail /\ blockIndex'.tail + (-1) = blockIndex'.tail - 1
      <3>1. blockIndex'.tail = (t + 1) % n
        BY <1>0, <1>1, <1>2, MoveTailIs
      <3>2. t + 1 \in Int /\ n \in Nat \ {0}
        BY <1>3
      <3> HIDE DEF t, n
      <3>3. blockIndex'.tail \in Int
        BY <3>1, <3>2
      <3> QED
        BY <3>3
    <2> QED
      BY <1>6, <2>1, <2>2, <2>3
  <1>8. ASSUME NEW e \in DOMAIN entries', Keyed(e)'
        PROVE  \E y \in 1 - Capacity(blockIndex') .. 1 : KeyAt(e, y)'
    <2>1. Keyed(e) /\ e \in DOMAIN entries
      BY <1>2, <1>8 DEF Keyed, Key
    <2>2. PICK y \in 1 - n .. 1 : KeyAt(e, y)
      BY <1>0, <1>2, <2>1 DEF RingInv
    <2>3. e = Entry(blockIndex, t + y) /\ Key(e) = Top + y * BlockSize /\ y \in Int
      BY <1>3, <2>2 DEF KeyAt
    <2>4. y # 1 - n
      <3> SUFFICES ASSUME y = 1 - n PROVE FALSE
        OBVIOUS
      <3>1. t + 1 = (t + y) + 1 * n /\ t + 1 \in Int /\ t + y \in Int
        BY <1>3
      <3>2. Entry(blockIndex, t + 1) = Entry(blockIndex, t + y)
        BY <1>3, <3>1, EntryCongruent
      <3>3. e = d /\ Key(e) = tailIndex
        BY <1>6, <2>3, <3>2
      <3>4. tailIndex = (tailIndex - BlockSize) + y * BlockSize
        BY <1>5, <2>3, <3>3
      <3> DEFINE w == 1 - y
      <3>5. w \in Nat \ {0}
        BY <1>3
      <3>6. w * BlockSize = 0
        BY <1>0, <2>3, <3>4
      <3> HIDE DEF w
      <3> QED
        BY <1>0, <3>5, <3>6
    <2> DEFINE z == y - 1
    <2>5. z \in 1 - n .. 1 /\ z # 1 /\ z \in Int
      BY <1>3, <2>2, <2>3, <2>4
    <2>6. (t + 1) + z = t + y
      BY <1>3, <2>3
    <2>7. Entry(blockIndex', blockIndex'.tail + z) = e
      BY <1>4, <2>3, <2>5, <2>6
    <2>8. Key(e)' = Top' + z * BlockSize
      <3>1. Key(e)' = Key(e)
        BY <1>2 DEF Key
      <3>2. tailIndex + z * BlockSize = (tailIndex - BlockSize) + y * BlockSize
        BY <1>0, <2>3
      <3> QED
        BY <1>5, <2>3, <3>1, <3>2
    <2> HIDE DEF z
    <2>9. KeyAt(e, z)'
      BY <2>5, <2>7, <2>8 DEF KeyAt
    <2> QED
      BY <1>4, <2>5, <2>9
  <1>9. Keyed(d)' /\ d \in DOMAIN entries' /\ Key(d)' = tailIndex' /\ ~Links(d)'
    <2>1. producer'.entry = producer.entry
      BY <1>1 DEF Goes
    <2> QED
      BY <1>2, <1>6, <2>1 DEF Keyed, Key, Links
  <1>10. Top' >= 0 => Keyed(Entry(blockIndex, blockIndex.tail))'
    <2>1. producer'.entry = producer.entry
      BY <1>1 DEF Goes
    <2> QED
      BY <1>7, <1>9, <2>1 DEF Keyed, Key
  <1>11. tailIndex' > 0 => Keyed(Entry(blockIndex, blockIndex.tail - 1))'
    <2> HAVE tailIndex' > 0
    <2>1. Top >= 0
      <3>1. AtBlockStart(0) /\ 0 < tailIndex
        BY <1>0, <1>2, ZeroStarts
      <3>2. 0 + BlockSize <= tailIndex
        BY <1>0, <1>2, <3>1, BlocksFollow
      <3> QED
        BY <1>0, <1>5, <3>2
    <2>2. Keyed(Entry(blockIndex, t))
      BY <1>0, <1>2, <2>1 DEF RingInv
    <2> QED
      BY <1>2, <1>7, <2>2 DEF Keyed, Key
  <1>12. \A e \in DOMAIN entries' : Links(e)' => Keyed(e)'
    BY <1>0, <1>2 DEF RingInv, Links, Keyed, Key
  <1>13. RingInv'
    BY <1>4, <1>8, <1>10, <1>11, <1>12 DEF RingInv
  <1>14. EntryInv'
    <2>1. producer'.pc = "requisition" /\ producer'.entry = d
      BY <1>1 DEF Goes
    <2>2. \A e \in DOMAIN entries' : (Keyed(e)' /\ entries'[e].value = Junk) => e = producer'.entry
      BY <1>0, <1>1, <1>2 DEF EntryInv, Goes, Keyed, Key
    <2> QED
      BY <1>7, <1>9, <2>1, <2>2 DEF EntryInv, Busy, Inserting
  <1> QED
    BY <1>13, <1>14 DEF IndexInv

(* The tail goes back from an entry that got no block.                     *)
LEMMA RewindRing ==
  ASSUME Outline, IndexInv, RewindTail
  PROVE  IndexInv'
  <1>0. /\ ProducerOK /\ CountersOK /\ IndexOK /\ HeadersOK /\ RingInv /\ EntryInv
        /\ ProducerInv /\ tailIndex \in Nat /\ BlockSize \in Nat \ {0}
    BY QueueAssumption DEF Outline, Types, CountersOK, IndexInv
  <1>1. /\ Goes("rewind", "retract", producer.tail, producer.entry, producer.block)
        /\ MoveTail(-1)
        /\ UNCHANGED <<listed, hashed, counters, entries, memory, tailBlock>>
    BY <1>0, RewindTailIs
  <1> DEFINE n == Capacity(blockIndex)
             t == blockIndex.tail
  <1>2. /\ headers # << >> /\ AtBlockStart(tailIndex) /\ entries' = entries
        /\ tailIndex' = tailIndex /\ -1 \in Int /\ Busy({"rewind"})
    BY <1>0, <1>1 DEF ProducerInv, Busy, Goes, Inserting, counters
  <1>3. n \in Nat \ {0, 1} /\ t \in Nat
    BY <1>0, <1>2, BlockIndexIs
  <1>4. /\ headers' # << >> /\ Len(entries') = Capacity(blockIndex')
        /\ Capacity(blockIndex') = Capacity(blockIndex)
        /\ \A g \in DOMAIN headers' : /\ RingOK(headers'[g]) /\ Agree(headers'[g], blockIndex')
                                      /\ Divides(Capacity(headers'[g]), Capacity(blockIndex'))
        /\ \A g \in DOMAIN headers' : g # Len(headers') =>
               Keyed(Entry(headers[g], headers[g].tail))'
        /\ \A z \in Int : Entry(blockIndex', blockIndex'.tail + z)
                             = Entry(blockIndex, (t + (-1)) + z)
    BY <1>0, <1>1, <1>2, RingMoved
  <1>5. Top = tailIndex /\ Top' = tailIndex - BlockSize
    <2>1. Top = tailIndex /\ Top' = Base(tailIndex' - 1)
      BY <1>1, <1>2 DEF Top, Latest, Busy, Goes
    <2>2. tailIndex \in Int
      BY <1>0
    <2> QED
      BY <1>2, <2>1, <2>2, BaseBefore
  <1> DEFINE d == producer.entry
  <1>6. /\ d = Entry(blockIndex, t) /\ Key(d) = tailIndex /\ d \in DOMAIN entries /\ ~Links(d)
        /\ Keyed(d) /\ d' = d
    <2>1. /\ d = Entry(blockIndex, t) /\ Key(d) = tailIndex /\ d \in DOMAIN entries /\ ~Links(d)
          /\ d' = d
      BY <1>0, <1>1 DEF EntryInv, Busy, Goes, Inserting
    <2> QED
      BY <1>0, <1>2, <2>1, BlocksFollow DEF Keyed
  <1>7. /\ Entry(blockIndex', blockIndex'.tail) = Entry(blockIndex, t - 1)
        /\ Entry(blockIndex', blockIndex'.tail + 1) = d
    <2>1. Entry(blockIndex', blockIndex'.tail + 0) = Entry(blockIndex, (t + (-1)) + 0)
          /\ Entry(blockIndex', blockIndex'.tail + 1) = Entry(blockIndex, (t + (-1)) + 1)
      BY <1>4
    <2>2. (t + (-1)) + 0 = t - 1 /\ (t + (-1)) + 1 = t
      BY <1>3
    <2>3. blockIndex'.tail + 0 = blockIndex'.tail
      <3>1. blockIndex'.tail = (t + (-1)) % n
        BY <1>0, <1>1, <1>2, MoveTailIs
      <3>2. t + (-1) \in Int /\ n \in Nat \ {0}
        BY <1>3
      <3> HIDE DEF t, n
      <3>3. blockIndex'.tail \in Int
        BY <3>1, <3>2
      <3> QED
        BY <3>3
    <2> QED
      BY <1>6, <2>1, <2>2, <2>3
  <1>8. ASSUME NEW e \in DOMAIN entries', Keyed(e)'
        PROVE  \E y \in 1 - Capacity(blockIndex') .. 1 : KeyAt(e, y)'
    <2>1. Keyed(e) /\ e \in DOMAIN entries
      BY <1>2, <1>8 DEF Keyed, Key
    <2>2. PICK y \in 1 - n .. 1 : KeyAt(e, y)
      BY <1>0, <1>2, <2>1 DEF RingInv
    <2>3. /\ e = Entry(blockIndex, t + y) /\ Key(e) = Top + y * BlockSize /\ y \in Int
          /\ y # 1
      BY <1>2, <1>3, <2>2 DEF KeyAt, Busy
    <2> DEFINE z == y + 1
    <2>5. z \in 1 - n .. 1 /\ z \in Int /\ (t + (-1)) + z = t + y
      BY <1>3, <2>2, <2>3
    <2>7. Entry(blockIndex', blockIndex'.tail + z) = e
      BY <1>4, <2>3, <2>5
    <2>8. Key(e)' = Top' + z * BlockSize
      <3>1. Key(e)' = Key(e)
        BY <1>2 DEF Key
      <3>2. (tailIndex - BlockSize) + z * BlockSize = tailIndex + y * BlockSize
        BY <1>0, <2>3
      <3> QED
        BY <1>5, <2>3, <3>1, <3>2
    <2>9. z = 1 => e = d
      <3> HAVE z = 1
      <3>1. y = 0 /\ t + y = t
        BY <1>3, <2>3
      <3> QED
        BY <1>6, <2>3, <3>1
    <2>10. z = 1 => /\ AtBlockStart(tailIndex)' /\ ~Links(e)'
                    /\ ~Busy({"requisition", "publish", "rewind", "write", "store"})'
      BY <1>1, <1>2, <1>6, <2>9 DEF Busy, Goes, Links
    <2> HIDE DEF z
    <2>11. KeyAt(e, z)'
      BY <2>7, <2>8, <2>10 DEF KeyAt
    <2> QED
      BY <1>4, <2>5, <2>11
  <1>9. Keyed(d)' /\ d \in DOMAIN entries' /\ Key(d)' = tailIndex' /\ ~Links(d)'
    BY <1>2, <1>6 DEF Keyed, Key, Links
  <1>10. Top' >= 0 => Keyed(Entry(blockIndex, blockIndex.tail))'
    <2> HAVE Top' >= 0
    <2>1. tailIndex > 0
      BY <1>0, <1>5
    <2>2. Keyed(Entry(blockIndex, t - 1))
      BY <1>0, <1>2, <2>1 DEF RingInv, Busy
    <2> QED
      BY <1>2, <1>7, <2>2 DEF Keyed, Key
  <1>12. \A e \in DOMAIN entries' : Links(e)' => Keyed(e)'
    BY <1>0, <1>2 DEF RingInv, Links, Keyed, Key
  <1>13. RingInv'
    <2>1. ~Busy({"requisition", "rewind"})'
      BY <1>1 DEF Busy, Goes
    <2> QED
      BY <1>4, <1>8, <1>10, <1>12, <2>1 DEF RingInv
  <1>14. EntryInv'
    <2>1. producer'.pc = "retract" /\ producer'.entry = d
      BY <1>1 DEF Goes
    <2>2. \A e \in DOMAIN entries' : (Keyed(e)' /\ entries'[e].value = Junk) => e = producer'.entry
      BY <1>0, <1>1, <1>2 DEF EntryInv, Goes, Keyed, Key
    <2>3. NextEntry' = d
      BY <1>7 DEF NextEntry
    <2> QED
      BY <1>6, <1>9, <2>1, <2>2, <2>3 DEF EntryInv, Busy, Inserting
  <1> QED
    BY <1>13, <1>14 DEF IndexInv

(* The first index.                                                        *)
LEMMA FirstRing ==
  ASSUME Outline, IndexInv, CreateProducer
  PROVE  IndexInv'
  <1>0. /\ ProducerOK /\ CountersOK /\ IndexOK /\ HeadersOK /\ HeldOK /\ RingInv /\ EntryInv
        /\ ProducerInv /\ BlockSize \in Nat \ {0} /\ InitialIndexSize \in Nat \ {0, 1}
    BY QueueAssumption DEF Outline, Types, IndexInv
  <1>1. /\ Goes("create", "hash", producer.tail, producer.entry, producer.block)
        /\ UNCHANGED <<hashed, counters, memory, tailBlock>>
    BY <1>0, CreateProducerIs
  <1>2. headers = << >> /\ entries = << >> /\ tailIndex = 0 /\ tailIndex' = 0
    BY <1>0, <1>1 DEF ProducerInv, Busy, Goes, counters
  <1>3. ~Busy(Inserting)' /\ ~Busy({"requisition", "publish", "rewind", "write", "store"})'
        /\ ~Busy({"grown"})'
    BY <1>1 DEF Busy, Goes, Inserting
  <1>4. CASE UNCHANGED index
    <2>1. headers' = << >> /\ entries' = << >>
      BY <1>2, <1>4 DEF index
    <2> QED
      BY <1>3, <2>1 DEF IndexInv, RingInv, EntryInv, Busy, Inserting
  <1>5. CASE /\ entries' = [e \in 1 .. InitialIndexSize |-> FreshEntry]
             /\ headers' = <<[tail |-> InitialIndexSize - 1,
                              index |-> [s \in 1 .. InitialIndexSize |-> s]]>>
    <2> DEFINE n == InitialIndexSize
               h == headers'[1]
    <2>1. /\ headers' # << >> /\ Len(headers') = 1 /\ Capacity(h) = n
          /\ DOMAIN headers' = {1} /\ blockIndex' = h
          /\ DOMAIN entries' = 1 .. n /\ Len(entries') = n
      <3>0. UNCHANGED c
        BY <1>1 DEF Goes
      <3>1. headers' # << >> /\ Len(headers') = 1 /\ Capacity(h) = n
        BY <1>0, <1>2, <1>5, <3>0, FirstIndex
      <3>2. DOMAIN headers' = {1} /\ blockIndex' = h
        BY <1>5, <3>1 DEF blockIndex
      <3>3. DOMAIN entries' = 1 .. n /\ Len(entries') = n
        BY <1>0, <1>5
      <3> QED
        BY <3>1, <3>2, <3>3
    <2>2. \A s \in 1 .. n : h.index[s] = s
      BY <1>5
    <2> HIDE DEF h
    <2>3. RingOK(h)
      BY <1>0, <2>1, <2>2 DEF RingOK
    <2>4. Agree(h, h)
      <3>1. \A x \in Int : Entry(h, x + 0) = Entry(h, x)
        <4> TAKE x \in Int
        <4>1. x + 0 = x
          OBVIOUS
        <4> QED
          BY <4>1
      <3> QED
        BY <3>1 DEF Agree
    <2>5. Divides(n, n)
      <3>1. n = 1 * n
        BY <1>0
      <3> QED
        BY <3>1 DEF Divides
    <2>6. \A e \in DOMAIN entries' : ~Keyed(e)' /\ ~Links(e)'
      BY <1>5, <2>1, BlocksAre DEF Keyed, Key, Links, FreshEntry, InvalidKey
    <2>7. Top' < 0
      <3>1. Top' = Base(tailIndex' - 1)
        BY <1>3 DEF Top, Latest, Busy
      <3>2. Base(0 - 1) = 0 - BlockSize
        BY ZeroStarts, BaseBefore
      <3> QED
        BY <1>0, <1>2, <3>1, <3>2
    <2>8. RingInv'
      <3>1. /\ Len(entries') = Capacity(blockIndex')
            /\ \A g \in DOMAIN headers' : /\ RingOK(headers'[g]) /\ Agree(headers'[g], blockIndex')
                                          /\ Divides(Capacity(headers'[g]), Capacity(blockIndex'))
            /\ \A g \in DOMAIN headers' : g = Len(headers')
        BY <2>1, <2>3, <2>4, <2>5 DEF h
      <3>2. ~(Top' >= 0)
        <4>1. Top' = Base(tailIndex' - 1) /\ Base(0 - 1) \in Int
          BY <1>3, BaseIs DEF Top, Latest, Busy
        <4> QED
          BY <1>2, <2>7, <4>1
      <3>3. ~Busy({"requisition", "rewind"})'
        BY <1>3 DEF Busy
      <3> QED
        BY <2>6, <3>1, <3>2, <3>3 DEF RingInv
    <2>9. EntryInv'
      BY <1>3, <2>6 DEF EntryInv, Busy, Inserting
    <2> QED
      BY <2>8, <2>9 DEF IndexInv
  <1> QED
    BY <1>0, <1>4, <1>5, CreateProducerIs

(* Slots that are less than the capacity apart show different entries.     *)
LEMMA NearEntries ==
  ASSUME NEW h, RingOK(h), NEW x \in Int, NEW y \in Int,
         x - y < Capacity(h), y - x < Capacity(h), Entry(h, x) = Entry(h, y)
  PROVE  x = y
  <1> DEFINE m == Capacity(h)
  <1>1. m \in Nat \ {0}
    BY DEF RingOK
  <1>2. PICK q \in Int : x = y + q * m
    BY EntryIs
  <1> HIDE DEF m
  <1>3. q * m < m /\ (-q) * m < m
    BY <1>1, <1>2 DEF m
  <1>4. ~(q >= 1) /\ ~(-q >= 1)
    <2>1. \A d \in Int : d >= 1 => d * m >= m
      BY <1>1
    <2>2. q \in Int /\ -q \in Int /\ q * m \in Int /\ (-q) * m \in Int
      BY <1>1, <1>2
    <2> QED
      BY <1>1, <1>3, <2>1, <2>2
  <1>5. q = 0
    BY <1>2, <1>4
  <1> QED
    BY <1>1, <1>2, <1>5

(* What the larger ring shows: the entries of the old one, the oldest      *)
(* first, and then the new ones.                                           *)
Doubled(g, h, t, n) ==
    /\ n \in Nat \ {0, 1} /\ RingOK(h) /\ Capacity(h) = n /\ t \in Nat
    /\ Capacity(g) = 2 * n
    /\ \A s \in 1 .. n : g.index[s] = Entry(h, t + s)
    /\ \A s \in n + 1 .. 2 * n : g.index[s] = s

(* The doubled ring goes over the old entries in their order, and over the *)
(* new.                                                                    *)
LEMMA LargerRing ==
  ASSUME NEW g, NEW h, NEW t, NEW n, Doubled(g, h, t, n)
  PROVE  /\ RingOK(g) /\ Agree(g, g) /\ Divides(2 * n, 2 * n)
         /\ \A y \in 1 - n .. 0 : Entry(g, (n - 1) + y) = Entry(h, t + y)
         /\ Entry(g, (n - 1) + 1) = n + 1
         /\ \A f : (Agree(f, h) /\ RingOK(f) /\ Divides(Capacity(f), n)) =>
                      Agree(f, g) /\ Divides(Capacity(f), 2 * n)
  <1>0. /\ n \in Nat \ {0, 1} /\ RingOK(h) /\ Capacity(h) = n /\ t \in Nat /\ Capacity(g) = 2 * n
        /\ 2 * n \in Nat \ {0, 1} /\ n \in Int /\ t \in Int
    BY DEF Doubled
  <1>1. \A s \in 1 .. n : g.index[s] = Entry(h, t + s) /\ Entry(h, t + s) \in 1 .. n
    <2> TAKE s \in 1 .. n
    <2>1. t + s \in Int
      BY <1>0
    <2> QED
      BY <1>0, <2>1, EntryIs DEF Doubled
  <1>2. \A s \in n + 1 .. 2 * n : g.index[s] = s
    BY DEF Doubled
  <1>3. RingOK(g)
    <2>1. \A s \in 1 .. 2 * n : g.index[s] \in 1 .. 2 * n
      <3> TAKE s \in 1 .. 2 * n
      <3>1. CASE s <= n
        <4>1. g.index[s] \in 1 .. n
          BY <1>0, <1>1, <3>1
        <4> QED
          BY <1>0, <4>1
      <3>2. CASE ~(s <= n)
        <4>1. s \in n + 1 .. 2 * n
          BY <1>0, <3>2
        <4> QED
          BY <1>2, <4>1
      <3> QED
        BY <3>1, <3>2
    <2>2. ASSUME NEW s \in 1 .. 2 * n, NEW u \in 1 .. 2 * n, g.index[s] = g.index[u]
          PROVE  s = u
      <3>1. CASE s <= n /\ u <= n
        <4>1. s \in 1 .. n /\ u \in 1 .. n
          BY <1>0, <3>1
        <4>2. Entry(h, t + s) = Entry(h, t + u)
          BY <1>1, <2>2, <4>1
        <4>3. /\ t + s \in Int /\ t + u \in Int /\ (t + s) - (t + u) < n /\ (t + u) - (t + s) < n
          BY <1>0, <4>1
        <4>4. t + s = t + u
          BY <1>0, <4>2, <4>3, NearEntries
        <4> QED
          BY <1>0, <4>1, <4>4
      <3>2. CASE ~(s <= n) /\ ~(u <= n)
        <4>1. s \in n + 1 .. 2 * n /\ u \in n + 1 .. 2 * n
          BY <1>0, <3>2
        <4> QED
          BY <1>2, <2>2, <4>1
      <3>3. CASE s <= n /\ ~(u <= n)
        <4>1. s \in 1 .. n /\ u \in n + 1 .. 2 * n
          BY <1>0, <3>3
        <4>2. g.index[s] \in 1 .. n /\ g.index[u] = u
          BY <1>1, <1>2, <4>1
        <4> QED
          BY <1>0, <2>2, <4>1, <4>2
      <3>4. CASE ~(s <= n) /\ u <= n
        <4>1. u \in 1 .. n /\ s \in n + 1 .. 2 * n
          BY <1>0, <3>4
        <4>2. g.index[u] \in 1 .. n /\ g.index[s] = s
          BY <1>1, <1>2, <4>1
        <4> QED
          BY <1>0, <2>2, <4>1, <4>2
      <3> QED
        BY <3>1, <3>2, <3>3, <3>4
    <2> QED
      BY <1>0, <2>1, <2>2 DEF RingOK
  <1>4. Agree(g, g) /\ Divides(2 * n, 2 * n)
    <2>1. \A x \in Int : Entry(g, x + 0) = Entry(g, x)
      <3> TAKE x \in Int
      <3>1. x + 0 = x
        OBVIOUS
      <3> QED
        BY <3>1
    <2>2. 2 * n = 1 * (2 * n)
      BY <1>0
    <2> QED
      BY <2>1, <2>2 DEF Agree, Divides
  <1>5. ASSUME NEW r \in 0 .. 2 * n - 1
        PROVE  /\ Entry(g, r) = g.index[r + 1]
               /\ r < n => Entry(g, r) = Entry(h, t + (r + 1))
               /\ r >= n => Entry(g, r) = r + 1
    <2>1. r % (2 * n) = r
      <3> DEFINE m == 2 * n
      <3>1. m \in Nat \ {0} /\ r \in 0 .. m - 1
        BY <1>0
      <3> HIDE DEF m
      <3>2. r % m = r
        BY <3>1
      <3> QED
        BY <3>2 DEF m
    <2>2. Entry(g, r) = g.index[r + 1]
      BY <1>0, <2>1 DEF Entry
    <2>3. r < n => r + 1 \in 1 .. n
      BY <1>0
    <2>4. r >= n => r + 1 \in n + 1 .. 2 * n
      BY <1>0
    <2> QED
      BY <1>1, <1>2, <2>2, <2>3, <2>4
  <1>6. ASSUME NEW y \in 1 - n .. 0
        PROVE  Entry(g, (n - 1) + y) = Entry(h, t + y)
    <2> DEFINE r == (n - 1) + y
    <2>1. r \in 0 .. 2 * n - 1 /\ r < n /\ r + 1 = n + y
      BY <1>0
    <2>2. Entry(g, r) = Entry(h, t + (r + 1))
      BY <1>5, <2>1
    <2>3. t + (r + 1) = (t + y) + 1 * n /\ t + (r + 1) \in Int /\ t + y \in Int
      BY <1>0, <2>1
    <2> HIDE DEF r
    <2> DEFINE a == t + (r + 1)
               b == t + y
    <2>5. a = b + 1 * Capacity(h) /\ a \in Int /\ b \in Int /\ Capacity(h) \in Nat \ {0}
      BY <1>0, <2>3
    <2> HIDE DEF a, b
    <2>6. Entry(h, a) = Entry(h, b)
      BY <2>5, EntryCongruent
    <2>4. Entry(h, t + (r + 1)) = Entry(h, t + y)
      BY <2>6 DEF a, b
    <2> QED
      BY <2>2, <2>4 DEF r
  <1>7. Entry(g, (n - 1) + 1) = n + 1
    <2>1. n \in 0 .. 2 * n - 1 /\ n >= n /\ (n - 1) + 1 = n
      BY <1>0
    <2> QED
      BY <1>5, <2>1
  <1>8. ASSUME NEW f, Agree(f, h), RingOK(f), Divides(Capacity(f), n)
        PROVE  Agree(f, g) /\ Divides(Capacity(f), 2 * n)
    <2> DEFINE m == Capacity(f)
    <2>1. m \in Nat \ {0}
      BY <1>8 DEF RingOK
    <2>2. PICK d \in Nat : n = d * m
      BY <1>8 DEF Divides
    <2>3. PICK v \in Int : \A x \in Int : Entry(h, x) <= m => Entry(f, x + v) = Entry(h, x)
      BY <1>8 DEF Agree
    <2> HIDE DEF m
    <2>4. Divides(m, 2 * n)
      <3>1. 2 * n = (2 * d) * m /\ 2 * d \in Nat
        BY <2>1, <2>2
      <3> QED
        BY <3>1 DEF Divides
    <2>5. m <= n
      <3>1. d # 0
        BY <1>0, <2>1, <2>2
      <3> QED
        BY <2>1, <2>2, <3>1
    <2> DEFINE w == (t + 1) + v
    <2>6. w \in Int
      BY <1>0
    <2>7. ASSUME NEW x \in Int, Entry(g, x) <= m
          PROVE  Entry(f, x + w) = Entry(g, x)
      <3> DEFINE l == 2 * n
      <3>0. l \in Nat \ {0} /\ l = Capacity(g)
        BY <1>0
      <3> HIDE DEF l
      <3>13. \E q \in Int : \E r \in 0 .. l - 1 : x = q * l + r
        BY ZenonT(40), <3>0, Quotient
      <3>1. PICK q \in Int : \E r \in 0 .. 2 * n - 1 : x = q * (2 * n) + r
        BY <3>13 DEF l
      <3>2. PICK r \in 0 .. 2 * n - 1 : x = q * (2 * n) + r
        BY <3>1
      <3> DEFINE p == q * (2 * n)
      <3>3. p \in Int /\ x = p + r /\ x = r + p /\ r \in Int
        BY <1>0, <3>2
      <3> HIDE DEF p
      <3>14. x = r + q * Capacity(g) /\ Capacity(g) \in Nat \ {0} /\ r \in Int
        BY <1>0, <3>3 DEF p
      <3>4. Entry(g, x) = Entry(g, r)
        BY <3>14, EntryCongruent
      <3>5. r < n
        <4> SUFFICES ASSUME ~(r < n) PROVE FALSE
          OBVIOUS
        <4>1. Entry(g, r) = r + 1
          BY <1>0, <1>5, <3>3
        <4> QED
          BY <1>0, <2>1, <2>5, <2>7, <3>3, <3>4, <4>1
      <3>6. Entry(g, r) = Entry(h, t + (r + 1))
        BY <1>5, <3>5
      <3>7. t + (r + 1) \in Int
        BY <1>0, <3>3
      <3>8. Entry(f, (t + (r + 1)) + v) = Entry(g, x)
        BY <2>3, <2>7, <3>4, <3>6, <3>7
      <3>9. x + w = ((t + (r + 1)) + v) + p /\ x + w \in Int /\ (t + (r + 1)) + v \in Int
        BY <1>0, <3>3
      <3>10. p = (q * (2 * d)) * m /\ q * (2 * d) \in Int
        BY <2>1, <2>2, <3>2 DEF p
      <3> DEFINE a == x + w
                 b == (t + (r + 1)) + v
                 k == q * (2 * d)
      <3>11. a \in Int /\ b \in Int /\ k \in Int /\ a = b + k * m
        BY <3>9, <3>10
      <3> HIDE DEF a, b, k
      <3>12. Entry(f, a) = Entry(f, b)
        BY <2>1, <3>11, EntryCongruent DEF m
      <3> QED
        BY <3>8, <3>12 DEF a, b
    <2> HIDE DEF w
    <2>8. Agree(f, g)
      BY <2>6, <2>7 DEF Agree, m
    <2> QED
      BY <2>4, <2>8 DEF m
  <1> QED
    BY <1>3, <1>4, <1>6, <1>7, <1>8

(* A slot that is not free leads to a block: the index is full of links.   *)
LEMMA FullRing ==
  ASSUME Outline, IndexInv, headers # << >>, ~SlotIsFree, ~Busy(Inserting)
  PROVE  Links(NextEntry) /\ Top >= 0
  <1>0. /\ CountersOK /\ IndexOK /\ HeadersOK /\ RingInv /\ EntryInv /\ BlockSize \in Nat \ {0}
        /\ NextEntry \in DOMAIN entries /\ Capacity(blockIndex) \in Nat \ {0, 1}
    BY QueueAssumption, BlockIndexIs DEF Outline, Types, IndexInv
  <1>1. Keyed(NextEntry) /\ entries[NextEntry].value # NoBlock
    BY DEF SlotIsFree, Keyed, Key
  <1>2. entries[NextEntry].value \in Blocks \cup {NoBlock, Junk} /\ Key(NextEntry) \in Nat
    BY <1>0, EntriesAre
  <1>3. Links(NextEntry)
    BY <1>0, <1>1, <1>2 DEF EntryInv, Links
  <1>4. PICK y \in 1 - Capacity(blockIndex) .. 1 : KeyAt(NextEntry, y)
    BY <1>0, <1>1 DEF RingInv
  <1>5. y # 1 /\ y \in Int /\ y <= 0
    BY <1>0, <1>3, <1>4 DEF KeyAt
  <1>6. Key(NextEntry) = Top + y * BlockSize /\ Top \in Int
    BY <1>0, <1>4, TopIs DEF KeyAt
  <1> DEFINE w == -y
  <1>7. w \in Nat /\ Top = Key(NextEntry) + w * BlockSize
    BY <1>0, <1>2, <1>5, <1>6
  <1> HIDE DEF w
  <1>8. w * BlockSize \in Nat
    BY <1>0, <1>7
  <1> QED
    BY <1>2, <1>3, <1>7, <1>8

(* Doubling the index keeps it in order. *)
LEMMA LargerStep ==
  ASSUME Outline, IndexInv, NewBlockIndex
  PROVE  IndexInv'
  <1>0. /\ ProducerOK /\ CountersOK /\ IndexOK /\ HeadersOK /\ HeldOK /\ RingInv /\ EntryInv
        /\ BlockSize \in Nat \ {0}
    BY QueueAssumption DEF Outline, Types, IndexInv
  <1>1. /\ headers # << >> /\ ~SlotIsFree
        /\ Goes("insert", "grown", producer.tail, producer.entry, producer.block)
        /\ UNCHANGED <<listed, hashed, counters, memory, tailBlock>>
    BY <1>0, NewBlockIndexIs
  <1>2. /\ producer.pc = "insert" /\ producer'.pc = "grown" /\ UNCHANGED c
        /\ tailIndex' = tailIndex
    BY <1>1 DEF Goes, counters
  <1>3. ~Busy(Inserting) /\ ~Busy({"requisition", "publish", "rewind", "write", "store"})
        /\ ~Busy(Inserting)' /\ ~Busy({"requisition", "rewind"})' /\ Top' = Top
    BY <1>2 DEF Busy, Inserting, Top, Latest
  <1> DEFINE n == Capacity(blockIndex)
             t == blockIndex.tail
             l == Len(entries)
  <1>4. /\ headers' # << >> /\ Len(entries') = l + n
        /\ \A e \in DOMAIN entries : entries'[e] = entries[e]
        /\ \A e \in DOMAIN entries' : e \notin DOMAIN entries => entries'[e] = FreshEntry
        /\ Len(headers') = Len(headers) + 1
        /\ \A g \in DOMAIN headers : headers'[g] = headers[g]
        /\ blockIndex' = headers'[Len(headers')] /\ blockIndex'.tail = n - 1
        /\ Capacity(blockIndex') = 2 * n
        /\ \A s \in 1 .. n : blockIndex'.index[s] = Entry(blockIndex, t + s)
        /\ \A s \in n + 1 .. 2 * n : blockIndex'.index[s] = l + s - n
        /\ IndexOK'
    BY <1>0, <1>1, <1>2, LargerIndex
  <1>5. /\ n \in Nat \ {0, 1} /\ t \in Nat /\ l = n /\ RingOK(blockIndex)
        /\ Len(headers) \in Nat \ {0} /\ DOMAIN headers' = 1 .. Len(headers) + 1
        /\ DOMAIN headers = 1 .. Len(headers) /\ blockIndex = headers[Len(headers)]
        /\ DOMAIN entries = 1 .. l
    <2>1. /\ n \in Nat \ {0, 1} /\ t \in Nat /\ Len(headers) \in Nat \ {0}
          /\ blockIndex = headers[Len(headers)] /\ DOMAIN entries = 1 .. l
          /\ Len(headers) \in DOMAIN headers
      BY <1>0, <1>1, BlockIndexIs
    <2>2. headers \in Seq(HeaderRecords) /\ headers' \in Seq(HeaderRecords)
      BY <1>0, <1>4 DEF IndexOK, HeaderRecords
    <2>3. DOMAIN headers = 1 .. Len(headers)
      BY <2>2
    <2>4. DOMAIN headers' = 1 .. Len(headers')
      BY <2>2
    <2> QED
      BY <1>0, <1>1, <1>4, <2>1, <2>3, <2>4 DEF RingInv
  <1>6. Doubled(blockIndex', blockIndex, t, n)
    <2>1. \A s \in n + 1 .. 2 * n : blockIndex'.index[s] = s
      <3> TAKE s \in n + 1 .. 2 * n
      <3>1. blockIndex'.index[s] = l + s - n
        BY <1>4
      <3>2. l = n /\ n \in Nat
        BY <1>5
      <3> HIDE DEF l, n
      <3> QED
        BY <3>1, <3>2
    <2> QED
      BY <1>4, <1>5, <2>1 DEF Doubled
  <1>7. /\ RingOK(blockIndex') /\ Agree(blockIndex', blockIndex') /\ Divides(2 * n, 2 * n)
        /\ \A y \in 1 - n .. 0 : Entry(blockIndex', (n - 1) + y) = Entry(blockIndex, t + y)
        /\ \A f : (Agree(f, blockIndex) /\ RingOK(f) /\ Divides(Capacity(f), n)) =>
                     Agree(f, blockIndex') /\ Divides(Capacity(f), 2 * n)
    BY <1>6, LargerRing
  <1>8. Links(NextEntry) /\ Top >= 0
    BY <1>1, <1>3, FullRing
  <1>9. Len(entries') = Capacity(blockIndex')
    <2>1. l + n = 2 * n
      BY <1>5
    <2> QED
      BY <1>4, <2>1
  <1>10. \A g \in DOMAIN headers' : /\ RingOK(headers'[g]) /\ Agree(headers'[g], blockIndex')
                                    /\ Divides(Capacity(headers'[g]), Capacity(blockIndex'))
    <2> SUFFICES ASSUME NEW g \in DOMAIN headers'
                 PROVE  /\ RingOK(headers'[g]) /\ Agree(headers'[g], blockIndex')
                        /\ Divides(Capacity(headers'[g]), 2 * n)
      BY <1>4
    <2>1. CASE g = Len(headers')
      BY <1>4, <1>7, <2>1
    <2>2. CASE g # Len(headers')
      <3>1. g \in DOMAIN headers
        BY <1>4, <1>5, <2>2
      <3>2. /\ headers'[g] = headers[g] /\ RingOK(headers[g]) /\ Agree(headers[g], blockIndex)
            /\ Divides(Capacity(headers[g]), n)
        BY <1>0, <1>1, <1>4, <3>1 DEF RingInv
      <3> QED
        BY <1>7, <3>2
    <2> QED
      BY <2>1, <2>2
  <1>11. \A e \in DOMAIN entries : (Keyed(e)' <=> Keyed(e)) /\ (Links(e)' <=> Links(e))
                                   /\ Key(e)' = Key(e)
    BY <1>4 DEF Keyed, Key, Links
  <1>12. \A e \in DOMAIN entries' : e \notin DOMAIN entries => ~Keyed(e)' /\ ~Links(e)'
    BY <1>4, BlocksAre DEF Keyed, Key, Links, FreshEntry
  <1>13. \A g \in DOMAIN headers' : g # Len(headers') =>
           Keyed(Entry(headers[g], headers[g].tail))'
    <2> SUFFICES ASSUME NEW g \in DOMAIN headers', g # Len(headers')
                 PROVE  Keyed(Entry(headers[g], headers[g].tail))'
      OBVIOUS
    <2> DEFINE e == Entry(headers[g], headers[g].tail)
    <2>1. g \in DOMAIN headers /\ headers'[g] = headers[g]
      BY <1>4, <1>5
    <2>2. Keyed(e)
      <3>1. CASE g = Len(headers)
        BY <1>0, <1>1, <1>5, <1>8, <3>1 DEF RingInv
      <3>2. CASE g # Len(headers)
        BY <1>0, <1>1, <2>1, <3>2 DEF RingInv
      <3> QED
        BY <3>1, <3>2
    <2>3. e \in DOMAIN entries
      <3>1. headers[g].tail \in Int
        BY <1>0, <2>1, HeaderIs
      <3> QED
        BY <1>0, <2>1, <3>1, HeaderIs
    <2>4. Entry(headers'[g], headers'[g].tail) = e
      BY <2>1
    <2> HIDE DEF e
    <2>5. entries'[e].key # InvalidKey
      BY <1>11, <2>2, <2>3 DEF Keyed, Key
    <2> QED
      BY <2>4, <2>5 DEF Keyed, Key
  <1>14. ASSUME NEW e \in DOMAIN entries', Keyed(e)'
         PROVE  \E y \in 1 - Capacity(blockIndex') .. 1 : KeyAt(e, y)'
    <2>1. e \in DOMAIN entries /\ Keyed(e)
      BY <1>11, <1>12, <1>14
    <2>2. PICK y \in 1 - n .. 1 : KeyAt(e, y)
      BY <1>0, <1>1, <2>1 DEF RingInv
    <2>3. e = Entry(blockIndex, t + y) /\ Key(e) = Top + y * BlockSize /\ (y = 1 => ~Links(e))
      BY <2>2 DEF KeyAt
    <2>4. y # 1
      BY <1>8, <2>3 DEF NextEntry
    <2>5. y \in 1 - n .. 0 /\ y \in 1 - 2 * n .. 1
      BY <1>5, <2>2, <2>4
    <2>6. e = Entry(blockIndex', blockIndex'.tail + y)
      BY <1>4, <1>7, <2>3, <2>5
    <2>7. KeyAt(e, y)'
      BY <1>3, <1>11, <2>1, <2>3, <2>4, <2>6 DEF KeyAt
    <2> QED
      BY <1>4, <2>5, <2>7
  <1>15. Keyed(Entry(blockIndex, blockIndex.tail))'
    <2>1. Entry(blockIndex', (n - 1) + 0) = Entry(blockIndex, t + 0) /\ (n - 1) + 0 = n - 1
          /\ t + 0 = t
      <3>1. 0 \in 1 - n .. 0
        BY <1>5
      <3> QED
        BY <1>5, <1>7, <3>1
    <2> DEFINE e == Entry(blockIndex, t)
    <2>2. Entry(blockIndex', blockIndex'.tail) = e
      BY <1>4, <2>1
    <2>3. Keyed(e) /\ e \in DOMAIN entries
      <3>1. Keyed(e)
        BY <1>0, <1>1, <1>8 DEF RingInv
      <3>2. t \in Int
        BY <1>5
      <3> QED
        BY <1>0, <1>1, <3>1, <3>2, BlockIndexIs
    <2> HIDE DEF e
    <2>4. entries'[e].key # InvalidKey
      BY <1>11, <2>3 DEF Keyed, Key
    <2> QED
      BY <2>2, <2>4 DEF Keyed, Key
  <1>16. \A e \in DOMAIN entries' : Links(e)' => Keyed(e)'
    BY <1>0, <1>1, <1>11, <1>12 DEF RingInv
  <1>17. RingInv'
    BY <1>3, <1>9, <1>10, <1>13, <1>14, <1>15, <1>16 DEF RingInv
  <1>18. EntryInv'
    <2>1. \A e \in DOMAIN entries' : ~(Keyed(e)' /\ entries'[e].value = Junk)
      BY <1>0, <1>3, <1>4, <1>11, <1>12 DEF EntryInv
    <2>2. ~Busy({"advance", "retract"})' /\ ~Busy({"requisition", "publish", "rewind"})'
      BY <1>2 DEF Busy
    <2>3. ~Keyed(NextEntry)'
      <3>1. NextEntry' = n + 1
        <4>1. (0 * (2 * n) + n) % (2 * n) = n /\ (n - 1) + 1 = 0 * (2 * n) + n
          <5>1. 2 * n \in Nat \ {0} /\ 0 \in Int /\ n \in 0 .. 2 * n - 1
            BY <1>5
          <5> HIDE DEF n
          <5>2. (0 * (2 * n) + n) % (2 * n) = n
            BY <5>1, ExactDivision
          <5>3. (n - 1) + 1 = n /\ 0 * (2 * n) + n = n
            BY <1>5
          <5> QED
            BY <5>2, <5>3
        <4>2. NextEntry' = blockIndex'.index[(((n - 1) + 1) % (2 * n)) + 1]
          BY <1>4 DEF NextEntry, Entry
        <4>3. n + 1 \in n + 1 .. 2 * n /\ l + (n + 1) - n = n + 1
          BY <1>5
        <4> HIDE DEF n, l
        <4> QED
          BY <1>4, <4>1, <4>2, <4>3
      <3>2. n + 1 \in DOMAIN entries' /\ n + 1 \notin DOMAIN entries
        <4>1. DOMAIN entries' = 1 .. l + n
          BY <1>4 DEF IndexOK
        <4> HIDE DEF n, l
        <4> QED
          BY <1>5, <4>1
      <3> HIDE DEF n
      <3> QED
        BY <1>12, <3>1, <3>2 DEF Keyed, Key
    <2> QED
      BY <1>3, <2>1, <2>2, <2>3 DEF EntryInv
  <1> QED
    BY <1>17, <1>18 DEF IndexInv

(* The other steps of enqueue() and those of consumers leave the headers   *)
(* as they are, and most of them the entries too.                          *)
LEMMA RingSame ==
  ASSUME Outline, IndexInv, UNCHANGED <<entries, headers>>,
         headers # << >> => Top' = Top, Beginning => Beginning',
         (headers # << >> /\ Busy({"requisition", "rewind"})') =>
            Busy({"requisition", "rewind"}) /\ tailIndex' = tailIndex
  PROVE  RingInv'
  <1>1. RingInv /\ IndexOK /\ CountersOK /\ HeadersOK
    BY DEF Outline, Types, IndexInv
  <1>2. \A e \in DOMAIN entries : Key(e)' = Key(e) /\ (Links(e)' => Links(e))
    BY DEF Key, Links
  <1> QED
    BY <1>1, <1>2, RingQuiet

(* No entry is between its key and its value when nothing is inserted.     *)
LEMMA EntryClear ==
  ASSUME ~Busy(Inserting)', ~Busy({"grown"})',
         \A e \in DOMAIN entries' : Keyed(e)' => entries'[e].value # Junk
  PROVE  EntryInv'
  BY DEF EntryInv, Busy, Inserting

(* Outside an insertion nothing is said of the producer's entry. *)
LEMMA EntryCarried ==
  ASSUME EntryInv, ~Busy(Inserting), ~Busy(Inserting)', ~Busy({"grown"})', UNCHANGED entries
  PROVE  EntryInv'
  <1>1. \A e \in DOMAIN entries' : Keyed(e)' => entries'[e].value # Junk
    BY DEF EntryInv, Keyed, Key
  <1> QED
    BY <1>1, EntryClear

(* The steps of enqueue() that leave the index alone keep it in order. *)
LEMMA QuietEnqueue ==
  ASSUME Outline, IndexInv,
         \/ Enqueue \/ CreateFails \/ HashProducer \/ NoIndex \/ NewBlockIndexFails
         \/ WriteElement \/ StoreTail
  PROVE  IndexInv'
  <1>0. /\ ProducerOK /\ CountersOK /\ ProducerInv /\ EntryInv /\ tailIndex \in Int
        /\ tailIndex + 1 - 1 = tailIndex
    BY DEF Outline, Types, IndexInv, CountersOK
  <1>1. CASE Enqueue
    <2>1. /\ producer.pc = "idle"
          /\ producer'.pc = IF hashed THEN FirstStep(tailIndex) ELSE "create"
          /\ UNCHANGED <<entries, headers, tailIndex>>
      BY <1>0, <1>1, EnqueueIs DEF Goes, counters, index
    <2>2. headers # << >> => hashed
      BY <1>0, <2>1 DEF ProducerInv, Busy
    <2>3. ~Busy(Inserting) /\ ~Busy(Inserting)' /\ ~Busy({"requisition", "rewind"})'
          /\ ~Busy({"grown"})'
      BY <2>1 DEF Busy, Inserting, FirstStep
    <2>4. Beginning => Beginning'
      BY <2>1 DEF Beginning, Busy, FirstStep
    <2>5. headers # << >> => Top' = Top
      <3> HAVE headers # << >>
      <3>1. ~AtBlockStart(tailIndex) => Base(tailIndex - 1) = Base(tailIndex)
        BY <1>0, BaseBefore
      <3> QED
        BY <2>1, <2>2, <3>1 DEF Top, Latest, Busy, FirstStep
    <2> QED
      BY <1>0, <2>1, <2>3, <2>4, <2>5, RingSame, EntryCarried DEF IndexInv
  <1>2. CASE CreateFails \/ HashProducer \/ NoIndex \/ NewBlockIndexFails
    <2>1. /\ producer.pc \in {"create", "hash", "insert"}
          /\ producer'.pc \in {"idle", FirstStep(tailIndex)}
          /\ producer'.pc = "idle" \/ producer.pc = "hash"
          /\ UNCHANGED <<entries, headers, tailIndex>>
      BY <1>0, <1>2, CreateFailsIs, HashProducerIs, NoIndexIs, NewBlockIndexFailsIs
         DEF Goes, counters, index
    <2>2. producer'.pc \in {"idle", "insert"}
      BY <1>0, <2>1, ZeroStarts DEF ProducerInv, Busy, FirstStep
    <2>3. ~Busy(Inserting) /\ ~Busy(Inserting)' /\ ~Busy({"requisition", "rewind"})'
          /\ ~Busy({"grown"})'
          /\ Top' = Top /\ (Beginning => Beginning')
      BY <2>1, <2>2 DEF Busy, Inserting, Top, Latest, Beginning
    <2> QED
      BY <1>0, <2>1, <2>3, RingSame, EntryCarried DEF IndexInv
  <1>3. CASE WriteElement
    <2>1. /\ producer.pc = "write" /\ producer'.pc = "store"
          /\ UNCHANGED <<entries, headers, tailIndex>>
      BY <1>0, <1>3, WriteElementIs DEF Goes, counters, index
    <2>3. ~Busy(Inserting) /\ ~Busy(Inserting)' /\ ~Busy({"requisition", "rewind"})'
          /\ ~Busy({"grown"})'
          /\ Top' = Top /\ (Beginning => Beginning')
      BY <2>1 DEF Busy, Inserting, Top, Latest, Beginning
    <2> QED
      BY <1>0, <2>1, <2>3, RingSame, EntryCarried DEF IndexInv
  <1>4. CASE StoreTail
    <2>1. /\ producer.pc = "store" /\ producer'.pc = "idle" /\ tailIndex' = producer.tail + 1
          /\ UNCHANGED <<entries, headers>>
      BY <1>0, <1>4, StoreTailIs DEF Goes, counters, index
    <2>2. tailIndex' = tailIndex + 1
      BY <1>0, <2>1 DEF ProducerInv, Busy
    <2>3. ~Busy(Inserting) /\ ~Busy(Inserting)' /\ ~Busy({"requisition", "rewind"})'
          /\ ~Busy({"grown"})'
          /\ ~Beginning /\ Top = Base(tailIndex) /\ Top' = Base(tailIndex' - 1)
      BY <2>1 DEF Busy, Inserting, Top, Latest, Beginning
    <2>4. Top' = Top
      BY <1>0, <2>2, <2>3
    <2> QED
      BY <1>0, <2>1, <2>3, <2>4, RingSame, EntryCarried DEF IndexInv
  <1> QED
    BY <1>1, <1>2, <1>3, <1>4

(* The steps that take a block for the entry, or fail to.                  *)
LEMMA RequisitionRing ==
  ASSUME Outline, IndexInv, RequisitionBlock \/ RequisitionFails
  PROVE  IndexInv'
  <1>0. ProducerOK /\ EntryInv
    BY DEF Outline, Types, IndexInv
  <1>1. /\ producer.pc = "requisition" /\ producer'.pc \in {"publish", "rewind"}
        /\ producer'.entry = producer.entry
        /\ UNCHANGED <<entries, headers, tailIndex>>
    BY <1>0, RequisitionBlockIs, RequisitionFailsIs DEF Goes, counters, index
  <1>2. Top' = Top /\ ~Beginning /\ Busy({"requisition", "rewind"})
    BY <1>1 DEF Busy, Top, Beginning
  <1>3. EntryInv'
    <2>1. /\ Busy(Inserting) /\ Busy({"requisition", "publish", "rewind"})
          /\ ~Busy({"advance", "retract"})' /\ ~Busy({"grown"})'
      BY <1>1 DEF Busy, Inserting
    <2>2. /\ producer.entry = Entry(blockIndex, blockIndex.tail)
          /\ producer.entry \in DOMAIN entries
          /\ Key(producer.entry) = tailIndex /\ ~Links(producer.entry)
          /\ \A e \in DOMAIN entries : (Keyed(e) /\ entries[e].value = Junk) => e = producer.entry
      BY <1>0, <2>1 DEF EntryInv
    <2>3. producer'.entry = Entry(blockIndex', blockIndex'.tail)
      BY <1>1, <2>2 DEF blockIndex
    <2>4. /\ producer'.entry \in DOMAIN entries'
          /\ Key(producer.entry)' = tailIndex' /\ ~Links(producer.entry)'
      BY <1>1, <2>2 DEF Key, Links
    <2>5. \A e \in DOMAIN entries' : (Keyed(e)' /\ entries'[e].value = Junk) =>
                Busy(Inserting)' /\ e = producer'.entry
      BY <1>1, <2>2 DEF Keyed, Key, Busy, Inserting
    <2> QED
      BY <2>1, <2>3, <2>4, <2>5 DEF EntryInv
  <1> QED
    BY <1>1, <1>2, <1>3, RingSame DEF IndexInv

(* What an assignment to a part of an entry leaves in it.                  *)
LEMMA EntryWritten ==
  ASSUME IndexOK, NEW e \in DOMAIN entries, NEW v
  PROVE  /\ entries' = [entries EXCEPT ![e].key = v] =>
               entries'[e].key = v /\ entries'[e].value = entries[e].value
         /\ entries' = [entries EXCEPT ![e].value = v] =>
               entries'[e].value = v /\ entries'[e].key = entries[e].key
  <1>1. entries[e] \in EntryRecords
    BY EntriesAre
  <1>2. entries' = [entries EXCEPT ![e].key = v] => entries'[e] = [entries[e] EXCEPT !.key = v]
    OBVIOUS
  <1>3. entries' = [entries EXCEPT ![e].value = v] => entries'[e] = [entries[e] EXCEPT !.value = v]
    OBVIOUS
  <1> QED
    BY <1>1, <1>2, <1>3 DEF EntryRecords

(* The entry after the tail takes the key of the new block.                *)
LEMMA StoreKeyRing ==
  ASSUME Outline, IndexInv, StoreKey
  PROVE  IndexInv'
  <1>0. /\ ProducerOK /\ CountersOK /\ IndexOK /\ HeadersOK /\ ProducerInv /\ RingInv /\ EntryInv
        /\ tailIndex \in Nat /\ headers # << >>
    BY DEF Outline, Types, IndexInv, CountersOK, StoreKey
  <1> DEFINE n == NextEntry
  <1>1. n \in DOMAIN entries /\ n \in Nat
    BY <1>0, BlockIndexIs
  <1>2. /\ SlotIsFree /\ producer.pc \in {"insert", "grown"}
        /\ Goes(producer.pc, "advance", producer.tail, n, producer.block)
        /\ entries' = [entries EXCEPT ![n].key = producer.tail]
        /\ UNCHANGED <<headers, tailIndex>>
    BY <1>0, <1>1, StoreKeyIs, StoredSlotIsFree DEF counters
  <1>3. /\ producer.pc \in {"insert", "grown"} /\ producer'.pc = "advance" /\ producer'.entry = n
        /\ producer.tail = tailIndex /\ AtBlockStart(tailIndex)
    BY <1>0, <1>2 DEF Goes, ProducerInv, Busy
  <1>4. /\ entries \in Seq(EntryRecords) /\ DOMAIN entries' = DOMAIN entries
        /\ Len(entries') = Len(entries)
        /\ \A e \in DOMAIN entries : e # n => entries'[e] = entries[e]
    <2>1. \E v \in Nat : entries' = [entries EXCEPT ![n].key = v]
      BY <1>0, <1>2, <1>3
    <2> QED
      BY <1>0, <2>1, EntryAssigned, EntriesAre
  <1>9. NextEntry' = n
    BY <1>2 DEF NextEntry, blockIndex
  <1>12. entries'[n].key = tailIndex /\ entries'[n].value = entries[n].value
    BY <1>0, <1>1, <1>2, <1>3, EntryWritten
  <1>5. Key(n)' = tailIndex
    BY <1>9, <1>12 DEF Key
  <1>6. ~Links(n)
    <2>1. entries[n].value = NoBlock => ~Links(n)
      BY BlocksAre DEF Links
    <2>2. entries[n].key = InvalidKey => ~Links(n)
      BY <1>0, <1>1 DEF RingInv, Keyed, Key
    <2> QED
      BY <1>2, <2>1, <2>2 DEF SlotIsFree
  <1>7. ~Links(n)'
    BY <1>6, <1>9, <1>12 DEF Links
  <1>8. Beginning /\ Beginning' /\ Top' = Top /\ ~Busy({"requisition", "rewind"})'
    BY <1>2, <1>3 DEF Beginning, Top, Latest, Busy
  <1>13. entries'[n].value \notin Blocks
    BY <1>6, <1>12 DEF Links
  <1> HIDE DEF n
  <1>10. RingInv'
    <2>1. TakesKey(n)
      BY <1>5, <1>7, <1>8 DEF TakesKey, n
    <2>2. \A e \in DOMAIN entries : e # n => Key(e)' = Key(e) /\ (Links(e)' => Links(e))
      BY <1>4 DEF Key, Links
    <2> QED
      BY <1>0, <1>2, <1>4, <1>8, <2>1, <2>2, RingQuiet
  <1>11. EntryInv'
    <2>1. \A e \in DOMAIN entries' : (Keyed(e)' /\ entries'[e].value = Junk) => e = n
      BY <1>0, <1>3, <1>4 DEF EntryInv, Busy, Inserting, Keyed, Key
    <2>2. /\ Busy(Inserting)' /\ ~Busy({"requisition", "publish", "rewind"})'
          /\ ~Busy({"grown"})'
      BY <1>3 DEF Busy, Inserting
    <2>3. Key(producer.entry)' = tailIndex' /\ ~Links(producer.entry)'
      BY <1>2, <1>3, <1>12, <1>13 DEF Key, Links
    <2> QED
      BY <1>1, <1>3, <1>4, <1>9, <2>1, <2>2, <2>3 DEF EntryInv
  <1> QED
    BY <1>10, <1>11 DEF IndexInv

(* A block is published, or the entry taken back.                          *)
LEMMA PublishRing ==
  ASSUME Outline, IndexInv, PublishBlock \/ Retract
  PROVE  IndexInv'
  <1>0. /\ ProducerOK /\ CountersOK /\ IndexOK /\ HeadersOK /\ ProducerInv /\ RingInv /\ EntryInv
        /\ tailIndex \in Int
    BY DEF Outline, Types, IndexInv, CountersOK
  <1> DEFINE n == producer.entry
             v == IF producer.pc = "publish" THEN producer.block ELSE NoBlock
  <1>1. /\ producer.pc \in {"publish", "retract"}
        /\ producer'.pc = IF producer.pc = "publish" THEN "write" ELSE "idle"
        /\ entries' = [entries EXCEPT ![n].value = v]
        /\ UNCHANGED <<headers, tailIndex>>
    BY <1>0, PublishBlockIs, RetractIs DEF Goes, counters
  <1>2. Busy(Inserting) /\ Busy({"insert", "grown"} \cup Inserting) /\ ~Busy(Inserting)'
        /\ ~Busy({"requisition", "rewind"})' /\ ~Busy({"grown"})'
    BY <1>1 DEF Busy, Inserting
  <1>3. /\ n \in DOMAIN entries /\ Key(n) = tailIndex /\ ~Links(n) /\ AtBlockStart(tailIndex)
        /\ \A e \in DOMAIN entries : (Keyed(e) /\ entries[e].value = Junk) => e = n
    BY <1>0, <1>2 DEF EntryInv, ProducerInv
  <1>4. v \in Blocks \cup {NoBlock}
    BY <1>0, <1>1 DEF ProducerInv, Busy
  <1> HIDE DEF v
  <1>5. /\ entries \in Seq(EntryRecords) /\ DOMAIN entries' = DOMAIN entries
        /\ Len(entries') = Len(entries)
        /\ \A e \in DOMAIN entries : e # n => entries'[e] = entries[e]
    <2>1. \E u \in Blocks \cup {NoBlock, Junk} : entries' = [entries EXCEPT ![n].value = u]
      BY <1>1, <1>4
    <2> QED
      BY <1>0, <2>1, EntryAssigned, EntriesAre
  <1>6. entries'[n].key = entries[n].key /\ entries'[n].value = v
    BY <1>0, <1>1, <1>3, EntryWritten
  <1>7. Keyed(n)
    BY <1>0, <1>3, BlocksFollow DEF Keyed
  <1>8. Top' = Top /\ (Beginning => Beginning') /\ (producer.pc = "publish" => ~Beginning)
    <2>1. Base(tailIndex) = tailIndex
      BY <1>0, <1>3, BaseIs
    <2> QED
      BY <1>1, <2>1 DEF Top, Latest, Busy, Beginning
  <1> HIDE DEF n
  <1>9. \A e \in DOMAIN entries : Key(e)' = Key(e) /\ (Links(e)' => Links(e) \/ (Keyed(e) /\ ~Beginning))
    <2> TAKE e \in DOMAIN entries
    <2>1. CASE e = n
      <3>1. Key(e)' = Key(e)
        BY <1>6, <2>1 DEF Key
      <3>2. producer.pc # "publish" => ~Links(e)'
        BY <1>6, <2>1, BlocksAre DEF Links, v
      <3> QED
        BY <1>7, <1>8, <2>1, <3>1, <3>2
    <2>2. CASE e # n
      BY <1>5, <2>2 DEF Key, Links
    <2> QED
      BY <2>1, <2>2
  <1>10. RingInv'
    BY <1>0, <1>1, <1>2, <1>5, <1>8, <1>9, RingQuiet
  <1>11. EntryInv'
    <2>1. \A e \in DOMAIN entries' : Keyed(e)' => entries'[e].value # Junk
      <3> SUFFICES ASSUME NEW e \in DOMAIN entries, Keyed(e)'
                   PROVE  entries'[e].value # Junk
        BY <1>5
      <3>1. CASE e = n
        BY <1>4, <1>6, <3>1, BlocksAre DEF NoBlock, Junk
      <3>2. CASE e # n
        BY <1>3, <1>5, <1>9, <3>2 DEF Keyed, Key
      <3> QED
        BY <3>1, <3>2
    <2> QED
      BY <1>2, <2>1, EntryClear
  <1> QED
    BY <1>10, <1>11 DEF IndexInv

(* A consumer changes the index in one way: it takes a block out.          *)
Unlinks == \E e \in DOMAIN entries : entries' = [entries EXCEPT ![e].value = NoBlock]

(* Unlinking a block keeps the index in order. *)
LEMMA QuietRing ==
  ASSUME Outline, IndexInv, UNCHANGED <<headers, producer, tailIndex>>,
         UNCHANGED entries \/ Unlinks
  PROVE  IndexInv'
  <1>0. /\ CountersOK /\ IndexOK /\ HeadersOK /\ RingInv /\ EntryInv
    BY DEF Outline, Types, IndexInv
  <1>1. /\ DOMAIN entries' = DOMAIN entries /\ Len(entries') = Len(entries)
        /\ \A e \in DOMAIN entries : /\ Key(e)' = Key(e) /\ (Links(e)' => Links(e))
                                     /\ entries'[e].value = Junk => entries[e].value = Junk
    <2>1. CASE UNCHANGED entries
      BY <2>1 DEF Key, Links
    <2>2. CASE Unlinks
      <3>1. PICK n \in DOMAIN entries : entries' = [entries EXCEPT ![n].value = NoBlock]
        BY <2>2 DEF Unlinks
      <3>2. /\ entries \in Seq(EntryRecords) /\ DOMAIN entries' = DOMAIN entries
            /\ Len(entries') = Len(entries)
            /\ \A e \in DOMAIN entries : e # n => entries'[e] = entries[e]
        <4>1. \E u \in Blocks \cup {NoBlock, Junk} : entries' = [entries EXCEPT ![n].value = u]
          BY <3>1
        <4> QED
          BY <1>0, <4>1, EntryAssigned, EntriesAre
      <3>3. entries'[n].key = entries[n].key /\ entries'[n].value = NoBlock
        BY <1>0, <3>1, EntryWritten
      <3>4. NoBlock \notin Blocks /\ NoBlock # Junk
        BY BlocksAre DEF NoBlock, Junk
      <3> QED
        BY <3>2, <3>3, <3>4 DEF Key, Links
    <2> QED
      BY <2>1, <2>2
  <1>2. Top' = Top /\ (Beginning => Beginning')
        /\ (Busy({"requisition", "rewind"})' => Busy({"requisition", "rewind"}))
    BY DEF Top, Latest, Busy, Beginning
  <1>3. RingInv'
    BY <1>0, <1>1, <1>2, RingQuiet
  <1>4. EntryInv'
    <2>1. \A e \in DOMAIN entries' : (Keyed(e)' /\ entries'[e].value = Junk) =>
                Busy(Inserting) /\ e = producer.entry
      BY <1>0, <1>1 DEF EntryInv, Keyed
    <2>2. Busy(Inserting) =>
            /\ producer.entry \in DOMAIN entries'
            /\ Key(producer.entry)' = tailIndex' /\ ~Links(producer.entry)'
      <3> HAVE Busy(Inserting)
      <3> DEFINE n == producer.entry
      <3>1. n \in DOMAIN entries /\ Key(n) = tailIndex /\ ~Links(n)
        BY <1>0 DEF EntryInv
      <3>2. producer'.entry = n
        OBVIOUS
      <3> HIDE DEF n
      <3>3. entries'[n].key = entries[n].key /\ (entries'[n].value \in Blocks => entries[n].value \in Blocks)
        BY <1>1, <3>1 DEF Key, Links
      <3> QED
        BY <1>1, <3>1, <3>2, <3>3 DEF Key, Links, n
    <2>3. /\ Busy({"advance", "retract"}) => producer.entry = NextEntry'
          /\ Busy({"requisition", "publish", "rewind"}) =>
                producer.entry = Entry(blockIndex', blockIndex'.tail)
      BY <1>0 DEF EntryInv, NextEntry, blockIndex
    <2>4. Busy({"grown"}) => ~Keyed(NextEntry)'
      <3> HAVE Busy({"grown"})
      <3>1. headers # << >>
        BY DEF Outline, ProducerInv, Busy
      <3>2. NextEntry \in DOMAIN entries /\ NextEntry' = NextEntry
        BY <1>0, <3>1, BlockIndexIs DEF NextEntry, blockIndex
      <3>3. ~Keyed(NextEntry)
        BY <1>0 DEF EntryInv
      <3>4. Key(NextEntry)' = entries'[NextEntry].key
        BY <3>2 DEF Key
      <3> QED
        BY <1>1, <3>2, <3>3, <3>4 DEF Keyed, Key
    <2> QED
      BY <2>1, <2>2, <2>3, <2>4 DEF EntryInv, Busy
  <1> QED
    BY <1>3, <1>4 DEF IndexInv

(* The steps of a consumer keep the index in order. *)
LEMMA ConsumerRing ==
  ASSUME Outline, IndexInv, NEW k \in Consumers, DequeueStep(k)
  PROVE  IndexInv'
  <1>1. UNCHANGED <<headers, producer, tailIndex>>
    BY DEF DequeueStep, LoadTail, LoadOvercommit, LoadOptimistic, ClaimOptimistic, ReloadTail,
           Overcommit, ClaimElements, LoadHeader, LoadIndexTail, LookUp, MoveElements,
           CountElements, UnlinkBlock, FreeBlock, Return, NextBlock, Step
  <1>2. UNCHANGED entries \/ Unlinks
    <2>1. CASE UnlinkBlock(k)
      <3>1. c[k].pc \in Looking /\ entries' = [entries EXCEPT ![EntryOf(k)].value = NoBlock]
        BY <2>1 DEF UnlinkBlock, At, Looking
      <3>2. c[k].slot \in Int
        BY FrameHeld, FrameFields
      <3>3. EntryOf(k) \in DOMAIN entries
        BY <3>1, <3>2, FrameHeld DEF EntryOf
      <3> QED
        BY <3>1, <3>3 DEF Unlinks
    <2>2. CASE ~UnlinkBlock(k)
      BY <2>2 DEF DequeueStep, LoadTail, LoadOvercommit, LoadOptimistic, ClaimOptimistic,
           ReloadTail, Overcommit, ClaimElements, LoadHeader, LoadIndexTail, LookUp, MoveElements,
           CountElements, FreeBlock, Return
    <2> QED
      BY <2>1, <2>2
  <1> QED
    BY <1>1, <1>2, QuietRing

(* Every step keeps the index in order. *)
LEMMA IndexStep == Outline /\ IndexInv /\ [Next]_vars => IndexInv'
  <1> SUFFICES ASSUME Outline, IndexInv, [Next]_vars PROVE IndexInv'
    OBVIOUS
  <1>1. CASE EnqueueStep
    BY <1>1, QuietEnqueue, FirstRing, StoreKeyRing, AdvanceRing, LargerStep, RequisitionRing,
       RewindRing, PublishRing DEF EnqueueStep
  <1>2. ASSUME NEW k \in Consumers, DequeueStep(k) PROVE IndexInv'
    BY <1>2, ConsumerRing
  <1>3. CASE Destroy \/ UNCHANGED vars
    <2>1. UNCHANGED <<headers, producer, tailIndex, entries>>
      BY <1>3 DEF Destroy, vars, counters, index
    <2> QED
      BY <2>1, QuietRing
  <1> QED
    BY <1>1, <1>2, <1>3 DEF Next

(* The index is in order at first. *)
LEMMA IndexInit == Init => IndexInv
  <1> HAVE Init
  <1>1. headers = << >> /\ entries = << >> /\ producer.pc = "idle"
    BY DEF Init, Frame
  <1> QED
    BY <1>1 DEF IndexInv, EntryInv, RingInv, Busy, Inserting

(* The index is a ring with the keys in their order, and every header a    *)
(* consumer may hold goes over its part of them in the same order.         *)
THEOREM IndexHolds == Spec => []IndexInv
  BY OutlineHolds, IndexInit, IndexStep, PTL DEF Spec

(* Whose a position is.  Every position between the start of a consumer's  *)
(* range and its end is that consumer's alone.                             *)
LEMMA Alone ==
  ASSUME Outline, NEW k \in Consumers, c[k].pc \in Working, NEW i \in Int,
         Start(c[k]) <= i, i < c[k].end
  PROVE  /\ i < headIndex
         /\ \A j \in Consumers : j # k => ~Mine(c[j], i) /\ ~Counts(c[j], i)
  <1>1. headIndex \in Int /\ c[k].end <= headIndex /\ c[k].end \in Int /\ Start(c[k]) \in Int
    BY FrameHeld, FrameFields DEF Outline, Types, CountersOK
  <1>2. ASSUME NEW j \in Consumers, j # k
        PROVE  ~Mine(c[j], i) /\ ~Counts(c[j], i)
    <2>1. /\ RangeInv(c[j], headIndex) /\ c[j].index \in Nat /\ c[j].end \in Nat
          /\ c[j].moved \in Nat /\ c[j].items \in Seq(Nat) /\ Len(c[j].items) \in Nat
      BY FrameHeld, FrameFields
    <2>2. CASE c[j].pc \notin Working
      <3>1. c[j].index = 0 /\ c[j].end = 0 /\ c[j].pc # "count"
        BY <2>1, <2>2 DEF RangeInv, Working, Looking
      <3> QED
        BY <3>1 DEF Mine, Counts
    <2>3. CASE c[j].pc \in Working
      <3>1. Apart(c[j], c[k])
        BY <1>2, <2>3 DEF Outline, RangesInv
      <3>2. /\ Start(c[j]) \in Nat /\ Start(c[j]) <= c[j].index /\ c[j].index <= c[j].end
            /\ c[j].pc = "count" => Start(c[j]) <= c[j].index - c[j].moved
        BY <2>1, <2>3 DEF RangeInv, Start
      <3> QED
        BY SMTT(30), <1>1, <2>1, <3>1, <3>2 DEF Mine, Counts, Apart
    <2> QED
      BY <2>2, <2>3
  <1> QED
    BY <1>1, <1>2

(* The start of a range is below what is left of it.                       *)
LEMMA StartIs ==
  ASSUME Outline, NEW k \in Consumers, c[k].pc \in Working
  PROVE  /\ Start(c[k]) \in Nat /\ Start(c[k]) <= c[k].index
         /\ c[k].pc = "count" => /\ Start(c[k]) <= c[k].index - c[k].moved
                                 /\ c[k].moved \in Nat \ {0}
  <1>1. /\ RangeInv(c[k], headIndex) /\ c[k].index \in Nat
        /\ c[k].moved \in Nat /\ c[k].items \in Seq(Nat) /\ Len(c[k].items) \in Nat
    BY FrameHeld, FrameFields
  <1> QED
    BY <1>1 DEF RangeInv, Start

(* A consumer that does not move its range leaves every position as it is. *)
LEMMA OthersSame ==
  ASSUME NEW k \in Consumers, Others(k), NEW i
  PROVE  /\ (\E j \in Consumers : Mine(c'[j], i)) <=>
               Mine(c'[k], i) \/ \E j \in Consumers : j # k /\ Mine(c[j], i)
         /\ (\E j \in Consumers : Counts(c'[j], i)) <=>
               Counts(c'[k], i) \/ \E j \in Consumers : j # k /\ Counts(c[j], i)
  BY DEF Others

(* A consumer that keeps its range opens and closes no position. *)
LEMMA OpenSame ==
  ASSUME NEW k \in Consumers, Others(k), headIndex' = headIndex,
         c[k].pc # "count", c'[k].pc # "count",
         \A i \in Int : Mine(c'[k], i) <=> Mine(c[k], i)
  PROVE  \A i \in Int : (Pending(i)' <=> Pending(i)) /\ (Open(i)' <=> Open(i))
  <1> TAKE i \in Int
  <1>1. Pending(i)' <=> Pending(i)
    BY OthersSame DEF Pending
  <1>2. Counting(i)' <=> Counting(i)
    <2>1. ~Counts(c[k], i) /\ ~Counts(c'[k], i)
      BY DEF Counts
    <2> QED
      BY <2>1, OthersSame DEF Counting
  <1> QED
    BY <1>1, <1>2 DEF Open

(* Neither does a step of enqueue(). *)
LEMMA OpenStill ==
  ASSUME UNCHANGED <<c, headIndex>>
  PROVE  \A i \in Int : (Pending(i)' <=> Pending(i)) /\ (Open(i)' <=> Open(i))
  BY DEF Pending, Counting, Open

(* A claim moves positions from the queue to a range.                      *)
LEMMA OpenClaimed ==
  ASSUME Outline, NEW k \in Consumers, ClaimElements(k)
  PROVE  \A i \in Int : (Pending(i)' <=> Pending(i)) /\ (Open(i)' <=> Open(i))
  <1>0. /\ FramesOK /\ CountersOK /\ c[k].pc = "first" /\ c[k] \in Frames /\ headIndex \in Nat
        /\ RangeInv(c[k], headIndex) /\ c[k].count \in 1 .. c[k].desired
        /\ c[k].desired \in Nat
    <2>1. FramesOK /\ CountersOK /\ c[k].pc = "first" /\ c[k] \in Frames /\ headIndex \in Nat
          /\ RangeInv(c[k], headIndex) /\ ClaimInv(c[k], overcommit)
      BY FrameHeld DEF Outline, Types, CountersOK, ClaimElements, At, CounterInv
    <2> QED
      BY <2>1, QueueAssumption DEF ClaimInv
  <1>1. /\ c'[k].pc = "header" /\ headIndex' = headIndex + c[k].count
        /\ c'[k].index = headIndex /\ c'[k].end = headIndex' /\ Others(k) /\ c[k].count \in Nat
    BY <1>0, ClaimElementsIs
  <1>2. c[k].index = 0 /\ c[k].end = 0
    BY <1>0 DEF RangeInv, Working, Looking
  <1> TAKE i \in Int
  <1>3. (i >= headIndex' \/ Mine(c'[k], i)) <=> i >= headIndex
    BY <1>0, <1>1 DEF Mine
  <1>4. ~Mine(c[k], i)
    BY <1>2 DEF Mine
  <1>5. Pending(i)' <=> Pending(i)
    BY <1>1, <1>3, <1>4, OthersSame DEF Pending
  <1>6. Counting(i)' <=> Counting(i)
    <2>1. ~Counts(c[k], i) /\ ~Counts(c'[k], i)
      BY <1>0, <1>1 DEF Counts
    <2> QED
      BY <1>1, <2>1, OthersSame DEF Counting
  <1> QED
    BY <1>5, <1>6 DEF Open

(* Elements that are moved out are counted next: they are open until then. *)
LEMMA OpenMoved ==
  ASSUME Outline, NEW k \in Consumers, Others(k), headIndex' = headIndex, c[k].pc = "move",
         NEW n \in Nat, c'[k].pc = "count", c'[k].moved = n, c'[k].index = c[k].index + n,
         c'[k].end = c[k].end, c[k].index + n <= c[k].end
  PROVE  \A i \in Int : /\ Pending(i)' <=> Pending(i) /\ ~(c[k].index <= i /\ i < c[k].index + n)
                        /\ Open(i)' <=> Open(i)
  <1>0. /\ c[k].pc \in Working /\ c[k].index \in Nat /\ c[k].end \in Nat /\ c[k].end <= headIndex
        /\ Start(c[k]) \in Nat /\ Start(c[k]) <= c[k].index /\ headIndex \in Nat
    <2>1. c[k].pc \in Working /\ headIndex \in Nat
      BY DEF Working, Looking, Outline, Types, CountersOK
    <2> QED
      BY <2>1, FrameHeld, StartIs
  <1> TAKE i \in Int
  <1> DEFINE out == c[k].index <= i /\ i < c[k].index + n
  <1>1. (Mine(c'[k], i) <=> Mine(c[k], i) /\ ~out) /\ (Counts(c'[k], i) <=> out) /\ ~Counts(c[k], i)
        /\ (out => Mine(c[k], i))
    BY <1>0 DEF Mine, Counts
  <1>2. out => i < headIndex /\ \A j \in Consumers : j # k => ~Mine(c[j], i)
    <2> HAVE out
    <2>1. Start(c[k]) <= i /\ i < c[k].end
      BY <1>0
    <2> QED
      BY <1>0, <2>1, Alone
  <1>3. Pending(i)' <=> Pending(i) /\ ~out
    <2>1. i >= headIndex => ~(i < headIndex)
      BY <1>0
    <2> HIDE DEF out
    <2> QED
      BY <1>1, <1>2, <2>1, OthersSame DEF Pending
  <1>4. Counting(i)' <=> Counting(i) \/ out
    <2> HIDE DEF out
    <2> QED
      BY <1>1, OthersSame DEF Counting
  <1>5. out => Pending(i)
    <2> HIDE DEF out
    <2> QED
      BY <1>1 DEF Pending
  <1> QED
    BY <1>3, <1>4, <1>5 DEF Open

(* What has been counted is closed.                                        *)
LEMMA OpenCounted ==
  ASSUME Outline, NEW k \in Consumers, Others(k), headIndex' = headIndex, c[k].pc = "count",
         c'[k].pc # "count", \A i \in Int : Mine(c'[k], i) <=> Mine(c[k], i)
  PROVE  \A i \in Int :
            /\ Pending(i)' <=> Pending(i)
            /\ Open(i)' <=> Open(i) /\ ~Counts(c[k], i)
            /\ Counts(c[k], i) => ~Pending(i)
  <1>0. /\ c[k].pc \in Working /\ c[k].index \in Nat /\ c[k].end \in Nat /\ c[k].end <= headIndex
        /\ Start(c[k]) \in Nat /\ Start(c[k]) <= c[k].index - c[k].moved /\ headIndex \in Nat
        /\ c[k].moved \in Nat /\ c[k].index <= c[k].end
    <2>1. c[k].pc \in Working /\ headIndex \in Nat
      BY DEF Working, Looking, Outline, Types, CountersOK
    <2> QED
      BY <2>1, FrameHeld, StartIs
  <1> TAKE i \in Int
  <1>1. Pending(i)' <=> Pending(i)
    BY OthersSame DEF Pending
  <1>2. Counts(c[k], i) => /\ i < headIndex
                           /\ \A j \in Consumers : j # k => ~Mine(c[j], i) /\ ~Counts(c[j], i)
    <2> HAVE Counts(c[k], i)
    <2>1. Start(c[k]) <= i /\ i < c[k].end
      BY <1>0 DEF Counts
    <2> QED
      BY <1>0, <2>1, Alone
  <1>3. Counts(c[k], i) => ~Pending(i)
    <2>1. Counts(c[k], i) => ~Mine(c[k], i) /\ ~(i >= headIndex)
      BY <1>0, <1>2 DEF Counts, Mine
    <2> QED
      BY <1>2, <2>1 DEF Pending
  <1>4. Counting(i)' <=> Counting(i) /\ ~Counts(c[k], i)
    <2>1. ~Counts(c'[k], i)
      BY DEF Counts
    <2> QED
      BY <1>2, <2>1, OthersSame DEF Counting
  <1> QED
    BY <1>1, <1>3, <1>4 DEF Open

(* The blocks: which entries lead to which, what each consumer finds, and  *)
(* what is in memory.                                                      *)
BlocksInv == LinkInv /\ WorkInv /\ MemoryInv /\ ItemsInv

(* The last position with a block, as a number. *)
LEMMA LatestIs ==
  ASSUME Outline
  PROVE  /\ Latest \in Int /\ tailIndex - 1 <= Latest /\ Latest <= tailIndex
         /\ Base(Latest) \in Int /\ Latest < Base(Latest) + BlockSize /\ Base(Latest) <= Latest
         /\ headIndex \in Nat /\ tailIndex \in Nat /\ headIndex <= tailIndex
         /\ BlockSize \in Nat \ {0, 1}
  <1>1. tailIndex \in Nat /\ headIndex \in Nat /\ headIndex <= tailIndex
    BY DEF Outline, Types, CountersOK, CounterInv
  <1>2. Latest \in Int /\ tailIndex - 1 <= Latest /\ Latest <= tailIndex
    BY <1>1 DEF Latest
  <1> QED
    BY <1>1, <1>2, BaseIs, QueueAssumption

(* Steps of enqueue() that change nothing that a reader of the index finds.*)
SameLinks ==
    /\ DOMAIN entries \subseteq DOMAIN entries'
    /\ \A e \in DOMAIN entries' : Links(e)' <=> e \in DOMAIN entries /\ Links(e)
    /\ \A e \in DOMAIN entries : Links(e) =>
          entries'[e].key = entries[e].key /\ entries'[e].value = entries[e].value
    /\ \A e \in DOMAIN entries : Keyed(e) => Keyed(e)'
SameRings == \A g \in DOMAIN headers : headers'[g].index = headers[g].index

(* The same links lead to the same blocks. *)
LEMMA LinkedSame ==
  ASSUME SameLinks
  PROVE  /\ \A e, b : IsLinkOf(e, b)' <=> IsLinkOf(e, b)
         /\ \A b \in Blocks : IsLinked(b)' <=> IsLinked(b)
  <1>1. \A e, b : IsLinkOf(e, b)' <=> IsLinkOf(e, b)
    BY DEF SameLinks, IsLinkOf, Links, Key
  <1>2. \A b \in Blocks : IsLinked(b)' <=> IsLinked(b)
    BY DEF SameLinks, IsLinked, Links
  <1> QED
    BY <1>1, <1>2

(* Links are kept by a step of enqueue() that leaves them alone. *)
LEMMA LinkSame ==
  ASSUME Outline, Outline', LinkInv, SameLinks, UNCHANGED <<c, headIndex, tailBlock>>,
         Latest <= Latest', Base(Latest') = Base(Latest)
  PROVE  LinkInv'
  <1>0. /\ Latest \in Int /\ Latest' \in Int /\ BlockSize \in Int
        /\ \A i \in Int : Open(i)' <=> Open(i)
    <2>1. Latest \in Int /\ BlockSize \in Int
      BY LatestIs
    <2>2. Latest' \in Int
      BY DEF Outline, Types, CountersOK, Latest
    <2> QED
      BY <2>1, <2>2, OpenStill
  <1>1. ASSUME NEW e \in DOMAIN entries', Links(e)'
        PROVE  LinkOK(e)'
    <2>1. /\ e \in DOMAIN entries /\ Links(e) /\ LinkOK(e)
          /\ entries'[e].key = entries[e].key /\ entries'[e].value = entries[e].value
      BY <1>1 DEF SameLinks, LinkInv
    <2>2. Key(e)' = Key(e) /\ Key(e) \in Int
      BY <2>1 DEF Key, LinkOK
    <2>3. (\E i \in Of(Key(e)) : Open(i)) => \E i \in Of(Key(e)') : Open(i)'
      BY <1>0, <2>2 DEF Of
    <2>4. Unlinking(entries[e].value) => Unlinking(entries[e].value)'
      BY <2>1 DEF Unlinking
    <2>5. Key(e)' <= Latest' /\ (Latest' < Key(e)' + BlockSize => entries'[e].value = tailBlock')
      BY <1>0, <2>1, <2>2 DEF LinkOK
    <2> QED
      BY <2>1, <2>2, <2>3, <2>4, <2>5 DEF LinkOK
  <1>2. \A d, e \in DOMAIN entries' :
          (/\ Links(d)' /\ Links(e)'
           /\ Key(d)' = Key(e)' \/ entries'[d].value = entries'[e].value) => d = e
    BY DEF LinkInv, SameLinks, Key
  <1>3. \A i \in 0 .. Base(Latest') + BlockSize - 1 : Open(i)' => \E e : IsLinkOf(e, Base(i))'
    <2> SUFFICES ASSUME NEW i \in 0 .. Base(Latest) + BlockSize - 1, Open(i)'
                 PROVE  \E e : IsLinkOf(e, Base(i))'
      OBVIOUS
    <2>1. i \in Int
      OBVIOUS
    <2>2. \E e : IsLinkOf(e, Base(i))
      BY <1>0, <2>1 DEF LinkInv
    <2> QED
      BY <2>2, LinkedSame
  <1> QED
    BY <1>1, <1>2, <1>3 DEF LinkInv

(* What a consumer at rest finds, when others change the index: the links  *)
(* it needs are those to blocks with open positions, and the one it is     *)
(* about to take out.                                                      *)
Needs(k, e) == /\ Links(e)
               /\ \/ \E i \in Of(Key(e)) : Open(i)
                  \/ c[k].pc = "unlink" /\ e = EntryOf(k)
KeepsLinks(k) ==
    /\ DOMAIN entries \subseteq DOMAIN entries'
    /\ \A e \in DOMAIN entries : Keyed(e) => Keyed(e)'
    /\ \A e \in DOMAIN entries : Needs(k, e) =>
          entries'[e].key = entries[e].key /\ entries'[e].value = entries[e].value

(* The positions of a consumer are open. *)
LEMMA MineOpen ==
  ASSUME NEW k \in Consumers, NEW i, Mine(c[k], i) \/ Counts(c[k], i)
  PROVE  Open(i)
  BY DEF Open, Pending, Counting

(* A link that is needed is kept. *)
LEMMA NeededLink ==
  ASSUME NEW k \in Consumers, NEW e, KeepsLinks(k), NEW i \in Int, IsLinkOf(e, Base(i)),
         Open(i) \/ (c[k].pc = "unlink" /\ e = EntryOf(k))
  PROVE  IsLinkOf(e, Base(i))' /\ entries'[e].value = entries[e].value
  <1>1. e \in DOMAIN entries /\ Links(e) /\ Key(e) = Base(i)
    BY DEF IsLinkOf
  <1>2. i \in Of(Key(e))
    <2>1. Base(i) \in Int /\ Base(i) <= i /\ i < Base(i) + BlockSize /\ BlockSize \in Int
      BY BaseIs, QueueAssumption
    <2> QED
      BY <1>1, <2>1 DEF Of
  <1>3. Needs(k, e)
    BY <1>1, <1>2 DEF Needs
  <1>4. /\ entries'[e].key = entries[e].key /\ entries'[e].value = entries[e].value
        /\ e \in DOMAIN entries'
    BY <1>1, <1>3 DEF KeepsLinks
  <1> QED
    BY <1>1, <1>4 DEF IsLinkOf, Links, Key

(* A consumer goes on to find what it found, if the links it needs are     *)
(* kept.                                                                   *)
LEMMA LookKept ==
  ASSUME Outline, NEW k \in Consumers, c[k].pc \in Looking, LookInv(k), c'[k] = c[k],
         SameRings, KeepsLinks(k), \A i \in Int : Open(i)' => Open(i),
         c[k].pc = "free" => /\ \A e \in DOMAIN entries' : entries'[e].value # c[k].block
                             /\ Busy({"publish"})' => producer'.block # c[k].block
  PROVE  LookInv(k)'
  <1>0. /\ c[k].header \in DOMAIN headers /\ c[k].slot \in Int /\ c[k].index \in Nat
        /\ c[k].end \in Nat /\ RangeInv(c[k], headIndex)
    BY FrameHeld, FrameFields
  <1>1. Reach(k)' = Reach(k) /\ \A s : Entry(headers[c[k].header], s)' = Entry(headers[c[k].header], s)
    BY <1>0 DEF SameRings, Reach, Capacity, Entry
  <1>2. EntryOf(k)' = EntryOf(k) /\ After(k)' = After(k)
    BY <1>0, <1>1 DEF EntryOf, After, Header
  <1>3. EntryOf(k) \in DOMAIN entries
    BY <1>0, FrameHeld DEF EntryOf
  <1>4. PICK n : n = EntryOf(k)
    OBVIOUS
  <1>5. PICK a : a = After(k)
    OBVIOUS
  <1>6. PICK i : i = c[k].index
    OBVIOUS
  <1>7. PICK b : b = Base(c[k].index) /\ b = Base(i)
    BY <1>6
  <1>8. PICK p : p = Base(c[k].index - 1) /\ p = Base(i - 1)
    BY <1>6
  <1>9. n = EntryOf(k)' /\ a = After(k)' /\ i = c'[k].index /\ b = Base(c'[k].index)
        /\ p = Base(c'[k].index - 1)
    BY <1>2, <1>4, <1>5, <1>6, <1>7, <1>8
  <1>10. i \in Int /\ i - 1 \in Int /\ (i < c[k].end => Open(i))
    <2>1. i < c[k].end => Mine(c[k], i)
      BY <1>0, <1>6 DEF Mine
    <2> QED
      BY <1>0, <1>6, <2>1, MineOpen
  <1>11. \A x \in c'[k].index .. c'[k].end - 1 : \E e \in 1 .. Reach(k)' : IsLinkOf(e, Base(x))'
    <2> SUFFICES ASSUME NEW x \in c[k].index .. c[k].end - 1
                 PROVE  \E e \in 1 .. Reach(k) : IsLinkOf(e, Base(x))'
      BY <1>1
    <2>1. PICK e \in 1 .. Reach(k) : IsLinkOf(e, Base(x))
      BY DEF LookInv
    <2>2. x \in Int /\ Mine(c[k], x)
      BY <1>0 DEF Mine
    <2>3. IsLinkOf(e, Base(x))'
      BY <2>1, <2>2, MineOpen, NeededLink
    <2> QED
      BY <2>3
  <1>12. c'[k].pc = "key" => Keyed(EntryOf(k))'
    <2> HAVE c'[k].pc = "key"
    <2>1. Keyed(n) /\ n \in DOMAIN entries
      BY <1>3, <1>4 DEF LookInv
    <2>2. Keyed(n)'
      BY <2>1 DEF KeepsLinks
    <2> QED
      BY <1>9, <2>2 DEF Keyed, Key
  <1>13. c'[k].pc = "move" => IsLinkOf(EntryOf(k), Base(c[k].index))'
    <2> HAVE c'[k].pc = "move"
    <2>1. IsLinkOf(n, b) /\ Open(i)
      BY <1>0, <1>4, <1>6, <1>7, <1>10 DEF LookInv, RangeInv
    <2>2. IsLinkOf(n, b)'
      <3>1. IsLinkOf(n, Base(i))
        BY <1>7, <2>1
      <3>2. IsLinkOf(n, Base(i))'
        BY <1>10, <2>1, <3>1, NeededLink
      <3> QED
        BY <1>7, <3>2
    <2> QED
      BY <1>9, <2>2 DEF IsLinkOf, Links, Key
  <1>14. c'[k].pc \in {"count", "unlink"} =>
           IsLinkOf(EntryOf(k), Base(c[k].index - 1))' /\ entries[EntryOf(k)].value' = c'[k].block
    <2> HAVE c'[k].pc \in {"count", "unlink"}
    <2>1. IsLinkOf(n, Base(i - 1)) /\ entries[n].value = c[k].block
      BY <1>4, <1>8 DEF LookInv
    <2>2. c[k].pc = "count" => Open(i - 1)
      <3> HAVE c[k].pc = "count"
      <3>1. c[k].moved \in Nat \ {0}
        BY StartIs DEF Working
      <3>2. Counts(c[k], i - 1)
        BY <1>6, <1>10, <3>1 DEF Counts
      <3> QED
        BY <3>2, MineOpen
    <2>3. IsLinkOf(n, Base(i - 1))' /\ entries'[n].value = entries[n].value
      BY <1>4, <1>10, <2>1, <2>2, NeededLink
    <2> QED
      BY <1>8, <1>9, <2>1, <2>3 DEF IsLinkOf, Links, Key
  <1>15. (c'[k].pc \in {"count", "unlink", "free"} /\ c'[k].index < c'[k].end) =>
           IsLinkOf(After(k), c[k].index)'
    <2> HAVE c'[k].pc \in {"count", "unlink", "free"} /\ c'[k].index < c'[k].end
    <2>1. IsLinkOf(a, i) /\ Open(i)
      BY <1>5, <1>6, <1>10 DEF LookInv
    <2>2. Base(i) = i
      <3>1. AtBlockStart(i)
        BY <1>0, <1>6 DEF RangeInv
      <3> QED
        BY <1>10, <3>1, BaseIs
    <2>3. IsLinkOf(a, Base(i))'
      BY <1>10, <2>1, <2>2, NeededLink
    <2> QED
      BY <1>9, <2>2, <2>3 DEF IsLinkOf, Links, Key
  <1>16. Reclaiming(k)' => \A x \in Of(Base(c'[k].index - 1)) : ~Open(x)'
    <2>1. p \in Int /\ (Reclaiming(k)' <=> Reclaiming(k))
      BY <1>8, <1>10, BaseIs DEF Reclaiming
    <2>2. Reclaiming(k) => \A x \in Of(p) : ~Open(x)
      BY <1>8 DEF LookInv
    <2>3. \A x \in Of(p) : x \in Int
      BY <2>1, QueueAssumption DEF Of
    <2> QED
      BY <1>9, <2>1, <2>2, <2>3
  <1> QED
    BY <1>11, <1>12, <1>13, <1>14, <1>15, <1>16 DEF LookInv

(* So do all of them, if all links are kept. *)
LEMMA WorkSame ==
  ASSUME Outline, WorkInv, SameLinks, SameRings, UNCHANGED <<c, headIndex>>,
         ~Busy({"publish"})'
  PROVE  WorkInv'
  <1>1. ASSUME NEW k \in Consumers, c[k].pc \in Looking
        PROVE  LookInv(k)'
    <2>1. LookInv(k) /\ KeepsLinks(k)
      BY <1>1 DEF WorkInv, SameLinks, KeepsLinks, Needs
    <2>2. c[k].pc = "free" => \A e \in DOMAIN entries' : entries'[e].value # c[k].block
      <3> HAVE c[k].pc = "free"
      <3>1. \A e \in DOMAIN entries : entries[e].value # c[k].block
        BY <2>1 DEF LookInv
      <3>2. c[k].block \in Blocks
        BY FrameHeld DEF RangeInv
      <3> QED
        BY <3>1, <3>2 DEF SameLinks, Links
    <2> QED
      BY <1>1, <2>1, <2>2, OpenStill, LookKept
  <1>2. \A j, k \in Consumers : (j # k /\ Reclaiming(j) /\ Reclaiming(k))' =>
         /\ Base(c'[j].index - 1) # Base(c'[k].index - 1)
         /\ c'[j].block # c'[k].block
    BY DEF WorkInv, Reclaiming
  <1> QED
    BY <1>1, <1>2 DEF WorkInv

(* The block of an entry, when nobody moves anything in it or out of it.   *)
LEMMA HoldsSame ==
  ASSUME NEW e, Holds(e), Key(e) \in Int, entries'[e].key = entries[e].key,
         entries'[e].value = entries[e].value,
         completed'[entries[e].value] = completed[entries[e].value],
         elements'[entries[e].value] = elements[entries[e].value],
         \A i \in Of(Key(e)) : (Open(i)' <=> Open(i)) /\ Content(i)' = Content(i)
  PROVE  Holds(e)'
  <1>1. PICK n \in Int : n = Key(e)
    OBVIOUS
  <1>2. PICK b : b = entries[e].value
    OBVIOUS
  <1>3. n = Key(e)' /\ b = entries'[e].value /\ completed'[b] = completed[b]
        /\ elements'[b] = elements[b]
    BY <1>1, <1>2 DEF Key
  <1>4. Closed(n)' = Closed(n)
    BY <1>1 DEF Closed, Of
  <1>5. completed[b] = Cardinality(Closed(n)) /\ \A i \in Of(n) : elements[b][i - n] = Content(i)
    BY <1>1, <1>2 DEF Holds
  <1>6. completed'[b] = Cardinality(Closed(n)')
    BY <1>3, <1>4, <1>5
  <1>7. \A i \in Of(n) : elements'[b][i - n] = Content(i)'
    BY <1>1, <1>3, <1>5
  <1> QED
    BY <1>3, <1>6, <1>7 DEF Holds, Closed, Of

(* The positions of a linked block.                                        *)
LEMMA LinkIs ==
  ASSUME Outline, LinkInv, NEW e \in DOMAIN entries, Links(e)
  PROVE  /\ Key(e) \in Nat /\ AtBlockStart(Key(e)) /\ entries[e].value \in Blocks
         /\ Of(Key(e)) \subseteq Nat
         /\ \A i \in Of(Key(e)) : Base(i) = Key(e)
         /\ \A i \in Int : Base(i) = Key(e) => i \in Of(Key(e))
  <1>1. Key(e) \in Nat /\ AtBlockStart(Key(e)) /\ entries[e].value \in Blocks /\ BlockSize \in Nat
    BY QueueAssumption DEF LinkInv, LinkOK, Links
  <1>2. Of(Key(e)) \subseteq Nat /\ Of(Key(e)) \subseteq Int
    BY <1>1 DEF Of
  <1>3. ASSUME NEW i \in Of(Key(e)) PROVE Base(i) = Key(e)
    <2>1. i \in Int /\ Key(e) <= i /\ i < Key(e) + BlockSize /\ Key(e) \in Int
      BY <1>1 DEF Of
    <2> QED
      BY <1>1, <2>1, OneBase
  <1>4. ASSUME NEW i \in Int, Base(i) = Key(e) PROVE i \in Of(Key(e))
    BY <1>1, <1>4, BaseIs DEF Of
  <1> QED
    BY <1>1, <1>2, <1>3, <1>4

(* Memory that is left alone still holds what the positions ask for. *)
LEMMA MemoryLeft ==
  ASSUME Outline, LinkInv, MemoryInv, SameLinks, UNCHANGED <<c, headIndex, memory>>,
         ~Busy({"publish"}), ~Busy({"publish"})', \A i \in Int : Stored(i)' <=> Stored(i)
  PROVE  MemoryInv'
  <1>0. /\ \A i \in Int : (Pending(i)' <=> Pending(i)) /\ (Open(i)' <=> Open(i))
        /\ \A b \in Blocks : IsLinked(b)' <=> IsLinked(b)
        /\ UNCHANGED <<home, elements, completed>>
    BY OpenStill, LinkedSame DEF memory
  <1>1. \A i \in Int : Content(i)' = Content(i)
    BY <1>0 DEF Content
  <1>2. \A b \in Blocks : IsUsed(b)' <=> IsUsed(b)
    BY <1>0 DEF IsUsed, Busy
  <1>3. ASSUME NEW e \in DOMAIN entries', Links(e)' PROVE Holds(e)'
    <2>1. /\ e \in DOMAIN entries /\ Links(e) /\ Holds(e)
          /\ entries'[e].key = entries[e].key /\ entries'[e].value = entries[e].value
      BY <1>3 DEF SameLinks, MemoryInv
    <2>2. Key(e) \in Int /\ \A i \in Of(Key(e)) : i \in Int
      BY <2>1, LinkIs
    <2> QED
      BY <1>0, <1>1, <2>1, <2>2, HoldsSame
  <1> QED
    BY <1>0, <1>2, <1>3 DEF MemoryInv

(* A step of enqueue() that leaves blocks, links and rings alone keeps the *)
(* blocks in order.                                                        *)
LEMMA QuietBlocks ==
  ASSUME Outline, Outline', BlocksInv, SameLinks, SameRings,
         UNCHANGED <<c, headIndex, memory, tailBlock>>,
         ~Busy({"publish"}), ~Busy({"publish"})', \A i \in Int : Stored(i)' <=> Stored(i),
         Latest <= Latest', Base(Latest') = Base(Latest)
  PROVE  BlocksInv'
  <1>1. LinkInv' /\ WorkInv' /\ MemoryInv'
    BY LinkSame, WorkSame, MemoryLeft DEF BlocksInv
  <1>2. ItemsInv'
    BY DEF BlocksInv, ItemsInv
  <1> QED
    BY <1>1, <1>2 DEF BlocksInv

(* An index that is left alone has the same links and rings. *)
LEMMA IndexLeft ==
  ASSUME UNCHANGED index
  PROVE  SameLinks /\ SameRings
  BY DEF index, SameLinks, SameRings, Links, Keyed, Key

(* The steps of enqueue() that leave index and memory as they are.         *)
LEMMA IdleBlocks ==
  ASSUME Outline, Outline', BlocksInv,
         \/ Enqueue \/ CreateFails \/ HashProducer \/ NoIndex \/ NewBlockIndexFails
         \/ RequisitionFails \/ StoreTail
  PROVE  BlocksInv'
  <1>0. /\ ProducerOK /\ CountersOK /\ ProducerInv /\ tailIndex \in Int /\ tailIndex \in Nat
        /\ tailIndex + 1 - 1 = tailIndex
    BY DEF Outline, Types, CountersOK
  <1>1. CASE Enqueue
    <2>1. /\ producer.pc = "idle"
          /\ producer'.pc = IF hashed THEN FirstStep(tailIndex) ELSE "create"
          /\ UNCHANGED <<index, headIndex, tailIndex, memory, tailBlock, c>>
      BY <1>0, <1>1, EnqueueIs DEF Goes, counters
    <2>3. ~Busy({"publish"}) /\ ~Busy({"publish"})' /\ \A i \in Int : Stored(i)' <=> Stored(i)
      BY <2>1 DEF Busy, FirstStep, Stored
    <2>4. ~AtBlockStart(tailIndex) => Base(tailIndex - 1) = Base(tailIndex)
      BY <1>0, BaseBefore
    <2>5. Latest = tailIndex - 1
          /\ Latest' = IF hashed /\ ~AtBlockStart(tailIndex) THEN tailIndex ELSE tailIndex - 1
      BY <2>1 DEF Latest, Busy, FirstStep
    <2>6. Latest <= Latest' /\ Base(Latest') = Base(Latest)
      <3>1. Base(Latest') = Base(Latest)
        BY <2>4, <2>5
      <3> QED
        BY <1>0, <2>5, <3>1
    <2> QED
      BY <2>1, <2>3, <2>6, IndexLeft, QuietBlocks
  <1>2. CASE CreateFails \/ HashProducer \/ NoIndex \/ NewBlockIndexFails \/ RequisitionFails
    <2>1. /\ producer.pc \in {"create", "hash", "insert", "requisition"}
          /\ producer'.pc \in {"idle", "rewind", FirstStep(tailIndex)}
          /\ producer'.pc \in {"idle", "rewind"} \/ producer.pc = "hash"
          /\ UNCHANGED <<index, headIndex, tailIndex, memory, tailBlock, c>>
      BY <1>0, <1>2, CreateFailsIs, HashProducerIs, NoIndexIs, NewBlockIndexFailsIs,
         RequisitionFailsIs DEF Goes, counters
    <2>2. producer'.pc \in {"idle", "insert", "rewind"}
      BY <1>0, <2>1, ZeroStarts DEF ProducerInv, Busy, FirstStep
    <2>3. ~Busy({"publish"}) /\ ~Busy({"publish"})' /\ (\A i \in Int : Stored(i)' <=> Stored(i))
          /\ Latest = tailIndex - 1 /\ Latest' = tailIndex - 1
      BY <2>1, <2>2 DEF Busy, Stored, Latest
    <2>4. Latest <= Latest' /\ Base(Latest') = Base(Latest)
      BY <1>0, <2>3
    <2> QED
      BY <2>1, <2>3, <2>4, IndexLeft, QuietBlocks
  <1>4. CASE StoreTail
    <2>1. /\ producer.pc = "store" /\ producer'.pc = "idle" /\ tailIndex' = producer.tail + 1
          /\ UNCHANGED <<index, headIndex, memory, tailBlock, c>>
      BY <1>0, <1>4, StoreTailIs DEF Goes, counters
    <2>2. tailIndex' = tailIndex + 1
      BY <1>0, <2>1 DEF ProducerInv, Busy
    <2>3. ~Busy({"publish"}) /\ ~Busy({"publish"})' /\ Latest = tailIndex /\ Latest' = tailIndex' - 1
      BY <2>1 DEF Busy, Latest
    <2>4. \A i \in Int : Stored(i)' <=> Stored(i)
      BY <1>0, <2>1, <2>2 DEF Stored, Busy
    <2>5. Latest <= Latest' /\ Base(Latest') = Base(Latest)
      BY <1>0, <2>2, <2>3
    <2> QED
      BY <2>1, <2>3, <2>4, <2>5, IndexLeft, QuietBlocks
  <1> QED
    BY <1>1, <1>2, <1>4

(* The steps of enqueue() that change the index, but no link in it.        *)
LEMMA UnlinkedChange ==
  ASSUME IndexOK, NEW n \in DOMAIN entries, ~Links(n), ~Links(n)', Keyed(n)',
         DOMAIN entries' = DOMAIN entries,
         \A e \in DOMAIN entries : e # n => entries'[e] = entries[e]
  PROVE  SameLinks
  <1>1. \A e \in DOMAIN entries' : Links(e)' <=> e \in DOMAIN entries /\ Links(e)
    BY DEF Links
  <1>2. \A e \in DOMAIN entries : Links(e) =>
          entries'[e].key = entries[e].key /\ entries'[e].value = entries[e].value
    OBVIOUS
  <1>3. \A e \in DOMAIN entries : Keyed(e) => Keyed(e)'
    BY DEF Keyed, Key
  <1> QED
    BY <1>1, <1>2, <1>3 DEF SameLinks

(* Making the producer keeps the blocks in order. *)
LEMMA FirstBlocks ==
  ASSUME Outline, Outline', BlocksInv, CreateProducer
  PROVE  BlocksInv'
  <1>0. ProducerOK /\ CountersOK /\ IndexOK /\ HeldOK /\ ProducerInv
    BY DEF Outline, Types
  <1>1. /\ Goes("create", "hash", producer.tail, producer.entry, producer.block)
        /\ UNCHANGED <<hashed, counters, memory, tailBlock>>
    BY <1>0, CreateProducerIs
  <1>2. headers = << >> /\ entries = << >> /\ UNCHANGED <<headIndex, tailIndex, c>>
    BY <1>0, <1>1 DEF ProducerInv, Busy, Goes, counters
  <1>3. /\ ~Busy({"publish"}) /\ ~Busy({"publish"})' /\ \A i \in Int : Stored(i)' <=> Stored(i)
        /\ Latest' = Latest
    BY <1>1, <1>2 DEF Busy, Goes, Stored, Latest
  <1>4. SameLinks /\ SameRings
    <2>1. CASE UNCHANGED index
      BY <2>1, IndexLeft
    <2>2. CASE /\ entries' = [e \in 1 .. InitialIndexSize |-> FreshEntry]
               /\ headers' = <<[tail |-> InitialIndexSize - 1,
                                index |-> [s \in 1 .. InitialIndexSize |-> s]]>>
      <3>1. DOMAIN entries = {} /\ DOMAIN headers = {}
        BY <1>2
      <3>2. \A e \in DOMAIN entries' : ~Links(e)'
        BY <2>2, BlocksAre DEF Links, FreshEntry
      <3> QED
        BY <3>1, <3>2 DEF SameLinks, SameRings
    <2> QED
      BY <1>0, <2>1, <2>2, CreateProducerIs
  <1>5. Latest <= Latest' /\ Base(Latest') = Base(Latest)
    BY <1>3, LatestIs
  <1> QED
    BY <1>1, <1>2, <1>3, <1>4, <1>5, QuietBlocks

(* So does storing a key: its entry leads nowhere. *)
LEMMA StoreKeyBlocks ==
  ASSUME Outline, Outline', IndexInv, BlocksInv, StoreKey
  PROVE  BlocksInv'
  <1>0. /\ ProducerOK /\ CountersOK /\ IndexOK /\ HeadersOK /\ ProducerInv /\ RingInv /\ EntryInv
        /\ tailIndex \in Nat /\ headers # << >>
    BY DEF Outline, Types, IndexInv, CountersOK, StoreKey
  <1>1. NextEntry \in DOMAIN entries /\ NextEntry \in Nat
    BY <1>0, BlockIndexIs
  <1>2. /\ SlotIsFree /\ producer.pc \in {"insert", "grown"}
        /\ Goes(producer.pc, "advance", producer.tail, NextEntry, producer.block)
        /\ entries' = [entries EXCEPT ![NextEntry].key = producer.tail]
        /\ UNCHANGED <<headers, headIndex, tailIndex, memory, tailBlock, c>>
    BY <1>0, <1>1, StoreKeyIs, StoredSlotIsFree DEF counters, Goes
  <1>3. /\ producer.pc \in {"insert", "grown"} /\ producer'.pc = "advance"
        /\ producer.tail = tailIndex /\ AtBlockStart(tailIndex)
    BY <1>0, <1>2 DEF Goes, ProducerInv, Busy
  <1>4. PICK n : n = NextEntry
    OBVIOUS
  <1>5. /\ DOMAIN entries' = DOMAIN entries
        /\ \A e \in DOMAIN entries : e # n => entries'[e] = entries[e]
    <2>1. \E v \in Nat : entries' = [entries EXCEPT ![n].key = v]
      BY <1>0, <1>2, <1>3, <1>4
    <2> QED
      BY <1>0, <2>1, EntryAssigned
  <1>6. n \in DOMAIN entries /\ entries'[n].key = tailIndex /\ entries'[n].value = entries[n].value
    BY <1>0, <1>1, <1>2, <1>3, <1>4, EntryWritten
  <1>7. ~Links(n)
    <2>1. entries[n].value = NoBlock => ~Links(n)
      BY BlocksAre DEF Links
    <2>2. entries[n].key = InvalidKey => ~Links(n)
      BY <1>0, <1>6 DEF RingInv, Keyed, Key
    <2> QED
      BY <1>2, <1>4, <2>1, <2>2 DEF SlotIsFree
  <1>8. ~Links(n)' /\ Keyed(n)'
    <2>1. tailIndex # InvalidKey
      BY <1>0, <1>3, BlocksFollow
    <2> QED
      BY <1>6, <1>7, <2>1 DEF Links, Keyed, Key
  <1>9. SameLinks /\ SameRings
    BY <1>0, <1>2, <1>5, <1>6, <1>7, <1>8, UnlinkedChange DEF SameRings
  <1>10. /\ ~Busy({"publish"}) /\ ~Busy({"publish"})' /\ \A i \in Int : Stored(i)' <=> Stored(i)
         /\ Latest' = Latest
    BY <1>2, <1>3 DEF Busy, Stored, Latest
  <1>11. Latest <= Latest' /\ Base(Latest') = Base(Latest)
    BY <1>10, LatestIs
  <1> QED
    BY <1>2, <1>9, <1>10, <1>11, QuietBlocks

(* So does moving the tail of the index. *)
LEMMA TailBlocks ==
  ASSUME Outline, Outline', BlocksInv, AdvanceTail \/ RewindTail
  PROVE  BlocksInv'
  <1>0. ProducerOK /\ CountersOK /\ IndexOK /\ HeadersOK /\ ProducerInv
    BY DEF Outline, Types
  <1>1. /\ producer.pc \in {"advance", "rewind"} /\ producer'.pc \in {"requisition", "retract"}
        /\ MoveTail(1) \/ MoveTail(-1)
        /\ UNCHANGED <<entries, headIndex, tailIndex, memory, tailBlock, c>>
    BY <1>0, AdvanceTailIs, RewindTailIs DEF Goes, counters
  <1>2. headers # << >>
    BY <1>0, <1>1 DEF ProducerInv, Busy
  <1>3. SameRings
    <2>1. 1 \in Int /\ -1 \in Int
      OBVIOUS
    <2> QED
      BY <1>0, <1>1, <1>2, <2>1, MoveTailIs DEF SameRings
  <1>4. SameLinks
    BY <1>1 DEF SameLinks, Links, Keyed, Key
  <1>5. /\ ~Busy({"publish"}) /\ ~Busy({"publish"})' /\ \A i \in Int : Stored(i)' <=> Stored(i)
        /\ Latest' = Latest
    BY <1>1 DEF Busy, Stored, Latest
  <1>6. Latest <= Latest' /\ Base(Latest') = Base(Latest)
    BY <1>5, LatestIs
  <1> QED
    BY <1>1, <1>3, <1>4, <1>5, <1>6, QuietBlocks

(* So does doubling the index. *)
LEMMA LargerBlocks ==
  ASSUME Outline, Outline', BlocksInv, NewBlockIndex
  PROVE  BlocksInv'
  <1>0. ProducerOK /\ CountersOK /\ IndexOK /\ HeadersOK /\ HeldOK
    BY DEF Outline, Types
  <1>1. /\ producer.pc = "insert" /\ producer'.pc = "grown" /\ headers # << >>
        /\ UNCHANGED <<headIndex, tailIndex, memory, tailBlock, c>>
    BY <1>0, NewBlockIndexIs DEF Goes, counters
  <1> DEFINE n == Capacity(blockIndex)
  <1>2. /\ entries' \in Seq(EntryRecords) /\ Len(entries') = Len(entries) + n
        /\ \A e \in DOMAIN entries : entries'[e] = entries[e]
        /\ \A e \in DOMAIN entries' : e \notin DOMAIN entries => entries'[e] = FreshEntry
        /\ \A g \in DOMAIN headers : headers'[g] = headers[g]
    BY <1>0, <1>1, LargerIndex
  <1>3. DOMAIN entries \subseteq DOMAIN entries'
    <2>1. DOMAIN entries = 1 .. Len(entries) /\ Len(entries) \in Nat /\ n \in Nat
      BY <1>0, <1>1, BlockIndexIs
    <2>2. DOMAIN entries' = 1 .. Len(entries')
      BY <1>2
    <2> HIDE DEF n
    <2> QED
      BY <1>2, <2>1, <2>2
  <1> HIDE DEF n
  <1>4. SameRings
    BY <1>2 DEF SameRings
  <1>5. SameLinks
    <2>1. \A e \in DOMAIN entries' : Links(e)' <=> e \in DOMAIN entries /\ Links(e)
      <3> TAKE e \in DOMAIN entries'
      <3>1. CASE e \in DOMAIN entries
        BY <1>2, <3>1 DEF Links
      <3>2. CASE e \notin DOMAIN entries
        BY <1>2, <3>2, BlocksAre DEF Links, FreshEntry
      <3> QED
        BY <3>1, <3>2
    <2> QED
      BY <1>2, <1>3, <2>1 DEF SameLinks, Keyed, Key
  <1>6. /\ ~Busy({"publish"}) /\ ~Busy({"publish"})' /\ \A i \in Int : Stored(i)' <=> Stored(i)
        /\ Latest' = Latest
    BY <1>1 DEF Busy, Stored, Latest
  <1>7. Latest <= Latest' /\ Base(Latest') = Base(Latest)
    BY <1>6, LatestIs
  <1> QED
    BY <1>1, <1>4, <1>5, <1>6, <1>7, QuietBlocks

(* So does the way back after a failure. *)
LEMMA RetractBlocks ==
  ASSUME Outline, Outline', IndexInv, BlocksInv, Retract
  PROVE  BlocksInv'
  <1>0. ProducerOK /\ CountersOK /\ IndexOK /\ EntryInv /\ tailIndex \in Int /\ ProducerInv
    BY DEF Outline, Types, IndexInv, CountersOK
  <1>1. /\ producer.pc = "retract" /\ producer'.pc = "idle"
        /\ entries' = [entries EXCEPT ![producer.entry].value = NoBlock]
        /\ UNCHANGED <<headers, headIndex, tailIndex, memory, tailBlock, c>>
    BY RetractIs DEF Goes, counters
  <1>2. PICK n : n = producer.entry
    OBVIOUS
  <1>3. n \in DOMAIN entries /\ Key(n) = tailIndex /\ ~Links(n) /\ AtBlockStart(tailIndex)
    BY <1>0, <1>1, <1>2 DEF EntryInv, Busy, Inserting, ProducerInv
  <1>4. /\ DOMAIN entries' = DOMAIN entries
        /\ \A e \in DOMAIN entries : e # n => entries'[e] = entries[e]
    <2>1. \E v \in Blocks \cup {NoBlock, Junk} : entries' = [entries EXCEPT ![n].value = v]
      BY <1>1, <1>2
    <2> QED
      BY <1>0, <2>1, EntryAssigned
  <1>5. ~Links(n)' /\ Keyed(n)'
    <2>1. entries'[n].key = entries[n].key /\ entries'[n].value = NoBlock
      BY <1>0, <1>1, <1>2, <1>3, EntryWritten
    <2>2. tailIndex # InvalidKey
      BY <1>0, <1>3, BlocksFollow
    <2> QED
      BY <1>3, <2>1, <2>2, BlocksAre DEF Links, Keyed, Key
  <1>6. SameLinks /\ SameRings
    BY <1>0, <1>1, <1>3, <1>4, <1>5, UnlinkedChange DEF SameRings
  <1>7. /\ ~Busy({"publish"}) /\ ~Busy({"publish"})' /\ \A i \in Int : Stored(i)' <=> Stored(i)
        /\ Latest' = Latest
    BY <1>1 DEF Busy, Stored, Latest
  <1>8. Latest <= Latest' /\ Base(Latest') = Base(Latest)
    BY <1>7, LatestIs
  <1> QED
    BY <1>1, <1>6, <1>7, <1>8, QuietBlocks

(* A block is taken for the entry.                                         *)
LEMMA RequisitionBlocks ==
  ASSUME Outline, Outline', BlocksInv, RequisitionBlock
  PROVE  BlocksInv'
  <1>0. /\ ProducerOK /\ ProducerInv /\ LinkInv /\ WorkInv /\ MemoryInv /\ ItemsInv /\ MemoryOK
    BY DEF Outline, Types, BlocksInv
  <1>1. PICK b \in Blocks :
               /\ home[b] \in {"pool", "free", "dead"}
               /\ Goes("requisition", "publish", producer.tail, producer.entry, b)
               /\ home' = [home EXCEPT ![b] = "used"]
               /\ completed' = [completed EXCEPT ![b] = 0]
    BY <1>0, RequisitionBlockIs
  <1>2. /\ producer.pc = "requisition" /\ producer'.pc = "publish" /\ producer'.block = b
        /\ UNCHANGED <<entries, headers, headIndex, tailIndex, elements, tailBlock, c>>
    BY <1>0, <1>1, RequisitionBlockIs DEF Goes, counters, index
  <1>3. /\ home'[b] = "used" /\ completed'[b] = 0
        /\ \A x \in Blocks : x # b => home'[x] = home[x] /\ completed'[x] = completed[x]
    BY <1>0, <1>1 DEF MemoryOK
  <1>4. /\ SameLinks /\ SameRings
        /\ \A i \in Int : (Pending(i)' <=> Pending(i)) /\ (Open(i)' <=> Open(i))
        /\ \A x \in Blocks : IsLinked(x)' <=> IsLinked(x)
    <2>1. SameLinks /\ SameRings
      BY <1>2, IndexLeft DEF index
    <2> QED
      BY <1>2, <2>1, OpenStill, LinkedSame
  <1>5. ~IsUsed(b) /\ ~IsLinked(b)
    BY <1>0, <1>1 DEF MemoryInv, IsUsed
  <1>6. Latest' = Latest /\ \A i \in Int : Stored(i)' <=> Stored(i)
    BY <1>2 DEF Latest, Stored, Busy
  <1>7. LinkInv'
    <2>1. Latest <= Latest' /\ Base(Latest') = Base(Latest)
      BY <1>6, LatestIs
    <2> QED
      BY <1>0, <1>2, <1>4, <2>1, LinkSame
  <1>8. WorkInv'
    <2>1. ASSUME NEW k \in Consumers, c[k].pc \in Looking
          PROVE  LookInv(k)'
      <3>1. LookInv(k) /\ KeepsLinks(k)
        BY <1>0, <1>4, <2>1 DEF WorkInv, SameLinks, KeepsLinks, Needs
      <3>2. c[k].pc = "free" => /\ \A e \in DOMAIN entries' : entries'[e].value # c[k].block
                                /\ producer'.block # c[k].block
        BY <1>2, <1>5, <3>1 DEF LookInv, IsUsed
      <3> QED
        BY <1>2, <1>4, <2>1, <3>1, <3>2, LookKept
    <2>2. \A j, k \in Consumers : (j # k /\ Reclaiming(j) /\ Reclaiming(k))' =>
           /\ Base(c'[j].index - 1) # Base(c'[k].index - 1)
           /\ c'[j].block # c'[k].block
      BY <1>0, <1>2 DEF WorkInv, Reclaiming
    <2> QED
      BY <1>2, <2>1, <2>2 DEF WorkInv
  <1>9. MemoryInv'
    <2>1. ASSUME NEW x \in Blocks
          PROVE  home'[x] # "freed twice" /\ (home'[x] = "used" <=> IsUsed(x)')
      <3>1. CASE x = b
        BY <1>2, <1>3, <3>1 DEF IsUsed, Busy
      <3>2. CASE x # b
        <4>1. IsUsed(x)' <=> IsUsed(x)
          BY <1>2, <1>4, <3>2 DEF IsUsed, Busy
        <4> QED
          BY <1>0, <1>3, <3>2, <4>1 DEF MemoryInv
      <3> QED
        BY <3>1, <3>2
    <2>2. \A x \in Blocks : ~IsLinked(x)' => \A i \in 0 .. BlockSize - 1 : elements'[x][i] = 0
      BY <1>0, <1>2, <1>4 DEF MemoryInv
    <2>3. completed'[producer'.block] = 0 /\ ~IsLinked(producer.block)'
      BY <1>1, <1>2, <1>3, <1>4, <1>5 DEF IsLinked
    <2>4. ASSUME NEW e \in DOMAIN entries', Links(e)' PROVE Holds(e)'
      <3>1. /\ e \in DOMAIN entries /\ Links(e) /\ Holds(e)
            /\ entries'[e].key = entries[e].key /\ entries'[e].value = entries[e].value
        BY <1>0, <1>2, <2>4 DEF Links, MemoryInv
      <3>2. Key(e) \in Int /\ \A i \in Of(Key(e)) : i \in Int
        BY <1>0, <3>1, LinkIs
      <3>3. entries[e].value \in Blocks /\ entries[e].value # b
        BY <1>5, <3>1 DEF IsLinked, Links
      <3>4. \A i \in Int : Content(i)' = Content(i)
        BY <1>4, <1>6 DEF Content
      <3> QED
        BY <1>2, <1>3, <1>4, <3>1, <3>2, <3>3, <3>4, HoldsSame
    <2> QED
      BY <2>1, <2>2, <2>3, <2>4 DEF MemoryInv
  <1>10. ItemsInv'
    BY <1>0, <1>2 DEF ItemsInv
  <1> QED
    BY <1>7, <1>8, <1>9, <1>10 DEF BlocksInv

(* An element is written.  Its block is the tail block: the one entry that *)
(* leads to it has the position's key.                                     *)
LEMMA WriteBlocks ==
  ASSUME Outline, Outline', BlocksInv, WriteElement
  PROVE  BlocksInv'
  <1>0. /\ ProducerOK /\ ProducerInv /\ LinkInv /\ WorkInv /\ MemoryInv /\ ItemsInv /\ MemoryOK
        /\ tailIndex \in Nat /\ tailIndex \in Int /\ headIndex <= tailIndex /\ headIndex \in Nat
        /\ BlockSize \in Nat \ {0, 1}
    BY LatestIs DEF Outline, Types, BlocksInv
  <1>1. /\ producer.pc = "write" /\ producer'.pc = "store" /\ producer.tail = tailIndex
        /\ elements' = [elements EXCEPT ![tailBlock][tailIndex % BlockSize] = tailIndex + 1]
        /\ UNCHANGED <<index, headIndex, tailIndex, home, completed, tailBlock, c>>
    BY <1>0, WriteElementIs DEF Goes, counters, ProducerInv, Busy
  <1>2. /\ SameLinks /\ SameRings /\ UNCHANGED <<entries, headers>>
        /\ \A i \in Int : (Pending(i)' <=> Pending(i)) /\ (Open(i)' <=> Open(i))
        /\ \A x \in Blocks : IsLinked(x)' <=> IsLinked(x)
    <2>1. SameLinks /\ SameRings
      BY <1>1, IndexLeft
    <2> QED
      BY <1>1, <2>1, OpenStill, LinkedSame DEF index
  <1>3. Latest = tailIndex /\ Latest' = tailIndex /\ tailBlock \in Blocks
    BY <1>0, <1>1 DEF Latest, Busy, ProducerInv
  <1>4. LinkInv'
    <2>1. Latest <= Latest' /\ Base(Latest') = Base(Latest)
      BY <1>0, <1>3
    <2> QED
      BY <1>0, <1>1, <1>2, <2>1, LinkSame
  <1>5. WorkInv'
    <2>1. ~Busy({"publish"})'
      BY <1>1 DEF Busy
    <2> QED
      BY <1>0, <1>1, <1>2, <2>1, WorkSame
  <1>6. PICK t \in DOMAIN entries : /\ Links(t) /\ Key(t) = Base(tailIndex)
                                   /\ entries[t].value = tailBlock
    <2>1. Base(tailIndex) <= tailIndex /\ tailIndex < Base(tailIndex) + BlockSize
          /\ Base(tailIndex) \in Int
      BY <1>0, BaseIs
    <2>2. Open(tailIndex) /\ tailIndex \in 0 .. Base(Latest) + BlockSize - 1
      BY <1>0, <1>3, <2>1 DEF Open, Pending
    <2>3. PICK t : IsLinkOf(t, Base(tailIndex))
      BY <1>0, <2>2 DEF LinkInv
    <2>4. t \in DOMAIN entries /\ Links(t) /\ Key(t) = Base(tailIndex)
      BY <2>3 DEF IsLinkOf
    <2>5. Latest < Key(t) + BlockSize
      BY <1>3, <2>1, <2>4
    <2>6. entries[t].value = tailBlock
      BY <1>0, <2>4, <2>5 DEF LinkInv, LinkOK
    <2> QED
      BY <2>4, <2>6
  <1>7. PICK r : r = tailIndex % BlockSize
    OBVIOUS
  <1>8. /\ \A x \in Blocks : x # tailBlock => elements'[x] = elements[x]
        /\ elements'[tailBlock][r] = tailIndex + 1
        /\ \A i \in 0 .. BlockSize - 1 : i # r => elements'[tailBlock][i] = elements[tailBlock][i]
    <2>1. r \in 0 .. BlockSize - 1
      BY <1>0, <1>7
    <2> QED
      BY <1>0, <1>1, <1>3, <1>7, <2>1 DEF MemoryOK
  <1>9. \A i \in Int : Stored(i)' <=> Stored(i) \/ i = tailIndex
    BY <1>0, <1>1 DEF Stored, Busy
  <1>10. MemoryInv'
    <2>1. ASSUME NEW x \in Blocks
          PROVE  home'[x] # "freed twice" /\ (home'[x] = "used" <=> IsUsed(x)')
      <3>1. IsUsed(x)' <=> IsUsed(x)
        BY <1>1, <1>2 DEF IsUsed, Busy
      <3> QED
        BY <1>0, <1>1, <3>1 DEF MemoryInv
    <2>2. \A x \in Blocks : ~IsLinked(x)' => \A i \in 0 .. BlockSize - 1 : elements'[x][i] = 0
      <3> SUFFICES ASSUME NEW x \in Blocks, ~IsLinked(x)'
                   PROVE  \A i \in 0 .. BlockSize - 1 : elements'[x][i] = 0
        OBVIOUS
      <3>1. ~IsLinked(x)
        BY <1>2
      <3>2. x # tailBlock
        BY <1>6, <3>1 DEF IsLinked
      <3>3. \A i \in 0 .. BlockSize - 1 : elements[x][i] = 0
        BY <1>0, <3>1 DEF MemoryInv
      <3> QED
        BY <1>8, <3>2, <3>3
    <2>3. ~Busy({"publish"})'
      BY <1>1 DEF Busy
    <2>4. ASSUME NEW e \in DOMAIN entries', Links(e)' PROVE Holds(e)'
      <3>1. /\ e \in DOMAIN entries /\ Links(e) /\ Holds(e)
            /\ entries'[e].key = entries[e].key /\ entries'[e].value = entries[e].value
        BY <1>0, <1>2, <2>4 DEF Links, MemoryInv
      <3>2. /\ Key(e) \in Int /\ entries[e].value \in Blocks
            /\ \A i \in Of(Key(e)) : i \in Int /\ Base(i) = Key(e)
        BY <1>0, <3>1, LinkIs
      <3>3. CASE e # t
        <4>1. entries[e].value # tailBlock /\ Key(e) # Key(t)
          BY <1>0, <1>6, <3>1, <3>3 DEF LinkInv
        <4>2. \A i \in Of(Key(e)) : i # tailIndex
          BY <1>6, <3>2, <4>1
        <4>3. \A i \in Of(Key(e)) : Content(i)' = Content(i)
          BY <1>2, <1>9, <3>2, <4>2 DEF Content
        <4> QED
          BY <1>1, <1>2, <1>8, <3>1, <3>2, <4>1, <4>3, HoldsSame
      <3>4. CASE e = t
        <4>1. PICK n \in Int : n = Key(e)
          BY <3>2
        <4>2. n = Key(e)' /\ entries[e].value = tailBlock /\ entries'[e].value = tailBlock
          BY <1>6, <3>1, <3>4, <4>1 DEF Key
        <4>3. Closed(n)' = Closed(n)
          BY <1>2, <3>2, <4>1 DEF Closed, Of
        <4>4. completed'[tailBlock] = Cardinality(Closed(n)')
          BY <1>1, <3>1, <4>1, <4>2, <4>3 DEF Holds
        <4>5. r = tailIndex - n
          <5>1. n = Base(tailIndex)
            BY <1>6, <3>4, <4>1
          <5> QED
            BY <1>0, <1>7, <5>1, BaseIs
        <4>6. ASSUME NEW i \in Of(n) PROVE elements'[tailBlock][i - n] = Content(i)'
          <5>0. i \in Int /\ i - n \in 0 .. BlockSize - 1
            BY <1>0, <4>1 DEF Of
          <5>1. CASE i = tailIndex
            <6>1. Pending(i)' /\ Stored(i)'
              BY <1>0, <1>1, <1>9, <5>0, <5>1 DEF Pending
            <6> QED
              BY <1>8, <4>5, <5>1, <6>1 DEF Content
          <5>2. CASE i # tailIndex
            <6>1. Content(i)' = Content(i)
              BY <1>2, <1>9, <5>0, <5>2 DEF Content
            <6>2. elements[tailBlock][i - n] = Content(i)
              BY <3>1, <4>1, <4>2 DEF Holds
            <6>3. i - n # r
              BY <1>0, <4>1, <4>5, <5>0, <5>2
            <6> QED
              BY <1>8, <5>0, <6>1, <6>2, <6>3
          <5> QED
            BY <5>1, <5>2
        <4> QED
          BY <1>1, <4>2, <4>4, <4>6 DEF Holds, Closed, Of
      <3> QED
        BY <3>3, <3>4
    <2> QED
      BY <2>1, <2>2, <2>3, <2>4 DEF MemoryInv
  <1>11. ItemsInv'
    BY <1>0, <1>1 DEF ItemsInv
  <1> QED
    BY <1>4, <1>5, <1>10, <1>11 DEF BlocksInv

(* The entry leads to the new block from here on.                          *)
LEMMA PublishBlocks ==
  ASSUME Outline, Outline', IndexInv, BlocksInv, PublishBlock
  PROVE  BlocksInv'
  <1>0. /\ ProducerOK /\ ProducerInv /\ LinkInv /\ WorkInv /\ MemoryInv /\ ItemsInv /\ MemoryOK
        /\ IndexOK /\ EntryInv
        /\ tailIndex \in Nat /\ tailIndex \in Int /\ headIndex <= tailIndex /\ headIndex \in Nat
        /\ BlockSize \in Nat \ {0, 1}
    BY LatestIs DEF Outline, Types, BlocksInv, IndexInv
  <1>1. /\ producer.pc = "publish" /\ producer'.pc = "write" /\ producer.tail = tailIndex
        /\ entries' = [entries EXCEPT ![producer.entry].value = producer.block]
        /\ tailBlock' = producer.block
        /\ UNCHANGED <<headers, headIndex, tailIndex, home, elements, completed, c>>
    BY <1>0, PublishBlockIs DEF Goes, counters, memory, ProducerInv, Busy
  <1>2. PICK b : b = producer.block
    OBVIOUS
  <1>3. PICK n : n = producer.entry
    OBVIOUS
  <1>4. /\ n \in DOMAIN entries /\ Key(n) = tailIndex /\ ~Links(n) /\ AtBlockStart(tailIndex)
        /\ b \in Blocks
    BY <1>0, <1>1, <1>2, <1>3 DEF EntryInv, Busy, Inserting, ProducerInv
  <1>5. /\ DOMAIN entries' = DOMAIN entries
        /\ \A e \in DOMAIN entries : e # n => entries'[e] = entries[e]
        /\ entries'[n].key = tailIndex /\ entries'[n].value = b
    <2>1. \E v \in Blocks \cup {NoBlock, Junk} : entries' = [entries EXCEPT ![n].value = v]
      BY <1>1, <1>2, <1>3, <1>4
    <2>2. entries'[n].key = entries[n].key /\ entries'[n].value = b
      BY <1>0, <1>1, <1>2, <1>3, <1>4, EntryWritten
    <2> QED
      BY <1>0, <1>4, <2>1, <2>2, EntryAssigned DEF Key
  <1>6. \A i \in Int : (Pending(i)' <=> Pending(i)) /\ (Open(i)' <=> Open(i))
    BY <1>1, OpenStill
  <1>7. /\ Latest = tailIndex - 1 /\ Latest' = tailIndex
        /\ \A i \in Int : Stored(i)' <=> Stored(i)
    BY <1>1 DEF Latest, Stored, Busy
  <1>8. Busy({"publish"}) /\ ~Busy({"publish"})' /\ completed[b] = 0 /\ ~IsLinked(b)
    BY <1>0, <1>1, <1>2 DEF MemoryInv, Busy, IsLinked
  <1>9. \A i \in Int : i >= tailIndex => Pending(i) /\ Open(i) /\ ~Stored(i)
    BY <1>0, <1>1 DEF Pending, Open, Stored, Busy
  (* What the entries lead to. *)
  <1>10. \A e \in DOMAIN entries : e # n =>
            /\ entries'[e].key = entries[e].key /\ entries'[e].value = entries[e].value
            /\ Links(e)' <=> Links(e)
    BY <1>5 DEF Links
  <1>11. \A e \in DOMAIN entries : Links(e) =>
            /\ e # n /\ entries[e].value # b /\ LinkOK(e) /\ Key(e) \in Nat
            /\ Key(e) + BlockSize <= tailIndex
    <2> SUFFICES ASSUME NEW e \in DOMAIN entries, Links(e)
                 PROVE  /\ e # n /\ entries[e].value # b /\ LinkOK(e) /\ Key(e) \in Nat
                        /\ Key(e) + BlockSize <= tailIndex
      OBVIOUS
    <2>1. LinkOK(e) /\ e # n /\ entries[e].value # b
      BY <1>0, <1>4, <1>8 DEF LinkInv, IsLinked
    <2>2. Key(e) \in Nat /\ AtBlockStart(Key(e)) /\ Key(e) <= Latest
      BY <2>1 DEF LinkOK
    <2>3. Key(e) \in Int /\ Key(e) < tailIndex
      BY <1>0, <1>7, <2>2
    <2> QED
      BY <1>0, <1>4, <2>1, <2>2, <2>3, BlocksFollow
  <1>12. Links(n)'
    BY <1>4, <1>5 DEF Links
  <1>13. LinkInv'
    <2>1. ASSUME NEW e \in DOMAIN entries', Links(e)' PROVE LinkOK(e)'
      <3>1. CASE e = n
        <4>1. Key(e)' = tailIndex /\ entries'[e].value = tailBlock'
          BY <1>1, <1>2, <1>5, <3>1 DEF Key

        <4>3. \E i \in Of(Key(e)') : Open(i)'
          <5>1. PICK x : x = tailIndex
            OBVIOUS
          <5>2. x \in Of(x) /\ x \in Int /\ Open(x) /\ Key(e)' = x
            BY <1>0, <1>9, <4>1, <5>1 DEF Of
          <5>3. Open(x)'
            BY <1>6, <5>2
          <5> QED
            BY <5>2, <5>3
        <4>4. /\ Key(e)' \in Nat /\ AtBlockStart(Key(e))' /\ Key(e)' <= Latest'
          BY <1>0, <1>4, <1>7, <4>1 DEF AtBlockStart
        <4> QED
          BY <4>1, <4>3, <4>4 DEF LinkOK, Of
      <3>2. CASE e # n
        <4>1. /\ e \in DOMAIN entries /\ Links(e) /\ LinkOK(e)
              /\ entries'[e].value = entries[e].value
              /\ Key(e) + BlockSize <= tailIndex /\ Key(e) \in Nat
          BY <1>5, <1>10, <1>11, <2>1, <3>2
        <4>2. PICK x \in Nat : x = Key(e)
          BY <4>1
        <4>3. x = Key(e)'
          BY <1>10, <3>2, <4>1, <4>2 DEF Key
        <4>4. (\E i \in Of(x) : Open(i)) => \E i \in Of(x) : Open(i)'
          BY <1>0, <1>6 DEF Of
        <4>5. Unlinking(entries[e].value) => Unlinking(entries[e].value)'
          BY <1>1, <4>1 DEF Unlinking
        <4>6. x <= Latest' /\ ~(Latest' < x + BlockSize)
          BY <1>0, <1>7, <4>1, <4>2
        <4>7. AtBlockStart(x)
          BY <4>1, <4>2 DEF LinkOK
        <4> QED
          BY <4>1, <4>2, <4>3, <4>4, <4>5, <4>6, <4>7 DEF LinkOK, Of, AtBlockStart
      <3> QED
        BY <3>1, <3>2
    <2>2. ASSUME NEW d \in DOMAIN entries', NEW e \in DOMAIN entries', Links(d)', Links(e)',
                 entries'[d].key = entries'[e].key \/ entries'[d].value = entries'[e].value
          PROVE  d = e
      <3>1. CASE d = n /\ e # n
        <4>1. Key(e) + BlockSize <= tailIndex /\ Key(e) \in Nat /\ entries[e].value # b
          BY <1>5, <1>10, <1>11, <2>2, <3>1
        <4>2. Key(e) # tailIndex /\ entries'[e].key = Key(e) /\ entries'[e].value = entries[e].value
          BY <1>0, <1>5, <1>10, <3>1, <4>1 DEF Key
        <4> QED
          BY <1>5, <2>2, <3>1, <4>1, <4>2
      <3>2. CASE d # n /\ e = n
        <4>1. Key(d) + BlockSize <= tailIndex /\ Key(d) \in Nat /\ entries[d].value # b
          BY <1>5, <1>10, <1>11, <2>2, <3>2
        <4>2. Key(d) # tailIndex /\ entries'[d].key = Key(d) /\ entries'[d].value = entries[d].value
          BY <1>0, <1>5, <1>10, <3>2, <4>1 DEF Key
        <4> QED
          BY <1>5, <2>2, <3>2, <4>1, <4>2
      <3>3. CASE d # n /\ e # n
        BY <1>0, <1>5, <1>10, <2>2, <3>3 DEF LinkInv, Key
      <3> QED
        BY <3>1, <3>2, <3>3
    <2>3. ASSUME NEW i \in 0 .. Base(Latest') + BlockSize - 1, Open(i)'
          PROVE  \E e : IsLinkOf(e, Base(i))'
      <3>0. /\ i \in Int /\ i >= 0 /\ Base(tailIndex) = tailIndex /\ i < tailIndex + BlockSize
            /\ Base(tailIndex - 1) = tailIndex - BlockSize
        <4>1. Base(tailIndex) = tailIndex /\ Base(tailIndex - 1) = tailIndex - BlockSize
          BY <1>0, <1>4, BaseIs, BaseBefore
        <4>2. Base(Latest') = tailIndex
          BY <1>7, <4>1
        <4> QED
          BY <1>0, <4>1, <4>2
      <3>1. CASE i >= tailIndex
        <4>1. Base(i) = tailIndex
          BY <1>0, <1>4, <3>0, <3>1, OneBase
        <4>2. IsLinkOf(n, Base(i))'
          BY <1>4, <1>5, <1>12, <4>1 DEF IsLinkOf, Key
        <4> QED
          BY <4>2
      <3>2. CASE i < tailIndex
        <4>1. i \in 0 .. Base(Latest) + BlockSize - 1
          BY <1>0, <1>7, <3>0, <3>2
        <4>2. PICK e : IsLinkOf(e, Base(i))
          BY <1>0, <1>6, <2>3, <3>0, <4>1 DEF LinkInv
        <4>3. e \in DOMAIN entries /\ Links(e) /\ Key(e) = Base(i)
          BY <4>2 DEF IsLinkOf
        <4>4. IsLinkOf(e, Base(i))'
          BY <1>5, <1>10, <1>11, <4>3 DEF IsLinkOf, Key
        <4> QED
          BY <4>4
      <3> QED
        BY <1>0, <3>0, <3>1, <3>2
    <2> QED
      BY <2>1, <2>2, <2>3 DEF LinkInv, Key
  <1>14. WorkInv'
    <2>1. ASSUME NEW k \in Consumers, c[k].pc \in Looking
          PROVE  LookInv(k)'
      <3>0. LookInv(k) /\ SameRings
        BY <1>0, <1>1, <2>1 DEF WorkInv, SameRings
      <3>1. KeepsLinks(k)
        <4>1. \A e \in DOMAIN entries : Keyed(e) => Keyed(e)'
          BY <1>4, <1>5 DEF Keyed, Key
        <4> QED
          BY <1>5, <1>10, <1>11, <4>1 DEF KeepsLinks, Needs
      <3>2. c[k].pc = "free" => \A e \in DOMAIN entries' : entries'[e].value # c[k].block
        <4> HAVE c[k].pc = "free"
        <4>1. (\A e \in DOMAIN entries : entries[e].value # c[k].block) /\ b # c[k].block
          BY <1>2, <1>8, <3>0 DEF LookInv
        <4> QED
          BY <1>5, <4>1
      <3> QED
        BY <1>1, <1>6, <1>8, <2>1, <3>0, <3>1, <3>2, LookKept
    <2>2. \A j, k \in Consumers : (j # k /\ Reclaiming(j) /\ Reclaiming(k))' =>
           /\ Base(c'[j].index - 1) # Base(c'[k].index - 1)
           /\ c'[j].block # c'[k].block
      BY <1>0, <1>1 DEF WorkInv, Reclaiming
    <2> QED
      BY <1>1, <2>1, <2>2 DEF WorkInv
  <1>15. MemoryInv'
    <2>0. \A x \in Blocks : IsLinked(x)' <=> IsLinked(x) \/ x = b
      <3> TAKE x \in Blocks
      <3>1. IsLinked(x)' => IsLinked(x) \/ x = b
        BY <1>5 DEF IsLinked
      <3>2. IsLinked(x) => IsLinked(x)'
        BY <1>5, <1>11 DEF IsLinked, Links
      <3>3. x = b => IsLinked(x)'
        BY <1>4, <1>5 DEF IsLinked
      <3> QED
        BY <3>1, <3>2, <3>3
    <2>1. ASSUME NEW x \in Blocks
          PROVE  home'[x] # "freed twice" /\ (home'[x] = "used" <=> IsUsed(x)')
      <3>1. IsUsed(x)' <=> IsUsed(x)
        <4>1. IsUsed(x) <=> IsLinked(x) \/ x = b \/ \E k \in Consumers : c[k].pc = "free" /\ c[k].block = x
          BY <1>2, <1>8 DEF IsUsed
        <4>2. IsUsed(x)' <=> IsLinked(x)' \/ \E k \in Consumers : c[k].pc = "free" /\ c[k].block = x
          BY <1>1, <1>8 DEF IsUsed
        <4> QED
          BY <2>0, <4>1, <4>2
      <3> QED
        BY <1>0, <1>1, <3>1 DEF MemoryInv
    <2>2. \A x \in Blocks : ~IsLinked(x)' => \A i \in 0 .. BlockSize - 1 : elements'[x][i] = 0
      BY <1>0, <1>1, <2>0 DEF MemoryInv
    <2>3. \A i \in Int : Content(i)' = Content(i)
      BY <1>6, <1>7 DEF Content
    <2>4. ASSUME NEW e \in DOMAIN entries', Links(e)' PROVE Holds(e)'
      <3>1. CASE e # n
        <4>1. /\ e \in DOMAIN entries /\ Links(e) /\ Holds(e)
              /\ entries'[e].key = entries[e].key /\ entries'[e].value = entries[e].value
          BY <1>0, <1>5, <1>10, <2>4, <3>1 DEF MemoryInv
        <4>2. Key(e) \in Int /\ \A i \in Of(Key(e)) : i \in Int
          BY <1>0, <4>1, LinkIs
        <4> QED
          BY <1>1, <1>6, <2>3, <4>1, <4>2, HoldsSame
      <3>2. CASE e = n
        <4>1. PICK x \in Nat : x = tailIndex
          BY <1>0
        <4>2. x = Key(e)' /\ b = entries'[e].value
          BY <1>5, <3>2, <4>1 DEF Key
        <4>3. \A i \in Of(x) : i \in Int /\ i >= tailIndex /\ i - x \in 0 .. BlockSize - 1
          BY <1>0, <4>1 DEF Of
        <4>4. Closed(x)' = {}
          BY <1>6, <1>9, <4>3 DEF Closed, Of
        <4>5. completed'[b] = Cardinality(Closed(x)')
          BY <1>1, <1>8, <4>4, FS_EmptySet
        <4>6. ASSUME NEW i \in Of(x) PROVE elements'[b][i - x] = Content(i)'
          <5>1. Content(i)' = 0
            BY <1>9, <2>3, <4>3 DEF Content
          <5>2. elements[b][i - x] = 0
            BY <1>0, <1>4, <1>8, <4>3 DEF MemoryInv
          <5> QED
            BY <1>1, <5>1, <5>2
        <4> QED
          BY <4>2, <4>5, <4>6 DEF Holds, Closed, Of
      <3> QED
        BY <3>1, <3>2
    <2> QED
      BY <1>8, <2>1, <2>2, <2>4 DEF MemoryInv
  <1>16. ItemsInv'
    BY <1>0, <1>1 DEF ItemsInv
  <1> QED
    BY <1>13, <1>14, <1>15, <1>16 DEF BlocksInv

(* Every step of enqueue() keeps the blocks in order. *)
LEMMA EnqueueBlocks ==
  ASSUME Outline, Outline', IndexInv, BlocksInv, EnqueueStep
  PROVE  BlocksInv'
  BY IdleBlocks, FirstBlocks, StoreKeyBlocks, TailBlocks, LargerBlocks, RetractBlocks,
     RequisitionBlocks, PublishBlocks, WriteBlocks DEF EnqueueStep

(* The steps of a consumer, part by part.                                  *)
LEMMA ConsumerLinks ==
  ASSUME Outline, LinkInv, Kept, UNCHANGED entries,
         \A i \in Int : Open(i)' <=> Open(i), \A b : Unlinking(b) => Unlinking(b)'
  PROVE  LinkInv'
  <1>0. Latest' = Latest /\ UNCHANGED <<tailIndex, tailBlock, producer, headers>>
    BY DEF Kept, Latest, Busy
  <1>1. ASSUME NEW e \in DOMAIN entries', Links(e)' PROVE LinkOK(e)'
    <2>1. e \in DOMAIN entries /\ Links(e) /\ LinkOK(e)
      BY <1>1 DEF Links, LinkInv
    <2>2. \A i \in Of(Key(e)) : i \in Int
      BY <2>1, LinkIs
    <2>3. (\E i \in Of(Key(e)) : Open(i)) => \E i \in Of(Key(e)) : Open(i)'
      BY <2>2
    <2>4. PICK b : b = entries[e].value
      OBVIOUS
    <2>5. Unlinking(b) => Unlinking(b)'
      OBVIOUS
    <2>6. (\E i \in Of(Key(e)) : Open(i)') \/ Unlinking(b)'
      BY <2>1, <2>3, <2>4, <2>5 DEF LinkOK
    <2>7. b = entries'[e].value /\ Key(e)' = Key(e)
      BY <2>4 DEF Key
    <2>8. (\E i \in Of(Key(e)) : Open(i))' \/ Unlinking(entries[e].value)'
      BY <2>6, <2>7 DEF Unlinking, Of
    <2> QED
      BY <1>0, <2>1, <2>7, <2>8 DEF LinkOK
  <1>2. \A d, e \in DOMAIN entries' :
          (/\ Links(d)' /\ Links(e)'
           /\ Key(d)' = Key(e)' \/ entries'[d].value = entries'[e].value) => d = e
    BY DEF LinkInv, Links, Key
  <1>3. \A i \in 0 .. Base(Latest') + BlockSize - 1 : Open(i)' => \E e : IsLinkOf(e, Base(i))'
    <2> SUFFICES ASSUME NEW i \in 0 .. Base(Latest) + BlockSize - 1, Open(i)'
                 PROVE  \E e : IsLinkOf(e, Base(i))'
      BY <1>0
    <2>1. i \in Int
      OBVIOUS
    <2>2. PICK e : IsLinkOf(e, Base(i))
      BY <2>1 DEF LinkInv
    <2>3. IsLinkOf(e, Base(i))'
      BY <2>2 DEF IsLinkOf, Links, Key
    <2> QED
      BY <2>3
  <1> QED
    BY <1>1, <1>2, <1>3 DEF LinkInv

(* What consumers find, after a step of one of them. *)
LEMMA ConsumerWork ==
  ASSUME Outline, WorkInv, NEW k \in Consumers, Others(k), Kept, UNCHANGED entries,
         \A i \in Int : Open(i)' => Open(i), c'[k].pc \in Looking => LookInv(k)',
         Reclaiming(k)' => \A j \in Consumers : (j # k /\ Reclaiming(j)) =>
             Base(c[j].index - 1) # Base(c'[k].index - 1) /\ c[j].block # c'[k].block
  PROVE  WorkInv'
  <1>1. ASSUME NEW j \in Consumers, c'[j].pc \in Looking
        PROVE  LookInv(j)'
    <2>1. CASE j = k
      BY <1>1, <2>1
    <2>2. CASE j # k
      <3>1. c'[j] = c[j] /\ c[j].pc \in Looking /\ LookInv(j)
        BY <1>1, <2>2 DEF Others, WorkInv
      <3>2. SameRings /\ KeepsLinks(j)
        BY DEF Kept, SameRings, KeepsLinks, Keyed, Key
      <3>3. c[j].pc = "free" => /\ \A e \in DOMAIN entries' : entries'[e].value # c[j].block
                                /\ Busy({"publish"})' => producer'.block # c[j].block
        BY <3>1 DEF LookInv, Kept, Busy
      <3> QED
        BY <3>1, <3>2, <3>3, LookKept
    <2> QED
      BY <2>1, <2>2
  <1>2. ASSUME NEW i \in Consumers, NEW j \in Consumers, i # j, Reclaiming(i)', Reclaiming(j)'
        PROVE  Base(c'[i].index - 1) # Base(c'[j].index - 1) /\ c'[i].block # c'[j].block
    <2>1. CASE i # k /\ j # k
      <3>1. c'[i] = c[i] /\ c'[j] = c[j] /\ Reclaiming(i) /\ Reclaiming(j)
        BY <1>2, <2>1 DEF Others, Reclaiming
      <3> QED
        BY <1>2, <3>1 DEF WorkInv
    <2>2. CASE i = k
      <3>1. c'[j] = c[j] /\ Reclaiming(j) /\ j # k
        BY <1>2, <2>2 DEF Others, Reclaiming
      <3> QED
        BY <1>2, <2>2, <3>1
    <2>3. CASE j = k
      <3>1. c'[i] = c[i] /\ Reclaiming(i) /\ i # k
        BY <1>2, <2>3 DEF Others, Reclaiming
      <3> QED
        BY <1>2, <2>3, <3>1
    <2> QED
      BY <2>1, <2>2, <2>3
  <1> QED
    BY <1>1, <1>2 DEF WorkInv, Reclaiming

(* What is in memory, after a step that leaves it and the positions alone. *)
LEMMA ConsumerMemory ==
  ASSUME Outline, LinkInv, MemoryInv, NEW k \in Consumers, Others(k), Kept,
         UNCHANGED <<entries, home, elements, completed>>,
         \A i \in Int : (Pending(i)' <=> Pending(i)) /\ (Open(i)' <=> Open(i)),
         c[k].pc # "free", c'[k].pc # "free"
  PROVE  MemoryInv'
  <1>0. UNCHANGED <<tailIndex, producer>>
    BY DEF Kept
  <1>1. \A i \in Int : Content(i)' = Content(i)
    BY <1>0 DEF Content, Stored, Busy
  <1>2. \A b \in Blocks : (IsLinked(b)' <=> IsLinked(b)) /\ (IsUsed(b)' <=> IsUsed(b))
    <2> TAKE b \in Blocks
    <2>1. IsLinked(b)' <=> IsLinked(b)
      BY DEF IsLinked
    <2>2. (\E j \in Consumers : c'[j].pc = "free" /\ c'[j].block = b)
            <=> \E j \in Consumers : c[j].pc = "free" /\ c[j].block = b
      BY DEF Others
    <2> QED
      BY <1>0, <2>1, <2>2 DEF IsUsed, Busy
  <1>3. ASSUME NEW e \in DOMAIN entries', Links(e)' PROVE Holds(e)'
    <2>1. e \in DOMAIN entries /\ Links(e) /\ Holds(e)
      BY <1>3 DEF Links, MemoryInv
    <2>2. Key(e) \in Int /\ \A i \in Of(Key(e)) : i \in Int
      BY <2>1, LinkIs
    <2> QED
      BY <1>1, <2>1, <2>2, HoldsSame
  <1>4. Busy({"publish"})' => completed'[producer'.block] = 0 /\ ~IsLinked(producer.block)'
    BY <1>0 DEF MemoryInv, Busy, IsLinked
  <1>5. \A b \in Blocks : ~IsLinked(b)' => \A i \in 0 .. BlockSize - 1 : elements'[b][i] = 0
    BY <1>2 DEF MemoryInv
  <1>6. \A b \in Blocks : home'[b] # "freed twice" /\ (home'[b] = "used" <=> IsUsed(b)')
    BY <1>2 DEF MemoryInv
  <1> QED
    BY <1>3, <1>4, <1>5, <1>6 DEF MemoryInv

(* What consumers have taken, after a step of one of them. *)
LEMMA ConsumerItems ==
  ASSUME ItemsInv, NEW k \in Consumers, Others(k),
         c'[k].pc \in Working => \A n \in 1 .. Len(c'[k].items) :
            c'[k].items[n] = Start(c'[k]) + n
  PROVE  ItemsInv'
  BY DEF ItemsInv, Others

(* A step of a consumer that leaves memory and the positions alone keeps   *)
(* the blocks in order.                                                    *)
LEMMA QuietConsumer ==
  ASSUME Outline, BlocksInv, NEW k \in Consumers, Others(k), Kept,
         UNCHANGED <<entries, home, elements, completed>>,
         \A i \in Int : (Pending(i)' <=> Pending(i)) /\ (Open(i)' <=> Open(i)),
         c[k].pc \notin {"count", "unlink", "free"}, c'[k].pc \notin {"count", "unlink", "free"},
         c'[k].pc \in Looking => LookInv(k)',
         c'[k].pc \in Working =>
            (c[k].pc \in Working /\ Start(c'[k]) = Start(c[k]) /\ c'[k].items = c[k].items)
            \/ c'[k].items = << >>
  PROVE  BlocksInv'
  <1>1. LinkInv /\ WorkInv /\ MemoryInv /\ ItemsInv
    BY DEF BlocksInv
  <1>2. LinkInv'
    <2>1. \A b : Unlinking(b) => Unlinking(b)'
      BY DEF Unlinking, Others
    <2> QED
      BY <1>1, <2>1, ConsumerLinks
  <1>3. WorkInv'
    <2>1. ~Reclaiming(k)'
      BY DEF Reclaiming
    <2> QED
      BY <1>1, <2>1, ConsumerWork
  <1>4. MemoryInv'
    BY <1>1, ConsumerMemory
  <1>5. ItemsInv'
    <2>1. c'[k].pc \in Working => \A n \in 1 .. Len(c'[k].items) :
            c'[k].items[n] = Start(c'[k]) + n
      <3> HAVE c'[k].pc \in Working
      <3>1. CASE c[k].pc \in Working /\ Start(c'[k]) = Start(c[k]) /\ c'[k].items = c[k].items
        BY <1>1, <3>1 DEF ItemsInv
      <3>2. CASE c'[k].items = << >>
        BY <3>2
      <3> QED
        BY <3>1, <3>2
    <2> QED
      BY <1>1, <2>1, ConsumerItems
  <1> QED
    BY <1>2, <1>3, <1>4, <1>5 DEF BlocksInv

(* The claim, and the end of a call.                                       *)
LEMMA ClaimBlocks ==
  ASSUME Outline, BlocksInv, NEW k \in Consumers,
         \/ LoadTail(k) \/ LoadOvercommit(k) \/ LoadOptimistic(k) \/ ClaimOptimistic(k)
         \/ ReloadTail(k) \/ Overcommit(k) \/ Return(k)
  PROVE  BlocksInv'
  <1>0. FramesOK /\ CountersOK /\ RangeInv(c[k], headIndex) /\ ClaimInv(c[k], overcommit)
    BY FrameHeld DEF Outline, Types, CounterInv
  <1>1. c[k].pc \in {"idle", "over", "optimistic", "claim", "reload", "return", "done"}
    BY DEF LoadTail, LoadOvercommit, LoadOptimistic, ClaimOptimistic, ReloadTail, Overcommit,
           Return, At
  <1>2. c[k].index = 0 /\ c[k].end = 0
    BY <1>0, <1>1 DEF RangeInv, Working, Looking
  <1>3. ReloadTail(k) => c[k].desired \in 1 .. MaxDequeue
    BY <1>0 DEF ClaimInv, ReloadTail, At
  <1>4. /\ c'[k].pc \in {"idle", "over", "optimistic", "claim", "reload", "return", "first"}
        /\ c'[k].index = 0 /\ c'[k].end = 0 /\ Others(k) /\ Kept
        /\ UNCHANGED <<headIndex, entries, home, elements, completed>>
    BY <1>0, <1>2, <1>3, LoadTailIs, LoadOvercommitIs, LoadOptimisticIs, ClaimOptimisticIs,
       ReloadTailIs, OvercommitIs, ReturnIs
  <1>5. \A i \in Int : (Pending(i)' <=> Pending(i)) /\ (Open(i)' <=> Open(i))
    <2>1. \A i \in Int : Mine(c'[k], i) <=> Mine(c[k], i)
      BY <1>2, <1>4 DEF Mine
    <2> QED
      BY <1>1, <1>4, <2>1, OpenSame
  <1> QED
    BY <1>1, <1>4, <1>5, QuietConsumer DEF Working, Looking

(* Taking a range keeps the blocks in order. *)
LEMMA TakeBlocks ==
  ASSUME Outline, BlocksInv, NEW k \in Consumers, ClaimElements(k)
  PROVE  BlocksInv'
  <1>0. FramesOK /\ CountersOK /\ ClaimInv(c[k], overcommit) /\ c[k].pc = "first"
    BY DEF Outline, Types, CounterInv, ClaimElements, At
  <1>1. c[k].count \in Nat
    <2>1. c[k].desired \in 1 .. MaxDequeue /\ c[k].count \in 1 .. c[k].desired
      BY <1>0 DEF ClaimInv
    <2> QED
      BY <2>1, QueueAssumption
  <1>2. /\ c'[k].pc = "header" /\ c'[k].items = << >> /\ Others(k) /\ Kept
        /\ UNCHANGED <<entries, home, elements, completed>>
    BY <1>0, <1>1, ClaimElementsIs
  <1>3. c'[k].pc \notin Looking
    BY <1>2 DEF Looking
  <1> QED
    BY <1>0, <1>2, <1>3, OpenClaimed, QuietConsumer

(* A position that a consumer has still to take is open and has a block.   *)
LEMMA OwnOpen ==
  ASSUME Outline, LinkInv, NEW k \in Consumers, c[k].pc \in Working,
         NEW i \in c[k].index .. c[k].end - 1
  PROVE  /\ i \in Nat /\ Mine(c[k], i) /\ Pending(i) /\ Open(i) /\ i < tailIndex
         /\ i < headIndex
         /\ \E e : IsLinkOf(e, Base(i))
  <1>1. /\ c[k].index \in Nat /\ c[k].end \in Nat /\ c[k].end <= headIndex
        /\ headIndex \in Nat /\ tailIndex \in Nat /\ headIndex <= tailIndex
        /\ Latest \in Int /\ tailIndex - 1 <= Latest /\ Base(Latest) \in Int
        /\ Latest < Base(Latest) + BlockSize /\ BlockSize \in Nat
    BY FrameHeld, LatestIs
  <1>2. i \in Nat /\ Mine(c[k], i) /\ i < tailIndex /\ i < headIndex
    BY <1>1 DEF Mine
  <1>3. Pending(i) /\ Open(i)
    BY <1>2 DEF Pending, Open
  <1>4. i \in 0 .. Base(Latest) + BlockSize - 1
    BY <1>1, <1>2
  <1> QED
    BY <1>2, <1>3, <1>4 DEF LinkInv

(* What a look at the index leaves as it is.                               *)
LEMMA LookFrame ==
  ASSUME Outline, NEW k \in Consumers, LoadHeader(k) \/ LoadIndexTail(k) \/ LookUp(k)
  PROVE  /\ c[k].pc \in {"header", "tail", "key"} /\ c[k].pc \in Working
         /\ c[k].pc # "header" => c[k].pc \in Looking
         /\ c'[k].pc \in {"tail", "key", "move"}
         /\ c'[k].index = c[k].index /\ c'[k].end = c[k].end /\ c'[k].items = c[k].items
         /\ Start(c'[k]) = Start(c[k]) /\ Others(k) /\ Kept
         /\ UNCHANGED <<headIndex, entries, home, elements, completed>>
         /\ \A i \in Int : (Pending(i)' <=> Pending(i)) /\ (Open(i)' <=> Open(i))
         /\ c[k].index < c[k].end /\ headers # << >>
         /\ LoadHeader(k) => c'[k].pc = "tail" /\ c'[k].header = Len(headers)
         /\ LoadIndexTail(k) => /\ c[k].pc = "tail" /\ c'[k].pc = "key"
                                /\ c'[k].slot = Header(k).tail /\ c'[k].header = c[k].header
         /\ LookUp(k) => /\ c[k].pc = "key" /\ c'[k].pc = "move"
                         /\ c'[k].slot = SlotOf(k) /\ c'[k].header = c[k].header
  <1>0. FramesOK /\ IndexOK /\ RangeInv(c[k], headIndex)
    BY FrameHeld DEF Outline, Types
  <1>1. c[k].pc \in {"header", "tail", "key"}
    BY DEF LoadHeader, LoadIndexTail, LookUp, At
  <1>2. /\ c[k].pc \in Working /\ (c[k].pc # "header" => c[k].pc \in Looking)
        /\ c[k].index < c[k].end
    BY <1>0, <1>1 DEF Working, Looking, RangeInv
  <1>3. headers # << >> /\ (c[k].pc # "header" => Header(k).tail \in Nat)
    BY <1>2, FrameHeld
  <1>4. c[k].pc = "key" => SlotOf(k) \in Nat
    BY SlotIs
  <1>5. /\ LoadHeader(k) => c[k].pc = "header"
        /\ LoadIndexTail(k) => c[k].pc = "tail"
        /\ LookUp(k) => c[k].pc = "key"
    BY DEF LoadHeader, LoadIndexTail, LookUp, At
  <1>6. /\ c'[k].pc \in {"tail", "key", "move"}
        /\ c'[k].index = c[k].index /\ c'[k].end = c[k].end /\ c'[k].items = c[k].items
        /\ Others(k) /\ Kept
        /\ UNCHANGED <<headIndex, entries, home, elements, completed>>
        /\ LoadHeader(k) => c'[k].pc = "tail" /\ c'[k].header = Len(headers)
        /\ LoadIndexTail(k) => /\ c'[k].pc = "key"
                               /\ c'[k].slot = Header(k).tail /\ c'[k].header = c[k].header
        /\ LookUp(k) => /\ c'[k].pc = "move"
                        /\ c'[k].slot = SlotOf(k) /\ c'[k].header = c[k].header
    <2>1. CASE LoadHeader(k)
      <3>1. ~LoadIndexTail(k) /\ ~LookUp(k)
        BY <1>5, <2>1
      <3> QED
        BY <1>0, <2>1, <3>1, LoadHeaderIs
    <2>2. CASE LoadIndexTail(k)
      <3>1. ~LoadHeader(k) /\ ~LookUp(k) /\ Header(k).tail \in Nat
        BY <1>3, <1>5, <2>2
      <3> QED
        BY <1>0, <2>2, <3>1, LoadIndexTailIs
    <2>3. CASE LookUp(k)
      <3>1. ~LoadHeader(k) /\ ~LoadIndexTail(k) /\ SlotOf(k) \in Nat
        BY <1>4, <1>5, <2>3
      <3> QED
        BY <1>0, <2>3, <3>1, LookUpIs
    <2> QED
      BY <2>1, <2>2, <2>3
  <1>7. \A i \in Int : (Pending(i)' <=> Pending(i)) /\ (Open(i)' <=> Open(i))
    <2>1. \A i \in Int : Mine(c'[k], i) <=> Mine(c[k], i)
      BY <1>6 DEF Mine
    <2> QED
      BY <1>1, <1>6, <2>1, OpenSame
  <1> QED
    BY <1>1, <1>2, <1>3, <1>5, <1>6, <1>7 DEF Start

(* So does taking a header: it leads to every block of the range. *)
LEMMA HeaderBlocks ==
  ASSUME Outline, IndexInv, BlocksInv, NEW k \in Consumers, LoadHeader(k)
  PROVE  BlocksInv'
  <1>0. /\ c[k].pc = "header" /\ c[k].pc \in Working /\ c'[k].pc = "tail"
        /\ c'[k].header = Len(headers) /\ headers # << >>
        /\ c'[k].index = c[k].index /\ c'[k].end = c[k].end /\ c'[k].items = c[k].items
        /\ Start(c'[k]) = Start(c[k]) /\ Others(k) /\ Kept
        /\ UNCHANGED <<headIndex, entries, home, elements, completed>>
        /\ \A i \in Int : (Pending(i)' <=> Pending(i)) /\ (Open(i)' <=> Open(i))
    BY LookFrame DEF LoadHeader, At
  <1>1. Reach(k)' = Len(entries) /\ DOMAIN entries = 1 .. Len(entries)
    <2>1. /\ DOMAIN entries = 1 .. Len(entries) /\ Len(entries) = Capacity(blockIndex)
          /\ headers[Len(headers)] = blockIndex
      BY <1>0, BlockIndexIs DEF Outline, Types, IndexInv, RingInv
    <2>2. headers' = headers
      BY <1>0 DEF Kept
    <2> QED
      BY <1>0, <2>1, <2>2 DEF Reach
  <1>2. \A i \in c'[k].index .. c'[k].end - 1 : \E e \in 1 .. Reach(k)' : IsLinkOf(e, Base(i))'
    <2> SUFFICES ASSUME NEW i \in c[k].index .. c[k].end - 1
                 PROVE  \E e \in 1 .. Reach(k)' : IsLinkOf(e, Base(i))'
      BY <1>0
    <2>1. PICK e : IsLinkOf(e, Base(i))
      BY <1>0, OwnOpen DEF BlocksInv
    <2>2. e \in 1 .. Reach(k)' /\ IsLinkOf(e, Base(i))'
      BY <1>0, <1>1, <2>1 DEF IsLinkOf, Links, Key
    <2> QED
      BY <2>2
  <1>3. LookInv(k)'
    BY <1>0, <1>2 DEF LookInv, Reclaiming
  <1> QED
    BY <1>0, <1>3, QuietConsumer

(* The entry at the tail of any header has a key once there are elements. *)
LEMMA TailKeyed ==
  ASSUME Outline, RingInv, tailIndex > 0, headers # << >>, NEW g \in DOMAIN headers
  PROVE  Keyed(Entry(headers[g], headers[g].tail))
  <1>1. Top >= 0
    <2>1. /\ tailIndex \in Int /\ Latest \in Int /\ Latest >= 0
      BY LatestIs
    <2>2. Base(Latest) \in Nat
      BY <2>1, BaseIs
    <2> QED
      BY <2>1, <2>2 DEF Top
  <1>2. CASE g = Len(headers)
    BY <1>1, <1>2 DEF RingInv, blockIndex
  <1>3. CASE g # Len(headers)
    BY <1>3 DEF RingInv
  <1> QED
    BY <1>2, <1>3

(* Reading the tail keeps the blocks in order. *)
LEMMA IndexTailBlocks ==
  ASSUME Outline, IndexInv, BlocksInv, NEW k \in Consumers, LoadIndexTail(k)
  PROVE  BlocksInv'
  <1>0. /\ c[k].pc = "tail" /\ c[k].pc \in Working /\ c[k].pc \in Looking /\ c'[k].pc = "key"
        /\ c'[k].header = c[k].header /\ c'[k].slot = Header(k).tail /\ headers # << >>
        /\ c'[k].index = c[k].index /\ c'[k].end = c[k].end /\ c'[k].items = c[k].items
        /\ Start(c'[k]) = Start(c[k]) /\ Others(k) /\ Kept /\ c[k].index < c[k].end
        /\ UNCHANGED <<headIndex, entries, home, elements, completed>>
        /\ \A i \in Int : (Pending(i)' <=> Pending(i)) /\ (Open(i)' <=> Open(i))
    BY LookFrame DEF LoadIndexTail, At
  <1>1. c[k].header \in DOMAIN headers /\ tailIndex > 0 /\ LookInv(k) /\ headers' = headers
    <2>1. /\ c[k].index \in Nat /\ c[k].end \in Nat /\ c[k].end <= headIndex
          /\ c[k].header \in DOMAIN headers
          /\ headIndex \in Nat /\ tailIndex \in Nat /\ headIndex <= tailIndex
      BY <1>0, FrameHeld, LatestIs
    <2> QED
      BY <1>0, <2>1 DEF BlocksInv, WorkInv, Kept
  <1>2. Keyed(EntryOf(k))'
    <2>1. Keyed(Entry(headers[c[k].header], headers[c[k].header].tail))
      BY <1>0, <1>1, TailKeyed DEF IndexInv
    <2>2. EntryOf(k)' = Entry(headers[c[k].header], headers[c[k].header].tail)
      BY <1>0, <1>1 DEF EntryOf, Header
    <2> QED
      BY <1>0, <2>1, <2>2 DEF Keyed, Key
  <1>3. \A i \in c'[k].index .. c'[k].end - 1 : \E e \in 1 .. Reach(k)' : IsLinkOf(e, Base(i))'
    <2>1. Reach(k)' = Reach(k)
      BY <1>0, <1>1 DEF Reach
    <2>2. \A e, b : IsLinkOf(e, b) => IsLinkOf(e, b)'
      BY <1>0 DEF IsLinkOf, Links, Key
    <2> QED
      BY <1>0, <1>1, <2>1, <2>2 DEF LookInv
  <1>4. LookInv(k)'
    BY <1>0, <1>2, <1>3 DEF LookInv, Reclaiming
  <1> QED
    BY <1>0, <1>4, QuietConsumer

(* Of an index that is looked up, the entry with its key is found, at the  *)
(* distance that the keys tell.                                            *)
LEMMA FoundEntry ==
  ASSUME Outline, IndexInv, BlocksInv, NEW k \in Consumers, c[k].pc = "key"
  PROVE  /\ Keyed(EntryOf(k)) /\ TailKey(k) = Key(EntryOf(k))
         /\ IsLinkOf(Entry(Header(k), SlotOf(k)), Base(c[k].index))
  <1>0. c[k].pc \in Looking /\ c[k].pc \in Working /\ c[k].pc # "free"
    BY DEF Looking, Working
  <1>1. /\ headers # << >> /\ c[k].header \in DOMAIN headers /\ c[k].index \in Nat
        /\ c[k].index < c[k].end /\ c[k].end \in Nat /\ c[k].slot \in Nat
    BY <1>0, FrameHeld, FrameFields DEF RangeInv
  <1>2. /\ RingOK(Header(k)) /\ Capacity(Header(k)) \in Nat \ {0}
        /\ Reach(k) = Capacity(Header(k)) /\ Header(k) = headers[c[k].header]
        /\ \A x \in Int : Entry(Header(k), x) \in DOMAIN entries
    BY <1>0, <1>1, FrameHeld DEF IndexInv, RingInv, Header, Reach
  <1>3. LookInv(k)
    BY <1>0 DEF BlocksInv, WorkInv
  <1>4. PICK d : d = EntryOf(k)
    OBVIOUS
  <1>5. PICK e \in 1 .. Reach(k) : IsLinkOf(e, Base(c[k].index))
    BY <1>1, <1>3 DEF LookInv
  <1>6. /\ d \in 1 .. Reach(k) /\ d \in DOMAIN entries /\ Keyed(d)
        /\ Entry(headers[c[k].header], c[k].slot) = d
    <2>1. c[k].slot \in Int /\ EntryOf(k) = Entry(Header(k), c[k].slot)
      BY <1>1 DEF EntryOf
    <2>2. Entry(Header(k), c[k].slot) \in 1 .. Capacity(Header(k))
      BY <1>2, <2>1, EntryIs
    <2>3. Keyed(EntryOf(k))
      BY <1>3 DEF LookInv
    <2> QED
      BY <1>2, <1>4, <2>1, <2>2, <2>3
  <1>7. /\ e \in DOMAIN entries /\ Links(e) /\ Key(e) = Base(c[k].index) /\ Keyed(e)
    BY <1>1, <1>5 DEF IsLinkOf, IndexInv, RingInv
  <1>8. /\ Key(d) \in Int /\ Top \in Int /\ blockIndex.tail \in Nat
    BY <1>1, <1>6, EntriesAre, TopIs, BlockIndexIs DEF Outline, Types
  <1>9. PICK z \in Int : Key(e) = Key(d) + z * BlockSize
                         /\ Entry(headers[c[k].header], c[k].slot + z) = e
    BY SMTT(30), <1>1, <1>2, <1>5, <1>6, <1>7, <1>8, RingDistance DEF IndexInv
  <1>10. TailKey(k) = Key(d)
    BY <1>1, <1>4 DEF TailKey, EntryOf, Key
  <1>11. BlockSize \in Nat \ {0}
    BY QueueAssumption
  <1>12. (Base(c[k].index) - TailKey(k)) \div BlockSize = z
    <2>1. PICK p \in Int : p = z * BlockSize
      BY <1>9, <1>11
    <2>2. Base(c[k].index) - TailKey(k) = p
      BY <1>7, <1>8, <1>9, <1>10, <2>1
    <2>3. p \div BlockSize = z
      <3>1. 0 \in 0 .. BlockSize - 1
        BY <1>11
      <3> QED
        BY <1>9, <1>11, <2>1, <3>1, ExactDivision
    <2> QED
      BY <2>2, <2>3
  <1>13. SlotOf(k) = (c[k].slot + z) % Capacity(Header(k))
    BY <1>12 DEF SlotOf
  <1>14. Entry(Header(k), SlotOf(k)) = e
    <2>1. c[k].slot + z \in Int
      BY <1>1, <1>9
    <2>2. Entry(Header(k), (c[k].slot + z) % Capacity(Header(k))) = Entry(Header(k), c[k].slot + z)
      BY <1>2, <2>1, EntryModulo
    <2> QED
      BY <1>2, <1>9, <1>13, <2>2
  <1> QED
    BY <1>4, <1>5, <1>6, <1>10, <1>14

(* Looking up keeps the blocks in order: the slot has the link. *)
LEMMA LookUpBlocks ==
  ASSUME Outline, IndexInv, BlocksInv, NEW k \in Consumers, LookUp(k)
  PROVE  BlocksInv'
  <1>0. /\ c[k].pc = "key" /\ c[k].pc \in Working /\ c[k].pc \in Looking /\ c'[k].pc = "move"
        /\ c'[k].header = c[k].header /\ c'[k].slot = SlotOf(k)
        /\ c'[k].index = c[k].index /\ c'[k].end = c[k].end /\ c'[k].items = c[k].items
        /\ Start(c'[k]) = Start(c[k]) /\ Others(k) /\ Kept
        /\ UNCHANGED <<headIndex, entries, home, elements, completed>>
        /\ \A i \in Int : (Pending(i)' <=> Pending(i)) /\ (Open(i)' <=> Open(i))
    BY LookFrame DEF LookUp, At
  <1>1. headers' = headers /\ LookInv(k)
    BY <1>0 DEF BlocksInv, WorkInv, Kept
  <1>2. \A e, b : IsLinkOf(e, b) => IsLinkOf(e, b)'
    BY <1>0 DEF IsLinkOf, Links, Key
  <1>3. IsLinkOf(EntryOf(k), Base(c[k].index))'
    <2>1. PICK e : e = Entry(Header(k), SlotOf(k))
      OBVIOUS
    <2>2. EntryOf(k)' = e
      BY <1>0, <1>1, <2>1 DEF EntryOf, Header
    <2>3. PICK b : b = Base(c[k].index)
      OBVIOUS
    <2>4. IsLinkOf(e, b)'
      BY <1>0, <1>2, <2>1, <2>3, FoundEntry
    <2>5. Base(c[k].index)' = b
      BY <1>0, <2>3
    <2> QED
      BY <2>2, <2>4, <2>5 DEF IsLinkOf, Links, Key
  <1>4. \A i \in c'[k].index .. c'[k].end - 1 : \E e \in 1 .. Reach(k)' : IsLinkOf(e, Base(i))'
    <2>1. Reach(k)' = Reach(k)
      BY <1>0, <1>1 DEF Reach
    <2> QED
      BY <1>0, <1>1, <1>2, <2>1 DEF LookInv
  <1>5. LookInv(k)'
    BY <1>0, <1>3, <1>4 DEF LookInv, Reclaiming
  <1> QED
    BY <1>0, <1>5, QuietConsumer

(* The elements of one block are moved out: which positions, which entry.  *)
MovesFrom(k, d, b, a, i, n) ==
    /\ d = EntryOf(k) /\ b = entries[d].value /\ i = c[k].index /\ a = Base(i) /\ n = c'[k].moved
    /\ d \in DOMAIN entries /\ Links(d) /\ b \in Blocks /\ Key(d) = a
    /\ i \in Nat /\ a \in Nat /\ n \in Nat \ {0} /\ a <= i /\ i + n <= a + BlockSize
    /\ i + n <= c[k].end /\ (i + n = c[k].end \/ i + n = a + BlockSize)
    /\ c[k].end \in Nat /\ c[k].end <= headIndex /\ headIndex <= tailIndex

(* What moving the elements out does. *)
LEMMA MoveFrame ==
  ASSUME Outline, BlocksInv, NEW k \in Consumers, MoveElements(k)
  PROVE  /\ c[k].pc = "move" /\ c'[k].pc = "count" /\ c[k].pc \in Looking /\ c[k].pc \in Working
         /\ \E d, b, a, i, n : MovesFrom(k, d, b, a, i, n)
         /\ c'[k].block = entries[EntryOf(k)].value
         /\ c'[k].index = c[k].index + c'[k].moved /\ c'[k].end = c[k].end
         /\ c'[k].header = c[k].header /\ c'[k].slot = c[k].slot
         /\ Start(c'[k]) = Start(c[k]) /\ Others(k) /\ Kept
         /\ UNCHANGED <<headIndex, optimistic, overcommit, entries, home, completed>>
         /\ \A j \in Int : /\ Open(j)' <=> Open(j)
                           /\ Pending(j)' <=> Pending(j) /\ ~(c[k].index <= j /\ j < c'[k].index)
  <1>0. c[k].pc = "move" /\ c[k].pc \in Looking /\ c[k].pc \in Working
    BY DEF MoveElements, At, Looking, Working
  <1>1. /\ FramesOK /\ MemoryOK /\ c[k].index \in Nat /\ c[k].end \in Nat /\ c[k].index < c[k].end
        /\ c[k].end <= headIndex /\ headIndex <= tailIndex /\ Len(c[k].items) \in Int
    BY <1>0, FrameHeld, FrameFields, LatestIs DEF Outline, Types, RangeInv
  <1>2. PICK d : d = EntryOf(k)
    OBVIOUS
  <1>3. PICK b : b = entries[d].value
    OBVIOUS
  <1>4. PICK i : i = c[k].index
    OBVIOUS
  <1>5. PICK a : a = Base(i)
    OBVIOUS
  <1>6. PICK n : n = c'[k].moved
    OBVIOUS
  <1>7. /\ c'[k].pc = "count" /\ b \in Blocks /\ c'[k].block = b
        /\ n \in Nat \ {0} /\ c'[k].index = i + n /\ c'[k].end = c[k].end
        /\ c'[k].header = c[k].header /\ c'[k].slot = c[k].slot
        /\ i + n <= c[k].end /\ i + n <= a + BlockSize
        /\ i + n = c[k].end \/ i + n = a + BlockSize
        /\ Len(c'[k].items) = Len(c[k].items) + n
        /\ Others(k) /\ Kept
        /\ UNCHANGED <<headIndex, optimistic, overcommit, entries, home, completed>>
    BY <1>1, <1>2, <1>3, <1>4, <1>5, <1>6, MoveElementsIs
  <1>8. LookInv(k) /\ IsLinkOf(d, a)
    BY <1>0, <1>2, <1>4, <1>5 DEF BlocksInv, WorkInv, LookInv
  <1>9. a \in Nat /\ a <= i
    BY <1>1, <1>4, <1>5, BaseIs
  <1>10. MovesFrom(k, d, b, a, i, n)
    BY <1>1, <1>2, <1>3, <1>4, <1>5, <1>6, <1>7, <1>8, <1>9 DEF MovesFrom, IsLinkOf
  <1>11. Start(c'[k]) = Start(c[k])
    BY <1>1, <1>4, <1>7 DEF Start
  <1>12. \A j \in Int : /\ Open(j)' <=> Open(j)
                        /\ Pending(j)' <=> Pending(j) /\ ~(i <= j /\ j < i + n)
    BY <1>0, <1>4, <1>6, <1>7, OpenMoved
  <1> QED
    BY <1>0, <1>2, <1>3, <1>4, <1>6, <1>7, <1>10, <1>11, <1>12

(* The consumer still knows its entry, and the next. *)
LEMMA MoveLook ==
  ASSUME Outline, IndexInv, BlocksInv, NEW k \in Consumers, MoveElements(k)
  PROVE  LookInv(k)'
  <1>0. /\ c[k].pc = "move" /\ c'[k].pc = "count" /\ c[k].pc \in Looking /\ c[k].pc \in Working
        /\ c'[k].block = entries[EntryOf(k)].value
        /\ c'[k].index = c[k].index + c'[k].moved /\ c'[k].end = c[k].end
        /\ c'[k].header = c[k].header /\ c'[k].slot = c[k].slot /\ Others(k) /\ Kept
        /\ UNCHANGED entries
    BY MoveFrame
  <1>1. PICK d, b, a, i, n : MovesFrom(k, d, b, a, i, n)
    BY MoveFrame
  <1> HIDE <1>1
  <1>2. /\ d = EntryOf(k) /\ b = entries[d].value /\ i = c[k].index /\ a = Base(i) /\ n = c'[k].moved
        /\ i \in Nat /\ a \in Nat /\ n \in Nat \ {0} /\ a <= i /\ i + n <= a + BlockSize
        /\ i + n <= c[k].end /\ (i + n = c[k].end \/ i + n = a + BlockSize) /\ c[k].end \in Nat
        /\ d \in DOMAIN entries /\ Links(d) /\ Key(d) = a
    BY <1>1 DEF MovesFrom
  <1>3. LookInv(k) /\ headers' = headers
    BY <1>0 DEF BlocksInv, WorkInv, Kept
  <1>4. \A e, y : IsLinkOf(e, y) => IsLinkOf(e, y)'
    BY <1>0 DEF IsLinkOf, Links, Key
  <1>5. Reach(k)' = Reach(k) /\ EntryOf(k)' = d
    BY <1>0, <1>2, <1>3 DEF Reach, EntryOf, Header
  <1>6. \A j \in c'[k].index .. c'[k].end - 1 : \E e \in 1 .. Reach(k)' : IsLinkOf(e, Base(j))'
    <2> SUFFICES ASSUME NEW j \in i + n .. c[k].end - 1
                 PROVE  \E e \in 1 .. Reach(k) : IsLinkOf(e, Base(j))'
      BY <1>0, <1>2, <1>5
    <2>1. j \in c[k].index .. c[k].end - 1
      BY <1>2
    <2> QED
      BY <1>3, <1>4, <2>1 DEF LookInv
  <1>7. /\ IsLinkOf(EntryOf(k), Base(c[k].index - 1))'
        /\ entries'[EntryOf(k)'].value = c'[k].block
    <2>1. i + n - 1 \in Int /\ a <= i + n - 1 /\ i + n - 1 < a + BlockSize /\ BlockSize \in Nat
      BY <1>2, QueueAssumption
    <2>2. Base(i + n - 1) = a
      BY <1>2, <2>1, SameBase
    <2>3. IsLinkOf(d, a)'
      BY <1>0, <1>2, <1>4 DEF IsLinkOf, Links, Key
    <2>4. c'[k].index - 1 = i + n - 1
      BY <1>0, <1>2
    <2> QED
      BY <1>0, <1>2, <1>5, <2>2, <2>3, <2>4 DEF IsLinkOf, Links, Key
  <1>8. c'[k].index < c'[k].end => IsLinkOf(After(k), c[k].index)'
    <2> SUFFICES ASSUME i + n < c[k].end
                 PROVE  IsLinkOf(After(k), c[k].index)'
      BY <1>0, <1>2
    <2>1. /\ i + n = a + BlockSize /\ i + n \in c[k].index .. c[k].end - 1
          /\ i + n \in Int /\ BlockSize \in Nat \ {0}
      BY <1>2, QueueAssumption
    <2>2. PICK e \in 1 .. Reach(k) : IsLinkOf(e, Base(i + n))
      BY <1>3, <2>1 DEF LookInv
    <2>3. Base(i + n) = a + BlockSize
      <3>1. AtBlockStart(a) /\ a \in Int
        BY <1>2, BaseIs
      <3>2. AtBlockStart(a + BlockSize)
        BY <3>1, BlocksFollow
      <3> QED
        BY <2>1, <3>2, BaseIs
    <2>4. /\ headers # << >> /\ c[k].header \in DOMAIN headers /\ c[k].slot \in Nat
          /\ RingOK(headers[c[k].header]) /\ Header(k) = headers[c[k].header]
          /\ Reach(k) = Capacity(headers[c[k].header])
      BY <1>0, FrameHeld, FrameFields DEF IndexInv, RingInv, Header, Reach
    <2>5. d \in 1 .. Reach(k) /\ Entry(headers[c[k].header], c[k].slot) = d
      <3>1. c[k].slot \in Int /\ d = Entry(headers[c[k].header], c[k].slot)
        BY <1>2, <2>4 DEF EntryOf
      <3> QED
        BY <2>4, <3>1, EntryIs
    <2>6. /\ Keyed(d) /\ e \in DOMAIN entries /\ Key(e) = a + BlockSize /\ Keyed(e)
          /\ Key(d) \in Int /\ Top \in Int /\ blockIndex.tail \in Nat
      BY <1>2, <2>2, <2>3, <2>4, TopIs, BlockIndexIs
      DEF IsLinkOf, IndexInv, RingInv, Outline, Types
    <2>7. PICK z \in Int : Key(e) = Key(d) + z * BlockSize
                           /\ Entry(headers[c[k].header], c[k].slot + z) = e
      BY SMTT(30), <1>2, <2>2, <2>4, <2>5, <2>6, RingDistance DEF IndexInv
    <2>8. z = 1
      <3>1. PICK p \in Int : p = z * BlockSize
        BY <2>1, <2>7
      <3>2. p = BlockSize
        BY <1>2, <2>1, <2>6, <2>7, <3>1
      <3>3. 0 \in 0 .. BlockSize - 1 /\ 1 \in Int /\ BlockSize = 1 * BlockSize
        BY <2>1
      <3>4. (z * BlockSize) \div BlockSize = z
        BY <2>1, <2>7, <3>3, ExactDivision
      <3>5. (1 * BlockSize) \div BlockSize = 1
        BY <2>1, <3>3, ExactDivision
      <3> QED
        BY <3>1, <3>2, <3>3, <3>4, <3>5
    <2>9. After(k)' = e
      BY <1>0, <1>3, <2>4, <2>7, <2>8 DEF After, Header
    <2>10. IsLinkOf(e, a + BlockSize)'
      BY <1>4, <2>2, <2>3
    <2> QED
      BY <1>0, <1>2, <2>1, <2>9, <2>10 DEF IsLinkOf, Links, Key
  <1> QED
    BY <1>0, <1>6, <1>7, <1>8 DEF LookInv, Reclaiming

(* Which elements are moved, and where to. *)
LEMMA MovedElements ==
  ASSUME Outline, BlocksInv, NEW k \in Consumers, MoveElements(k),
         NEW d, NEW b, NEW a, NEW i, NEW n, MovesFrom(k, d, b, a, i, n)
  PROVE  /\ \A x \in Blocks : x # b => elements'[x] = elements[x]
         /\ \A j \in 0 .. BlockSize - 1 : elements'[b][j] =
               IF j \in i - a .. i - a + n - 1 THEN 0 ELSE elements[b][j]
         /\ Len(c[k].items) \in Nat /\ Len(c'[k].items) = Len(c[k].items) + n
         /\ \A m \in 1 .. Len(c[k].items) : c'[k].items[m] = c[k].items[m]
         /\ \A m \in 1 .. n : c'[k].items[Len(c[k].items) + m] = elements[b][i - a + m - 1]
  <1>1. /\ d = EntryOf(k) /\ b = entries[d].value /\ i = c[k].index /\ a = Base(i) /\ n = c'[k].moved
        /\ b \in Blocks
    BY DEF MovesFrom
  <1>2. FramesOK /\ MemoryOK /\ c[k].index < c[k].end /\ Len(c[k].items) \in Nat
    BY FrameHeld, FrameFields DEF Outline, Types, RangeInv, MoveElements, At
  <1>3. /\ elements' = [elements EXCEPT ![b] = [j \in 0 .. BlockSize - 1 |->
                          IF j \in i - a .. i - a + n - 1 THEN 0 ELSE elements[b][j]]]
        /\ Len(c'[k].items) = Len(c[k].items) + n
        /\ \A m \in 1 .. Len(c[k].items) : c'[k].items[m] = c[k].items[m]
        /\ \A m \in 1 .. n : c'[k].items[Len(c[k].items) + m] = elements[b][i - a + m - 1]
    <2> DEFINE y == entries[EntryOf(k)].value
               x == c[k].index
               z == c'[k].moved
    <2>1. /\ elements' = [elements EXCEPT ![y] = [j \in 0 .. BlockSize - 1 |->
                IF j \in x - Base(x) .. x - Base(x) + z - 1 THEN 0 ELSE elements[y][j]]]
          /\ Len(c'[k].items) = Len(c[k].items) + z
          /\ \A m \in 1 .. Len(c[k].items) : c'[k].items[m] = c[k].items[m]
          /\ \A m \in 1 .. z : c'[k].items[Len(c[k].items) + m]
                                  = elements[y][x - Base(x) + m - 1]
      BY <1>2, MoveElementsIs
    <2>2. b = y /\ i = x /\ n = z /\ a = Base(x)
      BY <1>1
    <2> HIDE DEF y, x, z
    <2> QED
      BY <2>1, <2>2
  <1>4. DOMAIN elements = Blocks
    BY <1>2 DEF MemoryOK
  <1> QED
    BY <1>1, <1>2, <1>3, <1>4

(* The elements moved out are those of the positions, in order. *)
LEMMA MoveItems ==
  ASSUME Outline, BlocksInv, NEW k \in Consumers, MoveElements(k)
  PROVE  ItemsInv'
  <1>0. /\ c[k].pc \in Working /\ Start(c'[k]) = Start(c[k]) /\ Others(k)
        /\ Start(c[k]) \in Int /\ c[k].index \in Nat
    <2>1. c[k].pc \in Working /\ Start(c'[k]) = Start(c[k]) /\ Others(k)
      BY MoveFrame
    <2> QED
      BY <2>1, StartIs, FrameHeld
  <1>1. PICK d, b, a, i, n : MovesFrom(k, d, b, a, i, n)
    BY MoveFrame
  <1>2. /\ i \in Nat /\ a \in Nat /\ n \in Nat \ {0} /\ a <= i /\ i + n <= a + BlockSize
        /\ i = c[k].index /\ i + n <= c[k].end /\ c[k].end <= headIndex /\ headIndex <= tailIndex
        /\ c[k].end \in Nat /\ headIndex \in Nat /\ tailIndex \in Nat
        /\ d \in DOMAIN entries /\ Links(d) /\ Key(d) = a /\ b = entries[d].value
    BY <1>1, LatestIs DEF MovesFrom
  <1>3. PICK l \in Nat : l = Len(c[k].items)
    BY <1>1, MovedElements
  <1>4. i = Start(c[k]) + l
    BY SMTT(30), <1>0, <1>2, <1>3 DEF Start
  <1>5. Holds(d)
    BY <1>2 DEF BlocksInv, MemoryInv
  <1>6. \A m \in 1 .. n : elements[b][i - a + m - 1] = i + m
    <2> SUFFICES ASSUME NEW m \in 1 .. n PROVE elements[b][i - a + m - 1] = i + m
      OBVIOUS
    <2>1. PICK j \in Int : j = i + m - 1
      BY <1>2
    <2>2. j \in Of(a) /\ i <= j /\ j < c[k].end /\ j < tailIndex /\ j - a = i - a + m - 1 /\ j + 1 = i + m
      <3>1. BlockSize \in Nat /\ m \in Nat /\ 1 <= m /\ m <= n
        BY <1>2, QueueAssumption
      <3>2. j < i + n /\ i <= j /\ j + 1 = i + m /\ j - a = i - a + m - 1
        BY <1>2, <2>1, <3>1
      <3>3. j < c[k].end /\ j < tailIndex /\ a <= j /\ j < a + BlockSize
        BY <1>2, <2>1, <3>1, <3>2
      <3> QED
        BY <1>2, <2>1, <3>1, <3>2, <3>3 DEF Of
    <2>3. Pending(j) /\ Stored(j)
      BY <1>2, <2>2 DEF Pending, Mine, Stored
    <2>4. elements[b][j - a] = Content(j)
      BY <1>2, <1>5, <2>2 DEF Holds
    <2> QED
      BY <2>2, <2>3, <2>4 DEF Content
  <1>7. \A m \in 1 .. l : c'[k].items[m] = Start(c[k]) + m
    BY <1>0, <1>1, <1>3, MovedElements DEF BlocksInv, ItemsInv
  <1>8. \A m \in 1 .. n : c'[k].items[l + m] = i + m
    <2>1. \A m \in 1 .. n :
             c'[k].items[Len(c[k].items) + m] = elements[b][i - a + m - 1]
      BY <1>1, MovedElements
    <2> QED
      BY <1>3, <1>6, <2>1
  <1>9. Len(c'[k].items) = l + n
    BY <1>1, <1>3, MovedElements
  <1>10. \A m \in 1 .. l + n : c'[k].items[m] = Start(c[k]) + m
    <2> SUFFICES ASSUME NEW m \in 1 .. l + n PROVE c'[k].items[m] = Start(c[k]) + m
      OBVIOUS
    <2>1. CASE m <= l
      BY <1>3, <1>7, <2>1
    <2>2. CASE ~(m <= l)
      <3>1. m - l \in 1 .. n /\ l + (m - l) = m /\ i + (m - l) = Start(c[k]) + m
        <4>1. PICK s \in Int : s = Start(c[k])
          BY <1>0
        <4>2. m \in Int /\ l < m /\ m <= l + n
          BY <1>2, <1>3, <2>2
        <4> QED
          BY SMTT(30), <1>2, <1>3, <1>4, <4>1, <4>2
      <3> QED
        BY <1>8, <3>1
    <2> QED
      BY <2>1, <2>2
  <1> QED
    BY <1>0, <1>9, <1>10, ConsumerItems DEF BlocksInv

(* The places that were moved out of are empty, and no others. *)
LEMMA MoveMemory ==
  ASSUME Outline, BlocksInv, NEW k \in Consumers, MoveElements(k)
  PROVE  MemoryInv'
  <1>0. /\ c[k].pc = "move" /\ c'[k].pc = "count" /\ Others(k) /\ Kept
        /\ UNCHANGED <<headIndex, entries, home, completed>>
        /\ c'[k].index = c[k].index + c'[k].moved
        /\ \A j \in Int : /\ Open(j)' <=> Open(j)
                          /\ Pending(j)' <=> Pending(j) /\ ~(c[k].index <= j /\ j < c'[k].index)
    BY MoveFrame
  <1>1. PICK d, b, a, i, n : MovesFrom(k, d, b, a, i, n)
    BY MoveFrame
  <1>2. /\ i \in Nat /\ a \in Nat /\ n \in Nat \ {0} /\ a <= i /\ i + n <= a + BlockSize
        /\ i = c[k].index /\ c'[k].index = i + n
        /\ d \in DOMAIN entries /\ Links(d) /\ Key(d) = a /\ b = entries[d].value /\ b \in Blocks
    BY <1>0, <1>1 DEF MovesFrom
  <1>3. UNCHANGED <<tailIndex, producer>>
    BY <1>0 DEF Kept
  <1>4. \A x \in Blocks : (IsLinked(x)' <=> IsLinked(x)) /\ (IsUsed(x)' <=> IsUsed(x))
    <2> TAKE x \in Blocks
    <2>1. IsLinked(x)' <=> IsLinked(x)
      BY <1>0 DEF IsLinked
    <2>2. (\E j \in Consumers : c'[j].pc = "free" /\ c'[j].block = x)
            <=> \E j \in Consumers : c[j].pc = "free" /\ c[j].block = x
      BY <1>0 DEF Others
    <2> QED
      BY <1>3, <2>1, <2>2 DEF IsUsed, Busy
  <1>5. Holds(d) /\ \A e \in DOMAIN entries : Links(e) => Holds(e)
    BY <1>2 DEF BlocksInv, MemoryInv
  <1>6. \A j \in Int : ~(i <= j /\ j < i + n) => Content(j)' = Content(j)
    <2> SUFFICES ASSUME NEW j \in Int, ~(i <= j /\ j < i + n) PROVE Content(j)' = Content(j)
      OBVIOUS
    <2>1. Pending(j)' <=> Pending(j)
      BY <1>0, <1>2
    <2>2. Stored(j)' <=> Stored(j)
      BY <1>3 DEF Stored, Busy
    <2> QED
      BY <2>1, <2>2 DEF Content
  <1>7. \A j \in Int : (i <= j /\ j < i + n) => Content(j)' = 0
    <2> SUFFICES ASSUME NEW j \in Int, i <= j /\ j < i + n PROVE Content(j)' = 0
      OBVIOUS
    <2>1. ~Pending(j)'
      BY <1>0, <1>2
    <2> QED
      BY <2>1 DEF Content
  <1>8. ASSUME NEW e \in DOMAIN entries, Links(e)
        PROVE  Holds(e)'
    <2>1. /\ Key(e) \in Int /\ Of(Key(e)) \subseteq Int /\ \A j \in Of(Key(e)) : Base(j) = Key(e)
      BY <1>8, LinkIs DEF BlocksInv
    <2>2. CASE e = d
      <3>1. completed'[b] = Cardinality(Closed(a)')
        <4>1. Closed(a)' = Closed(a)
          BY <1>0, <1>2, <2>1, <2>2 DEF Closed, Of
        <4> QED
          BY <1>0, <1>2, <1>5, <4>1 DEF Holds
      <3>2. ASSUME NEW j \in Of(a) PROVE elements'[b][j - a] = Content(j)'
        <4>1. j \in Int /\ j - a \in 0 .. BlockSize - 1 /\ BlockSize \in Nat
          BY <1>2, QueueAssumption DEF Of
        <4>2. elements[b][j - a] = Content(j)
          BY <1>2, <1>5 DEF Holds
        <4>3. elements'[b][j - a] = IF j - a \in i - a .. i - a + n - 1 THEN 0 ELSE elements[b][j - a]
          BY <1>1, <4>1, MovedElements
        <4>4. CASE i <= j /\ j < i + n
          <5>1. j - a \in i - a .. i - a + n - 1
            BY <1>2, <4>1, <4>4
          <5> QED
            BY <1>7, <4>1, <4>3, <4>4, <5>1
        <4>5. CASE ~(i <= j /\ j < i + n)
          <5>1. ~(j - a \in i - a .. i - a + n - 1)
            BY <1>2, <4>1, <4>5
          <5> QED
            BY <1>6, <4>1, <4>2, <4>3, <4>5, <5>1
        <4> QED
          BY <4>4, <4>5
      <3>3. Key(d)' = a /\ entries'[d].value = b
        BY <1>0, <1>2 DEF Key
      <3> QED
        BY <1>0, <2>2, <3>1, <3>2, <3>3 DEF Holds, Of, Closed, Open, Key
    <2>3. CASE e # d
      <3>1. entries[e].value # b /\ entries[e].value \in Blocks /\ Key(e) # a
        BY <1>2, <1>8, <2>3 DEF BlocksInv, LinkInv, Links
      <3>2. elements'[entries[e].value] = elements[entries[e].value]
        BY <1>1, <3>1, MovedElements
      <3>3. ASSUME NEW j \in Of(Key(e)) PROVE (Open(j)' <=> Open(j)) /\ Content(j)' = Content(j)
        <4>1. j \in Int /\ Base(j) = Key(e)
          BY <2>1
        <4>2. ~(i <= j /\ j < i + n)
          <5>1. SUFFICES ASSUME i <= j, j < i + n PROVE FALSE
            BY <4>1
          <5>2. a <= j /\ j < a + BlockSize
            BY <1>2, <4>1, <5>1, QueueAssumption
          <5>3. AtBlockStart(a) /\ a \in Int
            BY <1>2, LinkIs DEF BlocksInv
          <5> QED
            BY <3>1, <4>1, <5>2, <5>3, OneBase
        <4> QED
          BY <1>0, <1>6, <4>1, <4>2
      <3> QED
        BY <1>0, <1>5, <1>8, <2>1, <3>2, <3>3, HoldsSame
    <2> QED
      BY <2>2, <2>3
  <1>9. Busy({"publish"})' => completed'[producer'.block] = 0 /\ ~IsLinked(producer.block)'
    BY <1>0, <1>3 DEF BlocksInv, MemoryInv, Busy, IsLinked
  <1>10. \A x \in Blocks : ~IsLinked(x)' => \A j \in 0 .. BlockSize - 1 : elements'[x][j] = 0
    <2> SUFFICES ASSUME NEW x \in Blocks, ~IsLinked(x)
                 PROVE  \A j \in 0 .. BlockSize - 1 : elements'[x][j] = 0
      BY <1>4
    <2>1. x # b
      BY <1>2 DEF IsLinked
    <2>2. elements'[x] = elements[x]
      BY <1>1, <2>1, MovedElements
    <2> QED
      BY <2>2 DEF BlocksInv, MemoryInv
  <1>11. \A x \in Blocks : home'[x] # "freed twice" /\ (home'[x] = "used" <=> IsUsed(x)')
    BY <1>0, <1>4 DEF BlocksInv, MemoryInv
  <1>12. \A e \in DOMAIN entries' : Links(e)' => Holds(e)'
    BY <1>0, <1>8 DEF Links
  <1> QED
    BY <1>9, <1>10, <1>11, <1>12 DEF MemoryInv

(* Moving elements out keeps the blocks in order. *)
LEMMA MoveBlocks ==
  ASSUME Outline, IndexInv, BlocksInv, NEW k \in Consumers, MoveElements(k)
  PROVE  BlocksInv'
  <1>1. /\ c[k].pc = "move" /\ c'[k].pc = "count" /\ Others(k) /\ Kept /\ UNCHANGED entries
        /\ \A j \in Int : Open(j)' <=> Open(j)
    BY MoveFrame
  <1>2. \A b : Unlinking(b) => Unlinking(b)'
    BY <1>1 DEF Unlinking, Others
  <1>3. LinkInv'
    BY <1>1, <1>2, ConsumerLinks DEF BlocksInv
  <1>4. WorkInv'
    <2>1. ~Reclaiming(k)'
      BY <1>1 DEF Reclaiming
    <2>2. LookInv(k)'
      BY MoveLook
    <2> QED
      BY <1>1, <2>1, <2>2, ConsumerWork DEF BlocksInv
  <1> QED
    BY <1>3, <1>4, MoveItems, MoveMemory DEF BlocksInv

(* The positions a consumer has emptied and is about to count, in block b  *)
(* at position a, to which entry d leads.                                  *)
CountsIn(k, d, b, a, i, m) ==
    /\ d = EntryOf(k) /\ b = c[k].block /\ i = c[k].index /\ m = c[k].moved /\ a = Base(i - 1)
    /\ d \in DOMAIN entries /\ Links(d) /\ entries[d].value = b /\ b \in Blocks /\ Key(d) = a
    /\ i \in Nat /\ a \in Nat /\ m \in Nat \ {0} /\ a <= i - m /\ i <= a + BlockSize

(* What a consumer has that is about to count. *)
LEMMA CountsAre ==
  ASSUME Outline, BlocksInv, NEW k \in Consumers, c[k].pc = "count"
  PROVE  \E d, b, a, i, m : CountsIn(k, d, b, a, i, m)
  <1>0. c[k].pc \in Looking /\ c[k].pc \in Working
    BY DEF Looking, Working
  <1>1. PICK d : d = EntryOf(k)
    OBVIOUS
  <1>2. PICK b : b = c[k].block
    OBVIOUS
  <1>3. PICK i \in Nat : i = c[k].index
    BY <1>0, FrameHeld
  <1>4. PICK m \in Nat : m = c[k].moved
    BY <1>0, FrameHeld, FrameFields
  <1>5. PICK a : a = Base(i - 1)
    OBVIOUS
  <1>6. RangeInv(c[k], headIndex) /\ LookInv(k)
    BY <1>0, FrameHeld DEF BlocksInv, WorkInv
  <1>7. 0 < i /\ b \in Blocks /\ a <= i - m /\ m # 0
    BY <1>2, <1>3, <1>4, <1>5, <1>6 DEF RangeInv
  <1>8. IsLinkOf(d, a) /\ entries[d].value = b
    BY <1>1, <1>2, <1>3, <1>5, <1>6 DEF LookInv
  <1>9. i - 1 \in Int /\ i - 1 >= 0
    BY <1>3, <1>7
  <1>10. a \in Nat /\ i - 1 < a + BlockSize /\ BlockSize \in Nat
    BY <1>5, <1>9, BaseIs, QueueAssumption
  <1>11. i <= a + BlockSize
    BY <1>3, <1>10
  <1> QED
    BY <1>1, <1>2, <1>3, <1>4, <1>5, <1>7, <1>8, <1>10, <1>11 DEF CountsIn, IsLinkOf

(* What counting does. *)
LEMMA CountFrame ==
  ASSUME Outline, NEW k \in Consumers, CountElements(k),
         NEW d, NEW b, NEW a, NEW i, NEW m, CountsIn(k, d, b, a, i, m)
  PROVE  /\ c[k].pc = "count" /\ c[k].pc \in Looking /\ c[k].pc \in Working
         /\ completed[b] \in Nat /\ completed'[b] = completed[b] + m
         /\ \A x \in Blocks : x # b => completed'[x] = completed[x]
         /\ \/ completed'[b] = BlockSize /\ Becomes(k, "unlink", c[k])
            \/ completed'[b] # BlockSize /\ (Finishes(k) \/ GoesOn(k))
         /\ c'[k].pc \in {"unlink", "done", "move"} /\ c'[k].items = c[k].items
         /\ c'[k].pc # "done" => c'[k].index = i /\ c'[k].end = c[k].end
         /\ Others(k) /\ Kept
         /\ UNCHANGED <<headIndex, optimistic, overcommit, entries, home, elements>>
         /\ \A j \in Int : /\ Pending(j)' <=> Pending(j)
                           /\ Open(j)' <=> Open(j) /\ ~(i - m <= j /\ j < i)
                           /\ (i - m <= j /\ j < i) => Open(j) /\ ~Pending(j)
  <1>0. c[k].pc = "count" /\ c[k].pc \in Looking /\ c[k].pc \in Working
    BY DEF CountElements, At, Looking, Working
  <1>1. FramesOK /\ Capacity(Header(k)) \in Nat \ {0} /\ completed \in [Blocks -> Nat]
    BY <1>0, FrameHeld DEF Outline, Types, MemoryOK
  <1>2. b = c[k].block /\ i = c[k].index /\ m = c[k].moved /\ b \in Blocks /\ m \in Nat /\ i \in Nat
    BY DEF CountsIn
  <1>3. /\ completed' = [completed EXCEPT ![c[k].block] = @ + c[k].moved]
        /\ \/ IsEmptyNow(k) /\ Becomes(k, "unlink", c[k])
           \/ ~IsEmptyNow(k) /\ (Finishes(k) \/ GoesOn(k))
        /\ Others(k) /\ Kept
        /\ UNCHANGED <<headIndex, optimistic, overcommit, entries, home, elements>>
    BY <1>1, CountElementsIs
  <1>4. /\ completed[b] \in Nat /\ completed'[b] = completed[b] + m
        /\ \A x \in Blocks : x # b => completed'[x] = completed[x]
    BY <1>1, <1>2, <1>3
  <1>5. IsEmptyNow(k) <=> completed'[b] = BlockSize
    BY <1>2, <1>4 DEF IsEmptyNow
  <1>6. /\ c'[k].pc \in {"unlink", "done", "move"} /\ c'[k].items = c[k].items
        /\ c'[k].pc # "done" => c'[k].index = i /\ c'[k].end = c[k].end
        /\ c'[k].pc = "done" => c'[k].index = 0 /\ c'[k].end = 0 /\ c[k].index = c[k].end
    BY <1>2, <1>3 DEF Becomes, Finishes, GoesOn
  <1>7. \A j \in Int : Mine(c'[k], j) <=> Mine(c[k], j)
    BY <1>2, <1>6 DEF Mine
  <1>8. \A j \in Int : /\ Pending(j)' <=> Pending(j)
                       /\ Open(j)' <=> Open(j) /\ ~Counts(c[k], j)
                       /\ Counts(c[k], j) => ~Pending(j)
    BY <1>0, <1>3, <1>6, <1>7, OpenCounted
  <1>9. \A j \in Int : Counts(c[k], j) <=> i - m <= j /\ j < i
    BY <1>0, <1>2 DEF Counts
  <1>10. \A j \in Int : Counts(c[k], j) => Open(j)
    BY MineOpen
  <1> QED
    BY <1>0, <1>3, <1>4, <1>5, <1>6, <1>8, <1>9, <1>10

(* The sizes of sets of positions.                                         *)
LEMMA OfIs ==
  ASSUME NEW a \in Int
  PROVE  /\ IsFiniteSet(Of(a)) /\ Cardinality(Of(a)) = BlockSize /\ Of(a) \subseteq Int
         /\ IsFiniteSet(Closed(a)) /\ Cardinality(Closed(a)) \in Nat /\ Closed(a) \subseteq Of(a)
  <1>1. a + BlockSize - 1 \in Int /\ BlockSize \in Nat /\ BlockSize > 0
    BY QueueAssumption
  <1>2. IsFiniteSet(Of(a)) /\ Cardinality(Of(a)) = BlockSize
    BY <1>1, FS_Interval DEF Of
  <1>3. Closed(a) \in SUBSET Of(a)
    BY DEF Closed
  <1>4. IsFiniteSet(Closed(a))
    BY <1>2, <1>3, FS_Subset
  <1> QED
    BY <1>1, <1>2, <1>3, <1>4, FS_CardinalityType DEF Of

(* Counting closes as many positions as were moved. *)
LEMMA ClosedGrows ==
  ASSUME Outline, NEW k \in Consumers, c[k].pc = "count",
         NEW d, NEW b, NEW a, NEW i, NEW m, CountsIn(k, d, b, a, i, m)
  PROVE  LET C == {j \in Of(a) : ~(Open(j) /\ ~(i - m <= j /\ j < i))} IN
         /\ Cardinality(C) = Cardinality(Closed(a)) + m /\ Cardinality(C) <= BlockSize
         /\ Cardinality(C) = BlockSize => C = Of(a)
  <1> DEFINE C == {j \in Of(a) : ~(Open(j) /\ ~(i - m <= j /\ j < i))}
  <1>1. /\ i \in Nat /\ a \in Nat /\ m \in Nat \ {0} /\ a <= i - m /\ i <= a + BlockSize
        /\ i = c[k].index /\ m = c[k].moved /\ BlockSize \in Nat
    BY QueueAssumption DEF CountsIn
  <1>2. PICK M : M = (i - m) .. (i - 1)
    OBVIOUS
  <1>3. IsFiniteSet(M) /\ Cardinality(M) = m
    <2>1. i - m \in Int /\ i - 1 \in Int /\ ~(i - m > i - 1) /\ (i - 1) - (i - m) + 1 = m
      BY <1>1
    <2> QED
      BY <1>2, <2>1, FS_Interval
  <1>4. \A j \in Of(a) : j \in M <=> i - m <= j /\ j < i
    BY <1>1, <1>2 DEF Of
  <1>5. M \subseteq Of(a)
    BY <1>1, <1>2 DEF Of
  <1>6. \A j \in M : Open(j)
    BY <1>1, <1>2, MineOpen DEF Counts
  <1>7. C = Closed(a) \cup M
    BY <1>4, <1>5 DEF Closed
  <1>8. Closed(a) \cap M = {}
    BY <1>6 DEF Closed
  <1>9. /\ IsFiniteSet(Of(a)) /\ Cardinality(Of(a)) = BlockSize
        /\ IsFiniteSet(Closed(a)) /\ Cardinality(Closed(a)) \in Nat
    BY <1>1, OfIs
  <1> HIDE DEF C
  <1>10. Cardinality(C) = Cardinality(Closed(a)) + m
    <2>1. Cardinality(C) = Cardinality(Closed(a)) + Cardinality(M) - Cardinality(Closed(a) \cap M)
      BY <1>3, <1>7, <1>9, FS_Union
    <2>2. Cardinality(Closed(a) \cap M) = 0
      BY <1>8, FS_EmptySet
    <2> QED
      BY <1>1, <1>3, <1>9, <2>1, <2>2
  <1>11. C \in SUBSET Of(a)
    BY DEF C
  <1>12. Cardinality(C) <= BlockSize /\ (Cardinality(C) = BlockSize => C = Of(a))
    BY <1>9, <1>11, FS_Subset
  <1> QED
    BY <1>10, <1>12 DEF C

(* The count of a block with elements to be counted still, is not past the *)
(* end.                                                                    *)
LEMMA CountFits ==
  ASSUME Outline, BlocksInv, NEW k \in Consumers, c[k].pc = "count",
         NEW d, NEW b, NEW a, NEW i, NEW m, CountsIn(k, d, b, a, i, m)
  PROVE  completed[b] = Cardinality(Closed(a)) /\ completed[b] + m <= BlockSize
  <1>1. d \in DOMAIN entries /\ Links(d) /\ entries[d].value = b /\ Key(d) = a
    BY DEF CountsIn
  <1>2. completed[b] = Cardinality(Closed(a))
    BY <1>1 DEF BlocksInv, MemoryInv, Holds
  <1> DEFINE C == {j \in Of(a) : ~(Open(j) /\ ~(i - m <= j /\ j < i))}
  <1>3. Cardinality(C) = Cardinality(Closed(a)) + m /\ Cardinality(C) <= BlockSize
    BY ClosedGrows
  <1> HIDE DEF C
  <1> QED
    BY <1>2, <1>3

(* Blocks to which different entries lead have different positions.        *)
LEMMA LinksApart ==
  ASSUME Outline, LinkInv, NEW d \in DOMAIN entries, NEW e \in DOMAIN entries, Links(d), Links(e),
         d # e
  PROVE  /\ Key(d) # Key(e) /\ entries[d].value # entries[e].value
         /\ \A j \in Of(Key(e)) : j \in Int /\ j \notin Of(Key(d))
  <1>1. Key(d) # Key(e) /\ entries[d].value # entries[e].value
    BY DEF LinkInv
  <1>2. \A j \in Of(Key(d)) : Base(j) = Key(d)
    BY LinkIs
  <1>3. \A j \in Of(Key(e)) : j \in Int /\ Base(j) = Key(e)
    BY LinkIs
  <1> QED
    BY <1>1, <1>2, <1>3

(* After the count: all positions of the block are closed, or one is not.  *)
LEMMA CountClosed ==
  ASSUME Outline, BlocksInv, NEW k \in Consumers, CountElements(k),
         NEW d, NEW b, NEW a, NEW i, NEW m, CountsIn(k, d, b, a, i, m)
  PROVE  /\ completed'[b] = Cardinality({j \in Of(a) : ~Open(j)'})
         /\ completed'[b] = BlockSize => \A j \in Of(a) : ~Open(j)'
         /\ completed'[b] # BlockSize => \E j \in Of(a) : Open(j)'
  <1>0. a \in Int /\ c[k].pc = "count"
    BY DEF CountsIn, CountElements, At
  <1>1. Of(a) \subseteq Int /\ Cardinality(Of(a)) = BlockSize
    BY <1>0, OfIs
  <1>2. /\ completed'[b] = completed[b] + m
        /\ \A j \in Int : Open(j)' <=> Open(j) /\ ~(i - m <= j /\ j < i)
    BY CountFrame
  <1> DEFINE C == {j \in Of(a) : ~(Open(j) /\ ~(i - m <= j /\ j < i))}
  <1>3. /\ Cardinality(C) = Cardinality(Closed(a)) + m
        /\ Cardinality(C) = BlockSize => C = Of(a)
    BY <1>0, ClosedGrows
  <1>4. {j \in Of(a) : ~Open(j)'} = C
    BY <1>1, <1>2
  <1>5. completed'[b] = Cardinality(C)
    BY <1>0, <1>2, <1>3, CountFits
  <1>6. (\A j \in Of(a) : ~Open(j)') => C = Of(a)
    BY <1>4
  <1>7. C = Of(a) => \A j \in Of(a) : ~Open(j)'
    BY <1>4
  <1> HIDE DEF C
  <1> QED
    BY <1>1, <1>3, <1>4, <1>5, <1>6, <1>7

(* Counting keeps the links in order. *)
LEMMA CountLinks ==
  ASSUME Outline, BlocksInv, NEW k \in Consumers, CountElements(k)
  PROVE  LinkInv'
  <1>0. PICK d, b, a, i, m : CountsIn(k, d, b, a, i, m)
    BY CountsAre DEF CountElements, At
  <1>1. /\ Others(k) /\ Kept /\ UNCHANGED <<headIndex, entries>> /\ c[k].pc = "count"
        /\ \/ completed'[b] = BlockSize /\ Becomes(k, "unlink", c[k])
           \/ completed'[b] # BlockSize /\ (Finishes(k) \/ GoesOn(k))
        /\ \A j \in Int : Open(j)' <=> Open(j) /\ ~(i - m <= j /\ j < i)
    BY <1>0, CountFrame
  <1>2. Latest' = Latest /\ UNCHANGED <<tailIndex, tailBlock, producer, headers>>
    BY <1>1 DEF Kept, Latest, Busy
  <1>3. /\ d \in DOMAIN entries /\ Links(d) /\ entries[d].value = b /\ Key(d) = a /\ c[k].block = b
        /\ i \in Nat /\ a \in Nat /\ m \in Nat \ {0} /\ a <= i - m /\ i <= a + BlockSize
    BY <1>0 DEF CountsIn
  <1>4. ASSUME NEW e \in DOMAIN entries, Links(e)
        PROVE  (\E j \in Of(Key(e)) : Open(j)') \/ Unlinking(entries[e].value)'
    <2>1. LinkOK(e)
      BY <1>4 DEF BlocksInv, LinkInv
    <2>2. CASE e = d
      <3>1. CASE completed'[b] = BlockSize
        <4>1. c'[k].pc = "unlink" /\ c'[k].block = b
          BY <1>1, <1>3, <3>1 DEF Becomes
        <4>2. Unlinking(b)'
          BY <4>1 DEF Unlinking
        <4>3. PICK x : x = entries[e].value
          OBVIOUS
        <4> QED
          BY <1>1, <1>3, <2>2, <4>2 DEF Unlinking
      <3>2. CASE completed'[b] # BlockSize
        BY <1>0, <1>3, <2>2, <3>2, CountClosed
      <3> QED
        BY <3>1, <3>2
    <2>3. CASE e # d /\ \E j \in Of(Key(e)) : Open(j)
      <3>1. PICK j \in Of(Key(e)) : Open(j)
        BY <2>3
      <3>2. j \in Int /\ j \notin Of(a)
        BY <1>3, <1>4, <2>3, LinksApart DEF BlocksInv
      <3>3. ~(i - m <= j /\ j < i)
        <4>1. SUFFICES ASSUME i - m <= j, j < i PROVE FALSE
          BY <3>2
        <4>2. a <= j /\ j < a + BlockSize /\ BlockSize \in Nat
          BY <1>3, <3>2, <4>1, QueueAssumption
        <4> QED
          BY <1>3, <3>2, <4>2 DEF Of
      <3> QED
        BY <1>1, <3>1, <3>2, <3>3
    <2>4. CASE Unlinking(entries[e].value)
      <3>1. PICK j \in Consumers : c[j].pc = "unlink" /\ c[j].block = entries[e].value
        BY <2>4 DEF Unlinking
      <3>2. c'[j] = c[j]
        BY <1>1, <3>1 DEF Others
      <3> QED
        BY <1>1, <3>1, <3>2 DEF Unlinking
    <2> QED
      BY <2>1, <2>2, <2>3, <2>4 DEF LinkOK
  <1>5. ASSUME NEW e \in DOMAIN entries', Links(e)' PROVE LinkOK(e)'
    <2>1. e \in DOMAIN entries /\ Links(e) /\ LinkOK(e)
      BY <1>1, <1>5 DEF Links, BlocksInv, LinkInv
    <2>2. (\E j \in Of(Key(e)) : Open(j)') \/ Unlinking(entries[e].value)'
      BY <1>4, <2>1
    <2>3. (\E j \in Of(Key(e)) : Open(j))' \/ Unlinking(entries[e].value)'
      BY <1>1, <2>2 DEF Of, Key
    <2> QED
      BY <1>1, <1>2, <2>1, <2>3 DEF LinkOK, Key
  <1>6. \A x, e \in DOMAIN entries' :
          (/\ Links(x)' /\ Links(e)'
           /\ Key(x)' = Key(e)' \/ entries'[x].value = entries'[e].value) => x = e
    BY <1>1 DEF BlocksInv, LinkInv, Links, Key
  <1>7. \A j \in 0 .. Base(Latest') + BlockSize - 1 : Open(j)' => \E e : IsLinkOf(e, Base(j))'
    <2> SUFFICES ASSUME NEW j \in 0 .. Base(Latest) + BlockSize - 1, Open(j)'
                 PROVE  \E e : IsLinkOf(e, Base(j))'
      BY <1>2
    <2>1. j \in Int
      OBVIOUS
    <2>2. Open(j)
      BY <1>1, <2>1
    <2>3. PICK e : IsLinkOf(e, Base(j))
      BY <2>2 DEF BlocksInv, LinkInv
    <2>4. IsLinkOf(e, Base(j))'
      BY <1>1, <2>3 DEF IsLinkOf, Links, Key
    <2> QED
      BY <2>4
  <1> QED
    BY <1>5, <1>6, <1>7 DEF LinkInv

(* The next block of the range is found in the next slot.                  *)
LEMMA GoesOnLook ==
  ASSUME Outline, BlocksInv, NEW k \in Consumers, c[k].pc \in {"count", "free"}, GoesOn(k), Kept,
         UNCHANGED entries
  PROVE  LookInv(k)'
  <1>0. /\ c[k].pc \in Looking /\ c[k].pc \in Working /\ c'[k].pc = "move"
        /\ c'[k].slot = (c[k].slot + 1) % Capacity(Header(k)) /\ c'[k].header = c[k].header
        /\ c'[k].index = c[k].index /\ c'[k].end = c[k].end /\ headers' = headers
        /\ c[k].index # c[k].end
    BY DEF GoesOn, Kept, Looking, Working
  <1>1. LookInv(k) /\ RangeInv(c[k], headIndex)
    BY <1>0, FrameHeld DEF BlocksInv, WorkInv
  <1>2. /\ c[k].index \in Nat /\ c[k].end \in Nat /\ c[k].index <= c[k].end
        /\ Capacity(Header(k)) \in Nat \ {0} /\ c[k].slot \in Nat
    BY <1>0, FrameHeld, FrameFields
  <1>3. c[k].index < c[k].end /\ AtBlockStart(c[k].index)
    BY <1>0, <1>1, <1>2 DEF RangeInv
  <1>4. IsLinkOf(After(k), c[k].index) /\ Base(c[k].index) = c[k].index
    BY <1>1, <1>2, <1>3, BaseIs DEF LookInv
  <1>5. \A e, y : IsLinkOf(e, y) => IsLinkOf(e, y)'
    BY DEF IsLinkOf, Links, Key
  <1>6. IsLinkOf(EntryOf(k), Base(c[k].index))'
    <2>1. PICK e : e = After(k)
      OBVIOUS
    <2>2. Entry(Header(k), (c[k].slot + 1) % Capacity(Header(k))) = Entry(Header(k), c[k].slot + 1)
      <3>1. c[k].slot + 1 \in Int
        BY <1>2
      <3> QED
        BY <1>2, <3>1, EntryModulo
    <2>3. EntryOf(k)' = e
      BY <1>0, <2>1, <2>2 DEF EntryOf, Header, After
    <2>4. PICK y : y = c[k].index
      OBVIOUS
    <2>5. IsLinkOf(e, y)'
      BY <1>4, <1>5, <2>1, <2>4
    <2>6. Base(c[k].index)' = y
      BY <1>0, <1>4, <2>4
    <2> QED
      BY <2>3, <2>5, <2>6 DEF IsLinkOf, Links, Key
  <1>7. \A j \in c'[k].index .. c'[k].end - 1 : \E e \in 1 .. Reach(k)' : IsLinkOf(e, Base(j))'
    <2>1. Reach(k)' = Reach(k)
      BY <1>0 DEF Reach
    <2> QED
      BY <1>0, <1>1, <1>5, <2>1 DEF LookInv
  <1> QED
    BY <1>0, <1>6, <1>7 DEF LookInv, Reclaiming

(* The consumer that empties a block knows its entry. *)
LEMMA UnlinkLook ==
  ASSUME Outline, BlocksInv, NEW k \in Consumers, CountElements(k),
         NEW d, NEW b, NEW a, NEW i, NEW m, CountsIn(k, d, b, a, i, m), completed'[b] = BlockSize
  PROVE  LookInv(k)'
  <1>0. /\ c[k].pc = "count" /\ c[k].pc \in Looking /\ c[k].pc \in Working
        /\ Becomes(k, "unlink", c[k]) /\ Kept /\ UNCHANGED entries
    BY CountFrame
  <1>1. /\ c'[k].pc = "unlink" /\ c'[k].header = c[k].header /\ c'[k].slot = c[k].slot
        /\ c'[k].index = c[k].index /\ c'[k].end = c[k].end /\ c'[k].block = c[k].block
        /\ headers' = headers
    BY <1>0 DEF Becomes, Kept
  <1>2. /\ d = EntryOf(k) /\ b = c[k].block /\ i = c[k].index /\ a = Base(i - 1)
        /\ d \in DOMAIN entries /\ Links(d) /\ entries[d].value = b /\ Key(d) = a
    BY DEF CountsIn
  <1>3. LookInv(k)
    BY <1>0 DEF BlocksInv, WorkInv
  <1>4. \A e, y : IsLinkOf(e, y) => IsLinkOf(e, y)'
    BY <1>0 DEF IsLinkOf, Links, Key
  <1>5. Reach(k)' = Reach(k) /\ EntryOf(k)' = d /\ After(k)' = After(k)
    BY <1>1, <1>2 DEF Reach, EntryOf, Header, After
  <1>6. IsLinkOf(EntryOf(k), Base(c[k].index - 1))' /\ entries'[EntryOf(k)'].value = c'[k].block
    <2>1. IsLinkOf(d, a)'
      BY <1>0, <1>2 DEF IsLinkOf, Links, Key
    <2> QED
      BY <1>0, <1>1, <1>2, <1>5, <2>1 DEF IsLinkOf, Links, Key
  <1>7. c'[k].index < c'[k].end => IsLinkOf(After(k), c[k].index)'
    <2> SUFFICES ASSUME c[k].index < c[k].end PROVE IsLinkOf(After(k), c[k].index)'
      BY <1>1
    <2>1. IsLinkOf(After(k), c[k].index)
      BY <1>0, <1>3 DEF LookInv
    <2> QED
      BY <1>0, <1>1, <1>5, <2>1 DEF IsLinkOf, Links, Key
  <1>8. \A j \in Of(Base(c'[k].index - 1)) : ~Open(j)'
    BY <1>1, <1>2, CountClosed
  <1>9. \A j \in c'[k].index .. c'[k].end - 1 : \E e \in 1 .. Reach(k)' : IsLinkOf(e, Base(j))'
    BY <1>1, <1>3, <1>4, <1>5 DEF LookInv
  <1> QED
    BY <1>1, <1>6, <1>7, <1>8, <1>9 DEF LookInv, Reclaiming, Of

(* Nobody else takes out a block with open positions.                      *)
LEMMA NotReclaimed ==
  ASSUME Outline, BlocksInv, NEW j \in Consumers, Reclaiming(j),
         NEW d \in DOMAIN entries, Links(d), NEW i \in Of(Key(d)), Open(i)
  PROVE  Base(c[j].index - 1) # Key(d) /\ c[j].block # entries[d].value
  <1>1. c[j].pc \in {"unlink", "free"} /\ LookInv(j)
    BY DEF Reclaiming, BlocksInv, WorkInv, Looking
  <1>2. Base(c[j].index - 1) # Key(d)
    BY <1>1 DEF LookInv
  <1>3. CASE c[j].pc = "unlink"
    <2>1. IsLinkOf(EntryOf(j), Base(c[j].index - 1)) /\ entries[EntryOf(j)].value = c[j].block
      BY <1>1, <1>3 DEF LookInv
    <2>2. PICK e : e = EntryOf(j)
      OBVIOUS
    <2>3. e \in DOMAIN entries /\ Links(e) /\ Key(e) # Key(d) /\ entries[e].value = c[j].block
      BY <1>2, <2>1, <2>2 DEF IsLinkOf
    <2> QED
      BY <1>2, <2>3 DEF BlocksInv, LinkInv
  <1>4. CASE c[j].pc = "free"
    BY <1>1, <1>2, <1>4 DEF LookInv
  <1> QED
    BY <1>1, <1>3, <1>4

(* Counting keeps what consumers find. *)
LEMMA CountWork ==
  ASSUME Outline, BlocksInv, NEW k \in Consumers, CountElements(k)
  PROVE  WorkInv'
  <1>0. PICK d, b, a, i, m : CountsIn(k, d, b, a, i, m)
    BY CountsAre DEF CountElements, At
  <1>1. /\ Others(k) /\ Kept /\ UNCHANGED <<headIndex, entries>> /\ c[k].pc = "count"
        /\ \/ completed'[b] = BlockSize /\ Becomes(k, "unlink", c[k])
           \/ completed'[b] # BlockSize /\ (Finishes(k) \/ GoesOn(k))
        /\ \A j \in Int : /\ Open(j)' <=> Open(j) /\ ~(i - m <= j /\ j < i)
                          /\ (i - m <= j /\ j < i) => Open(j)
    BY <1>0, CountFrame
  <1>2. /\ i = c[k].index /\ a = Base(i - 1) /\ b = c[k].block
        /\ d \in DOMAIN entries /\ Links(d) /\ entries[d].value = b /\ Key(d) = a
        /\ i \in Nat /\ a \in Nat /\ m \in Nat \ {0} /\ a <= i - m /\ i <= a + BlockSize
    BY <1>0 DEF CountsIn
  <1>3. c'[k].pc \in Looking => LookInv(k)'
    <2>1. CASE completed'[b] = BlockSize
      BY <1>0, <2>1, UnlinkLook
    <2>2. CASE GoesOn(k)
      BY <1>1, <2>2, GoesOnLook
    <2>3. CASE Finishes(k)
      BY <2>3 DEF Finishes, Looking
    <2> QED
      BY <1>1, <2>1, <2>2, <2>3
  <1>4. Reclaiming(k)' => Becomes(k, "unlink", c[k])
    BY <1>1 DEF Reclaiming, GoesOn, Finishes
  <1>5. ASSUME Reclaiming(k)', NEW j \in Consumers, j # k, Reclaiming(j)
        PROVE  Base(c[j].index - 1) # Base(c'[k].index - 1) /\ c[j].block # c'[k].block
    <2>1. c'[k].index = i /\ c'[k].block = b
      BY <1>2, <1>4, <1>5 DEF Becomes
    <2>2. i - 1 \in Of(a) /\ Open(i - 1)
      <3>1. i - 1 \in Int /\ i - m <= i - 1 /\ i - 1 < i /\ a <= i - 1 /\ i - 1 < a + BlockSize
            /\ BlockSize \in Nat
        BY <1>2, QueueAssumption
      <3> QED
        BY <1>1, <1>2, <3>1 DEF Of
    <2>3. Base(c[j].index - 1) # Key(d) /\ c[j].block # entries[d].value
      BY <1>2, <1>5, <2>2, NotReclaimed
    <2> QED
      BY <1>2, <2>1, <2>3
  <1> QED
    BY <1>1, <1>3, <1>5, ConsumerWork DEF BlocksInv

(* Counting keeps each block's count: the number of its closed positions. *)
LEMMA CountMemory ==
  ASSUME Outline, BlocksInv, NEW k \in Consumers, CountElements(k)
  PROVE  MemoryInv'
  <1>0. PICK d, b, a, i, m : CountsIn(k, d, b, a, i, m)
    BY CountsAre DEF CountElements, At
  <1>1. /\ Others(k) /\ Kept /\ UNCHANGED <<headIndex, entries, home, elements>>
        /\ c[k].pc = "count" /\ c'[k].pc \in {"unlink", "done", "move"}
        /\ \A x \in Blocks : x # b => completed'[x] = completed[x]
        /\ \A j \in Int : /\ Pending(j)' <=> Pending(j)
                          /\ Open(j)' <=> Open(j) /\ ~(i - m <= j /\ j < i)
    BY <1>0, CountFrame
  <1>2. /\ d \in DOMAIN entries /\ Links(d) /\ entries[d].value = b /\ Key(d) = a /\ b \in Blocks
        /\ i \in Nat /\ a \in Nat /\ m \in Nat \ {0} /\ a <= i - m /\ i <= a + BlockSize
    BY <1>0 DEF CountsIn
  <1>3. UNCHANGED <<tailIndex, producer>>
    BY <1>1 DEF Kept
  <1>4. \A x \in Blocks : (IsLinked(x)' <=> IsLinked(x)) /\ (IsUsed(x)' <=> IsUsed(x))
    <2> TAKE x \in Blocks
    <2>1. IsLinked(x)' <=> IsLinked(x)
      BY <1>1 DEF IsLinked
    <2>2. (\E j \in Consumers : c'[j].pc = "free" /\ c'[j].block = x)
            <=> \E j \in Consumers : c[j].pc = "free" /\ c[j].block = x
      BY <1>1 DEF Others
    <2> QED
      BY <1>3, <2>1, <2>2 DEF IsUsed, Busy
  <1>5. \A j \in Int : Content(j)' = Content(j)
    BY <1>1, <1>3 DEF Content, Stored, Busy
  <1>6. ASSUME NEW e \in DOMAIN entries, Links(e)
        PROVE  Holds(e)'
    <2>1. /\ Key(e) \in Int /\ Of(Key(e)) \subseteq Int /\ Holds(e)
      <3>1. Key(e) \in Nat /\ Of(Key(e)) \subseteq Nat
        BY <1>6, LinkIs DEF BlocksInv
      <3>2. Holds(e)
        BY <1>6 DEF BlocksInv, MemoryInv
      <3>3. Nat \subseteq Int
        OBVIOUS
      <3> QED
        BY <3>1, <3>2, <3>3
    <2>2. CASE e = d
      <3>1. completed'[b] = Cardinality(Closed(a)')
        <4>1. Closed(a)' = {j \in Of(a) : ~Open(j)'}
          BY DEF Closed, Of
        <4> QED
          BY <1>0, <4>1, CountClosed
      <3>2. \A j \in Of(a) : elements'[b][j - a] = Content(j)'
        BY <1>1, <1>2, <1>5, <2>1, <2>2 DEF Holds
      <3>3. Key(d)' = a /\ entries'[d].value = b
        BY <1>1, <1>2 DEF Key
      <3> QED
        BY <2>2, <3>1, <3>2, <3>3 DEF Holds, Of, Closed, Open, Key
    <2>3. CASE e # d
      <3>1. /\ entries[e].value # b /\ entries[e].value \in Blocks
            /\ \A j \in Of(Key(e)) : j \in Int /\ j \notin Of(a)
        BY <1>2, <1>6, <2>3, LinksApart DEF BlocksInv, Links
      <3>2. \A j \in Of(Key(e)) : (Open(j)' <=> Open(j)) /\ Content(j)' = Content(j)
        <4> TAKE j \in Of(Key(e))
        <4>1. j \in Int /\ j \notin Of(a)
          BY <3>1
        <4>2. ~(i - m <= j /\ j < i)
          <5>1. SUFFICES ASSUME i - m <= j, j < i PROVE FALSE
            BY <4>1
          <5>2. a <= j /\ j < a + BlockSize /\ BlockSize \in Nat
            BY <1>2, <4>1, <5>1, QueueAssumption
          <5> QED
            BY <1>2, <4>1, <5>2 DEF Of
        <4> QED
          BY <1>1, <1>5, <4>1, <4>2
      <3>3. completed'[entries[e].value] = completed[entries[e].value]
        BY <1>1, <3>1
      <3> QED
        BY <1>1, <2>1, <3>2, <3>3, HoldsSame
    <2> QED
      BY <2>2, <2>3
  <1>7. Busy({"publish"})' => completed'[producer'.block] = 0 /\ ~IsLinked(producer.block)'
    <2> SUFFICES ASSUME Busy({"publish"})
                 PROVE  completed'[producer.block] = 0 /\ ~IsLinked(producer.block)'
      BY <1>3 DEF Busy
    <2>1. completed[producer.block] = 0 /\ ~IsLinked(producer.block) /\ producer.block \in Blocks
      BY DEF BlocksInv, MemoryInv, Outline, ProducerInv
    <2>2. producer.block # b
      BY <1>2, <2>1 DEF IsLinked
    <2> QED
      BY <1>1, <1>3, <2>1, <2>2 DEF IsLinked
  <1>8. \A x \in Blocks : ~IsLinked(x)' => \A j \in 0 .. BlockSize - 1 : elements'[x][j] = 0
    BY <1>1, <1>4 DEF BlocksInv, MemoryInv
  <1>9. \A x \in Blocks : home'[x] # "freed twice" /\ (home'[x] = "used" <=> IsUsed(x)')
    BY <1>1, <1>4 DEF BlocksInv, MemoryInv
  <1>10. \A e \in DOMAIN entries' : Links(e)' => Holds(e)'
    BY <1>1, <1>6 DEF Links
  <1> QED
    BY <1>7, <1>8, <1>9, <1>10 DEF MemoryInv

(* Counting keeps the blocks in order. *)
LEMMA CountBlocks ==
  ASSUME Outline, BlocksInv, NEW k \in Consumers, CountElements(k)
  PROVE  BlocksInv'
  <1>1. PICK d, b, a, i, m : CountsIn(k, d, b, a, i, m)
    BY CountsAre DEF CountElements, At
  <1>2. /\ c[k].pc \in Working /\ Others(k) /\ c'[k].items = c[k].items
        /\ c'[k].pc # "done" => c'[k].index = i
    BY <1>1, CountFrame
  <1>3. i = c[k].index /\ "done" \notin Working
    BY <1>1 DEF CountsIn, Working, Looking
  <1>4. c'[k].pc \in Working => Start(c'[k]) = Start(c[k])
    BY <1>2, <1>3 DEF Start
  <1>5. ItemsInv'
    BY <1>2, <1>4, ConsumerItems DEF BlocksInv, ItemsInv
  <1> QED
    BY <1>5, CountLinks, CountWork, CountMemory DEF BlocksInv

(* Block b, at position a, is taken out of entry d.                        *)
TakesOut(k, d, b, a) ==
    /\ d = EntryOf(k) /\ b = c[k].block /\ a = Base(c[k].index - 1)
    /\ d \in DOMAIN entries /\ Links(d) /\ entries[d].value = b /\ b \in Blocks /\ Key(d) = a
    /\ a \in Nat /\ \A i \in Of(a) : ~Open(i)

(* What unlinking does. *)
LEMMA UnlinkFrame ==
  ASSUME Outline, BlocksInv, NEW k \in Consumers, UnlinkBlock(k)
  PROVE  /\ c[k].pc = "unlink" /\ c[k].pc \in Looking /\ c[k].pc \in Working
         /\ \E d, b, a : TakesOut(k, d, b, a)
         /\ Becomes(k, "free", c[k]) /\ Others(k) /\ Kept
         /\ UNCHANGED <<headIndex, optimistic, overcommit, home, elements, completed>>
         /\ \A i \in Int : (Pending(i)' <=> Pending(i)) /\ (Open(i)' <=> Open(i))
  <1>0. c[k].pc = "unlink" /\ c[k].pc \in Looking /\ c[k].pc \in Working
    BY DEF UnlinkBlock, At, Looking, Working
  <1>1. /\ Becomes(k, "free", c[k]) /\ Others(k) /\ Kept
        /\ UNCHANGED <<headIndex, optimistic, overcommit, home, elements, completed>>
    BY UnlinkBlockIs DEF Outline, Types
  <1>2. LookInv(k) /\ RangeInv(c[k], headIndex) /\ c[k].index \in Nat
    BY <1>0, FrameHeld DEF BlocksInv, WorkInv
  <1>3. PICK d : d = EntryOf(k)
    OBVIOUS
  <1>4. PICK b : b = c[k].block
    OBVIOUS
  <1>5. PICK a : a = Base(c[k].index - 1)
    OBVIOUS
  <1>6. IsLinkOf(d, a) /\ entries[d].value = b /\ (\A i \in Of(a) : ~Open(i))
    BY <1>0, <1>2, <1>3, <1>4, <1>5 DEF LookInv, Reclaiming
  <1>7. b \in Blocks /\ a \in Nat
    <2>1. b \in Blocks /\ 0 < c[k].index
      BY <1>0, <1>2, <1>4 DEF RangeInv
    <2>2. c[k].index - 1 \in Int /\ c[k].index - 1 >= 0
      BY <1>2, <2>1
    <2> QED
      BY <1>5, <2>1, <2>2, BaseIs
  <1>8. TakesOut(k, d, b, a)
    BY <1>3, <1>4, <1>5, <1>6, <1>7 DEF TakesOut, IsLinkOf
  <1>9. \A i \in Int : (Pending(i)' <=> Pending(i)) /\ (Open(i)' <=> Open(i))
    <2>1. /\ \A i \in Int : Mine(c'[k], i) <=> Mine(c[k], i)
          /\ c[k].pc # "count" /\ c'[k].pc # "count"
      BY <1>0, <1>1 DEF Mine, Becomes
    <2> QED
      BY <1>1, <2>1, OpenSame
  <1> QED
    BY <1>0, <1>1, <1>8, <1>9

(* One entry loses its block; no other entry leads to it. *)
LEMMA UnlinkEntries ==
  ASSUME Outline, BlocksInv, NEW k \in Consumers, UnlinkBlock(k),
         NEW d, NEW b, NEW a, TakesOut(k, d, b, a)
  PROVE  /\ DOMAIN entries' = DOMAIN entries /\ entries'[d].value = NoBlock
         /\ \A e \in DOMAIN entries : /\ entries'[e].key = entries[e].key
                                      /\ e # d => entries'[e].value = entries[e].value
                                      /\ Links(e)' <=> e # d /\ Links(e)
         /\ \A e, y : IsLinkOf(e, y)' <=> e # d /\ IsLinkOf(e, y)
         /\ \A e \in DOMAIN entries : entries[e].value = b => e = d
         /\ \A i \in Int : Open(i) => ~IsLinkOf(d, Base(i))
  <1>1. /\ d \in DOMAIN entries /\ d = EntryOf(k) /\ entries[d].value = b /\ b \in Blocks
        /\ Links(d) /\ Key(d) = a /\ a \in Nat /\ \A i \in Of(a) : ~Open(i)
    BY DEF TakesOut
  <1>2. IndexOK /\ entries' = [entries EXCEPT ![d].value = NoBlock]
    BY <1>1, UnlinkBlockIs DEF Outline, Types
  <1>3. DOMAIN entries' = DOMAIN entries /\ \A e \in DOMAIN entries : e # d => entries'[e] = entries[e]
    BY <1>2
  <1>4. entries'[d].value = NoBlock /\ entries'[d].key = entries[d].key
    BY <1>1, <1>2, EntryWritten
  <1>5. NoBlock \notin Blocks
    BY BlocksAre
  <1>6. \A e \in DOMAIN entries : Links(e)' <=> e # d /\ Links(e)
    BY <1>3, <1>4, <1>5 DEF Links
  <1>7. \A e, y : IsLinkOf(e, y)' <=> e # d /\ IsLinkOf(e, y)
    BY <1>3, <1>4, <1>6 DEF IsLinkOf, Key
  <1>8. \A e \in DOMAIN entries : entries[e].value = b => e = d
    BY <1>1 DEF BlocksInv, LinkInv, Links
  <1>9. \A i \in Int : Open(i) => ~IsLinkOf(d, Base(i))
    <2> TAKE i \in Int
    <2>1. Base(i) = a => i \in Of(a)
      BY <1>1, LinkIs DEF BlocksInv
    <2> QED
      BY <1>1, <2>1 DEF IsLinkOf
  <1> QED
    BY <1>1, <1>3, <1>4, <1>6, <1>7, <1>8, <1>9

(* Unlinking keeps the links in order. *)
LEMMA UnlinkLinks ==
  ASSUME Outline, BlocksInv, NEW k \in Consumers, UnlinkBlock(k)
  PROVE  LinkInv'
  <1>0. PICK d, b, a : TakesOut(k, d, b, a)
    BY UnlinkFrame
  <1>1. /\ Others(k) /\ Kept /\ \A i \in Int : Open(i)' <=> Open(i)
    BY UnlinkFrame
  <1>2. Latest' = Latest /\ UNCHANGED <<tailIndex, tailBlock, producer>>
    BY <1>1 DEF Kept, Latest, Busy
  <1>3. /\ DOMAIN entries' = DOMAIN entries
        /\ \A e \in DOMAIN entries : /\ entries'[e].key = entries[e].key
                                     /\ e # d => entries'[e].value = entries[e].value
                                     /\ Links(e)' <=> e # d /\ Links(e)
        /\ \A e, y : IsLinkOf(e, y)' <=> e # d /\ IsLinkOf(e, y)
        /\ \A e \in DOMAIN entries : entries[e].value = b => e = d
        /\ \A i \in Int : Open(i) => ~IsLinkOf(d, Base(i))
    BY <1>0, UnlinkEntries
  <1>4. b = c[k].block
    BY <1>0 DEF TakesOut
  <1>5. ASSUME NEW e \in DOMAIN entries', Links(e)' PROVE LinkOK(e)'
    <2>1. e \in DOMAIN entries /\ e # d /\ Links(e) /\ LinkOK(e)
      BY <1>3, <1>5 DEF BlocksInv, LinkInv
    <2>2. \A i \in Of(Key(e)) : i \in Int
      BY <2>1, LinkIs DEF BlocksInv
    <2>3. PICK x : x = entries[e].value
      OBVIOUS
    <2>4. Unlinking(x) => Unlinking(x)'
      BY <1>1, <1>3, <1>4, <2>1, <2>3 DEF Unlinking, Others
    <2>5. (\E i \in Of(Key(e)) : Open(i)') \/ Unlinking(x)'
      BY <1>1, <2>1, <2>2, <2>3, <2>4 DEF LinkOK
    <2>6. Key(e)' = Key(e) /\ entries'[e].value = x
      BY <1>3, <2>1, <2>3 DEF Key
    <2>7. (\E i \in Of(Key(e)) : Open(i))' \/ Unlinking(entries[e].value)'
      BY <2>5, <2>6 DEF Of, Unlinking
    <2> QED
      BY <1>2, <2>1, <2>3, <2>6, <2>7 DEF LinkOK
  <1>6. \A x, e \in DOMAIN entries' :
          (/\ Links(x)' /\ Links(e)'
           /\ Key(x)' = Key(e)' \/ entries'[x].value = entries'[e].value) => x = e
    BY <1>3 DEF BlocksInv, LinkInv, Key
  <1>7. \A i \in 0 .. Base(Latest') + BlockSize - 1 : Open(i)' => \E e : IsLinkOf(e, Base(i))'
    <2> SUFFICES ASSUME NEW i \in 0 .. Base(Latest) + BlockSize - 1, Open(i)'
                 PROVE  \E e : IsLinkOf(e, Base(i))'
      BY <1>2
    <2>1. i \in Int
      OBVIOUS
    <2>2. Open(i)
      BY <1>1, <2>1
    <2>3. PICK e : IsLinkOf(e, Base(i))
      BY <2>2 DEF BlocksInv, LinkInv
    <2>4. IsLinkOf(e, Base(i))'
      BY <1>3, <2>1, <2>2, <2>3
    <2> QED
      BY <2>4
  <1> QED
    BY <1>5, <1>6, <1>7 DEF LinkInv

(* No entry leads to a block that is about to be given back. *)
LEMMA FreeLook ==
  ASSUME Outline, BlocksInv, NEW k \in Consumers, UnlinkBlock(k),
         NEW d, NEW b, NEW a, TakesOut(k, d, b, a)
  PROVE  LookInv(k)'
  <1>0. /\ c[k].pc = "unlink" /\ c[k].pc \in Looking /\ c[k].pc \in Working
        /\ Becomes(k, "free", c[k]) /\ Kept /\ \A i \in Int : Open(i)' <=> Open(i)
    BY UnlinkFrame
  <1>1. /\ c'[k].pc = "free" /\ c'[k].header = c[k].header /\ c'[k].slot = c[k].slot
        /\ c'[k].index = c[k].index /\ c'[k].end = c[k].end /\ c'[k].block = c[k].block
        /\ headers' = headers /\ producer' = producer
    BY <1>0 DEF Becomes, Kept
  <1>2. /\ b = c[k].block /\ a = Base(c[k].index - 1) /\ a \in Nat /\ b \in Blocks
        /\ entries[d].value = b /\ d \in DOMAIN entries /\ \A i \in Of(a) : ~Open(i)
    BY DEF TakesOut
  <1>3. /\ DOMAIN entries' = DOMAIN entries /\ entries'[d].value = NoBlock
        /\ \A e \in DOMAIN entries : e # d => entries'[e].value = entries[e].value
        /\ \A e, y : IsLinkOf(e, y)' <=> e # d /\ IsLinkOf(e, y)
        /\ \A e \in DOMAIN entries : entries[e].value = b => e = d
        /\ \A i \in Int : Open(i) => ~IsLinkOf(d, Base(i))
    BY UnlinkEntries
  <1>4. /\ LookInv(k) /\ c[k].index \in Nat /\ c[k].end \in Nat /\ RangeInv(c[k], headIndex)
    BY <1>0, FrameHeld DEF BlocksInv, WorkInv
  <1>5. Reach(k)' = Reach(k) /\ After(k)' = After(k)
    BY <1>1 DEF Reach, Header, After
  <1>6. \A i \in c'[k].index .. c'[k].end - 1 : \E e \in 1 .. Reach(k)' : IsLinkOf(e, Base(i))'
    <2> SUFFICES ASSUME NEW i \in c[k].index .. c[k].end - 1
                 PROVE  \E e \in 1 .. Reach(k) : IsLinkOf(e, Base(i))'
      BY <1>1, <1>5
    <2>1. i \in Int /\ Open(i)
      BY <1>0, <1>4, OwnOpen DEF BlocksInv
    <2>2. PICK e \in 1 .. Reach(k) : IsLinkOf(e, Base(i))
      BY <1>4 DEF LookInv
    <2>3. IsLinkOf(e, Base(i))'
      BY <1>3, <2>1, <2>2
    <2> QED
      BY <2>3
  <1>7. c'[k].index < c'[k].end => IsLinkOf(After(k), c[k].index)'
    <2> SUFFICES ASSUME c[k].index < c[k].end PROVE IsLinkOf(After(k), c[k].index)'
      BY <1>1
    <2>1. IsLinkOf(After(k), c[k].index)
      BY <1>0, <1>4 DEF LookInv
    <2>2. c[k].index \in c[k].index .. c[k].end - 1 /\ c[k].index \in Int
      BY <1>4
    <2>3. Open(c[k].index)
      BY <1>0, <2>2, OwnOpen DEF BlocksInv
    <2>4. Base(c[k].index) = c[k].index
      <3>1. AtBlockStart(c[k].index)
        BY <1>0, <1>4 DEF RangeInv
      <3> QED
        BY <2>2, <3>1, BaseIs
    <2>5. After(k) # d
      BY <1>3, <2>1, <2>2, <2>3, <2>4
    <2>6. PICK e : e = After(k)
      OBVIOUS
    <2>7. PICK y : y = c[k].index
      OBVIOUS
    <2>8. IsLinkOf(e, y)'
      BY <1>3, <2>1, <2>5, <2>6, <2>7
    <2> QED
      BY <1>1, <1>5, <2>6, <2>7, <2>8 DEF IsLinkOf, Links, Key
  <1>8. \A i \in Of(Base(c'[k].index - 1)) : ~Open(i)'
    <2>1. \A i \in Of(a) : i \in Int
      BY <1>2, OfIs
    <2> QED
      BY <1>0, <1>1, <1>2, <2>1
  <1>9. /\ \A e \in DOMAIN entries' : entries'[e].value # c'[k].block
        /\ Busy({"publish"})' => producer'.block # c'[k].block
    <2>1. NoBlock # b
      BY <1>2, BlocksAre
    <2>2. Busy({"publish"}) => producer.block # b
      BY <1>2 DEF BlocksInv, MemoryInv, IsLinked
    <2> QED
      BY <1>1, <1>2, <1>3, <2>1, <2>2 DEF Busy
  <1> QED
    BY <1>1, <1>6, <1>7, <1>8, <1>9 DEF LookInv, Reclaiming, Of

(* Unlinking takes no link from another consumer. *)
LEMMA UnlinkWork ==
  ASSUME Outline, BlocksInv, NEW k \in Consumers, UnlinkBlock(k)
  PROVE  WorkInv'
  <1>0. PICK d, b, a : TakesOut(k, d, b, a)
    BY UnlinkFrame
  <1>1. /\ c[k].pc = "unlink" /\ Becomes(k, "free", c[k]) /\ Others(k) /\ Kept
        /\ \A i \in Int : Open(i)' <=> Open(i)
    BY UnlinkFrame
  <1>2. /\ DOMAIN entries' = DOMAIN entries /\ entries'[d].value = NoBlock
        /\ \A e \in DOMAIN entries : /\ entries'[e].key = entries[e].key
                                     /\ e # d => entries'[e].value = entries[e].value
    BY <1>0, UnlinkEntries
  <1>3. /\ d \in DOMAIN entries /\ Key(d) = a /\ a = Base(c[k].index - 1)
        /\ \A i \in Of(a) : ~Open(i)
    BY <1>0 DEF TakesOut
  <1>4. headers' = headers /\ producer' = producer
    BY <1>1 DEF Kept
  <1>5. ASSUME NEW j \in Consumers, c'[j].pc \in Looking, j # k
        PROVE  LookInv(j)'
    <2>1. c'[j] = c[j] /\ c[j].pc \in Looking /\ LookInv(j)
      BY <1>1, <1>5 DEF Others, BlocksInv, WorkInv
    <2>2. SameRings
      BY <1>4 DEF SameRings
    <2>3. KeepsLinks(j)
      <3>1. ~Needs(j, d)
        <4>1. SUFFICES ASSUME c[j].pc = "unlink", d = EntryOf(j) PROVE FALSE
          BY <1>3 DEF Needs
        <4>2. IsLinkOf(d, Base(c[j].index - 1))
          BY <2>1, <4>1 DEF LookInv
        <4>3. Base(c[j].index - 1) = Base(c[k].index - 1)
          BY <1>3, <4>2 DEF IsLinkOf
        <4> QED
          BY <1>1, <1>5, <4>1, <4>3 DEF BlocksInv, WorkInv, Reclaiming
      <3> QED
        BY <1>2, <3>1 DEF KeepsLinks, Keyed, Key
    <2>4. c[j].pc = "free" => /\ \A e \in DOMAIN entries' : entries'[e].value # c[j].block
                              /\ Busy({"publish"})' => producer'.block # c[j].block
      <3> SUFFICES ASSUME c[j].pc = "free"
                   PROVE  /\ \A e \in DOMAIN entries' : entries'[e].value # c[j].block
                          /\ Busy({"publish"})' => producer'.block # c[j].block
        OBVIOUS
      <3>1. c[j].block \in Blocks
        BY FrameHeld DEF RangeInv
      <3>2. c[j].block # NoBlock
        BY <3>1, BlocksAre
      <3>3. /\ \A e \in DOMAIN entries : entries[e].value # c[j].block
            /\ Busy({"publish"}) => producer.block # c[j].block
        BY <2>1 DEF LookInv
      <3> QED
        BY <1>2, <1>4, <3>2, <3>3 DEF Busy
    <2> QED
      BY <1>1, <2>1, <2>2, <2>3, <2>4, LookKept
  <1>6. ASSUME NEW j \in Consumers, c'[j].pc \in Looking
        PROVE  LookInv(j)'
    <2>1. CASE j = k
      BY <1>0, <2>1, FreeLook
    <2> QED
      BY <1>5, <1>6, <2>1
  <1>7. \A j \in Consumers : /\ c'[j].index = c[j].index /\ c'[j].block = c[j].block
                             /\ Reclaiming(j)' <=> Reclaiming(j)
    BY <1>1 DEF Others, Becomes, Reclaiming
  <1>8. ASSUME NEW i \in Consumers, NEW j \in Consumers, i # j, Reclaiming(i)', Reclaiming(j)'
        PROVE  Base(c'[i].index - 1) # Base(c'[j].index - 1) /\ c'[i].block # c'[j].block
    BY <1>7, <1>8 DEF BlocksInv, WorkInv
  <1> QED
    BY <1>6, <1>8 DEF WorkInv, Reclaiming

(* An unlinked block is used by its destroyer alone. *)
LEMMA UnlinkMemory ==
  ASSUME Outline, BlocksInv, NEW k \in Consumers, UnlinkBlock(k)
  PROVE  MemoryInv'
  <1>0. PICK d, b, a : TakesOut(k, d, b, a)
    BY UnlinkFrame
  <1>1. /\ c[k].pc = "unlink" /\ Becomes(k, "free", c[k]) /\ Others(k) /\ Kept
        /\ UNCHANGED <<headIndex, home, elements, completed>>
        /\ \A i \in Int : (Pending(i)' <=> Pending(i)) /\ (Open(i)' <=> Open(i))
    BY UnlinkFrame
  <1>2. /\ DOMAIN entries' = DOMAIN entries /\ entries'[d].value = NoBlock
        /\ \A e \in DOMAIN entries : /\ entries'[e].key = entries[e].key
                                     /\ e # d => entries'[e].value = entries[e].value
                                     /\ Links(e)' <=> e # d /\ Links(e)
        /\ \A e \in DOMAIN entries : entries[e].value = b => e = d
    BY <1>0, UnlinkEntries
  <1>3. /\ d \in DOMAIN entries /\ Links(d) /\ Key(d) = a /\ entries[d].value = b /\ b \in Blocks
        /\ b = c[k].block /\ a \in Nat /\ \A i \in Of(a) : ~Open(i)
    BY <1>0 DEF TakesOut
  <1>4. tailIndex' = tailIndex /\ producer' = producer
    BY <1>1 DEF Kept
  <1>5. \A x \in Blocks : (x # b => (IsLinked(x)' <=> IsLinked(x))) /\ (IsUsed(x)' <=> IsUsed(x))
    <2> TAKE x \in Blocks
    <2>1. x # NoBlock
      BY BlocksAre
    <2>2. x # b => (IsLinked(x)' <=> IsLinked(x))
      BY <1>2, <1>3, <2>1 DEF IsLinked
    <2>3. c'[k].pc = "free" /\ c'[k].block = b
      BY <1>1, <1>3 DEF Becomes
    <2>4. CASE x = b
      <3>1. IsUsed(x)
        BY <1>3, <2>4 DEF IsUsed, IsLinked
      <3>2. IsUsed(x)'
        BY <2>3, <2>4 DEF IsUsed
      <3> QED
        BY <2>4, <3>1, <3>2
    <2>5. CASE x # b
      <3>1. (\E j \in Consumers : c'[j].pc = "free" /\ c'[j].block = x)
              <=> \E j \in Consumers : c[j].pc = "free" /\ c[j].block = x
        BY <1>1, <1>3, <2>3, <2>5 DEF Others
      <3> QED
        BY <1>4, <2>2, <2>5, <3>1 DEF IsUsed, Busy
    <2> QED
      BY <2>2, <2>4, <2>5
  <1>6. \A i \in Int : Content(i)' = Content(i)
    BY <1>1, <1>4 DEF Content, Stored, Busy
  <1>7. ASSUME NEW e \in DOMAIN entries', Links(e)' PROVE Holds(e)'
    <2>1. e \in DOMAIN entries /\ e # d /\ Links(e) /\ Holds(e)
      BY <1>2, <1>7 DEF BlocksInv, MemoryInv
    <2>2. Key(e) \in Int /\ \A i \in Of(Key(e)) : i \in Int
      BY <2>1, LinkIs DEF BlocksInv
    <2> QED
      BY <1>1, <1>2, <1>6, <2>1, <2>2, HoldsSame
  <1>8. Busy({"publish"})' => completed'[producer'.block] = 0 /\ ~IsLinked(producer.block)'
    <2> SUFFICES ASSUME Busy({"publish"})
                 PROVE  completed'[producer.block] = 0 /\ ~IsLinked(producer.block)'
      BY <1>4 DEF Busy
    <2>1. completed[producer.block] = 0 /\ ~IsLinked(producer.block) /\ producer.block \in Blocks
      BY DEF BlocksInv, MemoryInv, Outline, ProducerInv
    <2>2. PICK x : x = producer.block
      OBVIOUS
    <2>3. x # b
      BY <1>3, <2>1, <2>2 DEF IsLinked
    <2>4. ~IsLinked(x)'
      BY <1>5, <2>1, <2>2, <2>3
    <2> QED
      BY <1>1, <1>4, <2>1, <2>2, <2>4 DEF IsLinked
  <1>9. ASSUME NEW x \in Blocks, ~IsLinked(x)' PROVE \A i \in 0 .. BlockSize - 1 : elements'[x][i] = 0
    <2>1. CASE x = b
      <3> SUFFICES ASSUME NEW i \in 0 .. BlockSize - 1 PROVE elements[b][i] = 0
        BY <1>1, <2>1
      <3>1. PICK j \in Int : j = a + i
        BY <1>3
      <3>2. j \in Of(a) /\ j - a = i
        BY <1>3, <3>1, QueueAssumption DEF Of
      <3>3. elements[b][j - a] = Content(j)
        BY <1>3, <3>2 DEF BlocksInv, MemoryInv, Holds
      <3>4. ~Pending(j)
        BY <1>3, <3>2 DEF Open
      <3> QED
        BY <3>2, <3>3, <3>4 DEF Content
    <2>2. CASE x # b
      BY <1>1, <1>5, <1>9, <2>2 DEF BlocksInv, MemoryInv
    <2> QED
      BY <2>1, <2>2
  <1>10. \A x \in Blocks : home'[x] # "freed twice" /\ (home'[x] = "used" <=> IsUsed(x)')
    BY <1>1, <1>5 DEF BlocksInv, MemoryInv
  <1> QED
    BY <1>7, <1>8, <1>9, <1>10 DEF MemoryInv

(* Unlinking keeps the blocks in order. *)
LEMMA UnlinkBlocks ==
  ASSUME Outline, BlocksInv, NEW k \in Consumers, UnlinkBlock(k)
  PROVE  BlocksInv'
  <1>1. c[k].pc \in Working /\ Others(k) /\ Becomes(k, "free", c[k])
    BY UnlinkFrame
  <1>2. Start(c'[k]) = Start(c[k]) /\ c'[k].items = c[k].items
    BY <1>1 DEF Start, Becomes
  <1>3. ItemsInv'
    BY <1>1, <1>2, ConsumerItems DEF BlocksInv, ItemsInv
  <1> QED
    BY <1>3, UnlinkLinks, UnlinkWork, UnlinkMemory DEF BlocksInv

(* The block that was taken out is given back.                             *)
LEMMA FreeFrame ==
  ASSUME Outline, NEW k \in Consumers, FreeBlock(k)
  PROVE  /\ c[k].pc = "free" /\ c[k].pc \in Looking /\ c[k].pc \in Working
         /\ c[k].block \in Blocks
         /\ Finishes(k) \/ GoesOn(k)
         /\ home' = [home EXCEPT ![c[k].block] = Freed(c[k].block)]
         /\ Others(k) /\ Kept
         /\ UNCHANGED <<headIndex, optimistic, overcommit, entries, elements, completed>>
         /\ \A i \in Int : (Pending(i)' <=> Pending(i)) /\ (Open(i)' <=> Open(i))
  <1>0. c[k].pc = "free" /\ c[k].pc \in Looking /\ c[k].pc \in Working
    BY DEF FreeBlock, At, Looking, Working
  <1>1. FramesOK /\ Capacity(Header(k)) \in Nat \ {0} /\ RangeInv(c[k], headIndex) /\ c[k].end \in Nat
    BY <1>0, FrameHeld DEF Outline, Types
  <1>2. /\ Finishes(k) \/ GoesOn(k)
        /\ home' = [home EXCEPT ![c[k].block] = Freed(c[k].block)]
        /\ Others(k) /\ Kept
        /\ UNCHANGED <<headIndex, optimistic, overcommit, entries, elements, completed>>
    BY <1>1, FreeBlockIs
  <1>3. /\ c'[k].pc # "count" /\ c[k].pc # "count"
        /\ \A i \in Int : Mine(c'[k], i) <=> Mine(c[k], i)
    BY <1>0, <1>1, <1>2 DEF Mine, Finishes, GoesOn
  <1>4. \A i \in Int : (Pending(i)' <=> Pending(i)) /\ (Open(i)' <=> Open(i))
    BY <1>2, <1>3, OpenSame
  <1>5. c[k].block \in Blocks
    BY <1>0, <1>1 DEF RangeInv
  <1> QED
    BY <1>0, <1>2, <1>4, <1>5

(* Giving a block back keeps the blocks in order. *)
LEMMA FreeBlocks ==
  ASSUME Outline, BlocksInv, NEW k \in Consumers, FreeBlock(k)
  PROVE  BlocksInv'
  <1>0. /\ c[k].pc = "free" /\ c[k].pc \in Looking /\ c[k].pc \in Working
        /\ c[k].block \in Blocks
        /\ Finishes(k) \/ GoesOn(k)
        /\ home' = [home EXCEPT ![c[k].block] = Freed(c[k].block)]
        /\ Others(k) /\ Kept
        /\ UNCHANGED <<headIndex, optimistic, overcommit, entries, elements, completed>>
        /\ \A i \in Int : (Pending(i)' <=> Pending(i)) /\ (Open(i)' <=> Open(i))
    BY FreeFrame
  <1>1. PICK b \in Blocks : b = c[k].block
    BY <1>0
  <1>2. c'[k].pc \in {"done", "move"} /\ c'[k].items = c[k].items
        /\ (c'[k].pc = "move" => c'[k].index = c[k].index)
    BY <1>0 DEF Finishes, GoesOn
  <1>3. LinkInv'
    <2>1. \A x : Unlinking(x) => Unlinking(x)'
      BY <1>0 DEF Unlinking, Others
    <2> QED
      BY <1>0, <2>1, ConsumerLinks DEF BlocksInv
  <1>4. WorkInv'
    <2>1. c'[k].pc \in Looking => LookInv(k)'
      <3>1. CASE GoesOn(k)
        BY <1>0, <3>1, GoesOnLook
      <3>2. CASE Finishes(k)
        BY <3>2 DEF Finishes, Looking
      <3> QED
        BY <1>0, <3>1, <3>2
    <2>2. ~Reclaiming(k)'
      BY <1>2 DEF Reclaiming
    <2> QED
      BY <1>0, <2>1, <2>2, ConsumerWork DEF BlocksInv
  <1>5. ItemsInv'
    <2>1. c'[k].pc \in Working => Start(c'[k]) = Start(c[k])
      BY <1>2 DEF Working, Looking, Start
    <2> QED
      BY <1>0, <1>2, <2>1, ConsumerItems DEF BlocksInv, ItemsInv
  <1>6. LookInv(k)
    BY <1>0 DEF BlocksInv, WorkInv
  <1>7. producer' = producer /\ tailIndex' = tailIndex
    BY <1>0 DEF Kept
  <1>8. \A x \in Blocks : IsLinked(x)' <=> IsLinked(x)
    BY <1>0 DEF IsLinked
  <1>9. IsUsed(b) /\ ~IsUsed(b)'
    <2>1. IsUsed(b)
      BY <1>0, <1>1 DEF IsUsed
    <2>2. ~IsLinked(b)' /\ ~(Busy({"publish"})' /\ producer'.block = b)
      BY <1>0, <1>1, <1>6, <1>7, <1>8 DEF LookInv, IsLinked, Busy
    <2>3. ASSUME NEW j \in Consumers, c'[j].pc = "free", c'[j].block = b PROVE FALSE
      <3>1. j # k
        BY <1>2, <2>3
      <3>2. c[j].pc = "free" /\ c[j].block = b
        BY <1>0, <2>3, <3>1 DEF Others
      <3> QED
        BY <1>0, <1>1, <3>1, <3>2 DEF BlocksInv, WorkInv, Reclaiming
    <2> QED
      BY <2>1, <2>2, <2>3 DEF IsUsed
  <1>10. \A x \in Blocks : x # b => (IsUsed(x)' <=> IsUsed(x))
    <2> SUFFICES ASSUME NEW x \in Blocks, x # b PROVE IsUsed(x)' <=> IsUsed(x)
      OBVIOUS
    <2>1. (\E j \in Consumers : c'[j].pc = "free" /\ c'[j].block = x)
            <=> \E j \in Consumers : c[j].pc = "free" /\ c[j].block = x
      BY <1>0, <1>1, <1>2 DEF Others
    <2> QED
      BY <1>7, <1>8, <2>1 DEF IsUsed, Busy
  <1>11. \A x \in Blocks : home'[x] # "freed twice" /\ (home'[x] = "used" <=> IsUsed(x)')
    <2>1. /\ home \in [Blocks -> {"pool", "used", "free", "dead", "freed twice"}]
      BY DEF Outline, Types, MemoryOK
    <2>2. home[b] = "used" /\ \A x \in Blocks : home[x] # "freed twice" /\ (home[x] = "used" <=> IsUsed(x))
      BY <1>9 DEF BlocksInv, MemoryInv
    <2>3. home'[b] \in {"free", "dead"} /\ \A x \in Blocks : x # b => home'[x] = home[x]
      BY <1>0, <1>1, <2>1, <2>2 DEF Freed
    <2> QED
      BY <1>9, <1>10, <2>2, <2>3
  <1>12. \A i \in Int : Content(i)' = Content(i)
    BY <1>0, <1>7 DEF Content, Stored, Busy
  <1>13. ASSUME NEW e \in DOMAIN entries', Links(e)' PROVE Holds(e)'
    <2>1. e \in DOMAIN entries /\ Links(e) /\ Holds(e)
      BY <1>0, <1>13 DEF Links, BlocksInv, MemoryInv
    <2>2. Key(e) \in Int /\ \A i \in Of(Key(e)) : i \in Int
      BY <2>1, LinkIs DEF BlocksInv
    <2> QED
      BY <1>0, <1>12, <2>1, <2>2, HoldsSame
  <1>14. MemoryInv'
    <2>1. Busy({"publish"})' => completed'[producer'.block] = 0 /\ ~IsLinked(producer.block)'
      BY <1>0, <1>7 DEF BlocksInv, MemoryInv, Busy, IsLinked
    <2>2. \A x \in Blocks : ~IsLinked(x)' => \A i \in 0 .. BlockSize - 1 : elements'[x][i] = 0
      BY <1>0, <1>8 DEF BlocksInv, MemoryInv
    <2> QED
      BY <1>11, <1>13, <2>1, <2>2 DEF MemoryInv
  <1> QED
    BY <1>3, <1>4, <1>5, <1>14 DEF BlocksInv

(* A reader who follows the index.                                         *)
LEMMA BlockOfIs ==
  ASSUME LinkInv, NEW i, NEW e, IsLinkOf(e, Base(i))
  PROVE  Holding(i) = {e} /\ BlockOf(i) = entries[e].value
  <1>1. e \in Holding(i)
    BY DEF Holding, IsLinkOf, Links, Key
  <1>2. \A d \in Holding(i) : d = e
    BY DEF Holding, LinkInv, IsLinkOf, Links, Key
  <1>3. Holding(i) = {e}
    BY <1>1, <1>2
  <1>4. (CHOOSE d \in {e} : TRUE) = e
    OBVIOUS
  <1> QED
    BY <1>3, <1>4 DEF BlockOf

(* A reader finds at every position that is pending its own element. *)
LEMMA FoundIs ==
  ASSUME Outline, BlocksInv, NEW i \in Nat, i < tailIndex, Pending(i)
  PROVE  Found(i) = i + 1
  <1>1. i \in 0 .. Base(Latest) + BlockSize - 1 /\ Open(i)
    BY LatestIs DEF Open
  <1>2. PICK e : IsLinkOf(e, Base(i))
    BY <1>1 DEF BlocksInv, LinkInv
  <1>3. Holding(i) # {} /\ BlockOf(i) = entries[e].value
    BY <1>2, BlockOfIs DEF BlocksInv
  <1>4. e \in DOMAIN entries /\ Links(e) /\ Key(e) = Base(i) /\ Holds(e)
    BY <1>2 DEF IsLinkOf, BlocksInv, MemoryInv
  <1>5. i % BlockSize = i - Base(i) /\ i \in Of(Key(e))
    <2>1. i \in Int
      OBVIOUS
    <2> QED
      BY <1>4, <2>1, BaseIs, LinkIs DEF BlocksInv
  <1>6. elements[entries[e].value][i - Base(i)] = Content(i)
    BY <1>4, <1>5 DEF Holds
  <1>7. Content(i) = i + 1
    BY DEF Content, Stored
  <1> QED
    BY <1>3, <1>5, <1>6, <1>7 DEF Found

(* When no call is in progress.                                            *)
AtRest == producer.pc = "idle" /\ \A k \in Consumers : c[k].pc = "idle"

(* With no call in progress the open positions are those that are left. *)
LEMMA RestIs ==
  ASSUME Outline, AtRest
  PROVE  /\ \A i \in Int : (Pending(i) <=> i >= headIndex) /\ (Open(i) <=> i >= headIndex)
         /\ \A b : ~Unlinking(b)
         /\ \A b \in Blocks : IsUsed(b) <=> IsLinked(b)
         /\ Latest = tailIndex - 1
         /\ \A i \in Int : Content(i) = IF i \in Left THEN i + 1 ELSE 0
  <1>1. \A k \in Consumers : c[k].pc = "idle" /\ c[k].index = 0 /\ c[k].end = 0
    BY FrameHeld DEF AtRest, RangeInv, Working, Looking
  <1>2. \A i \in Int : ~\E k \in Consumers : Mine(c[k], i)
    BY <1>1 DEF Mine
  <1>3. \A i \in Int : ~Counting(i)
    BY <1>1 DEF Counting, Counts
  <1>4. \A i \in Int : (Pending(i) <=> i >= headIndex) /\ (Open(i) <=> i >= headIndex)
    BY <1>2, <1>3 DEF Pending, Open
  <1>5. headIndex \in Nat /\ tailIndex \in Nat
    BY LatestIs
  <1>6. \A i \in Int : Stored(i) <=> i < tailIndex
    BY DEF Stored, Busy, AtRest
  <1>7. \A i \in Int : Content(i) = IF i \in Left THEN i + 1 ELSE 0
    BY <1>4, <1>5, <1>6 DEF Content, Left
  <1> QED
    BY <1>1, <1>4, <1>7 DEF Unlinking, IsUsed, Latest, Busy, AtRest

(* The destructor finds the block of every element that is left. *)
LEMMA LeftAre ==
  ASSUME Outline, BlocksInv, AtRest, NEW j \in Left
  PROVE  \E e \in DOMAIN entries : Links(e) /\ Key(e) = Base(j) /\ BlockOf(j) = entries[e].value
  <1>1. j \in Int /\ headIndex <= j /\ j < tailIndex /\ headIndex \in Nat /\ tailIndex \in Nat
    BY LatestIs DEF Left
  <1>2. Open(j)
    BY <1>1, RestIs
  <1>3. j \in 0 .. Base(Latest) + BlockSize - 1
    BY <1>1, LatestIs
  <1>4. PICK e : IsLinkOf(e, Base(j))
    BY <1>2, <1>3 DEF BlocksInv, LinkInv
  <1>5. BlockOf(j) = entries[e].value
    BY <1>4, BlockOfIs DEF BlocksInv
  <1> QED
    BY <1>4, <1>5 DEF IsLinkOf

(* The destructor gives back the blocks that entries lead to.              *)
LEMMA LastLinked ==
  ASSUME Outline, BlocksInv, AtRest, FreesLast
  PROVE  IsLinked(tailBlock)
  <1>1. /\ headIndex \in Nat /\ tailIndex \in Nat /\ headIndex <= tailIndex
        /\ Latest = tailIndex - 1 /\ BlockSize \in Nat /\ Base(Latest) \in Int
        /\ Latest < Base(Latest) + BlockSize /\ Base(Latest) <= Latest
    BY LatestIs, RestIs
  <1>2. \E j \in Int : /\ headIndex <= j /\ j < Base(Latest) + BlockSize /\ Base(j) = Base(Latest)
    <2>1. CASE headIndex # tailIndex
      BY <1>1, <2>1
    <2>2. CASE ~AtBlockStart(tailIndex)
      <3>1. tailIndex \in Int
        BY <1>1
      <3>2. Base(tailIndex - 1) = Base(tailIndex) /\ tailIndex < Base(tailIndex) + BlockSize
        BY <2>2, <3>1, BaseBefore, BaseIs
      <3> QED
        BY <1>1, <3>1, <3>2
    <2> QED
      BY <2>1, <2>2 DEF FreesLast
  <1>3. PICK j \in Int : headIndex <= j /\ j < Base(Latest) + BlockSize /\ Base(j) = Base(Latest)
    BY <1>2
  <1>4. Open(j) /\ j \in 0 .. Base(Latest) + BlockSize - 1
    BY <1>1, <1>3, RestIs
  <1>5. PICK e : IsLinkOf(e, Base(j))
    BY <1>4 DEF BlocksInv, LinkInv
  <1>6. e \in DOMAIN entries /\ LinkOK(e) /\ Key(e) = Base(Latest)
    BY <1>3, <1>5 DEF IsLinkOf, BlocksInv, LinkInv
  <1>7. entries[e].value = tailBlock
    BY <1>1, <1>6 DEF LinkOK
  <1> QED
    BY <1>6, <1>7 DEF IsLinked

(* The blocks it gives back are those that entries lead to. *)
LEMMA GivenBackAre ==
  ASSUME Outline, BlocksInv, AtRest, NEW b \in Blocks
  PROVE  b \in GivenBack <=> IsLinked(b)
  <1>1. /\ headIndex \in Nat /\ tailIndex \in Nat /\ headIndex <= tailIndex
        /\ Latest = tailIndex - 1 /\ BlockSize \in Nat \ {0, 1}
    BY LatestIs, RestIs
  <1>2. ASSUME b \in GivenBack PROVE IsLinked(b)
    <2>1. CASE \E j \in Left : b = BlockOf(j)
      BY <2>1, LeftAre DEF IsLinked
    <2>2. CASE FreesLast /\ b = tailBlock
      BY <2>2, LastLinked
    <2> QED
      BY <1>2, <2>1, <2>2 DEF GivenBack
  <1>3. ASSUME NEW e \in DOMAIN entries, entries[e].value = b
        PROVE  b \in GivenBack
    <2>1. Links(e) /\ LinkOK(e)
      BY <1>3 DEF Links, BlocksInv, LinkInv
    <2>2. PICK a \in Nat : a = Key(e)
      BY <2>1 DEF LinkOK
    <2>3. PICK j \in Of(a) : Open(j)
      BY <2>1, <2>2, RestIs DEF LinkOK
    <2>4. j \in Int /\ a <= j /\ j < a + BlockSize /\ headIndex <= j /\ Base(j) = a
      <3>1. j \in Int /\ a <= j /\ j < a + BlockSize
        BY <1>1, <2>2, <2>3 DEF Of
      <3>2. Base(j) = a
        BY <2>1, <2>2, <2>3, LinkIs DEF BlocksInv
      <3> QED
        BY <2>3, <3>1, <3>2, RestIs
    <2>5. AtBlockStart(a) /\ a <= tailIndex - 1
      BY <1>1, <2>1, <2>2 DEF LinkOK
    <2>6. CASE tailIndex - 1 < a + BlockSize
      <3>1. tailBlock = b
        BY <1>1, <1>3, <2>1, <2>2, <2>6 DEF LinkOK
      <3>2. tailBlock # NoBlock
        BY <3>1, BlocksAre
      <3>3. headIndex # tailIndex \/ ~AtBlockStart(tailIndex)
        <4>1. SUFFICES ASSUME headIndex = tailIndex, AtBlockStart(tailIndex) PROVE FALSE
          OBVIOUS
        <4>2. a \in Int /\ tailIndex \in Int /\ a < tailIndex
          BY <1>1, <2>5
        <4>3. a + BlockSize <= tailIndex
          BY <2>5, <4>1, <4>2, BlocksFollow
        <4> QED
          BY <1>1, <2>4, <4>1, <4>3
      <3> QED
        BY <3>1, <3>2, <3>3 DEF GivenBack, FreesLast
    <2>7. CASE ~(tailIndex - 1 < a + BlockSize)
      <3>1. j \in Left
        BY <1>1, <2>4, <2>7 DEF Left
      <3>2. Base(tailIndex - 1) # a
        <4>1. tailIndex - 1 \in Int
          BY <1>1
        <4>2. tailIndex - 1 < Base(tailIndex - 1) + BlockSize
          BY <4>1, BaseIs
        <4> QED
          BY <2>7, <4>2
      <3>3. BlockOf(j) = b
        <4>1. IsLinkOf(e, Base(j))
          BY <1>3, <2>1, <2>2, <2>4 DEF IsLinkOf
        <4> QED
          BY <1>3, <4>1, BlockOfIs DEF BlocksInv
      <3> QED
        BY <2>4, <3>1, <3>2, <3>3 DEF GivenBack
    <2> QED
      BY <2>6, <2>7
  <1> QED
    BY <1>2, <1>3 DEF IsLinked

(* After it everything is back. *)
LEMMA DestroyEnds ==
  ASSUME Outline, BlocksInv, Destroy
  PROVE  EndInv'
  <1>0. AtRest /\ UNCHANGED <<entries, producer, c>>
    BY DEF Destroy, AtRest, At, index
  <1>1. \A k \in Consumers : c'[k].pc = "idle" /\ c'[k].items = << >>
                             /\ c'[k].index = 0 /\ c'[k].end = 0
    BY <1>0, FrameHeld DEF AtRest, RangeInv, Working, Looking
  <1>2. ASSUME NEW b \in Blocks PROVE home'[b] \in {"pool", "free", "dead"}
    <2>1. home'[b] = IF b \in GivenBack THEN Freed(b) ELSE home[b]
      BY DEF Destroy
    <2>2. home[b] # "freed twice" /\ (home[b] = "used" <=> IsLinked(b))
      BY <1>0, RestIs DEF BlocksInv, MemoryInv
    <2>3. home[b] \in {"pool", "used", "free", "dead", "freed twice"}
      BY DEF Outline, Types, MemoryOK
    <2>4. b \in GivenBack <=> IsLinked(b)
      BY <1>0, GivenBackAre
    <2> QED
      BY <2>1, <2>2, <2>3, <2>4 DEF Freed
  <1>3. ASSUME NEW b \in Blocks, NEW i \in 0 .. BlockSize - 1
        PROVE  elements'[b][i] = 0
    <2>1. elements'[b][i] = IF \E j \in Left : b = BlockOf(j) /\ j % BlockSize = i
                            THEN 0 ELSE elements[b][i]
      BY DEF Destroy
    <2>2. CASE ~IsLinked(b)
      BY <2>1, <2>2 DEF BlocksInv, MemoryInv
    <2>3. CASE IsLinked(b)
      <3>1. PICK e \in DOMAIN entries : entries[e].value = b
        BY <2>3 DEF IsLinked
      <3>2. Links(e) /\ Holds(e)
        BY <3>1 DEF Links, BlocksInv, MemoryInv
      <3>3. Key(e) \in Nat /\ \A j \in Of(Key(e)) : j \in Nat /\ Base(j) = Key(e)
        BY <3>2, LinkIs DEF BlocksInv
      <3>4. PICK j \in Int : j = Key(e) + i
        BY <3>3
      <3>5. j \in Of(Key(e)) /\ j - Key(e) = i
        BY <3>3, <3>4, QueueAssumption DEF Of
      <3>6. elements[b][i] = Content(j)
        BY <3>1, <3>2, <3>5 DEF Holds
      <3>7. CASE j \in Left
        <4>1. IsLinkOf(e, Base(j))
          BY <3>2, <3>3, <3>5 DEF IsLinkOf
        <4>2. BlockOf(j) = b
          BY <3>1, <4>1, BlockOfIs DEF BlocksInv
        <4>3. j % BlockSize = i
          BY <3>3, <3>5, BaseIs
        <4> QED
          BY <2>1, <3>7, <4>2, <4>3
      <3>8. CASE j \notin Left
        BY <1>0, <2>1, <3>6, <3>8, RestIs
      <3> QED
        BY <3>7, <3>8
    <2> QED
      BY <2>2, <2>3
  <1>4. \A b \in Blocks : DOMAIN elements'[b] = 0 .. BlockSize - 1
    BY DEF Destroy
  <1>5. \A d, e \in DOMAIN entries' : (Links(d)' /\ entries'[d].value = entries'[e].value) => d = e
    BY <1>0 DEF BlocksInv, LinkInv, Links
  <1>6. Busy({"idle"})'
    BY <1>0 DEF Busy, AtRest
  <1> QED
    BY <1>1, <1>2, <1>3, <1>4, <1>5, <1>6 DEF EndInv

(* All of it: until the queue is destroyed, and after.                     *)
QueueInv == Outline /\ IndexInv /\ (IF ended THEN EndInv ELSE BlocksInv)

(* A consumer neither destroys the queue nor works on a destroyed one. *)
LEMMA DequeueKeeps ==
  ASSUME NEW k \in Consumers, DequeueStep(k)
  PROVE  ended' = ended /\ (c[k].pc # "idle" \/ ~ended)
  <1>1. LoadTail(k) => ended' = ended /\ ~ended
    BY DEF LoadTail, Step
  <1>2. (LoadOvercommit(k) \/ LoadOptimistic(k) \/ ClaimOptimistic(k)) =>
            ended' = ended /\ c[k].pc # "idle"
    BY DEF LoadOvercommit, LoadOptimistic, ClaimOptimistic, Step, At
  <1>3. (ReloadTail(k) \/ Overcommit(k) \/ ClaimElements(k)) => ended' = ended /\ c[k].pc # "idle"
    BY DEF ReloadTail, Overcommit, ClaimElements, Step, At
  <1>4. (LoadHeader(k) \/ LoadIndexTail(k) \/ LookUp(k)) => ended' = ended /\ c[k].pc # "idle"
    BY DEF LoadHeader, LoadIndexTail, LookUp, Step, At
  <1>5. (MoveElements(k) \/ UnlinkBlock(k) \/ Return(k)) => ended' = ended /\ c[k].pc # "idle"
    BY DEF MoveElements, UnlinkBlock, Return, Step, At
  <1>6. NextBlock(k) => ended' = ended
    BY DEF NextBlock, Step
  <1>7. Step(k, "unlink", c[k]) => ended' = ended
    BY DEF Step
  <1>8. (CountElements(k) \/ FreeBlock(k)) => ended' = ended /\ c[k].pc # "idle"
    BY <1>6, <1>7 DEF CountElements, FreeBlock, At
  <1>9. CASE LoadTail(k)
    BY <1>1, <1>9
  <1>10. CASE LoadOvercommit(k) \/ LoadOptimistic(k) \/ ClaimOptimistic(k)
    BY <1>2, <1>10
  <1>11. CASE ReloadTail(k) \/ Overcommit(k) \/ ClaimElements(k)
    BY <1>3, <1>11
  <1>12. CASE LoadHeader(k) \/ LoadIndexTail(k) \/ LookUp(k)
    BY <1>4, <1>12
  <1>13. CASE MoveElements(k) \/ UnlinkBlock(k) \/ Return(k)
    BY <1>5, <1>13
  <1>14. CASE CountElements(k) \/ FreeBlock(k)
    BY <1>8, <1>14
  <1> QED
    BY <1>9, <1>10, <1>11, <1>12, <1>13, <1>14 DEF DequeueStep

(* Every step of a consumer keeps the blocks in order. *)
LEMMA DequeueBlocks ==
  ASSUME Outline, IndexInv, BlocksInv, NEW k \in Consumers, DequeueStep(k)
  PROVE  BlocksInv'
  BY ClaimBlocks, TakeBlocks, HeaderBlocks, IndexTailBlocks, LookUpBlocks, MoveBlocks,
     CountBlocks, UnlinkBlocks, FreeBlocks DEF DequeueStep

(* A step that changes nothing keeps the blocks in order. *)
LEMMA BlocksStutter ==
  ASSUME BlocksInv, UNCHANGED vars
  PROVE  BlocksInv'
  <1>1. UNCHANGED <<listed, hashed, headIndex, tailIndex, entries, headers, home, elements,
                    completed, tailBlock, producer, c, ended>>
    BY DEF vars, counters, index, memory
  <1>2. LinkInv'
    BY <1>1 DEF BlocksInv, LinkInv, LinkOK, Links, Key, Open, Pending, Counting, Mine, Counts,
                Unlinking, IsLinkOf, Latest, Busy, Of
  <1>3. WorkInv'
    <2>1. \A i : Open(i)' <=> Open(i)
      BY <1>1 DEF Open, Pending, Counting, Mine, Counts
    <2>2. \A e, b : IsLinkOf(e, b)' <=> IsLinkOf(e, b)
      BY <1>1 DEF IsLinkOf, Links, Key
    <2>3. ASSUME NEW k \in Consumers, LookInv(k) PROVE LookInv(k)'
      BY <1>1, <2>1, <2>2, <2>3
         DEF LookInv, Keyed, Key, Reclaiming, Reach, After, EntryOf, Header, Busy, Of
    <2> QED
      BY <1>1, <2>3 DEF BlocksInv, WorkInv, Reclaiming
  <1>4. MemoryInv'
    <2>1. \A b \in Blocks : home'[b] # "freed twice" /\ (home'[b] = "used" <=> IsUsed(b)')
      BY ZenonT(40), <1>1 DEF BlocksInv, MemoryInv, IsUsed, IsLinked, Busy
    <2>2. \A b \in Blocks : ~IsLinked(b)' => \A i \in 0 .. BlockSize - 1 : elements'[b][i] = 0
      BY <1>1 DEF BlocksInv, MemoryInv, IsLinked
    <2>3. Busy({"publish"})' => completed'[producer'.block] = 0 /\ ~IsLinked(producer.block)'
      BY <1>1 DEF BlocksInv, MemoryInv, IsLinked, Busy
    <2>4. \A i : (Open(i)' <=> Open(i)) /\ Content(i)' = Content(i)
      BY <1>1 DEF Open, Content, Pending, Counting, Mine, Counts, Stored, Busy
    <2>5. \A e \in DOMAIN entries : Closed(Key(e))' = Closed(Key(e)) /\ Of(Key(e))' = Of(Key(e))
      BY <1>1, <2>4 DEF Closed, Of, Key
    <2>6. \A e \in DOMAIN entries' : Links(e)' => Holds(e)'
      BY <1>1, <2>4, <2>5 DEF BlocksInv, MemoryInv, Holds, Links, Key
    <2> QED
      BY <2>1, <2>2, <2>3, <2>6 DEF MemoryInv
  <1>5. ItemsInv'
    BY <1>1 DEF BlocksInv, ItemsInv, Start
  <1> QED
    BY <1>2, <1>3, <1>4, <1>5 DEF BlocksInv

(* Nothing happens after the end. *)
LEMMA EndStutter ==
  ASSUME EndInv, ended, [Next]_vars
  PROVE  UNCHANGED vars
  <1>1. producer.pc = "idle" /\ \A k \in Consumers : c[k].pc = "idle"
    BY DEF EndInv, Busy
  <1>2. ~EnqueueStep
    BY <1>1
       DEF EnqueueStep, Enqueue, CreateProducer, CreateFails, HashProducer, NoIndex, StoreKey,
                AdvanceTail, NewBlockIndex, NewBlockIndexFails, RequisitionBlock,
                RequisitionFails, RewindTail, Retract, PublishBlock, WriteElement, StoreTail,
                Producer, Leave, Move
  <1>3. \A k \in Consumers : ~DequeueStep(k)
    BY <1>1, DequeueKeeps
  <1>4. ~Destroy
    BY DEF Destroy
  <1> QED
    BY <1>2, <1>3, <1>4 DEF Next

(* Every step keeps the blocks in order, or ends with everything given     *)
(* back.                                                                   *)
LEMMA BlocksStep ==
  ASSUME Outline, Outline', IndexInv, BlocksInv, ~ended, [Next]_vars
  PROVE  IF ended' THEN EndInv' ELSE BlocksInv'
  <1>1. CASE EnqueueStep
    BY <1>1, EnqueueBlocks, EnqueueKeeps
  <1>2. CASE \E k \in Consumers : DequeueStep(k)
    BY <1>2, DequeueBlocks, DequeueKeeps
  <1>3. CASE Destroy
    <2>1. ended'
      BY <1>3 DEF Destroy
    <2> QED
      BY <1>3, <2>1, DestroyEnds
  <1>4. CASE UNCHANGED vars
    BY <1>4, BlocksStutter DEF vars
  <1> QED
    BY <1>1, <1>2, <1>3, <1>4 DEF Next

(* The blocks are in order at first. *)
LEMMA BlocksInit == Init => BlocksInv
  <1> SUFFICES ASSUME Init PROVE BlocksInv
    OBVIOUS
  <1>1. /\ headIndex = 0 /\ tailIndex = 0 /\ entries = << >> /\ producer = Frame("idle", 0)
        /\ \A k \in Consumers : c[k] = Idle
        /\ \A b \in Blocks : home[b] = IF b \in Pool THEN "pool" ELSE "dead"
        /\ \A b \in Blocks : \A i \in 0 .. BlockSize - 1 : elements[b][i] = 0
    BY DEF Init
  <1>2. \A k \in Consumers : c[k].pc = "idle"
    BY <1>1 DEF Idle
  <1>3. producer.pc = "idle" /\ DOMAIN entries = {}
    BY <1>1 DEF Frame
  <1>4. LinkInv
    <2>1. \A i \in 0 .. Base(Latest) + BlockSize - 1 : FALSE
      <3>1. Latest = 0 - 1 /\ Base(0) = 0
        <4>1. Latest = 0 - 1
          BY <1>1, <1>3 DEF Latest, Busy
        <4>2. Base(0) = 0
          BY BaseIs, ZeroStarts
        <4> QED
          BY <4>1, <4>2
      <3>2. Base(0 - 1) = 0 - BlockSize
        <4>1. 0 \in Int /\ AtBlockStart(0)
          BY ZeroStarts
        <4> QED
          BY <4>1, BaseBefore
      <3> QED
        BY <3>1, <3>2, QueueAssumption
    <2> QED
      BY <1>3, <2>1 DEF LinkInv
  <1>5. WorkInv
    BY <1>2 DEF WorkInv, Looking, Reclaiming
  <1>6. MemoryInv
    BY <1>1, <1>2, <1>3 DEF MemoryInv, IsUsed, IsLinked, Busy
  <1>7. ItemsInv
    BY <1>2 DEF ItemsInv, Working, Looking
  <1> QED
    BY <1>4, <1>5, <1>6, <1>7 DEF BlocksInv

(* The whole invariant holds in every state.                               *)
THEOREM QueueHolds == Spec => []QueueInv
  <1>1. Init => QueueInv
    BY OutlineInit, IndexInit, BlocksInit DEF QueueInv, Init
  <1>2. QueueInv /\ [Next]_vars => QueueInv'
    <2> SUFFICES ASSUME QueueInv, [Next]_vars PROVE QueueInv'
      OBVIOUS
    <2>1. Outline' /\ IndexInv'
      BY OutlineStep, IndexStep DEF QueueInv
    <2>2. CASE ended
      <3>1. UNCHANGED vars /\ EndInv
        BY <2>2, EndStutter DEF QueueInv
      <3>2. UNCHANGED <<entries, home, elements, producer, c, ended>>
        BY <3>1 DEF vars, index, memory
      <3>3. EndInv'
        BY <3>1, <3>2 DEF EndInv, Busy, Links
      <3> QED
        BY <2>1, <2>2, <3>2, <3>3 DEF QueueInv
    <2>3. CASE ~ended
      BY <2>1, <2>3, BlocksStep DEF QueueInv
    <2> QED
      BY <2>2, <2>3
  <1> QED
    BY <1>1, <1>2, PTL DEF Spec

-----------------------------------------------------------------------------
(* What the runs check.                                                    *)
LEMMA TailLinked ==
  ASSUME Outline, BlocksInv, Busy({"write", "store"})
  PROVE  IsLinked(tailBlock)
  <1>1. /\ Latest = tailIndex /\ headIndex <= tailIndex /\ tailIndex \in Nat /\ headIndex \in Nat
        /\ Latest < Base(Latest) + BlockSize /\ Base(Latest) \in Int /\ BlockSize \in Nat
    BY LatestIs DEF Latest
  <1>2. Open(tailIndex) /\ tailIndex \in 0 .. Base(Latest) + BlockSize - 1
    BY <1>1 DEF Open, Pending
  <1>3. PICK e : IsLinkOf(e, Base(tailIndex))
    BY <1>2 DEF BlocksInv, LinkInv
  <1>4. e \in DOMAIN entries /\ LinkOK(e) /\ Key(e) = Base(Latest)
    BY <1>1, <1>3 DEF IsLinkOf, BlocksInv, LinkInv
  <1>5. entries[e].value = tailBlock
    BY <1>1, <1>4 DEF LinkOK
  <1> QED
    BY <1>4, <1>5 DEF IsLinked

(* What anyone is about to touch is in use. *)
LEMMA HandsUsed ==
  ASSUME Outline, BlocksInv, NEW b \in InHand \cup Linked
  PROVE  b \in In("used") \cup {NoBlock, Junk}
  <1>0. \A x \in Blocks : IsUsed(x) => x \in In("used")
    BY DEF BlocksInv, MemoryInv, In
  <1>1. CASE \E e \in DOMAIN entries : b = entries[e].value
    <2>1. PICK e \in DOMAIN entries : b = entries[e].value
      BY <1>1
    <2>2. b \in Blocks \cup {NoBlock, Junk}
      BY <2>1, EntriesAre DEF Outline, Types
    <2> QED
      BY <1>0, <2>1, <2>2 DEF IsUsed, IsLinked
  <1>2. ASSUME Busy({"write", "store"}) PROVE tailBlock \in In("used")
    <2>1. tailBlock \in Blocks
      BY <1>2 DEF Outline, ProducerInv, Busy
    <2> QED
      BY <1>0, <1>2, <2>1, TailLinked DEF IsUsed
  <1>3. CASE b = producer.block
    <2>1. CASE Busy({"publish"})
      <3>1. b \in Blocks
        BY <1>3, <2>1 DEF Outline, ProducerInv
      <3> QED
        BY <1>0, <1>3, <2>1, <3>1 DEF IsUsed
    <2>2. CASE Busy({"write", "store"})
      BY <1>2, <1>3, <2>2 DEF Outline, ProducerInv
    <2>3. CASE ~Busy({"publish", "write", "store"})
      BY <1>3, <2>3 DEF Outline, ProducerInv
    <2> QED
      BY <2>1, <2>2, <2>3 DEF Busy
  <1>4. ASSUME NEW k \in Consumers, b = c[k].block PROVE b \in In("used") \cup {NoBlock}
    <2>1. RangeInv(c[k], headIndex)
      BY FrameHeld
    <2>2. CASE c[k].pc \in {"count", "unlink"}
      <3>1. IsLinkOf(EntryOf(k), Base(c[k].index - 1)) /\ entries[EntryOf(k)].value = b
        BY <1>4, <2>2 DEF BlocksInv, WorkInv, LookInv, Looking
      <3>2. b \in Blocks /\ IsLinked(b)
        BY <3>1 DEF IsLinkOf, Links, IsLinked
      <3> QED
        BY <1>0, <3>2 DEF IsUsed
    <2>3. CASE c[k].pc = "free"
      <3>1. b \in Blocks
        BY <1>4, <2>1, <2>3 DEF RangeInv
      <3> QED
        BY <1>0, <1>4, <2>3, <3>1 DEF IsUsed
    <2>4. CASE c[k].pc \notin {"count", "unlink", "free"}
      BY <1>4, <2>1, <2>4 DEF RangeInv
    <2> QED
      BY <2>2, <2>3, <2>4
  <1>5. CASE Busy({"write", "store"}) /\ b = tailBlock
    BY <1>2, <1>5
  <1>6. \/ \E e \in DOMAIN entries : b = entries[e].value
        \/ b = producer.block
        \/ \E k \in Consumers : b = c[k].block
        \/ Busy({"write", "store"}) /\ b = tailBlock
    BY DEF InHand, Linked, Busy
  <1> QED
    BY <1>1, <1>3, <1>4, <1>5, <1>6

(* A block is used by one part at a time. *)
LEMMA OwnedOnce ==
  ASSUME QueueInv
  PROVE  BlocksOwned
  <1>1. CASE ended
    BY <1>1 DEF QueueInv, EndInv, BlocksOwned, Links
  <1>2. CASE ~ended
    <2>1. BlocksInv /\ Outline
      BY <1>2 DEF QueueInv
    <2>2. \A b \in Blocks : home[b] # "freed twice"
      BY <2>1 DEF BlocksInv, MemoryInv
    <2>3. \A d, e \in DOMAIN entries :
             entries[d].value = entries[e].value /\ entries[d].value \in Blocks => d = e
      BY <2>1 DEF BlocksInv, LinkInv, Links
    <2>4. InHand \cup Linked \subseteq In("used") \cup {NoBlock, Junk}
      BY <2>1, HandsUsed
    <2> QED
      BY <2>2, <2>3, <2>4 DEF BlocksOwned
  <1> QED
    BY <1>1, <1>2

(* The assertions follow. *)
LEMMA Asserted ==
  ASSUME QueueInv
  PROVE  AssertionsHold
  <1>0. SlotIsFresh
    BY DEF QueueInv, IndexInv, EntryInv, EndInv, SlotIsFresh, Busy, Keyed, Key
  <1> SUFFICES ASSUME NEW k \in Consumers
               PROVE  /\ LooksUpItsKey(k)
                      /\ At(k, "count") => completed[c[k].block] + c[k].moved <= BlockSize
    BY <1>0 DEF AssertionsHold
  <1>1. CASE c[k].pc \notin {"key", "count"}
    BY <1>1 DEF LooksUpItsKey, At
  <1>2. CASE c[k].pc \in {"key", "count"}
    <2>1. Outline /\ IndexInv /\ BlocksInv
      <3>1. ~(ended /\ EndInv)
        BY <1>2 DEF EndInv
      <3> QED
        BY <3>1 DEF QueueInv
    <2>2. CASE c[k].pc = "key"
      <3>1. /\ Keyed(EntryOf(k)) /\ TailKey(k) = Key(EntryOf(k))
            /\ IsLinkOf(Entry(Header(k), SlotOf(k)), Base(c[k].index))
        BY <2>1, <2>2, FoundEntry
      <3> QED
        BY <2>2, <3>1 DEF LooksUpItsKey, At, Keyed, Key, IsLinkOf, Links
    <2>3. CASE c[k].pc = "count"
      <3>1. PICK d, b, a, i, m : CountsIn(k, d, b, a, i, m)
        BY <2>1, <2>3, CountsAre
      <3>2. completed[b] + m <= BlockSize /\ b = c[k].block /\ m = c[k].moved
        BY <2>1, <2>3, <3>1, CountFits DEF CountsIn
      <3> QED
        BY <2>3, <3>2 DEF LooksUpItsKey, At
    <2> QED
      BY <1>2, <2>2, <2>3
  <1> QED
    BY <1>1, <1>2

(* A block is used by one part of the ring at a time (requisition_block(), *)
(* add_block_to_free_list()): none is given back twice, no two entries     *)
(* lead to the same one, and what an entry, the producer or a consumer is  *)
(* about to touch is in use.                                               *)
THEOREM BlocksAreOwned == Spec => []BlocksOwned
  BY QueueHolds, OwnedOnce, PTL

(* What the code asserts in insert_block_index_entry(), in                 *)
(* get_block_index_index_for_index() and in set_many_empty(): the slot     *)
(* after the tail of a larger index is fresh, an index leads to the entry  *)
(* with its key and a block, and no block is emptied of more elements than *)
(* it has.                                                                 *)
THEOREM QueueAsserts == Spec => []AssertionsHold
  BY QueueHolds, Asserted, PTL

(* ~ImplicitProducer() gives every block back and destroys every element.  *)
THEOREM AllReturned == Spec => []AllBlocksReturned
  <1>1. QueueInv => AllBlocksReturned
    BY DEF QueueInv, EndInv, AllBlocksReturned
  <1> QED
    BY <1>1, QueueHolds, PTL

-----------------------------------------------------------------------------
(* The refinement: what the abstract queue and its readers have.           *)
queueBar == IF ended THEN << >>
            ELSE [n \in 1 .. tailIndex - headIndex |-> Found(headIndex + n - 1)]
outBar == [k \in Consumers |->
               c[k].items \o [n \in 1 .. c[k].end - c[k].index |->
                                  Found(c[k].index + n - 1)]]
Run(i, n) == [m \in 1 .. n |-> i + m]
Sent == IF ended THEN << >> ELSE Run(headIndex, tailIndex - headIndex)
Given(f) == f.items \o Run(f.index, f.end - f.index)

(* What is left in the queue is the numbers from headIndex on. *)
LEMMA QueueIs ==
  ASSUME QueueInv
  PROVE  queueBar = Sent
  <1>1. CASE ended
    BY <1>1 DEF queueBar, Sent
  <1>2. CASE ~ended
    <2>1. Outline /\ BlocksInv
      BY <1>2 DEF QueueInv
    <2>2. headIndex \in Nat /\ tailIndex \in Nat /\ headIndex <= tailIndex
      BY <2>1, LatestIs
    <2>3. ASSUME NEW n \in 1 .. tailIndex - headIndex
          PROVE  Found(headIndex + n - 1) = headIndex + n
      <3>1. PICK i \in Nat : i = headIndex + n - 1
        BY <2>2
      <3>2. i < tailIndex /\ i >= headIndex /\ i + 1 = headIndex + n
        BY <2>2, <3>1
      <3>3. Found(i) = i + 1
        BY <2>1, <3>2, FoundIs DEF Pending
      <3> QED
        BY <3>1, <3>2, <3>3
    <2> QED
      BY <1>2, <2>3 DEF queueBar, Sent, Run
  <1> QED
    BY <1>1, <1>2

(* What a consumer has been given is what it took and what it will find. *)
LEMMA OutIs ==
  ASSUME QueueInv
  PROVE  outBar = [k \in Consumers |-> Given(c[k])]
  <1> SUFFICES ASSUME NEW k \in Consumers, NEW n \in 1 .. c[k].end - c[k].index
               PROVE  Found(c[k].index + n - 1) = c[k].index + n
    BY DEF outBar, Given, Run
  <1>1. c[k].pc \notin Working => c[k].index = 0 /\ c[k].end = 0
    BY FrameHeld DEF QueueInv, RangeInv
  <1>2. c[k].pc \in Working
    BY <1>1
  <1>3. Outline /\ BlocksInv
    <2>1. ~(ended /\ EndInv)
      BY <1>2 DEF EndInv, Working, Looking
    <2> QED
      BY <2>1 DEF QueueInv
  <1>4. /\ c[k].index \in Nat /\ c[k].end \in Nat /\ c[k].end <= headIndex
        /\ headIndex \in Nat /\ tailIndex \in Nat /\ headIndex <= tailIndex
    BY <1>2, <1>3, FrameHeld, LatestIs
  <1>5. PICK i \in Nat : i = c[k].index + n - 1
    BY <1>4
  <1>6. i < tailIndex /\ i < c[k].end /\ c[k].index <= i /\ i + 1 = c[k].index + n
    BY <1>4, <1>5
  <1>7. Found(i) = i + 1
    BY <1>3, <1>6, FoundIs DEF Pending, Mine
  <1> QED
    BY <1>5, <1>6, <1>7

(* Runs of numbers.                                                        *)
LEMMA RunIs ==
  ASSUME NEW i \in Nat, NEW n \in Nat
  PROVE  /\ Run(i, n) \in [1 .. n -> Nat]
         /\ Run(i, n) \in Seq(Nat) /\ Len(Run(i, n)) = n
         /\ \A m \in 1 .. n : Run(i, n)[m] = i + m
         /\ n = 0 => Run(i, n) = << >>
  <1>1. Run(i, n) \in [1 .. n -> Nat] /\ \A m \in 1 .. n : Run(i, n)[m] = i + m
    BY DEF Run
  <1>2. Run(i, n) \in Seq(Nat) /\ Len(Run(i, n)) = n
    BY <1>1, IsASeq
  <1>3. n = 0 => Run(i, n) = << >>
    <2> SUFFICES ASSUME n = 0 PROVE Run(i, n) = << >>
      OBVIOUS
    <2>1. << >> \in Seq(Nat) /\ Len(<< >>) = 0
      BY EmptySeq
    <2>2. \A m \in 1 .. 0 : Run(i, n)[m] = << >>[m]
      OBVIOUS
    <2> QED
      BY <1>2, <2>1, <2>2, SeqEqual
  <1> QED
    BY <1>1, <1>2, <1>3

(* A run of numbers, cut in two. *)
LEMMA RunTaken ==
  ASSUME NEW i \in Nat, NEW l \in Nat, NEW n \in Nat, n <= l
  PROVE  /\ SubSeq(Run(i, l), 1, n) = Run(i, n)
         /\ SubSeq(Run(i, l), n + 1, Len(Run(i, l))) = Run(i + n, l - n)
  <1>1. PICK r \in Seq(Nat) : r = Run(i, l)
    BY RunIs
  <1>2. Len(r) = l /\ \A m \in 1 .. l : r[m] = i + m /\ r[m] \in Nat
    BY <1>1, RunIs
  <1>3. SubSeq(r, 1, n) = Run(i, n)
    <2>1. \A m \in 1 .. n : r[m] \in Nat
      BY <1>2
    <2>2. /\ SubSeq(r, 1, n) \in Seq(Nat)
          /\ Len(SubSeq(r, 1, n)) = IF 1 <= n THEN n - 1 + 1 ELSE 0
          /\ \A m \in 1 .. n - 1 + 1 : SubSeq(r, 1, n)[m] = r[1 + m - 1]
      <3>1. 1 \in Int /\ n \in Int
        OBVIOUS
      <3> QED
        BY <2>1, <3>1, SubSeqProperties
    <2>3. Len(SubSeq(r, 1, n)) = n
      BY <2>2
    <2>4. \A m \in 1 .. n : SubSeq(r, 1, n)[m] = i + m
      <3> TAKE m \in 1 .. n
      <3>1. m \in 1 .. n - 1 + 1 /\ 1 + m - 1 = m
        OBVIOUS
      <3> QED
        BY <1>2, <2>2, <3>1
    <2>5. /\ Run(i, n) \in Seq(Nat) /\ Len(Run(i, n)) = n
          /\ \A m \in 1 .. n : Run(i, n)[m] = i + m
      BY RunIs
    <2> QED
      BY <2>2, <2>3, <2>4, <2>5, SeqEqual
  <1>4. SubSeq(r, n + 1, l) = Run(i + n, l - n)
    <2>1. \A m \in n + 1 .. l : r[m] \in Nat
      BY <1>2
    <2>2. /\ SubSeq(r, n + 1, l) \in Seq(Nat)
          /\ Len(SubSeq(r, n + 1, l)) = IF n + 1 <= l THEN l - (n + 1) + 1 ELSE 0
          /\ \A m \in 1 .. l - (n + 1) + 1 : SubSeq(r, n + 1, l)[m] = r[n + 1 + m - 1]
      <3>1. n + 1 \in Int /\ l \in Int
        OBVIOUS
      <3> QED
        BY <2>1, <3>1, SubSeqProperties
    <2>3. Len(SubSeq(r, n + 1, l)) = l - n
      BY <2>2
    <2>4. \A m \in 1 .. l - n : SubSeq(r, n + 1, l)[m] = (i + n) + m
      <3> TAKE m \in 1 .. l - n
      <3>1. m \in 1 .. l - (n + 1) + 1 /\ n + 1 + m - 1 = n + m /\ n + m \in 1 .. l
        OBVIOUS
      <3>2. SubSeq(r, n + 1, l)[m] = r[n + m]
        BY <2>2, <3>1
      <3>3. r[n + m] = i + (n + m)
        BY <1>2, <3>1
      <3> QED
        BY <3>2, <3>3
    <2>5. i + n \in Nat /\ l - n \in Nat
      OBVIOUS
    <2>6. /\ Run(i + n, l - n) \in Seq(Nat) /\ Len(Run(i + n, l - n)) = l - n
          /\ \A m \in 1 .. l - n : Run(i + n, l - n)[m] = (i + n) + m
      BY <2>5, RunIs
    <2> QED
      BY ZenonT(40), <2>2, <2>3, <2>4, <2>6, SeqEqual
  <1> QED
    BY <1>1, <1>2, <1>3, <1>4

(* A run of numbers, one longer. *)
LEMMA RunSent ==
  ASSUME NEW i \in Nat, NEW n \in Nat
  PROVE  Append(Run(i, n), i + n + 1) = Run(i, n + 1)
  <1>1. PICK r \in Seq(Nat) : r = Run(i, n)
    BY RunIs
  <1>2. Len(r) = n /\ \A m \in 1 .. n : r[m] = i + m
    BY <1>1, RunIs
  <1>3. PICK x \in Nat : x = i + n + 1
    OBVIOUS
  <1>4. /\ Append(r, x) \in Seq(Nat) /\ Len(Append(r, x)) = Len(r) + 1
        /\ \A m \in 1 .. Len(r) : Append(r, x)[m] = r[m]
        /\ Append(r, x)[Len(r) + 1] = x
    BY AppendProperties
  <1>5. \A m \in 1 .. n + 1 : Append(r, x)[m] = i + m
    <2> TAKE m \in 1 .. n + 1
    <2>1. CASE m <= n
      BY <1>2, <1>4, <2>1
    <2>2. CASE m = n + 1
      BY <1>2, <1>3, <1>4, <2>2
    <2>3. m <= n \/ m = n + 1
      OBVIOUS
    <2> QED
      BY <2>1, <2>2, <2>3
  <1>6. n + 1 \in Nat
    OBVIOUS
  <1>7. /\ Run(i, n + 1) \in Seq(Nat) /\ Len(Run(i, n + 1)) = n + 1
        /\ \A m \in 1 .. n + 1 : Run(i, n + 1)[m] = i + m
    BY <1>6, RunIs
  <1> QED
    BY SMTT(30), <1>1, <1>2, <1>3, <1>4, <1>5, <1>7, SeqEqual

(* What a consumer is given: all of its range; or what it has moved out.   *)
LEMMA GivenRange ==
  ASSUME NEW f \in Frames, Start(f) \in Nat, f.index <= f.end,
         \A n \in 1 .. Len(f.items) : f.items[n] = Start(f) + n
  PROVE  Given(f) = Run(Start(f), f.end - Start(f))
  <1>1. PICK s \in Seq(Nat) : s = f.items
    BY FrameFields
  <1>2. PICK l \in Nat : l = Len(s)
    BY LenProperties
  <1>3. PICK i \in Nat : i = f.index
    BY FrameFields
  <1>4. PICK z \in Nat : z = Start(f)
    OBVIOUS
  <1>5. PICK n \in Nat : n = f.end - f.index
    <2>1. f.end \in Nat
      BY FrameFields
    <2> QED
      BY <1>3, <2>1
  <1>6. i = z + l /\ f.end - z = l + n
    <2>1. f.end \in Nat
      BY FrameFields
    <2>2. z = i - l
      BY <1>1, <1>2, <1>3, <1>4 DEF Start
    <2>3. PICK y \in Nat : y = f.end
      BY <2>1
    <2>4. n = y - i
      BY <1>3, <1>5, <2>3
    <2> QED
      BY <2>2, <2>3, <2>4
  <1>7. /\ Run(i, n) \in [1 .. n -> Nat] /\ \A m \in 1 .. n : Run(i, n)[m] = i + m
    BY RunIs
  <1>8. PICK u \in [1 .. n -> Nat] : u = Run(i, n)
    BY <1>7
  <1>9. /\ s \o u \in Seq(Nat) /\ Len(s \o u) = l + n
        /\ \A m \in 1 .. l : (s \o u)[m] = s[m]
        /\ \A m \in 1 .. n : (s \o u)[l + m] = u[m]
    BY <1>2, ItemsJoined
  <1>10. \A m \in 1 .. l + n : (s \o u)[m] = z + m
    <2> TAKE m \in 1 .. l + n
    <2>1. CASE m <= l
      BY <1>1, <1>2, <1>4, <1>9, <2>1
    <2>2. CASE ~(m <= l)
      <3>1. m - l \in 1 .. n /\ l + (m - l) = m /\ i + (m - l) = z + m
        BY <1>6, <2>2
      <3>2. (s \o u)[l + (m - l)] = u[m - l]
        BY <1>9, <3>1
      <3>3. u[m - l] = i + (m - l)
        BY <1>7, <1>8, <3>1
      <3> QED
        BY <3>1, <3>2, <3>3
    <2> QED
      BY <2>1, <2>2
  <1>11. l + n \in Nat
    OBVIOUS
  <1>12. /\ Run(z, l + n) \in Seq(Nat) /\ Len(Run(z, l + n)) = l + n
         /\ \A m \in 1 .. l + n : Run(z, l + n)[m] = z + m
    BY <1>11, RunIs
  <1>13. s \o u = Run(z, l + n)
    BY ZenonT(40), <1>9, <1>10, <1>12, SeqEqual
  <1> QED
    BY <1>1, <1>3, <1>4, <1>5, <1>6, <1>8, <1>13 DEF Given

(* A consumer at the end of its range has its items. *)
LEMMA GivenItems ==
  ASSUME NEW f \in Frames, f.index = f.end
  PROVE  Given(f) = f.items
  <1>1. f.items \in Seq(Nat) /\ f.index \in Nat /\ f.end \in Nat
    BY FrameFields
  <1>2. Run(f.index, 0) = << >> /\ f.end - f.index = 0
    BY <1>1, RunIs
  <1> QED
    BY <1>1, <1>2, ConcatEmptySeq DEF Given

(* The same range and the same items are the same gift. *)
LEMMA GivenSame ==
  ASSUME NEW f, NEW g, f.index = g.index, f.end = g.end, f.items = g.items
  PROVE  Given(f) = Given(g)
  BY DEF Given

(* A consumer without a range has been given nothing. *)
LEMMA GivenNothing ==
  ASSUME Outline, NEW k \in Consumers, c[k].pc \notin Working \cup {"done"}
  PROVE  c[k].index = 0 /\ c[k].end = 0 /\ c[k].items = << >> /\ Given(c[k]) = << >>
  <1>1. c[k] \in Frames /\ c[k].index = 0 /\ c[k].end = 0 /\ c[k].items = << >>
    BY FrameHeld DEF RangeInv
  <1> QED
    BY <1>1, GivenItems

(* Until it has a range, a consumer has nothing; then what it is given     *)
(* does not change before it returns.                                      *)
LEMMA ClaimGiven ==
  ASSUME Outline, NEW k \in Consumers,
         \/ LoadTail(k) \/ LoadOvercommit(k) \/ LoadOptimistic(k)
         \/ ClaimOptimistic(k) \/ ReloadTail(k) \/ Overcommit(k)
  PROVE  Given(c'[k]) = Given(c[k]) /\ Others(k) /\ Kept /\ headIndex' = headIndex
  <1>0. FramesOK /\ CountersOK /\ CounterInv
    BY DEF Outline, Types
  <1>1. c[k].pc \in {"idle", "over", "optimistic", "claim", "reload", "return"}
    BY DEF LoadTail, LoadOvercommit, LoadOptimistic, ClaimOptimistic, ReloadTail, Overcommit, At
  <1>2. c[k].index = 0 /\ c[k].end = 0 /\ c[k].items = << >>
    BY <1>1, GivenNothing DEF Working, Looking
  <1>3. ReloadTail(k) => c[k].desired \in 1 .. MaxDequeue
    BY <1>0 DEF CounterInv, ClaimInv, ReloadTail, At
  <1>4. /\ c'[k].index = 0 /\ c'[k].end = 0 /\ c'[k].items = << >>
        /\ Others(k) /\ Kept /\ headIndex' = headIndex
    <2>1. CASE LoadTail(k)
      BY <1>0, <1>2, <2>1, LoadTailIs
    <2>2. CASE LoadOvercommit(k)
      BY <1>0, <1>2, <2>2, LoadOvercommitIs
    <2>3. CASE LoadOptimistic(k)
      BY <1>0, <1>2, <2>3, LoadOptimisticIs
    <2>4. CASE ClaimOptimistic(k)
      BY <1>0, <1>2, <2>4, ClaimOptimisticIs
    <2>5. CASE ReloadTail(k)
      BY <1>0, <1>2, <1>3, <2>5, ReloadTailIs
    <2>6. CASE Overcommit(k)
      BY <1>0, <1>2, <2>6, OvercommitIs
    <2> QED
      BY <2>1, <2>2, <2>3, <2>4, <2>5, <2>6
  <1> QED
    BY <1>2, <1>4, GivenSame

(* Moving elements out gives nothing new. *)
LEMMA MoveGiven ==
  ASSUME Outline, Outline', BlocksInv, NEW k \in Consumers, MoveElements(k)
  PROVE  Given(c'[k]) = Given(c[k])
  <1>1. /\ c[k].pc \in Working /\ c'[k].pc = "count" /\ Start(c'[k]) = Start(c[k])
        /\ c'[k].index = c[k].index + c'[k].moved /\ c'[k].end = c[k].end
    BY MoveFrame
  <1>2. PICK d, b, a, i, n : MovesFrom(k, d, b, a, i, n)
    BY MoveFrame
  <1>3. c'[k].index <= c'[k].end /\ c[k].index <= c[k].end
    BY <1>1, <1>2 DEF MovesFrom
  <1>4. c[k] \in Frames /\ c'[k] \in Frames
    BY DEF Outline, Types, FramesOK
  <1>5. Start(c[k]) \in Nat
    BY <1>1, StartIs
  <1>6. \A m \in 1 .. Len(c[k].items) : c[k].items[m] = Start(c[k]) + m
    BY <1>1 DEF BlocksInv, ItemsInv
  <1>7. \A m \in 1 .. Len(c'[k].items) : c'[k].items[m] = Start(c'[k]) + m
    BY <1>1, MoveItems DEF ItemsInv, Working, Looking
  <1>8. Given(c[k]) = Run(Start(c[k]), c[k].end - Start(c[k]))
    BY <1>3, <1>4, <1>5, <1>6, GivenRange
  <1>9. Given(c'[k]) = Run(Start(c'[k]), c'[k].end - Start(c'[k]))
    BY <1>1, <1>3, <1>4, <1>5, <1>7, GivenRange
  <1> QED
    BY <1>1, <1>8, <1>9

(* Neither does what follows for the block. *)
LEMMA BlockGiven ==
  ASSUME Outline, Outline', NEW k \in Consumers,
         Becomes(k, "unlink", c[k]) \/ Becomes(k, "free", c[k]) \/ Finishes(k) \/ GoesOn(k)
  PROVE  Given(c'[k]) = Given(c[k])
  <1>1. CASE Becomes(k, "unlink", c[k]) \/ Becomes(k, "free", c[k]) \/ GoesOn(k)
    BY <1>1, GivenSame DEF Becomes, GoesOn
  <1>2. CASE Finishes(k)
    <2>1. c[k] \in Frames /\ c'[k] \in Frames
      BY DEF Outline, Types, FramesOK
    <2>2. c[k].index = c[k].end /\ c'[k].index = c'[k].end /\ c'[k].items = c[k].items
      BY <1>2 DEF Finishes
    <2> QED
      BY <2>1, <2>2, GivenItems
  <1> QED
    BY <1>1, <1>2

(* Only taking the range and returning change what a consumer has been     *)
(* given.                                                                  *)
LEMMA DequeueGiven ==
  ASSUME Outline, Outline', BlocksInv, NEW k \in Consumers, DequeueStep(k),
         ~ClaimElements(k), ~Return(k)
  PROVE  Given(c'[k]) = Given(c[k]) /\ Others(k) /\ Kept /\ headIndex' = headIndex
  <1>1. CASE \/ LoadTail(k) \/ LoadOvercommit(k) \/ LoadOptimistic(k)
             \/ ClaimOptimistic(k) \/ ReloadTail(k) \/ Overcommit(k)
    BY <1>1, ClaimGiven
  <1>2. CASE LoadHeader(k) \/ LoadIndexTail(k) \/ LookUp(k)
    <2>1. /\ c'[k].index = c[k].index /\ c'[k].end = c[k].end /\ c'[k].items = c[k].items
          /\ Others(k) /\ Kept /\ headIndex' = headIndex
      BY <1>2, LookFrame
    <2> QED
      BY <2>1, GivenSame
  <1>3. CASE MoveElements(k)
    <2>1. Others(k) /\ Kept /\ headIndex' = headIndex
      BY <1>3, MoveFrame
    <2> QED
      BY <1>3, <2>1, MoveGiven
  <1>4. CASE CountElements(k)
    <2>1. PICK d, b, a, i, m : CountsIn(k, d, b, a, i, m)
      BY <1>4, CountsAre DEF CountElements, At
    <2>2. /\ Becomes(k, "unlink", c[k]) \/ Finishes(k) \/ GoesOn(k)
          /\ Others(k) /\ Kept /\ headIndex' = headIndex
      BY <1>4, <2>1, CountFrame
    <2> QED
      BY <2>2, BlockGiven
  <1>5. CASE UnlinkBlock(k)
    <2>1. Becomes(k, "free", c[k]) /\ Others(k) /\ Kept /\ headIndex' = headIndex
      BY <1>5, UnlinkFrame
    <2> QED
      BY <2>1, BlockGiven
  <1>6. CASE FreeBlock(k)
    <2>1. (Finishes(k) \/ GoesOn(k)) /\ Others(k) /\ Kept /\ headIndex' = headIndex
      BY <1>6, FreeFrame
    <2> QED
      BY <2>1, BlockGiven
  <1> QED
    BY <1>1, <1>2, <1>3, <1>4, <1>5, <1>6 DEF DequeueStep

-----------------------------------------------------------------------------
(* The steps of the abstract queue.                                        *)
Strong == QueueInv /\ queueBar = Sent /\ outBar = [k \in Consumers |-> Given(c[k])]

(* The invariant, with the abstract state as runs of numbers. *)
LEMMA StrongIs ==
  ASSUME QueueInv
  PROVE  Strong
  BY QueueIs, OutIs DEF Strong

(* The abstract steps, by the names used here. *)
LEMMA FifoNames ==
  /\ Fifo!vars = <<tailIndex, queueBar, outBar>>
  /\ Fifo!Enqueue <=> /\ tailIndex' = tailIndex + 1 /\ queueBar' = Append(queueBar, tailIndex + 1)
                      /\ outBar' = outBar
  /\ \A k : Fifo!Return(k) <=> /\ outBar' = [outBar EXCEPT ![k] = << >>]
                               /\ tailIndex' = tailIndex /\ queueBar' = queueBar
  /\ \A k : Fifo!Take(k) <=> \E n \in 1 .. MaxDequeue :
        /\ outBar[k] = << >> /\ n <= Len(queueBar)
        /\ outBar' = [outBar EXCEPT ![k] = SubSeq(queueBar, 1, n)]
        /\ queueBar' = SubSeq(queueBar, n + 1, Len(queueBar))
        /\ tailIndex' = tailIndex
  /\ Fifo!Destroy <=> /\ \A k \in Consumers : outBar[k] = << >>
                      /\ queueBar' = << >> /\ tailIndex' = tailIndex /\ outBar' = outBar
  BY DEF Fifo!vars, Fifo!Enqueue, Fifo!Return, Fifo!Take, Fifo!Destroy, queueBar, outBar

(* A step of one consumer changes what that one has been given. *)
LEMMA OutChanges ==
  ASSUME Strong, Strong', NEW k \in Consumers, Others(k)
  PROVE  outBar' = [outBar EXCEPT ![k] = Given(c'[k])]
  <1>1. /\ outBar = [j \in Consumers |-> Given(c[j])]
        /\ outBar' = [j \in Consumers |-> Given(c'[j])]
    BY DEF Strong, Given, Run
  <1> QED
    BY <1>1 DEF Others

(* Nobody is given anything. *)
LEMMA OutStays ==
  ASSUME Strong, Strong', \A k \in Consumers : Given(c'[k]) = Given(c[k])
  PROVE  outBar' = outBar
  <1>1. /\ outBar = [j \in Consumers |-> Given(c[j])]
        /\ outBar' = [j \in Consumers |-> Given(c'[j])]
    BY DEF Strong, Given, Run
  <1> QED
    BY <1>1

(* The queue stays as it is. *)
LEMMA QueueStays ==
  ASSUME Strong, Strong', UNCHANGED <<headIndex, tailIndex, ended>>
  PROVE  queueBar' = queueBar
  BY DEF Strong, Sent, Run

(* Where the queue is not destroyed, the abstract one is a run of numbers. *)
LEMMA SentIs ==
  ASSUME Strong, Strong'
  PROVE  /\ ~ended => queueBar = Run(headIndex, tailIndex - headIndex)
         /\ ~ended' => queueBar' = Run(headIndex', tailIndex' - headIndex')
         /\ ended' => queueBar' = << >>
  BY DEF Strong, Sent, Run

(* A step that the abstract queue does not see. *)
LEMMA NothingNew ==
  ASSUME tailIndex' = tailIndex, queueBar' = queueBar, outBar' = outBar
  PROVE  UNCHANGED Fifo!vars
  BY DEF Fifo!vars, queueBar, outBar

(* enqueue() adds its element with the store of tailIndex, and at no other *)
(* step.                                                                   *)
LEMMA EnqueueFifo ==
  ASSUME Strong, Strong', ~ended, EnqueueStep
  PROVE  Fifo!Enqueue \/ UNCHANGED Fifo!vars
  <1>1. Outline /\ UNCHANGED <<c, ended, headIndex>>
    BY EnqueueKeeps DEF Strong, QueueInv
  <1>2. outBar' = outBar
    <2>1. \A k \in Consumers : Given(c'[k]) = Given(c[k])
      BY <1>1, GivenSame
    <2> QED
      BY <2>1, OutStays
  <1>3. CASE tailIndex' = tailIndex
    BY <1>1, <1>2, <1>3, QueueStays, NothingNew
  <1>4. CASE Busy({"store"}) /\ tailIndex' = producer.tail + 1
    <2>1. tailIndex' = tailIndex + 1
      BY <1>1, <1>4 DEF Outline, ProducerInv, Busy
    <2>2. headIndex \in Nat /\ tailIndex \in Nat /\ headIndex <= tailIndex
      BY <1>1, LatestIs
    <2>3. PICK i \in Nat : i = headIndex
      BY <2>2
    <2>4. PICK t \in Nat : t = tailIndex
      BY <2>2
    <2>5. PICK n \in Nat : n = t - i
      BY <2>2, <2>3, <2>4
    <2>6. queueBar = Run(i, n)
      BY SentIs, <2>3, <2>4, <2>5
    <2>7. queueBar' = Run(i, n + 1)
      <3>1. queueBar' = Run(headIndex', tailIndex' - headIndex')
        BY <1>1, SentIs
      <3>2. headIndex' = i /\ tailIndex' = t + 1 /\ t + 1 - i = n + 1
        BY <1>1, <2>1, <2>3, <2>4, <2>5
      <3> QED
        BY <3>1, <3>2
    <2>8. Append(Run(i, n), i + n + 1) = Run(i, n + 1)
      BY RunSent
    <2>0. i + n + 1 = t + 1
      BY <2>5
    <2>9. queueBar' = Append(queueBar, tailIndex + 1)
      BY <2>0, <2>4, <2>6, <2>7, <2>8
    <2> QED
      BY <1>2, <2>1, <2>9, FifoNames
  <1> QED
    BY <1>3, <1>4, EnqueueKeeps

(* A consumer takes its elements with the addition to headIndex. *)
LEMMA TakeFifo ==
  ASSUME Strong, Strong', ~ended, NEW k \in Consumers, ClaimElements(k)
  PROVE  Fifo!Take(k)
  <1>1. Outline /\ Outline' /\ c[k].pc = "first"
    BY DEF Strong, QueueInv, ClaimElements, At
  <1>2. c[k].count \in 1 .. c[k].desired /\ c[k].desired \in 1 .. MaxDequeue
    BY <1>1 DEF Outline, CounterInv, ClaimInv
  <1>3. MaxDequeue \in Nat
    BY QueueAssumption
  <1>4. PICK n \in 1 .. MaxDequeue : n = c[k].count
    BY <1>2, <1>3
  <1>5. /\ headIndex' = headIndex + n /\ c'[k].index = headIndex /\ c'[k].end = headIndex'
        /\ c'[k].items = << >> /\ Others(k) /\ Kept
    BY <1>1, <1>3, <1>4, ClaimElementsIs DEF Outline, Types
  <1>6. /\ headIndex \in Nat /\ tailIndex \in Nat /\ headIndex' <= tailIndex'
        /\ tailIndex' = tailIndex /\ ended' = ended
    BY <1>1, <1>5, LatestIs DEF Outline, CounterInv, Kept
  <1>7. PICK i \in Nat : i = headIndex
    BY <1>6
  <1>8. PICK l \in Nat : l = tailIndex - headIndex /\ n <= l
    <2>1. headIndex + n <= tailIndex
      BY <1>5, <1>6
    <2> QED
      BY <1>3, <1>6, <2>1
  <1>9. queueBar = Run(i, l)
    BY SentIs, <1>7, <1>8
  <1>10. queueBar' = Run(i + n, l - n)
    <2>1. queueBar' = Run(headIndex', tailIndex' - headIndex')
      BY <1>6, SentIs
    <2>2. headIndex' = i + n /\ tailIndex' - headIndex' = l - n
      BY <1>5, <1>6, <1>7, <1>8
    <2> QED
      BY <2>1, <2>2
  <1>11. /\ SubSeq(Run(i, l), 1, n) = Run(i, n) /\ Len(Run(i, l)) = l
         /\ SubSeq(Run(i, l), n + 1, Len(Run(i, l))) = Run(i + n, l - n)
    <2>1. n \in Nat /\ n <= l
      BY <1>3, <1>8
    <2>2. /\ SubSeq(Run(i, l), 1, n) = Run(i, n)
          /\ SubSeq(Run(i, l), n + 1, Len(Run(i, l))) = Run(i + n, l - n)
      BY <2>1, RunTaken
    <2>3. Len(Run(i, l)) = l
      BY RunIs
    <2> QED
      BY <2>2, <2>3
  <1>12. outBar[k] = << >>
    <2>1. Given(c[k]) = << >>
      BY <1>1, GivenNothing DEF Working, Looking
    <2> QED
      BY <2>1 DEF Strong
  <1>13. Given(c'[k]) = Run(i, n)
    <2>1. Run(i, n) \in Seq(Nat)
      BY <1>3, RunIs
    <2>2. << >> \o Run(i, n) = Run(i, n)
      BY <2>1, ConcatEmptySeq
    <2>3. c'[k].end - c'[k].index = n /\ c'[k].index = i
      BY <1>3, <1>5, <1>7
    <2> QED
      BY <1>5, <2>2, <2>3 DEF Given
  <1>14. outBar' = [outBar EXCEPT ![k] = SubSeq(queueBar, 1, n)]
    BY <1>5, <1>9, <1>11, <1>13, OutChanges
  <1>15. queueBar' = SubSeq(queueBar, n + 1, Len(queueBar)) /\ n <= Len(queueBar)
    BY <1>8, <1>9, <1>10, <1>11
  <1> QED
    BY <1>6, <1>12, <1>14, <1>15, FifoNames

(* It returns with them. *)
LEMMA ReturnFifo ==
  ASSUME Strong, Strong', NEW k \in Consumers, Return(k)
  PROVE  Fifo!Return(k)
  <1>1. Outline /\ Outline'
    BY DEF Strong, QueueInv
  <1>2. /\ c'[k].pc = "idle" /\ c'[k].index = 0 /\ c'[k].end = 0 /\ c'[k].items = << >>
        /\ Others(k) /\ Kept /\ headIndex' = headIndex
    BY <1>1, ReturnIs DEF Outline, Types
  <1>3. Given(c'[k]) = << >>
    <2>1. c'[k] \in Frames
      BY <1>1 DEF Outline, Types, FramesOK
    <2> QED
      BY <1>2, <2>1, GivenItems
  <1>4. outBar' = [outBar EXCEPT ![k] = << >>]
    BY <1>2, <1>3, OutChanges
  <1>5. queueBar' = queueBar /\ tailIndex' = tailIndex
    BY <1>2, QueueStays DEF Kept
  <1> QED
    BY <1>4, <1>5, FifoNames

(* The destructor empties the queue. *)
LEMMA DestroyFifo ==
  ASSUME Strong, Strong', Destroy
  PROVE  Fifo!Destroy
  <1>1. Outline /\ ended' /\ UNCHANGED <<c, tailIndex>> /\ \A k \in Consumers : c[k].pc = "idle"
    BY DEF Strong, QueueInv, Destroy, At, counters
  <1>2. \A k \in Consumers : Given(c[k]) = << >>
    BY <1>1, GivenNothing DEF Working, Looking
  <1>3. \A k \in Consumers : outBar[k] = << >>
    BY <1>2 DEF Strong
  <1>4. outBar' = outBar
    <2>1. \A k \in Consumers : Given(c'[k]) = Given(c[k])
      BY <1>1, GivenSame
    <2> QED
      BY <2>1, OutStays
  <1>5. queueBar' = << >>
    BY <1>1, SentIs
  <1> QED
    BY <1>1, <1>3, <1>4, <1>5, FifoNames

(* A step of a consumer is a step of the FIFO queue, or none. *)
LEMMA DequeueFifo ==
  ASSUME Strong, Strong', ~ended, NEW k \in Consumers, DequeueStep(k)
  PROVE  Fifo!Take(k) \/ Fifo!Return(k) \/ UNCHANGED Fifo!vars
  <1>1. CASE ClaimElements(k)
    BY <1>1, TakeFifo
  <1>2. CASE Return(k)
    BY <1>2, ReturnFifo
  <1>3. CASE ~ClaimElements(k) /\ ~Return(k)
    <2>1. Outline /\ Outline' /\ BlocksInv
      BY DEF Strong, QueueInv
    <2>2. Given(c'[k]) = Given(c[k]) /\ Others(k) /\ Kept /\ headIndex' = headIndex
      BY <1>3, <2>1, DequeueGiven
    <2>3. \A j \in Consumers : Given(c'[j]) = Given(c[j])
      BY <2>2, GivenSame DEF Others
    <2>4. outBar' = outBar /\ queueBar' = queueBar /\ tailIndex' = tailIndex
      BY <2>2, <2>3, OutStays, QueueStays DEF Kept
    <2> QED
      BY <2>4, NothingNew
  <1> QED
    BY <1>1, <1>2, <1>3

(* A step that changes nothing is none. *)
LEMMA FifoStutter ==
  ASSUME Strong, Strong', UNCHANGED vars
  PROVE  UNCHANGED Fifo!vars
  <1>1. UNCHANGED <<c, headIndex, tailIndex, ended>>
    BY DEF vars, counters
  <1>2. \A k \in Consumers : Given(c'[k]) = Given(c[k])
    BY <1>1, GivenSame
  <1> QED
    BY <1>1, <1>2, OutStays, QueueStays, NothingNew

(* Every step is a step of the FIFO queue, or none. *)
LEMMA FifoStep ==
  ASSUME Strong, Strong', [Next]_vars
  PROVE  [Fifo!Next]_(Fifo!vars)
  <1>1. CASE ended
    <2>1. UNCHANGED vars
      BY <1>1, EndStutter DEF Strong, QueueInv
    <2> QED
      BY <2>1, FifoStutter
  <1>2. CASE UNCHANGED vars
    BY <1>2, FifoStutter
  <1>3. CASE ~ended /\ EnqueueStep
    BY <1>3, EnqueueFifo DEF Fifo!Next
  <1>4. CASE ~ended /\ \E k \in Consumers : DequeueStep(k)
    BY <1>4, DequeueFifo DEF Fifo!Next
  <1>5. CASE Destroy
    BY <1>5, DestroyFifo DEF Fifo!Next
  <1> QED
    BY <1>1, <1>2, <1>3, <1>4, <1>5 DEF Next

(* The FIFO queue is empty at first. *)
LEMMA FifoInit == Init => Fifo!Init
  <1> SUFFICES ASSUME Init PROVE Fifo!Init
    OBVIOUS
  <1>1. Strong
    BY OutlineInit, IndexInit, BlocksInit, StrongIs DEF QueueInv, Init
  <1>2. ~ended /\ tailIndex = 0 /\ headIndex = 0 /\ \A k \in Consumers : c[k] = Idle
    BY DEF Init
  <1>3. queueBar = << >>
    <2>1. queueBar = Run(0, 0)
      BY <1>1, <1>2 DEF Strong, Sent
    <2> QED
      BY <2>1, RunIs
  <1>4. outBar = [k \in Consumers |-> << >>]
    <2>1. \A k \in Consumers : c[k].pc = "idle"
      BY <1>2 DEF Idle
    <2>2. \A k \in Consumers : Given(c[k]) = << >>
      BY <1>1, <2>1, GivenNothing DEF Strong, QueueInv, Working, Looking
    <2> QED
      BY <1>1, <2>2 DEF Strong
  <1> QED
    BY <1>2, <1>3, <1>4 DEF Fifo!Init, queueBar, outBar

(* enqueue() and try_dequeue_bulk() are the steps of a FIFO queue.         *)
THEOREM QueueRefinesFifo == Spec => ImplementsFifo
  <1>1. Init => Fifo!Init
    BY FifoInit
  <1>2. QueueInv => Strong
    BY StrongIs
  <1>3. Strong /\ Strong' /\ [Next]_vars => [Fifo!Next]_(Fifo!vars)
    BY FifoStep
  <1>4. Spec => []QueueInv
    BY QueueHolds
  <1> QED
    BY <1>1, <1>2, <1>3, <1>4, PTL DEF Spec, Fifo!Spec, ImplementsFifo
=============================================================================
