------------------------------ MODULE FreeList ------------------------------
(***************************************************************************)
(* The lock-free free list of the vendored queue                           *)
(* (server/libs/concurrentqueue/concurrentqueue.h), in which the blocks of *)
(* the packet queue wait to be used again.  It is a stack of nodes, each   *)
(* with a reference count: one for being on the list, one for each thread  *)
(* that is looking at it.  A thread that adds a node others still look at  *)
(* only marks it; the last of them to let go puts it on the list.          *)
(*                                                                         *)
(* One action is one atomic operation of a thread, and their order is      *)
(* sequentially consistent; the memory orders of the code are not modelled.*)
(***************************************************************************)
EXTENDS Naturals, FiniteSets

CONSTANTS Threads, Nodes, NoNode

ASSUME FreeListAssumption == /\ IsFiniteSet(Threads) /\ IsFiniteSet(Nodes)
                             /\ NoNode \notin Nodes

VARIABLES
    freeListHead,
    freeListRefs,  \* of each node: SHOULD_BE_ON_FREELIST and the count
    freeListNext,
    out,           \* nodes that were got and not given back
    pc, node, head, next, seen, getting      \* locals of add() and try_get()

shared == <<freeListHead, freeListRefs, freeListNext>>
locals == <<node, head, next, seen, getting>>
vars == <<shared, out, pc, locals>>

MaybeNode == Nodes \cup {NoNode}

(* The 32-bit word: its top bit and the rest. *)
Word(mark, count) == [mark |-> mark, count |-> count]

Init ==
    /\ freeListHead = NoNode
    /\ freeListRefs = [n \in Nodes |-> Word(FALSE, 0)]
    /\ freeListNext = [n \in Nodes |-> NoNode]
    /\ out = Nodes
    /\ pc = [t \in Threads |-> "idle"]
    /\ node = [t \in Threads |-> NoNode] /\ head = [t \in Threads |-> NoNode]
    /\ next = [t \in Threads |-> NoNode]
    /\ seen = [t \in Threads |-> Word(FALSE, 0)]
    /\ getting = [t \in Threads |-> FALSE]

At(t, p) == pc[t] = p
Goto(t, p) == pc' = [pc EXCEPT ![t] = p]

(* A call is over: add() for itself, or add_knowing_refcount_is_zero()     *)
(* inside try_get(), which then looks at the head again.  Locals that are  *)
(* not read any more are forgotten.                                        *)
Return(t) ==
    /\ node' = [node EXCEPT ![t] = NoNode]
    /\ seen' = [seen EXCEPT ![t] = Word(FALSE, 0)]
    /\ next' = [next EXCEPT ![t] = NoNode]
    /\ IF getting[t] THEN Goto(t, "refs") /\ UNCHANGED <<head, getting>>
       ELSE /\ Goto(t, "idle") /\ head' = [head EXCEPT ![t] = NoNode]
            /\ UNCHANGED getting

-----------------------------------------------------------------------------
(* add(), by whatever thread: the mark; whoever brings the count to zero links the node. *)
Add(t, n) ==
    /\ At(t, "idle") /\ n \in out
    /\ out' = out \ {n}
    /\ freeListRefs' = [freeListRefs EXCEPT ![n].mark = ~@]
    /\ IF freeListRefs[n] = Word(FALSE, 0)
       THEN /\ node' = [node EXCEPT ![t] = n] /\ Goto(t, "link")
            /\ UNCHANGED <<head, next, seen, getting>>
       ELSE Return(t)
    /\ UNCHANGED <<freeListHead, freeListNext>>

(* add_knowing_refcount_is_zero() keeps its own copy of the head in next;  *)
(* head stays try_get()'s.                                                 *)
LoadHead(t) ==
    /\ At(t, "link") /\ Goto(t, "store")
    /\ next' = [next EXCEPT ![t] = freeListHead]
    /\ UNCHANGED <<shared, out, node, head, seen, getting>>

StoreNext(t) ==
    /\ At(t, "store") /\ Goto(t, "count")
    /\ freeListNext' = [freeListNext EXCEPT ![node[t]] = next[t]]
    /\ UNCHANGED <<freeListHead, freeListRefs, out, locals>>

(* The store of 1 also clears the mark. *)
StoreRefs(t) ==
    /\ At(t, "count") /\ Goto(t, "push")
    /\ freeListRefs' = [freeListRefs EXCEPT ![node[t]] = Word(FALSE, 1)]
    /\ UNCHANGED <<freeListHead, freeListNext, out, locals>>

Push(t) ==
    /\ At(t, "push") /\ freeListHead = next[t]
    /\ freeListHead' = node[t]
    /\ Return(t)
    /\ UNCHANGED <<freeListRefs, freeListNext, out>>

PushFails(t) ==
    /\ At(t, "push") /\ freeListHead # next[t]
    /\ next' = [next EXCEPT ![t] = freeListHead]
    /\ Goto(t, "retreat")
    /\ UNCHANGED <<shared, out, node, head, seen, getting>>

(* seeded bug: whoever has come to look is not heeded *)
RetreatAlone(t) ==
    /\ At(t, "retreat")
    /\ freeListRefs' = [freeListRefs EXCEPT ![node[t]] = Word(~@.mark, @.count - 1)]
    /\ Goto(t, "store")
    /\ UNCHANGED <<freeListHead, freeListNext, out, locals>>

(* fetch_add(SHOULD_BE_ON_FREELIST - 1): back to zero and try again, or    *)
(* leave the node to a thread that has come to look at it.                 *)
Retreat(t) ==
    /\ At(t, "retreat")
    /\ freeListRefs' = [freeListRefs EXCEPT ![node[t]] =
                            Word(~@.mark, @.count - 1)]
    /\ IF freeListRefs[node[t]] = Word(FALSE, 1)
       THEN Goto(t, "store") /\ UNCHANGED locals
       ELSE Return(t)
    /\ UNCHANGED <<freeListHead, freeListNext, out>>

-----------------------------------------------------------------------------
TryGet(t) ==
    /\ At(t, "idle") /\ Goto(t, "reload")
    /\ getting' = [getting EXCEPT ![t] = TRUE]
    /\ UNCHANGED <<shared, out, node, head, next, seen>>

Reload(t) ==
    /\ At(t, "reload") /\ Goto(t, "refs")
    /\ head' = [head EXCEPT ![t] = freeListHead]
    /\ UNCHANGED <<shared, out, node, next, seen, getting>>

GetNothing(t) ==
    /\ At(t, "refs") /\ head[t] = NoNode
    /\ Goto(t, "idle") /\ getting' = [getting EXCEPT ![t] = FALSE]
    /\ UNCHANGED <<shared, out, node, head, next, seen>>

(* A node with count zero is not on the list: nothing to take here. *)
LoadRefs(t) ==
    /\ At(t, "refs") /\ head[t] # NoNode
    /\ LET word == freeListRefs[head[t]] IN
          IF word.count = 0 THEN Goto(t, "reload") /\ UNCHANGED seen
          ELSE Goto(t, "hold") /\ seen' = [seen EXCEPT ![t] = word]
    /\ UNCHANGED <<shared, out, node, head, next, getting>>

Hold(t) ==
    /\ At(t, "hold") /\ freeListRefs[head[t]] = seen[t]
    /\ freeListRefs' = [freeListRefs EXCEPT ![head[t]].count = @ + 1]
    /\ seen' = [seen EXCEPT ![t] = Word(FALSE, 0)] /\ Goto(t, "next")
    /\ UNCHANGED <<freeListHead, freeListNext, out, node, head, next, getting>>

HoldFails(t) ==
    /\ At(t, "hold") /\ freeListRefs[head[t]] # seen[t]
    /\ Goto(t, "reload") /\ seen' = [seen EXCEPT ![t] = Word(FALSE, 0)]
    /\ UNCHANGED <<shared, out, node, head, next, getting>>

LoadNext(t) ==
    /\ At(t, "next") /\ Goto(t, "pop")
    /\ next' = [next EXCEPT ![t] = freeListNext[head[t]]]
    /\ UNCHANGED <<shared, out, node, head, seen, getting>>

Pop(t) ==
    /\ At(t, "pop") /\ freeListHead = head[t]
    /\ freeListHead' = next[t] /\ Goto(t, "take")
    /\ next' = [next EXCEPT ![t] = NoNode]
    /\ UNCHANGED <<freeListRefs, freeListNext, out, node, head, seen, getting>>

(* Both references go, the list's and the thread's. *)
Take(t) ==
    /\ At(t, "take") /\ Goto(t, "idle")
    /\ freeListRefs' = [freeListRefs EXCEPT ![head[t]].count = @ - 2]
    /\ out' = out \cup {head[t]}
    /\ head' = [head EXCEPT ![t] = NoNode]
    /\ getting' = [getting EXCEPT ![t] = FALSE]
    /\ UNCHANGED <<freeListHead, freeListNext, node, next, seen>>

(* seeded bug: the node is not let go *)
PopFailsHolding(t) ==
    /\ At(t, "pop") /\ freeListHead # head[t]
    /\ head' = [head EXCEPT ![t] = freeListHead]
    /\ next' = [next EXCEPT ![t] = NoNode] /\ Goto(t, "refs")
    /\ UNCHANGED <<shared, out, node, seen, getting>>

PopFails(t) ==
    /\ At(t, "pop") /\ freeListHead # head[t]
    /\ node' = [node EXCEPT ![t] = head[t]]
    /\ head' = [head EXCEPT ![t] = freeListHead]
    /\ next' = [next EXCEPT ![t] = NoNode] /\ Goto(t, "release")
    /\ UNCHANGED <<shared, out, seen, getting>>

(* seeded bug: the mark is not looked at *)
ReleaseOnly(t) ==
    /\ At(t, "release")
    /\ freeListRefs' = [freeListRefs EXCEPT ![node[t]].count = @ - 1]
    /\ Return(t)
    /\ UNCHANGED <<freeListHead, freeListNext, out>>

(* The last one to look at a marked node has to put it on the list. *)
Release(t) ==
    /\ At(t, "release")
    /\ freeListRefs' = [freeListRefs EXCEPT ![node[t]].count = @ - 1]
    /\ IF freeListRefs[node[t]] = Word(TRUE, 1)
       THEN Goto(t, "link") /\ UNCHANGED locals
       ELSE Return(t)
    /\ UNCHANGED <<freeListHead, freeListNext, out>>

Next == \E t \in Threads :
    \/ \E n \in Nodes : Add(t, n)
    \/ LoadHead(t) \/ StoreNext(t) \/ StoreRefs(t) \/ Push(t) \/ PushFails(t)
    \/ Retreat(t)
    \/ TryGet(t) \/ Reload(t) \/ GetNothing(t) \/ LoadRefs(t)
    \/ Hold(t) \/ HoldFails(t) \/ LoadNext(t) \/ Pop(t) \/ Take(t) \/ PopFails(t) \/ Release(t)

Spec == Init /\ [][Next]_vars

-----------------------------------------------------------------------------
(* Where a node can be: s is the list that starts at the head.             *)
Stacks == UNION {[1 .. k -> Nodes] : k \in 0 .. Cardinality(Nodes)}

IsList(s) ==
    /\ \A i, j \in DOMAIN s : s[i] = s[j] => i = j
    /\ freeListHead = IF 1 \in DOMAIN s THEN s[1] ELSE NoNode
    /\ \A i \in DOMAIN s :
          freeListNext[s[i]] = IF i + 1 \in DOMAIN s THEN s[i + 1] ELSE NoNode

Listed(s) == {s[i] : i \in DOMAIN s}

Linking(t) == pc[t] \in {"link", "store", "count", "push", "retreat"}

InHands(t, n) == \/ At(t, "take") /\ head[t] = n
                 \/ Linking(t) /\ node[t] = n

Marked(n) == /\ freeListRefs[n].mark
             /\ \A t \in Threads : ~(Linking(t) /\ node[t] = n)

(* The threads that have counted themselves in on a node. *)
Looks(t, n) == \/ pc[t] \in {"next", "pop", "take"} /\ head[t] = n
               \/ At(t, "release") /\ node[t] = n

Lookers(n) == {t \in Threads : Looks(t, n)}

(* Type correctness of the shared words and the locals; the count never    *)
(* exceeds one per thread and one for the list.                            *)
TypeOK ==
    /\ freeListHead \in MaybeNode /\ freeListNext \in [Nodes -> MaybeNode]
    /\ freeListRefs \in
           [Nodes -> [mark : BOOLEAN, count : 0 .. Cardinality(Threads) + 1]]
    /\ out \subseteq Nodes
    /\ pc \in [Threads -> {"idle", "link", "store", "count", "push", "retreat",
                           "reload", "refs", "hold", "next", "pop", "take",
                           "release"}]
    /\ node \in [Threads -> MaybeNode] /\ head \in [Threads -> MaybeNode]
    /\ next \in [Threads -> MaybeNode] /\ getting \in [Threads -> BOOLEAN]
    /\ seen \in [Threads -> [mark : BOOLEAN, count : 0 .. Cardinality(Threads) + 1]]

(* No block is given out twice: a node is out, or on the list (which has   *)
(* no cycle), or in the hands of one thread, or marked to be added, and    *)
(* only one of these; that a node just taken is not marked is what the     *)
(* assertion in try_get() says.                                            *)
OwnedOnce ==
    \E s \in Stacks :
        /\ IsList(s)
        /\ \A n \in Nodes :
              /\ \A t, u \in Threads : InHands(t, n) /\ InHands(u, n) => t = u
              /\ n \in out => n \notin Listed(s)
              /\ n \in out \cup Listed(s) =>
                    ~Marked(n) /\ \A t \in Threads : ~InHands(t, n)
              /\ Marked(n) => \A t \in Threads : ~InHands(t, n)

(* No block is lost: a node nobody has is on the list, or a thread is      *)
(* about to put it there, or it is marked and somebody still looks at it,  *)
(* who will put it there.                                                  *)
NothingLost ==
    \E s \in Stacks :
        /\ IsList(s)
        /\ \A n \in Nodes :
              \/ n \in out \cup Listed(s)
              \/ \E t \in Threads : InHands(t, n)
              \/ Marked(n) /\ Lookers(n) # {}
=============================================================================
