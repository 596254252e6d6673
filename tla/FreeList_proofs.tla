--------------------------- MODULE FreeList_proofs ---------------------------
(***************************************************************************)
(* Proofs about FreeList, for every finite set of threads and of nodes.    *)
(***************************************************************************)
EXTENDS FreeList, FiniteSetTheorems, TLAPS

(* The node a thread links is not announced yet: its count is zero.        *)
Fresh(t) == pc[t] \in {"link", "store", "count"}

(* The list's own reference to a node: it is there from before the node is *)
(* pushed until after it was popped.                                       *)
Held(s, n) ==
    \/ n \in Listed(s)
    \/ \E t \in Threads : InHands(t, n) /\ ~Fresh(t)

(* What the locals of a thread say.  No next that a thread has read on the *)
(* way to the compare-and-swap is out of date: nobody stores into a node   *)
(* that somebody else has counted himself in on.                           *)
LocalInv ==
    \A t \in Threads :
        /\ Linking(t) \/ At(t, "release") => node[t] \in Nodes
        /\ pc[t] \in {"hold", "next", "pop", "take"} => head[t] \in Nodes
        /\ At(t, "hold") => seen[t].count > 0
        /\ pc[t] \in {"count", "push"} => freeListNext[node[t]] = next[t]
        /\ At(t, "pop") => freeListNext[head[t]] = next[t]

(* A node is at most in one place.                                         *)
PlaceInv(s) ==
    \A n \in Nodes :
        /\ \A t, u \in Threads : InHands(t, n) /\ InHands(u, n) => t = u
        /\ n \in out => n \notin Listed(s)
        /\ n \in out \cup Listed(s) => \A t \in Threads : ~InHands(t, n)

(* A node is marked exactly if it is nowhere yet: the thread that links it *)
(* has not announced it, or it waits for the last thread to let go.        *)
MarkInv(s) ==
    \A n \in Nodes :
        freeListRefs[n].mark <=> /\ n \notin out \cup Listed(s)
                                 /\ \A t \in Threads : InHands(t, n) => Fresh(t)

(* The count is the number of threads that look at the node, and one more  *)
(* if it is on the list.                                                   *)
CountInv(s) ==
    \A n \in Nodes :
        freeListRefs[n].count =
            Cardinality(Lookers(n)) + IF Held(s, n) THEN 1 ELSE 0

(* Nobody looks at a node that is being linked, somebody looks at one that *)
(* waits.                                                                  *)
WaitInv ==
    \A n \in Nodes :
        freeListRefs[n].mark =>
            (freeListRefs[n].count = 0 <=> \E t \in Threads : InHands(t, n))

(* The inductive invariant, with the list it is about.                     *)
ListInv(s) == IsList(s) /\ PlaceInv(s) /\ MarkInv(s) /\ CountInv(s)
IInv == TypeOK /\ LocalInv /\ WaitInv /\ \E s \in Stacks : ListInv(s)

-----------------------------------------------------------------------------
(* A step of one thread. *)
Moves(t) ==
    \/ \E n \in Nodes : Add(t, n)
    \/ LoadHead(t) \/ StoreNext(t) \/ StoreRefs(t) \/ Push(t) \/ PushFails(t)
    \/ Retreat(t)
    \/ TryGet(t) \/ Reload(t) \/ GetNothing(t) \/ LoadRefs(t)
    \/ Hold(t) \/ HoldFails(t) \/ LoadNext(t) \/ Pop(t) \/ Take(t) \/ PopFails(t) \/ Release(t)

PCs == {"idle", "link", "store", "count", "push", "retreat",
        "reload", "refs", "hold", "next", "pop", "take", "release"}

Counts == 0 .. Cardinality(Threads) + 1
Words == [mark : BOOLEAN, count : Int]

LocalsType ==
    /\ pc \in [Threads -> PCs]
    /\ node \in [Threads -> MaybeNode] /\ head \in [Threads -> MaybeNode]
    /\ next \in [Threads -> MaybeNode] /\ getting \in [Threads -> BOOLEAN]

SharedType ==
    /\ freeListHead \in MaybeNode /\ freeListNext \in [Nodes -> MaybeNode]
    /\ out \subseteq Nodes

(* The steps of t leave the locals of the other threads alone.             *)
LEMMA Others ==
    ASSUME LocalsType, seen \in [Threads -> Words], NEW t \in Threads, Moves(t)
    PROVE  \A u \in Threads \ {t} :
               /\ pc'[u] = pc[u] /\ node'[u] = node[u] /\ head'[u] = head[u]
               /\ next'[u] = next[u] /\ seen'[u] = seen[u]
  <1> USE DEF LocalsType
  <1>1. CASE \E n \in Nodes : Add(t, n)
    BY <1>1 DEF Add, Return, Goto, locals
  <1>2. CASE LoadHead(t)
    BY <1>2 DEF LoadHead, Goto, locals
  <1>3. CASE StoreNext(t)
    BY <1>3 DEF StoreNext, Goto, locals
  <1>4. CASE StoreRefs(t)
    BY <1>4 DEF StoreRefs, Goto, locals
  <1>5. CASE Push(t)
    BY <1>5 DEF Push, Return, Goto, locals
  <1>6. CASE PushFails(t)
    BY <1>6 DEF PushFails, Goto, locals
  <1>7. CASE Retreat(t)
    <2>1. CASE Goto(t, "store") /\ UNCHANGED locals
      BY <2>1 DEF Goto, locals
    <2>2. CASE Return(t)
      BY <2>2 DEF Return, Goto
    <2> QED
      BY <1>7, <2>1, <2>2 DEF Retreat
  <1>8. CASE TryGet(t)
    BY <1>8 DEF TryGet, Goto, locals
  <1>9. CASE Reload(t)
    BY <1>9 DEF Reload, Goto, locals
  <1>10. CASE GetNothing(t)
    BY <1>10 DEF GetNothing, Goto, locals
  <1>11. CASE LoadRefs(t)
    BY <1>11 DEF LoadRefs, Goto, locals
  <1>12. CASE Hold(t)
    BY <1>12 DEF Hold, Goto, locals
  <1>13. CASE HoldFails(t)
    BY <1>13 DEF HoldFails, Goto, locals
  <1>14. CASE LoadNext(t)
    BY <1>14 DEF LoadNext, Goto, locals
  <1>15. CASE Pop(t)
    BY <1>15 DEF Pop, Goto, locals
  <1>16. CASE Take(t)
    BY <1>16 DEF Take, Goto, locals
  <1>17. CASE PopFails(t)
    BY <1>17 DEF PopFails, Goto, locals
  <1>18. CASE Release(t)
    <2>1. CASE Goto(t, "link") /\ UNCHANGED locals
      BY <2>1 DEF Goto, locals
    <2>2. CASE Return(t)
      BY <2>2 DEF Return, Goto
    <2> QED
      BY <1>18, <2>1, <2>2 DEF Release
  <1> QED
    BY <1>1, <1>2, <1>3, <1>4, <1>5, <1>6, <1>7, <1>8, <1>9, <1>10, <1>11,
       <1>12, <1>13, <1>14, <1>15, <1>16, <1>17, <1>18
    DEF Moves

(* Every step keeps the types of the locals.                               *)
LEMMA LocalsTypeStep ==
    ASSUME LocalsType, SharedType, LocalInv, NEW t \in Threads, Moves(t)
    PROVE  LocalsType'
  <1> USE DEF LocalsType, SharedType, MaybeNode, PCs
  <1>1. CASE \E n \in Nodes : Add(t, n)
    BY <1>1 DEF Add, Return, Goto, At, Word, locals
  <1>2. CASE LoadHead(t)
    BY <1>2 DEF LoadHead, Goto, At, Word, locals
  <1>3. CASE StoreNext(t)
    BY <1>3 DEF StoreNext, Goto, At, Word, locals
  <1>4. CASE StoreRefs(t)
    BY <1>4 DEF StoreRefs, Goto, At, Word, locals
  <1>5. CASE Push(t)
    BY <1>5 DEF Push, Return, Goto, At, Word, locals
  <1>6. CASE PushFails(t)
    BY <1>6 DEF PushFails, Goto, At, Word, locals
  <1>7. CASE Retreat(t)
    BY <1>7 DEF Retreat, Return, Goto, At, Word, locals
  <1>8. CASE TryGet(t)
    BY <1>8 DEF TryGet, Goto, At, Word, locals
  <1>9. CASE Reload(t)
    BY <1>9 DEF Reload, Goto, At, Word, locals
  <1>10. CASE GetNothing(t)
    BY <1>10 DEF GetNothing, Goto, At, Word, locals
  <1>11. CASE LoadRefs(t)
    BY <1>11 DEF LoadRefs, Goto, At, Word, locals
  <1>12. CASE Hold(t)
    BY <1>12 DEF Hold, Goto, At, Word, locals
  <1>13. CASE HoldFails(t)
    BY <1>13 DEF HoldFails, Goto, At, Word, locals
  <1>14. CASE LoadNext(t)
    <2>1. head[t] \in Nodes
      BY <1>14 DEF LoadNext, LocalInv, At
    <2> QED
      BY <1>14, <2>1 DEF LoadNext, Goto, At
  <1>15. CASE Pop(t)
    BY <1>15 DEF Pop, Goto, At, Word, locals
  <1>16. CASE Take(t)
    BY <1>16 DEF Take, Goto, At, Word, locals
  <1>17. CASE PopFails(t)
    BY <1>17 DEF PopFails, Goto, At, Word, locals
  <1>18. CASE Release(t)
    BY <1>18 DEF Release, Return, Goto, At, Word, locals
  <1> QED
    BY <1>1, <1>2, <1>3, <1>4, <1>5, <1>6, <1>7, <1>8, <1>9, <1>10, <1>11,
       <1>12, <1>13, <1>14, <1>15, <1>16, <1>17, <1>18
    DEF Moves

(* Every step keeps the types of the head, the links and the owners.       *)
LEMMA SharedTypeStep ==
    ASSUME LocalsType, SharedType, LocalInv, NEW t \in Threads, Moves(t)
    PROVE  SharedType'
  <1> USE DEF LocalsType, SharedType, MaybeNode, LocalInv, Linking
  <1>1. CASE \E n \in Nodes : Add(t, n)
    BY <1>1 DEF Add, Return, Goto, At, shared, locals
  <1>2. CASE LoadHead(t)
    BY <1>2 DEF LoadHead, Goto, At, shared, locals
  <1>3. CASE StoreNext(t)
    BY <1>3 DEF StoreNext, Goto, At, shared, locals
  <1>4. CASE StoreRefs(t)
    BY <1>4 DEF StoreRefs, Goto, At, shared, locals
  <1>5. CASE Push(t)
    BY <1>5 DEF Push, Return, Goto, At, shared, locals
  <1>6. CASE PushFails(t)
    BY <1>6 DEF PushFails, Goto, At, shared, locals
  <1>7. CASE Retreat(t)
    BY <1>7 DEF Retreat, Return, Goto, At, shared, locals
  <1>8. CASE TryGet(t)
    BY <1>8 DEF TryGet, Goto, At, shared, locals
  <1>9. CASE Reload(t)
    BY <1>9 DEF Reload, Goto, At, shared, locals
  <1>10. CASE GetNothing(t)
    BY <1>10 DEF GetNothing, Goto, At, shared, locals
  <1>11. CASE LoadRefs(t)
    BY <1>11 DEF LoadRefs, Goto, At, shared, locals
  <1>12. CASE Hold(t)
    BY <1>12 DEF Hold, Goto, At, shared, locals
  <1>13. CASE HoldFails(t)
    BY <1>13 DEF HoldFails, Goto, At, shared, locals
  <1>14. CASE LoadNext(t)
    BY <1>14 DEF LoadNext, Goto, At, shared, locals
  <1>15. CASE Pop(t)
    BY <1>15 DEF Pop, Goto, At, shared, locals
  <1>16. CASE Take(t)
    BY <1>16 DEF Take, Goto, At, shared, locals
  <1>17. CASE PopFails(t)
    BY <1>17 DEF PopFails, Goto, At, shared, locals
  <1>18. CASE Release(t)
    BY <1>18 DEF Release, Return, Goto, At, shared, locals
  <1> QED
    BY <1>1, <1>2, <1>3, <1>4, <1>5, <1>6, <1>7, <1>8, <1>9, <1>10, <1>11,
       <1>12, <1>13, <1>14, <1>15, <1>16, <1>17, <1>18
    DEF Moves

(* Every step leaves words with a mark and a count, of whatever size.      *)
LEMMA WordsStep ==
    ASSUME LocalsType, LocalInv, freeListRefs \in [Nodes -> Words], out \subseteq Nodes,
           NEW t \in Threads, Moves(t)
    PROVE  freeListRefs' \in [Nodes -> Words]
  <1> USE DEF LocalsType, Words, LocalInv, Linking
  <1>1. CASE \E n \in Nodes : Add(t, n)
    <2> PICK n \in Nodes : Add(t, n)
      BY <1>1
    <2>1. [freeListRefs[n] EXCEPT !.mark = ~@] \in Words
      BY DEF Words
    <2>2. freeListRefs' = [freeListRefs EXCEPT ![n] = [freeListRefs[n] EXCEPT !.mark = ~@]]
      BY DEF Add
    <2> HIDE DEF Words
    <2> QED
      BY <2>1, <2>2
  <1>2. CASE LoadHead(t)
    BY <1>2 DEF LoadHead, Goto, shared, locals, Word, At
  <1>3. CASE StoreNext(t)
    BY <1>3 DEF StoreNext, Goto, shared, locals, Word, At
  <1>4. CASE StoreRefs(t)
    BY <1>4 DEF StoreRefs, Goto, shared, locals, Word, At
  <1>5. CASE Push(t)
    BY <1>5 DEF Push, Return, Goto, shared, locals, Word, At
  <1>6. CASE PushFails(t)
    BY <1>6 DEF PushFails, Goto, shared, locals, Word, At
  <1>7. CASE Retreat(t)
    BY <1>7 DEF Retreat, Return, Goto, shared, locals, Word, At
  <1>8. CASE TryGet(t)
    BY <1>8 DEF TryGet, Goto, shared, locals, Word, At
  <1>9. CASE Reload(t)
    BY <1>9 DEF Reload, Goto, shared, locals, Word, At
  <1>10. CASE GetNothing(t)
    BY <1>10 DEF GetNothing, Goto, shared, locals, Word, At
  <1>11. CASE LoadRefs(t)
    BY <1>11 DEF LoadRefs, Goto, shared, locals, Word, At
  <1>12. CASE Hold(t)
    BY <1>12 DEF Hold, Goto, shared, locals, Word, At
  <1>13. CASE HoldFails(t)
    BY <1>13 DEF HoldFails, Goto, shared, locals, Word, At
  <1>14. CASE LoadNext(t)
    BY <1>14 DEF LoadNext, Goto, shared, locals, Word, At
  <1>15. CASE Pop(t)
    BY <1>15 DEF Pop, Goto, shared, locals, Word, At
  <1>16. CASE Take(t)
    BY <1>16 DEF Take, Goto, shared, locals, Word, At
  <1>17. CASE PopFails(t)
    BY <1>17 DEF PopFails, Goto, shared, locals, Word, At
  <1>18. CASE Release(t)
    BY <1>18 DEF Release, Return, Goto, shared, locals, Word, At
  <1> QED
    BY <1>1, <1>2, <1>3, <1>4, <1>5, <1>6, <1>7, <1>8, <1>9, <1>10, <1>11,
       <1>12, <1>13, <1>14, <1>15, <1>16, <1>17, <1>18
    DEF Moves

-----------------------------------------------------------------------------
(* What the steps of t mean for the other threads' hold on the nodes.      *)
LEMMA OthersHands ==
    ASSUME LocalsType, seen \in [Threads -> Words], NEW t \in Threads, Moves(t)
    PROVE  \A u \in Threads \ {t} :
               /\ Fresh(u)' <=> Fresh(u)
               /\ \A n \in Nodes : /\ InHands(u, n)' <=> InHands(u, n)
                                   /\ Looks(u, n)' <=> Looks(u, n)
  BY Others DEF Fresh, InHands, Looks, Linking, At

(* As many lookers as threads at most.                                     *)
LEMMA LookersFinite ==
    ASSUME NEW n
    PROVE  /\ IsFiniteSet(Lookers(n)) /\ Cardinality(Lookers(n)) \in Nat
           /\ Cardinality(Lookers(n)) <= Cardinality(Threads)
           /\ Cardinality(Lookers(n)) = 0 <=> Lookers(n) = {}
  <1>1. Lookers(n) \subseteq Threads
    BY DEF Lookers
  <1>2. IsFiniteSet(Lookers(n)) /\ Cardinality(Lookers(n)) <= Cardinality(Threads)
    BY <1>1, FS_Subset, FreeListAssumption
  <1> QED
    BY <1>2, FS_CardinalityType, FS_EmptySet

(* How the number of lookers changes with the one thread that moves.       *)
LEMMA LookersChange ==
    ASSUME NEW t \in Threads, NEW n \in Nodes,
           \A u \in Threads \ {t} : Looks(u, n)' <=> Looks(u, n)
    PROVE  /\ (Looks(t, n)' <=> Looks(t, n)) =>
                  Cardinality(Lookers(n)') = Cardinality(Lookers(n))
           /\ (Looks(t, n)' /\ ~Looks(t, n)) =>
                  Cardinality(Lookers(n)') = Cardinality(Lookers(n)) + 1
           /\ (~Looks(t, n)' /\ Looks(t, n)) =>
                  Cardinality(Lookers(n)') = Cardinality(Lookers(n)) - 1
  <1>1. ASSUME Looks(t, n)' <=> Looks(t, n)
        PROVE  Lookers(n)' = Lookers(n)
    BY <1>1 DEF Lookers
  <1>2. ASSUME Looks(t, n)', ~Looks(t, n)
        PROVE  Cardinality(Lookers(n)') = Cardinality(Lookers(n)) + 1
    <2>1. Lookers(n)' = Lookers(n) \cup {t} /\ t \notin Lookers(n)
      BY <1>2 DEF Lookers
    <2> QED
      BY <2>1, LookersFinite, FS_AddElement
  <1>3. ASSUME ~Looks(t, n)', Looks(t, n)
        PROVE  Cardinality(Lookers(n)') = Cardinality(Lookers(n)) - 1
    <2>1. Lookers(n)' = Lookers(n) \ {t} /\ t \in Lookers(n)
      BY <1>3 DEF Lookers
    <2> QED
      BY <2>1, LookersFinite, FS_RemoveElement
  <1> QED
    BY <1>1, <1>2, <1>3

(* The count of a node bounds from above, and tells whether anybody looks. *)
LEMMA CountMeans ==
    ASSUME NEW s, CountInv(s), NEW n \in Nodes
    PROVE  /\ freeListRefs[n].count \in Counts
           /\ freeListRefs[n].count = 0 => Lookers(n) = {} /\ ~Held(s, n)
           /\ \A t \in Threads : Looks(t, n) => freeListRefs[n].count > 0
           /\ Held(s, n) => freeListRefs[n].count > 0
  <1>1. freeListRefs[n].count = Cardinality(Lookers(n)) + IF Held(s, n) THEN 1 ELSE 0
    BY DEF CountInv
  <1>2. Cardinality(Threads) \in Nat
    BY FreeListAssumption, FS_CardinalityType
  <1>3. \A t \in Threads : Looks(t, n) => Lookers(n) # {}
    BY DEF Lookers
  <1> QED
    BY <1>1, <1>2, <1>3, LookersFinite DEF Counts

(* Nobody looks at a node that is not announced yet.                       *)
LEMMA FreshAlone ==
    ASSUME NEW s \in Stacks, ListInv(s), WaitInv, LocalInv,
           NEW t \in Threads, Fresh(t)
    PROVE  /\ node[t] \in Nodes /\ InHands(t, node[t])
           /\ freeListRefs[node[t]].mark /\ freeListRefs[node[t]].count = 0
           /\ \A u \in Threads : ~Looks(u, node[t])
           /\ \A u \in Threads : InHands(u, node[t]) => u = t
           /\ node[t] \notin out \cup Listed(s)
  <1>1. node[t] \in Nodes /\ InHands(t, node[t])
    BY DEF LocalInv, Linking, Fresh, InHands
  <1>2. /\ \A u \in Threads : InHands(u, node[t]) => u = t
        /\ node[t] \notin out \cup Listed(s)
    BY <1>1 DEF ListInv, PlaceInv
  <1>3. freeListRefs[node[t]].mark
    BY <1>1, <1>2 DEF ListInv, MarkInv
  <1>4. freeListRefs[node[t]].count = 0
    BY <1>1, <1>3 DEF WaitInv
  <1> QED
    BY <1>1, <1>2, <1>3, <1>4, CountMeans DEF ListInv, Lookers

-----------------------------------------------------------------------------
(* No step but one writes a link.                                          *)
LEMMA LinksStay ==
    ASSUME NEW t \in Threads, Moves(t), ~StoreNext(t)
    PROVE  freeListNext' = freeListNext
  BY DEF Moves, Add, LoadHead, StoreRefs, Push, PushFails, Retreat, TryGet, Reload,
         GetNothing, LoadRefs, Hold, HoldFails, LoadNext, Pop, Take, PopFails, Release,
         shared

CountedWords == [mark : BOOLEAN, count : Counts]

(* TypeOK, in the parts that are proved one by one.                        *)
LEMMA Typing ==
    /\ TypeOK <=> /\ LocalsType /\ SharedType
                  /\ freeListRefs \in [Nodes -> CountedWords]
                  /\ seen \in [Threads -> CountedWords]
    /\ CountedWords \subseteq Words /\ 0 \in Counts
  <1>1. Cardinality(Threads) \in Nat
    BY FreeListAssumption, FS_CardinalityType
  <1>2. CountedWords \subseteq Words /\ 0 \in Counts
    BY <1>1 DEF CountedWords, Words, Counts
  <1> QED
    BY <1>2, Zenon DEF TypeOK, LocalsType, SharedType, CountedWords, Counts, PCs

(* A word that was read is a word as it can be.                            *)
LEMMA SeenStep ==
    ASSUME TypeOK, LocalInv, NEW t \in Threads, Moves(t)
    PROVE  seen' \in [Threads -> CountedWords]
  <1>1. /\ seen \in [Threads -> CountedWords] /\ freeListRefs \in [Nodes -> CountedWords]
        /\ head \in [Threads -> MaybeNode]
    BY Typing DEF LocalsType
  <1>2. Word(FALSE, 0) \in CountedWords
    BY Typing DEF CountedWords, Word
  <1>3. CASE LoadRefs(t)
    <2>1. head[t] \in Nodes
      BY <1>1, <1>3 DEF LoadRefs, MaybeNode
    <2>2. seen' = seen \/ seen' = [seen EXCEPT ![t] = freeListRefs[head[t]]]
      BY <1>3, Zenon DEF LoadRefs
    <2> QED
      BY <1>1, <2>1, <2>2
  <1>4. CASE ~LoadRefs(t)
    <2>1. seen' = seen \/ seen' = [seen EXCEPT ![t] = Word(FALSE, 0)]
      BY <1>4, Zenon
      DEF Moves, Add, LoadHead, StoreNext, StoreRefs, Push, PushFails, Retreat,
          TryGet, Reload, GetNothing, Hold, HoldFails, LoadNext, Pop, Take,
          PopFails, Release, locals, Return
    <2> QED
      BY <1>1, <1>2, <2>1
  <1> QED
    BY <1>3, <1>4

(* What the locals of the others say stays true, whatever t does: a link   *)
(* is written only in a node nobody else looks at or links.                *)
LEMMA OthersLocalStep ==
    ASSUME TypeOK, LocalInv, WaitInv, NEW s \in Stacks, ListInv(s),
           NEW t \in Threads, Moves(t), NEW u \in Threads \ {t}
    PROVE  /\ Linking(u)' \/ At(u, "release")' => node'[u] \in Nodes
           /\ pc'[u] \in {"hold", "next", "pop", "take"} => head'[u] \in Nodes
           /\ At(u, "hold")' => seen'[u].count > 0
           /\ pc'[u] \in {"count", "push"} => freeListNext'[node'[u]] = next'[u]
           /\ At(u, "pop")' => freeListNext'[head'[u]] = next'[u]
  <1>1. /\ pc'[u] = pc[u] /\ node'[u] = node[u] /\ head'[u] = head[u]
        /\ next'[u] = next[u] /\ seen'[u] = seen[u]
    <2>1. seen \in [Threads -> Words]
      BY Typing
    <2> QED
      BY <2>1, Typing, Others
  <1>2. /\ pc[u] \in {"count", "push"} => freeListNext'[node[u]] = freeListNext[node[u]]
        /\ At(u, "pop") => freeListNext'[head[u]] = freeListNext[head[u]]
    <2>1. CASE StoreNext(t)
      <3>1. Fresh(t) /\ freeListNext' = [freeListNext EXCEPT ![node[t]] = next[t]]
        BY <2>1 DEF StoreNext, Fresh, At
      <3>2. pc[u] \in {"count", "push"} => node[u] \in Nodes /\ node[u] # node[t]
        <4>1. pc[u] \in {"count", "push"} => InHands(u, node[u]) /\ node[u] \in Nodes
          BY DEF InHands, Linking, LocalInv
        <4> QED
          BY <3>1, <4>1, FreshAlone
      <3>3. At(u, "pop") => head[u] \in Nodes /\ head[u] # node[t]
        <4>1. At(u, "pop") => Looks(u, head[u]) /\ head[u] \in Nodes
          BY DEF At, Looks, LocalInv
        <4> QED
          BY <3>1, <4>1, FreshAlone
      <3>4. freeListNext \in [Nodes -> MaybeNode]
        BY Typing DEF SharedType
      <3> QED
        BY <3>1, <3>2, <3>3, <3>4
    <2>2. CASE ~StoreNext(t)
      BY <2>2, LinksStay
    <2> QED
      BY <2>1, <2>2
  <1> QED
    BY <1>1, <1>2 DEF LocalInv, Linking, At

(* A call that is over has no node in its hands. *)
LEMMA Returned ==
    ASSUME LocalsType, NEW t \in Threads, Return(t)
    PROVE  /\ pc'[t] \in {"idle", "refs"} /\ ~Fresh(t)'
           /\ \A n \in Nodes : ~InHands(t, n)' /\ ~Looks(t, n)'
  <1>1. pc'[t] \in {"idle", "refs"}
    BY DEF Return, Goto, LocalsType
  <1> QED
    BY <1>1 DEF Fresh, InHands, Looks, Linking, At

(* What the locals of t say after a step of its own. *)
LEMMA OwnLocalStep ==
    ASSUME TypeOK, LocalInv, NEW t \in Threads, Moves(t)
    PROVE  /\ Linking(t)' \/ At(t, "release")' => node'[t] \in Nodes
           /\ pc'[t] \in {"hold", "next", "pop", "take"} => head'[t] \in Nodes
           /\ At(t, "hold")' => seen'[t].count > 0
           /\ pc'[t] \in {"count", "push"} => freeListNext'[node'[t]] = next'[t]
           /\ At(t, "pop")' => freeListNext'[head'[t]] = next'[t]
  <1>0. /\ LocalsType /\ SharedType
        /\ freeListRefs \in [Nodes -> CountedWords] /\ seen \in [Threads -> CountedWords]
    BY Typing
  <1> USE DEF LocalsType, SharedType, LocalInv, Linking, At, MaybeNode, PCs
  <1>1. CASE \E n \in Nodes : Add(t, n)
    <2> PICK n \in Nodes : Add(t, n)
      BY <1>1
    <2>1. CASE Return(t)
      BY <1>0, <2>1, Returned DEF Fresh
    <2>2. CASE node' = [node EXCEPT ![t] = n] /\ Goto(t, "link")
      BY <1>0, <2>2 DEF Goto
    <2> QED
      BY <2>1, <2>2 DEF Add
  <1>2. CASE LoadHead(t)
    BY <1>0, <1>2 DEF LoadHead, Goto, locals, shared
  <1>3. CASE StoreNext(t)
    BY <1>0, <1>3 DEF StoreNext, Goto, locals, shared
  <1>4. CASE StoreRefs(t)
    BY <1>0, <1>4 DEF StoreRefs, Goto, locals, shared
  <1>5. CASE Push(t)
    BY <1>0, <1>5 DEF Push, Return, Goto, locals, shared
  <1>6. CASE PushFails(t)
    BY <1>0, <1>6 DEF PushFails, Goto, locals, shared
  <1>7. CASE Retreat(t)
    <2>1. CASE Return(t)
      BY <1>0, <2>1, Returned DEF Fresh
    <2>2. CASE Goto(t, "store") /\ UNCHANGED locals
      BY <1>0, <1>7, <2>2 DEF Retreat, Goto, locals
    <2> QED
      BY <1>7, <2>1, <2>2 DEF Retreat
  <1>8. CASE TryGet(t)
    BY <1>0, <1>8 DEF TryGet, Goto, locals, shared
  <1>9. CASE Reload(t)
    BY <1>0, <1>9 DEF Reload, Goto, locals, shared
  <1>10. CASE GetNothing(t)
    BY <1>0, <1>10 DEF GetNothing, Goto, locals, shared
  <1>11. CASE LoadRefs(t)
    <2>1. /\ head[t] \in Nodes /\ head' = head
          /\ freeListRefs[head[t]].count \in Nat
      BY <1>0, <1>11 DEF LoadRefs, CountedWords, Counts
    <2>2. CASE freeListRefs[head[t]].count = 0
      BY <1>0, <1>11, <2>2 DEF LoadRefs, Goto
    <2>3. CASE freeListRefs[head[t]].count # 0
      BY <1>0, <1>11, <2>1, <2>3 DEF LoadRefs, Goto
    <2> QED
      BY <2>2, <2>3
  <1>12. CASE Hold(t)
    BY <1>0, <1>12 DEF Hold, Goto, locals, shared
  <1>13. CASE HoldFails(t)
    BY <1>0, <1>13 DEF HoldFails, Goto, locals, shared
  <1>14. CASE LoadNext(t)
    BY <1>0, <1>14 DEF LoadNext, Goto, locals, shared
  <1>15. CASE Pop(t)
    BY <1>0, <1>15 DEF Pop, Goto, locals, shared
  <1>16. CASE Take(t)
    BY <1>0, <1>16 DEF Take, Goto, locals, shared
  <1>17. CASE PopFails(t)
    BY <1>0, <1>17 DEF PopFails, Goto, locals, shared
  <1>18. CASE Release(t)
    <2>1. CASE Return(t)
      BY <1>0, <2>1, Returned DEF Fresh
    <2>2. CASE Goto(t, "link") /\ UNCHANGED locals
      BY <1>0, <1>18, <2>2 DEF Release, Goto, locals
    <2> QED
      BY <1>18, <2>1, <2>2 DEF Release
  <1> QED
    BY <1>1, <1>2, <1>3, <1>4, <1>5, <1>6, <1>7, <1>8, <1>9, <1>10, <1>11,
       <1>12, <1>13, <1>14, <1>15, <1>16, <1>17, <1>18
    DEF Moves

-----------------------------------------------------------------------------
(* Which steps of a thread leave every node where it is.                   *)
Looking(t) == \/ LoadHead(t) \/ StoreNext(t) \/ PushFails(t) \/ TryGet(t) \/ Reload(t)
              \/ GetNothing(t) \/ LoadRefs(t) \/ HoldFails(t) \/ LoadNext(t) \/ PopFails(t)

(* They change neither words nor owners, nor who looks at what.            *)
LEMMA LookingMeans ==
    ASSUME TypeOK, NEW t \in Threads, Looking(t)
    PROVE  /\ UNCHANGED <<freeListHead, freeListRefs, out>>
           /\ Fresh(t)' <=> Fresh(t)
           /\ \A n \in Nodes : /\ InHands(t, n)' <=> InHands(t, n)
                               /\ Looks(t, n)' <=> Looks(t, n)
  <1>0. LocalsType
    BY Typing
  <1>1. UNCHANGED <<freeListHead, freeListRefs, out>>
    BY DEF Looking, LoadHead, StoreNext, PushFails, TryGet, Reload, GetNothing,
           LoadRefs, HoldFails, LoadNext, PopFails, shared
  <1> USE DEF LocalsType, Fresh, InHands, Looks, Linking, At, Goto, locals
  <1>2. CASE LoadHead(t)
    BY <1>0, <1>1, <1>2 DEF LoadHead
  <1>3. CASE StoreNext(t)
    BY <1>0, <1>1, <1>3 DEF StoreNext
  <1>4. CASE PushFails(t)
    BY <1>0, <1>1, <1>4 DEF PushFails
  <1>5. CASE TryGet(t)
    BY <1>0, <1>1, <1>5 DEF TryGet
  <1>6. CASE Reload(t)
    BY <1>0, <1>1, <1>6 DEF Reload
  <1>7. CASE GetNothing(t)
    BY <1>0, <1>1, <1>7 DEF GetNothing
  <1>8. CASE LoadRefs(t)
    BY <1>0, <1>1, <1>8 DEF LoadRefs
  <1>9. CASE HoldFails(t)
    BY <1>0, <1>1, <1>9 DEF HoldFails
  <1>10. CASE LoadNext(t)
    BY <1>0, <1>1, <1>10 DEF LoadNext
  <1>11. CASE PopFails(t)
    BY <1>0, <1>1, <1>11 DEF PopFails
  <1> QED
    BY <1>2, <1>3, <1>4, <1>5, <1>6, <1>7, <1>8, <1>9, <1>10, <1>11 DEF Looking

(* So they keep the invariant: the only link they write is that of a node  *)
(* which is not on the list.                                               *)
LEMMA LookingStep ==
    ASSUME TypeOK, LocalInv, WaitInv, NEW s \in Stacks, ListInv(s),
           NEW t \in Threads, Moves(t), Looking(t)
    PROVE  WaitInv' /\ ListInv(s)'
  <1>1. \A u \in Threads :
            /\ Fresh(u)' <=> Fresh(u)
            /\ \A n \in Nodes : /\ InHands(u, n)' <=> InHands(u, n)
                                /\ Looks(u, n)' <=> Looks(u, n)
    BY LookingMeans, OthersHands, Typing
  <1>2. UNCHANGED <<freeListHead, freeListRefs, out>>
    BY LookingMeans
  <1>3. WaitInv'
    BY <1>1, <1>2 DEF WaitInv
  <1>4. PlaceInv(s)' /\ MarkInv(s)'
    BY <1>1, <1>2 DEF ListInv, PlaceInv, MarkInv, Listed
  <1>5. CountInv(s)'
    <2>1. \A n \in Nodes : Lookers(n)' = Lookers(n)
      BY <1>1 DEF Lookers
    <2>2. \A n \in Nodes : Held(s, n)' <=> Held(s, n)
      BY <1>1 DEF Held, Listed
    <2> QED
      BY <1>2, <2>1, <2>2 DEF ListInv, CountInv
  <1>6. IsList(s)'
    <2>1. \A i \in DOMAIN s : s[i] \in Nodes /\ s[i] \in Listed(s)
      BY DEF Stacks, Listed
    <2>2. \A i \in DOMAIN s : freeListNext'[s[i]] = freeListNext[s[i]]
      <3>1. CASE StoreNext(t)
        <4>1. Fresh(t) /\ freeListNext' = [freeListNext EXCEPT ![node[t]] = next[t]]
          BY <3>1 DEF StoreNext, Fresh, At
        <4>2. \A i \in DOMAIN s : s[i] # node[t]
          BY <2>1, <4>1, FreshAlone
        <4> QED
          BY <2>1, <4>1, <4>2, Typing DEF SharedType
      <3>2. CASE ~StoreNext(t)
        BY <3>2, LinksStay
      <3> QED
        BY <3>1, <3>2
    <2> QED
      BY <1>2, <2>1, <2>2 DEF ListInv, IsList
  <1> QED
    BY <1>3, <1>4, <1>5, <1>6 DEF ListInv

-----------------------------------------------------------------------------
(* add(): the node is linked at once, or waits for those who look at it.   *)
LEMMA AddStep ==
    ASSUME TypeOK, LocalInv, WaitInv, NEW s \in Stacks, ListInv(s),
           NEW t \in Threads, NEW n \in Nodes, Add(t, n)
    PROVE  WaitInv' /\ ListInv(s)'
  <1>0. /\ LocalsType /\ freeListRefs \in [Nodes -> Words] /\ seen \in [Threads -> Words]
        /\ Moves(t) /\ out \subseteq Nodes
    BY Typing DEF Moves, SharedType
  <1>1. At(t, "idle") /\ n \in out /\ out' = out \ {n} /\ UNCHANGED <<freeListHead, freeListNext>>
    BY DEF Add
  <1>2. /\ ~Fresh(t) /\ \A m \in Nodes : ~InHands(t, m) /\ ~Looks(t, m)
    BY <1>1 DEF Fresh, InHands, Looks, Linking, At
  <1>3. \A u \in Threads \ {t} :
            /\ Fresh(u)' <=> Fresh(u)
            /\ \A m \in Nodes : /\ InHands(u, m)' <=> InHands(u, m)
                                /\ Looks(u, m)' <=> Looks(u, m)
    BY <1>0, OthersHands
  <1>4. /\ ~freeListRefs[n].mark /\ n \notin Listed(s) /\ ~Held(s, n)
        /\ \A u \in Threads : ~InHands(u, n)
    BY <1>1 DEF ListInv, MarkInv, PlaceInv, Held
  <1>5. /\ freeListRefs'[n].mark
        /\ \A m \in Nodes \ {n} : freeListRefs'[m] = freeListRefs[m]
        /\ \A m \in Nodes : freeListRefs'[m].count = freeListRefs[m].count
    BY <1>0, <1>4 DEF Add, Words
  <1>6. /\ ~Looks(t, n)' /\ \A m \in Nodes : ~Looks(t, m)'
        /\ \/ /\ freeListRefs[n].count = 0 /\ Fresh(t)'
              /\ \A m \in Nodes : InHands(t, m)' <=> m = n
           \/ /\ freeListRefs[n].count # 0 /\ ~Fresh(t)'
              /\ \A m \in Nodes : ~InHands(t, m)'
    <2>1. CASE freeListRefs[n] = Word(FALSE, 0)
      <3>1. pc' = [pc EXCEPT ![t] = "link"] /\ node' = [node EXCEPT ![t] = n]
        BY <2>1 DEF Add, Goto
      <3>2. pc'[t] = "link" /\ node'[t] = n
        BY <1>0, <3>1 DEF LocalsType
      <3>3. freeListRefs[n].count = 0
        BY <2>1 DEF Word
      <3> QED
        BY <3>2, <3>3 DEF Fresh, InHands, Looks, Linking, At
    <2>2. CASE freeListRefs[n] # Word(FALSE, 0)
      <3>1. freeListRefs[n].count # 0
        <4>1. freeListRefs[n] \in Words
          BY <1>0
        <4>2. freeListRefs[n].mark = FALSE
          BY <1>4, <4>1 DEF Words
        <4> QED
          BY <2>2, <4>1, <4>2 DEF Words, Word
      <3>2. Return(t)
        BY <2>2 DEF Add
      <3> QED
        BY <1>0, <3>1, <3>2, Returned
    <2> QED
      BY <2>1, <2>2
  <1>7. WaitInv'
    <2>1. \A m \in Nodes \ {n} :
            (\E u \in Threads : InHands(u, m)') <=> \E u \in Threads : InHands(u, m)
      BY <1>2, <1>3, <1>6
    <2>2. (\E u \in Threads : InHands(u, n)') <=> freeListRefs[n].count = 0
      BY <1>3, <1>4, <1>6
    <2> QED
      BY <1>5, <2>1, <2>2 DEF WaitInv
  <1>8. PlaceInv(s)'
    BY <1>1, <1>2, <1>3, <1>4, <1>6 DEF ListInv, PlaceInv, Listed
  <1>9. MarkInv(s)'
    BY <1>1, <1>2, <1>3, <1>4, <1>5, <1>6 DEF ListInv, MarkInv, Listed
  <1>10. CountInv(s)'
    <2>1. \A m \in Nodes : Cardinality(Lookers(m)') = Cardinality(Lookers(m))
      BY <1>2, <1>3, <1>6, LookersChange
    <2>2. \A m \in Nodes : Held(s, m)' <=> Held(s, m)
      BY <1>2, <1>3, <1>4, <1>6 DEF Held, Listed
    <2> QED
      BY <1>5, <2>1, <2>2 DEF ListInv, CountInv
  <1>11. IsList(s)'
    BY <1>1 DEF ListInv, IsList
  <1> QED
    BY <1>7, <1>8, <1>9, <1>10, <1>11 DEF ListInv

(* The store of 1: the node is announced before it is pushed.              *)
LEMMA StoreRefsStep ==
    ASSUME TypeOK, LocalInv, WaitInv, NEW s \in Stacks, ListInv(s),
           NEW t \in Threads, StoreRefs(t)
    PROVE  WaitInv' /\ ListInv(s)'
  <1> PICK n \in Nodes : n = node[t]
    BY DEF StoreRefs, LocalInv, Linking, At
  <1>0. /\ LocalsType /\ freeListRefs \in [Nodes -> Words] /\ seen \in [Threads -> Words]
        /\ Moves(t)
    BY Typing DEF Moves
  <1>1. Fresh(t) /\ UNCHANGED <<freeListHead, freeListNext, out, node, head>>
    BY DEF StoreRefs, Fresh, At, locals
  <1>2. pc[t] = "count" /\ pc'[t] = "push"
    BY <1>0 DEF StoreRefs, At, Goto, LocalsType
  <1>3. \A u \in Threads \ {t} :
            /\ Fresh(u)' <=> Fresh(u)
            /\ \A m \in Nodes : /\ InHands(u, m)' <=> InHands(u, m)
                                /\ Looks(u, m)' <=> Looks(u, m)
    BY <1>0, OthersHands
  <1>4. /\ n \in Nodes /\ freeListRefs[n].count = 0 /\ freeListRefs[n].mark
        /\ \A u \in Threads : ~Looks(u, n)
        /\ \A u \in Threads : InHands(u, n) => u = t
        /\ n \notin out \cup Listed(s)
    BY <1>1, FreshAlone
  <1>5. /\ ~freeListRefs'[n].mark /\ freeListRefs'[n].count = 1
        /\ \A m \in Nodes \ {n} : freeListRefs'[m] = freeListRefs[m]
    BY <1>0, <1>4 DEF StoreRefs, Word
  <1>6. /\ ~Fresh(t)' /\ InHands(t, n)
        /\ \A m \in Nodes : /\ ~Looks(t, m)' /\ ~Looks(t, m)
                            /\ InHands(t, m)' <=> InHands(t, m)
                            /\ InHands(t, m) <=> m = n
    BY <1>1, <1>2 DEF Fresh, InHands, Looks, Linking, At
  <1>7. WaitInv'
    BY <1>3, <1>5, <1>6 DEF WaitInv
  <1>8. PlaceInv(s)'
    BY <1>1, <1>3, <1>6 DEF ListInv, PlaceInv, Listed
  <1>9. MarkInv(s)'
    BY <1>1, <1>3, <1>5, <1>6 DEF ListInv, MarkInv, Listed
  <1>10. CountInv(s)'
    <2>1. \A m \in Nodes : Cardinality(Lookers(m)') = Cardinality(Lookers(m))
      BY <1>3, <1>6, LookersChange
    <2>2. \A m \in Nodes \ {n} : Held(s, m)' <=> Held(s, m)
      BY <1>3, <1>6 DEF Held, Listed
    <2>3. Held(s, n)' /\ ~Held(s, n)
      BY <1>1, <1>4, <1>6 DEF Held
    <2>4. Cardinality(Lookers(n)) = 0
      BY <1>4, LookersFinite DEF Lookers
    <2>5. freeListRefs'[n].count = Cardinality(Lookers(n)') + IF Held(s, n)' THEN 1 ELSE 0
      BY <1>4, <1>5, <2>1, <2>3, <2>4
    <2>6. \A m \in Nodes \ {n} :
             freeListRefs'[m].count = Cardinality(Lookers(m)') + IF Held(s, m)' THEN 1 ELSE 0
      BY <1>5, <2>1, <2>2 DEF ListInv, CountInv
    <2> QED
      BY <2>5, <2>6 DEF CountInv
  <1>11. IsList(s)'
    BY <1>1 DEF ListInv, IsList
  <1> QED
    BY <1>7, <1>8, <1>9, <1>10, <1>11 DEF ListInv

(* The list grows by the node of t at its head.                            *)
Pushed(n, s) == [i \in 1 .. Cardinality(DOMAIN s) + 1 |-> IF i = 1 THEN n ELSE s[i - 1]]

(* The list without its head. *)
Popped(s) == [i \in 1 .. Cardinality(DOMAIN s) - 1 |-> s[i + 1]]

(* A list without repetition is not longer than there are nodes.           *)
LEMMA StackLength ==
    ASSUME NEW k \in Nat, NEW s \in [1 .. k -> Nodes],
           \A i, j \in 1 .. k : s[i] = s[j] => i = j
    PROVE  s \in Stacks
  <1>1. s \in Injection(1 .. k, Nodes)
    BY DEF Injection, IsInjective
  <1>2. Cardinality(1 .. k) <= Cardinality(Nodes)
    BY <1>1, FS_Injection, FreeListAssumption
  <1>3. Cardinality(1 .. k) = k
    BY FS_Interval
  <1>4. k \in 0 .. Cardinality(Nodes)
    BY <1>2, <1>3, FS_CardinalityType, FreeListAssumption
  <1> QED
    BY <1>4 DEF Stacks

(* How long a list is.                                                     *)
LEMMA StackDomain ==
    ASSUME NEW s \in Stacks
    PROVE  \E k \in Nat : s \in [1 .. k -> Nodes] /\ Cardinality(DOMAIN s) = k
  <1>1. PICK k \in 0 .. Cardinality(Nodes) : s \in [1 .. k -> Nodes]
    BY DEF Stacks
  <1>2. k \in Nat /\ DOMAIN s = 1 .. k
    BY <1>1, FS_CardinalityType, FreeListAssumption
  <1>3. Cardinality(1 .. k) = k
    BY <1>2, FS_Interval
  <1> QED
    BY <1>1, <1>2, <1>3

(* What the compare-and-swap of add() makes of the list.                   *)
LEMMA PushedList ==
    ASSUME NEW s \in Stacks, IsList(s), NEW n \in Nodes, n \notin Listed(s),
           freeListNext[n] = freeListHead, freeListHead' = n, freeListNext' = freeListNext
    PROVE  /\ Pushed(n, s) \in Stacks /\ IsList(Pushed(n, s))'
           /\ Listed(Pushed(n, s)) = Listed(s) \cup {n}
  <1> DEFINE r == Pushed(n, s)
  <1>1. PICK k \in Nat : s \in [1 .. k -> Nodes] /\ Cardinality(DOMAIN s) = k
    BY StackDomain
  <1>2. r = [i \in 1 .. k + 1 |-> IF i = 1 THEN n ELSE s[i - 1]]
    BY <1>1 DEF Pushed
  <1>3. r \in [1 .. k + 1 -> Nodes] /\ DOMAIN r = 1 .. k + 1
    BY <1>1, <1>2
  <1>4. r[1] = n /\ \A i \in 1 .. k + 1 : i # 1 => i - 1 \in 1 .. k /\ r[i] = s[i - 1]
    BY <1>1, <1>2
  <1>5. \A i \in 1 .. k : s[i] # n /\ s[i] \in Nodes
    BY <1>1 DEF Listed
  <1> HIDE DEF r
  <1>6. \A i, j \in 1 .. k + 1 : r[i] = r[j] => i = j
    <2> SUFFICES ASSUME NEW i \in 1 .. k + 1, NEW j \in 1 .. k + 1, r[i] = r[j]
                 PROVE  i = j
      OBVIOUS
    <2>1. i = 1 <=> j = 1
      BY <1>4, <1>5
    <2>2. CASE i # 1
      <3>1. s[i - 1] = s[j - 1] /\ i - 1 \in 1 .. k /\ j - 1 \in 1 .. k
        BY <1>4, <2>1, <2>2
      <3>2. i - 1 = j - 1
        BY <1>1, <3>1 DEF IsList
      <3> QED
        BY <3>2
    <2> QED
      BY <2>1, <2>2
  <1>7. r \in Stacks
    BY <1>3, <1>6, StackLength
  <1>8. Listed(r) = Listed(s) \cup {n}
    <2>1. \A i \in 1 .. k : i + 1 \in 1 .. k + 1 /\ r[i + 1] = s[i]
      BY <1>4
    <2> QED
      BY <1>1, <1>3, <1>4, <2>1 DEF Listed
  <1>9. freeListNext[n] = IF 2 \in DOMAIN r THEN r[2] ELSE NoNode
    BY <1>1, <1>3, <1>4 DEF IsList
  <1>10. \A i \in 1 .. k + 1 : i # 1 =>
            freeListNext[r[i]] = IF i + 1 \in DOMAIN r THEN r[i + 1] ELSE NoNode
    <2> SUFFICES ASSUME NEW i \in 1 .. k + 1, i # 1
                 PROVE  freeListNext[r[i]] = IF i + 1 \in DOMAIN r THEN r[i + 1] ELSE NoNode
      OBVIOUS
    <2>1. i - 1 \in 1 .. k /\ r[i] = s[i - 1]
      BY <1>4
    <2>2. freeListNext[s[i - 1]] = IF i \in 1 .. k THEN s[i] ELSE NoNode
      BY <1>1, <2>1 DEF IsList
    <2>3. i \in 1 .. k <=> i + 1 \in 1 .. k + 1
      OBVIOUS
    <2>4. i + 1 \in 1 .. k + 1 => r[i + 1] = s[i]
      BY <1>4
    <2> QED
      BY <1>3, <2>1, <2>2, <2>3, <2>4
  <1>11. \A i \in DOMAIN r : freeListNext'[r[i]] = IF i + 1 \in DOMAIN r THEN r[i + 1] ELSE NoNode
    BY <1>3, <1>4, <1>9, <1>10
  <1>12. IsList(r)'
    BY <1>3, <1>4, <1>6, <1>11 DEF IsList
  <1> QED
    BY <1>7, <1>8, <1>12 DEF r

(* What the compare-and-swap of try_get() makes of the list.  That it is   *)
(* still the second node that becomes the head is LocalInv's.              *)
LEMMA PoppedList ==
    ASSUME NEW s \in Stacks, IsList(s), freeListHead # NoNode,
           freeListHead' = freeListNext[freeListHead], freeListNext' = freeListNext
    PROVE  /\ Popped(s) \in Stacks /\ IsList(Popped(s))'
           /\ freeListHead \in Listed(s)
           /\ Listed(Popped(s)) = Listed(s) \ {freeListHead}
  <1> DEFINE r == Popped(s)
  <1>1. PICK k \in Nat : s \in [1 .. k -> Nodes] /\ Cardinality(DOMAIN s) = k
    BY StackDomain
  <1>2. r = [i \in 1 .. k - 1 |-> s[i + 1]]
    BY <1>1 DEF Popped
  <1>3. 1 \in 1 .. k /\ freeListHead = s[1]
    BY <1>1 DEF IsList
  <1>4. /\ \A i \in 1 .. k - 1 : i + 1 \in 1 .. k
        /\ k - 1 \in Nat
    BY <1>3
  <1>5. /\ r \in [1 .. k - 1 -> Nodes] /\ DOMAIN r = 1 .. k - 1
        /\ \A i \in 1 .. k - 1 : r[i] = s[i + 1]
    BY <1>1, <1>2, <1>4
  <1>6. \A i, j \in 1 .. k : s[i] = s[j] => i = j
    BY <1>1 DEF IsList
  <1> HIDE DEF r
  <1>7. \A i, j \in 1 .. k - 1 : r[i] = r[j] => i = j
    <2> SUFFICES ASSUME NEW i \in 1 .. k - 1, NEW j \in 1 .. k - 1, r[i] = r[j]
                 PROVE  i = j
      OBVIOUS
    <2>1. i + 1 = j + 1
      BY <1>4, <1>5, <1>6
    <2> QED
      BY <2>1
  <1>8. r \in Stacks
    BY <1>4, <1>5, <1>7, StackLength
  <1>9. Listed(r) = Listed(s) \ {freeListHead}
    <2>1. Listed(s) = {s[i] : i \in 1 .. k} /\ Listed(r) = {r[i] : i \in 1 .. k - 1}
      BY <1>1, <1>5 DEF Listed
    <2>2. \A i \in 1 .. k - 1 : r[i] \in Listed(s) /\ r[i] # s[1]
      <3> SUFFICES ASSUME NEW i \in 1 .. k - 1 PROVE r[i] \in Listed(s) /\ r[i] # s[1]
        OBVIOUS
      <3>1. i + 1 \in 1 .. k /\ i + 1 # 1 /\ r[i] = s[i + 1]
        BY <1>5, <1>4
      <3> QED
        BY <3>1, <2>1, <1>3, <1>6
    <2>3. \A i \in 1 .. k : i # 1 => i - 1 \in 1 .. k - 1 /\ r[i - 1] = s[i]
      <3> SUFFICES ASSUME NEW i \in 1 .. k, i # 1 PROVE i - 1 \in 1 .. k - 1 /\ r[i - 1] = s[i]
        OBVIOUS
      <3>1. i - 1 \in 1 .. k - 1 /\ (i - 1) + 1 = i
        OBVIOUS
      <3> QED
        BY <3>1, <1>5
    <2> QED
      BY <1>3, <2>1, <2>2, <2>3
  <1>10. freeListHead' = IF 1 \in DOMAIN r THEN r[1] ELSE NoNode
    <2>1. freeListNext[s[1]] = IF 2 \in 1 .. k THEN s[2] ELSE NoNode
      BY <1>1, <1>3 DEF IsList
    <2>2. 2 \in 1 .. k <=> 1 \in 1 .. k - 1
      BY <1>4
    <2>3. 1 \in 1 .. k - 1 => r[1] = s[2]
      BY <1>5
    <2> QED
      BY <1>3, <1>5, <2>1, <2>2, <2>3
  <1>11. \A i \in DOMAIN r : freeListNext'[r[i]] = IF i + 1 \in DOMAIN r THEN r[i + 1] ELSE NoNode
    <2> SUFFICES ASSUME NEW i \in 1 .. k - 1
                 PROVE  freeListNext[r[i]] = IF i + 1 \in 1 .. k - 1 THEN r[i + 1] ELSE NoNode
      BY <1>5
    <2>1. freeListNext[s[i + 1]] = IF i + 2 \in 1 .. k THEN s[i + 2] ELSE NoNode
      <3>1. i + 1 \in DOMAIN s /\ (i + 1) + 1 = i + 2
        BY <1>1, <1>4
      <3> QED
        BY <1>1, <3>1 DEF IsList
    <2>2. i + 2 \in 1 .. k <=> i + 1 \in 1 .. k - 1
      BY <1>4
    <2>3. i + 1 \in 1 .. k - 1 => r[i + 1] = s[i + 2]
      <3>1. (i + 1) + 1 = i + 2
        OBVIOUS
      <3> QED
        BY <1>5, <3>1
    <2> QED
      BY <1>5, <2>1, <2>2, <2>3
  <1>12. IsList(r)'
    BY <1>5, <1>7, <1>10, <1>11 DEF IsList
  <1>13. freeListHead \in Listed(s)
    BY <1>1, <1>3 DEF Listed
  <1> QED
    BY <1>8, <1>9, <1>12, <1>13 DEF r

(* The node goes from the hands of t to the list.                          *)
LEMMA PushStep ==
    ASSUME TypeOK, LocalInv, WaitInv, NEW s \in Stacks, ListInv(s),
           NEW t \in Threads, Push(t)
    PROVE  WaitInv' /\ \E r \in Stacks : ListInv(r)'
  <1> PICK n \in Nodes : n = node[t]
    BY DEF Push, LocalInv, Linking, At
  <1>0. /\ LocalsType /\ seen \in [Threads -> Words] /\ Moves(t)
    BY Typing DEF Moves
  <1>1. /\ pc[t] = "push" /\ freeListHead' = n /\ freeListNext[n] = freeListHead
        /\ UNCHANGED <<freeListRefs, freeListNext, out>> /\ Return(t)
    BY DEF Push, At, LocalInv
  <1>2. \A u \in Threads \ {t} :
            /\ Fresh(u)' <=> Fresh(u)
            /\ \A m \in Nodes : /\ InHands(u, m)' <=> InHands(u, m)
                                /\ Looks(u, m)' <=> Looks(u, m)
    BY <1>0, OthersHands
  <1>3. /\ ~Fresh(t) /\ InHands(t, n)
        /\ \A m \in Nodes : ~Looks(t, m) /\ (InHands(t, m) <=> m = n)
    BY <1>1 DEF Fresh, InHands, Looks, Linking, At
  <1>4. ~Fresh(t)' /\ \A m \in Nodes : ~InHands(t, m)' /\ ~Looks(t, m)'
    BY <1>0, <1>1, Returned
  <1>5. /\ n \notin out \cup Listed(s) /\ ~freeListRefs[n].mark
        /\ \A u \in Threads : InHands(u, n) => u = t
    BY <1>3 DEF ListInv, PlaceInv, MarkInv
  <1> DEFINE r == Pushed(n, s)
  <1>6. r \in Stacks /\ IsList(r)' /\ Listed(r) = Listed(s) \cup {n}
    BY <1>1, <1>5, PushedList DEF ListInv
  <1> HIDE DEF r
  <1>7. Listed(r)' = Listed(r)
    BY DEF Listed
  <1>8. WaitInv'
    <2>1. ~freeListRefs'[n].mark
      BY <1>1, <1>5
    <2>2. \A m \in Nodes \ {n} :
            (\E u \in Threads : InHands(u, m)') <=> \E u \in Threads : InHands(u, m)
      BY <1>2, <1>3, <1>4
    <2> QED
      BY <1>1, <2>1, <2>2 DEF WaitInv
  <1>9. PlaceInv(r)'
    BY <1>1, <1>2, <1>3, <1>4, <1>5, <1>6, <1>7 DEF ListInv, PlaceInv
  <1>10. MarkInv(r)'
    BY <1>1, <1>2, <1>3, <1>4, <1>5, <1>6, <1>7 DEF ListInv, MarkInv
  <1>11. CountInv(r)'
    <2>1. \A m \in Nodes : Cardinality(Lookers(m)') = Cardinality(Lookers(m))
      BY <1>2, <1>3, <1>4, LookersChange
    <2>2. \A m \in Nodes \ {n} : Held(r, m)' <=> Held(s, m)
      BY <1>2, <1>3, <1>4, <1>6, <1>7 DEF Held
    <2>3. Held(r, n)' /\ Held(s, n)
      BY <1>3, <1>6, <1>7 DEF Held
    <2> QED
      BY <1>1, <2>1, <2>2, <2>3 DEF ListInv, CountInv
  <1> QED
    BY <1>6, <1>8, <1>9, <1>10, <1>11 DEF ListInv

(* The node stays with t if nobody has come to look, and waits otherwise.  *)
LEMMA RetreatStep ==
    ASSUME TypeOK, LocalInv, WaitInv, NEW s \in Stacks, ListInv(s),
           NEW t \in Threads, Retreat(t)
    PROVE  WaitInv' /\ ListInv(s)'
  <1> PICK n \in Nodes : n = node[t]
    BY DEF Retreat, LocalInv, Linking, At
  <1>0. /\ LocalsType /\ freeListRefs \in [Nodes -> CountedWords] /\ seen \in [Threads -> Words]
        /\ Moves(t)
    BY Typing DEF Moves
  <1>1. pc[t] = "retreat" /\ UNCHANGED <<freeListHead, freeListNext, out>>
    BY DEF Retreat, At
  <1>2. \A u \in Threads \ {t} :
            /\ Fresh(u)' <=> Fresh(u)
            /\ \A m \in Nodes : /\ InHands(u, m)' <=> InHands(u, m)
                                /\ Looks(u, m)' <=> Looks(u, m)
    BY <1>0, OthersHands
  <1>3. /\ ~Fresh(t) /\ InHands(t, n)
        /\ \A m \in Nodes : ~Looks(t, m) /\ (InHands(t, m) <=> m = n)
    BY <1>1 DEF Fresh, InHands, Looks, Linking, At
  <1>4. /\ n \notin out \cup Listed(s) /\ ~freeListRefs[n].mark /\ Held(s, n)
        /\ \A u \in Threads : InHands(u, n) => u = t
        /\ freeListRefs[n].count \in Nat /\ freeListRefs[n].count > 0
    BY <1>0, <1>3, CountMeans DEF ListInv, PlaceInv, MarkInv, Held, CountedWords, Counts
  <1>5. /\ freeListRefs'[n].mark /\ freeListRefs'[n].count = freeListRefs[n].count - 1
        /\ \A m \in Nodes \ {n} : freeListRefs'[m] = freeListRefs[m]
    BY <1>0, <1>4 DEF Retreat, Word
  <1>6. /\ \A m \in Nodes : ~Looks(t, m)'
        /\ \/ /\ freeListRefs[n].count = 1 /\ Fresh(t)'
              /\ \A m \in Nodes : InHands(t, m)' <=> m = n
           \/ /\ freeListRefs[n].count # 1 /\ ~Fresh(t)'
              /\ \A m \in Nodes : ~InHands(t, m)'
    <2>1. CASE freeListRefs[n] = Word(FALSE, 1)
      <3>1. pc'[t] = "store" /\ node'[t] = n
        BY <1>0, <2>1 DEF Retreat, Goto, locals, LocalsType
      <3>2. freeListRefs[n].count = 1
        BY <2>1 DEF Word
      <3> QED
        BY <3>1, <3>2 DEF Fresh, InHands, Looks, Linking, At
    <2>2. CASE freeListRefs[n] # Word(FALSE, 1)
      <3>1. freeListRefs[n].count # 1
        <4>1. freeListRefs[n] \in CountedWords
          BY <1>0
        <4>2. freeListRefs[n].mark = FALSE
          BY <1>4, <4>1 DEF CountedWords
        <4> QED
          BY <2>2, <4>1, <4>2 DEF CountedWords, Word
      <3>2. Return(t)
        BY <2>2 DEF Retreat
      <3> QED
        BY <1>0, <3>1, <3>2, Returned
    <2> QED
      BY <2>1, <2>2
  <1>7. WaitInv'
    <2>1. \A m \in Nodes \ {n} :
            (\E u \in Threads : InHands(u, m)') <=> \E u \in Threads : InHands(u, m)
      BY <1>2, <1>3, <1>6
    <2>2. (\E u \in Threads : InHands(u, n)') <=> freeListRefs[n].count = 1
      BY <1>2, <1>4, <1>6
    <2>3. freeListRefs'[n].count = 0 <=> freeListRefs[n].count = 1
      BY <1>4, <1>5
    <2> QED
      BY <1>5, <2>1, <2>2, <2>3 DEF WaitInv
  <1>8. PlaceInv(s)'
    BY <1>1, <1>2, <1>3, <1>4, <1>6 DEF ListInv, PlaceInv, Listed
  <1>9. MarkInv(s)'
    BY <1>1, <1>2, <1>3, <1>4, <1>5, <1>6 DEF ListInv, MarkInv, Listed
  <1>10. CountInv(s)'
    <2>1. \A m \in Nodes : Cardinality(Lookers(m)') = Cardinality(Lookers(m))
      BY <1>2, <1>3, <1>6, LookersChange
    <2>2. \A m \in Nodes \ {n} : Held(s, m)' <=> Held(s, m)
      BY <1>2, <1>3, <1>6 DEF Held, Listed
    <2>3. ~Held(s, n)'
      BY <1>2, <1>4, <1>6 DEF Held, Listed
    <2>4. freeListRefs'[n].count = Cardinality(Lookers(n)') + IF Held(s, n)' THEN 1 ELSE 0
      <3>1. freeListRefs[n].count = Cardinality(Lookers(n)) + 1
        BY <1>4 DEF ListInv, CountInv
      <3> QED
        BY <1>5, <2>1, <2>3, <3>1, LookersFinite
    <2>5. \A m \in Nodes \ {n} :
             freeListRefs'[m].count = Cardinality(Lookers(m)') + IF Held(s, m)' THEN 1 ELSE 0
      BY <1>5, <2>1, <2>2 DEF ListInv, CountInv
    <2> QED
      BY <2>4, <2>5 DEF CountInv
  <1>11. IsList(s)'
    BY <1>1 DEF ListInv, IsList
  <1> QED
    BY <1>7, <1>8, <1>9, <1>10, <1>11 DEF ListInv

(* One more looker, one more reference.                                    *)
LEMMA HoldStep ==
    ASSUME TypeOK, LocalInv, WaitInv, NEW s \in Stacks, ListInv(s),
           NEW t \in Threads, Hold(t)
    PROVE  WaitInv' /\ ListInv(s)'
  <1> PICK n \in Nodes : n = head[t]
    BY DEF Hold, LocalInv, At
  <1>0. /\ LocalsType /\ freeListRefs \in [Nodes -> CountedWords] /\ seen \in [Threads -> Words]
        /\ Moves(t)
    BY Typing DEF Moves
  <1>1. /\ pc[t] = "hold" /\ pc'[t] = "next" /\ head' = head
        /\ UNCHANGED <<freeListHead, freeListNext, out>>
    BY <1>0 DEF Hold, At, Goto, LocalsType
  <1>2. \A u \in Threads \ {t} :
            /\ Fresh(u)' <=> Fresh(u)
            /\ \A m \in Nodes : /\ InHands(u, m)' <=> InHands(u, m)
                                /\ Looks(u, m)' <=> Looks(u, m)
    BY <1>0, OthersHands
  <1>3. /\ ~Fresh(t) /\ ~Fresh(t)'
        /\ \A m \in Nodes : /\ ~InHands(t, m) /\ ~InHands(t, m)'
                            /\ ~Looks(t, m) /\ (Looks(t, m)' <=> m = n)
    BY <1>1 DEF Fresh, InHands, Looks, Linking, At
  <1>4. /\ freeListRefs[n].count \in Nat /\ freeListRefs[n].count > 0
    BY <1>0, <1>1 DEF Hold, LocalInv, At, CountedWords, Counts
  <1>5. /\ freeListRefs'[n].mark = freeListRefs[n].mark
        /\ freeListRefs'[n].count = freeListRefs[n].count + 1
        /\ \A m \in Nodes \ {n} : freeListRefs'[m] = freeListRefs[m]
    BY <1>0, <1>4 DEF Hold, CountedWords
  <1>6. \A m \in Nodes : (\E u \in Threads : InHands(u, m)') <=> \E u \in Threads : InHands(u, m)
    BY <1>2, <1>3
  <1>7. WaitInv'
    BY <1>4, <1>5, <1>6 DEF WaitInv
  <1>8. PlaceInv(s)'
    BY <1>1, <1>2, <1>3 DEF ListInv, PlaceInv, Listed
  <1>9. MarkInv(s)'
    BY <1>1, <1>2, <1>3, <1>5 DEF ListInv, MarkInv, Listed
  <1>10. CountInv(s)'
    <2>1. /\ Cardinality(Lookers(n)') = Cardinality(Lookers(n)) + 1
          /\ \A m \in Nodes \ {n} : Cardinality(Lookers(m)') = Cardinality(Lookers(m))
      BY <1>2, <1>3, LookersChange
    <2>2. \A m \in Nodes : Held(s, m)' <=> Held(s, m)
      BY <1>2, <1>3 DEF Held, Listed
    <2>3. freeListRefs'[n].count = Cardinality(Lookers(n)') + IF Held(s, n)' THEN 1 ELSE 0
      BY <1>5, <2>1, <2>2, LookersFinite DEF ListInv, CountInv
    <2>4. \A m \in Nodes \ {n} :
             freeListRefs'[m].count = Cardinality(Lookers(m)') + IF Held(s, m)' THEN 1 ELSE 0
      BY <1>5, <2>1, <2>2 DEF ListInv, CountInv
    <2> QED
      BY <2>3, <2>4 DEF CountInv
  <1>11. IsList(s)'
    BY <1>1 DEF ListInv, IsList
  <1> QED
    BY <1>7, <1>8, <1>9, <1>10, <1>11 DEF ListInv

(* The node goes from the list into the hands of t.                        *)
LEMMA PopStep ==
    ASSUME TypeOK, LocalInv, WaitInv, NEW s \in Stacks, ListInv(s),
           NEW t \in Threads, Pop(t)
    PROVE  WaitInv' /\ \E r \in Stacks : ListInv(r)'
  <1> PICK n \in Nodes : n = head[t]
    BY DEF Pop, LocalInv, At
  <1>0. /\ LocalsType /\ seen \in [Threads -> Words] /\ Moves(t)
    BY Typing DEF Moves
  <1>1. /\ pc[t] = "pop" /\ pc'[t] = "take" /\ head' = head
        /\ freeListHead = n /\ freeListHead' = freeListNext[n]
        /\ UNCHANGED <<freeListRefs, freeListNext, out>>
    BY <1>0 DEF Pop, At, Goto, LocalInv, LocalsType
  <1>2. \A u \in Threads \ {t} :
            /\ Fresh(u)' <=> Fresh(u)
            /\ \A m \in Nodes : /\ InHands(u, m)' <=> InHands(u, m)
                                /\ Looks(u, m)' <=> Looks(u, m)
    BY <1>0, OthersHands
  <1>3. /\ ~Fresh(t) /\ ~Fresh(t)'
        /\ \A m \in Nodes : /\ ~InHands(t, m) /\ (InHands(t, m)' <=> m = n)
                            /\ (Looks(t, m)' <=> m = n) /\ (Looks(t, m) <=> m = n)
    BY <1>1 DEF Fresh, InHands, Looks, Linking, At
  <1> DEFINE r == Popped(s)
  <1>4. r \in Stacks /\ IsList(r)' /\ n \in Listed(s) /\ Listed(r) = Listed(s) \ {n}
    BY <1>1, PoppedList, FreeListAssumption DEF ListInv
  <1> HIDE DEF r
  <1>5. Listed(r)' = Listed(r)
    BY DEF Listed
  <1>6. /\ n \notin out /\ ~freeListRefs[n].mark
        /\ \A u \in Threads : ~InHands(u, n)
    BY <1>4 DEF ListInv, PlaceInv, MarkInv
  <1>7. WaitInv'
    <2>1. \A m \in Nodes \ {n} :
            (\E u \in Threads : InHands(u, m)') <=> \E u \in Threads : InHands(u, m)
      BY <1>2, <1>3
    <2> QED
      BY <1>1, <1>6, <2>1 DEF WaitInv
  <1>8. PlaceInv(r)'
    BY <1>1, <1>2, <1>3, <1>4, <1>5, <1>6 DEF ListInv, PlaceInv
  <1>9. MarkInv(r)'
    BY <1>1, <1>2, <1>3, <1>4, <1>5, <1>6 DEF ListInv, MarkInv
  <1>10. CountInv(r)'
    <2>1. \A m \in Nodes : Cardinality(Lookers(m)') = Cardinality(Lookers(m))
      BY <1>2, <1>3, LookersChange
    <2>2. \A m \in Nodes \ {n} : Held(r, m)' <=> Held(s, m)
      BY <1>2, <1>3, <1>4, <1>5 DEF Held
    <2>3. Held(r, n)' /\ Held(s, n)
      BY <1>3, <1>4 DEF Held
    <2> QED
      BY <1>1, <2>1, <2>2, <2>3 DEF ListInv, CountInv
  <1> QED
    BY <1>4, <1>7, <1>8, <1>9, <1>10 DEF ListInv

(* Both references go, and the node is out.                                *)
LEMMA TakeStep ==
    ASSUME TypeOK, LocalInv, WaitInv, NEW s \in Stacks, ListInv(s),
           NEW t \in Threads, Take(t)
    PROVE  WaitInv' /\ ListInv(s)'
  <1> PICK n \in Nodes : n = head[t]
    BY DEF Take, LocalInv, At
  <1>0. /\ LocalsType /\ freeListRefs \in [Nodes -> CountedWords] /\ seen \in [Threads -> Words]
        /\ Moves(t)
    BY Typing DEF Moves
  <1>1. /\ pc[t] = "take" /\ pc'[t] = "idle" /\ out' = out \cup {n}
        /\ UNCHANGED <<freeListHead, freeListNext>>
    BY <1>0 DEF Take, At, Goto, LocalsType
  <1>2. \A u \in Threads \ {t} :
            /\ Fresh(u)' <=> Fresh(u)
            /\ \A m \in Nodes : /\ InHands(u, m)' <=> InHands(u, m)
                                /\ Looks(u, m)' <=> Looks(u, m)
    BY <1>0, OthersHands
  <1>3. /\ ~Fresh(t) /\ ~Fresh(t)'
        /\ \A m \in Nodes : /\ (InHands(t, m) <=> m = n) /\ ~InHands(t, m)'
                            /\ (Looks(t, m) <=> m = n) /\ ~Looks(t, m)'
    BY <1>1 DEF Fresh, InHands, Looks, Linking, At
  <1>4. /\ n \notin out \cup Listed(s) /\ ~freeListRefs[n].mark /\ Held(s, n)
        /\ \A u \in Threads : InHands(u, n) => u = t
        /\ freeListRefs[n].count \in Nat
    BY <1>0, <1>3 DEF ListInv, PlaceInv, MarkInv, Held, CountedWords, Counts
  <1>5. /\ freeListRefs'[n].mark = freeListRefs[n].mark
        /\ freeListRefs'[n].count = freeListRefs[n].count - 2
        /\ \A m \in Nodes \ {n} : freeListRefs'[m] = freeListRefs[m]
    BY <1>0, <1>4 DEF Take, CountedWords
  <1>6. WaitInv'
    <2>1. \A m \in Nodes \ {n} :
            (\E u \in Threads : InHands(u, m)') <=> \E u \in Threads : InHands(u, m)
      BY <1>2, <1>3
    <2> QED
      BY <1>4, <1>5, <2>1 DEF WaitInv
  <1>7. PlaceInv(s)'
    BY <1>1, <1>2, <1>3, <1>4 DEF ListInv, PlaceInv, Listed
  <1>8. MarkInv(s)'
    BY <1>1, <1>2, <1>3, <1>4, <1>5 DEF ListInv, MarkInv, Listed
  <1>9. CountInv(s)'
    <2>1. /\ Cardinality(Lookers(n)') = Cardinality(Lookers(n)) - 1
          /\ \A m \in Nodes \ {n} : Cardinality(Lookers(m)') = Cardinality(Lookers(m))
      BY <1>2, <1>3, LookersChange
    <2>2. \A m \in Nodes \ {n} : Held(s, m)' <=> Held(s, m)
      BY <1>2, <1>3 DEF Held, Listed
    <2>3. ~Held(s, n)'
      BY <1>2, <1>3, <1>4 DEF Held, Listed
    <2>4. freeListRefs'[n].count = Cardinality(Lookers(n)') + IF Held(s, n)' THEN 1 ELSE 0
      <3>1. freeListRefs[n].count = Cardinality(Lookers(n)) + 1
        BY <1>4 DEF ListInv, CountInv
      <3> QED
        BY <1>5, <2>1, <2>3, <3>1, LookersFinite
    <2>5. \A m \in Nodes \ {n} :
             freeListRefs'[m].count = Cardinality(Lookers(m)') + IF Held(s, m)' THEN 1 ELSE 0
      BY <1>5, <2>1, <2>2 DEF ListInv, CountInv
    <2> QED
      BY <2>4, <2>5 DEF CountInv
  <1>10. IsList(s)'
    BY <1>1 DEF ListInv, IsList
  <1> QED
    BY <1>6, <1>7, <1>8, <1>9, <1>10 DEF ListInv

(* The last one who lets go of a waiting node takes it in hand.            *)
LEMMA ReleaseStep ==
    ASSUME TypeOK, LocalInv, WaitInv, NEW s \in Stacks, ListInv(s),
           NEW t \in Threads, Release(t)
    PROVE  WaitInv' /\ ListInv(s)'
  <1> PICK n \in Nodes : n = node[t]
    BY DEF Release, LocalInv, At
  <1>0. /\ LocalsType /\ freeListRefs \in [Nodes -> CountedWords] /\ seen \in [Threads -> Words]
        /\ Moves(t)
    BY Typing DEF Moves
  <1>1. pc[t] = "release" /\ UNCHANGED <<freeListHead, freeListNext, out>>
    BY DEF Release, At
  <1>2. \A u \in Threads \ {t} :
            /\ Fresh(u)' <=> Fresh(u)
            /\ \A m \in Nodes : /\ InHands(u, m)' <=> InHands(u, m)
                                /\ Looks(u, m)' <=> Looks(u, m)
    BY <1>0, OthersHands
  <1>3. /\ ~Fresh(t) /\ Looks(t, n)
        /\ \A m \in Nodes : (Looks(t, m) <=> m = n) /\ ~InHands(t, m)
    BY <1>1 DEF Fresh, InHands, Looks, Linking, At
  <1>4. /\ freeListRefs[n] \in CountedWords
        /\ freeListRefs[n].count \in Nat /\ freeListRefs[n].count > 0
        /\ freeListRefs[n].mark => \A u \in Threads : ~InHands(u, n)
    BY <1>0, <1>3, CountMeans DEF ListInv, WaitInv, CountedWords, Counts
  <1>5. /\ freeListRefs'[n].mark = freeListRefs[n].mark
        /\ freeListRefs'[n].count = freeListRefs[n].count - 1
        /\ \A m \in Nodes \ {n} : freeListRefs'[m] = freeListRefs[m]
    BY <1>0, <1>4 DEF Release, CountedWords
  <1>6. /\ \A m \in Nodes : ~Looks(t, m)'
        /\ \/ /\ freeListRefs[n].mark /\ freeListRefs[n].count = 1 /\ Fresh(t)'
              /\ \A m \in Nodes : InHands(t, m)' <=> m = n
           \/ /\ ~(freeListRefs[n].mark /\ freeListRefs[n].count = 1) /\ ~Fresh(t)'
              /\ \A m \in Nodes : ~InHands(t, m)'
    <2>1. CASE freeListRefs[n] = Word(TRUE, 1)
      <3>1. pc'[t] = "link" /\ node'[t] = n
        BY <1>0, <2>1 DEF Release, Goto, locals, LocalsType
      <3>2. freeListRefs[n].mark /\ freeListRefs[n].count = 1
        BY <2>1 DEF Word
      <3> QED
        BY <3>1, <3>2 DEF Fresh, InHands, Looks, Linking, At
    <2>2. CASE freeListRefs[n] # Word(TRUE, 1)
      <3>1. ~(freeListRefs[n].mark /\ freeListRefs[n].count = 1)
        <4> SUFFICES ASSUME freeListRefs[n].mark, freeListRefs[n].count = 1
                     PROVE  FALSE
          OBVIOUS
        <4>1. freeListRefs[n].mark = TRUE
          BY <1>4 DEF CountedWords
        <4> QED
          BY <1>4, <2>2, <4>1 DEF CountedWords, Word
      <3>2. Return(t)
        BY <2>2 DEF Release
      <3> QED
        BY <1>0, <3>1, <3>2, Returned
    <2> QED
      BY <2>1, <2>2
  <1>7. WaitInv'
    <2>1. \A m \in Nodes \ {n} :
            (\E u \in Threads : InHands(u, m)') <=> \E u \in Threads : InHands(u, m)
      BY <1>2, <1>3, <1>6
    <2>2. freeListRefs[n].mark =>
             ((\E u \in Threads : InHands(u, n)') <=> freeListRefs[n].count = 1)
      BY <1>2, <1>4, <1>6
    <2>3. freeListRefs'[n].count = 0 <=> freeListRefs[n].count = 1
      BY <1>4, <1>5
    <2> QED
      BY <1>5, <2>1, <2>2, <2>3 DEF WaitInv
  <1>8. freeListRefs[n].mark => n \notin out \cup Listed(s)
    BY DEF ListInv, MarkInv
  <1>9. PlaceInv(s)'
    BY <1>1, <1>2, <1>3, <1>4, <1>6, <1>8 DEF ListInv, PlaceInv, Listed
  <1>10. MarkInv(s)'
    BY <1>1, <1>2, <1>3, <1>4, <1>5, <1>6, <1>8 DEF ListInv, MarkInv, Listed
  <1>11. CountInv(s)'
    <2>1. /\ Cardinality(Lookers(n)') = Cardinality(Lookers(n)) - 1
          /\ \A m \in Nodes \ {n} : Cardinality(Lookers(m)') = Cardinality(Lookers(m))
      BY <1>2, <1>3, <1>6, LookersChange
    <2>2. \A m \in Nodes : Held(s, m)' <=> Held(s, m)
      BY <1>2, <1>3, <1>6 DEF Held, Listed
    <2>3. freeListRefs'[n].count = Cardinality(Lookers(n)') + IF Held(s, n)' THEN 1 ELSE 0
      BY <1>5, <2>1, <2>2, LookersFinite DEF ListInv, CountInv
    <2>4. \A m \in Nodes \ {n} :
             freeListRefs'[m].count = Cardinality(Lookers(m)') + IF Held(s, m)' THEN 1 ELSE 0
      BY <1>5, <2>1, <2>2 DEF ListInv, CountInv
    <2> QED
      BY <2>3, <2>4 DEF CountInv
  <1>12. IsList(s)'
    BY <1>1 DEF ListInv, IsList
  <1> QED
    BY <1>7, <1>9, <1>10, <1>11, <1>12 DEF ListInv

-----------------------------------------------------------------------------
(* Every node is out, and the list is empty.                               *)
LEMMA FreeListInit == Init => IInv
  <1> SUFFICES ASSUME Init PROVE IInv
    OBVIOUS
  <1> DEFINE s == << >>
  <1>1. TypeOK
    <2>1. Word(FALSE, 0) \in CountedWords
      BY Typing DEF CountedWords, Word
    <2>2. LocalsType /\ SharedType
      BY DEF Init, LocalsType, SharedType, MaybeNode, PCs
    <2> QED
      BY <2>1, <2>2, Typing DEF Init
  <1>2. /\ \A n \in Nodes : n \in out /\ ~freeListRefs[n].mark /\ freeListRefs[n].count = 0
        /\ \A t \in Threads : pc[t] = "idle" /\ ~Fresh(t)
        /\ \A t \in Threads, n \in Nodes : ~InHands(t, n) /\ ~Looks(t, n)
    BY DEF Init, Word, Fresh, InHands, Looks, Linking, At
  <1>3. LocalInv /\ WaitInv
    BY <1>2 DEF LocalInv, WaitInv, Linking, At
  <1>4. s \in [1 .. 0 -> Nodes] /\ DOMAIN s = {}
    OBVIOUS
  <1>5. s \in Stacks
    BY <1>4, StackLength
  <1>6. Listed(s) = {} /\ \A n \in Nodes : ~Held(s, n)
    BY <1>2, <1>4 DEF Listed, Held
  <1>7. IsList(s)
    BY <1>4 DEF Init, IsList
  <1>8. PlaceInv(s) /\ MarkInv(s)
    BY <1>2, <1>6 DEF PlaceInv, MarkInv
  <1>9. CountInv(s)
    <2>1. \A n \in Nodes : Cardinality(Lookers(n)) = 0
      BY <1>2, LookersFinite DEF Lookers
    <2> QED
      BY <1>2, <1>6, <2>1 DEF CountInv
  <1> QED
    BY <1>1, <1>3, <1>5, <1>7, <1>8, <1>9 DEF IInv, ListInv

(* The steps together.                                                     *)
LEMMA FreeListStep == IInv /\ [Next]_vars => IInv'
  <1> SUFFICES ASSUME IInv, [Next]_vars PROVE IInv'
    OBVIOUS
  <1>1. CASE UNCHANGED vars
    <2> USE <1>1 DEF vars, shared, locals
    <2>1. \A t \in Threads :
            /\ (Fresh(t)' <=> Fresh(t)) /\ (Linking(t)' <=> Linking(t))
            /\ \A n \in Nodes : (InHands(t, n)' <=> InHands(t, n)) /\ (Looks(t, n)' <=> Looks(t, n))
      BY DEF Fresh, InHands, Looks, Linking, At
    <2>2. TypeOK' /\ LocalInv'
      BY <2>1 DEF IInv, TypeOK, LocalInv, At
    <2>3. WaitInv'
      BY <2>1 DEF IInv, WaitInv
    <2> PICK s \in Stacks : ListInv(s)
      BY DEF IInv
    <2>4. \A n \in Nodes : Lookers(n)' = Lookers(n) /\ (Held(s, n)' <=> Held(s, n))
      BY <2>1 DEF Lookers, Held, Listed
    <2>5. CountInv(s)'
      BY <2>4 DEF ListInv, CountInv
    <2>6. PlaceInv(s)' /\ MarkInv(s)'
      BY <2>1 DEF ListInv, PlaceInv, MarkInv, Listed
    <2>7. IsList(s)'
      BY DEF ListInv, IsList
    <2> QED
      BY <2>2, <2>3, <2>5, <2>6, <2>7 DEF IInv, ListInv
  <1>2. CASE Next
    <2> PICK t \in Threads : Moves(t)
      BY <1>2 DEF Next, Moves
    <2> PICK s \in Stacks : ListInv(s)
      BY DEF IInv
    <2>1. TypeOK /\ LocalInv /\ WaitInv
      BY DEF IInv
    <2>2. WaitInv' /\ \E r \in Stacks : ListInv(r)'
      <3>1. CASE \E n \in Nodes : Add(t, n)
        BY <2>1, <3>1, AddStep
      <3>2. CASE StoreRefs(t)
        BY <2>1, <3>2, StoreRefsStep
      <3>3. CASE Push(t)
        BY <2>1, <3>3, PushStep
      <3>4. CASE Retreat(t)
        BY <2>1, <3>4, RetreatStep
      <3>5. CASE Hold(t)
        BY <2>1, <3>5, HoldStep
      <3>6. CASE Pop(t)
        BY <2>1, <3>6, PopStep
      <3>7. CASE Take(t)
        BY <2>1, <3>7, TakeStep
      <3>8. CASE Release(t)
        BY <2>1, <3>8, ReleaseStep
      <3>9. CASE Looking(t)
        BY <2>1, <3>9, LookingStep
      <3> QED
        BY <3>1, <3>2, <3>3, <3>4, <3>5, <3>6, <3>7, <3>8, <3>9 DEF Moves, Looking
    <2>3. LocalInv'
      BY <2>1, OthersLocalStep, OwnLocalStep DEF LocalInv
    <2>4. TypeOK'
      <3>1. LocalsType' /\ SharedType' /\ freeListRefs' \in [Nodes -> Words]
        BY <2>1, Typing, LocalsTypeStep, SharedTypeStep, WordsStep DEF SharedType
      <3>2. freeListRefs' \in [Nodes -> CountedWords]
        <4>1. \A n \in Nodes : freeListRefs'[n].count \in Counts
          <5> PICK r \in Stacks : ListInv(r)'
            BY <2>2
          <5> TAKE n \in Nodes
          <5>1. freeListRefs'[n].count = Cardinality(Lookers(n)') + IF Held(r, n)' THEN 1 ELSE 0
            BY DEF ListInv, CountInv
          <5>2. IsFiniteSet(Threads) /\ Lookers(n)' \subseteq Threads
            BY FreeListAssumption DEF Lookers
          <5>3. IsFiniteSet(Lookers(n)') /\ Cardinality(Lookers(n)') <= Cardinality(Threads)
            BY <5>2, FS_Subset
          <5>4. Cardinality(Lookers(n)') \in Nat /\ Cardinality(Threads) \in Nat
            BY <5>2, <5>3, FS_CardinalityType
          <5> QED
            BY <5>1, <5>3, <5>4 DEF Counts
        <4> QED
          BY <3>1, <4>1 DEF Words, CountedWords
      <3>3. seen' \in [Threads -> CountedWords]
        BY <2>1, SeenStep
      <3> QED
        BY <3>1, <3>2, <3>3, Zenon
        DEF TypeOK, LocalsType, SharedType, CountedWords, Counts, PCs
    <2> QED
      BY <2>2, <2>3, <2>4 DEF IInv
  <1> QED
    BY <1>1, <1>2

(* The invariant is inductive. *)
THEOREM FreeListInvariant == Spec => []IInv
  BY FreeListInit, FreeListStep, PTL DEF Spec

(* Typing: no count goes below zero, or above one per thread and one for   *)
(* the list.                                                               *)
THEOREM FreeListTypeCorrect == Spec => []TypeOK
  BY FreeListInvariant, PTL DEF IInv

(* A block is never given out while it is out, on the list, in another     *)
(* thread's hands or about to be added; the list has no cycle.             *)
THEOREM BlockOwnedOnce == Spec => []OwnedOnce
  <1>1. IInv => OwnedOnce
    <2> SUFFICES ASSUME IInv PROVE OwnedOnce
      OBVIOUS
    <2> PICK s \in Stacks : ListInv(s)
      BY DEF IInv
    <2>1. ASSUME NEW n \in Nodes, Marked(n)
          PROVE  n \notin out \cup Listed(s) /\ \A t \in Threads : ~InHands(t, n)
      <3>1. n \notin out \cup Listed(s) /\ \A t \in Threads : InHands(t, n) => Fresh(t)
        BY <2>1 DEF ListInv, MarkInv, Marked
      <3>2. \A t \in Threads : Fresh(t) => Linking(t) /\ ~At(t, "take")
        BY DEF Fresh, Linking, At
      <3> QED
        BY <2>1, <3>1, <3>2 DEF Marked, InHands
    <2> QED
      BY <2>1 DEF OwnedOnce, ListInv, PlaceInv
  <1> QED
    BY FreeListInvariant, <1>1, PTL

(* A block that nobody has is on the list or will be put there.            *)
THEOREM BlockNeverLost == Spec => []NothingLost
  <1>1. IInv => NothingLost
    <2> SUFFICES ASSUME IInv PROVE NothingLost
      OBVIOUS
    <2> PICK s \in Stacks : ListInv(s)
      BY DEF IInv
    <2>1. ASSUME NEW n \in Nodes, n \notin out \cup Listed(s),
                 \A t \in Threads : ~InHands(t, n)
          PROVE  Marked(n) /\ Lookers(n) # {}
      <3>1. freeListRefs[n].mark
        BY <2>1 DEF ListInv, MarkInv
      <3>2. Marked(n)
        BY <2>1, <3>1 DEF Marked, InHands
      <3>3. freeListRefs[n].count # 0
        BY <2>1, <3>1 DEF IInv, WaitInv
      <3>4. ~Held(s, n)
        BY <2>1 DEF Held
      <3>5. freeListRefs[n].count = Cardinality(Lookers(n))
        BY <3>4, LookersFinite DEF ListInv, CountInv
      <3> QED
        BY <3>2, <3>3, <3>5, LookersFinite
    <2> QED
      BY <2>1 DEF NothingLost, ListInv
  <1> QED
    BY FreeListInvariant, <1>1, PTL
=============================================================================
