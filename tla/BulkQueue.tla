------------------------------ MODULE BulkQueue ------------------------------
(***************************************************************************)
(* What the packet queue promises to PacketHandler: a FIFO queue from      *)
(* which a consumer takes up to MaxDequeue items at once, each item to     *)
(* exactly one consumer.  Items are numbered in the order they are sent.   *)
(***************************************************************************)
EXTENDS Naturals, Sequences

CONSTANTS Consumers, MaxDequeue

VARIABLES sent,     \* number of items enqueued so far
          queue,    \* items enqueued and not taken
          out       \* items each consumer has been given by the current call

vars == <<sent, queue, out>>

Init == sent = 0 /\ queue = << >> /\ out = [c \in Consumers |-> << >>]

Enqueue ==
    /\ sent' = sent + 1 /\ queue' = Append(queue, sent + 1)
    /\ UNCHANGED out

Take(c) == \E n \in 1 .. MaxDequeue :
    /\ out[c] = << >> /\ n <= Len(queue)
    /\ out' = [out EXCEPT ![c] = SubSeq(queue, 1, n)]
    /\ queue' = SubSeq(queue, n + 1, Len(queue))
    /\ UNCHANGED sent

Return(c) == out' = [out EXCEPT ![c] = << >>] /\ UNCHANGED <<sent, queue>>

(* The queue is destroyed with what is left in it, after the last call. *)
Destroy ==
    /\ \A c \in Consumers : out[c] = << >>
    /\ queue' = << >> /\ UNCHANGED <<sent, out>>

Next == Enqueue \/ Destroy \/ \E c \in Consumers : Take(c) \/ Return(c)

Spec == Init /\ [][Next]_vars
=============================================================================
