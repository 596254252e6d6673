---------------------------- MODULE SignalledQueue ----------------------------
(***************************************************************************)
(* The packet queue when the SIGINT handler runs on the main thread inside *)
(* an enqueue(): stop() disconnects every client, and disconnect() calls   *)
(* clientDisconnected(), which enqueues an end marker                      *)
(* (server/main.cpp, ToyVpnServer.h, PacketHandler.h).  The interrupted    *)
(* call goes on, with what it has read before, when the handler is done.   *)
(*                                                                         *)
(* Signals inside the first call, which makes the producer, are left out.  *)
(***************************************************************************)
EXTENDS ConcurrentQueue

VARIABLES interrupted,   \* the frame of the interrupted enqueue(), or none
          signalled      \* the handler has been called, which happens once

signalVars == <<interrupted, signalled>>
allVars == <<vars, signalVars>>

SignalInit == Init /\ interrupted = << >> /\ signalled = FALSE

(* The handler's own enqueue() begins with the main thread's unfinished.   *)
(* There is a marker only for a client that has a writer, so something has *)
(* been taken out before.                                                  *)
Interrupt ==
    /\ ~signalled /\ producer.pc \notin {"idle", "create", "hash"} /\ headIndex > 0
    /\ signalled' = TRUE /\ interrupted' = <<producer>>
    /\ producer' = Frame(FirstStep(tailIndex), tailIndex)
    /\ UNCHANGED <<listed, hashed, counters, index, memory, tailBlock, c, ended>>

(* PacketHandler::stop() has joined the capture thread by then.            *)
Resume ==
    /\ interrupted # << >> /\ producer.pc = "idle"
    /\ \A k \in Consumers : At(k, "idle")
    /\ producer' = Head(interrupted) /\ interrupted' = << >>
    /\ UNCHANGED <<listed, hashed, counters, index, memory, tailBlock, c, ended,
                   signalled>>

Joined == signalled /\ interrupted = << >>
HandlerIsDone == interrupted # << >> /\ producer.pc = "idle"

SignalNext ==
    \/ Interrupt \/ Resume
    \/ ~HandlerIsDone /\ EnqueueStep /\ UNCHANGED signalVars
    \/ ~Joined /\ (\E k \in Consumers : DequeueStep(k)) /\ UNCHANGED signalVars

SignalSpec == SignalInit /\ [][SignalNext]_allVars

(* get_block_index_index_for_index() asserts that the entry it has found   *)
(* carries the key it looks for and a block.                               *)
LookUpFinds == \A k \in Consumers : LooksUpItsKey(k)
=============================================================================
