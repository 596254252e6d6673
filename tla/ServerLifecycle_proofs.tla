----------------------- MODULE ServerLifecycle_proofs -----------------------
(***************************************************************************)
(* Proofs about ServerLifecycle, for every bound on the number of runs and *)
(* every set of tokens: first about what main does to the host, for which  *)
(* it does not matter how the command line is read, then that the command  *)
(* line is read as the reference in ArgumentParser says.                   *)
(***************************************************************************)
EXTENDS ServerLifecycle, FiniteSetTheorems, SequenceTheorems, TLAPS

(* Which parts of start() are behind main.                                 *)
Serving == {"epoll", "add", "capture", "startPolling", "poll"}
AfterRoute == {"nat", "rollback"} \cup Serving
AfterSocket == {"route"} \cup AfterRoute
AfterTun == {"socket"} \cup AfterSocket
AfterForwarding == {"tun"} \cup AfterTun

(* start() goes on only if all before has succeeded, and the NAT is        *)
(* regarded as initialised only between its init() and its destructor.     *)
ReadyInv ==
    /\ pc \in {"parse", "forwarding"} => ready = {}
    /\ pc \in AfterForwarding => "forwarding" \in ready
    /\ pc \in AfterTun => "tun" \in ready
    /\ pc \in AfterSocket => "socket" \in ready
    /\ pc \in AfterRoute => "route" \in ready
    /\ pc \in Serving \cup {"natOff"} => "nat" \in ready
    /\ "nat" \in ready =>
          pc \in Serving \cup {"caught", "returned", "join", "natOff", "rollbackOff"} \cup Dead

(* m_InitialValue is what the destructor has to put back.                  *)
ForwardInv ==
    /\ found.forward \in {0, 1}
    /\ "forwarding" \in ready => initial = found.forward
    /\ (pc \notin Dead /\ "forwarding" \in ready) => forward = 1
    /\ (pc \notin Dead /\ "forwarding" \notin ready) => forward = found.forward
    /\ pc = "exited" => forward = found.forward

(* The commands that have been run and not been undone.                    *)
CommandsInv ==
    /\ pc \notin {"nat", "natOff"} \cup Dead => next = 1
    /\ pc \in {"nat", "natOff"} => commandRun = 1 .. next - 1
    /\ pc \notin {"nat", "natOff", "rollback", "rollbackOff"} \cup Dead => commandRun = {}

(* What this process has added to the rules it found.                      *)
IsAdded(c) ==
    \/ pc = "nat" /\ c < next
    \/ pc = "natOff" /\ c >= next
    \/ pc = "rollback" /\ c \in commandRun
    \/ pc \in Serving \cup {"caught", "returned", "join"} /\ "nat" \in ready

(* As long as no iptables -D has failed, each rule is there once more than *)
(* it was if this process is to remove it, and as often as it was if not.  *)
RulesInv ==
    /\ found.rules \in [Commands -> 0 .. runs - 1]
    /\ \A c \in Commands : rules[c] <= found.rules[c] + 1
    /\ \A c \in Commands : botched \/ rules[c] >= found.rules[c]
    /\ pc \in {"parse"} \cup Starting => ~botched
    /\ ("nat" \in ready /\ pc \notin {"rollbackOff"} \cup Dead) => ~botched
    /\ pc = "rollbackOff" => botched
    /\ (~botched /\ pc \notin {"aborted", "killed"}) =>
          \A c \in Commands :
              rules[c] = found.rules[c] + IF IsAdded(c) THEN 1 ELSE 0

(* The inductive invariant.                                                *)
HostInv == ReadyInv /\ ForwardInv /\ CommandsInv /\ RulesInv
IInv == TypeOK /\ HostInv

-----------------------------------------------------------------------------
(* Every step keeps the types.  That no rule is there more often than      *)
(* there were processes needs what the rules are counted by.               *)
LEMMA TypeStep == TypeOK /\ RulesInv /\ [Next]_vars => TypeOK'
  <1> SUFFICES ASSUME TypeOK, RulesInv, [Next]_vars PROVE TypeOK'
    OBVIOUS
  <1> USE DEF TypeOK, Starting, Destroying, Dead, Commands
  <1>1. CASE Parse
    BY <1>1 DEF Parse, host, history, process
  <1>2. CASE Configure
    <2>1. saves' \in BOOLEAN
      <3>1. saves' = ("save" \in used)
        BY <1>2 DEF Configure, SavesToFiles
      <3>2. ("save" \in used) \in BOOLEAN
        OBVIOUS
      <3> QED
        BY <3>1, <3>2, Zenon
    <2> QED
      BY <1>2, <2>1 DEF Configure, host, history, process
  <1>3. CASE Decline
    BY <1>3 DEF Decline, Goto, host, history, process
  <1>4. CASE ForwardingInit
    BY <1>4 DEF ForwardingInit, SetsUp, Goto, host, history, process
  <1>5. CASE TunInit
    BY <1>5 DEF TunInit, SetsUp, Goto, host, history, process
  <1>6. CASE SocketInit
    BY <1>6 DEF SocketInit, SetsUp, Goto, host, history, process
  <1>7. CASE ConfigureRouting
    BY <1>7 DEF ConfigureRouting, SetsUp, Goto, host, history, process
  <1>8. CASE EpollInit
    BY <1>8 DEF EpollInit, SetsUp, Goto, host, history, process
  <1>9. CASE EpollAdd
    BY <1>9 DEF EpollAdd, SetsUp, Goto, host, history, process
  <1>10. CASE PacketHandlerEmplace
    BY <1>10 DEF PacketHandlerEmplace, Goto, host, history, process
  <1>11. CASE StartPolling
    BY <1>11 DEF StartPolling, SetsUp, Goto, host, history, process
  <1>12. CASE EpollIsClosed
    BY <1>12 DEF EpollIsClosed, Fails, Goto, host, history, process
  <1>13. CASE RunCommand
    <2>1. rules' \in [Commands -> 0 .. runs]
      <3>1. CASE pc = "nat"
        <4>1. rules[next] = found.rules[next] /\ found.rules[next] \in 0 .. runs - 1
          BY <1>13, <3>1 DEF RunCommand, RulesInv, IsAdded, Serving
        <4> QED
          BY <1>13, <3>1, <4>1 DEF RunCommand, Undoing, AddRule
      <3>2. CASE pc = "natOff"
        BY <1>13, <3>2 DEF RunCommand, Undoing, RemoveRule
      <3> QED
        BY <1>13, <3>1, <3>2 DEF RunCommand
    <2> QED
      BY <1>13, <2>1 DEF RunCommand, Goto, host, history, process
  <1>14. CASE NatConfigured
    BY <1>14 DEF NatConfigured, Goto, host, history, process
  <1>15. CASE NatRemoved
    BY <1>15 DEF NatRemoved, Goto, host, history, process
  <1>16. CASE CommandFails
    BY <1>16 DEF CommandFails, Undoing, Goto, host, history, process
  <1>17. CASE Rollback
    BY <1>17 DEF Rollback, RemoveRule, Goto, host, history, process
  <1>18. CASE RolledBack
    BY <1>18 DEF RolledBack, AfterRollback, Goto, host, history, process
  <1>19. CASE RollbackFails
    BY <1>19 DEF RollbackFails, AfterRollback, Goto, host, history, process
  <1>20. CASE LeaveLoop
    BY <1>20 DEF LeaveLoop, Goto, host, history, process
  <1>21. CASE Return
    BY <1>21 DEF Return, Goto, host, history, process
  <1>22. CASE PacketHandlerJoined
    BY <1>22 DEF PacketHandlerJoined, NatIsInitialized, Goto, host, history, process
  <1>23. CASE RestoreForwarding
    BY <1>23 DEF RestoreForwarding, RestoredValue, Goto, host, history, process
  <1>24. CASE RestoreFails
    BY <1>24 DEF RestoreFails, Goto, host, history, process
  <1>25. CASE StartFails
    BY <1>25 DEF StartFails, Fails, Goto, host, history, process
  <1>26. CASE Stop
    BY <1>26 DEF Stop, StoppedCapture, host, history, process
  <1>27. CASE Kill
    BY <1>27 DEF Kill, Goto, host, history, process
  <1>28. CASE Restart
    <2>1. runs' \in 1 .. MaxRuns /\ 0 .. runs \subseteq 0 .. runs'
      BY <1>28, MaxRunsAssumption DEF Restart
    <2>2. rules' \in [Commands -> 0 .. runs']
      BY <1>28, <2>1 DEF Restart, host
    <2>3. /\ saves' \in BOOLEAN /\ interrupted' \in BOOLEAN
          /\ heeded' \in BOOLEAN /\ botched' \in BOOLEAN
      BY <1>28, Zenon DEF Restart
    <2>4. /\ pc' = "forwarding" /\ next' = 1 /\ commandRun' = {} /\ ready' = {}
          /\ forward' = forward /\ initial' = 0 /\ capture' = "none"
      BY <1>28, Zenon DEF Restart, host
    <2> QED
      BY <2>1, <2>2, <2>3, <2>4
  <1>29. CASE UNCHANGED vars
    BY <1>29 DEF vars, host, history, process
  <1> QED
    BY <1>1, <1>2, <1>3, <1>4, <1>5, <1>6, <1>7, <1>8, <1>9, <1>10, <1>11,
       <1>12, <1>13, <1>14, <1>15, <1>16, <1>17, <1>18, <1>19, <1>20, <1>21,
       <1>22, <1>23, <1>24, <1>25, <1>26, <1>27, <1>28, <1>29
    DEF Next, Main, StartSteps, NatSteps, EndSteps

(* Every step keeps what is initialised in step with where main is.        *)
LEMMA ReadyStep == TypeOK /\ ReadyInv /\ [Next]_vars => ReadyInv'
  <1> SUFFICES ASSUME TypeOK, ReadyInv, [Next]_vars PROVE ReadyInv'
    OBVIOUS
  <1> USE DEF ReadyInv, TypeOK, AfterForwarding, AfterTun, AfterSocket,
             AfterRoute, Serving, Starting, Destroying, Dead, Commands
  <1>1. CASE Parse
    BY <1>1 DEF Parse, host, history, process
  <1>2. CASE Configure
    BY <1>2 DEF Configure, host, history, process
  <1>3. CASE Decline
    BY <1>3 DEF Decline, Goto, host, history, process
  <1>4. CASE ForwardingInit
    BY <1>4 DEF ForwardingInit, SetsUp, Goto, host, history, process
  <1>5. CASE TunInit
    BY <1>5 DEF TunInit, SetsUp, Goto, host, history, process
  <1>6. CASE SocketInit
    BY <1>6 DEF SocketInit, SetsUp, Goto, host, history, process
  <1>7. CASE ConfigureRouting
    BY <1>7 DEF ConfigureRouting, SetsUp, Goto, host, history, process
  <1>8. CASE EpollInit
    BY <1>8 DEF EpollInit, SetsUp, Goto, host, history, process
  <1>9. CASE EpollAdd
    BY <1>9 DEF EpollAdd, SetsUp, Goto, host, history, process
  <1>10. CASE PacketHandlerEmplace
    BY <1>10 DEF PacketHandlerEmplace, Goto, host, history, process
  <1>11. CASE StartPolling
    BY <1>11 DEF StartPolling, SetsUp, Goto, host, history, process
  <1>12. CASE EpollIsClosed
    BY <1>12 DEF EpollIsClosed, Fails, Goto, host, history, process
  <1>13. CASE RunCommand
    BY <1>13 DEF RunCommand, AddRule, RemoveRule, Undoing, Goto, host, history, process
  <1>14. CASE NatConfigured
    BY <1>14 DEF NatConfigured, Goto, host, history, process
  <1>15. CASE NatRemoved
    BY <1>15 DEF NatRemoved, Goto, host, history, process
  <1>16. CASE CommandFails
    BY <1>16 DEF CommandFails, Undoing, Goto, host, history, process
  <1>17. CASE Rollback
    BY <1>17 DEF Rollback, RemoveRule, Goto, host, history, process
  <1>18. CASE RolledBack
    BY <1>18 DEF RolledBack, AfterRollback, Goto, host, history, process
  <1>19. CASE RollbackFails
    BY <1>19 DEF RollbackFails, AfterRollback, Goto, host, history, process
  <1>20. CASE LeaveLoop
    BY <1>20 DEF LeaveLoop, Goto, host, history, process
  <1>21. CASE Return
    BY <1>21 DEF Return, Goto, host, history, process
  <1>22. CASE PacketHandlerJoined
    BY <1>22 DEF PacketHandlerJoined, NatIsInitialized, Goto, host, history, process
  <1>23. CASE RestoreForwarding
    BY <1>23 DEF RestoreForwarding, RestoredValue, Goto, host, history, process
  <1>24. CASE RestoreFails
    BY <1>24 DEF RestoreFails, Goto, host, history, process
  <1>25. CASE StartFails
    BY <1>25 DEF StartFails, Fails, Goto, host, history, process
  <1>26. CASE Stop
    BY <1>26 DEF Stop, StoppedCapture, host, history, process
  <1>27. CASE Kill
    BY <1>27 DEF Kill, Goto, host, history, process
  <1>28. CASE Restart
    BY <1>28 DEF Restart, host, history, process
  <1>29. CASE UNCHANGED vars
    BY <1>29 DEF vars, host, history, process
  <1> QED
    BY <1>1, <1>2, <1>3, <1>4, <1>5, <1>6, <1>7, <1>8, <1>9, <1>10, <1>11,
       <1>12, <1>13, <1>14, <1>15, <1>16, <1>17, <1>18, <1>19, <1>20, <1>21,
       <1>22, <1>23, <1>24, <1>25, <1>26, <1>27, <1>28, <1>29
    DEF Next, Main, StartSteps, NatSteps, EndSteps

(* Every step keeps the value that is to be restored.                      *)
LEMMA ForwardStep == TypeOK /\ ReadyInv /\ ForwardInv /\ [Next]_vars => ForwardInv'
  <1> SUFFICES ASSUME TypeOK, ReadyInv, ForwardInv, [Next]_vars PROVE ForwardInv'
    OBVIOUS
  <1> USE DEF ReadyInv, ForwardInv, TypeOK, AfterForwarding, AfterTun,
             AfterSocket, AfterRoute, Serving, Starting, Destroying, Dead, Commands
  <1>1. CASE Parse
    BY <1>1 DEF Parse, host, history, process
  <1>2. CASE Configure
    BY <1>2 DEF Configure, host, history, process
  <1>3. CASE Decline
    BY <1>3 DEF Decline, Goto, host, history, process
  <1>4. CASE ForwardingInit
    BY <1>4 DEF ForwardingInit, SetsUp, Goto, host, history, process
  <1>5. CASE TunInit
    BY <1>5 DEF TunInit, SetsUp, Goto, host, history, process
  <1>6. CASE SocketInit
    BY <1>6 DEF SocketInit, SetsUp, Goto, host, history, process
  <1>7. CASE ConfigureRouting
    BY <1>7 DEF ConfigureRouting, SetsUp, Goto, host, history, process
  <1>8. CASE EpollInit
    BY <1>8 DEF EpollInit, SetsUp, Goto, host, history, process
  <1>9. CASE EpollAdd
    BY <1>9 DEF EpollAdd, SetsUp, Goto, host, history, process
  <1>10. CASE PacketHandlerEmplace
    BY <1>10 DEF PacketHandlerEmplace, Goto, host, history, process
  <1>11. CASE StartPolling
    BY <1>11 DEF StartPolling, SetsUp, Goto, host, history, process
  <1>12. CASE EpollIsClosed
    BY <1>12 DEF EpollIsClosed, Fails, Goto, host, history, process
  <1>13. CASE RunCommand
    BY <1>13 DEF RunCommand, AddRule, RemoveRule, Undoing, Goto, host, history, process
  <1>14. CASE NatConfigured
    BY <1>14 DEF NatConfigured, Goto, host, history, process
  <1>15. CASE NatRemoved
    BY <1>15 DEF NatRemoved, Goto, host, history, process
  <1>16. CASE CommandFails
    BY <1>16 DEF CommandFails, Undoing, Goto, host, history, process
  <1>17. CASE Rollback
    BY <1>17 DEF Rollback, RemoveRule, Goto, host, history, process
  <1>18. CASE RolledBack
    BY <1>18 DEF RolledBack, AfterRollback, Goto, host, history, process
  <1>19. CASE RollbackFails
    BY <1>19 DEF RollbackFails, AfterRollback, Goto, host, history, process
  <1>20. CASE LeaveLoop
    BY <1>20 DEF LeaveLoop, Goto, host, history, process
  <1>21. CASE Return
    BY <1>21 DEF Return, Goto, host, history, process
  <1>22. CASE PacketHandlerJoined
    BY <1>22 DEF PacketHandlerJoined, NatIsInitialized, Goto, host, history, process
  <1>23. CASE RestoreForwarding
    BY <1>23 DEF RestoreForwarding, RestoredValue, Goto, host, history, process
  <1>24. CASE RestoreFails
    BY <1>24 DEF RestoreFails, Goto, host, history, process
  <1>25. CASE StartFails
    BY <1>25 DEF StartFails, Fails, Goto, host, history, process
  <1>26. CASE Stop
    BY <1>26 DEF Stop, StoppedCapture, host, history, process
  <1>27. CASE Kill
    BY <1>27 DEF Kill, Goto, host, history, process
  <1>28. CASE Restart
    BY <1>28 DEF Restart, host, history, process
  <1>29. CASE UNCHANGED vars
    BY <1>29 DEF vars, host, history, process
  <1> QED
    BY <1>1, <1>2, <1>3, <1>4, <1>5, <1>6, <1>7, <1>8, <1>9, <1>10, <1>11,
       <1>12, <1>13, <1>14, <1>15, <1>16, <1>17, <1>18, <1>19, <1>20, <1>21,
       <1>22, <1>23, <1>24, <1>25, <1>26, <1>27, <1>28, <1>29
    DEF Next, Main, StartSteps, NatSteps, EndSteps

(* Every step keeps account of the commands that were run.                 *)
LEMMA CommandsStep == TypeOK /\ CommandsInv /\ [Next]_vars => CommandsInv'
  <1> SUFFICES ASSUME TypeOK, CommandsInv, [Next]_vars PROVE CommandsInv'
    OBVIOUS
  <1> USE DEF CommandsInv, TypeOK, Starting, Destroying, Dead, Commands
  <1>1. CASE Parse
    BY <1>1 DEF Parse, host, history, process
  <1>2. CASE Configure
    BY <1>2 DEF Configure, host, history, process
  <1>3. CASE Decline
    BY <1>3 DEF Decline, Goto, host, history, process
  <1>4. CASE ForwardingInit
    BY <1>4 DEF ForwardingInit, SetsUp, Goto, host, history, process
  <1>5. CASE TunInit
    BY <1>5 DEF TunInit, SetsUp, Goto, host, history, process
  <1>6. CASE SocketInit
    BY <1>6 DEF SocketInit, SetsUp, Goto, host, history, process
  <1>7. CASE ConfigureRouting
    BY <1>7 DEF ConfigureRouting, SetsUp, Goto, host, history, process
  <1>8. CASE EpollInit
    BY <1>8 DEF EpollInit, SetsUp, Goto, host, history, process
  <1>9. CASE EpollAdd
    BY <1>9 DEF EpollAdd, SetsUp, Goto, host, history, process
  <1>10. CASE PacketHandlerEmplace
    BY <1>10 DEF PacketHandlerEmplace, Goto, host, history, process
  <1>11. CASE StartPolling
    BY <1>11 DEF StartPolling, SetsUp, Goto, host, history, process
  <1>12. CASE EpollIsClosed
    BY <1>12 DEF EpollIsClosed, Fails, Goto, host, history, process
  <1>13. CASE RunCommand
    BY <1>13 DEF RunCommand, AddRule, RemoveRule, Undoing, Goto, host, history, process
  <1>14. CASE NatConfigured
    BY <1>14 DEF NatConfigured, Goto, host, history, process
  <1>15. CASE NatRemoved
    BY <1>15 DEF NatRemoved, Goto, host, history, process
  <1>16. CASE CommandFails
    BY <1>16 DEF CommandFails, Undoing, Goto, host, history, process
  <1>17. CASE Rollback
    BY <1>17 DEF Rollback, RemoveRule, Goto, host, history, process
  <1>18. CASE RolledBack
    BY <1>18 DEF RolledBack, AfterRollback, Goto, host, history, process
  <1>19. CASE RollbackFails
    BY <1>19 DEF RollbackFails, AfterRollback, Goto, host, history, process
  <1>20. CASE LeaveLoop
    BY <1>20 DEF LeaveLoop, Goto, host, history, process
  <1>21. CASE Return
    BY <1>21 DEF Return, Goto, host, history, process
  <1>22. CASE PacketHandlerJoined
    BY <1>22 DEF PacketHandlerJoined, NatIsInitialized, Goto, host, history, process
  <1>23. CASE RestoreForwarding
    BY <1>23 DEF RestoreForwarding, RestoredValue, Goto, host, history, process
  <1>24. CASE RestoreFails
    BY <1>24 DEF RestoreFails, Goto, host, history, process
  <1>25. CASE StartFails
    BY <1>25 DEF StartFails, Fails, Goto, host, history, process
  <1>26. CASE Stop
    BY <1>26 DEF Stop, StoppedCapture, host, history, process
  <1>27. CASE Kill
    BY <1>27 DEF Kill, Goto, host, history, process
  <1>28. CASE Restart
    BY <1>28 DEF Restart, host, history, process
  <1>29. CASE UNCHANGED vars
    BY <1>29 DEF vars, host, history, process
  <1> QED
    BY <1>1, <1>2, <1>3, <1>4, <1>5, <1>6, <1>7, <1>8, <1>9, <1>10, <1>11,
       <1>12, <1>13, <1>14, <1>15, <1>16, <1>17, <1>18, <1>19, <1>20, <1>21,
       <1>22, <1>23, <1>24, <1>25, <1>26, <1>27, <1>28, <1>29
    DEF Next, Main, StartSteps, NatSteps, EndSteps

(* Every step of configureNat, in either direction, and of its rollback    *)
(* keeps the rules what this process makes of those it found.              *)
LEMMA RulesStep == IInv /\ [Next]_vars => RulesInv'
  <1> SUFFICES ASSUME IInv, [Next]_vars PROVE RulesInv'
    OBVIOUS
  <1> USE DEF IInv, HostInv, ReadyInv, CommandsInv, RulesInv, IsAdded,
             TypeOK, Serving, Starting, Destroying, Dead, Commands
  <1>1. CASE Parse
    BY <1>1 DEF Parse, host, history, process
  <1>2. CASE Configure
    BY <1>2 DEF Configure, host, history, process
  <1>3. CASE Decline
    BY <1>3 DEF Decline, Goto, host, history, process
  <1>4. CASE ForwardingInit
    BY <1>4 DEF ForwardingInit, SetsUp, Goto, host, history, process
  <1>5. CASE TunInit
    BY <1>5 DEF TunInit, SetsUp, Goto, host, history, process
  <1>6. CASE SocketInit
    BY <1>6 DEF SocketInit, SetsUp, Goto, host, history, process
  <1>7. CASE ConfigureRouting
    BY <1>7 DEF ConfigureRouting, SetsUp, Goto, host, history, process
  <1>8. CASE EpollInit
    BY <1>8 DEF EpollInit, SetsUp, Goto, host, history, process
  <1>9. CASE EpollAdd
    BY <1>9 DEF EpollAdd, SetsUp, Goto, host, history, process
  <1>10. CASE PacketHandlerEmplace
    BY <1>10 DEF PacketHandlerEmplace, Goto, host, history, process
  <1>11. CASE StartPolling
    BY <1>11 DEF StartPolling, SetsUp, Goto, host, history, process
  <1>12. CASE EpollIsClosed
    BY <1>12 DEF EpollIsClosed, Fails, Goto, host, history, process
  <1>13. CASE RunCommand
    <2>1. /\ UNCHANGED <<pc, found, botched, runs>> /\ next \in Commands
          /\ next' = next + 1 /\ pc \in {"nat", "natOff"}
      BY <1>13 DEF RunCommand, Goto
    <2>2. \A c \in Commands : rules[c] \in Int /\ found.rules[c] \in Int
      BY SMTT(20)
    <2>3. CASE pc = "nat"
      <3>1. \A c \in Commands : rules'[c] = IF c = next THEN rules[c] + 1 ELSE rules[c]
        BY <1>13, <2>3 DEF RunCommand, Undoing, AddRule
      <3>2. \A c \in Commands : IsAdded(c)' <=> c <= next
        BY <2>1, <2>3
      <3>3. \A c \in Commands : IsAdded(c) <=> c < next
        BY <2>3
      <3>4. /\ ~botched /\ \A c \in Commands : c < next => rules[c] = found.rules[c] + 1
            /\ \A c \in Commands : ~(c < next) => rules[c] = found.rules[c]
        BY SMTT(20), <2>2, <2>3, <3>3
      <3>5. /\ \A c \in Commands : c <= next => rules'[c] = found.rules[c] + 1
            /\ \A c \in Commands : ~(c <= next) => rules'[c] = found.rules[c]
        <4> SUFFICES ASSUME NEW c \in Commands
                     PROVE  /\ c <= next => rules'[c] = found.rules[c] + 1
                            /\ ~(c <= next) => rules'[c] = found.rules[c]
          OBVIOUS
        <4> HIDE DEF ReadyInv, CommandsInv, RulesInv, TypeOK, IInv, HostInv
        <4>1. c <= next <=> c < next \/ c = next
          BY <2>1
        <4>2. c = next => ~(c < next)
          BY <2>1
        <4> QED
          BY <2>2, <3>1, <3>4, <4>1, <4>2
      <3> QED
        BY SMTT(20), <2>1, <2>2, <2>3, <3>2, <3>5
    <2>4. CASE pc = "natOff"
      <3>1. \A c \in Commands : rules'[c] = IF c = next THEN rules[c] - 1 ELSE rules[c]
        BY SMTT(20), <1>13, <2>4 DEF RunCommand, Undoing, RemoveRule
      <3>2. \A c \in Commands : IsAdded(c)' <=> c > next
        BY <2>1, <2>4
      <3>3. \A c \in Commands : IsAdded(c) <=> c >= next
        BY <2>4
      <3>4. /\ ~botched => \A c \in Commands : c >= next => rules[c] = found.rules[c] + 1
            /\ ~botched => \A c \in Commands : ~(c >= next) => rules[c] = found.rules[c]
        BY SMTT(20), <2>2, <2>4, <3>3
      <3>5. /\ ~botched => \A c \in Commands : c > next => rules'[c] = found.rules[c] + 1
            /\ ~botched => \A c \in Commands : ~(c > next) => rules'[c] = found.rules[c]
        <4>1. \A c \in Commands : c > next => c >= next /\ ~(c = next)
          BY <2>1
        <4>2. \A c \in Commands : ~(c > next) => c = next \/ ~(c >= next)
          BY <2>1
        <4>3. ASSUME NEW c \in Commands, ~botched, ~(c > next)
              PROVE  rules'[c] = found.rules[c]
          <5> HIDE DEF ReadyInv, CommandsInv, RulesInv, TypeOK, IInv, HostInv
          <5>1. CASE c = next
            BY <2>1, <2>2, <3>1, <3>4, <4>3, <5>1
          <5>2. CASE ~(c >= next)
            BY <2>2, <3>1, <3>4, <4>3, <5>2
          <5> QED
            BY <4>2, <4>3, <5>1, <5>2
        <4>4. ASSUME NEW c \in Commands, ~botched, c > next
              PROVE  rules'[c] = found.rules[c] + 1
          BY <2>2, <3>1, <3>4, <4>1, <4>4
        <4> QED
          BY <4>3, <4>4
      <3>6. \A c \in Commands : rules'[c] <= found'.rules[c] + 1
        <4> SUFFICES ASSUME NEW c \in Commands PROVE rules'[c] <= found.rules[c] + 1
          BY <2>1
        <4>1. rules[c] <= found.rules[c] + 1
          OBVIOUS
        <4> HIDE DEF ReadyInv, CommandsInv, RulesInv, TypeOK, IInv, HostInv
        <4> QED
          BY <2>2, <3>1, <4>1
      <3>7. \A c \in Commands : botched' \/ rules'[c] >= found'.rules[c]
        <4> HIDE DEF ReadyInv, CommandsInv, RulesInv, TypeOK, IInv, HostInv
        <4> QED
          BY <2>1, <2>2, <3>5
      <3>8. ~botched' => \A c \in Commands :
               rules'[c] = found'.rules[c] + IF IsAdded(c)' THEN 1 ELSE 0
        <4> HIDE DEF ReadyInv, CommandsInv, RulesInv, TypeOK, IInv, HostInv, IsAdded
        <4> QED
          BY <2>1, <2>2, <3>2, <3>5
      <3>9. /\ found'.rules \in [Commands -> 0 .. runs' - 1]
            /\ pc' \in {"parse"} \cup Starting => ~botched'
            /\ ("nat" \in ready' /\ pc' \notin {"rollbackOff"} \cup Dead) => ~botched'
            /\ pc' = "rollbackOff" => botched'
        BY <1>13, <2>1, <2>4 DEF RunCommand
      <3> HIDE DEF ReadyInv, CommandsInv, TypeOK, IInv, HostInv, IsAdded
      <3> QED
        BY <3>6, <3>7, <3>8, <3>9
    <2> QED
      BY <2>1, <2>3, <2>4
  <1>14. CASE NatConfigured
    BY <1>14 DEF NatConfigured, Goto, host, history, process
  <1>15. CASE NatRemoved
    BY <1>15 DEF NatRemoved, Goto, host, history, process
  <1>16. CASE CommandFails
    <2>1. CASE pc = "nat"
      <3>1. \A c \in Commands : c < next <=> c \in commandRun
        BY <1>16, <2>1 DEF CommandFails
      <3> QED
        BY <1>16, <2>1, <3>1 DEF CommandFails, Undoing, Goto, host
    <2>2. CASE pc = "natOff"
      BY <1>16, <2>2 DEF CommandFails, Undoing, Goto, host
    <2> QED
      BY <1>16, <2>1, <2>2 DEF CommandFails
  <1>17. CASE Rollback
    <2> PICK k \in commandRun : RemoveRule(k) /\ commandRun' = commandRun \ {k}
      BY <1>17 DEF Rollback
    <2>1. \A c \in Commands : rules'[c] = IF c = k THEN rules[c] - 1 ELSE rules[c]
      BY DEF RemoveRule
    <2>2. rules \in [Commands -> Int] /\ found.rules \in [Commands -> Int]
      OBVIOUS
    <2>3. CASE pc = "rollback"
      <3>1. /\ \A c \in commandRun : rules[c] = found.rules[c] + 1
            /\ \A c \in Commands \ commandRun : rules[c] = found.rules[c]
        <4>1. ~botched /\ \A c \in Commands : IsAdded(c) <=> c \in commandRun
          BY <2>3
        <4> QED
          BY <2>2, <2>3, <4>1
      <3>2. k \in Commands /\ commandRun' = commandRun \ {k}
        OBVIOUS
      <3>3. /\ \A c \in commandRun' : rules'[c] = found.rules[c] + 1
            /\ \A c \in Commands \ commandRun' : rules'[c] = found.rules[c]
        <4>1. \A c \in Commands : rules[c] \in Int /\ found.rules[c] \in Int
          BY <2>2
        <4>2. rules'[k] = found.rules[k]
          <5> HIDE DEF ReadyInv, CommandsInv, RulesInv, TypeOK, IInv, HostInv, Commands
          <5> QED
            BY <2>1, <3>1, <3>2, <4>1
        <4>3. \A c \in commandRun' : rules'[c] = found.rules[c] + 1
          BY <2>1, <3>1, <3>2
        <4>4. \A c \in Commands \ commandRun' : c = k \/ c \in Commands \ commandRun
          BY <3>2
        <4>5. \A c \in Commands \ commandRun' : rules'[c] = found.rules[c]
          BY <2>1, <3>1, <4>2, <4>4
        <4> QED
          BY <4>3, <4>5
      <3> QED
        BY <1>17, <2>1, <2>2, <2>3, <3>3 DEF Rollback, Goto
    <2>4. CASE pc = "rollbackOff"
      BY <1>17, <2>1, <2>2, <2>4 DEF Rollback, Goto
    <2> QED
      BY <1>17, <2>3, <2>4 DEF Rollback
  <1>18. CASE RolledBack
    BY <1>18 DEF RolledBack, AfterRollback, Goto, host, history, process
  <1>19. CASE RollbackFails
    BY <1>19 DEF RollbackFails, AfterRollback, Goto, host, history, process
  <1>20. CASE LeaveLoop
    BY <1>20 DEF LeaveLoop, Goto, host, history, process
  <1>21. CASE Return
    BY <1>21 DEF Return, Goto, host, history, process
  <1>22. CASE PacketHandlerJoined
    <2>1. UNCHANGED <<rules, found, botched, runs, ready, next, commandRun>>
      BY <1>22 DEF PacketHandlerJoined, Goto, host
    <2>2. next = 1
      BY <1>22 DEF PacketHandlerJoined
    <2>3. CASE "nat" \in ready
      <3>1. pc = "join" /\ pc' = "natOff"
        BY <1>22, <2>3 DEF PacketHandlerJoined, NatIsInitialized, Goto
      <3>2. \A c \in Commands : IsAdded(c) /\ IsAdded(c)'
        BY <2>1, <2>2, <2>3, <3>1
      <3>3. ~botched => \A c \in Commands : rules[c] = found.rules[c] + 1
        BY <3>1, <3>2
      <3>4. ~botched' => \A c \in Commands : rules'[c] = found'.rules[c] + 1
        BY <2>1, <3>3
      <3>5. /\ \A c \in Commands : rules'[c] <= found'.rules[c] + 1
            /\ \A c \in Commands : botched' \/ rules'[c] >= found'.rules[c]
            /\ found'.rules \in [Commands -> 0 .. runs' - 1]
        BY <2>1
      <3>6. ~botched' => \A c \in Commands :
              rules'[c] = found'.rules[c] + IF IsAdded(c)' THEN 1 ELSE 0
        BY <3>2, <3>4
      <3> QED
        BY <2>1, <2>3, <3>1, <3>5, <3>6
    <2>4. CASE "nat" \notin ready
      BY <1>22, <2>1, <2>2, <2>4 DEF PacketHandlerJoined, NatIsInitialized, Goto
    <2> QED
      BY <2>3, <2>4
  <1>23. CASE RestoreForwarding
    BY <1>23 DEF RestoreForwarding, RestoredValue, Goto, host, history, process
  <1>24. CASE RestoreFails
    BY <1>24 DEF RestoreFails, Goto, host, history, process
  <1>25. CASE StartFails
    BY <1>25 DEF StartFails, Fails, Goto, host, history, process
  <1>26. CASE Stop
    BY <1>26 DEF Stop, StoppedCapture, host, history, process
  <1>27. CASE Kill
    BY <1>27 DEF Kill, Goto, host, history, process
  <1>28. CASE Restart
    <2>1. /\ found'.rules = rules /\ rules' = rules /\ runs' = runs + 1
          /\ botched' = FALSE /\ pc' = "forwarding" /\ ready' = {} /\ commandRun' = {}
      BY <1>28 DEF Restart, host
    <2>2. found'.rules \in [Commands -> 0 .. runs' - 1]
      <3>1. runs' - 1 = runs
        BY <2>1
      <3> QED
        BY <2>1, <3>1
    <2>3. \A c \in Commands : rules[c] \in Int
      OBVIOUS
    <2>4. \A c \in Commands : ~IsAdded(c)'
      BY <2>1
    <2>5. \A c \in Commands : rules'[c] = found'.rules[c] /\ rules'[c] <= found'.rules[c] + 1
      BY SMTT(20), <2>1, <2>3
    <2>6. \A c \in Commands : rules'[c] >= found'.rules[c]
      BY SMTT(20), <2>1, <2>3
    <2>7. \A c \in Commands : found'.rules[c] = found'.rules[c] + 0
      BY <2>1, <2>3
    <2> HIDE DEF ReadyInv, CommandsInv, TypeOK, IInv, HostInv, Commands, IsAdded
    <2> QED
      BY <2>1, <2>2, <2>4, <2>5, <2>6, <2>7
  <1>29. CASE UNCHANGED vars
    BY <1>29 DEF vars, host, history, process
  <1> QED
    BY <1>1, <1>2, <1>3, <1>4, <1>5, <1>6, <1>7, <1>8, <1>9, <1>10, <1>11,
       <1>12, <1>13, <1>14, <1>15, <1>16, <1>17, <1>18, <1>19, <1>20, <1>21,
       <1>22, <1>23, <1>24, <1>25, <1>26, <1>27, <1>28, <1>29
    DEF Next, Main, StartSteps, NatSteps, EndSteps


-----------------------------------------------------------------------------
(* A process that has not read its command line has changed nothing.       *)
LEMMA HostInit == Init => IInv
  <1> SUFFICES ASSUME Init PROVE IInv
    OBVIOUS
  <1>1. TypeOK
    <2>1. saves \in BOOLEAN /\ interrupted \in BOOLEAN /\ heeded \in BOOLEAN /\ botched \in BOOLEAN
      BY Zenon DEF Init
    <2>2. runs = 1 /\ runs \in 1 .. MaxRuns /\ rules \in [Commands -> 0 .. runs]
      BY MaxRunsAssumption DEF Init
    <2> QED
      BY <2>1, <2>2 DEF Init, TypeOK, Starting
  <1>2. ReadyInv /\ ForwardInv /\ CommandsInv
    BY DEF Init, ReadyInv, ForwardInv, CommandsInv, Dead, Serving, AfterRoute,
           AfterSocket, AfterTun, AfterForwarding
  <1>3. RulesInv
    BY DEF Init, RulesInv, IsAdded, Serving, Starting, Dead
  <1> QED
    BY <1>1, <1>2, <1>3 DEF IInv, HostInv

(* The invariant is inductive.                                             *)
THEOREM HostInvariant == Spec => []IInv
  <1>1. IInv /\ [Next]_vars => IInv'
    BY TypeStep, ReadyStep, ForwardStep, CommandsStep, RulesStep DEF IInv, HostInv
  <1> QED
    BY HostInit, <1>1, PTL DEF Spec

(* Typing; however often the server is killed and started again, one       *)
(* process adds each iptables rule at most once.                           *)
THEOREM TypeCorrect == Spec => []TypeOK
  BY HostInvariant, PTL DEF IInv

(* The polling loop is entered, and stays, on a host on which every step   *)
(* of start() has had its effect, whatever has failed or was interrupted.  *)
THEOREM LoopOnConfiguredHost == Spec => []ConfiguredWhileServing
  <1>1. IInv => ConfiguredWhileServing
    <2> SUFFICES ASSUME IInv, pc \in {"startPolling", "poll"}
                 PROVE  /\ forward = 1 /\ {"tun", "socket", "route", "nat"} \subseteq ready
                        /\ \A c \in Commands : rules[c] = found.rules[c] + 1
      BY DEF ConfiguredWhileServing
    <2>1. pc \in Serving /\ pc \in Starting /\ pc \notin Dead
      BY DEF Serving, Starting, Dead
    <2>2. {"forwarding", "tun", "socket", "route", "nat"} \subseteq ready
      BY <2>1 DEF IInv, HostInv, ReadyInv, AfterRoute, AfterSocket, AfterTun, AfterForwarding
    <2>3. forward = 1
      BY <2>1, <2>2 DEF IInv, HostInv, ForwardInv
    <2>4. \A c \in Commands : IsAdded(c)
      BY <2>1, <2>2 DEF IsAdded
    <2>5. \A c \in Commands : rules[c] = found.rules[c] + 1
      BY <2>1, <2>4 DEF IInv, HostInv, RulesInv
    <2> QED
      BY <2>2, <2>3, <2>5
  <1> QED
    BY HostInvariant, <1>1, PTL

(* A process that exits leaves ip_forward and the rules as it found them,  *)
(* unless an iptables -D has failed.                                       *)
THEOREM ExitRestoresHost == Spec => []LeavesHostAsFound
  <1>1. IInv => LeavesHostAsFound
    <2> SUFFICES ASSUME IInv, pc = "exited", ~botched
                 PROVE  forward = found.forward /\ rules = found.rules
      BY DEF LeavesHostAsFound
    <2>1. \A c \in Commands : ~IsAdded(c)
      BY DEF IsAdded, Serving
    <2>2. rules \in [Commands -> Nat] /\ found.rules \in [Commands -> Nat]
      BY DEF IInv, HostInv, RulesInv, TypeOK
    <2>3. \A c \in Commands : rules[c] = found.rules[c]
      BY <2>1, <2>2 DEF IInv, HostInv, RulesInv
    <2>4. rules = found.rules
      BY <2>2, <2>3
    <2> QED
      BY <2>4 DEF IInv, HostInv, ForwardInv
  <1> QED
    BY HostInvariant, <1>1, PTL

(* No rule the process has not made itself is removed before an iptables   *)
(* -D has failed.                                                          *)
THEOREM ForeignRulesKept == Spec => []ForeignRulesStay
  <1>1. IInv => ForeignRulesStay
    BY DEF IInv, HostInv, RulesInv, TypeOK, ForeignRulesStay, Commands
  <1> QED
    BY HostInvariant, <1>1, PTL

-----------------------------------------------------------------------------
(* Induction over the natural numbers, for a set: from the library's       *)
(* theorems about well-founded orderings.                                  *)
LEMMA NatSets ==
    ASSUME NEW S, 0 \in S, \A n \in Nat : n \in S => n + 1 \in S
    PROVE  \A n \in Nat : n \in S
  <1> DEFINE T == {0 .. n : n \in Nat \ S}
  <1>1. SUFFICES ASSUME NEW m \in Nat, m \notin S PROVE FALSE
    OBVIOUS
  <1>2. T \subseteq FiniteSubsetsOf(Nat)
    <2> SUFFICES ASSUME NEW n \in Nat PROVE 0 .. n \in FiniteSubsetsOf(Nat)
      OBVIOUS
    <2>1. IsFiniteSet(0 .. n)
      BY FS_Interval
    <2> QED
      BY <2>1 DEF FiniteSubsetsOf
  <1>3. T # {}
    BY <1>1
  <1>4. IsWellFoundedOn(StrictSubsetOrdering(Nat), FiniteSubsetsOf(Nat))
    BY FS_StrictSubsetOrderingWellFounded
  <1>5. PICK x \in T : \A y \in T : ~(<<y, x>> \in StrictSubsetOrdering(Nat))
    <2> HIDE DEF T
    <2> QED
      BY <1>2, <1>3, <1>4, WFMin
  <1>6. PICK n \in Nat \ S : x = 0 .. n
    BY <1>5
  <1>7. n # 0 /\ n - 1 \in Nat /\ n - 1 \notin S
    BY <1>1, <1>6
  <1>8. 0 .. n - 1 \in T
    BY <1>7
  <1>9. 0 .. n - 1 \subseteq 0 .. n /\ n \in 0 .. n /\ n \notin 0 .. n - 1
    BY <1>7
  <1>10. <<0 .. n - 1, 0 .. n>> \in StrictSubsetOrdering(Nat)
    <2>1. 0 .. n - 1 \in SUBSET Nat /\ 0 .. n \in SUBSET Nat
      OBVIOUS
    <2> QED
      BY <1>9, <2>1 DEF StrictSubsetOrdering
  <1> QED
    BY <1>5, <1>6, <1>8, <1>10

(* The tokens of a preprocessed command line.                              *)
Spelt == Tokens \cup {"--port", "80", "--secret", "-x", "-t, --tun"}

LEMMA PreprocessType ==
    ASSUME NEW t \in Tokens
    PROVE  Preprocess(t) \in Seq(Spelt)
  <1>1. /\ "--port" \in Spelt /\ "80" \in Spelt /\ "--secret" \in Spelt
        /\ "-x" \in Spelt /\ t \in Spelt
    BY DEF Spelt
  <1>2. \A a, b \in Spelt : <<a>> \in Seq(Spelt) /\ <<a, b>> \in Seq(Spelt)
    OBVIOUS
  <1> QED
    BY <1>1, <1>2 DEF Preprocess

LEMMA UnderstoodType ==
    ASSUME NEW t \in Tokens
    PROVE  Understood(t) \in Seq(Spelt)
  <1>1. <<"-t, --tun">> \in Seq(Spelt)
    BY DEF Spelt
  <1> QED
    BY <1>1, PreprocessType DEF Understood

(* What the recursion in LineOf asks of a function.                        *)
Unrolls(f, tokens) ==
    f = [i \in 0 .. Len(tokens) |->
            IF i = 0 THEN << >> ELSE f[i - 1] \o Understood(tokens[i])]

(* It has exactly one solution, whose values are lines.                    *)
Unrolled(f, tokens) ==
    /\ Unrolls(f, tokens) /\ f \in [0 .. Len(tokens) -> Seq(Spelt)]
    /\ \A g : Unrolls(g, tokens) => g = f

LEMMA LineUnrolls ==
    ASSUME NEW tokens, NEW f, Unrolled(f, tokens)
    PROVE  LineOf(tokens) = f[Len(tokens)]
  <1> DEFINE F == CHOOSE g : g = [i \in 0 .. Len(tokens) |->
                     IF i = 0 THEN << >> ELSE g[i - 1] \o Understood(tokens[i])]
  <1>1. LineOf(tokens) = F[Len(tokens)]
    BY DEF LineOf
  <1>2. F = f
    BY DEF Unrolls, Unrolled
  <1> QED
    BY <1>1, <1>2

LEMMA UnrolledEmpty == Unrolled([i \in {0} |-> << >>], << >>)
  <1> DEFINE f == [i \in {0} |-> << >>]
  <1>1. Len(<< >>) = 0 /\ 0 .. 0 = {0} /\ << >> \in Seq(Spelt)
    OBVIOUS
  <1>2. Unrolls(f, << >>) /\ f \in [{0} -> Seq(Spelt)]
    BY <1>1 DEF Unrolls
  <1>3. ASSUME NEW g, Unrolls(g, << >>) PROVE g = f
    BY <1>1, <1>3 DEF Unrolls
  <1> QED
    BY <1>1, <1>2, <1>3 DEF Unrolled

(* One token more. *)
LEMMA UnrolledAppend ==
    ASSUME NEW tokens \in Seq(Tokens), NEW t \in Tokens, NEW f, Unrolled(f, tokens)
    PROVE  \E g : /\ Unrolled(g, Append(tokens, t))
                  /\ g[Len(tokens) + 1] = f[Len(tokens)] \o Understood(t)
  <1> DEFINE n == Len(tokens)
             more == Append(tokens, t)
             g == [i \in 0 .. n + 1 |-> IF i = n + 1 THEN f[n] \o Understood(t) ELSE f[i]]
  <1>1. /\ n \in Nat /\ Len(more) = n + 1 /\ more[n + 1] = t
        /\ \A i \in 1 .. n : more[i] = tokens[i]
    OBVIOUS
  <1>2. f \in [0 .. n -> Seq(Spelt)] /\ Understood(t) \in Seq(Spelt)
    BY UnderstoodType DEF Unrolled
  <1>3. f[n] \o Understood(t) \in Seq(Spelt)
    <2>1. f[n] \in Seq(Spelt)
      BY <1>1, <1>2
    <2> QED
      BY <1>2, <2>1, ConcatProperties
  <1>4. g \in [0 .. n + 1 -> Seq(Spelt)]
    BY <1>1, <1>2, <1>3
  <1>5. \A i \in 0 .. n : f[i] = IF i = 0 THEN << >> ELSE f[i - 1] \o Understood(tokens[i])
    <2>1. f = [i \in 0 .. n |-> IF i = 0 THEN << >> ELSE f[i - 1] \o Understood(tokens[i])]
      BY DEF Unrolled, Unrolls
    <2> HIDE DEF n
    <2> QED
      BY <2>1
  <1>6. Unrolls(g, more)
    <2>1. ASSUME NEW i \in 0 .. n + 1
          PROVE  g[i] = IF i = 0 THEN << >> ELSE g[i - 1] \o Understood(more[i])
      <3>1. CASE i = n + 1
        <4>1. i # 0 /\ i - 1 = n /\ n \in 0 .. n + 1 /\ n # n + 1
          BY <1>1, <3>1
        <4>2. g[i - 1] = f[n] /\ g[i] = f[n] \o Understood(t)
          BY <3>1, <4>1
        <4> HIDE DEF g, n, more
        <4> QED
          BY <1>1, <3>1, <4>1, <4>2
      <3>2. CASE i # n + 1
        <4>1. i \in 0 .. n /\ g[i] = f[i]
          BY <1>1, <3>2
        <4>2. i # 0 => i - 1 \in 0 .. n /\ g[i - 1] = f[i - 1] /\ more[i] = tokens[i]
          BY <1>1, <3>2
        <4> QED
          BY <1>5, <4>1, <4>2
      <3> QED
        BY <3>1, <3>2
    <2>2. g = [i \in 0 .. n + 1 |-> g[i]]
      BY <1>4
    <2> HIDE DEF g, n, more
    <2> QED
      BY <1>1, <2>1, <2>2 DEF Unrolls
  <1>7. ASSUME NEW h, Unrolls(h, more) PROVE h = g
    <2> DEFINE r == [i \in 0 .. n |-> h[i]]
    <2>1. h = [i \in 0 .. n + 1 |->
                  IF i = 0 THEN << >> ELSE h[i - 1] \o Understood(more[i])]
      BY <1>1, <1>7 DEF Unrolls
    <2>2. \A i \in 0 .. n + 1 :
             h[i] = IF i = 0 THEN << >> ELSE h[i - 1] \o Understood(more[i])
      <3> HIDE DEF n, more
      <3> QED
        BY <2>1
    <2>3. ASSUME NEW i \in 0 .. n
          PROVE  r[i] = IF i = 0 THEN << >> ELSE r[i - 1] \o Understood(tokens[i])
      <3>1. i \in 0 .. n + 1 /\ (i # 0 => i - 1 \in 0 .. n /\ more[i] = tokens[i])
        BY <1>1
      <3>2. r[i] = h[i] /\ (i # 0 => r[i - 1] = h[i - 1])
        BY <3>1
      <3> QED
        BY <2>2, <3>1, <3>2
    <2>4. r = [i \in 0 .. n |-> IF i = 0 THEN << >> ELSE r[i - 1] \o Understood(tokens[i])]
      <3>1. r = [i \in 0 .. n |-> r[i]]
        OBVIOUS
      <3> HIDE DEF r, n
      <3> QED
        BY <2>3, <3>1
    <2>5. Unrolls(r, tokens)
      <3> HIDE DEF r
      <3> QED
        BY <2>4 DEF Unrolls
    <2>6. r = f
      <3> HIDE DEF r, n, more, g
      <3> QED
        BY <2>5 DEF Unrolled
    <2>7. \A i \in 0 .. n : h[i] = f[i]
      BY <2>6
    <2>8. h[n + 1] = f[n] \o Understood(t)
      <3>1. n + 1 # 0 /\ n + 1 \in 0 .. n + 1 /\ n \in 0 .. n /\ (n + 1) - 1 = n
        BY <1>1
      <3>2. h[n + 1] = h[n] \o Understood(more[n + 1])
        <4> HIDE DEF n, more
        <4> QED
          BY <2>2, <3>1
      <3> QED
        BY <1>1, <2>7, <3>1, <3>2
    <2>9. h = [i \in 0 .. n + 1 |-> h[i]]
      <3> HIDE DEF n, more
      <3> QED
        BY <2>1
    <2>10. ASSUME NEW i \in 0 .. n + 1 PROVE h[i] = g[i]
      <3>1. CASE i = n + 1
        BY <2>8, <3>1
      <3>2. CASE i # n + 1
        <4>1. i \in 0 .. n
          BY <1>1, <3>2
        <4> QED
          BY <2>7, <3>2, <4>1
      <3> QED
        BY <3>1, <3>2
    <2> HIDE DEF n, g
    <2> QED
      BY <1>4, <2>9, <2>10
  <1>8. g[n + 1] = f[n] \o Understood(t)
    BY <1>1
  <1>9. Unrolled(g, more)
    <2> HIDE DEF g, n, more
    <2> QED
      BY <1>1, <1>4, <1>6, <1>7 DEF Unrolled
  <1> QED
    BY <1>8, <1>9

(* Every sequence of tokens is unrolled: induction on its length.          *)
LEMMA EveryLineUnrolls ==
    ASSUME NEW tokens \in Seq(Tokens)
    PROVE  \E f : Unrolled(f, tokens)
  <1> DEFINE S == {n \in Nat : \A s \in Seq(Tokens) : Len(s) = n => \E f : Unrolled(f, s)}
  <1>1. 0 \in S
    <2>1. ASSUME NEW s \in Seq(Tokens), Len(s) = 0 PROVE \E f : Unrolled(f, s)
      BY <2>1, UnrolledEmpty, s = << >>
    <2> QED
      BY <2>1
  <1>2. ASSUME NEW n \in Nat, n \in S PROVE n + 1 \in S
    <2>1. ASSUME NEW s \in Seq(Tokens), Len(s) = n + 1 PROVE \E f : Unrolled(f, s)
      <3> DEFINE front == SubSeq(s, 1, n)
      <3>1. /\ front \in Seq(Tokens) /\ Len(front) = n
            /\ s[n + 1] \in Tokens /\ s = Append(front, s[n + 1])
        BY <2>1
      <3>2. PICK f : Unrolled(f, front)
        BY <1>2, <3>1
      <3> HIDE DEF front
      <3> QED
        BY ZenonT(40), <3>1, <3>2, UnrolledAppend
    <2> QED
      BY <2>1
  <1> HIDE DEF S
  <1>3. Len(tokens) \in S
    BY <1>1, <1>2, NatSets
  <1> QED
    BY <1>3 DEF S

(* The line of one token more is what was there and what the token is      *)
(* split into.                                                             *)
LEMMA LineGrows ==
    ASSUME NEW tokens \in Seq(Tokens), NEW t \in Tokens
    PROVE  LineOf(Append(tokens, t)) = LineOf(tokens) \o Understood(t)
  <1>1. PICK f : Unrolled(f, tokens)
    BY EveryLineUnrolls
  <1>2. PICK g : /\ Unrolled(g, Append(tokens, t))
                 /\ g[Len(tokens) + 1] = f[Len(tokens)] \o Understood(t)
    BY <1>1, UnrolledAppend
  <1>3. Len(Append(tokens, t)) = Len(tokens) + 1
    OBVIOUS
  <1> QED
    BY <1>1, <1>2, <1>3, LineUnrolls

LEMMA LineType ==
    ASSUME NEW tokens \in Seq(Tokens)
    PROVE  LineOf(tokens) \in Seq(Spelt)
  <1>1. PICK f : Unrolled(f, tokens)
    BY EveryLineUnrolls
  <1>2. f \in [0 .. Len(tokens) -> Seq(Spelt)] /\ Len(tokens) \in 0 .. Len(tokens)
    BY <1>1 DEF Unrolled
  <1> QED
    BY <1>1, <1>2, LineUnrolls

LEMMA EmptyLine == LineOf(<< >>) = << >>
  BY UnrolledEmpty, LineUnrolls
-----------------------------------------------------------------------------
(* How far the parser has come: the tokens taken, the options of place i,  *)
(* and those that consume() is through with.                               *)
Taken == Len(Line) - Len(rest)
Named(i) == OptionsOf(Line[i])

(* Place i is the last option taken. *)
Current(i) ==
    i \in OptionPlaces /\ i <= Taken /\ \A j \in i + 1 .. Taken : IsPositional(Line[j])

Consumed(i) == Len(Named(i)) - Len(pending)

Done(i, l) == /\ i \in OptionPlaces /\ i <= Taken /\ l \in DOMAIN Named(i)
              /\ Current(i) => l <= Consumed(i)

(* Whatever is still to be written, there is no value for i at place p.    *)
NoValue(i, p) == \/ \E q \in i + 1 .. p : q \in OptionPlaces
                 \/ closed /\ p > Len(Line)

NextIsNoValue == IF rest = << >> THEN closed ELSE ~IsPositional(Head(rest))

ParserType ==
    /\ argv \in Seq(Tokens) /\ closed \in BOOLEAN
    /\ rest \in Seq(Spelt) /\ pending \in Seq(Options \cup {Unknown})
    /\ used \subseteq Options /\ values \in [Options -> Spelt \cup {Default}]
    /\ outcome \in {"parsing", "config", "usage", "exit"}

RestInv == Taken >= 0 /\ \A m \in DOMAIN rest : rest[m] = Line[Taken + m]

(* The pending options are the last ones of the current place.             *)
PendingInv ==
    /\ Taken = 0 => pending = << >>
    /\ Taken > 0 => 1 \in OptionPlaces /\ \E i \in OptionPlaces : Current(i)
    /\ \A i \in OptionPlaces : Current(i) =>
          /\ Consumed(i) >= 0
          /\ \A m \in DOMAIN pending : pending[m] = Named(i)[Consumed(i) + m]
          /\ \/ Taken = ValuePlace(i, Consumed(i))
             \/ Taken < ValuePlace(i, Consumed(i)) /\ NextIsNoValue

UsedInv ==
    /\ \A o \in used : \E i \in OptionPlaces : \E l \in DOMAIN Named(i) :
          Done(i, l) /\ Named(i)[l] = o
    /\ \A i \in OptionPlaces : \A l \in DOMAIN Named(i) :
          Done(i, l) => Named(i)[l] \in used
    /\ \A i, j \in OptionPlaces : \A k \in DOMAIN Named(i), l \in DOMAIN Named(j) :
          Done(i, k) /\ Done(j, l) /\ Named(i)[k] = Named(j)[l] => i = j /\ k = l

(* Every value taken belongs to an option, and every option that takes one *)
(* has it or can do without.                                               *)
ValuesInv ==
    /\ \A i \in OptionPlaces : \A j \in ValuesBehind(i) : j <= Taken =>
          \E l \in DOMAIN Named(i) :
              /\ Done(i, l) /\ TakesValue(Named(i)[l]) /\ ValuePlace(i, l) = j
              /\ Accepts(Named(i)[l], Line[j])
    /\ \A i \in OptionPlaces : \A l \in DOMAIN Named(i) :
          Done(i, l) /\ TakesValue(Named(i)[l]) =>
              \/ /\ ValuePlace(i, l) <= Taken
                 /\ ValuePlace(i, l) \in ValuesBehind(i)
                 /\ values[Named(i)[l]] = Line[ValuePlace(i, l)]
              \/ /\ NoValue(i, ValuePlace(i, l))
                 /\ MinArgs(Named(i)[l]) = 0
                 /\ values[Named(i)[l]] = Default
    /\ \A o \in Options : o \notin used \/ ~TakesValue(o) => values[o] = Default

ReadingInv == RestInv /\ PendingInv /\ UsedInv /\ ValuesInv

(* Of a line that names the TUN interface nothing is said.                 *)
ParserInv == /\ ParserType
             /\ \/ NamesTun
                \/ ReadsRight /\ (outcome = "parsing" => ReadingInv)

-----------------------------------------------------------------------------
LEMMA OptionsType ==
    ASSUME NEW t
    PROVE  OptionsOf(t) \in Seq(Options \cup {Unknown})
  <1>1. /\ "verbose" \in Options /\ "port" \in Options /\ "secret" \in Options
    BY DEF Options, Names
  <1> DEFINE All == Options \cup {Unknown}
  <1>2. \A a, b \in All : <<a>> \in Seq(All) /\ <<a, b>> \in Seq(All)
    OBVIOUS
  <1>3. Letters(t) \in Seq(All)
    BY <1>1, <1>2 DEF Letters
  <1>4. NamedBy(t) # {} => (CHOOSE o \in NamedBy(t) : TRUE) \in Options
    BY DEF NamedBy
  <1> HIDE DEF All
  <1> QED
    BY <1>2, <1>3, <1>4 DEF OptionsOf, All

LEMMA UnknownIsNoOption == Unknown \notin Options
  BY DEF Unknown, Options, Names

LEMMA LineInSeq == argv \in Seq(Tokens) => Line \in Seq(Spelt)
  BY LineType DEF Line

LEMMA TakersFinite ==
    ASSUME NEW i \in Nat, NEW k \in Nat
    PROVE  LET takers == {l \in 1 .. k : TakesValue(Named(i)[l])}
           IN  IsFiniteSet(takers) /\ Cardinality(takers) \in Nat
  <1> DEFINE takers == {l \in 1 .. k : TakesValue(Named(i)[l])}
  <1>1. IsFiniteSet(1 .. k) /\ takers \in SUBSET (1 .. k)
    BY FS_Interval
  <1> HIDE DEF takers
  <1> QED
    BY <1>1, FS_Subset, FS_CardinalityType DEF takers

(* Where the values of place i are. *)
LEMMA PlaceType ==
    ASSUME NEW i \in Nat, NEW k \in Nat
    PROVE  ValuePlace(i, k) \in Nat /\ ValuePlace(i, k) >= i
  <1> DEFINE takers == {l \in 1 .. k : TakesValue(Named(i)[l])}
  <1>1. Cardinality(takers) \in Nat
    BY TakersFinite
  <1>2. ValuePlace(i, k) = i + Cardinality(takers)
    BY DEF ValuePlace, Named
  <1> HIDE DEF takers
  <1> QED
    BY <1>1, <1>2

LEMMA FirstPlace ==
    ASSUME NEW i \in Nat
    PROVE  ValuePlace(i, 0) = i
  <1>1. {l \in 1 .. 0 : TakesValue(Named(i)[l])} = {}
    OBVIOUS
  <1> QED
    BY <1>1, FS_EmptySet DEF ValuePlace, Named

LEMMA NextPlace ==
    ASSUME NEW i \in Nat, NEW k \in Nat
    PROVE  ValuePlace(i, k + 1) =
               ValuePlace(i, k) + IF TakesValue(Named(i)[k + 1]) THEN 1 ELSE 0
  <1> DEFINE T(n) == {l \in 1 .. n : TakesValue(Named(i)[l])}
  <1>1. IsFiniteSet(T(k)) /\ Cardinality(T(k)) \in Nat
    BY TakersFinite
  <1>2. k + 1 \notin T(k)
    OBVIOUS
  <1>3. T(k + 1) = IF TakesValue(Named(i)[k + 1]) THEN T(k) \cup {k + 1} ELSE T(k)
    <2>1. 1 .. k + 1 = (1 .. k) \cup {k + 1}
      OBVIOUS
    <2> QED
      BY <2>1
  <1>4. Cardinality(T(k) \cup {k + 1}) = Cardinality(T(k)) + 1
    <2> HIDE DEF T
    <2> QED
      BY <1>1, <1>2, FS_AddElement
  <1>5. Cardinality(T(k + 1)) =
            Cardinality(T(k)) + IF TakesValue(Named(i)[k + 1]) THEN 1 ELSE 0
    <2> HIDE DEF T
    <2> QED
      BY <1>1, <1>3, <1>4
  <1>6. ValuePlace(i, k) = i + Cardinality(T(k)) /\ ValuePlace(i, k + 1) = i + Cardinality(T(k + 1))
    BY DEF ValuePlace, Named
  <1> HIDE DEF T
  <1> QED
    BY <1>1, <1>5, <1>6

LEMMA LaterPlace ==
    ASSUME NEW i \in Nat, NEW k \in Nat, NEW l \in Nat, k < l, TakesValue(Named(i)[l])
    PROVE  ValuePlace(i, k) < ValuePlace(i, l)
  <1> DEFINE T(n) == {m \in 1 .. n : TakesValue(Named(i)[m])}
  <1>1. IsFiniteSet(T(k)) /\ Cardinality(T(k)) \in Nat /\ IsFiniteSet(T(l))
    BY TakersFinite
  <1>2. T(k) \in SUBSET T(l) /\ l \in T(l) /\ l \notin T(k)
    OBVIOUS
  <1>3. Cardinality(T(l)) \in Nat /\ Cardinality(T(k)) < Cardinality(T(l))
    <2> HIDE DEF T
    <2>1. Cardinality(T(k)) <= Cardinality(T(l)) /\ Cardinality(T(l)) # Cardinality(T(k))
      BY <1>1, <1>2, FS_Subset
    <2>2. Cardinality(T(l)) \in Nat
      BY <1>1, FS_CardinalityType
    <2> QED
      BY <1>1, <2>1, <2>2
  <1>4. ValuePlace(i, k) = i + Cardinality(T(k)) /\ ValuePlace(i, l) = i + Cardinality(T(l))
    BY DEF ValuePlace, Named
  <1> HIDE DEF T
  <1> QED
    BY <1>1, <1>3, <1>4

(* The numbers and sequences the steps below are about.                    *)
LEMMA Reading ==
    ASSUME ParserType, RestInv
    PROVE  /\ Line \in Seq(Spelt) /\ Len(Line) \in Nat /\ Len(rest) \in Nat
           /\ Taken \in 0 .. Len(Line) /\ Len(rest) = Len(Line) - Taken
           /\ OptionPlaces \subseteq 1 .. Len(Line)
           /\ \A i : /\ Named(i) \in Seq(Options \cup {Unknown})
                     /\ Len(Named(i)) \in Nat /\ DOMAIN Named(i) = 1 .. Len(Named(i))
           /\ Len(pending) \in Nat /\ DOMAIN pending = 1 .. Len(pending)
           /\ \A i : Consumed(i) \in Int /\ Consumed(i) <= Len(Named(i))
  <1>1. Line \in Seq(Spelt) /\ Len(Line) \in Nat /\ DOMAIN Line = 1 .. Len(Line)
    BY LineInSeq DEF ParserType
  <1>2. Len(rest) \in Nat /\ Len(pending) \in Nat /\ DOMAIN pending = 1 .. Len(pending)
    BY DEF ParserType
  <1>3. ASSUME NEW i
        PROVE  /\ Named(i) \in Seq(Options \cup {Unknown})
               /\ Len(Named(i)) \in Nat /\ DOMAIN Named(i) = 1 .. Len(Named(i))
    <2>1. Named(i) \in Seq(Options \cup {Unknown})
      BY OptionsType DEF Named
    <2> QED
      BY <2>1
  <1>4. ASSUME NEW i PROVE Consumed(i) \in Int /\ Consumed(i) <= Len(Named(i))
    BY <1>2, <1>3 DEF Consumed
  <1>5. OptionPlaces \subseteq 1 .. Len(Line)
    BY <1>1 DEF OptionPlaces
  <1>6. Taken \in 0 .. Len(Line) /\ Len(rest) = Len(Line) - Taken
    BY <1>1, <1>2 DEF Taken, RestInv
  <1> QED
    BY <1>1, <1>2, <1>3, <1>4, <1>5, <1>6

(* What is taken next, and that it is the first token of rest.             *)
LEMMA NextToken ==
    ASSUME ParserType, RestInv, rest # << >>
    PROVE  /\ Taken + 1 \in 1 .. Len(Line) /\ Head(rest) = Line[Taken + 1]
           /\ Tail(rest) \in Seq(Spelt) /\ Len(Tail(rest)) = Len(rest) - 1
           /\ \A m \in 1 .. Len(rest) - 1 : Tail(rest)[m] = Line[(Taken + 1) + m]
  <1>1. rest \in Seq(Spelt) /\ Len(rest) >= 1
    BY DEF ParserType
  <1>2. Head(rest) = rest[1] /\ \A m \in 1 .. Len(rest) - 1 : Tail(rest)[m] = rest[m + 1]
    BY <1>1
  <1>3. \A m \in 1 .. Len(rest) : rest[m] = Line[Taken + m]
    BY <1>1 DEF RestInv
  <1>4. \A m \in 1 .. Len(rest) - 1 : Tail(rest)[m] = Line[Taken + (m + 1)]
    BY <1>1, <1>2, <1>3
  <1>5. Taken \in Nat /\ Len(Line) \in Nat /\ Taken + 1 <= Len(Line)
    BY <1>1, Reading
  <1> QED
    BY <1>1, <1>2, <1>3, <1>4, <1>5

(* There is one current place at most. *)
LEMMA OneCurrent ==
    ASSUME ParserType, RestInv, NEW i \in OptionPlaces, NEW j \in OptionPlaces,
           Current(i), Current(j)
    PROVE  i = j
  <1>1. i \in 1 .. Taken /\ j \in 1 .. Taken
    BY Reading DEF Current
  <1> QED
    BY <1>1, Reading DEF Current, OptionPlaces

(* The option consume() is called for. *)
AtHand(i, k) ==
    /\ i \in OptionPlaces /\ Current(i) /\ i \in 1 .. Taken
    /\ k = Consumed(i) /\ k \in Nat /\ k + 1 \in DOMAIN Named(i)
    /\ Head(pending) = Named(i)[k + 1]
    /\ \A m \in DOMAIN Tail(pending) : Tail(pending)[m] = Named(i)[(k + 1) + m]
    /\ \/ Taken = ValuePlace(i, k)
       \/ Taken < ValuePlace(i, k) /\ NextIsNoValue

LEMMA SomethingAtHand ==
    ASSUME ParserType, ReadingInv, pending # << >>
    PROVE  \E i \in OptionPlaces : AtHand(i, Consumed(i))
  <1>1. Taken # 0 /\ Taken \in Nat
    BY Reading DEF ReadingInv, PendingInv
  <1>2. PICK i \in OptionPlaces : Current(i)
    BY <1>1 DEF ReadingInv, PendingInv
  <1>3. i \in 1 .. Taken
    BY <1>2, Reading DEF Current, ReadingInv
  <1>4. /\ Consumed(i) >= 0
        /\ \A m \in DOMAIN pending : pending[m] = Named(i)[Consumed(i) + m]
        /\ \/ Taken = ValuePlace(i, Consumed(i))
           \/ Taken < ValuePlace(i, Consumed(i)) /\ NextIsNoValue
    BY <1>2 DEF ReadingInv, PendingInv
  <1>5. Len(pending) >= 1 /\ pending \in Seq(Options \cup {Unknown})
    BY DEF ParserType
  <1>6. /\ Head(pending) = pending[1] /\ DOMAIN Tail(pending) = 1 .. Len(pending) - 1
        /\ \A m \in 1 .. Len(pending) - 1 : Tail(pending)[m] = pending[m + 1]
    BY <1>5
  <1>7. Consumed(i) \in Nat /\ Consumed(i) + 1 <= Len(Named(i))
    BY <1>4, <1>5, Reading DEF Consumed, ReadingInv
  <1>8. Consumed(i) + 1 \in DOMAIN Named(i)
    BY <1>7, Reading DEF ReadingInv
  <1>9. ASSUME NEW m \in DOMAIN Tail(pending)
        PROVE  Tail(pending)[m] = Named(i)[(Consumed(i) + 1) + m]
    <2>1. m \in 1 .. Len(pending) - 1 /\ m + 1 \in DOMAIN pending
      BY <1>5, <1>6
    <2>2. Tail(pending)[m] = Named(i)[Consumed(i) + (m + 1)]
      BY <1>4, <1>6, <2>1
    <2>3. Consumed(i) + (m + 1) = (Consumed(i) + 1) + m
      BY <1>7, <2>1
    <2> QED
      BY <2>2, <2>3
  <1>10. Head(pending) = Named(i)[Consumed(i) + 1]
    BY <1>4, <1>5, <1>6
  <1> QED
    BY <1>2, <1>3, <1>4, <1>7, <1>8, <1>9, <1>10 DEF AtHand

(* If the next token is a value, it is the one of the option after those   *)
(* consumed.                                                               *)
LEMMA ValueNext ==
    ASSUME ParserType, ReadingInv, NEW i \in OptionPlaces, Current(i),
           rest # << >>, IsPositional(Head(rest))
    PROVE  /\ Taken + 1 \in ValuesBehind(i) /\ ~NextIsNoValue
           /\ Taken = ValuePlace(i, Consumed(i))
           /\ \A l \in 1 .. Consumed(i) : TakesValue(Named(i)[l]) =>
                  ValuePlace(i, l) # Taken + 1
  <1>1. Taken + 1 \in 1 .. Len(Line) /\ Head(rest) = Line[Taken + 1]
    BY NextToken DEF ReadingInv
  <1>2. i \in 1 .. Taken /\ Taken \in Nat /\ DOMAIN Line = 1 .. Len(Line)
    BY Reading DEF ReadingInv, Current
  <1>3. Taken + 1 \in ValuesBehind(i)
    <2>1. \A j \in i + 1 .. Taken + 1 : IsPositional(Line[j])
      BY <1>1, <1>2 DEF Current
    <2> QED
      BY <1>1, <1>2, <2>1 DEF ValuesBehind
  <1>4. ~NextIsNoValue
    BY DEF NextIsNoValue
  <1>5. Taken = ValuePlace(i, Consumed(i)) /\ Consumed(i) \in Nat
    BY <1>4, Reading DEF ReadingInv, PendingInv
  <1>6. ASSUME NEW l \in 1 .. Consumed(i), ValuePlace(i, l) = Taken + 1,
               TakesValue(Named(i)[l])
        PROVE  FALSE
    <2>1. CASE l = Consumed(i)
      BY <1>2, <1>5, <1>6, <2>1
    <2>2. CASE l < Consumed(i)
      <3>1. l \in DOMAIN Named(i) /\ Done(i, l)
        BY <1>2, <1>5, Reading DEF Done, ReadingInv
      <3>2. ValuePlace(i, l) <= Taken \/ NoValue(i, Taken + 1)
        BY <1>6, <3>1 DEF ReadingInv, ValuesInv
      <3>3. ~NoValue(i, Taken + 1)
        BY <1>1, <1>2, <1>3 DEF NoValue, ValuesBehind, OptionPlaces
      <3> QED
        BY <1>2, <1>6, <3>2, <3>3
    <2> QED
      BY <1>5, <2>1, <2>2
  <1> QED
    BY <1>3, <1>4, <1>5, <1>6

-----------------------------------------------------------------------------
(* Where the parser throws, the line has gone wrong. *)
LEMMA StrayValueIsWrong ==
    ASSUME ParserType, ReadingInv, StrayValue
    PROVE  ~WellFormed
  <1>1. pending = << >> /\ rest # << >> /\ IsPositional(Head(rest))
    BY DEF StrayValue
  <1>2. Taken + 1 \in 1 .. Len(Line) /\ Head(rest) = Line[Taken + 1] /\ Taken \in Nat
    BY <1>1, NextToken, Reading DEF ReadingInv
  <1>3. DOMAIN Line = 1 .. Len(Line)
    BY Reading DEF ReadingInv
  <1>4. CASE Taken = 0
    BY <1>1, <1>2, <1>3, <1>4 DEF WellFormed, OptionPlaces
  <1>5. CASE Taken # 0
    <2>1. PICK i \in OptionPlaces : Current(i)
      BY <1>2, <1>5 DEF ReadingInv, PendingInv
    <2>2. /\ Taken + 1 \in ValuesBehind(i)
          /\ \A l \in 1 .. Consumed(i) : TakesValue(Named(i)[l]) =>
                  ValuePlace(i, l) # Taken + 1
      BY <1>1, <2>1, ValueNext
    <2>3. DOMAIN Named(i) = 1 .. Consumed(i)
      BY <1>1, Reading DEF Consumed, ReadingInv
    <2> QED
      BY <2>2, <2>3 DEF WellFormed, Named
  <1> QED
    BY <1>4, <1>5

LEMMA UnknownIsWrong ==
    ASSUME ParserType, ReadingInv, UnknownArgument
    PROVE  ~WellFormed
  <1>1. PICK i \in OptionPlaces : AtHand(i, Consumed(i))
    BY SomethingAtHand DEF UnknownArgument, Consuming
  <1> QED
    BY <1>1 DEF WellFormed, AtHand, UnknownArgument, Consuming, Named

LEMMA DuplicateIsWrong ==
    ASSUME ParserType, ReadingInv, NEW o \in Options, DuplicateArgument(o)
    PROVE  ~WellFormed
  <1>1. PICK i \in OptionPlaces : AtHand(i, Consumed(i))
    BY SomethingAtHand DEF DuplicateArgument, Consuming
  <1>2. o \in used /\ o = Named(i)[Consumed(i) + 1] /\ Consumed(i) + 1 \in DOMAIN Named(i)
    BY <1>1 DEF DuplicateArgument, Consuming, IsDuplicate, AtHand
  <1>3. PICK j \in OptionPlaces : \E l \in DOMAIN Named(j) : Done(j, l) /\ Named(j)[l] = o
    BY <1>2 DEF ReadingInv, UsedInv
  <1>4. PICK l \in DOMAIN Named(j) : Done(j, l) /\ Named(j)[l] = o
    BY <1>3
  <1>5. ~(j = i /\ l = Consumed(i) + 1)
    BY <1>1, <1>4 DEF Done, AtHand
  <1> QED
    BY <1>2, <1>4, <1>5 DEF WellFormed, Named

(* The place of the value of the option at hand. *)
LEMMA PlaceAtHand ==
    ASSUME ParserType, ReadingInv, NEW i \in OptionPlaces, NEW k, AtHand(i, k),
           rest # << >>, IsPositional(Head(rest)), TakesValue(Named(i)[k + 1])
    PROVE  /\ ValuePlace(i, k + 1) = Taken + 1 /\ Taken + 1 \in ValuesBehind(i)
           /\ \A l \in DOMAIN Named(i) :
                 TakesValue(Named(i)[l]) /\ ValuePlace(i, l) = Taken + 1 => l = k + 1
  <1>1. /\ i \in Nat /\ k \in Nat /\ k = Consumed(i) /\ Taken \in Nat
        /\ Current(i) /\ DOMAIN Named(i) = 1 .. Len(Named(i)) /\ Len(Named(i)) \in Nat
    BY Reading DEF AtHand, ReadingInv
  <1>2. /\ Taken + 1 \in ValuesBehind(i) /\ Taken = ValuePlace(i, k)
        /\ \A l \in 1 .. k : TakesValue(Named(i)[l]) => ValuePlace(i, l) # Taken + 1
    BY <1>1, ValueNext
  <1>3. ValuePlace(i, k + 1) = Taken + 1
    BY <1>1, <1>2, NextPlace
  <1>4. ASSUME NEW l \in DOMAIN Named(i), TakesValue(Named(i)[l]),
               ValuePlace(i, l) = Taken + 1, l # k + 1
        PROVE  FALSE
    <2>1. l \in Nat /\ (l \in 1 .. k \/ k + 1 < l)
      BY <1>1, <1>4
    <2>2. CASE k + 1 < l
      <3>1. ValuePlace(i, k + 1) < ValuePlace(i, l)
        BY <1>1, <1>4, <2>1, <2>2, LaterPlace
      <3> QED
        BY <1>1, <1>3, <1>4, <3>1
    <2> QED
      BY <1>2, <1>4, <2>1, <2>2
  <1> QED
    BY <1>2, <1>3, <1>4

LEMMA RejectedIsWrong ==
    ASSUME ParserType, ReadingInv, NEW o \in Options, RejectValue(o)
    PROVE  ~WellFormed
  <1>1. PICK i \in OptionPlaces : AtHand(i, Consumed(i))
    BY SomethingAtHand DEF RejectValue, Consuming
  <1> DEFINE k == Consumed(i)
  <1>2. /\ o = Named(i)[k + 1] /\ TakesValue(o) /\ rest # << >>
        /\ IsPositional(Head(rest)) /\ ~Accepts(o, Head(rest))
    BY <1>1 DEF RejectValue, Consuming, HasValue, TakesValue, AtHand
  <1>3. Head(rest) = Line[Taken + 1]
    BY <1>2, NextToken DEF ReadingInv
  <1>4. /\ Taken + 1 \in ValuesBehind(i)
        /\ \A l \in DOMAIN Named(i) :
              TakesValue(Named(i)[l]) /\ ValuePlace(i, l) = Taken + 1 => l = k + 1
    <2> HIDE DEF k
    <2>1. AtHand(i, k)
      BY <1>1 DEF k
    <2> QED
      BY <1>2, <2>1, PlaceAtHand
  <1> HIDE DEF k
  <1> QED
    BY <1>2, <1>3, <1>4 DEF WellFormed, Named

LEMMA TooFewIsWrong ==
    ASSUME ParserType, ReadingInv, NEW o \in Options, TooFewArguments(o)
    PROVE  ~WellFormed
  <1>1. PICK i \in OptionPlaces : AtHand(i, Consumed(i))
    BY SomethingAtHand DEF TooFewArguments, Consuming
  <1> DEFINE k == Consumed(i)
             p == ValuePlace(i, k + 1)
  <1>2. o = Named(i)[k + 1] /\ k + 1 \in DOMAIN Named(i) /\ MinArgs(o) = 1 /\ ~HasValue(o)
    BY <1>1 DEF TooFewArguments, Consuming, AtHand
  <1>3. MaxArgs(o) = 1 /\ TakesValue(o)
    BY <1>2 DEF MinArgs, MaxArgs, TakesValue, Required
  <1>4. /\ i \in Nat /\ k \in Nat /\ Taken \in Nat /\ i <= Taken /\ Len(Line) \in Nat
        /\ Len(rest) = Len(Line) - Taken /\ DOMAIN Line = 1 .. Len(Line)
        /\ ValuePlace(i, k) \in Nat /\ Taken <= ValuePlace(i, k)
    <2>1. /\ i \in Nat /\ k \in Nat /\ Taken \in Nat /\ i <= Taken /\ Len(Line) \in Nat
          /\ Len(rest) = Len(Line) - Taken /\ DOMAIN Line = 1 .. Len(Line)
      BY <1>1, Reading DEF AtHand, ReadingInv
    <2>2. ValuePlace(i, k) \in Nat
      BY <2>1, PlaceType
    <2>3. Taken = ValuePlace(i, k) \/ Taken < ValuePlace(i, k)
      BY <1>1 DEF AtHand
    <2> HIDE DEF k
    <2> QED
      BY <2>1, <2>2, <2>3
  <1>5. p = ValuePlace(i, k) + 1
    <2> HIDE DEF k
    <2> QED
      BY <1>2, <1>3, <1>4, NextPlace DEF p
  <1>6. p \notin ValuesBehind(i)
    <2> HIDE DEF k, p
    <2> SUFFICES ASSUME p \in ValuesBehind(i) PROVE FALSE
      OBVIOUS
    <2>1. ValuePlace(i, k) \in Nat /\ p > Taken /\ p \in 1 .. Len(Line)
      BY <1>4, <1>5 DEF ValuesBehind
    <2>2. Taken + 1 \in i + 1 .. p /\ IsPositional(Line[Taken + 1])
      BY <1>4, <2>1 DEF ValuesBehind
    <2>3. rest # << >>
      BY <1>4, <2>1, Len(<< >>) = 0
    <2>4. Head(rest) = Line[Taken + 1]
      BY <2>3, NextToken DEF ReadingInv
    <2> QED
      BY <1>2, <1>3, <2>2, <2>3, <2>4 DEF HasValue
  <1> HIDE DEF k
  <1>7. MinArgs(o) # 0
    BY <1>2
  <1> QED
    BY <1>2, <1>3, <1>6, <1>7 DEF WellFormed, Named

(* At the end everything has been taken and consumed.                      *)
LEMMA EndOfLine ==
    ASSUME ParserType, ReadingInv, rest = << >>, pending = << >>
    PROVE  /\ Taken = Len(Line)
           /\ \A i \in OptionPlaces : \A l \in DOMAIN Named(i) : Done(i, l)
           /\ used = {o \in Options : PlacesOf(o) # {}}
  <1>1. Taken = Len(Line) /\ \A i : Consumed(i) = Len(Named(i))
    BY Reading DEF ReadingInv, Taken, Consumed
  <1>2. \A i \in OptionPlaces : \A l \in DOMAIN Named(i) : Done(i, l)
    BY <1>1, Reading DEF ReadingInv, Done
  <1>3. ASSUME NEW o \in Options PROVE o \in used <=> PlacesOf(o) # {}
    <2>1. PlacesOf(o) # {} <=> \E i \in OptionPlaces : \E l \in DOMAIN Named(i) : Named(i)[l] = o
      BY DEF PlacesOf, Named
    <2> QED
      BY <1>2, <2>1 DEF ReadingInv, UsedInv
  <1> QED
    BY <1>1, <1>2, <1>3 DEF ParserType

(* A line that is read to the end without an error is well-formed.         *)
LEMMA ReadIsRight ==
    ASSUME ParserType, ReadingInv, closed, rest = << >>, pending = << >>
    PROVE  WellFormed
  <1>1. /\ Taken = Len(Line) /\ Taken \in Nat /\ DOMAIN Line = 1 .. Len(Line)
        /\ \A i \in OptionPlaces : \A l \in DOMAIN Named(i) : Done(i, l)
    BY EndOfLine, Reading DEF ReadingInv
  <1>2. DOMAIN Line # {} => 1 \in OptionPlaces
    BY <1>1 DEF ReadingInv, PendingInv
  <1>3. ASSUME NEW i \in OptionPlaces, NEW k \in DOMAIN Named(i)
        PROVE  Named(i)[k] # Unknown
    BY <1>1, UnknownIsNoOption DEF ReadingInv, UsedInv, ParserType
  <1>4. ASSUME NEW i \in OptionPlaces, NEW j \in ValuesBehind(i)
        PROVE  \E k \in DOMAIN Named(i) :
                   /\ TakesValue(Named(i)[k]) /\ ValuePlace(i, k) = j
                   /\ Accepts(Named(i)[k], Line[j])
    <2>1. j <= Taken
      BY <1>1 DEF ValuesBehind
    <2> QED
      BY <2>1 DEF ReadingInv, ValuesInv
  <1>5. ASSUME NEW i \in OptionPlaces, NEW k \in DOMAIN Named(i), TakesValue(Named(i)[k])
        PROVE  ValuePlace(i, k) \in ValuesBehind(i) \/ MinArgs(Named(i)[k]) = 0
    BY <1>1, <1>5 DEF ReadingInv, ValuesInv
  <1>6. \A i, j \in OptionPlaces : \A k \in DOMAIN Named(i), l \in DOMAIN Named(j) :
            Named(i)[k] = Named(j)[l] => i = j /\ k = l
    BY <1>1 DEF ReadingInv, UsedInv
  <1> QED
    BY <1>2, <1>3, <1>4, <1>5, <1>6 DEF WellFormed, Named

(* And every option has the value the line gives it. *)
LEMMA ReadAsMeant ==
    ASSUME ParserType, ReadingInv, closed, rest = << >>, pending = << >>,
           NEW o \in Options
    PROVE  values[o] = Meant(o)
  <1> DEFINE Given(j) == \E i \in PlacesOf(o) :
                     /\ j \in ValuesBehind(i) /\ TakesValue(o)
                     /\ \E k \in DOMAIN Named(i) :
                           Named(i)[k] = o /\ ValuePlace(i, k) = j
             given == {j \in DOMAIN Line : Given(j)}
  <1>1. Meant(o) = IF given = {} THEN Default ELSE Line[CHOOSE j \in given : TRUE]
    BY DEF Meant, Named
  <1>2. /\ Taken = Len(Line) /\ DOMAIN Line = 1 .. Len(Line)
        /\ \A i \in OptionPlaces : \A l \in DOMAIN Named(i) : Done(i, l)
        /\ used = {p \in Options : PlacesOf(p) # {}}
    BY EndOfLine, Reading DEF ReadingInv
  <1>3. CASE o \notin used \/ ~TakesValue(o)
    <2>1. values[o] = Default
      BY <1>3 DEF ReadingInv, ValuesInv
    <2>2. PlacesOf(o) = {} \/ ~TakesValue(o)
      BY <1>2, <1>3
    <2> QED
      BY <1>1, <2>1, <2>2
  <1>4. CASE o \in used /\ TakesValue(o)
    <2>1. PICK i \in OptionPlaces : \E l \in DOMAIN Named(i) : Done(i, l) /\ Named(i)[l] = o
      BY <1>4 DEF ReadingInv, UsedInv
    <2>2. PICK l \in DOMAIN Named(i) : Done(i, l) /\ Named(i)[l] = o
      BY <2>1
    <2>3. i \in PlacesOf(o)
      BY <2>2 DEF PlacesOf, Named
    <2>4. ASSUME NEW j, Given(j) PROVE j = ValuePlace(i, l) /\ j \in ValuesBehind(i)
      <3>1. PICK m \in PlacesOf(o) : /\ j \in ValuesBehind(m)
                                     /\ \E k \in DOMAIN Named(m) :
                                           Named(m)[k] = o /\ ValuePlace(m, k) = j
        BY <2>4
      <3>2. PICK k \in DOMAIN Named(m) : Named(m)[k] = o /\ ValuePlace(m, k) = j
        BY <3>1
      <3>3. m \in OptionPlaces
        BY DEF PlacesOf
      <3>4. m = i /\ k = l
        BY <1>2, <2>2, <3>2, <3>3 DEF ReadingInv, UsedInv
      <3> QED
        BY <3>1, <3>2, <3>4
    <2>5. CASE ValuePlace(i, l) \in ValuesBehind(i) /\ values[o] = Line[ValuePlace(i, l)]
      <3>1. Given(ValuePlace(i, l)) /\ ValuePlace(i, l) \in DOMAIN Line
        BY <1>4, <2>2, <2>3, <2>5 DEF ValuesBehind
      <3> HIDE DEF Given
      <3>2. given = {ValuePlace(i, l)}
        BY <2>4, <3>1
      <3>3. (CHOOSE j \in {ValuePlace(i, l)} : TRUE) = ValuePlace(i, l)
        OBVIOUS
      <3> QED
        BY <1>1, <2>5, <3>2, <3>3
    <2>6. CASE NoValue(i, ValuePlace(i, l)) /\ values[o] = Default
      <3>1. ValuePlace(i, l) \notin ValuesBehind(i)
        BY <1>2, <2>6, Reading DEF ReadingInv, NoValue, ValuesBehind, OptionPlaces
      <3>2. given = {}
        <4> HIDE DEF Given
        <4> QED
          BY <2>4, <3>1
      <3> QED
        BY <1>1, <2>6, <3>2
    <2> QED
      BY <1>4, <2>2, <2>5, <2>6 DEF ReadingInv, ValuesInv
  <1> QED
    BY <1>3, <1>4

-----------------------------------------------------------------------------
(* What depends on the line only. *)
LEMMA SameLine ==
    ASSUME argv' = argv
    PROVE  /\ Line' = Line /\ OptionPlaces' = OptionPlaces
           /\ \A i : Named(i)' = Named(i) /\ ValuesBehind(i)' = ValuesBehind(i)
           /\ \A i, k : ValuePlace(i, k)' = ValuePlace(i, k)
  <1>1. Line' = Line
    BY DEF Line
  <1> QED
    BY <1>1 DEF OptionPlaces, Named, ValuesBehind, ValuePlace

LEMMA SameNoValue ==
    ASSUME argv' = argv, closed' = closed
    PROVE  \A i, p : NoValue(i, p)' <=> NoValue(i, p)
  BY SameLine DEF NoValue

(* A value is behind one place only. *)
LEMMA OneBehind ==
    ASSUME ParserType, RestInv, NEW i \in OptionPlaces, NEW j \in OptionPlaces,
           NEW p \in ValuesBehind(i), p \in ValuesBehind(j)
    PROVE  i = j
  <1>1. i \in 1 .. Len(Line) /\ j \in 1 .. Len(Line) /\ p \in 1 .. Len(Line) /\ Len(Line) \in Nat
    BY Reading DEF ValuesBehind
  <1> QED
    BY <1>1 DEF ValuesBehind, OptionPlaces

LEMMA TailDiffers ==
    ASSUME ParserType, rest # << >>
    PROVE  Tail(rest) # rest
  <1>1. Len(Tail(rest)) = Len(rest) - 1 /\ Len(rest) \in Nat
    BY DEF ParserType
  <1> SUFFICES ASSUME Tail(rest) = rest PROVE FALSE
    OBVIOUS
  <1>2. Len(Tail(rest)) = Len(rest)
    OBVIOUS
  <1> QED
    BY <1>1, <1>2

LEMMA TakenMoves ==
    ASSUME ParserType, RestInv, rest # << >>, argv' = argv, rest' = Tail(rest)
    PROVE  Taken' = Taken + 1 /\ Taken \in Nat /\ RestInv'
  <1>1. Line' = Line
    BY SameLine
  <1>2. /\ Taken + 1 \in 1 .. Len(Line) /\ Taken \in Nat /\ Len(Line) \in Nat
        /\ Len(rest) = Len(Line) - Taken
        /\ Tail(rest) \in Seq(Spelt) /\ Len(Tail(rest)) = Len(rest) - 1
        /\ \A m \in 1 .. Len(rest) - 1 : Tail(rest)[m] = Line[(Taken + 1) + m]
    BY NextToken, Reading
  <1>3. Taken' = Len(Line) - Len(Tail(rest))
    BY <1>1 DEF Taken
  <1>4. Taken' = Taken + 1
    BY <1>2, <1>3
  <1>5. DOMAIN Tail(rest) = 1 .. Len(rest) - 1
    BY <1>2
  <1>6. \A m \in DOMAIN rest' : rest'[m] = Line'[Taken' + m]
    BY <1>1, <1>2, <1>4, <1>5
  <1> QED
    BY <1>2, <1>4, <1>6 DEF RestInv

LEMMA TakeTokenStep ==
    ASSUME ParserType, ReadingInv, TakeToken
    PROVE  ReadingInv'
  <1> PICK c : c = Taken + 1
    OBVIOUS
  <1>1. /\ pending = << >> /\ rest # << >> /\ ~IsPositional(Head(rest))
        /\ pending' = OptionsOf(Head(rest)) /\ rest' = Tail(rest)
        /\ argv' = argv /\ closed' = closed /\ used' = used /\ values' = values
    BY DEF TakeToken
  <1>2. Taken' = c /\ Taken \in Nat /\ RestInv'
    BY <1>1, TakenMoves DEF ReadingInv
  <1>3. /\ c \in 1 .. Len(Line) /\ Head(rest) = Line[c] /\ DOMAIN Line = 1 .. Len(Line)
        /\ Len(Line) \in Nat
    BY <1>1, NextToken, Reading DEF ReadingInv
  <1>4. c \in OptionPlaces /\ OptionPlaces \subseteq 1 .. Len(Line)
    BY <1>1, <1>3 DEF OptionPlaces
  <1>5. /\ Line' = Line /\ OptionPlaces' = OptionPlaces
        /\ \A i : Named(i)' = Named(i) /\ ValuesBehind(i)' = ValuesBehind(i)
        /\ \A i, k : ValuePlace(i, k)' = ValuePlace(i, k)
        /\ \A i, p : NoValue(i, p)' <=> NoValue(i, p)
    BY <1>1, SameLine, SameNoValue
  <1>6. pending' = Named(c) /\ Named(c) \in Seq(Options \cup {Unknown})
    BY <1>1, <1>3, OptionsType DEF Named
  <1>7. Consumed(c)' = 0 /\ \A i : Consumed(i) = Len(Named(i)) /\ Len(Named(i)) \in Nat
    <2>1. Consumed(c)' = Len(Named(c)') - Len(pending')
      BY <1>2 DEF Consumed, Named
    <2>2. Len(Named(c)) \in Nat /\ Named(c)' = Named(c)
      BY <1>5, <1>6
    <2> QED
      BY <1>1, <1>6, <2>1, <2>2, Reading DEF Consumed, ReadingInv
  <1>8. ASSUME NEW i \in OptionPlaces PROVE Current(i)' <=> i = c
    <2>1. Current(i)' <=> i <= c /\ \A j \in i + 1 .. c : IsPositional(Line[j])
      BY <1>2, <1>5 DEF Current
    <2>2. ~IsPositional(Line[c]) /\ i \in Nat /\ c \in Nat
      BY <1>3, <1>4 DEF OptionPlaces
    <2> QED
      BY <2>1, <2>2
  <1>9. ASSUME NEW i \in OptionPlaces, NEW l \in DOMAIN Named(i)
        PROVE  Done(i, l)' <=> Done(i, l)
    <2>1. l \in 1 .. Len(Named(i)) /\ Len(Named(i)) \in Nat /\ i \in Nat
      BY <1>3, <1>4, Reading DEF ReadingInv
    <2>2. Done(i, l) <=> i <= Taken
      BY <1>7, <2>1 DEF Done
    <2>3. Done(i, l)' <=> i <= c /\ (Current(i)' => l <= Consumed(i)')
      BY <1>2, <1>5 DEF Done
    <2>4. CASE i = c
      BY <1>2, <1>7, <1>8, <2>1, <2>2, <2>3, <2>4
    <2>5. CASE i # c
      BY <1>2, <1>8, <2>1, <2>2, <2>3, <2>5
    <2> QED
      BY <2>4, <2>5
  <1>10. PendingInv'
    <2>1. Taken' # 0 /\ 1 \in OptionPlaces' /\ \E i \in OptionPlaces' : Current(i)'
      <3>1. 1 \in OptionPlaces
        BY <1>2, <1>4 DEF ReadingInv, PendingInv
      <3> QED
        BY <1>2, <1>3, <1>4, <1>5, <1>8, <3>1
    <2>2. ASSUME NEW i \in OptionPlaces', Current(i)'
          PROVE  /\ Consumed(i)' >= 0
                 /\ \A m \in DOMAIN pending' : pending'[m] = Named(i)'[Consumed(i)' + m]
                 /\ Taken' = ValuePlace(i, Consumed(i))'
      <3>1. i = c
        BY <1>5, <1>8, <2>2
      <3>2. Consumed(i)' = 0
        BY <1>7, <3>1
      <3>3. ValuePlace(i, Consumed(i))' = c
        <4>1. ValuePlace(c, 0) = c
          BY <1>3, FirstPlace
        <4> QED
          BY <1>5, <3>1, <3>2, <4>1 DEF ValuePlace
      <3>4. ASSUME NEW m \in DOMAIN pending' PROVE pending'[m] = Named(i)'[Consumed(i)' + m]
        <4>1. m \in Nat
          BY <1>6
        <4> QED
          BY <1>5, <1>6, <3>1, <3>2, <4>1
      <3> QED
        BY <1>2, <3>2, <3>3, <3>4
    <2> QED
      BY <2>1, <2>2 DEF PendingInv
  <1>11. UsedInv'
    BY <1>1, <1>5, <1>9 DEF ReadingInv, UsedInv
  <1>12. ValuesInv'
    <2>1. ASSUME NEW i \in OptionPlaces, NEW j \in ValuesBehind(i), j <= Taken'
          PROVE  j <= Taken
      <3>1. IsPositional(Line[j]) /\ j \in Nat
        BY <1>3, <1>4 DEF ValuesBehind
      <3>2. ~IsPositional(Line[c])
        BY <1>1, <1>3
      <3> QED
        BY <1>2, <2>1, <3>1, <3>2
    <2>2. ASSUME NEW i \in OptionPlaces, NEW j \in ValuesBehind(i), j <= Taken'
          PROVE  \E l \in DOMAIN Named(i) :
                     /\ Done(i, l)' /\ TakesValue(Named(i)[l]) /\ ValuePlace(i, l) = j
                     /\ Accepts(Named(i)[l], Line[j])
      BY <1>9, <2>1, <2>2 DEF ReadingInv, ValuesInv
    <2>3. ASSUME NEW i \in OptionPlaces, NEW l \in DOMAIN Named(i), Done(i, l)',
                 TakesValue(Named(i)[l])
          PROVE  \/ /\ ValuePlace(i, l) <= Taken'
                    /\ ValuePlace(i, l) \in ValuesBehind(i)
                    /\ values[Named(i)[l]] = Line[ValuePlace(i, l)]
                 \/ /\ NoValue(i, ValuePlace(i, l))
                    /\ MinArgs(Named(i)[l]) = 0
                    /\ values[Named(i)[l]] = Default
      <3>1. CASE ValuePlace(i, l) <= Taken /\ ValuePlace(i, l) \in ValuesBehind(i)
                 /\ values[Named(i)[l]] = Line[ValuePlace(i, l)]
        <4>1. ValuePlace(i, l) \in Nat
          BY <1>3, <3>1 DEF ValuesBehind
        <4> QED
          BY <1>2, <3>1, <4>1
      <3> QED
        BY <1>9, <2>3, <3>1 DEF ReadingInv, ValuesInv
    <2>4. \A i : Accepts(i, Line[i])' = Accepts(i, Line[i])
      BY <1>5 DEF Accepts
    <2>5. \A i \in OptionPlaces : \A l \in DOMAIN Named(i) :
             NoValue(i, ValuePlace(i, l))' <=> NoValue(i, ValuePlace(i, l))
      BY <1>1, <1>5 DEF NoValue
    <2> QED
      BY <1>1, <1>5, <2>2, <2>3, <2>5 DEF ReadingInv, ValuesInv, Accepts
  <1> QED
    BY <1>2, <1>10, <1>11, <1>12 DEF ReadingInv

(* One option more is consumed, with the value behind it or without.       *)
LEMMA ConsumedOne ==
    ASSUME ParserType, ReadingInv, pending # << >>,
           argv' = argv, closed' = closed, pending' = Tail(pending),
           NEW i \in OptionPlaces, NEW k, AtHand(i, k),
           \/ rest' = rest
           \/ rest # << >> /\ IsPositional(Head(rest)) /\ rest' = Tail(rest)
    PROVE  /\ RestInv' /\ Taken \in Nat /\ Taken' \in {Taken, Taken + 1}
           /\ Taken' = IF rest' = rest THEN Taken ELSE Taken + 1
           /\ \A j \in OptionPlaces : Current(j)' <=> j = i
           /\ Consumed(i)' = k + 1
           /\ \A j \in OptionPlaces : \A l \in DOMAIN Named(j) :
                 Done(j, l)' <=> Done(j, l) \/ (j = i /\ l = k + 1)
  <1>1. /\ Line' = Line /\ OptionPlaces' = OptionPlaces
        /\ \A j : Named(j)' = Named(j)
    BY SameLine
  <1>2. RestInv' /\ Taken \in Nat /\ Taken' = IF rest' = rest THEN Taken ELSE Taken + 1
    <2>1. CASE rest' = rest
      BY <1>1, <2>1, Reading DEF ReadingInv, RestInv, Taken
    <2>2. CASE rest # << >> /\ rest' = Tail(rest)
      <3>1. rest' # rest
        BY <2>2, TailDiffers
      <3> QED
        BY <2>2, <3>1, TakenMoves DEF ReadingInv
    <2> QED
      BY <2>1, <2>2
  <1>3. /\ i \in 1 .. Taken /\ Current(i) /\ k = Consumed(i) /\ k \in Nat
        /\ k + 1 \in DOMAIN Named(i)
    BY DEF AtHand
  <1>4. rest' # rest => Taken + 1 \in 1 .. Len(Line) /\ IsPositional(Line[Taken + 1])
    BY NextToken DEF ReadingInv
  <1>5. OptionPlaces \subseteq 1 .. Len(Line) /\ Len(Line) \in Nat
    BY Reading DEF ReadingInv
  <1>6. ASSUME NEW j \in OptionPlaces PROVE Current(j)' <=> j = i
    <2>1. Current(j)' <=> j <= Taken' /\ \A m \in j + 1 .. Taken' : IsPositional(Line[m])
      BY <1>1 DEF Current
    <2>2. ~IsPositional(Line[i]) /\ ~IsPositional(Line[j]) /\ j \in Nat
      BY <1>5 DEF OptionPlaces
    <2>3. \A m \in i + 1 .. Taken : IsPositional(Line[m])
      BY <1>3 DEF Current
    <2>4. CASE rest' = rest
      <3>1. Taken' = Taken
        BY <1>2, <2>4
      <3> QED
        BY <1>2, <1>3, <2>1, <2>2, <2>3, <3>1
    <2>5. CASE rest' # rest
      <3>1. Taken' = Taken + 1 /\ IsPositional(Line[Taken + 1])
        BY <1>2, <1>4, <2>5
      <3>2. ASSUME NEW m \in i + 1 .. Taken + 1 PROVE IsPositional(Line[m])
        <4>1. m \in i + 1 .. Taken \/ m = Taken + 1
          BY <1>2, <1>3
        <4> QED
          BY <2>3, <3>1, <4>1
      <3>3. CASE j < i
        <4>1. i \in j + 1 .. Taken'
          BY <1>2, <1>3, <2>2, <3>1, <3>3
        <4> QED
          BY <1>3, <2>1, <2>2, <3>3, <4>1
      <3>4. CASE i < j
        <4>1. ~(j <= Taken + 1)
          BY <1>2, <1>3, <2>2, <3>2, <3>4
        <4> QED
          BY <1>3, <2>1, <2>2, <3>1, <3>4, <4>1
      <3>5. CASE i = j
        BY <1>2, <1>3, <2>1, <3>1, <3>2, <3>5
      <3> QED
        BY <1>3, <2>2, <3>3, <3>4, <3>5
    <2> QED
      BY <2>4, <2>5
  <1>7. Consumed(i)' = k + 1
    <2>1. pending \in Seq(Options \cup {Unknown})
      BY DEF ParserType
    <2>2. Len(pending') = Len(pending) - 1 /\ Len(pending) \in Nat
      BY <2>1
    <2>3. Len(Named(i)) \in Nat /\ Consumed(i)' = Len(Named(i)) - Len(pending')
      BY <1>1, Reading DEF ReadingInv, Consumed
    <2> QED
      BY <1>3, <2>2, <2>3 DEF Consumed
  <1>8. ASSUME NEW j \in OptionPlaces, NEW l \in DOMAIN Named(j)
        PROVE  Done(j, l)' <=> Done(j, l) \/ (j = i /\ l = k + 1)
    <2>1. j \in Nat /\ l \in Nat
      BY <1>5, Reading DEF ReadingInv
    <2>2. Done(j, l)' <=> j <= Taken' /\ (Current(j)' => l <= Consumed(j)')
      BY <1>1 DEF Done
    <2>3. Done(j, l) <=> j <= Taken /\ (Current(j) => l <= Consumed(j))
      BY DEF Done
    <2>4. CASE j = i
      BY <1>2, <1>3, <1>6, <1>7, <2>1, <2>2, <2>3, <2>4
    <2>5. CASE j # i
      <3>1. ~Current(j) /\ ~Current(j)'
        BY <1>3, <1>6, <2>5, OneCurrent DEF ReadingInv
      <3>2. j <= Taken' <=> j <= Taken
        <4>1. rest' # rest => j # Taken + 1
          BY <1>4 DEF OptionPlaces
        <4> QED
          BY <1>2, <2>1, <4>1
      <3> QED
        BY <2>2, <2>3, <2>5, <3>1, <3>2
    <2> QED
      BY <2>4, <2>5
  <1> QED
    BY <1>2, <1>6, <1>7, <1>8

LEMMA ConsumedUsed ==
    ASSUME ParserType, ReadingInv, argv' = argv, NEW o, o \notin used, used' = used \cup {o},
           NEW i \in OptionPlaces, NEW k, AtHand(i, k), o = Named(i)[k + 1],
           \A j \in OptionPlaces : \A l \in DOMAIN Named(j) :
                 Done(j, l)' <=> Done(j, l) \/ (j = i /\ l = k + 1)
    PROVE  UsedInv'
  <1>1. OptionPlaces' = OptionPlaces /\ \A j : Named(j)' = Named(j)
    BY SameLine
  <1>2. k + 1 \in DOMAIN Named(i)
    BY DEF AtHand
  <1>3. ASSUME NEW p \in used'
        PROVE  \E j \in OptionPlaces : \E l \in DOMAIN Named(j) : Done(j, l)' /\ Named(j)[l] = p
    BY <1>2 DEF ReadingInv, UsedInv
  <1>4. ASSUME NEW j \in OptionPlaces, NEW l \in DOMAIN Named(j), Done(j, l)'
        PROVE  Named(j)[l] \in used'
    BY <1>4 DEF ReadingInv, UsedInv
  <1>5. ASSUME NEW j \in OptionPlaces, NEW l \in DOMAIN Named(j), Done(j, l)',
               NEW j2 \in OptionPlaces, NEW l2 \in DOMAIN Named(j2), Done(j2, l2)',
               Named(j)[l] = Named(j2)[l2]
        PROVE  j = j2 /\ l = l2
    <2>1. \A m \in OptionPlaces : \A n \in DOMAIN Named(m) : Done(m, n) => Named(m)[n] # o
      BY DEF ReadingInv, UsedInv
    <2> QED
      BY <1>5, <2>1 DEF ReadingInv, UsedInv
  <1> QED
    BY <1>1, <1>3, <1>4, <1>5 DEF UsedInv

LEMMA ConsumedPending ==
    ASSUME ParserType, ReadingInv, pending # << >>, argv' = argv, pending' = Tail(pending),
           NEW i \in OptionPlaces, NEW k, AtHand(i, k),
           Taken' \in {Taken, Taken + 1}, Consumed(i)' = k + 1,
           \A j \in OptionPlaces : Current(j)' <=> j = i,
           \/ Taken' = ValuePlace(i, k + 1)
           \/ Taken' < ValuePlace(i, k + 1) /\ NextIsNoValue'
    PROVE  PendingInv'
  <1>1. /\ OptionPlaces' = OptionPlaces /\ \A j : Named(j)' = Named(j)
        /\ \A j, n : ValuePlace(j, n)' = ValuePlace(j, n)
    BY SameLine
  <1>2. i \in 1 .. Taken /\ Taken \in Nat /\ k \in Nat
    BY Reading DEF AtHand, ReadingInv
  <1>3. Taken' # 0 /\ 1 \in OptionPlaces
    BY <1>2 DEF ReadingInv, PendingInv
  <1>4. ASSUME NEW j \in OptionPlaces, Current(j)'
        PROVE  /\ Consumed(j)' >= 0
               /\ \A m \in DOMAIN pending' : pending'[m] = Named(j)[Consumed(j)' + m]
               /\ \/ Taken' = ValuePlace(j, Consumed(j))'
                  \/ Taken' < ValuePlace(j, Consumed(j))' /\ NextIsNoValue'
    <2>1. j = i
      BY <1>4
    <2>2. ValuePlace(j, Consumed(j))' = ValuePlace(i, k + 1)
      <3>1. ValuePlace(j, Consumed(j))' = ValuePlace(i, k + 1)'
        BY <2>1 DEF ValuePlace
      <3> QED
        BY <1>1, <3>1
    <2>3. \A m \in DOMAIN pending' : pending'[m] = Named(j)[Consumed(j)' + m]
      BY <2>1 DEF AtHand
    <2> QED
      BY <1>2, <2>1, <2>2, <2>3
  <1> QED
    BY <1>1, <1>3, <1>4 DEF PendingInv

LEMMA ConsumeValueStep ==
    ASSUME ParserType, ReadingInv, NEW o \in Options, ConsumeValue(o)
    PROVE  ReadingInv'
  <1>1. /\ pending # << >> /\ o = Head(pending) /\ o \notin used /\ TakesValue(o)
        /\ rest # << >> /\ IsPositional(Head(rest)) /\ Accepts(o, Head(rest))
        /\ values' = [values EXCEPT ![o] = Head(rest)] /\ used' = used \cup {o}
        /\ pending' = Tail(pending) /\ rest' = Tail(rest)
        /\ argv' = argv /\ closed' = closed
    BY DEF ConsumeValue, Consuming, IsDuplicate, HasValue, TakesValue
  <1>2. PICK i \in OptionPlaces : AtHand(i, Consumed(i))
    BY <1>1, SomethingAtHand
  <1>3. PICK k : k = Consumed(i)
    OBVIOUS
  <1>4. AtHand(i, k) /\ o = Named(i)[k + 1] /\ k + 1 \in DOMAIN Named(i)
    BY <1>1, <1>2, <1>3 DEF AtHand
  <1>5. /\ RestInv' /\ Taken \in Nat /\ Taken' = Taken + 1
        /\ \A j \in OptionPlaces : Current(j)' <=> j = i
        /\ Consumed(i)' = k + 1
        /\ \A j \in OptionPlaces : \A l \in DOMAIN Named(j) :
              Done(j, l)' <=> Done(j, l) \/ (j = i /\ l = k + 1)
    <2>1. Tail(rest) # rest
      BY <1>1, TailDiffers
    <2> QED
      BY <1>1, <1>4, <2>1, ConsumedOne
  <1>6. /\ ValuePlace(i, k + 1) = Taken + 1 /\ Taken + 1 \in ValuesBehind(i)
        /\ Head(rest) = Line[Taken + 1]
    BY <1>1, <1>4, PlaceAtHand, NextToken DEF ReadingInv
  <1>7. UsedInv'
    BY <1>1, <1>4, <1>5, ConsumedUsed
  <1>8. PendingInv'
    BY <1>1, <1>4, <1>5, <1>6, ConsumedPending
  <1>9. /\ Line' = Line /\ OptionPlaces' = OptionPlaces
        /\ \A j : Named(j)' = Named(j) /\ ValuesBehind(j)' = ValuesBehind(j)
        /\ \A j, l : ValuePlace(j, l)' = ValuePlace(j, l)
        /\ \A j, p : NoValue(j, p)' <=> NoValue(j, p)
    BY <1>1, SameLine, SameNoValue
  <1>10. /\ values'[o] = Line[Taken + 1]
         /\ \A p \in Options : p # o => values'[p] = values[p]
    BY <1>1, <1>6 DEF ParserType
  <1>11. ValuesInv'
    <2>1. ASSUME NEW j \in OptionPlaces, NEW p \in ValuesBehind(j), p <= Taken'
          PROVE  \E l \in DOMAIN Named(j) :
                     /\ Done(j, l)' /\ TakesValue(Named(j)[l]) /\ ValuePlace(j, l) = p
                     /\ Accepts(Named(j)[l], Line[p])
      <3>1. CASE p <= Taken
        BY <1>5, <3>1 DEF ReadingInv, ValuesInv
      <3>2. CASE p = Taken + 1
        <4>1. j = i
          BY <1>6, <3>2, OneBehind DEF ReadingInv
        <4> QED
          BY <1>1, <1>4, <1>5, <1>6, <3>2, <4>1
      <3>3. p \in Nat
        BY Reading DEF ReadingInv, ValuesBehind
      <3> QED
        BY <1>5, <2>1, <3>1, <3>2, <3>3
    <2>2. ASSUME NEW j \in OptionPlaces, NEW l \in DOMAIN Named(j), Done(j, l)',
                 TakesValue(Named(j)[l])
          PROVE  \/ /\ ValuePlace(j, l) <= Taken'
                    /\ ValuePlace(j, l) \in ValuesBehind(j)
                    /\ values'[Named(j)[l]] = Line[ValuePlace(j, l)]
                 \/ /\ NoValue(j, ValuePlace(j, l))
                    /\ MinArgs(Named(j)[l]) = 0
                    /\ values'[Named(j)[l]] = Default
      <3>1. CASE j = i /\ l = k + 1
        BY <1>4, <1>5, <1>6, <1>10, <3>1
      <3>2. CASE Done(j, l)
        <4>1. Named(j)[l] \in used /\ Named(j)[l] \in Options /\ Named(j)[l] # o
          BY <1>1, <3>2 DEF ReadingInv, UsedInv, ParserType
        <4>2. values'[Named(j)[l]] = values[Named(j)[l]]
          BY <1>10, <4>1
        <4>3. CASE /\ ValuePlace(j, l) <= Taken
                   /\ ValuePlace(j, l) \in ValuesBehind(j)
                   /\ values[Named(j)[l]] = Line[ValuePlace(j, l)]
          <5>1. ValuePlace(j, l) \in Nat
            BY <4>3, Reading DEF ReadingInv, ValuesBehind
          <5> QED
            BY <1>5, <4>2, <4>3, <5>1
        <4> QED
          BY <2>2, <3>2, <4>2, <4>3 DEF ReadingInv, ValuesInv
      <3> QED
        BY <1>5, <2>2, <3>1, <3>2
    <2>3. ASSUME NEW p \in Options, p \notin used' \/ ~TakesValue(p)
          PROVE  values'[p] = Default
      BY <1>1, <1>10, <2>3 DEF ReadingInv, ValuesInv
    <2>4. \A j \in OptionPlaces : \A l \in DOMAIN Named(j) :
             NoValue(j, ValuePlace(j, l))' <=> NoValue(j, ValuePlace(j, l))
      BY <1>1, <1>9 DEF NoValue
    <2> QED
      BY <1>9, <2>1, <2>2, <2>3, <2>4 DEF ValuesInv, Accepts
  <1> QED
    BY <1>5, <1>7, <1>8, <1>11 DEF ReadingInv

LEMMA ConsumeNothingStep ==
    ASSUME ParserType, ReadingInv, NEW o \in Options, ConsumeNothing(o)
    PROVE  ReadingInv'
  <1>1. /\ pending # << >> /\ o = Head(pending) /\ o \notin used /\ MinArgs(o) = 0
        /\ closed \/ rest # << >>
        /\ values' = values /\ used' = used \cup {o} /\ ~HasValue(o)
        /\ pending' = Tail(pending) /\ rest' = rest
        /\ argv' = argv /\ closed' = closed
    BY DEF ConsumeNothing, Consuming, IsDuplicate
  <1>2. PICK i \in OptionPlaces : AtHand(i, Consumed(i))
    BY <1>1, SomethingAtHand
  <1>3. PICK k : k = Consumed(i)
    OBVIOUS
  <1>4. /\ AtHand(i, k) /\ o = Named(i)[k + 1] /\ k + 1 \in DOMAIN Named(i)
        /\ k \in Nat /\ i \in 1 .. Taken
    BY <1>1, <1>2, <1>3 DEF AtHand
  <1>5. /\ RestInv' /\ Taken \in Nat /\ Taken' = Taken
        /\ \A j \in OptionPlaces : Current(j)' <=> j = i
        /\ Consumed(i)' = k + 1
        /\ \A j \in OptionPlaces : \A l \in DOMAIN Named(j) :
              Done(j, l)' <=> Done(j, l) \/ (j = i /\ l = k + 1)
    BY <1>1, <1>4, ConsumedOne
  <1>6. TakesValue(o) => NextIsNoValue
    BY <1>1 DEF NextIsNoValue, HasValue, TakesValue
  <1>7. /\ ValuePlace(i, k) \in Nat /\ Taken <= ValuePlace(i, k)
        /\ ValuePlace(i, k + 1) = ValuePlace(i, k) + IF TakesValue(o) THEN 1 ELSE 0
        /\ Taken = ValuePlace(i, k) \/ (Taken < ValuePlace(i, k) /\ NextIsNoValue)
    <2>1. Taken = ValuePlace(i, k) \/ (Taken < ValuePlace(i, k) /\ NextIsNoValue)
      BY <1>4 DEF AtHand
    <2>2. i \in Nat /\ ValuePlace(i, k) \in Nat
      BY <1>4, <1>5, PlaceType
    <2> QED
      BY <1>4, <1>5, <2>1, <2>2, NextPlace
  <1>8. /\ Line' = Line /\ OptionPlaces' = OptionPlaces
        /\ \A j : Named(j)' = Named(j) /\ ValuesBehind(j)' = ValuesBehind(j)
        /\ \A j, l : ValuePlace(j, l)' = ValuePlace(j, l)
    BY <1>1, SameLine
  <1>9. UsedInv'
    BY <1>1, <1>4, <1>5, ConsumedUsed
  <1>10. PendingInv'
    <2>1. NextIsNoValue' <=> NextIsNoValue
      BY <1>1 DEF NextIsNoValue
    <2>2. \/ Taken' = ValuePlace(i, k + 1)
          \/ Taken' < ValuePlace(i, k + 1) /\ NextIsNoValue'
      BY <1>5, <1>6, <1>7, <2>1
    <2> QED
      BY <1>1, <1>4, <1>5, <2>2, ConsumedPending
  <1>11. TakesValue(o) => NoValue(i, ValuePlace(i, k + 1))
    <2> SUFFICES ASSUME TakesValue(o) PROVE NoValue(i, ValuePlace(i, k + 1))
      OBVIOUS
    <2>1. ValuePlace(i, k + 1) \in Nat /\ ValuePlace(i, k + 1) > Taken /\ NextIsNoValue
      BY <1>5, <1>6, <1>7
    <2>2. CASE rest = << >>
      <3>1. Taken = Len(Line) /\ closed
        BY <1>1, <2>2, Reading DEF ReadingInv, Taken
      <3> QED
        BY <2>1, <3>1 DEF NoValue
    <2>3. CASE rest # << >>
      <3>1. Taken + 1 \in OptionPlaces
        BY <2>1, <2>3, NextToken, Reading DEF ReadingInv, NextIsNoValue, OptionPlaces
      <3>2. Taken + 1 \in i + 1 .. ValuePlace(i, k + 1)
        BY <1>4, <1>5, <2>1
      <3> QED
        BY <3>1, <3>2 DEF NoValue
    <2> QED
      BY <2>2, <2>3
  <1>12. ValuesInv'
    <2>1. ASSUME NEW j \in OptionPlaces, NEW p \in ValuesBehind(j), p <= Taken'
          PROVE  \E l \in DOMAIN Named(j) :
                     /\ Done(j, l)' /\ TakesValue(Named(j)[l]) /\ ValuePlace(j, l) = p
                     /\ Accepts(Named(j)[l], Line[p])
      BY <1>5, <2>1 DEF ReadingInv, ValuesInv
    <2>2. ASSUME NEW j \in OptionPlaces, NEW l \in DOMAIN Named(j), Done(j, l)',
                 TakesValue(Named(j)[l])
          PROVE  \/ /\ ValuePlace(j, l) <= Taken'
                    /\ ValuePlace(j, l) \in ValuesBehind(j)
                    /\ values'[Named(j)[l]] = Line[ValuePlace(j, l)]
                 \/ /\ NoValue(j, ValuePlace(j, l))
                    /\ MinArgs(Named(j)[l]) = 0
                    /\ values'[Named(j)[l]] = Default
      <3>1. CASE j = i /\ l = k + 1
        <4>1. values[o] = Default
          BY <1>1 DEF ReadingInv, ValuesInv
        <4> QED
          BY <1>1, <1>4, <1>11, <2>2, <3>1, <4>1
      <3>2. CASE Done(j, l)
        BY <1>1, <1>5, <2>2, <3>2 DEF ReadingInv, ValuesInv
      <3> QED
        BY <1>5, <2>2, <3>1, <3>2
    <2>3. ASSUME NEW p \in Options, p \notin used' \/ ~TakesValue(p)
          PROVE  values'[p] = Default
      BY <1>1, <2>3 DEF ReadingInv, ValuesInv
    <2>4. \A j \in OptionPlaces : \A l \in DOMAIN Named(j) :
             NoValue(j, ValuePlace(j, l))' <=> NoValue(j, ValuePlace(j, l))
      BY <1>1, <1>8 DEF NoValue
    <2> QED
      BY <1>8, <2>1, <2>2, <2>3, <2>4 DEF ValuesInv, Accepts
  <1> QED
    BY <1>5, <1>9, <1>10, <1>12 DEF ReadingInv

LEMMA CloseStep ==
    ASSUME ParserType, ReadingInv, Close
    PROVE  ReadingInv'
  <1>1. /\ ~closed /\ closed' /\ argv' = argv /\ rest' = rest /\ pending' = pending
        /\ used' = used /\ values' = values
    BY DEF Close
  <1>2. /\ Line' = Line /\ OptionPlaces' = OptionPlaces /\ Taken' = Taken
        /\ \A j : Named(j)' = Named(j) /\ ValuesBehind(j)' = ValuesBehind(j)
        /\ \A j, l : ValuePlace(j, l)' = ValuePlace(j, l)
    BY <1>1, SameLine DEF Taken
  <1>3. /\ \A j : Current(j)' <=> Current(j)
        /\ \A j : Consumed(j)' = Consumed(j)
        /\ \A j, l : Done(j, l)' <=> Done(j, l)
    <2>1. \A j : Current(j)' <=> Current(j)
      BY <1>2 DEF Current
    <2>2. \A j : Consumed(j)' = Consumed(j)
      BY <1>1, <1>2 DEF Consumed
    <2> QED
      BY <1>2, <2>1, <2>2 DEF Done
  <1>4. NextIsNoValue => NextIsNoValue'
    BY <1>1 DEF NextIsNoValue
  <1>5. \A j, p : NoValue(j, p) => NoValue(j, p)'
    BY <1>1, <1>2 DEF NoValue
  <1>6. RestInv'
    BY <1>1, <1>2 DEF ReadingInv, RestInv
  <1>7. \A j : ValuePlace(j, Consumed(j))' = ValuePlace(j, Consumed(j))
    BY <1>2, <1>3 DEF ValuePlace
  <1>8. PendingInv'
    BY <1>1, <1>2, <1>3, <1>4, <1>7 DEF ReadingInv, PendingInv
  <1>9. UsedInv'
    BY <1>1, <1>2, <1>3 DEF ReadingInv, UsedInv
  <1>10. \A j \in OptionPlaces : \A l \in DOMAIN Named(j) :
             NoValue(j, ValuePlace(j, l)) => NoValue(j, ValuePlace(j, l))'
    BY <1>1, <1>2 DEF NoValue
  <1>11. ValuesInv'
    BY <1>1, <1>2, <1>3, <1>10 DEF ReadingInv, ValuesInv, Accepts
  <1> QED
    BY <1>6, <1>8, <1>9, <1>11 DEF ReadingInv

(* A token more leaves what has been taken as it is.                       *)
LEMMA WriteLine ==
    ASSUME ParserType, RestInv, NEW t \in Tokens \ DocumentedTun, Write(t)
    PROVE  /\ Taken' = Taken /\ RestInv' /\ Len(Line) \in Nat /\ Len(Line') >= Len(Line)
           /\ Len(Line') \in Nat
           /\ \A i \in 1 .. Len(Line) : Line'[i] = Line[i]
           /\ \A i \in 1 .. Len(Line) : i \in OptionPlaces' <=> i \in OptionPlaces
           /\ OptionPlaces \subseteq OptionPlaces'
           /\ rest # << >> => rest' # << >> /\ Head(rest') = Head(rest)
  <1> DEFINE new == Preprocess(t)
  <1>1. new \in Seq(Spelt) /\ Line \in Seq(Spelt) /\ rest \in Seq(Spelt)
    BY PreprocessType, Reading DEF ParserType
  <1>2. Line' = Line \o new /\ rest' = rest \o new
    BY LineGrows DEF Write, Line, ParserType, Understood
  <1> HIDE DEF new
  <1>3. /\ Len(Line') = Len(Line) + Len(new) /\ Len(rest') = Len(rest) + Len(new)
        /\ Len(Line) \in Nat /\ Len(rest) \in Nat /\ Len(new) \in Nat
        /\ \A i \in 1 .. Len(Line) : Line'[i] = Line[i]
        /\ \A i \in 1 .. Len(new) : Line'[Len(Line) + i] = new[i]
        /\ \A i \in 1 .. Len(rest) : rest'[i] = rest[i]
        /\ \A i \in 1 .. Len(new) : rest'[Len(rest) + i] = new[i]
        /\ DOMAIN rest' = 1 .. Len(rest) + Len(new)
        /\ DOMAIN Line' = 1 .. Len(Line) + Len(new) /\ DOMAIN Line = 1 .. Len(Line)
        /\ rest' \in Seq(Spelt)
    BY <1>1, <1>2
  <1>4. Taken' = Taken /\ Taken = Len(Line) - Len(rest)
    BY <1>3 DEF Taken
  <1>5. ASSUME NEW m \in DOMAIN rest' PROVE rest'[m] = Line'[Taken' + m]
    <2>1. CASE m <= Len(rest)
      <3>1. m \in 1 .. Len(rest) /\ m \in DOMAIN rest /\ Taken + m \in 1 .. Len(Line)
        BY <1>1, <1>3, <2>1, Reading
      <3>2. rest[m] = Line[Taken + m]
        BY <3>1 DEF RestInv
      <3> QED
        BY <1>3, <1>4, <3>1, <3>2
    <2>2. CASE m > Len(rest)
      <3>0. m \in 1 .. Len(rest) + Len(new)
        BY <1>3
      <3>1. m - Len(rest) \in 1 .. Len(new) /\ m = Len(rest) + (m - Len(rest))
            /\ Taken + m = Len(Line) + (m - Len(rest))
        <4> HIDE DEF Taken, Line
        <4>1. Len(Line) \in Nat /\ Len(rest) \in Nat /\ Len(new) \in Nat
          BY <1>3
        <4> QED
          BY <1>4, <2>2, <3>0, <4>1
      <3> QED
        BY <1>3, <1>4, <3>1
    <2> QED
      BY <1>3, <2>1, <2>2
  <1>6. \A i \in 1 .. Len(Line) : i \in OptionPlaces' <=> i \in OptionPlaces
    BY <1>3 DEF OptionPlaces
  <1>7. OptionPlaces \subseteq OptionPlaces'
    BY <1>3 DEF OptionPlaces
  <1>8. rest # << >> => rest' # << >> /\ Head(rest') = Head(rest)
    <2> SUFFICES ASSUME rest # << >> PROVE rest' # << >> /\ Head(rest') = Head(rest)
      OBVIOUS
    <2>1. Len(rest) >= 1 /\ Head(rest) = rest[1]
      BY <1>1
    <2>2. Len(rest') >= 1 /\ rest'[1] = rest[1]
      BY <1>3, <2>1
    <2> QED
      BY <1>3, <2>1, <2>2
  <1>9. RestInv'
    BY <1>4, <1>5, Reading DEF RestInv
  <1> QED
    BY <1>3, <1>4, <1>6, <1>7, <1>8, <1>9

LEMMA WriteStep ==
    ASSUME ParserType, ReadingInv, NEW t \in Tokens \ DocumentedTun, Write(t)
    PROVE  ReadingInv'
  <1>1. /\ ~closed /\ closed' = closed /\ pending' = pending
        /\ used' = used /\ values' = values
    BY DEF Write
  <1>2. /\ Taken' = Taken /\ RestInv' /\ Len(Line) \in Nat /\ Len(Line') >= Len(Line)
        /\ Len(Line') \in Nat
        /\ \A i \in 1 .. Len(Line) : Line'[i] = Line[i]
        /\ \A i \in 1 .. Len(Line) : i \in OptionPlaces' <=> i \in OptionPlaces
        /\ OptionPlaces \subseteq OptionPlaces'
        /\ rest # << >> => rest' # << >> /\ Head(rest') = Head(rest)
    BY WriteLine DEF ReadingInv
  <1>3. Taken \in 0 .. Len(Line) /\ OptionPlaces \subseteq 1 .. Len(Line) /\ Taken \in Nat
        /\ DOMAIN Line = 1 .. Len(Line)
    BY Reading DEF ReadingInv
  <1>4. DOMAIN Line' = 1 .. Len(Line') /\ OptionPlaces' \subseteq 1 .. Len(Line')
    <2>1. Line' \in Seq(Spelt)
      <3>1. Append(argv, t) \in Seq(Tokens)
        BY DEF ParserType
      <3> QED
        BY <3>1, LineType DEF Write, Line
    <2> QED
      BY <2>1 DEF OptionPlaces
  <1>5. /\ \A i \in 1 .. Len(Line) : Named(i)' = Named(i)
        /\ \A i \in 1 .. Len(Line) : \A k : ValuePlace(i, k)' = ValuePlace(i, k)
    BY <1>2 DEF Named, ValuePlace
  <1>6. ASSUME NEW i \in OptionPlaces', i <= Taken
        PROVE  i \in OptionPlaces /\ i \in 1 .. Len(Line)
    BY <1>2, <1>3, <1>4, <1>6
  <1>7. ASSUME NEW i \in OptionPlaces PROVE Current(i)' <=> Current(i)
    BY <1>2, <1>3 DEF Current
  <1>8. ASSUME NEW i \in OptionPlaces, NEW l
        PROVE  Done(i, l)' <=> Done(i, l)
    <2>1. Consumed(i)' = Consumed(i)
      BY <1>1, <1>3, <1>5 DEF Consumed
    <2> QED
      BY <1>2, <1>3, <1>5, <1>7, <2>1 DEF Done
  <1>9. ASSUME NEW i \in OptionPlaces', NEW l, Done(i, l)'
        PROVE  i \in OptionPlaces /\ i \in 1 .. Len(Line)
    BY <1>2, <1>6, <1>9 DEF Done
  <1>10. ASSUME NEW i \in OptionPlaces', NEW j \in ValuesBehind(i)', j <= Taken'
         PROVE  i \in OptionPlaces /\ j \in ValuesBehind(i) /\ Line'[j] = Line[j]
    <2>1. j > i /\ j \in 1 .. Len(Line) /\ i \in Nat /\ \A k \in i + 1 .. j : IsPositional(Line'[k])
      BY <1>2, <1>3, <1>4, <1>10 DEF ValuesBehind
    <2>2. i \in OptionPlaces
      BY <1>2, <1>3, <1>6, <1>10, <2>1
    <2>3. \A k \in i + 1 .. j : IsPositional(Line[k])
      BY <1>2, <2>1
    <2> QED
      BY <1>2, <1>3, <2>1, <2>2, <2>3 DEF ValuesBehind
  <1>11. PendingInv'
    <2>1. Taken' > 0 => 1 \in OptionPlaces' /\ \E i \in OptionPlaces' : Current(i)'
      BY <1>2, <1>7 DEF ReadingInv, PendingInv
    <2>2. ASSUME NEW i \in OptionPlaces', Current(i)'
          PROVE  /\ Consumed(i)' >= 0
                 /\ \A m \in DOMAIN pending' : pending'[m] = Named(i)'[Consumed(i)' + m]
                 /\ \/ Taken' = ValuePlace(i, Consumed(i))'
                    \/ Taken' < ValuePlace(i, Consumed(i))' /\ NextIsNoValue'
      <3>1. i \in OptionPlaces /\ i \in 1 .. Len(Line)
        BY <1>2, <1>6, <2>2 DEF Current
      <3>2. Named(i)' = Named(i) /\ Consumed(i)' = Consumed(i) /\ Current(i)
        BY <1>1, <1>5, <1>7, <2>2, <3>1 DEF Consumed
      <3>3. ValuePlace(i, Consumed(i))' = ValuePlace(i, Consumed(i))
        BY <1>2, <3>1, <3>2 DEF ValuePlace
      <3>4. NextIsNoValue => NextIsNoValue'
        BY <1>1, <1>2 DEF NextIsNoValue
      <3> QED
        BY <1>1, <1>2, <3>1, <3>2, <3>3, <3>4 DEF ReadingInv, PendingInv
    <2> QED
      BY <1>1, <1>2, <2>1, <2>2 DEF ReadingInv, PendingInv
  <1>12. UsedInv'
    <2>1. ASSUME NEW o \in used
          PROVE  \E i \in OptionPlaces' : \E l \in DOMAIN Named(i)' : Done(i, l)' /\ Named(i)'[l] = o
      <3>1. PICK i \in OptionPlaces : \E l \in DOMAIN Named(i) : Done(i, l) /\ Named(i)[l] = o
        BY DEF ReadingInv, UsedInv
      <3>2. i \in OptionPlaces' /\ Named(i)' = Named(i) /\ \A l : Done(i, l)' <=> Done(i, l)
        BY <1>2, <1>3, <1>5, <1>8
      <3> QED
        BY <3>1, <3>2
    <2>2. ASSUME NEW i \in OptionPlaces', NEW l \in DOMAIN Named(i)', Done(i, l)'
          PROVE  i \in OptionPlaces /\ Named(i)' = Named(i) /\ Done(i, l)
      BY <1>5, <1>8, <1>9, <2>2
    <2>3. \A i \in OptionPlaces' : \A l \in DOMAIN Named(i)' : Done(i, l)' => Named(i)'[l] \in used
      BY <2>2 DEF ReadingInv, UsedInv
    <2>4. ASSUME NEW i \in OptionPlaces', NEW j \in OptionPlaces',
                 NEW k \in DOMAIN Named(i)', NEW l \in DOMAIN Named(j)',
                 Done(i, k)', Done(j, l)', Named(i)'[k] = Named(j)'[l]
          PROVE  i = j /\ k = l
      BY <2>2, <2>4 DEF ReadingInv, UsedInv
    <2> QED
      BY <1>1, <2>1, <2>3, <2>4 DEF UsedInv
  <1>13. ValuesInv'
    <2>1. ASSUME NEW i \in OptionPlaces', NEW j \in ValuesBehind(i)', j <= Taken'
          PROVE  \E l \in DOMAIN Named(i)' :
              /\ Done(i, l)' /\ TakesValue(Named(i)'[l]) /\ ValuePlace(i, l)' = j
              /\ Accepts(Named(i)'[l], Line'[j])
      <3>1. i \in OptionPlaces /\ j \in ValuesBehind(i) /\ Line'[j] = Line[j]
        BY <1>10, <2>1
      <3>2. \E l \in DOMAIN Named(i) :
              /\ Done(i, l) /\ TakesValue(Named(i)[l]) /\ ValuePlace(i, l) = j
              /\ Accepts(Named(i)[l], Line[j])
        BY <1>2, <2>1, <3>1 DEF ReadingInv, ValuesInv
      <3> QED
        BY <1>3, <1>5, <1>8, <3>1, <3>2
    <2>2. ASSUME NEW i \in OptionPlaces', NEW l \in DOMAIN Named(i)',
                 Done(i, l)', TakesValue(Named(i)'[l])
          PROVE  \/ /\ ValuePlace(i, l)' <= Taken'
                    /\ ValuePlace(i, l)' \in ValuesBehind(i)'
                    /\ values'[Named(i)'[l]] = Line'[ValuePlace(i, l)']
                 \/ /\ NoValue(i, ValuePlace(i, l))'
                    /\ MinArgs(Named(i)'[l]) = 0
                    /\ values'[Named(i)'[l]] = Default
      <3>1. /\ i \in OptionPlaces /\ i \in 1 .. Len(Line) /\ Named(i)' = Named(i)
            /\ Done(i, l) /\ ValuePlace(i, l)' = ValuePlace(i, l)
        BY <1>5, <1>8, <1>9, <2>2
      <3>2. CASE /\ ValuePlace(i, l) <= Taken /\ ValuePlace(i, l) \in ValuesBehind(i)
                 /\ values[Named(i)[l]] = Line[ValuePlace(i, l)]
        <4>1. ValuePlace(i, l) \in 1 .. Len(Line)
          BY <1>3, <3>2 DEF ValuesBehind
        <4>2. ValuePlace(i, l) \in ValuesBehind(i)'
          BY <1>2, <1>3, <1>4, <3>1, <3>2, <4>1 DEF ValuesBehind
        <4> QED
          BY <1>1, <1>2, <3>1, <3>2, <4>1, <4>2
      <3>3. CASE /\ NoValue(i, ValuePlace(i, l)) /\ MinArgs(Named(i)[l]) = 0
                 /\ values[Named(i)[l]] = Default
        <4>1. NoValue(i, ValuePlace(i, l))'
          BY <1>1, <1>2, <3>1, <3>3 DEF NoValue
        <4> QED
          BY <1>1, <3>1, <3>3, <4>1
      <3> QED
        BY <2>2, <3>1, <3>2, <3>3 DEF ReadingInv, ValuesInv
    <2>3. \A o \in Options : o \notin used' \/ ~TakesValue(o) => values'[o] = Default
      BY <1>1 DEF ReadingInv, ValuesInv
    <2> QED
      BY <2>1, <2>2, <2>3 DEF ValuesInv, Accepts
  <1> QED
    BY <1>2, <1>11, <1>12, <1>13 DEF ReadingInv

(* A step of the parser keeps the types.                                   *)
LEMMA ParserTypeStep ==
    ASSUME ParserType, ParseArgs
    PROVE  ParserType'
  <1>1. ASSUME NEW t \in Tokens, Write(t) PROVE ParserType'
    <2>1. Preprocess(t) \in Seq(Spelt)
      BY PreprocessType
    <2> QED
      BY <1>1, <2>1 DEF Write, ParserType
  <1>2. CASE Close
    BY <1>2 DEF Close, ParserType
  <1>3. CASE StrayValue
    BY <1>3 DEF StrayValue, Throw, ParserType
  <1>4. CASE TakeToken
    <2>1. OptionsOf(Head(rest)) \in Seq(Options \cup {Unknown})
      BY OptionsType
    <2>2. Tail(rest) \in Seq(Spelt)
      BY <1>4 DEF TakeToken, ParserType
    <2> QED
      BY <1>4, <2>1, <2>2 DEF TakeToken, ParserType
  <1>5. CASE UnknownArgument
    BY <1>5 DEF UnknownArgument, Throw, ParserType
  <1>6. CASE ExitWithHelp
    BY <1>6 DEF ExitWithHelp, ParserType
  <1>7. ASSUME NEW o \in Options, DuplicateArgument(o) PROVE ParserType'
    BY <1>7 DEF DuplicateArgument, Throw, ParserType
  <1>8. ASSUME NEW o \in Options, ConsumeValue(o) PROVE ParserType'
    <2>1. rest # << >> /\ pending # << >>
      BY <1>8 DEF ConsumeValue, HasValue, Consuming
    <2>2. Head(rest) \in Spelt /\ Tail(rest) \in Seq(Spelt)
          /\ Tail(pending) \in Seq(Options \cup {Unknown})
      BY <2>1 DEF ParserType
    <2> QED
      BY <1>8, <2>2 DEF ConsumeValue, ParserType
  <1>9. ASSUME NEW o \in Options, RejectValue(o) PROVE ParserType'
    BY <1>9 DEF RejectValue, Throw, ParserType
  <1>10. ASSUME NEW o \in Options, ConsumeNothing(o) PROVE ParserType'
    <2>1. Tail(pending) \in Seq(Options \cup {Unknown})
      BY <1>10 DEF ConsumeNothing, Consuming, ParserType
    <2> QED
      BY <1>10, <2>1 DEF ConsumeNothing, ParserType
  <1>11. ASSUME NEW o \in Options, TooFewArguments(o) PROVE ParserType'
    BY <1>11 DEF TooFewArguments, Throw, ParserType
  <1>12. CASE Validate
    BY <1>12 DEF Validate, ParserType
  <1> QED
    BY <1>1, <1>2, <1>3, <1>4, <1>5, <1>6, <1>7, <1>8, <1>9, <1>10, <1>11, <1>12
    DEF ParseArgs

(* What is right about a line depends on the line alone.                   *)
LEMMA SameGrammar ==
    ASSUME argv' = argv
    PROVE  /\ WellFormed' <=> WellFormed
           /\ \A o : PlacesOf(o)' = PlacesOf(o) /\ Meant(o)' = Meant(o)
  <1>1. WellFormed' <=> WellFormed
    <2>1. Line' = Line
      BY SameLine
    <2> QED
      BY <2>1 DEF WellFormed, OptionPlaces, ValuesBehind, ValuePlace
  <1>2. ASSUME NEW o PROVE PlacesOf(o)' = PlacesOf(o) /\ Meant(o)' = Meant(o)
    <2>1. Line' = Line
      BY SameLine
    <2> QED
      BY <2>1 DEF PlacesOf, Meant, OptionPlaces, ValuesBehind, ValuePlace
  <1> QED
    BY <1>1, <1>2

(* What the parser keeps says the same as long as nobody touches it.       *)
LEMMA SameReading ==
    ASSUME ReadingInv, argv' = argv, closed' = closed, rest' = rest, pending' = pending,
           used' = used, values' = values
    PROVE  ReadingInv'
  <1>1. /\ Line' = Line /\ OptionPlaces' = OptionPlaces /\ Taken' = Taken
        /\ \A j : Named(j)' = Named(j) /\ ValuesBehind(j)' = ValuesBehind(j)
        /\ \A j, l : ValuePlace(j, l)' = ValuePlace(j, l)
    BY SameLine DEF Taken
  <1>2. \A j : Current(j)' <=> Current(j)
    BY <1>1 DEF Current
  <1>3. \A j : Consumed(j)' = Consumed(j)
    BY <1>1 DEF Consumed
  <1>4. \A j, l : Done(j, l)' <=> Done(j, l)
    BY <1>1, <1>2, <1>3 DEF Done
  <1>5. NextIsNoValue => NextIsNoValue'
    BY DEF NextIsNoValue
  <1>6. RestInv'
    BY <1>1 DEF ReadingInv, RestInv
  <1>7. \A j : ValuePlace(j, Consumed(j))' = ValuePlace(j, Consumed(j))
    BY <1>1, <1>3 DEF ValuePlace
  <1>8. PendingInv'
    BY <1>1, <1>2, <1>3, <1>5, <1>7 DEF ReadingInv, PendingInv
  <1>9. UsedInv'
    BY <1>1, <1>4 DEF ReadingInv, UsedInv
  <1>10. \A j \in OptionPlaces : \A l \in DOMAIN Named(j) :
             NoValue(j, ValuePlace(j, l)) => NoValue(j, ValuePlace(j, l))'
    BY <1>1 DEF NoValue
  <1>11. ValuesInv'
    BY <1>1, <1>4, <1>10 DEF ReadingInv, ValuesInv, Accepts
  <1> QED
    BY <1>6, <1>8, <1>9, <1>11 DEF ReadingInv

(* While tokens are read there is no verdict.                              *)
LEMMA Unjudged ==
    ASSUME ParserType', ReadingInv', outcome' = "parsing"
    PROVE  ParserInv'
  BY DEF ParserInv, ReadsRight

(* An error is reported only for a line that is wrong.                     *)
LEMMA ThrownIsRight ==
    ASSUME ParserType', ~WellFormed, Throw
    PROVE  ParserInv'
  <1>1. ~WellFormed' /\ outcome' = "usage"
    BY SameGrammar DEF Throw
  <1> QED
    BY <1>1 DEF ParserInv, ReadsRight

LEMMA ValidateStep ==
    ASSUME ParserType, ParserType', ReadingInv, Validate
    PROVE  ParserInv'
  <1>1. /\ closed /\ rest = << >> /\ pending = << >> /\ argv' = argv /\ closed' = closed
        /\ used' = used /\ values' = values
        /\ outcome' = IF Required \subseteq used THEN "config" ELSE "usage"
    BY DEF Validate
  <1>2. used = {o \in Options : PlacesOf(o) # {}}
    BY <1>1, EndOfLine
  <1>3. WellFormed /\ \A o \in Options : values[o] = Meant(o)
    BY <1>1, ReadIsRight, ReadAsMeant
  <1>4. WellFormed' /\ \A o : PlacesOf(o)' = PlacesOf(o) /\ Meant(o)' = Meant(o)
    BY <1>1, <1>3, SameGrammar
  <1>5. Required \subseteq Options
    BY DEF Required, Options, Names
  <1>6. CASE Required \subseteq used
    BY <1>1, <1>2, <1>3, <1>4, <1>6 DEF ParserInv, ReadsRight
  <1>7. CASE ~(Required \subseteq used)
    <2>1. PICK o \in Required : PlacesOf(o) = {}
      BY <1>2, <1>5, <1>7
    <2>2. PlacesOf(o)' = {} /\ closed' /\ outcome' = "usage"
      BY <1>1, <1>4, <1>7, <2>1
    <2> QED
      BY <2>2 DEF ParserInv, ReadsRight
  <1> QED
    BY <1>6, <1>7

(* A token that has been written stays.                                    *)
LEMMA TunStaysNamed ==
    ASSUME ParserType, ParseArgs
    PROVE  /\ NamesTun => NamesTun'
           /\ \A t \in DocumentedTun : Write(t) => NamesTun'
  <1>1. ASSUME NEW t, t \in Tokens \cup DocumentedTun, Write(t)
        PROVE  (NamesTun => NamesTun') /\ (t \in DocumentedTun => NamesTun')
    <2>1. argv' = Append(argv, t) /\ argv \in Seq(Tokens) /\ Len(argv) \in Nat
      BY <1>1 DEF Write, ParserType
    <2>2. /\ DOMAIN argv' = 1 .. Len(argv) + 1 /\ argv'[Len(argv) + 1] = t
          /\ DOMAIN argv = 1 .. Len(argv)
          /\ \A i \in 1 .. Len(argv) : argv'[i] = argv[i]
      BY <2>1
    <2>3. Len(argv) + 1 \in DOMAIN argv' /\ DOMAIN argv \subseteq DOMAIN argv'
      BY <2>1, <2>2
    <2> QED
      BY <2>2, <2>3 DEF NamesTun
  <1>2. (\A t \in Tokens : ~Write(t)) => argv' = argv
    BY DEF ParseArgs, Close, StrayValue, TakeToken, UnknownArgument, ExitWithHelp,
           DuplicateArgument, ConsumeValue, RejectValue, ConsumeNothing,
           TooFewArguments, Validate, Throw
  <1>3. argv' = argv => (NamesTun => NamesTun')
    BY DEF NamesTun
  <1> QED
    BY <1>1, <1>2, <1>3

LEMMA ParseArgsStep ==
    ASSUME ParserInv, outcome = "parsing", ParseArgs
    PROVE  ParserInv'
  <1>0. SUFFICES ASSUME ~NamesTun' PROVE ParserInv'
    BY ParserTypeStep DEF ParserInv
  <1>1. ParserType /\ ReadingInv
    BY <1>0, TunStaysNamed DEF ParserInv
  <1>2. ParserType'
    BY <1>1, ParserTypeStep
  <1>3. ASSUME NEW t \in Tokens, Write(t) PROVE ParserInv'
    <2>1. outcome' = "parsing" /\ t \notin DocumentedTun
      BY <1>0, <1>1, <1>3, TunStaysNamed DEF Write
    <2> QED
      BY <1>1, <1>2, <1>3, <2>1, WriteStep, Unjudged
  <1>4. CASE Close
    <2>1. outcome' = "parsing"
      BY <1>4 DEF Close
    <2> QED
      BY <1>1, <1>2, <1>4, <2>1, CloseStep, Unjudged
  <1>5. CASE StrayValue
    <2>1. Throw
      BY <1>5 DEF StrayValue
    <2> QED
      BY <1>1, <1>2, <1>5, <2>1, StrayValueIsWrong, ThrownIsRight
  <1>6. CASE TakeToken
    <2>1. outcome' = "parsing"
      BY <1>6 DEF TakeToken
    <2> QED
      BY <1>1, <1>2, <1>6, <2>1, TakeTokenStep, Unjudged
  <1>7. CASE UnknownArgument
    <2>1. Throw
      BY <1>7 DEF UnknownArgument
    <2> QED
      BY <1>1, <1>2, <1>7, <2>1, UnknownIsWrong, ThrownIsRight
  <1>8. CASE ExitWithHelp
    BY <1>2, <1>8 DEF ExitWithHelp, ParserInv, ReadsRight
  <1>9. ASSUME NEW o \in Options, DuplicateArgument(o) PROVE ParserInv'
    <2>1. Throw
      BY <1>9 DEF DuplicateArgument
    <2> QED
      BY <1>1, <1>2, <1>9, <2>1, DuplicateIsWrong, ThrownIsRight
  <1>10. ASSUME NEW o \in Options, ConsumeValue(o) PROVE ParserInv'
    <2>1. outcome' = "parsing"
      BY <1>10 DEF ConsumeValue
    <2> QED
      BY <1>1, <1>2, <1>10, <2>1, ConsumeValueStep, Unjudged
  <1>11. ASSUME NEW o \in Options, RejectValue(o) PROVE ParserInv'
    <2>1. Throw
      BY <1>11 DEF RejectValue
    <2> QED
      BY <1>1, <1>2, <1>11, <2>1, RejectedIsWrong, ThrownIsRight
  <1>12. ASSUME NEW o \in Options, ConsumeNothing(o) PROVE ParserInv'
    <2>1. outcome' = "parsing"
      BY <1>12 DEF ConsumeNothing, Consuming
    <2> QED
      BY <1>1, <1>2, <1>12, <2>1, ConsumeNothingStep, Unjudged
  <1>13. ASSUME NEW o \in Options, TooFewArguments(o) PROVE ParserInv'
    <2>1. Throw
      BY <1>13 DEF TooFewArguments
    <2> QED
      BY <1>1, <1>2, <1>13, <2>1, TooFewIsWrong, ThrownIsRight
  <1>14. CASE Validate
    BY <1>1, <1>2, <1>14, ValidateStep
  <1> QED
    BY <1>3, <1>4, <1>5, <1>6, <1>7, <1>8, <1>9, <1>10, <1>11, <1>12, <1>13, <1>14
    DEF ParseArgs

(* Before the first token there is nothing to be right or wrong about.     *)
LEMMA ParserStarts == ParserInit => ParserInv
  <1> SUFFICES ASSUME ParserInit PROVE ParserInv
    OBVIOUS
  <1>1. Line = << >> /\ rest = << >> /\ pending = << >> /\ used = {}
    BY EmptyLine DEF ParserInit, Line
  <1>2. OptionPlaces = {} /\ Taken = 0
    BY <1>1 DEF OptionPlaces, Taken
  <1>3. ReadingInv
    <2>1. RestInv
      BY <1>1, <1>2 DEF RestInv
    <2>2. PendingInv
      BY <1>1, <1>2 DEF PendingInv
    <2>3. UsedInv
      BY <1>1, <1>2 DEF UsedInv
    <2>4. ValuesInv
      BY <1>1, <1>2 DEF ValuesInv, ParserInit
    <2> QED
      BY <2>1, <2>2, <2>3, <2>4 DEF ReadingInv
  <1>4. ParserType
    <2>1. values \in [Options -> Spelt \cup {Default}]
      BY DEF ParserInit
    <2>2. << >> \in Seq(Tokens) /\ << >> \in Seq(Spelt) /\ << >> \in Seq(Options \cup {Unknown})
      OBVIOUS
    <2> QED
      BY <2>1, <2>2 DEF ParserInit, ParserType
  <1> QED
    BY <1>3, <1>4 DEF ParserInv, ReadsRight, ParserInit

(* Only Parse and Configure touch what the parser keeps.                   *)
LEMMA ParserLeft ==
    ASSUME [Next]_vars, ~Parse, ~Configure
    PROVE  UNCHANGED parser
  <1>1. CASE Main
    BY <1>1 DEF Main, Decline, StartSteps, ForwardingInit, TunInit, SocketInit,
                ConfigureRouting, EpollInit, EpollAdd, PacketHandlerEmplace, StartPolling,
                SetsUp, Goto, EpollIsClosed, Fails, NatSteps, RunCommand, NatConfigured,
                NatRemoved, CommandFails, Rollback, RolledBack, RollbackFails, EndSteps,
                LeaveLoop, Return, PacketHandlerJoined, RestoreForwarding, RestoreFails
  <1>2. CASE StartFails
    BY <1>2 DEF StartFails, Fails, Goto
  <1>3. CASE Stop
    BY <1>3 DEF Stop
  <1>4. CASE Kill
    BY <1>4 DEF Kill, Goto
  <1>5. CASE Restart
    BY <1>5 DEF Restart
  <1>6. CASE UNCHANGED vars
    BY <1>6 DEF vars
  <1> QED
    BY <1>1, <1>2, <1>3, <1>4, <1>5, <1>6 DEF Next

LEMMA ParserStep == ParserInv /\ [Next]_vars => ParserInv'
  <1> SUFFICES ASSUME ParserInv, [Next]_vars PROVE ParserInv'
    OBVIOUS
  <1>1. CASE Parse
    BY <1>1, ParseArgsStep DEF Parse
  <1>2. CASE Configure
    <2>1. outcome' = "config" /\ used' = {}
      BY <1>2 DEF Configure
    <2>2. ParserType'
      BY <1>2 DEF Configure, ParserInv, ParserType
    <2> QED
      BY <2>1, <2>2 DEF ParserInv, ReadsRight
  <1>3. CASE ~Parse /\ ~Configure
    <2>1. /\ argv' = argv /\ closed' = closed /\ rest' = rest /\ pending' = pending
          /\ used' = used /\ values' = values /\ outcome' = outcome
      BY <1>3, ParserLeft DEF parser
    <2>2. ParserType'
      BY <2>1 DEF ParserInv, ParserType
    <2>3. ReadsRight => ReadsRight'
      BY <2>1, SameGrammar DEF ReadsRight
    <2>4. ReadingInv => ReadingInv'
      BY <2>1, SameReading
    <2>5. NamesTun => NamesTun'
      BY <2>1 DEF NamesTun
    <2> QED
      BY <2>1, <2>2, <2>3, <2>4, <2>5 DEF ParserInv
  <1> QED
    BY <1>1, <1>2, <1>3

(* The parser's invariant: what it has consumed is what the line up to the *)
(* token at hand says, and its verdicts are right.                         *)
THEOREM ParserInvariant == Spec => []ParserInv
  <1>1. Init => ParserInv
    BY ParserStarts DEF Init
  <1> QED
    BY <1>1, ParserStep, PTL DEF Spec

(* main starts the server only for a command line that is well-formed and  *)
(* complete, with the values the line means, and turns one down only if it *)
(* is not, for every set of tokens and every length of the line; of lines  *)
(* with -t or --tun nothing is said.                                       *)
THEOREM CommandLineReadRight == Spec => []ParsesGrammar
  <1>1. ParserInv => ParsesGrammar
    BY DEF ParserInv, ParsesGrammar
  <1> QED
    BY <1>1, ParserInvariant, PTL
=============================================================================
