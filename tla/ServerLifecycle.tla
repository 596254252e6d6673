-------------------------- MODULE ServerLifecycle --------------------------
(***************************************************************************)
(* A run of the server from main() to the end of the process, and what it  *)
(* does to the host: the command line, start() up to the polling loop,     *)
(* stop() from the SIGINT handler at any point, exceptions, the            *)
(* destructors, and the process being killed or started again              *)
(* (server/main.cpp, ToyVpnServer.h, NatAndRoutingWrapper.h,               *)
(* IpForwardingWrapper.h, TunInterfaceWrapper.h, ServerSocketWrapper.h,    *)
(* EpollWrapper.h).  What happens inside the loop is ToyVpnServer's, what  *)
(* happens inside the capture thread PacketHandler's.                      *)
(*                                                                         *)
(* The TUN device, its route and the socket belong to the process and go   *)
(* with it; ip_forward and the iptables rules belong to the host.          *)
(***************************************************************************)
EXTENDS ArgumentParser

CONSTANT MaxRuns        \* bound: how often the server is started

ASSUME MaxRunsAssumption == MaxRuns \in Nat \ {0}

VARIABLES
    pc,            \* where main is
    saves,         \* m_Config.saveFilePath has a value
    next,          \* the iptables command that is due
    forward,       \* /proc/sys/net/ipv4/ip_forward
    rules,         \* how often each of the three iptables rules is there
    initial,       \* IpForwardingWrapper::m_InitialValue
    ready,         \* what is initialised and not yet undone
    commandRun,    \* commands whose m_CommandRun is set
    capture,       \* the PacketHandler: "none", "running", "stopped"
    interrupted,   \* the SIGINT handler has run, once
    heeded,        \* when it ran, stop() found what there is to stop (history)
    found,         \* ip_forward and rules when the process started (history)
    botched,       \* an iptables -D of this process failed (history)
    runs           \* processes so far

host == <<forward, rules>>
process == <<initial, ready, commandRun, capture, interrupted>>
history == <<heeded, found, botched, runs>>
vars == <<parser, pc, saves, next, host, process, history>>

Commands == 1 .. 3      \* POSTROUTING, FORWARD, FORWARD reversed

Starting == {"forwarding", "tun", "socket", "route", "nat", "rollback",
             "epoll", "add", "capture", "startPolling", "poll"}
Destroying == {"returned", "join", "natOff", "rollbackOff", "restore"}
Dead == {"exited", "aborted", "killed"}

Init ==
    /\ ParserInit
    /\ pc = "parse" /\ saves = FALSE /\ next = 1
    /\ forward \in {0, 1} /\ rules = [c \in Commands |-> 0]
    /\ initial = 0 /\ ready = {} /\ commandRun = {} /\ capture = "none"
    /\ interrupted = FALSE /\ heeded = FALSE
    /\ found = [forward |-> forward, rules |-> rules]
    /\ botched = FALSE /\ runs = 1

Goto(p) == /\ pc' = p
           /\ UNCHANGED <<parser, saves, interrupted, heeded, found, runs>>

-----------------------------------------------------------------------------
Parse ==
    /\ pc = "parse" /\ outcome = "parsing" /\ ParseArgs
    /\ UNCHANGED <<pc, next, host, process, saves, history>>

(* The configuration is made; main does not look at the parser again,      *)
(* which is why the model forgets the command line.                        *)
Configure ==
    /\ pc = "parse" /\ outcome = "config"
    /\ saves' = SavesToFiles
    /\ pc' = "forwarding"
    /\ argv' = << >> /\ used' = {} /\ values' = [o \in Options |-> Default]
    /\ UNCHANGED <<closed, rest, pending, outcome, next, host, process, history>>

(* Usage, help or version, and nothing else. *)
Decline ==
    /\ pc = "parse" /\ outcome \in {"usage", "exit"}
    /\ Goto("exited")
    /\ UNCHANGED <<next, host, initial, ready, commandRun, capture, botched>>

(* A part of start() that sets up x and goes on at p, or throws.           *)
SetsUp(here, x, p) ==
    /\ pc = here /\ Goto(p)
    /\ ready' = ready \cup x
    /\ UNCHANGED <<next, rules, commandRun, capture, botched>>

ForwardingInit ==
    /\ SetsUp("forwarding", {"forwarding"}, "tun")
    /\ initial' = forward /\ forward' = 1

TunInit == SetsUp("tun", {"tun"}, "socket") /\ UNCHANGED <<forward, initial>>

SocketInit == SetsUp("socket", {"socket"}, "route") /\ UNCHANGED <<forward, initial>>

ConfigureRouting == SetsUp("route", {"route"}, "nat") /\ UNCHANGED <<forward, initial>>

EpollInit == SetsUp("epoll", {"epoll"}, "add") /\ UNCHANGED <<forward, initial>>

(* Both descriptors; epoll_ctl fails if stop() has closed the epoll.       *)
EpollAdd ==
    /\ "epoll" \in ready
    /\ SetsUp("add", {"callbacks"}, "capture") /\ UNCHANGED <<forward, initial>>

PacketHandlerEmplace ==
    /\ pc = "capture" /\ Goto("startPolling")
    /\ capture' = IF saves THEN "running" ELSE capture
    /\ UNCHANGED <<next, host, initial, ready, commandRun, botched>>

StartPolling ==
    /\ "epoll" \in ready
    /\ SetsUp("startPolling", {}, "poll") /\ UNCHANGED <<forward, initial>>

Fails == /\ Goto("caught")
         /\ UNCHANGED <<next, host, initial, ready, commandRun, capture, botched>>

(* A call of start() throws, or, in the loop, epoll_wait fails or the      *)
(* addresses run out.  The exception is caught in main.                    *)
StartFails ==
    /\ pc \in {"forwarding", "tun", "socket", "route", "epoll", "add", "poll"}
    /\ Fails

(* stop() has closed the epoll descriptor: epoll_ctl fails, and so does    *)
(* epoll_wait, with m_IsPolling set whatever stop() did to it.             *)
EpollIsClosed ==
    /\ pc \in {"add", "startPolling"} /\ "epoll" \notin ready
    /\ Fails

-----------------------------------------------------------------------------
(* configureNat, from init() and from the destructor. *)

Undoing == pc = "natOff"

(* seeded bug: the template always becomes -A *)
AppendsRule(c) == rules' = [rules EXCEPT ![c] = @ + 1]

(* iptables -D removes one rule, and fails if there is none. *)
RemoveRule(c) == rules[c] > 0 /\ rules' = [rules EXCEPT ![c] = @ - 1]

AddRule(c) == rules' = [rules EXCEPT ![c] = @ + 1]

RunCommand ==
    /\ pc \in {"nat", "natOff"} /\ next \in Commands
    /\ IF Undoing THEN RemoveRule(next) ELSE AddRule(next)
    /\ commandRun' = commandRun \cup {next} /\ next' = next + 1
    /\ Goto(pc)
    /\ UNCHANGED <<forward, initial, ready, capture, botched>>

NatConfigured ==
    /\ pc = "nat" /\ next \notin Commands
    /\ Goto("epoll")
    /\ ready' = ready \cup {"nat"} /\ commandRun' = {} /\ next' = 1
    /\ UNCHANGED <<host, initial, capture, botched>>

NatRemoved ==
    /\ pc = "natOff" /\ next \notin Commands
    /\ Goto("restore")
    /\ ready' = ready \ {"nat"} /\ commandRun' = {} /\ next' = 1
    /\ UNCHANGED <<host, initial, capture, botched>>

CommandFails ==
    /\ pc \in {"nat", "natOff"} /\ next \in Commands
    /\ Goto(IF Undoing THEN "rollbackOff" ELSE "rollback")
    /\ botched' = (botched \/ Undoing)
    /\ next' = 1
    /\ UNCHANGED <<host, initial, ready, commandRun, capture>>

(* rollback() runs -D, also when it is -D that is to be undone.            *)
Rollback ==
    /\ pc \in {"rollback", "rollbackOff"}
    /\ \E c \in commandRun :
          /\ \A d \in commandRun : c <= d
          /\ RemoveRule(c)
          /\ commandRun' = commandRun \ {c}
    /\ Goto(pc)
    /\ UNCHANGED <<next, forward, initial, ready, capture, botched>>

(* seeded bug: configureNat swallows the exception *)
GoesOn == IF pc = "rollback" THEN "epoll" ELSE "restore"

(* What the exception comes to: main's handler, or std::terminate when it  *)
(* leaves a destructor.                                                    *)
AfterRollback == IF pc = "rollback" THEN "caught" ELSE "aborted"

RolledBack ==
    /\ pc \in {"rollback", "rollbackOff"} /\ commandRun = {}
    /\ Goto(AfterRollback)
    /\ commandRun' = {}
    /\ UNCHANGED <<next, host, initial, ready, capture, botched>>

(* A failing rollback leaves the others undone. *)
RollbackFails ==
    /\ pc \in {"rollback", "rollbackOff"} /\ commandRun # {}
    /\ Goto(AfterRollback)
    /\ botched' = TRUE /\ commandRun' = {}
    /\ UNCHANGED <<next, host, initial, ready, capture>>

-----------------------------------------------------------------------------
(* seeded bug: stop() leaves the capture thread alone *)
CaptureGoesOn == capture

StoppedCapture == IF capture = "running" THEN "stopped" ELSE capture

(* stop(), in the SIGINT handler, which PcapPlusPlus runs once.  While     *)
(* std::system waits, SIGINT is ignored here and kills the command.  While *)
(* the members are destroyed, stop() finds no PacketHandler any more.      *)
Stop ==
    /\ pc \in Starting \cup {"caught"} /\ ~interrupted
    /\ interrupted' = TRUE
    /\ heeded' = \/ pc \in {"startPolling", "poll", "caught"}
                 \/ pc \in {"add", "capture"} /\ ~saves
    /\ ready' = ready \ {"epoll"}
    /\ capture' = StoppedCapture
    /\ UNCHANGED <<parser, pc, saves, next, host, initial, commandRun, found, botched, runs>>

(* The flag is down, and epoll_wait fails: start() returns.                *)
LeaveLoop ==
    /\ pc = "poll" /\ "epoll" \notin ready
    /\ Goto("returned")
    /\ UNCHANGED <<next, host, initial, ready, commandRun, capture, botched>>

(* main returns 0 or 1: the members of the server are destroyed, the last  *)
(* one first.                                                              *)
Return ==
    /\ pc \in {"caught", "returned"}
    /\ Goto("join")
    /\ UNCHANGED <<next, host, initial, ready, commandRun, capture, botched>>

(* seeded bug: the wrapper is regarded as initialised whatever init() did *)
NatAlways == TRUE

NatIsInitialized == "nat" \in ready

(* ~PacketHandler waits for ever for a thread nobody has stopped.          *)
PacketHandlerJoined ==
    /\ pc = "join" /\ capture # "running"
    /\ Goto(IF NatIsInitialized THEN "natOff" ELSE "restore")
    /\ UNCHANGED <<next, host, initial, ready, commandRun, capture, botched>>

(* seeded bug: the destructor switches forwarding off *)
SwitchedOff == 0

RestoredValue == IF "forwarding" \in ready THEN initial ELSE forward

RestoreForwarding ==
    /\ pc = "restore" /\ Goto("exited")
    /\ forward' = RestoredValue /\ ready' = {}
    /\ UNCHANGED <<next, rules, initial, commandRun, capture, botched>>

(* The file cannot be opened: the exception leaves a destructor.           *)
RestoreFails ==
    /\ pc = "restore" /\ "forwarding" \in ready /\ initial # 1
    /\ Goto("aborted")
    /\ UNCHANGED <<next, host, initial, ready, commandRun, capture, botched>>

-----------------------------------------------------------------------------
(* SIGKILL or SIGTERM, which has no handler, once there is something to    *)
(* lose.                                                                   *)
Kill ==
    /\ pc \notin Dead \cup {"parse"}
    /\ Goto("killed")
    /\ UNCHANGED <<next, host, initial, ready, commandRun, capture, botched>>

(* The same command line again, so that parsing it is not repeated.        *)
Restart ==
    /\ pc \in Dead /\ outcome = "config" /\ runs < MaxRuns
    /\ pc' = "forwarding" /\ next' = 1
    /\ ready' = {} /\ commandRun' = {} /\ capture' = "none" /\ initial' = 0
    /\ interrupted' = FALSE /\ heeded' = FALSE /\ botched' = FALSE
    /\ found' = [forward |-> forward, rules |-> rules]
    /\ runs' = runs + 1
    /\ UNCHANGED <<parser, saves, host>>

StartSteps == \/ ForwardingInit \/ TunInit \/ SocketInit \/ ConfigureRouting
              \/ EpollInit \/ EpollAdd \/ PacketHandlerEmplace \/ StartPolling

NatSteps == \/ RunCommand \/ NatConfigured \/ NatRemoved \/ CommandFails
            \/ Rollback \/ RolledBack \/ RollbackFails

EndSteps == \/ LeaveLoop \/ Return \/ PacketHandlerJoined
            \/ RestoreForwarding \/ RestoreFails

(* What main does without an accident.  An iptables command that fails is  *)
(* dealt with by the next steps.                                           *)
Main == Parse \/ Configure \/ Decline \/ StartSteps \/ EpollIsClosed
        \/ NatSteps \/ EndSteps

Next == Main \/ StartFails \/ Stop \/ Kill \/ Restart

Spec == Init /\ [][Next]_vars

(* The process is scheduled. *)
FairSpec == Spec /\ WF_vars(Main)

-----------------------------------------------------------------------------
(* Properties. *)

(* Every variable has its type, and no process adds a rule twice.          *)
TypeOK ==
    /\ saves \in BOOLEAN
    /\ pc \in {"parse", "caught"} \cup Starting \cup Destroying \cup Dead
    /\ next \in 1 .. 4 /\ commandRun \subseteq Commands
    /\ forward \in {0, 1} /\ initial \in {0, 1}
    /\ rules \in [Commands -> 0 .. runs]
    /\ ready \subseteq {"forwarding", "tun", "socket", "route", "nat", "epoll", "callbacks"}
    /\ capture \in {"none", "running", "stopped"}
    /\ interrupted \in BOOLEAN /\ heeded \in BOOLEAN /\ botched \in BOOLEAN
    /\ runs \in 1 .. MaxRuns

(* The loop runs only on a host that is set up completely: forwarding, the *)
(* device, its route and each rule once more than before (start, init,     *)
(* configureNat, which throws again after its rollbacks).                  *)
ConfiguredWhileServing ==
    pc \in {"startPolling", "poll"} =>
        /\ forward = 1 /\ {"tun", "socket", "route", "nat"} \subseteq ready
        /\ \A c \in Commands : rules[c] = found.rules[c] + 1

(* A process that exits by itself, whether served, failed to start, was    *)
(* interrupted or told how it is used, leaves the host as it found it,     *)
(* unless an iptables -D failed (the destructors, rollback).               *)
LeavesHostAsFound ==
    (pc = "exited" /\ ~botched) => forward = found.forward /\ rules = found.rules

(* A rule that was there before, left by a killed process or made by the   *)
(* administrator, is never removed, unless an iptables -D failed: then the *)
(* rollback of a removal removes once more (~NatAndRoutingWrapper).        *)
ForeignRulesStay ==
    \A c \in Commands : rules[c] < found.rules[c] => botched

(* SIGINT ends the process, if it comes when the epoll exists and the      *)
(* PacketHandler is not about to be made (stop, startPolling,              *)
(* ~PacketHandler).                                                        *)
InterruptEnds == heeded ~> pc \in Dead
=============================================================================
