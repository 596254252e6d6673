------------------------------- MODULE Logger -------------------------------
(***************************************************************************)
(* The server's logger (server/Log.h, server/libs/AixLog/aixlog.hpp): the  *)
(* stream operators of a log line, used by the main thread, by the SIGINT  *)
(* handler on top of it and by the capture thread.                         *)
(*                                                                         *)
(* Every operator takes the recursive mutex for itself and gives it back,  *)
(* so that one operator is one action and the operators of two lines       *)
(* interleave.  Each thread has a buffer of its own; what is known of the  *)
(* line besides its text (metadata_) is shared.  A line's severity is what *)
(* it is about; its time and its function are told apart by the line they  *)
(* belong to, and the tag is always empty.  The format of a record is left *)
(* out.  Who waits for the mutex while holding it is PacketHandler's.      *)
(***************************************************************************)
EXTENDS Naturals, Sequences, Functions

CONSTANTS
    Threads, Main,
    Severities,    \* bound: severities of the lines
    Pieces,        \* bound: pieces of text in a line
    MaxLines       \* bound: lines of a thread

Debug == 1
Info == 2
Error == 5

ASSUME LoggerAssumption ==
    /\ Main \in Threads /\ Severities \subseteq {Debug, Info, Error}
    /\ Pieces \in Nat \ {0} /\ MaxLines \in Nat

VARIABLES
    level,         \* the sink's filter: Debug with --verbose, else Info
    metadata,      \* metadata_: severity, tag, timestamp, function
    buffer,        \* buffer_: text of each thread since its last flush
    lastId, lastBuffer,
    record,        \* the last thing sync() gave to the sink or held back
    flushed,       \* pieces sync() has taken, of each buffer (history)
    line,          \* the line each thread is in
    interrupted,   \* the main thread's line below the signal handler, or none
    signalled,
    lines,         \* lines begun by each thread
    written        \* pieces written by each thread (history)

output == <<buffer, lastId, lastBuffer, record, flushed>>
vars == <<level, metadata, output, line, interrupted, signalled, lines, written>>

(* The operators of the macro LOG(severity), in their order; the first one *)
(* takes the severity, and the pieces of text and the newline follow.      *)
Fields == <<"tag", "timestamp", "function">>
None == << >>

(* left counts the operators to come, own has the fields of metadata_ that *)
(* are still the line's.                                                   *)
NoLine == [left |-> 0, id |-> None, severity |-> Info, own |-> {}]

Init ==
    /\ level \in {Debug, Info}
    /\ metadata = [severity |-> 0, tag |-> None, timestamp |-> None, function |-> None]
    /\ buffer = [t \in Threads |-> << >>]
    /\ lastId = Main /\ lastBuffer = Main
    /\ record = None /\ flushed = [t \in Threads |-> << >>]
    /\ line = [t \in Threads |-> NoLine]
    /\ interrupted = << >> /\ signalled = FALSE
    /\ lines = [t \in Threads |-> 0] /\ written = [t \in Threads |-> 0]

-----------------------------------------------------------------------------
(* seeded bug: the last buffer, whoever used it *)
LastStream(t) == lastBuffer

(* get_stream(): the last buffer again, if the thread is the last one. *)
Stream(t) == IF lastId # t THEN t ELSE lastBuffer
GetStream(t) == lastId' = t /\ lastBuffer' = Stream(t)

(* seeded bug: the severity of the filter itself is not shown *)
Above == metadata.severity > level

Matches == metadata.severity >= level

(* What the sink makes a line of: the text and whatever is known now. *)
Record(t, text) == [text |-> text, metadata |-> metadata, shown |-> Matches,
                    of |-> line[t]]

(* sync(): the buffer, if there is something in it, goes to the sink. *)
Sync(t) ==
    /\ GetStream(t)
    /\ LET text == buffer[Stream(t)] IN
          /\ record' = IF text = << >> THEN record ELSE Record(t, text)
          /\ flushed' = [flushed EXCEPT ![Stream(t)] = @ \o text]
    /\ buffer' = [buffer EXCEPT ![Stream(t)] = << >>]

(* Fields that thread t overwrites are no longer those of the lines that   *)
(* are in progress elsewhere, the interrupted one among them.              *)
Disown(l, fields) == [l EXCEPT !.own = @ \ fields]
Overwrite(t, fields, l) ==
    /\ line' = [u \in Threads |-> IF u = t THEN l ELSE Disown(line[u], fields)]
    /\ interrupted' = [i \in DOMAIN interrupted |-> Disown(interrupted[i], fields)]

(* << Severity: another severity than the last one ends what the thread    *)
(* has in its buffer, and clears the rest.                                 *)
BeginLine(t, s) ==
    /\ line[t].left = 0 /\ lines[t] < MaxLines
    /\ lines' = [lines EXCEPT ![t] = @ + 1]
    /\ LET l == [left |-> Len(Fields) + Pieces + 1, id |-> <<t, lines[t]>>,
                 severity |-> s, own |-> {"severity"}]
       IN  IF metadata.severity = s
           THEN Overwrite(t, {}, l) /\ UNCHANGED <<metadata, output>>
           ELSE /\ Overwrite(t, DOMAIN metadata, l)
                /\ Sync(t)
                /\ metadata' = [f \in DOMAIN metadata |-> IF f = "severity" THEN s ELSE None]
    /\ UNCHANGED <<level, signalled, written>>

(* << Tag, << Timestamp, << Function *)
Describe(t) ==
    /\ line[t].left > Pieces + 1
    /\ LET f == Fields[Len(Fields) + Pieces + 2 - line[t].left] IN
          /\ metadata' = [metadata EXCEPT ![f] = IF f = "tag" THEN None ELSE line[t].id]
          /\ Overwrite(t, {f}, [line[t] EXCEPT !.left = @ - 1, !.own = @ \cup {f}])
    /\ UNCHANGED <<level, output, signalled, lines, written>>

(* overflow() of a character, and of the newline.                          *)
Write(t) ==
    /\ line[t].left \in 2 .. Pieces + 1 /\ GetStream(t)
    /\ buffer' = [buffer EXCEPT ![Stream(t)] = Append(@, <<t, written[t] + 1>>)]
    /\ written' = [written EXCEPT ![t] = @ + 1]
    /\ line' = [line EXCEPT ![t].left = @ - 1]
    /\ UNCHANGED <<level, metadata, record, flushed, interrupted, signalled, lines>>

EndLine(t) ==
    /\ line[t].left = 1 /\ Sync(t)
    /\ line' = [line EXCEPT ![t] = NoLine]
    /\ UNCHANGED <<level, metadata, interrupted, signalled, lines, written>>

(* The SIGINT handler logs a line of its own, on the main thread. *)
Signal ==
    /\ ~signalled /\ signalled' = TRUE
    /\ interrupted' = <<line[Main]>>
    /\ line' = [line EXCEPT ![Main] = NoLine]
    /\ UNCHANGED <<level, metadata, output, lines, written>>

HandlerReturns ==
    /\ interrupted # << >> /\ line[Main].left = 0
    /\ line' = [line EXCEPT ![Main] = Head(interrupted)] /\ interrupted' = << >>
    /\ UNCHANGED <<level, metadata, output, signalled, lines, written>>

Next ==
    \/ \E t \in Threads : \/ \E s \in Severities : BeginLine(t, s)
                          \/ Describe(t) \/ Write(t) \/ EndLine(t)
    \/ Signal \/ HandlerReturns

Spec == Init /\ [][Next]_vars

-----------------------------------------------------------------------------
(* No line carries text of two threads, which is what the buffers are for. *)
OneThreadPerLine ==
    record # None => \A p, q \in Range(record.text) : p[1] = q[1]

(* What has gone through the buffer of a thread is every piece of text it  *)
(* has written, once and in order, up to what it still holds, and nothing  *)
(* else (get_stream, sync, overflow).  A record has the severity,          *)
(* the time and the function of the line its text is of, unless another    *)
(* line has overwritten them since, and is held back only for a severity   *)
(* below the level; with --verbose nothing is held back.                   *)
Described(r) ==
    /\ "severity" \in r.of.own => /\ r.metadata.severity = r.of.severity
                                  /\ r.shown = (r.of.severity >= level)
    /\ \A f \in r.of.own \cap {"timestamp", "function"} : r.metadata[f] = r.of.id
    /\ level = Debug => r.shown
LinesAccountedFor ==
    /\ \A t \in Threads :
          flushed[t] \o buffer[t] = [n \in 1 .. written[t] |-> <<t, n>>]
    /\ record # None => Described(record)
=============================================================================
