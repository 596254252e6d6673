---------------------------- MODULE Logger_proofs ----------------------------
(***************************************************************************)
(* Proofs about Logger, for any number of threads, lines and pieces of     *)
(* text: the buffers keep the threads' text apart, nothing of it is lost,  *)
(* and a record shows the line it is of.                                   *)
(***************************************************************************)
EXTENDS Logger, SequenceTheorems, TLAPS

Keys == {"severity", "tag", "timestamp", "function"}
Piece == Threads \X Nat
Line == [left : 0 .. Pieces + 4, id : Threads \X Nat \cup {None},
         severity : {Debug, Info, Error}, own : SUBSET Keys]

LoggerTypeOK ==
    /\ level \in {Debug, Info}
    /\ DOMAIN metadata = Keys /\ metadata = [f \in Keys |-> metadata[f]]
    /\ metadata["severity"] \in Severities \cup {0}
    /\ buffer \in [Threads -> Seq(Piece)] /\ flushed \in [Threads -> Seq(Piece)]
    /\ lastId \in Threads
    /\ line \in [Threads -> Line]
    /\ interrupted = << >> \/ \E l \in Line : interrupted = <<l>>
    /\ lines \in [Threads -> Nat] /\ written \in [Threads -> Nat]

(* The last buffer is that of the last thread, so that get_stream() always *)
(* answers with the caller's own.                                          *)
StreamInv == lastBuffer = lastId

(* What went through a thread's buffer is what the thread wrote.           *)
Through(t, fl, buf, n) == fl \o buf = [k \in 1 .. n |-> <<t, k>>]
BufferInv == \A t \in Threads : Through(t, flushed[t], buffer[t], written[t])

(* The metadata m still has what a line l set and no other line has set    *)
(* since; once a line has been begun there is a severity.                  *)
Sound(l, m) ==
    /\ "severity" \in l.own => m["severity"] = l.severity
    /\ \A f \in l.own \cap {"timestamp", "function"} : m[f] = l.id
    /\ l.left > 0 => m["severity"] # 0

LineInv ==
    /\ \A t \in Threads : Sound(line[t], metadata)
    /\ \A l \in Line : interrupted = <<l>> => Sound(l, metadata)
    /\ \A t \in Threads : buffer[t] # << >> => metadata["severity"] # 0

RecordInv == record # None =>
    /\ Described(record)
    /\ \E t \in Threads : \A p \in Range(record.text) : p[1] = t

IInv == LoggerTypeOK /\ StreamInv /\ BufferInv /\ LineInv /\ RecordInv

-----------------------------------------------------------------------------
(* get_stream() always finds the caller's buffer.                          *)
LEMMA OwnStream ==
  ASSUME StreamInv, NEW t \in Threads
  PROVE  Stream(t) = t
  BY DEF StreamInv, Stream

(* The lines that are not the caller's stay sound when the fields they     *)
(* lose are the only ones that change.                                     *)
LEMMA DisownedSound ==
  ASSUME NEW l \in Line, NEW m, NEW n, NEW fields, Sound(l, m),
         \A f \in Keys \ fields : n[f] = m[f], n["severity"] # 0
  PROVE  Disown(l, fields) \in Line /\ Sound(Disown(l, fields), n)
  <1>1. /\ Disown(l, fields).own = l.own \ fields /\ Disown(l, fields).id = l.id
        /\ Disown(l, fields).severity = l.severity /\ Disown(l, fields).left = l.left
        /\ Disown(l, fields) \in Line
    BY DEF Disown, Line
  <1> QED
    BY <1>1 DEF Sound, Keys, Line

(* One step of the line of t, with the fields it overwrites, keeps all     *)
(* lines typed and sound, the interrupted one included.                    *)
LEMMA OverwriteSound ==
  ASSUME LoggerTypeOK, LineInv, NEW t \in Threads, NEW fields, NEW l \in Line,
         Overwrite(t, fields, l), Sound(l, metadata'),
         \A f \in Keys \ fields : metadata'[f] = metadata[f], metadata'["severity"] # 0
  PROVE  /\ line' \in [Threads -> Line]
         /\ interrupted' = << >> \/ \E k \in Line : interrupted' = <<k>>
         /\ \A u \in Threads : Sound(line'[u], metadata')
         /\ \A k \in Line : interrupted' = <<k>> => Sound(k, metadata')
  <1>1. \A u \in Threads : line[u] \in Line /\ Sound(line[u], metadata)
    BY DEF LoggerTypeOK, LineInv
  <1>2. \A u \in Threads : u # t => line'[u] = Disown(line[u], fields)
    BY DEF Overwrite
  <1>3. line'[t] = l
    BY DEF Overwrite
  <1>4. \A u \in Threads : line'[u] \in Line /\ Sound(line'[u], metadata')
    BY <1>1, <1>2, <1>3, DisownedSound
  <1>5. line' \in [Threads -> Line]
    BY <1>4 DEF Overwrite
  <1>6. CASE interrupted = << >>
    <2>1. interrupted' = << >>
      BY <1>6 DEF Overwrite
    <2> QED
      BY <1>4, <1>5, <2>1
  <1>7. ASSUME NEW k \in Line, interrupted = <<k>>
        PROVE  /\ interrupted' = <<Disown(k, fields)>> /\ Disown(k, fields) \in Line
               /\ Sound(Disown(k, fields), metadata')
    <2>1. interrupted' = <<Disown(k, fields)>>
      BY <1>7 DEF Overwrite
    <2>2. Sound(k, metadata)
      BY <1>7 DEF LineInv
    <2> QED
      BY <2>1, <2>2, DisownedSound
  <1> QED
    BY <1>4, <1>5, <1>6, <1>7 DEF LoggerTypeOK

(* What sync() takes was in the buffer, and the buffer is empty after it.  *)
LEMMA SyncTakes ==
  ASSUME LoggerTypeOK, StreamInv, BufferInv, NEW t \in Threads, Sync(t)
  PROVE  /\ lastId' = t /\ lastBuffer' = t
         /\ buffer' = [buffer EXCEPT ![t] = << >>]
         /\ flushed' = [flushed EXCEPT ![t] = @ \o buffer[t]]
         /\ record' = IF buffer[t] = << >> THEN record ELSE Record(t, buffer[t])
         /\ buffer' \in [Threads -> Seq(Piece)] /\ flushed' \in [Threads -> Seq(Piece)]
         /\ \A u \in Threads : Through(u, flushed'[u], buffer'[u], written[u])
  <1>1. /\ lastId' = t /\ lastBuffer' = t
        /\ buffer' = [buffer EXCEPT ![t] = << >>]
        /\ flushed' = [flushed EXCEPT ![t] = @ \o buffer[t]]
        /\ record' = IF buffer[t] = << >> THEN record ELSE Record(t, buffer[t])
    BY OwnStream DEF Sync, GetStream
  <1>2. buffer \in [Threads -> Seq(Piece)] /\ flushed \in [Threads -> Seq(Piece)]
    BY DEF LoggerTypeOK
  <1>3. \A u \in Threads : flushed[u] \o buffer[u] \in Seq(Piece)
    BY <1>2
  <1>4. << >> \in Seq(Piece) /\ \A s \in Seq(Piece) : s \o << >> = s
    OBVIOUS
  <1>5. \A u \in Threads : flushed'[u] \o buffer'[u] = flushed[u] \o buffer[u]
    BY <1>1, <1>2, <1>3, <1>4
  <1> QED
    BY <1>1, <1>2, <1>3, <1>4, <1>5 DEF BufferInv, Through

(* Text that follows other text.                                           *)
LEMMA Joined ==
  ASSUME NEW S, NEW s \in Seq(S), NEW t \in Seq(S)
  PROVE  /\ s \o t \in Seq(S) /\ Len(s \o t) = Len(s) + Len(t)
         /\ Len(s) \in Nat /\ Len(t) \in Nat
         /\ \A i \in 1 .. Len(t) : (s \o t)[Len(s) + i] = t[i]
  OBVIOUS

(* The text in a buffer is the thread's own.                               *)
LEMMA OwnText ==
  ASSUME LoggerTypeOK, BufferInv, NEW t \in Threads
  PROVE  \A p \in Range(buffer[t]) : p[1] = t
  <1> DEFINE fl == flushed[t]
             buf == buffer[t]
  <1>1. /\ fl \in Seq(Piece) /\ buf \in Seq(Piece) /\ written[t] \in Nat
        /\ fl \o buf = [k \in 1 .. written[t] |-> <<t, k>>]
    BY DEF LoggerTypeOK, BufferInv, Through
  <1> HIDE DEF fl, buf
  <1>2. /\ Len(fl) \in Nat /\ Len(buf) \in Nat /\ fl \o buf \in Seq(Piece)
        /\ Len(fl \o buf) = Len(fl) + Len(buf)
    BY <1>1, Joined
  <1>3. DOMAIN (fl \o buf) = 1 .. Len(fl) + Len(buf) /\ DOMAIN buf = 1 .. Len(buf)
    BY <1>1, <1>2
  <1>4. \A k \in 1 .. Len(buf) : (fl \o buf)[Len(fl) + k] = buf[k]
    BY <1>1, Joined
  <1>5. \A k \in 1 .. Len(buf) : Len(fl) + k \in 1 .. written[t]
    BY <1>1, <1>2, <1>3
  <1>6. \A k \in 1 .. Len(buf) : buf[k] = <<t, Len(fl) + k>>
    BY <1>1, <1>4, <1>5
  <1> QED
    BY <1>3, <1>6 DEF Range, buf

(* A record that sync() makes shows the line it is of.                     *)
LEMMA SyncRecord ==
  ASSUME LoggerTypeOK, StreamInv, BufferInv, LineInv, RecordInv, level' = level,
         NEW t \in Threads, Sync(t)
  PROVE  RecordInv'
  <1>1. record' = IF buffer[t] = << >> THEN record ELSE Record(t, buffer[t])
    BY SyncTakes
  <1>2. CASE buffer[t] = << >>
    BY <1>1, <1>2 DEF RecordInv, Described
  <1>3. CASE buffer[t] # << >>
    <2>1. metadata["severity"] # 0 /\ Sound(line[t], metadata)
      BY <1>3 DEF LineInv
    <2>2. /\ record'.text = buffer[t] /\ record'.metadata = metadata
          /\ record'.shown = (metadata.severity >= level) /\ record'.of = line[t]
      BY <1>1, <1>3 DEF Record, Matches
    <2>3. metadata["severity"] \in {Debug, Info, Error}
      BY <2>1, LoggerAssumption DEF LoggerTypeOK
    <2>4. Described(record)'
      <3>1. "severity" \in line[t].own => metadata.severity = line[t].severity
        BY <2>1 DEF Sound
      <3>2. \A f \in line[t].own \cap {"timestamp", "function"} : metadata[f] = line[t].id
        BY <2>1 DEF Sound
      <3>3. level = Debug => metadata.severity >= level
        BY <2>3 DEF Debug, Info, Error
      <3> QED
        BY <2>2, <3>1, <3>2, <3>3 DEF Described
    <2>5. \A p \in Range(record'.text) : p[1] = t
      BY <2>2, OwnText
    <2> QED
      BY <2>4, <2>5 DEF RecordInv
  <1> QED
    BY <1>2, <1>3

-----------------------------------------------------------------------------
(* The operators of a line, one by one.  << Severity ...                   *)
LEMMA BeginLineStep ==
  ASSUME IInv, NEW t \in Threads, NEW s \in Severities, BeginLine(t, s)
  PROVE  IInv'
  <1> USE DEF IInv
  <1> DEFINE l == [left |-> Len(Fields) + Pieces + 1, id |-> <<t, lines[t]>>,
                   severity |-> s, own |-> {"severity"}]
  <1>1. l \in Line /\ l.left > 0 /\ l.own = {"severity"} /\ l.severity = s
    <2>1. Len(Fields) = 3
      BY DEF Fields
    <2>2. lines[t] \in Nat /\ s \in {Debug, Info, Error} /\ Pieces \in Nat
      BY LoggerAssumption DEF LoggerTypeOK
    <2> QED
      BY <2>1, <2>2 DEF Line, Keys
  <1>2. s # 0
    BY LoggerAssumption DEF Debug, Info, Error
  <1>3. /\ lines' = [lines EXCEPT ![t] = @ + 1] /\ lines' \in [Threads -> Nat]
        /\ level' = level /\ written' = written
    BY DEF BeginLine, LoggerTypeOK
  <1>4. CASE metadata.severity = s
    <2>1. Overwrite(t, {}, l) /\ UNCHANGED <<metadata, output>>
      BY <1>4 DEF BeginLine
    <2> HIDE DEF l
    <2>2. Sound(l, metadata') /\ metadata'["severity"] # 0
      BY <1>1, <1>2, <1>4, <2>1 DEF Sound
    <2>3. /\ line' \in [Threads -> Line]
          /\ interrupted' = << >> \/ \E k \in Line : interrupted' = <<k>>
          /\ \A u \in Threads : Sound(line'[u], metadata')
          /\ \A k \in Line : interrupted' = <<k>> => Sound(k, metadata')
      BY <1>1, <2>1, <2>2, OverwriteSound
    <2>4. LoggerTypeOK'
      BY <1>3, <2>1, <2>3 DEF LoggerTypeOK, output
    <2>5. StreamInv' /\ BufferInv' /\ RecordInv'
      BY <1>3, <2>1 DEF StreamInv, BufferInv, RecordInv, Described, output
    <2>6. LineInv'
      BY <2>1, <2>2, <2>3 DEF LineInv, output
    <2> QED
      BY <2>4, <2>5, <2>6
  <1>5. CASE metadata.severity # s
    <2>1. /\ Overwrite(t, DOMAIN metadata, l) /\ Sync(t)
          /\ metadata' = [f \in DOMAIN metadata |-> IF f = "severity" THEN s ELSE None]
      BY <1>5 DEF BeginLine
    <2> HIDE DEF l
    <2>2. DOMAIN metadata = Keys /\ DOMAIN metadata' = Keys /\ metadata'["severity"] = s
          /\ metadata' = [f \in Keys |-> metadata'[f]]
      BY <2>1 DEF LoggerTypeOK, Keys
    <2>3. Sound(l, metadata') /\ metadata'["severity"] # 0
      BY <1>1, <1>2, <2>2 DEF Sound
    <2>4. /\ line' \in [Threads -> Line]
          /\ interrupted' = << >> \/ \E k \in Line : interrupted' = <<k>>
          /\ \A u \in Threads : Sound(line'[u], metadata')
          /\ \A k \in Line : interrupted' = <<k>> => Sound(k, metadata')
      BY <1>1, <2>1, <2>2, <2>3, OverwriteSound
    <2>5. LoggerTypeOK'
      BY <1>3, <2>1, <2>2, <2>4, SyncTakes DEF LoggerTypeOK
    <2>6. StreamInv' /\ BufferInv'
      BY <1>3, <2>1, SyncTakes DEF StreamInv, BufferInv
    <2>7. RecordInv'
      BY <1>3, <2>1, SyncRecord
    <2>8. LineInv'
      BY <2>3, <2>4 DEF LineInv
    <2> QED
      BY <2>5, <2>6, <2>7, <2>8
  <1> QED
    BY <1>4, <1>5

(* ... << Tag, << Timestamp, << Function ...                               *)
LEMMA DescribeStep ==
  ASSUME IInv, NEW t \in Threads, Describe(t)
  PROVE  IInv'
  <1> USE DEF IInv
  <1> DEFINE n == Len(Fields) + Pieces + 2 - line[t].left
             f == Fields[n]
             l == [line[t] EXCEPT !.left = @ - 1, !.own = @ \cup {f}]
  <1>1. line[t] \in Line /\ Pieces \in Nat \ {0} /\ line[t].left \in Nat
        /\ line[t].left > Pieces + 1 /\ line[t].left <= Pieces + 4
    BY LoggerAssumption DEF Describe, LoggerTypeOK, Line
  <1>2. n \in {1, 2, 3}
    BY <1>1 DEF Fields
  <1>3. f \in {"tag", "timestamp", "function"}
    BY <1>2 DEF Fields
  <1>4. /\ metadata' = [metadata EXCEPT ![f] = IF f = "tag" THEN None ELSE line[t].id]
        /\ Overwrite(t, {f}, l)
        /\ UNCHANGED <<level, output, signalled, lines, written>>
    BY DEF Describe
  <1>5. l \in Line /\ l.left > 0 /\ l.own = line[t].own \cup {f} /\ l.id = line[t].id
        /\ l.severity = line[t].severity
    <2>1. l.own = line[t].own \cup {f} /\ l.left = line[t].left - 1 /\ l.id = line[t].id
          /\ l.severity = line[t].severity
      BY <1>1 DEF Line
    <2>2. line[t].left - 1 \in 0 .. Pieces + 4 /\ line[t].left - 1 > 0
      BY <1>1
    <2>3. line[t].own \cup {f} \in SUBSET Keys
      BY <1>1, <1>3 DEF Line, Keys
    <2>4. \A k \in Line : \A i \in 0 .. Pieces + 4 : \A o \in SUBSET Keys :
            [k EXCEPT !.left = i, !.own = o] \in Line
      BY DEF Line
    <2>5. l = [line[t] EXCEPT !.left = line[t].left - 1, !.own = line[t].own \cup {f}]
      OBVIOUS
    <2> HIDE DEF l
    <2> QED
      BY <1>1, <2>1, <2>2, <2>3, <2>4, <2>5
  <1> HIDE DEF f, l
  <1>6. /\ metadata'["severity"] = metadata["severity"]
        /\ \A g \in Keys \ {f} : metadata'[g] = metadata[g]
        /\ f # "tag" => metadata'[f] = line[t].id
        /\ DOMAIN metadata' = Keys /\ metadata' = [g \in Keys |-> metadata'[g]]
    BY <1>3, <1>4 DEF LoggerTypeOK, Keys
  <1>7. Sound(line[t], metadata) /\ metadata["severity"] # 0
    BY <1>1 DEF LineInv, Sound
  <1>8. Sound(l, metadata') /\ metadata'["severity"] # 0
    BY <1>3, <1>5, <1>6, <1>7 DEF Sound, Keys
  <1>9. /\ line' \in [Threads -> Line]
        /\ interrupted' = << >> \/ \E k \in Line : interrupted' = <<k>>
        /\ \A u \in Threads : Sound(line'[u], metadata')
        /\ \A k \in Line : interrupted' = <<k>> => Sound(k, metadata')
    BY <1>4, <1>5, <1>6, <1>8, OverwriteSound
  <1>10. LoggerTypeOK'
    BY <1>4, <1>6, <1>9 DEF LoggerTypeOK, output
  <1>11. StreamInv' /\ BufferInv' /\ RecordInv'
    BY <1>4 DEF StreamInv, BufferInv, RecordInv, Described, output
  <1>12. LineInv'
    BY <1>4, <1>8, <1>9 DEF LineInv, output
  <1> QED
    BY <1>10, <1>11, <1>12

(* One more piece of text through the end of a sequence of them.           *)
LEMMA ThroughMore ==
  ASSUME NEW t \in Threads, NEW fl \in Seq(Piece), NEW buf \in Seq(Piece), NEW n \in Nat,
         Through(t, fl, buf, n)
  PROVE  /\ Append(buf, <<t, n + 1>>) \in Seq(Piece)
         /\ Append(buf, <<t, n + 1>>) # << >>
         /\ Through(t, fl, Append(buf, <<t, n + 1>>), n + 1)
  <1> DEFINE p == <<t, n + 1>>
             u == fl \o Append(buf, p)
             v == [k \in 1 .. n + 1 |-> <<t, k>>]
  <1>1. p \in Piece /\ Append(buf, p) \in Seq(Piece) /\ Append(buf, p) # << >>
    <2>1. p \in Piece
      BY DEF Piece
    <2> HIDE DEF p
    <2> QED
      BY <2>1
  <1>2. fl \o buf \in Seq(Piece) /\ fl \o buf = [k \in 1 .. n |-> <<t, k>>]
    BY Joined DEF Through
  <1>3. Len(fl \o buf) = n /\ Len(fl \o buf) = Len(fl) + Len(buf)
    BY <1>2, Joined
  <1>4. v \in Seq(Piece) /\ Len(v) = n + 1
    BY DEF Piece
  <1>5. u \in Seq(Piece) /\ Len(u) = Len(v)
    BY <1>1, <1>3, <1>4
  <1>6. \A k \in 1 .. n : u[k] = (fl \o buf)[k]
    BY <1>1, <1>3
  <1>7. u[n + 1] = p
    BY <1>1, <1>3
  <1>8. \A k \in 1 .. Len(u) : u[k] = v[k]
    <2> TAKE k \in 1 .. Len(u)
    <2>1. k \in 1 .. n \/ k = n + 1
      BY <1>4, <1>5
    <2>2. v[k] = <<t, k>>
      BY <1>4, <1>5
    <2>3. CASE k \in 1 .. n
      BY <1>2, <1>6, <2>2, <2>3
    <2>4. CASE k = n + 1
      BY <1>7, <2>2, <2>4
    <2> QED
      BY <2>1, <2>3, <2>4
  <1>9. u = v
    BY <1>4, <1>5, <1>8, SeqEqual
  <1> QED
    BY <1>1, <1>9 DEF Through

(* ... the characters and the newline ...                                  *)
LEMMA WriteStep ==
  ASSUME IInv, NEW t \in Threads, Write(t)
  PROVE  IInv'
  <1> USE DEF IInv
  <1>1. /\ line[t].left \in 2 .. Pieces + 1 /\ lastId' = t /\ lastBuffer' = t
        /\ buffer' = [buffer EXCEPT ![t] = Append(@, <<t, written[t] + 1>>)]
        /\ written' = [written EXCEPT ![t] = @ + 1]
        /\ line' = [line EXCEPT ![t].left = @ - 1]
        /\ UNCHANGED <<level, metadata, record, flushed, interrupted, signalled, lines>>
    BY OwnStream DEF Write, GetStream
  <1>2. /\ line[t] \in Line /\ Sound(line[t], metadata) /\ Pieces \in Nat
        /\ metadata["severity"] # 0
    <2>1. line[t] \in Line /\ Sound(line[t], metadata) /\ Pieces \in Nat
      BY LoggerAssumption DEF LoggerTypeOK, LineInv
    <2> QED
      BY <1>1, <2>1 DEF Sound
  <1>3. /\ line'[t] \in Line /\ line'[t].left > 0 /\ line'[t].own = line[t].own
        /\ line'[t].id = line[t].id /\ line'[t].severity = line[t].severity
        /\ \A u \in Threads : u # t => line'[u] = line[u]
    <2> DEFINE l == [line[t] EXCEPT !.left = @ - 1]
    <2>1. line'[t] = l /\ \A u \in Threads : u # t => line'[u] = line[u]
      BY <1>1 DEF LoggerTypeOK
    <2>2. l.own = line[t].own /\ l.left = line[t].left - 1 /\ l.id = line[t].id
          /\ l.severity = line[t].severity
      BY <1>2 DEF Line
    <2>3. line[t].left - 1 \in 0 .. Pieces + 4 /\ line[t].left - 1 > 0
      BY <1>1, <1>2
    <2>4. l = [left |-> l.left, id |-> l.id, severity |-> l.severity, own |-> l.own]
      BY <1>2 DEF Line
    <2> HIDE DEF l
    <2>5. l \in Line
      BY <1>2, <2>2, <2>3, <2>4 DEF Line
    <2> QED
      BY <2>1, <2>2, <2>3, <2>5
  <1>4. line' \in [Threads -> Line]
    BY <1>1, <1>3 DEF LoggerTypeOK
  <1>5. \A u \in Threads : flushed[u] \in Seq(Piece) /\ buffer[u] \in Seq(Piece)
                           /\ written[u] \in Nat
    BY DEF LoggerTypeOK
  <1>6. /\ buffer'[t] = Append(buffer[t], <<t, written[t] + 1>>) /\ written'[t] = written[t] + 1
        /\ \A u \in Threads : u # t => buffer'[u] = buffer[u] /\ written'[u] = written[u]
    BY <1>1 DEF LoggerTypeOK
  <1>7. buffer'[t] \in Seq(Piece) /\ Through(t, flushed[t], buffer'[t], written'[t])
    BY <1>5, <1>6, ThroughMore DEF BufferInv
  <1>8. buffer' \in [Threads -> Seq(Piece)] /\ written' \in [Threads -> Nat]
    BY <1>1, <1>5, <1>6, <1>7 DEF LoggerTypeOK
  <1>9. LoggerTypeOK'
    BY <1>1, <1>4, <1>8 DEF LoggerTypeOK
  <1>10. StreamInv' /\ BufferInv' /\ RecordInv'
    BY <1>1, <1>6, <1>7 DEF StreamInv, BufferInv, RecordInv, Described
  <1>11. LineInv'
    BY <1>1, <1>2, <1>3, <1>6 DEF LineInv, Sound
  <1> QED
    BY <1>9, <1>10, <1>11

(* ... and the end of the line, where the text goes to the sink.           *)
LEMMA EndLineStep ==
  ASSUME IInv, NEW t \in Threads, EndLine(t)
  PROVE  IInv'
  <1> USE DEF IInv
  <1>1. /\ Sync(t) /\ line' = [line EXCEPT ![t] = NoLine]
        /\ UNCHANGED <<level, metadata, interrupted, signalled, lines, written>>
    BY DEF EndLine
  <1>2. NoLine \in Line /\ Sound(NoLine, metadata)
    BY LoggerAssumption DEF NoLine, Line, Keys, Sound, Info
  <1>3. LoggerTypeOK'
    BY <1>1, <1>2, SyncTakes DEF LoggerTypeOK
  <1>4. StreamInv' /\ BufferInv'
    BY <1>1, SyncTakes DEF StreamInv, BufferInv
  <1>5. RecordInv'
    BY <1>1, SyncRecord
  <1>6. LineInv'
    <2>1. buffer' = [buffer EXCEPT ![t] = << >>]
      BY <1>1, SyncTakes
    <2>2. \A u \in Threads : buffer'[u] # << >> => buffer[u] # << >>
      BY <2>1 DEF LoggerTypeOK
    <2>3. \A u \in Threads : Sound(line'[u], metadata)
      BY <1>1, <1>2 DEF LoggerTypeOK, LineInv
    <2> QED
      BY <1>1, <2>2, <2>3 DEF LineInv
  <1> QED
    BY <1>3, <1>4, <1>5, <1>6

(* The signal handler sets the line of the main thread aside and takes it  *)
(* up again.                                                               *)
LEMMA SignalStep ==
  ASSUME IInv, Signal \/ HandlerReturns
  PROVE  IInv'
  <1> USE DEF IInv
  <1>1. Main \in Threads /\ NoLine \in Line /\ Sound(NoLine, metadata)
    BY LoggerAssumption DEF NoLine, Line, Keys, Sound, Info
  <1>2. UNCHANGED <<level, metadata, output, lines, written>>
    BY DEF Signal, HandlerReturns
  <1>3. StreamInv' /\ BufferInv' /\ RecordInv'
    BY <1>2 DEF StreamInv, BufferInv, RecordInv, Described, output
  <1>4. CASE Signal
    <2>1. interrupted' = <<line[Main]>> /\ line' = [line EXCEPT ![Main] = NoLine]
      BY <1>4 DEF Signal
    <2>2. line[Main] \in Line /\ Sound(line[Main], metadata)
      BY <1>1 DEF LoggerTypeOK, LineInv
    <2>3. LoggerTypeOK'
      BY <1>1, <1>2, <2>1, <2>2 DEF LoggerTypeOK, output
    <2>4. LineInv'
      BY <1>1, <1>2, <2>1, <2>2 DEF LoggerTypeOK, LineInv, output
    <2> QED
      BY <1>3, <2>3, <2>4
  <1>5. CASE HandlerReturns
    <2>1. /\ interrupted # << >> /\ interrupted' = << >>
          /\ line' = [line EXCEPT ![Main] = Head(interrupted)]
      BY <1>5 DEF HandlerReturns
    <2>2. PICK l \in Line : interrupted = <<l>>
      BY <2>1 DEF LoggerTypeOK
    <2>3. Head(interrupted) = l /\ Sound(l, metadata)
      BY <2>2 DEF LineInv
    <2>4. LoggerTypeOK'
      BY <1>1, <1>2, <2>1, <2>3 DEF LoggerTypeOK, output
    <2>5. LineInv'
      BY <1>1, <1>2, <2>1, <2>3 DEF LoggerTypeOK, LineInv, output
    <2> QED
      BY <1>3, <2>4, <2>5
  <1> QED
    BY <1>4, <1>5

(* At the start nothing is in any buffer.                                  *)
LEMMA LoggerInit == Init => IInv
  <1> SUFFICES ASSUME Init PROVE IInv
    OBVIOUS
  <1>1. Main \in Threads /\ NoLine \in Line
        /\ \A m : Sound(NoLine, m)
    BY LoggerAssumption DEF NoLine, Line, Keys, Sound, Info
  <1>2. << >> \o << >> = [k \in 1 .. 0 |-> k] /\ << >> \in Seq(Piece)
    OBVIOUS
  <1>3. LoggerTypeOK
    BY <1>1, <1>2 DEF Init, LoggerTypeOK, Keys
  <1>4. BufferInv
    <2>1. ASSUME NEW t \in Threads PROVE Through(t, << >>, << >>, 0)
      BY DEF Through
    <2> QED
      BY <2>1 DEF BufferInv, Init
  <1>5. StreamInv /\ LineInv /\ RecordInv
    BY <1>1 DEF Init, StreamInv, LineInv, RecordInv
  <1> QED
    BY <1>3, <1>4, <1>5 DEF IInv

(* The invariant is inductive.                                             *)
THEOREM LoggerInvariant == Spec => []IInv
  <1>1. IInv /\ [Next]_vars => IInv'
    <2> SUFFICES ASSUME IInv, [Next]_vars PROVE IInv'
      OBVIOUS
    <2>1. CASE Next
      BY <2>1, BeginLineStep, DescribeStep, WriteStep, EndLineStep, SignalStep DEF Next
    <2>2. CASE UNCHANGED vars
      BY <2>2 DEF vars, output, IInv, LoggerTypeOK, StreamInv, BufferInv, LineInv,
                  RecordInv, Described
    <2> QED
      BY <2>1, <2>2
  <1> QED
    BY LoggerInit, <1>1, PTL DEF Spec

(* No record mixes the text of two threads, the signal handler's line      *)
(* included.                                                               *)
THEOREM TextStaysApart == Spec => []OneThreadPerLine
  <1>1. IInv => OneThreadPerLine
    BY DEF IInv, RecordInv, OneThreadPerLine
  <1> QED
    BY LoggerInvariant, <1>1, PTL

(* What a thread writes passes through its own buffer exactly once and in  *)
(* order, and a record carries the severity, the time and the function of  *)
(* its line as far as no other line has overwritten them.                  *)
THEOREM NoLineIsLost == Spec => []LinesAccountedFor
  <1>1. IInv => LinesAccountedFor
    BY DEF IInv, BufferInv, Through, RecordInv, LinesAccountedFor
  <1> QED
    BY LoggerInvariant, <1>1, PTL
=============================================================================
