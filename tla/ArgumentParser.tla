--------------------------- MODULE ArgumentParser ---------------------------
(***************************************************************************)
(* The server's command line: the options server/main.cpp registers and    *)
(* the part of libs/argparse it uses.  Options are named by what they      *)
(* mean; tokens are the strings of argv, taken from the table below, which *)
(* has one or two spellings of an option, values good for some options and *)
(* bad for others, and tokens nobody registered.                           *)
(*                                                                         *)
(* argv is written piece by piece, ahead of what the parser looks at,      *)
(* which no parser can tell from an argv that was there from the start.    *)
(***************************************************************************)
EXTENDS Integers, Sequences, FiniteSets

CONSTANTS Tokens,      \* the strings argv may hold
          MaxTokens    \* bound: length of argv

VARIABLES
    argv,       \* the tokens written so far
    closed,     \* whether that is all of them
    rest,       \* preprocessed tokens the parser has not taken yet
    pending,    \* options named by the token at hand, still to be consumed
    used,       \* m_is_used
    values,     \* what the action of each used option stored
    outcome     \* "parsing", "config", "usage" (return 1) or "exit" (exit(0))

parser == <<argv, closed, rest, pending, used, values, outcome>>

(* -t and --tun were meant to be two names and are one string.  -e and -r  *)
(* are like -m, -v is like -h.                                             *)
Names == [tun |-> {"-t, --tun"}, port |-> {"-p", "--port"},
          iface |-> {"-i"}, secret |-> {"-s", "--secret"}, mtu |-> {"-m"},
          dns |-> {"-d"}, save |-> {"-f"}, verbose |-> {"-l"}, help |-> {"-h"}]

Options == DOMAIN Names
Required == {"port", "iface", "secret"}

(* nargs: a default value allows none, a flag takes none. *)
MinArgs(o) == IF o \in Required \cup {"dns"} THEN 1 ELSE 0
MaxArgs(o) == IF o \in {"verbose", "help"} THEN 0 ELSE 1

(* No value given: what default_value or implicit_value stand for. *)
Default == "default"

(* What from_chars reads to the end into a uint16_t. *)
Numbers == {"80", "1200"}

(* The actions of main and store_into: which values they do not throw on.  *)
(* 80 is no MTU; stoi, unlike from_chars, does not mind what follows a     *)
(* number; only directories can be saved to.                               *)
Words == {"80", "1200", "1200x", "eth0", "-5"}
ValuesOf == [tun |-> Words, port |-> Numbers, iface |-> {"eth0"}, secret |-> Words,
             mtu |-> {"1200", "1200x"},
             dns |-> {}, save |-> {}, verbose |-> {}, help |-> {}]

Accepts(o, v) == v \in ValuesOf[o]

(* A dash and a decimal literal do not look like an option. *)
NegativeNumbers == {"-5"}

(* Tokens that do not look like an option. *)
IsPositional(t) == t \in {"80", "1200", "1200x", "eth0"} \cup NegativeNumbers

(* --name=value is split if the name is registered. *)
Preprocess(t) == IF t = "--port=80" THEN <<"--port", "80">>
                 ELSE IF t = "--secret=-x" THEN <<"--secret", "-x">>
                 ELSE <<t>>

(* A single dash and several letters name several options; the letter of   *)
(* no option is Unknown.                                                   *)
Unknown == "unknown"

Letters(t) == IF t = "-lp" THEN <<"verbose", "port">>
              ELSE IF t = "-sp" THEN <<"secret", "port">>
              ELSE IF t = "-p80" THEN <<"port", Unknown>>
              ELSE <<Unknown>>

NamedBy(t) == {o \in Options : t \in Names[o]}

OptionsOf(t) == IF NamedBy(t) = {} THEN Letters(t)
                ELSE <<CHOOSE o \in NamedBy(t) : TRUE>>

ParserInit ==
    /\ argv = << >> /\ closed = FALSE /\ rest = << >> /\ pending = << >>
    /\ used = {} /\ values = [o \in Options |-> Default]
    /\ outcome = "parsing"

-----------------------------------------------------------------------------
Write(t) ==
    /\ outcome = "parsing" /\ ~closed
    /\ Len(rest) < 2 /\ Len(argv) < MaxTokens
    /\ argv' = Append(argv, t)
    /\ rest' = rest \o Preprocess(t)
    /\ UNCHANGED <<closed, pending, used, values, outcome>>

Close ==
    /\ outcome = "parsing" /\ ~closed /\ Len(rest) < 2
    /\ closed' = TRUE
    /\ UNCHANGED <<argv, rest, pending, used, values, outcome>>

(* The parser sees the token at hand and the next one. *)
Looking == outcome = "parsing" /\ (closed \/ Len(rest) >= 2)

Throw == /\ outcome' = "usage"
         /\ UNCHANGED <<argv, closed, rest, pending, used, values>>

(* "Zero positional arguments expected". *)
StrayValue ==
    /\ Looking /\ pending = << >> /\ rest # << >>
    /\ IsPositional(Head(rest))
    /\ Throw

TakeToken ==
    /\ Looking /\ pending = << >> /\ rest # << >>
    /\ ~IsPositional(Head(rest))
    /\ pending' = OptionsOf(Head(rest)) /\ rest' = Tail(rest)
    /\ UNCHANGED <<argv, closed, used, values, outcome>>

Consuming(o) == /\ outcome = "parsing" /\ (closed \/ rest # << >>)
                /\ pending # << >> /\ o = Head(pending)

UnknownArgument == Consuming(Unknown) /\ Throw

(* seeded bug: an option given twice overwrites *)
NeverDuplicate(o) == FALSE

IsDuplicate(o) == o \in used

DuplicateArgument(o) == Consuming(o) /\ IsDuplicate(o) /\ Throw

(* The action of -h (and of -v) leaves the program. *)
ExitWithHelp ==
    /\ Consuming("help") /\ ~IsDuplicate("help")
    /\ outcome' = "exit"
    /\ UNCHANGED <<argv, closed, rest, pending, used, values>>

(* What consume() finds for o: its value is the next token, unless it      *)
(* looks like an option or o takes none.                                   *)
HasValue(o) == MaxArgs(o) = 1 /\ rest # << >> /\ IsPositional(Head(rest))

ConsumeValue(o) ==
    /\ Consuming(o) /\ ~IsDuplicate(o) /\ HasValue(o)
    /\ Accepts(o, Head(rest))
    /\ values' = [values EXCEPT ![o] = Head(rest)]
    /\ used' = used \cup {o}
    /\ pending' = Tail(pending) /\ rest' = Tail(rest)
    /\ UNCHANGED <<argv, closed, outcome>>

RejectValue(o) ==
    /\ Consuming(o) /\ ~IsDuplicate(o) /\ HasValue(o)
    /\ ~Accepts(o, Head(rest))
    /\ Throw

ConsumeNothing(o) ==
    /\ Consuming(o) /\ ~IsDuplicate(o) /\ ~HasValue(o) /\ o # "help"
    /\ MinArgs(o) = 0
    /\ used' = used \cup {o} /\ pending' = Tail(pending)
    /\ UNCHANGED <<argv, closed, rest, values, outcome>>

TooFewArguments(o) ==
    /\ Consuming(o) /\ ~IsDuplicate(o) /\ ~HasValue(o)
    /\ MinArgs(o) = 1
    /\ Throw

(* validate() of every argument. *)
Validate ==
    /\ outcome = "parsing" /\ closed /\ rest = << >> /\ pending = << >>
    /\ outcome' = IF Required \subseteq used THEN "config" ELSE "usage"
    /\ UNCHANGED <<argv, closed, rest, pending, used, values>>

ParseArgs ==
    \/ \E t \in Tokens : Write(t)
    \/ Close
    \/ StrayValue \/ TakeToken \/ UnknownArgument \/ ExitWithHelp
    \/ \E o \in Options : \/ DuplicateArgument(o)
                          \/ ConsumeValue(o) \/ RejectValue(o)
                          \/ ConsumeNothing(o) \/ TooFewArguments(o)
    \/ Validate

ParserSpec == ParserInit /\ [][ParseArgs]_parser

(* main: -f with or without a value asks for files. *)
SavesToFiles == "save" \in used

-----------------------------------------------------------------------------
(* A reference for the parser: which command lines are right, without      *)
(* saying how they are read.                                               *)

(* The two names the README of the server gives the option for the TUN     *)
(* interface; the reference takes them for what main registered.           *)
DocumentedTun == {"-t", "--tun"}

Understood(t) == IF t \in DocumentedTun THEN <<"-t, --tun">> ELSE Preprocess(t)

LineOf(tokens) ==
    LET F[i \in 0 .. Len(tokens)] ==
            IF i = 0 THEN << >> ELSE F[i - 1] \o Understood(tokens[i])
    IN  F[Len(tokens)]

Line == LineOf(argv)

OptionPlaces == {i \in DOMAIN Line : ~IsPositional(Line[i])}

(* The values right behind place i. *)
ValuesBehind(i) == {j \in DOMAIN Line :
                      /\ j > i /\ \A k \in i + 1 .. j : IsPositional(Line[k])}

TakesValue(o) == o \in Options /\ MaxArgs(o) = 1

(* Where the value of the k-th option named at place i would be. *)
ValuePlace(i, k) ==
    i + Cardinality({l \in 1 .. k : TakesValue(OptionsOf(Line[i])[l])})

WellFormed ==
    /\ DOMAIN Line # {} => 1 \in OptionPlaces
    /\ \A i \in OptionPlaces : LET options == OptionsOf(Line[i]) IN
         /\ \A k \in DOMAIN options : options[k] # Unknown
         /\ \A j \in ValuesBehind(i) : \E k \in DOMAIN options :
               /\ TakesValue(options[k]) /\ ValuePlace(i, k) = j
               /\ Accepts(options[k], Line[j])
         /\ \A k \in DOMAIN options : TakesValue(options[k]) =>
               ValuePlace(i, k) \in ValuesBehind(i) \/ MinArgs(options[k]) = 0
    /\ \A i, j \in OptionPlaces :
         \A k \in DOMAIN OptionsOf(Line[i]), l \in DOMAIN OptionsOf(Line[j]) :
            OptionsOf(Line[i])[k] = OptionsOf(Line[j])[l] => i = j /\ k = l

PlacesOf(o) == {i \in OptionPlaces :
                \E k \in DOMAIN OptionsOf(Line[i]) : OptionsOf(Line[i])[k] = o}

(* The value the line gives option o. *)
Meant(o) ==
    LET given == {j \in DOMAIN Line : \E i \in PlacesOf(o) :
                     /\ j \in ValuesBehind(i) /\ TakesValue(o)
                     /\ \E k \in DOMAIN OptionsOf(Line[i]) :
                           OptionsOf(Line[i])[k] = o /\ ValuePlace(i, k) = j}
    IN  IF given = {} THEN Default ELSE Line[CHOOSE j \in given : TRUE]

ReadsRight ==
    /\ (outcome = "config" /\ used # {}) =>
          /\ WellFormed /\ \A o \in Required : PlacesOf(o) # {}
          /\ \A o \in Options : values[o] = Meant(o)
          /\ used = {o \in Options : PlacesOf(o) # {}}
    /\ outcome = "usage" =>
          ~WellFormed \/ (closed /\ \E o \in Required : PlacesOf(o) = {})

NamesTun == \E i \in DOMAIN argv : argv[i] \in DocumentedTun

(* The parser accepts a command line exactly if it is well-formed and has  *)
(* what is required, gives every option the value the line means for it,   *)
(* and stops with an error only where the line has gone wrong, whatever    *)
(* the order of the options, unless the line names the TUN interface       *)
(* (parse_args, consume, validate; main).                                  *)
ParsesGrammar == NamesTun \/ ReadsRight
=============================================================================
