-------------------------- MODULE ClientConnection --------------------------
(***************************************************************************)
(* The local server's connections (common/src/local_server.cpp) and the    *)
(* tray's menu (common/src/tray.cpp), which both pause and resume the      *)
(* mapper from the main thread.                                            *)
(*                                                                         *)
(* A client writes lines; the socket hands them over in pieces that end    *)
(* anywhere.  read_data collects the pieces and treats each whole line, a  *)
(* step per turn of its loop.  The main thread runs one handler at a time. *)
(***************************************************************************)
EXTENDS SequencesExt, Naturals

CONSTANTS
  Clients,        \* connections
  Says,           \* Says[c]: the lines client c may write
  EndsWithCR,     \* the clients that write a carriage return before the line feed
  MaxLines,       \* bound: lines a client writes
  None            \* no client

ASSUME ClientsAssumption == None \notin Clients /\ MaxLines \in [Clients -> Nat]

VARIABLES
  sent,           \* history: the lines of each client
  wire,           \* the bytes of each client that have not been read
  socket,         \* "open", "closing" once the client has hung up, "closed"
  buffer,         \* ClientConnection::buffer
  current,        \* the connection whose read_data runs, or None
  answers,        \* the answers written to each client
  state,          \* the program: paused, log_key_frequency, profile, tray label
  alive           \* the process runs

connection == <<wire, socket, buffer>>
vars == <<sent, connection, current, answers, state, alive>>

-----------------------------------------------------------------------------
(* Lines.  Two bytes stand for the text of one. *)

Loads == {"load_good", "load_refused", "load_malformed", "load_fatal"}
Settings == {"log_on", "log_bad"}
Lines == Loads \cup Settings \cup {"get_frequencies", "pause", "resume", "unknown"}

Fatal == {"load_fatal"}

Byte(line, part) == [of |-> line, part |-> part]
CR == Byte("line_end", 1)
LF == Byte("line_end", 2)

Encode(c, line) ==
  <<Byte(line, 1), Byte(line, 2)>> \o (IF c \in EndsWithCR THEN <<CR, LF>> ELSE <<LF>>)

\* What the parser makes of the bytes up to a line feed, a carriage return
\* chopped off.
Chop(bytes) == IF bytes # <<>> /\ Last(bytes) = CR THEN Front(bytes) ELSE bytes

Decode(bytes) ==
  IF \E line \in Lines : Chop(bytes) = <<Byte(line, 1), Byte(line, 2)>>
    THEN Head(bytes).of
    ELSE "invalid"

\* A client may write any line, the text of no message for one.
ASSUME SaysAssumption == Says \in [Clients -> SUBSET Lines]

\* The answer, by the type of the message.
Reply(line) ==
  CASE line \in {"load_good", "load_refused", "log_on"} -> "ok"
    [] line \in {"get_frequencies", "pause", "resume"} -> "success"
    [] OTHER -> "fail"

\* What else the branch of the message does.
Effect(s, line) ==
  CASE line = "load_good" -> [s EXCEPT !.profile = "loaded"]
    [] line = "log_on"    -> [s EXCEPT !.log_key_frequency = TRUE]
    [] line = "pause"     -> [s EXCEPT !.paused = TRUE]
    [] line = "resume"    -> [s EXCEPT !.paused = FALSE]
    [] OTHER              -> s

\* The tray's action: its text, and what it emits.
Clicked(s) == IF s.label = "Pause" THEN [s EXCEPT !.label = "Resume", !.paused = TRUE]
                                   ELSE [s EXCEPT !.label = "Pause", !.paused = FALSE]

InitialState ==
  [paused |-> FALSE, log_key_frequency |-> FALSE, profile |-> "first", label |-> "Pause"]

-----------------------------------------------------------------------------
Init ==
  /\ sent = [c \in Clients |-> <<>>]
  /\ wire = [c \in Clients |-> <<>>] /\ buffer = [c \in Clients |-> <<>>]
  /\ socket = [c \in Clients |-> "open"]
  /\ current = None
  /\ answers = [c \in Clients |-> <<>>]
  /\ state = InitialState /\ alive = TRUE

\* A client writes a line.
Write(c, line) ==
  /\ socket[c] = "open" /\ Len(sent[c]) < MaxLines[c]
  /\ sent' = [sent EXCEPT ![c] = Append(@, line)]
  /\ wire' = [wire EXCEPT ![c] = @ \o Encode(c, line)]
  /\ UNCHANGED <<socket, buffer, current, answers, state, alive>>

HangUp(c) ==
  /\ socket[c] = "open"
  /\ socket' = [socket EXCEPT ![c] = "closing"]
  /\ UNCHANGED <<sent, wire, buffer, current, answers, state, alive>>

MainIdle == alive /\ current = None

\* Mutant: a piece replaces what the last one left.
ReadAfresh(c) ==
  /\ MainIdle /\ wire[c] # <<>>
  /\ \E n \in 1 .. Len(wire[c]) :
       /\ buffer' = [buffer EXCEPT ![c] = SubSeq(wire[c], 1, n)]
       /\ wire' = [wire EXCEPT ![c] = SubSeq(@, n + 1, Len(@))]
  /\ current' = c
  /\ UNCHANGED <<sent, socket, answers, state, alive>>

\* read_data, up to its loop: readAll() gives the bytes that have arrived.
ReadData(c) ==
  /\ MainIdle /\ wire[c] # <<>>
  /\ \E n \in 1 .. Len(wire[c]) :
       /\ buffer' = [buffer EXCEPT ![c] = @ \o SubSeq(wire[c], 1, n)]
       /\ wire' = [wire EXCEPT ![c] = SubSeq(@, n + 1, Len(@))]
  /\ current' = c
  /\ UNCHANGED <<sent, socket, answers, state, alive>>

\* indexOf('\n'), from 1, or 0.
newline_index(c) == SelectInSeq(buffer[c], LAMBDA byte : byte = LF)

\* Mutant: one line per piece.
HandleOne ==
  /\ alive /\ current # None /\ newline_index(current) # 0
  /\ LET line == Decode(SubSeq(buffer[current], 1, newline_index(current) - 1)) IN
       /\ answers' = [answers EXCEPT ![current] = Append(@, Reply(line))]
       /\ state' = Effect(state, line)
       /\ buffer' = [buffer EXCEPT ![current] =
                       SubSeq(@, newline_index(current) + 1, Len(@))]
  /\ current' = None
  /\ UNCHANGED <<sent, wire, socket, alive>>

\* A turn of the loop.  An exception that is not std::invalid_argument leaves
\* the handler and ends the process.
HandleLine ==
  /\ alive /\ current # None /\ newline_index(current) # 0
  /\ LET line == Decode(SubSeq(buffer[current], 1, newline_index(current) - 1)) IN
       \/ /\ line \in Fatal
          /\ alive' = FALSE
          /\ UNCHANGED <<answers, state, buffer>>
       \/ /\ line \notin Fatal
          /\ answers' = [answers EXCEPT ![current] = Append(@, Reply(line))]
          /\ state' = Effect(state, line)
          /\ buffer' = [buffer EXCEPT ![current] =
                          SubSeq(@, newline_index(current) + 1, Len(@))]
          /\ UNCHANGED alive
  /\ UNCHANGED <<sent, wire, socket, current>>

\* The loop ends.
ReadDone ==
  /\ alive /\ current # None /\ newline_index(current) = 0
  /\ current' = None
  /\ UNCHANGED <<sent, connection, answers, state, alive>>

\* disconnected, once everything has been read: the socket goes, the
\* connection object stays with the server.
Disconnected(c) ==
  /\ MainIdle /\ socket[c] = "closing" /\ wire[c] = <<>>
  /\ socket' = [socket EXCEPT ![c] = "closed"]
  /\ UNCHANGED <<sent, wire, buffer, current, answers, state, alive>>

Click ==
  /\ MainIdle
  /\ state' = Clicked(state)
  /\ UNCHANGED <<sent, connection, current, answers, alive>>

-----------------------------------------------------------------------------
Next ==
  \/ HandleLine \/ ReadDone \/ Click
  \/ \E c \in Clients :
       HangUp(c) \/ ReadData(c) \/ Disconnected(c) \/ \E line \in Says[c] : Write(c, line)

\* The event loop gets to every socket with something to read, and a handler
\* that has begun goes on.
Spec ==
  /\ Init /\ [][Next]_vars
  /\ WF_vars(HandleLine) /\ WF_vars(ReadDone)
  /\ \A c \in Clients : SF_vars(ReadData(c))

-----------------------------------------------------------------------------
Bytes == [of : Lines \cup {"line_end"}, part : 1 .. 2]

\* The types of the variables.
TypeOK ==
  /\ sent \in [Clients -> Seq(Lines)]
  /\ wire \in [Clients -> Seq(Bytes)] /\ buffer \in [Clients -> Seq(Bytes)]
  /\ socket \in [Clients -> {"open", "closing", "closed"}]
  /\ current \in Clients \cup {None}
  /\ answers \in [Clients -> Seq({"ok", "fail", "success"})]
  /\ state \in [paused : BOOLEAN, log_key_frequency : BOOLEAN,
                profile : {"first", "loaded"}, label : {"Pause", "Resume"}]
  /\ alive \in BOOLEAN

\* The server keeps its promise: whatever pieces the lines come in and however
\* the clients' pieces alternate, every line is answered once and in order, and
\* the program is in the state the answered lines put it in
\* (local_server.cpp:70-130).
Promise == INSTANCE RequestServer WITH requests <- sent, replies <- answers
KeepsPromise == Promise!Spec

\* No line waits that could be answered: when no handler runs, what a buffer
\* holds is the beginning of a line.  Nothing would wake the handler up for it
\* (local_server.cpp:73-77).
NoLineLeftBehind ==
  alive /\ current = None =>
    \A c \in Clients : \A i \in DOMAIN buffer[c] : buffer[c][i] # LF
=============================================================================
