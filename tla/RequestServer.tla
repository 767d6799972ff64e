---------------------------- MODULE RequestServer ----------------------------
(***************************************************************************)
(* What the local server promises its clients: every line a client wrote   *)
(* is answered once, a client's lines in the order it wrote them, and the  *)
(* program is in the state that the lines answered so far, of all clients, *)
(* put it in.  How the lines travel is not seen here.                      *)
(***************************************************************************)
EXTENDS Sequences, Naturals

CONSTANTS
  Clients,
  Lines,           \* what a line can say
  Fatal,           \* the lines that end the process
  Reply(_),        \* the answer to a line
  Effect(_, _),    \* the state after a line, from the state before it
  InitialState,
  Clicked(_)       \* the state after a click in the tray's menu

VARIABLES requests, replies, state, alive

vars == <<requests, replies, state, alive>>

Init ==
  /\ requests = [c \in Clients |-> <<>>]
  /\ replies = [c \in Clients |-> <<>>]
  /\ state = InitialState /\ alive = TRUE

Request(c, line) ==
  /\ requests' = [requests EXCEPT ![c] = Append(@, line)]
  /\ UNCHANGED <<replies, state, alive>>

Pending(c) == Len(replies[c]) < Len(requests[c])

Serve(c) ==
  /\ alive /\ Pending(c)
  /\ LET line == requests[c][Len(replies[c]) + 1] IN
       \/ /\ line \in Fatal
          /\ alive' = FALSE
          /\ UNCHANGED <<requests, replies, state>>
       \/ /\ line \notin Fatal
          /\ replies' = [replies EXCEPT ![c] = Append(@, Reply(line))]
          /\ state' = Effect(state, line)
          /\ UNCHANGED <<requests, alive>>

Click ==
  /\ alive
  /\ state' = Clicked(state)
  /\ UNCHANGED <<requests, replies, alive>>

Next ==
  \/ Click
  \/ \E c \in Clients : Serve(c) \/ \E line \in Lines : Request(c, line)

Spec == Init /\ [][Next]_vars /\ \A c \in Clients : WF_vars(Serve(c))
=============================================================================
