------------------------------ MODULE KeyQueue ------------------------------
(***************************************************************************)
(* What the mapper relies on the key channel for: keys come out in the     *)
(* order they went in, each once; every wait_key gets one answer; a wait   *)
(* without a timeout is answered by a key or by the end of the channel and *)
(* by nothing else; and an answer that is there is eventually given.       *)
(***************************************************************************)
EXTENDS Sequences

CONSTANTS InputEvents, None

VARIABLES queue,    \* keys in the channel
          closed,   \* the channel has ended
          asked,    \* the wait under way: "no", "timed" or "untimed"
          answer    \* what the last wait returned

kq == <<queue, closed, asked, answer>>

Init == queue = <<>> /\ closed = FALSE /\ asked = "no" /\ answer = None

Put(ev) == queue' = Append(queue, ev) /\ UNCHANGED <<closed, asked, answer>>

End == closed' = TRUE /\ UNCHANGED <<queue, asked, answer>>

Ask == /\ asked = "no" /\ asked' \in {"timed", "untimed"}
       /\ UNCHANGED <<queue, closed, answer>>

Answer ==
  /\ asked # "no" /\ asked' = "no"
  /\ \/ closed /\ answer' = None /\ UNCHANGED queue
     \/ ~closed /\ queue # <<>> /\ answer' = Head(queue) /\ queue' = Tail(queue)
     \/ ~closed /\ queue = <<>> /\ asked = "timed" /\ answer' = None /\ UNCHANGED queue
  /\ UNCHANGED closed

Next == (\E ev \in InputEvents : Put(ev)) \/ End \/ Ask \/ Answer

Spec == Init /\ [][Next]_kq /\ WF_kq(Answer)
=============================================================================
