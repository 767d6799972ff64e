----------------------------- MODULE KeyChannel -----------------------------
(***************************************************************************)
(* The key channel (common/src/key_channel.cpp) at the level of its mutex  *)
(* and its condition variable: daemon threads send, the mapper thread      *)
(* receives, the main thread closes.  A step is what one thread does       *)
(* between two operations on the mutex or on the condition variable.       *)
(***************************************************************************)
EXTENDS Integers, Sequences

CONSTANTS
  InputEvents,
  Senders,        \* threads with a KeySender (macOS has two)
  None,           \* std::nullopt, and nobody
  MaxQueue        \* bound: keys waiting in the channel

ASSUME ChannelAssumption == None \notin InputEvents \cup Senders /\ MaxQueue \in Nat

VARIABLES
  queue, closed,  \* KeyQueueState
  mtx,            \* who holds KeyQueueState::mtx
  send_pc,        \* send_pc[s]: where thread s is in send_key
  recv_pc,        \* where the mapper is in wait_key
  timed,          \* wait_key was given a timeout
  expired,        \* ... which has passed
  close_pc,       \* where the main thread is in close
  key             \* what wait_key returned last

state == <<queue, closed>>
receiver == <<recv_pc, timed, expired, key>>
vars == <<state, mtx, send_pc, receiver, close_pc>>

Init ==
  /\ queue = <<>> /\ closed = FALSE
  /\ mtx = None
  /\ send_pc = [s \in Senders |-> "idle"]
  /\ recv_pc = "idle" /\ timed = FALSE /\ expired = FALSE /\ key = None
  /\ close_pc = "idle"

Lock(thread)   == mtx = None /\ mtx' = thread
Unlock(thread) == mtx = thread /\ mtx' = None

\* notify_one and notify_all: there is one thread that waits.
Notify ==
  IF recv_pc = "blocked" THEN recv_pc' = "woken" ELSE UNCHANGED recv_pc

Ready == closed \/ queue # <<>>

-----------------------------------------------------------------------------
(* send_key *)

SendLock(s) ==
  /\ send_pc[s] = "idle" /\ Len(queue) < MaxQueue
  /\ Lock(s)
  /\ send_pc' = [send_pc EXCEPT ![s] = "locked"]
  /\ UNCHANGED <<state, receiver, close_pc>>

SendPush(s) ==
  /\ send_pc[s] = "locked"
  /\ \E ev \in InputEvents : queue' = Append(queue, ev)
  /\ Unlock(s)
  /\ send_pc' = [send_pc EXCEPT ![s] = "unlocked"]
  /\ UNCHANGED <<closed, receiver, close_pc>>

\* Mutant: a key is announced only to a receiver that has nothing to read.
SendNotifyFirstOnly(s) ==
  /\ send_pc[s] = "unlocked"
  /\ IF Len(queue) = 1 THEN Notify ELSE UNCHANGED recv_pc
  /\ send_pc' = [send_pc EXCEPT ![s] = "idle"]
  /\ UNCHANGED <<state, mtx, timed, expired, key, close_pc>>

SendNotify(s) ==
  /\ send_pc[s] = "unlocked"
  /\ Notify
  /\ send_pc' = [send_pc EXCEPT ![s] = "idle"]
  /\ UNCHANGED <<state, mtx, timed, expired, key, close_pc>>

-----------------------------------------------------------------------------
(* wait_key *)

WaitCall ==
  /\ recv_pc = "idle"
  /\ recv_pc' = "woken" /\ timed' \in BOOLEAN /\ expired' = FALSE
  /\ UNCHANGED <<state, mtx, send_pc, key, close_pc>>

\* The unique_lock, and the lock taken again after each wait.
WaitLock ==
  /\ recv_pc = "woken"
  /\ Lock("receiver")
  /\ recv_pc' = "locked"
  /\ UNCHANGED <<state, send_pc, timed, expired, key, close_pc>>

\* The predicate does not hold: the mutex is released and the thread blocked
\* in one step.
WaitBlock ==
  /\ recv_pc = "locked" /\ ~Ready /\ ~(timed /\ expired)
  /\ Unlock("receiver")
  /\ recv_pc' = "blocked"
  /\ UNCHANGED <<state, send_pc, timed, expired, key, close_pc>>

WaitTimeout ==
  /\ recv_pc = "blocked" /\ timed
  /\ recv_pc' = "woken" /\ expired' = TRUE
  /\ UNCHANGED <<state, mtx, send_pc, timed, key, close_pc>>

\* A condition variable may wake a thread for no reason.
WaitSpurious ==
  /\ recv_pc = "blocked"
  /\ recv_pc' = "woken"
  /\ UNCHANGED <<state, mtx, send_pc, timed, expired, key, close_pc>>

\* Mutant: no second look at the queue after the wait.
WaitReturnUnchecked ==
  /\ recv_pc = "locked"
  /\ key' = IF closed \/ queue = <<>> THEN None ELSE Head(queue)
  /\ queue' = IF closed \/ queue = <<>> THEN queue ELSE Tail(queue)
  /\ Unlock("receiver")
  /\ recv_pc' = "idle"
  /\ UNCHANGED <<closed, send_pc, timed, expired, close_pc>>

WaitReturn ==
  /\ recv_pc = "locked" /\ (Ready \/ (timed /\ expired))
  /\ key' = IF closed \/ queue = <<>> THEN None ELSE Head(queue)
  /\ queue' = IF closed \/ queue = <<>> THEN queue ELSE Tail(queue)
  /\ Unlock("receiver")
  /\ recv_pc' = "idle"
  /\ UNCHANGED <<closed, send_pc, timed, expired, close_pc>>

-----------------------------------------------------------------------------
(* close *)

CloseLock ==
  /\ close_pc = "idle"
  /\ Lock("main")
  /\ close_pc' = "locked"
  /\ UNCHANGED <<state, send_pc, receiver>>

CloseSet ==
  /\ close_pc = "locked"
  /\ closed' = TRUE
  /\ Unlock("main")
  /\ close_pc' = "unlocked"
  /\ UNCHANGED <<queue, send_pc, receiver>>

CloseNotify ==
  /\ close_pc = "unlocked"
  /\ Notify
  /\ close_pc' = "done"
  /\ UNCHANGED <<state, mtx, send_pc, timed, expired, key>>

-----------------------------------------------------------------------------
Send(s) == SendLock(s) \/ SendPush(s) \/ SendNotify(s)
Wait    == WaitCall \/ WaitLock \/ WaitBlock \/ WaitTimeout \/ WaitSpurious \/ WaitReturn
Close   == CloseLock \/ CloseSet \/ CloseNotify

Next == (\E s \in Senders : Send(s)) \/ Wait \/ Close

Spec == Init /\ [][Next]_vars

\* Every thread that can go on in one of these functions goes on; the mapper
\* gets the mutex if it is free again and again, and a timeout that was given
\* passes, however often the thread is woken for nothing before it does.
\* Nothing makes a key come or the main thread call close.
Fairness ==
  /\ \A s \in Senders : WF_vars(SendPush(s) \/ SendNotify(s))
  /\ SF_vars(WaitLock) /\ WF_vars(WaitBlock \/ WaitReturn) /\ SF_vars(WaitTimeout)
  /\ WF_vars(CloseSet \/ CloseNotify)

FairSpec == Spec /\ Fairness

-----------------------------------------------------------------------------
\* The types of the variables.
TypeOK ==
  /\ queue \in Seq(InputEvents) /\ closed \in BOOLEAN
  /\ mtx \in Senders \cup {"receiver", "main", None}
  /\ send_pc \in [Senders -> {"idle", "locked", "unlocked"}]
  /\ recv_pc \in {"idle", "woken", "locked", "blocked"}
  /\ timed \in BOOLEAN /\ expired \in BOOLEAN
  /\ close_pc \in {"idle", "locked", "unlocked", "done"}
  /\ key \in InputEvents \cup {None}

\* The mapper is never asleep with something to read unless the thread that
\* put it there is about to wake it: no order of send_key, wait_key and close
\* loses a wake-up, although both notify after they have let go of the mutex
\* (key_channel.cpp:8-12, 24-35, 53-59).
NoLostWakeup ==
  (recv_pc = "blocked" /\ Ready)
    => (\E s \in Senders : send_pc[s] = "unlocked") \/ close_pc = "unlocked"

Q == INSTANCE KeyQueue WITH
  asked  <- IF recv_pc = "idle" THEN "no" ELSE IF timed THEN "timed" ELSE "untimed",
  answer <- key

\* The channel is the queue the mapper thinks it is (Mapper models it so).
IsKeyQueue == Q!Spec
=============================================================================
