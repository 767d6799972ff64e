-------------------------- MODULE KeyChannelProofs --------------------------
(***************************************************************************)
(* No wake-up is lost, and what the mutex makes of send_key, wait_key and  *)
(* close is the queue that the mapper relies on: every step of a thread is *)
(* a step of KeyQueue or leaves the queue as it is.                        *)
(***************************************************************************)
EXTENDS KeyChannel, TLAPS

LEMMA TypesInit == Init => TypeOK
<1> SUFFICES ASSUME Init PROVE TypeOK
  OBVIOUS
<1>1. queue \in Seq(InputEvents)
  BY DEF Init
<1>2. send_pc \in [Senders -> {"idle", "locked", "unlocked"}]
  BY DEF Init
<1> QED
  BY <1>1, <1>2 DEF Init, TypeOK

LEMMA TypesStep == TypeOK /\ [Next]_vars => TypeOK'
<1> SUFFICES ASSUME TypeOK, [Next]_vars PROVE TypeOK'
  OBVIOUS
<1> USE ChannelAssumption DEF TypeOK, state, receiver
<1>1. ASSUME NEW s \in Senders, SendLock(s) PROVE TypeOK'
  BY <1>1 DEF SendLock, Lock
<1>2. ASSUME NEW s \in Senders, SendPush(s) PROVE TypeOK'
  BY <1>2 DEF SendPush, Unlock
<1>3. ASSUME NEW s \in Senders, SendNotify(s) PROVE TypeOK'
  BY <1>3 DEF SendNotify, Notify
<1>4. CASE WaitCall \/ WaitLock \/ WaitBlock \/ WaitTimeout \/ WaitSpurious
  BY <1>4 DEF WaitCall, WaitLock, WaitBlock, WaitTimeout, WaitSpurious, Lock, Unlock
<1>5. CASE WaitReturn
  BY <1>5 DEF WaitReturn, Unlock
<1>6. CASE Close
  BY <1>6 DEF Close, CloseLock, CloseSet, CloseNotify, Lock, Unlock, Notify
<1>7. CASE UNCHANGED vars
  BY <1>7 DEF vars
<1> QED
  BY <1>1, <1>2, <1>3, <1>4, <1>5, <1>6, <1>7 DEF Next, Send, Wait

LEMMA TypesAlways == Spec => []TypeOK
BY TypesInit, TypesStep, PTL DEF Spec

-----------------------------------------------------------------------------
LEMMA WakeUpStep == TypeOK /\ NoLostWakeup /\ [Next]_vars => NoLostWakeup'
<1> SUFFICES ASSUME TypeOK, NoLostWakeup, [Next]_vars PROVE NoLostWakeup'
  OBVIOUS
<1> USE DEF TypeOK, NoLostWakeup, Ready, state, receiver
<1>1. ASSUME NEW s \in Senders, SendLock(s) PROVE NoLostWakeup'
  BY <1>1 DEF SendLock, Lock
<1>2. ASSUME NEW s \in Senders, SendPush(s) PROVE NoLostWakeup'
  BY <1>2 DEF SendPush
<1>3. ASSUME NEW s \in Senders, SendNotify(s) PROVE NoLostWakeup'
  BY <1>3 DEF SendNotify, Notify
<1>4. CASE WaitCall \/ WaitLock \/ WaitBlock \/ WaitTimeout \/ WaitSpurious
  BY <1>4 DEF WaitCall, WaitLock, WaitBlock, WaitTimeout, WaitSpurious
<1>5. CASE WaitReturn
  BY <1>5 DEF WaitReturn
<1>6. CASE Close
  BY <1>6 DEF Close, CloseLock, CloseSet, CloseNotify, Notify
<1>7. CASE UNCHANGED vars
  BY <1>7 DEF vars
<1> QED
  BY <1>1, <1>2, <1>3, <1>4, <1>5, <1>6, <1>7 DEF Next, Send, Wait

\* The mapper never sleeps on a key or on the end of the channel unless the
\* thread that brought it is about to wake it, however many threads send
\* (key_channel.cpp:8-12, 24-35, 53-59).
THEOREM NoWakeupLost == Spec => []NoLostWakeup
<1>1. Init => NoLostWakeup
  BY DEF Init, NoLostWakeup
<1> QED
  BY <1>1, WakeUpStep, TypesAlways, PTL DEF Spec

-----------------------------------------------------------------------------
(* The threads implement the queue. *)

LEMMA QueueStep == TypeOK /\ [Next]_vars => [Q!Next]_(Q!kq)
<1> SUFFICES ASSUME TypeOK, [Next]_vars PROVE Q!Next \/ UNCHANGED Q!kq
  BY DEF Q!kq
<1> USE DEF TypeOK, state, receiver, Q!kq
<1>1. ASSUME NEW s \in Senders, SendLock(s) PROVE UNCHANGED Q!kq
  BY <1>1 DEF SendLock
<1>2. ASSUME NEW s \in Senders, SendPush(s) PROVE Q!Next
  <2>1. PICK ev \in InputEvents : queue' = Append(queue, ev)
    BY <1>2 DEF SendPush
  <2>2. Q!Put(ev)
    BY <1>2, <2>1 DEF SendPush, Q!Put
  <2> QED
    BY <2>2 DEF Q!Next
<1>3. ASSUME NEW s \in Senders, SendNotify(s) PROVE UNCHANGED Q!kq
  BY <1>3 DEF SendNotify, Notify
<1>4. CASE WaitCall
  <2>1. Q!Ask
    BY <1>4 DEF WaitCall, Q!Ask
  <2> QED
    BY <2>1 DEF Q!Next
<1>5. CASE WaitLock \/ WaitBlock \/ WaitTimeout \/ WaitSpurious
  BY <1>5 DEF WaitLock, WaitBlock, WaitTimeout, WaitSpurious
<1>6. CASE WaitReturn
  <2>1. Q!Answer
    BY <1>6 DEF WaitReturn, Ready, Q!Answer
  <2> QED
    BY <2>1 DEF Q!Next
<1>7. CASE Close
  <2>1. CASE CloseSet
    <3>1. Q!End
      BY <2>1 DEF CloseSet, Q!End
    <3> QED
      BY <3>1 DEF Q!Next
  <2>2. CASE CloseLock \/ CloseNotify
    BY <2>2 DEF CloseLock, CloseNotify, Notify
  <2> QED
    BY <1>7, <2>1, <2>2 DEF Close
<1>8. CASE UNCHANGED vars
  BY <1>8 DEF vars
<1> QED
  BY <1>1, <1>2, <1>3, <1>4, <1>5, <1>6, <1>7, <1>8 DEF Next, Send, Wait

\* Whatever the threads do between two operations on the mutex, the keys come
\* out of the channel in the order they went in, each once, and a wait without
\* a timeout is answered by a key or by the end (key_channel.cpp:8-59).
THEOREM ChannelIsQueue == Spec => Q!Init /\ [][Q!Next]_(Q!kq)
<1>1. Init => Q!Init
  BY DEF Init, Q!Init
<1> QED
  BY <1>1, QueueStep, TypesAlways, PTL DEF Spec
=============================================================================
