----------------------------- MODULE MapperPromises -----------------------------
(***************************************************************************)
(* What the mapper promises to the user over time: that its delayed        *)
(* outputs behave like the abstract Outbox, and what must eventually       *)
(* happen when the thread is scheduled and time passes.                    *)
(***************************************************************************)
EXTENDS Mapper

CONSTANT Delays      \* the delays a list of binds adds up to

ASSUME DelayAssumption == Delays \subseteq Nat

\* How many ev have d left to wait, and how many were emitted.
HowManyWait(q, ev, d) == Cardinality({n \in 1 .. Len(q) : q[n].ev = ev /\ q[n].left = d})
HowManySent(s, ev) == Cardinality({n \in 1 .. Len(s) : s[n] = ev})

Out == INSTANCE Outbox WITH
  pending <- [ev \in OutputEvents |-> [d \in Delays |-> HowManyWait(queued_events, ev, d)]],
  batch   <- [ev \in OutputEvents |-> HowManySent(sent, ev)]

\* Delayed outputs are emitted exactly once, when they are due; raw keys
\* overtake none of them (mapper.cpp:95-120, 200-249, 255-263).
KeepsOutbox == Out!Promise

-----------------------------------------------------------------------------
\* The thread is scheduled, its waits time out, time passes, and a stop()
\* that was begun is finished.
Fairness == WF_vars(MapperStep) /\ WF_vars(Tick) /\ WF_vars(Close)

FairSpec == Spec /\ Fairness

Ended == pc \in {"done", "crashed"}

\* stop() ends the thread, wherever it is (mapper.cpp:124, 250-253).
StopEnds == stopped ~> Ended

\* A sequence with a wait does not stay half typed with its timer running
\* (mapper.cpp:130-133, 150-152).
TimersResolve == current_timer # None ~> (current_timer = None \/ Ended)

\* An output that was queued is emitted without any further key, unless the
\* mapper is paused or stopped (mapper.cpp:146-152, 225-249).
OutputsEmitted ==
  \A ev \in OutputEvents :
    (\E n \in 1 .. Len(queued_events) : queued_events[n].ev = ev)
      ~> ((\E n \in 1 .. Len(sent) : sent[n] = ev) \/ paused \/ stopped \/ Ended)
=============================================================================
