---------------------------- MODULE StateMachine ----------------------------
(***************************************************************************)
(* The data of common/include/state_machine.h and profile.h, and the       *)
(* algorithm of common/src/state_machine.cpp that turns the sequence       *)
(* remappings of a layer into a state machine.                             *)
(*                                                                         *)
(* Input and output events are opaque values.  A trigger of a sequence is  *)
(* an input or a wait; a bind is an output event, a layer swap or a wait.  *)
(* States are numbered from 1 here (from 0 in the code), so that a machine *)
(* is a sequence and 0 is free to stand for a size_t nobody initialized.   *)
(***************************************************************************)
EXTENDS Integers, Sequences

CONSTANT None                      \* std::nullopt

HOME_STATE_IDX == 1
Indeterminate  == 0                \* an uninitialized Transition::new_state

-----------------------------------------------------------------------------
(* Triggers, transitions and states. *)

IsWait(trigger) == trigger.kind \in {"min", "max"}

Basic(ev)   == [kind |-> "basic", ev |-> ev]       \* BasicTranlation
Process(ev) == [kind |-> "process", ev |-> ev]     \* ProccessInput

Transition(timer_ms, outputs, new_state) ==
  [timer_ms |-> timer_ms, outputs |-> outputs, new_state |-> new_state]

NoEdges == [ev \in {} |-> None]

State(fallback) ==
  [edges |-> NoEdges, fallback |-> fallback, timer |-> None]

HomeState == State(Transition(None, <<Basic(None)>>, HOME_STATE_IDX))

\* `State new_state;` followed by nothing: see AddTimer below.
UnfilledState == State(Transition(None, <<>>, Indeterminate))

Metadata(timer, behavior) == [timer |-> timer, behavior |-> behavior]

-----------------------------------------------------------------------------
(* The generator's locals while it walks the sequences: the machine built  *)
(* so far with the metadata of its states, the state the current sequence  *)
(* has reached, the next trigger, and how the call stands.                 *)

EmptyMachine == [states  |-> <<HomeState>>,
                 meta    |-> <<Metadata(None, "default")>>,
                 current |-> HOME_STATE_IDX,
                 i       |-> 1,
                 status  |-> "building"]

StartSequence(g) == [g EXCEPT !.current = HOME_STATE_IDX, !.i = 1]

\* A wait that follows trigger i is consumed together with it.
Lookahead(sequence, i) ==
  IF i < Len(sequence) /\ IsWait(sequence[i + 1]) THEN sequence[i + 1] ELSE None

Consumed(sequence, i) == IF Lookahead(sequence, i) = None THEN i ELSE i + 1

\* The inputs among the first n triggers: the first is translated, the others
\* are processed again.
Given(sequence, n) ==
  LET given[j \in 0 .. n] ==
        IF j = 0 THEN <<>>
        ELSE IF IsWait(sequence[j]) THEN given[j - 1]
        ELSE Append(given[j - 1], IF j = 1 THEN Basic(sequence[j].ev)
                                           ELSE Process(sequence[j].ev))
  IN  given[n]

\* Mutants: `j < i'; and everything processed again, the first input and the
\* event that broke the sequence too.
FallbackWithoutLast(seq, i) ==
  (IF seq.behavior = "default" THEN Given(seq.sequence, i - 1) ELSE <<>>) \o <<Basic(None)>>

FallbackProcessesAll(seq, i) ==
  LET given == Given(seq.sequence, Consumed(seq.sequence, i))
  IN  (IF seq.behavior = "default" THEN [j \in DOMAIN given |-> Process(given[j].ev)]
                                   ELSE <<>>) \o <<Process(None)>>

\* What a half-typed sequence owes the user when it is abandoned: everything
\* typed so far under "default", then the event that broke it.
FallbackOutputs(seq, i) ==
  (IF seq.behavior = "default" THEN Given(seq.sequence, Consumed(seq.sequence, i))
                               ELSE <<>>) \o <<Basic(None)>>

\* Mutant: the fallback is never told to go home.
UnsetFallback(seq, i) == State(Transition(None, FallbackOutputs(seq, i), Indeterminate))

\* The state a trigger that is not the last one leads to.
HalfTyped(seq, i) == State(Transition(None, FallbackOutputs(seq, i), HOME_STATE_IDX))

\* Mutant: the last trigger may share an edge.
ShareableLast(g, seq) ==
  LET trigger == seq.sequence[g.i]
      timer   == Lookahead(seq.sequence, g.i)
      meta    == g.meta[g.states[g.current].edges[trigger.ev].new_state]
  IN  /\ meta.behavior = seq.behavior
      /\ meta.timer = None \/ timer = None \/ meta.timer = timer

\* May the sequence go through the state an earlier sequence created?
Shareable(g, seq) ==
  LET trigger == seq.sequence[g.i]
      timer   == Lookahead(seq.sequence, g.i)
      meta    == g.meta[g.states[g.current].edges[trigger.ev].new_state]
  IN  /\ g.i < Len(seq.sequence)
      /\ meta.behavior = seq.behavior
      /\ meta.timer = None \/ timer = None \/ meta.timer = timer

\* The new edge for trigger i: with the sequence's binds and back home when
\* it is the last trigger, else to a new state.
AddEdge(g, seq) ==
  LET event   == seq.sequence[g.i].ev
      timer   == Lookahead(seq.sequence, g.i)
      last    == g.i = Len(seq.sequence)
      echo    == IF seq.behavior = "release" THEN <<Basic(event)>> ELSE <<>>
      target  == IF last THEN HOME_STATE_IDX ELSE Len(g.states) + 1
      edge    == Transition(IF timer = None THEN None ELSE timer.ms,
                            IF last THEN echo \o seq.binds ELSE echo,
                            target)
      wired   == [g.states EXCEPT ![g.current].edges =
                    [ev \in DOMAIN @ \cup {event} |->
                       IF ev = event THEN edge ELSE @[ev]]]
  IN  [g EXCEPT
         !.states  = IF last THEN wired ELSE Append(wired, HalfTyped(seq, g.i)),
         !.meta    = IF last THEN @ ELSE Append(@, Metadata(timer, seq.behavior)),
         !.current = target]

\* A maximum wait: when it is over, the sequence is abandoned.
TimeOutNegated(g, seq) ==            \* mutant: `if (timer_transition)'
  [g EXCEPT !.states[g.current].timer =
     IF @ # None THEN g.states[g.current].fallback ELSE @]

TimeOut(g, seq) ==
  [g EXCEPT !.states[g.current].timer =
     IF @ = None THEN g.states[g.current].fallback ELSE @]

\* A minimum wait at the end of a sequence: when it is over, the binds.
HoldEnds(g, seq) ==
  [g EXCEPT !.states[g.current].timer = Transition(None, seq.binds, HOME_STATE_IDX)]

\* A minimum wait inside a sequence: when it is over, one more state, whose
\* fallback is left as the constructor made it (the assignment meant to fill
\* it assigns the previous state's fallback to itself).
HoldLoops(g, seq) ==                 \* mutant: the index one too low
  [g EXCEPT
     !.states  = Append([@ EXCEPT ![g.current].timer = Transition(None, <<>>, Len(g.states))],
                        UnfilledState),
     !.meta    = Append(@, Metadata(None, seq.behavior)),
     !.current = Len(g.states) + 1]

HoldGoesOn(g, seq) ==
  [g EXCEPT
     !.states  = Append([@ EXCEPT ![g.current].timer = Transition(None, <<>>, Len(g.states) + 1)],
                        UnfilledState),
     !.meta    = Append(@, Metadata(None, seq.behavior)),
     !.current = Len(g.states) + 1]

\* The wait after trigger i becomes the timer transition of the state that
\* trigger led to; a minimum wait follows the one it finds there.
AddTimer(g, seq) ==
  LET timer == Lookahead(seq.sequence, g.i)
      next  == g.states[g.current]
      final == Consumed(seq.sequence, g.i) = Len(seq.sequence)
  IN  CASE timer = None -> g
        [] timer # None /\ timer.kind = "max" -> TimeOut(g, seq)
        [] timer # None /\ timer.kind = "min" /\ next.timer # None ->
             [g EXCEPT !.current = next.timer.new_state]
        [] timer # None /\ timer.kind = "min" /\ next.timer = None /\ final ->
             HoldEnds(g, seq)
        [] timer # None /\ timer.kind = "min" /\ next.timer = None /\ ~final ->
             HoldGoesOn(g, seq)

\* One iteration of the loop over a sequence.  A wait where an input is due
\* makes trigger_to_input(..).value() throw: normailze_sequences never merges
\* or refuses waits, its lambdas for them take a non-const reference and the
\* generic one is chosen for the const trigger.
Step(g, seq) ==
  LET trigger == seq.sequence[g.i]
      advance(h) == [h EXCEPT !.i = Consumed(seq.sequence, g.i) + 1]
      shared  == trigger.ev \in DOMAIN g.states[g.current].edges
      target  == g.states[g.current].edges[trigger.ev].new_state
  IN  CASE IsWait(trigger) -> [g EXCEPT !.status = "bad_optional_access"]
        [] ~IsWait(trigger) /\ shared /\ ~Shareable(g, seq) ->
             [g EXCEPT !.status = "rejected"]
        [] ~IsWait(trigger) /\ shared /\ Shareable(g, seq) ->
             advance(AddTimer([g EXCEPT !.current = target], seq))
        [] ~IsWait(trigger) /\ ~shared ->
             advance(AddTimer(AddEdge(g, seq), seq))

\* After the edge for the last trigger is added, `states.at(next_state_idx)`
\* reads a size_t that was never assigned: it finds some state, which is not
\* used, or throws.
ReadsUnassigned(g, seq) ==
  /\ g.i = Len(seq.sequence)
  /\ ~IsWait(seq.sequence[g.i])
  /\ seq.sequence[g.i].ev \notin DOMAIN g.states[g.current].edges

-----------------------------------------------------------------------------
(* The whole algorithm, for callers that only see its result. *)

AddSequence(g, seq) ==
  LET walked[n \in 0 .. Len(seq.sequence)] ==
        IF n = 0 THEN StartSequence(g)
        ELSE LET h == walked[n - 1]
             IN  IF h.status = "building" /\ h.i = n THEN Step(h, seq) ELSE h
  IN  walked[Len(seq.sequence)]

generate_states(sequences) ==
  LET built[n \in 0 .. Len(sequences)] ==
        IF n = 0 THEN EmptyMachine
        ELSE LET g == built[n - 1]
             IN  IF g.status = "building" THEN AddSequence(g, sequences[n]) ELSE g
  IN  built[Len(sequences)]
=============================================================================
