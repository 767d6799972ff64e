--------------------------- MODULE StateMachineGen ---------------------------
(***************************************************************************)
(* generate_states (common/src/state_machine.cpp) as a state machine: one  *)
(* sequence remapping of a layer after another, one trigger at a time, for *)
(* every layer a user can write with the given events and waits.           *)
(***************************************************************************)
EXTENDS StateMachine, SequencesExt

CONSTANTS
  InputEvents,    \* inputs a trigger can wait for
  Durations,      \* durations of waits
  Behaviors,      \* among "capture", "release" and "default"
  BindsOf,        \* BindsOf[n]: the binds of the n-th sequence of the layer
  MaxTriggers,    \* bound: triggers of a sequence
  MaxInAll        \* bound: MaxInAll[n]: triggers of the first n sequences in all

ASSUME BoundsAssumption == MaxTriggers \in Nat /\ MaxInAll \in Seq(Nat)
ASSUME NoneAssumption   == None \notin InputEvents \cup Durations
ASSUME BindsAssumption  == \A n \in 1 .. Len(MaxInAll) : BindsOf[n] \in Seq(Range(BindsOf[n]))

VARIABLES
  gen,        \* the generator's locals
  done,       \* sequences wired so far
  seq         \* the sequence being walked, None between two

vars == <<gen, done, seq>>

Triggers == [kind : {"input"}, ev : InputEvents]
              \cup [kind : {"min", "max"}, ms : Durations]

TriggersOf(sequences) == FoldLeft(LAMBDA n, sq : n + Len(sq.sequence), 0, sequences)

Init == gen = EmptyMachine /\ done = <<>> /\ seq = None

BeginSequence ==
  /\ gen.status = "building" /\ seq = None
  /\ Len(done) < Len(MaxInAll)
  /\ \E n \in 1 .. MaxTriggers, b \in Behaviors :
     /\ TriggersOf(done) + n <= MaxInAll[Len(done) + 1]
     /\ \E triggers \in [1 .. n -> Triggers] :
         seq' = [behavior |-> b, sequence |-> triggers,
                 binds |-> BindsOf[Len(done) + 1]]
  /\ gen' = StartSequence(gen)
  /\ UNCHANGED done

ConsumeTrigger ==
  /\ gen.status = "building" /\ seq # None
  /\ gen.i <= Len(seq.sequence)
  /\ gen' = Step(gen, seq)
  /\ UNCHANGED <<done, seq>>

\* The index left unassigned after the last trigger may be out of range.
ThrowOutOfRange ==
  /\ gen.status = "building" /\ seq # None
  /\ gen.i <= Len(seq.sequence)
  /\ ReadsUnassigned(gen, seq)
  /\ gen' = [gen EXCEPT !.status = "out_of_range"]
  /\ UNCHANGED <<done, seq>>

EndSequence ==
  /\ gen.status = "building" /\ seq # None
  /\ gen.i > Len(seq.sequence)
  /\ done' = Append(done, seq) /\ seq' = None
  /\ UNCHANGED gen

\* Either the optional's value or nullopt: the caller gets an answer.
Return ==
  /\ gen.status = "building" /\ seq = None
  /\ gen' = [gen EXCEPT !.status = "accepted"]
  /\ UNCHANGED <<done, seq>>

Next == BeginSequence \/ ConsumeTrigger \/ ThrowOutOfRange \/ EndSequence \/ Return

Spec == Init /\ [][Next]_vars

-----------------------------------------------------------------------------
Indices == DOMAIN gen.states

\* Every edge and every timer transition leads to a state of the machine; a
\* fallback leads home, or nowhere in a state that only a minimum wait in the
\* middle of a sequence creates (state_machine.cpp:296-308): no edge leads to
\* such a state, the timer transition that does is its only way in.
Closed ==
  \A s \in Indices :
    LET state == gen.states[s] IN
    /\ \A ev \in DOMAIN state.edges :
         /\ state.edges[ev].new_state \in Indices
         /\ gen.states[state.edges[ev].new_state].fallback.new_state = HOME_STATE_IDX
    /\ state.timer # None => state.timer.new_state \in Indices
    /\ state.fallback.new_state # HOME_STATE_IDX =>
         \E p \in Indices : gen.states[p].timer # None
                              /\ gen.states[p].timer.new_state = s

\* Between two triggers, an edge that arms the mapper's timer leads to a
\* state that knows what to do when it expires: mapper.cpp:130-131 does
\* nothing with an expired timer otherwise, and polls for ever.
ArmedTimersFire ==
  \A s \in Indices : \A ev \in DOMAIN gen.states[s].edges :
    LET edge == gen.states[s].edges[ev] IN
    edge.timer_ms # None => gen.states[edge.new_state].timer # None

\* The machine has no loop that avoids the home state: a sequence is either
\* completed or abandoned after finitely many inputs.
LoopsPassHome ==
  \A s \in Indices :
    /\ \A ev \in DOMAIN gen.states[s].edges :
         gen.states[s].edges[ev].new_state \in {HOME_STATE_IDX} \cup (s + 1 .. Len(gen.states))
    /\ gen.states[s].timer # None =>
         gen.states[s].timer.new_state \in {HOME_STATE_IDX} \cup (s + 1 .. Len(gen.states))

-----------------------------------------------------------------------------
(* What a user who types a whole sequence, waiting where it says to, gets. *)

EndsInWait(sq) == IsWait(sq.sequence[Len(sq.sequence)])

\* The transition the n-th trigger takes from state s.
Taken(sq, n, s) ==
  LET t == sq.sequence[n] IN
  CASE t.kind = "input" /\ t.ev \in DOMAIN gen.states[s].edges -> gen.states[s].edges[t.ev]
    [] t.kind = "min" /\ gen.states[s].timer # None -> gen.states[s].timer
    [] t.kind = "max" -> Transition(None, <<>>, s)
    [] OTHER -> None

\* The state reached after the first n triggers, 0 when some trigger has no
\* transition.
Reached(sq) ==
  LET walk[n \in 0 .. Len(sq.sequence)] ==
        IF n = 0 THEN HOME_STATE_IDX
        ELSE IF walk[n - 1] = 0 THEN 0
        ELSE LET t == Taken(sq, n, walk[n - 1])
             IN  IF t = None THEN 0 ELSE t.new_state
  IN  walk

Fires(sq) ==
  LET n    == Len(sq.sequence)
      from == Reached(sq)[n - 1]
      last == IF from = 0 THEN None ELSE Taken(sq, n, from)
  IN  /\ last # None
      /\ last.new_state = HOME_STATE_IDX
      /\ \E k \in 0 .. Len(last.outputs) :
           SubSeq(last.outputs, k + 1, Len(last.outputs)) = sq.binds

\* A sequence that was accepted and ends in an input can be typed from home
\* to its binds, whatever sequences were accepted before and after it.
EverySequenceWired ==
  \A k \in DOMAIN done : ~EndsInWait(done[k]) => Fires(done[k])

-----------------------------------------------------------------------------
(* Sharing states between sequences. *)

IsProperPrefix(a, b) == Len(a) < Len(b) /\ SubSeq(b, 1, Len(a)) = a

PrefixFree ==
  \A j, k \in DOMAIN done : ~IsProperPrefix(done[j].sequence, done[k].sequence)

\* "Normalize timeouts ... If the profile is invalid then nullopt is
\* returned": no layer makes the generator throw a bad_optional_access.
WaitsAreNormalized == gen.status # "bad_optional_access"

\* The inputs a fallback transition gives back, oldest first.  Its last output
\* is the event that broke the sequence.
Replayed(s) ==
  LET outs == gen.states[s].fallback.outputs
  IN  [j \in 1 .. Len(outs) - 1 |-> outs[j].ev]

\* While no accepted sequence begins another and none has a wait, abandoning
\* a "default" sequence gives back exactly what was typed: the fallback of a
\* state replays the inputs on the way from home to it.
FallbackReplaysPath ==
  (PrefixFree /\ seq = None /\ \A k \in DOMAIN done : \A n \in DOMAIN done[k].sequence :
                                 ~IsWait(done[k].sequence[n]))
    => \A s \in Indices : \A ev \in DOMAIN gen.states[s].edges :
         LET t == gen.states[s].edges[ev].new_state IN
         (t # HOME_STATE_IDX /\ gen.meta[t].behavior = "default")
           => Replayed(t) = Append(Replayed(s), ev)
=============================================================================
