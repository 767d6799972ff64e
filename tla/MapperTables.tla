----------------------------- MODULE MapperTables -----------------------------
(***************************************************************************)
(* The tables set_profile hands to the mapper (common/include/mapper.h):   *)
(* what every profile it accepts is built into, and the three things a     *)
(* build may have over and above.  ProfileBuild makes them, Mapper runs    *)
(* them.                                                                   *)
(***************************************************************************)
EXTENDS StateMachine, FiniteSets

CONSTANTS
  InputEvents,    \* what the daemon can deliver
  OutputEvents    \* what the mapper can emit: key events and scripts

Binds == [kind : {"out"}, ev : OutputEvents]
           \cup [kind : {"layer"}, to : Nat]
           \cup [kind : {"wait"}, ms : Nat]

StateMachineOutputs ==
  [kind : {"basic"}, ev : InputEvents \cup {None}]
    \cup [kind : {"process"}, ev : InputEvents \cup {None}]
    \cup Binds

\* A transition of the machine `states': a timer it starts is one the state
\* it leads to reacts to (ArmedTimersFire of StateMachineGen).
IsTransition(t, states) ==
  /\ t.timer_ms \in Nat \cup {None}
  /\ t.outputs \in Seq(StateMachineOutputs)
  /\ t.new_state \in {Indeterminate} \cup 1 .. Len(states)
  /\ t.timer_ms # None => /\ t.new_state # Indeterminate
                          /\ states[t.new_state].timer # None

IsState(s, states) ==
  /\ DOMAIN s.edges \subseteq InputEvents
  /\ \A ev \in DOMAIN s.edges : IsTransition(s.edges[ev], states)
  /\ IsTransition(s.fallback, states)
  /\ s.timer # None => IsTransition(s.timer, states)

IsLayer(layer) ==
  /\ Len(layer.states) \in Nat \ {0}
  /\ \A s \in 1 .. Len(layer.states) : IsState(layer.states[s], layer.states)
  /\ DOMAIN layer.basic \subseteq InputEvents
  /\ \A ev \in DOMAIN layer.basic : layer.basic[ev] \in Seq(Binds)

IsBuild(b) ==
  /\ b.accepted \in BOOLEAN
  /\ b.default_layer \in Nat
  /\ Len(b.layers) \in Nat
  /\ \A l \in 1 .. Len(b.layers) : IsLayer(b.layers[l])

-----------------------------------------------------------------------------
(* The machine of build b never leaves the tables: every transition has a   *)
(* target, every layer it names exists.                                     *)

LayersExist(binds, n) ==
  \A k \in 1 .. Len(binds) : binds[k].kind = "layer" => binds[k].to \in 1 .. n

SafeTransition(t, n) == t.new_state # Indeterminate /\ LayersExist(t.outputs, n)

WellFormed(b) ==
  /\ b.default_layer \in 1 .. Len(b.layers)
  /\ \A l \in 1 .. Len(b.layers) :
       /\ \A ev \in DOMAIN b.layers[l].basic : LayersExist(b.layers[l].basic[ev], Len(b.layers))
       /\ \A s \in 1 .. Len(b.layers[l].states) :
            LET state == b.layers[l].states[s] IN
            /\ \A ev \in DOMAIN state.edges : SafeTransition(state.edges[ev], Len(b.layers))
            /\ SafeTransition(state.fallback, Len(b.layers))
            /\ state.timer # None => SafeTransition(state.timer, Len(b.layers))

-----------------------------------------------------------------------------
(* Abandoning a sequence gives back less than was typed of it: a state's    *)
(* rank is the number of inputs typed on the way to it, the first of which  *)
(* is translated and the others processed again.                            *)

Processed(outputs) == {n \in DOMAIN outputs : outputs[n].kind = "process"}

GoesBack(t, rank) ==
  /\ t.new_state = HOME_STATE_IDX
  /\ Processed(t.outputs) = {} \/ Cardinality(Processed(t.outputs)) < rank

GoesOn(t, states, rank, s) ==
  /\ t.new_state \in 1 .. Len(states)
  /\ rank[t.new_state] <= rank[s] + 1
  /\ Processed(t.outputs) = {}

RankedBy(rank, states) ==
  /\ rank[HOME_STATE_IDX] = 0
  /\ \A s \in 1 .. Len(states) :
       /\ \A ev \in DOMAIN states[s].edges : GoesOn(states[s].edges[ev], states, rank, s)
       /\ GoesBack(states[s].fallback, rank[s])
       /\ states[s].timer # None => GoesBack(states[s].timer, rank[s])

Ranked(states) ==
  \E rank \in [1 .. Len(states) -> 0 .. Len(states) - 1] : RankedBy(rank, states)

Replayable(b) == \A l \in 1 .. Len(b.layers) : Ranked(b.layers[l].states)
=============================================================================
