--------------------------- MODULE GeneratorProofs ---------------------------
(***************************************************************************)
(* What generate_states keeps true of the machine it builds, proved for    *)
(* every layer: any inputs and waits, any number of sequences of any       *)
(* length.  The proof follows the code: one lemma for each way in which a  *)
(* state is changed (an edge, a timer transition, a new state), one for    *)
(* each branch of the loop over a sequence, and the induction over steps.  *)
(* The second half follows generate_states as a function, sequence after   *)
(* sequence, to what Mapper::set_profile makes of a whole profile: what    *)
(* the mapper assumes of its tables, and which profiles give tables that   *)
(* are well formed or can be replayed.                                     *)
(***************************************************************************)
EXTENDS StateMachineGen, ProfileBuild, FiniteSetTheorems, SequenceTheorems,
        WellFoundedInduction, TLAPS

CONSTANT OutputEvents              \* what the binds of a profile can emit

\* What the mapper assumes of its tables.
Tables == INSTANCE MapperTables

(***************************************************************************)
(* std::nullopt is not a transition: an optional<Transition> that holds a  *)
(* value is not empty.  In TLC's instances None is a model value.          *)
(***************************************************************************)
NoneIsNoTransition ==
  \A timer_ms, outputs, new_state : None # Transition(timer_ms, outputs, new_state)

-----------------------------------------------------------------------------
(* Sequences whose elements have no set of their own. *)

IsSequence(s) == s \in Seq({s[i] : i \in DOMAIN s})

LEMMA SequenceDomain ==
  ASSUME NEW s, IsSequence(s)
  PROVE  Len(s) \in Nat /\ DOMAIN s = 1 .. Len(s)
  BY DEF IsSequence

LEMMA SequenceOfSet ==
  ASSUME NEW S, NEW s \in Seq(S)
  PROVE  IsSequence(s)
  BY DEF IsSequence

LEMMA AppendElement ==
  ASSUME NEW s, NEW e, IsSequence(s)
  PROVE  /\ IsSequence(Append(s, e))
         /\ Len(Append(s, e)) = Len(s) + 1
         /\ \A i \in 1 .. Len(s) : Append(s, e)[i] = s[i]
         /\ Append(s, e)[Len(s) + 1] = e
<1> DEFINE S == {s[i] : i \in DOMAIN s} \cup {e}
<1>1. s \in Seq(S) /\ e \in S
  BY DEF IsSequence
<1> HIDE DEF S
<1>2. Append(s, e) \in Seq(S)
  BY <1>1
<1>3. IsSequence(Append(s, e))
  BY <1>2, SequenceOfSet
<1>4. QED
  BY <1>1, <1>3

LEMMA ReplaceElement ==
  ASSUME NEW s, NEW e, IsSequence(s), NEW c \in DOMAIN s
  PROVE  /\ IsSequence([s EXCEPT ![c] = e])
         /\ Len([s EXCEPT ![c] = e]) = Len(s)
         /\ \A i \in DOMAIN s : [s EXCEPT ![c] = e][i] = IF i = c THEN e ELSE s[i]
<1> DEFINE S == {s[i] : i \in DOMAIN s} \cup {e}
<1>1. s \in Seq(S) /\ e \in S
  BY DEF IsSequence
<1> HIDE DEF S
<1>2. [s EXCEPT ![c] = e] \in Seq(S) /\ Len([s EXCEPT ![c] = e]) = Len(s)
  BY <1>1
<1>3. IsSequence([s EXCEPT ![c] = e])
  BY <1>2, SequenceOfSet
<1>4. QED
  BY <1>2, <1>3

LEMMA StartOfConcat ==
  ASSUME NEW S, NEW a \in Seq(S), NEW b \in Seq(S)
  PROVE  Len(a \o b) = Len(a) + Len(b) /\ \A j \in 1 .. Len(a) : (a \o b)[j] = a[j]
  OBVIOUS

\* What follows the first elements.
EndsWith(outputs, binds) ==
  \E k \in 0 .. Len(outputs) : SubSeq(outputs, k + 1, Len(outputs)) = binds

LEMMA SuffixOfConcat ==
  ASSUME NEW S, NEW a \in Seq(S), NEW b \in Seq(S)
  PROVE  EndsWith(a \o b, b)
<1> DEFINE c == a \o b
<1>1. c \in Seq(S) /\ Len(c) = Len(a) + Len(b) /\ Len(a) \in Nat /\ Len(b) \in Nat
      /\ \A i \in 1 .. Len(b) : c[Len(a) + i] = b[i]
  OBVIOUS
<1> DEFINE d == SubSeq(c, Len(a) + 1, Len(c))
<1>2. d = b
  <2>1. /\ d \in Seq(S) /\ Len(d) = Len(b)
        /\ \A i \in 1 .. Len(b) : d[i] = b[i]
    <3> HIDE DEF c
    <3>1. Len(a) + 1 \in 1 .. Len(c) + 1 /\ Len(c) \in Len(a) .. Len(c)
      BY <1>1
    <3>2. d = [i \in 1 .. Len(b) |-> c[i + Len(a)]]
      BY <1>1, <3>1
    <3>3. \A i \in 1 .. Len(b) : c[i + Len(a)] = b[i]
      BY <1>1
    <3> HIDE DEF d
    <3>4. d = [i \in 1 .. Len(b) |-> b[i]]
      BY <3>2, <3>3
    <3>5. QED
      BY <1>1, <3>4
  <2> HIDE DEF d
  <2>2. QED
    BY <2>1, SeqEqual
<1>3. Len(a) \in 0 .. Len(c)
  BY <1>1
<1>4. QED
  BY <1>2, <1>3 DEF EndsWith

-----------------------------------------------------------------------------
(* Induction over numbers, by the least counterexample. *)

\* Every non-empty set of numbers has a least element.
LEMMA LeastNumber ==
  ASSUME NEW T \in SUBSET Nat, T # {}
  PROVE  \E x \in T : \A y \in T : x <= y
<1> DEFINE R == {p \in Nat \X Nat : p[1] < p[2]}
<1>1. IsWellFoundedOn(R, Nat)
  BY NatLessThanWellFounded DEF OpToRel
<1>2. \E x \in T : \A y \in T : <<y, x>> \notin R
  BY <1>1, WFMin
<1>3. \A x, y \in Nat : <<y, x>> \notin R => x <= y
  OBVIOUS
<1> HIDE DEF R
<1>4. QED
  BY <1>2, <1>3

\* Induction up to m: what holds of 0, and of n with n - 1.
LEMMA UpTo ==
  ASSUME NEW S, NEW m \in Nat, 0 \in S, \A n \in 1 .. m : n - 1 \in S => n \in S
  PROVE  \A n \in 0 .. m : n \in S
<1> DEFINE T == {n \in 0 .. m : n \notin S}
<1> SUFFICES ASSUME T # {} PROVE FALSE
  OBVIOUS
<1>1. PICK x \in T : \A y \in T : x <= y
  <2>1. T \in SUBSET Nat
    OBVIOUS
  <2>2. QED
    BY <2>1, LeastNumber
<1>2. x \in 1 .. m /\ x - 1 \in 0 .. m
  OBVIOUS
<1>3. x - 1 \in S
  <2>1. x - 1 \notin T
    BY <1>1, <1>2
  <2>2. QED
    BY <2>1, <1>2
<1>4. QED
  BY <1>2, <1>3

-----------------------------------------------------------------------------
(* The inductive invariant, as a property of the states built so far. *)

IsTransition(t) == t = Transition(t.timer_ms, t.outputs, t.new_state)

IsState(state) ==
  /\ state = [edges |-> state.edges, fallback |-> state.fallback, timer |-> state.timer]
  /\ IsTransition(state.fallback)

\* A transition out of state s goes home or to a state created after s.
Onward(states, s, target) == target \in {HOME_STATE_IDX} \cup (s + 1 .. Len(states))

EdgesLead(states, s) ==
  \A ev \in DOMAIN states[s].edges :
    LET target == states[s].edges[ev].new_state IN
    /\ IsTransition(states[s].edges[ev])
    /\ Onward(states, s, target)
    /\ states[target].fallback.new_state = HOME_STATE_IDX

TimerLeads(states, s) ==
  states[s].timer # None => Onward(states, s, states[s].timer.new_state)

FallbackLeads(states, s) ==
  states[s].fallback.new_state # HOME_STATE_IDX =>
    \E p \in DOMAIN states :
      states[p].timer # None /\ states[p].timer.new_state = s

Wired(states) ==
  /\ IsSequence(states) /\ Len(states) >= HOME_STATE_IDX
  /\ states[HOME_STATE_IDX].fallback.new_state = HOME_STATE_IDX
  /\ \A s \in DOMAIN states :
       /\ IsState(states[s])
       /\ EdgesLead(states, s)
       /\ TimerLeads(states, s)
       /\ FallbackLeads(states, s)

\* Every edge that arms the timer leads to a state with a timer transition,
\* but for the states of `due', whose transition is still to be added.
ArmedBut(states, due) ==
  \A s \in DOMAIN states : \A ev \in DOMAIN states[s].edges :
    LET edge == states[s].edges[ev] IN
    edge.timer_ms # None => states[edge.new_state].timer # None \/ edge.new_state \in due

IsMachine(g) ==
  /\ g = [states |-> g.states, meta |-> g.meta, current |-> g.current,
          i |-> g.i, status |-> g.status]
  /\ g.i \in Nat
  /\ g.current \in DOMAIN g.states
  /\ Wired(g.states)

GenInv ==
  /\ IsMachine(gen)
  /\ ArmedBut(gen.states, {})
  /\ seq # None => seq.sequence \in Seq(Triggers)

-----------------------------------------------------------------------------
(* The ways in which the generator changes the states. *)

WithTimer(states, c, t) == [states EXCEPT ![c].timer = t]

WithEdge(states, c, event, edge) ==
  [states EXCEPT ![c].edges =
     [ev \in DOMAIN @ \cup {event} |-> IF ev = event THEN edge ELSE @[ev]]]

WithNext(states, c) ==
  Append(WithTimer(states, c, Transition(None, <<>>, Len(states) + 1)), UnfilledState)

LEMMA EmptyMachineWired ==
  Wired(<<HomeState>>) /\ ArmedBut(<<HomeState>>, {})
<1> DEFINE states == <<HomeState>>
<1>1. states \in Seq({HomeState}) /\ Len(states) = 1 /\ DOMAIN states = {1}
      /\ states[1] = HomeState
  OBVIOUS
<1>2. /\ IsState(HomeState) /\ DOMAIN HomeState.edges = {}
      /\ HomeState.timer = None /\ HomeState.fallback.new_state = HOME_STATE_IDX
  BY DEF HomeState, State, NoEdges, IsState, IsTransition, Transition
<1>3. IsSequence(states)
  BY <1>1, SequenceOfSet
<1> HIDE DEF states
<1>4. \A s \in DOMAIN states : EdgesLead(states, s) /\ TimerLeads(states, s)
                               /\ FallbackLeads(states, s)
  BY <1>1, <1>2 DEF EdgesLead, TimerLeads, FallbackLeads
<1>5. Wired(states)
  BY <1>1, <1>2, <1>3, <1>4 DEF Wired, HOME_STATE_IDX
<1>6. ArmedBut(states, {})
  BY <1>1, <1>2 DEF ArmedBut
<1>7. QED
  BY <1>5, <1>6 DEF states

\* A timer transition, given to a state that has none.
LEMMA TimerSet ==
  ASSUME NEW states, Wired(states), NEW c \in DOMAIN states, states[c].timer = None,
         NEW t, t # None, Onward(states, c, t.new_state), NEW due, ArmedBut(states, due)
  PROVE  LET changed == WithTimer(states, c, t) IN
         /\ Wired(changed) /\ ArmedBut(changed, due \ {c})
         /\ Len(changed) = Len(states)
<1> DEFINE state   == [states[c] EXCEPT !.timer = t]
           changed == [states EXCEPT ![c] = state]
<1>1. changed = WithTimer(states, c, t)
  BY DEF WithTimer
<1>2. IsSequence(states) /\ IsState(states[c])
  BY DEF Wired
<1>3. /\ state = [edges |-> states[c].edges, fallback |-> states[c].fallback, timer |-> t]
      /\ state.edges = states[c].edges /\ state.fallback = states[c].fallback
      /\ state.timer = t
      /\ IsState(state)
  BY <1>2 DEF IsState
<1> HIDE DEF state
<1>4. /\ IsSequence(changed) /\ Len(changed) = Len(states)
      /\ Len(states) \in Nat /\ DOMAIN states = 1 .. Len(states)
      /\ DOMAIN changed = DOMAIN states
      /\ \A i \in DOMAIN states : changed[i] = IF i = c THEN state ELSE states[i]
  BY <1>2, ReplaceElement, SequenceDomain
<1> HIDE DEF changed
<1>5. \A s \in DOMAIN states : /\ changed[s].edges = states[s].edges
                               /\ changed[s].fallback = states[s].fallback
                               /\ s # c => changed[s].timer = states[s].timer
                               /\ s = c => changed[s].timer = t
  BY <1>3, <1>4
<1>6. \A s, to : Onward(changed, s, to) = Onward(states, s, to)
  BY <1>4 DEF Onward
<1>7. \A s \in DOMAIN states : \A to : Onward(states, s, to) => to \in DOMAIN states
  BY <1>4 DEF Onward, Wired, HOME_STATE_IDX
<1>8. ASSUME NEW s \in DOMAIN states
      PROVE  /\ IsState(changed[s]) /\ EdgesLead(changed, s)
             /\ TimerLeads(changed, s) /\ FallbackLeads(changed, s)
  <2>1. IsState(states[s]) /\ EdgesLead(states, s) /\ TimerLeads(states, s)
        /\ FallbackLeads(states, s)
    BY DEF Wired
  <2>2. IsState(changed[s])
    BY <2>1, <1>3, <1>4
  <2>3. EdgesLead(changed, s)
    BY <2>1, <1>5, <1>6, <1>7 DEF EdgesLead
  <2>4. TimerLeads(changed, s)
    BY <2>1, <1>5, <1>6 DEF TimerLeads
  <2>5. FallbackLeads(changed, s)
    BY <2>1, <1>4, <1>5 DEF FallbackLeads
  <2>6. QED
    BY <2>2, <2>3, <2>4, <2>5
<1>9. Wired(changed)
  BY <1>4, <1>5, <1>8 DEF Wired, HOME_STATE_IDX
<1>10. ArmedBut(changed, due \ {c})
  <2> SUFFICES ASSUME NEW s \in DOMAIN states, NEW ev \in DOMAIN states[s].edges,
                      states[s].edges[ev].timer_ms # None
               PROVE  \/ changed[states[s].edges[ev].new_state].timer # None
                      \/ states[s].edges[ev].new_state \in due \ {c}
    BY <1>4, <1>5 DEF ArmedBut
  <2>1. states[s].edges[ev].new_state \in DOMAIN states
    BY <1>7 DEF Wired, EdgesLead
  <2>2. \/ states[states[s].edges[ev].new_state].timer # None
        \/ states[s].edges[ev].new_state \in due
    BY DEF ArmedBut
  <2>3. QED
    BY <2>1, <2>2, <1>5
<1>11. QED
  BY <1>1, <1>4, <1>9, <1>10

\* A new edge, or a new transition for an old one.
LEMMA EdgeSet ==
  ASSUME NEW states, Wired(states), NEW c \in DOMAIN states,
         NEW event, NEW edge, IsTransition(edge), Onward(states, c, edge.new_state),
         states[edge.new_state].fallback.new_state = HOME_STATE_IDX,
         ArmedBut(states, {}),
         NEW due, edge.timer_ms # None => edge.new_state \in due
  PROVE  LET changed == WithEdge(states, c, event, edge)
         IN  Wired(changed) /\ ArmedBut(changed, due) /\ Len(changed) = Len(states)
             /\ \A s \in DOMAIN states : changed[s].fallback = states[s].fallback
<1> DEFINE edges   == [ev \in DOMAIN states[c].edges \cup {event} |->
                         IF ev = event THEN edge ELSE states[c].edges[ev]]
           state   == [states[c] EXCEPT !.edges = edges]
           changed == [states EXCEPT ![c] = state]
<1>1. changed = WithEdge(states, c, event, edge)
  BY DEF WithEdge
<1>2. IsSequence(states) /\ IsState(states[c])
  BY DEF Wired
<1>3. \A ev \in DOMAIN edges : edges[ev] = edge \/ (/\ ev \in DOMAIN states[c].edges
                                                   /\ edges[ev] = states[c].edges[ev])
  OBVIOUS
<1> HIDE DEF edges
<1>4. /\ state = [edges |-> edges, fallback |-> states[c].fallback,
                  timer |-> states[c].timer]
      /\ state.edges = edges /\ state.fallback = states[c].fallback
      /\ state.timer = states[c].timer
      /\ IsState(state)
  BY <1>2 DEF IsState
<1> HIDE DEF state
<1>5. /\ IsSequence(changed) /\ Len(changed) = Len(states)
      /\ Len(states) \in Nat /\ DOMAIN states = 1 .. Len(states)
      /\ DOMAIN changed = DOMAIN states
      /\ \A i \in DOMAIN states : changed[i] = IF i = c THEN state ELSE states[i]
  BY <1>2, ReplaceElement, SequenceDomain
<1> HIDE DEF changed
<1>6. \A s \in DOMAIN states : /\ s # c => changed[s].edges = states[s].edges
                               /\ s = c => changed[s].edges = edges
                               /\ changed[s].fallback = states[s].fallback
                               /\ changed[s].timer = states[s].timer
  BY <1>4, <1>5
<1>7. \A s, to : Onward(changed, s, to) = Onward(states, s, to)
  BY <1>5 DEF Onward
<1>8. \A s \in DOMAIN states : \A to : Onward(states, s, to) => to \in DOMAIN states
  BY <1>5 DEF Onward, Wired, HOME_STATE_IDX
<1>9. ASSUME NEW s \in DOMAIN states
      PROVE  /\ IsState(changed[s]) /\ EdgesLead(changed, s)
             /\ TimerLeads(changed, s) /\ FallbackLeads(changed, s)
  <2>1. IsState(states[s]) /\ EdgesLead(states, s) /\ TimerLeads(states, s)
        /\ FallbackLeads(states, s)
    BY DEF Wired
  <2>2. IsState(changed[s])
    BY <2>1, <1>4, <1>5
  <2>3. EdgesLead(changed, s)
    <3>1. CASE s # c
      BY <3>1, <2>1, <1>6, <1>7, <1>8 DEF EdgesLead
    <3>2. CASE s = c
      BY <3>2, <2>1, <1>3, <1>6, <1>7, <1>8 DEF EdgesLead
    <3>3. QED
      BY <3>1, <3>2
  <2>4. TimerLeads(changed, s)
    BY <2>1, <1>6, <1>7 DEF TimerLeads
  <2>5. FallbackLeads(changed, s)
    BY <2>1, <1>5, <1>6 DEF FallbackLeads
  <2>6. QED
    BY <2>2, <2>3, <2>4, <2>5
<1>10. Wired(changed)
  BY <1>5, <1>6, <1>9 DEF Wired, HOME_STATE_IDX
<1>11. ArmedBut(changed, due)
  <2> SUFFICES ASSUME NEW s \in DOMAIN states, NEW ev \in DOMAIN changed[s].edges,
                      changed[s].edges[ev].timer_ms # None
               PROVE  \/ changed[changed[s].edges[ev].new_state].timer # None
                      \/ changed[s].edges[ev].new_state \in due
    BY <1>5 DEF ArmedBut
  <2>1. CASE s = c /\ edges[ev] = edge
    BY <2>1, <1>6
  <2>2. CASE ev \in DOMAIN states[s].edges /\ changed[s].edges[ev] = states[s].edges[ev]
    <3>1. states[s].edges[ev].new_state \in DOMAIN states
      BY <2>2, <1>8 DEF Wired, EdgesLead
    <3>2. states[states[s].edges[ev].new_state].timer # None
      BY <2>2 DEF ArmedBut
    <3>3. QED
      BY <2>2, <3>1, <3>2, <1>6
  <2>3. QED
    BY <2>1, <2>2, <1>3, <1>6
<1>12. QED
  BY <1>1, <1>5, <1>6, <1>10, <1>11

\* A new state, to which no transition leads yet.
LEMMA StateAdded ==
  ASSUME NEW states, Wired(states), NEW due, ArmedBut(states, due),
         NEW outputs
  PROVE  LET grown == Append(states, State(Transition(None, outputs, HOME_STATE_IDX)))
         IN  /\ Wired(grown) /\ ArmedBut(grown, due)
             /\ Len(grown) = Len(states) + 1
             /\ grown[Len(grown)].fallback.new_state = HOME_STATE_IDX
<1> DEFINE state == State(Transition(None, outputs, HOME_STATE_IDX))
           grown == Append(states, state)
<1>1. /\ IsState(state) /\ DOMAIN state.edges = {} /\ state.timer = None
      /\ state.fallback.new_state = HOME_STATE_IDX
  BY DEF State, NoEdges, IsState, IsTransition, Transition
<1> HIDE DEF state
<1>2. /\ IsSequence(states) /\ IsSequence(grown) /\ Len(grown) = Len(states) + 1
      /\ Len(states) \in Nat /\ DOMAIN states = 1 .. Len(states)
      /\ DOMAIN grown = 1 .. Len(states) + 1
      /\ \A i \in DOMAIN states : grown[i] = states[i]
      /\ grown[Len(states) + 1] = state
  BY AppendElement, SequenceDomain DEF Wired
<1> HIDE DEF grown
<1>3. \A s \in DOMAIN states : \A to : Onward(states, s, to) =>
                                   Onward(grown, s, to) /\ to \in DOMAIN states
  BY <1>2 DEF Onward, Wired, HOME_STATE_IDX
<1>4. ASSUME NEW s \in DOMAIN grown
      PROVE  /\ IsState(grown[s]) /\ EdgesLead(grown, s)
             /\ TimerLeads(grown, s) /\ FallbackLeads(grown, s)
  <2>1. CASE s = Len(states) + 1
    BY <2>1, <1>1, <1>2 DEF EdgesLead, TimerLeads, FallbackLeads
  <2>2. CASE s \in DOMAIN states
    <3>1. IsState(states[s]) /\ EdgesLead(states, s) /\ TimerLeads(states, s)
          /\ FallbackLeads(states, s)
      BY <2>2 DEF Wired
    <3>2. EdgesLead(grown, s)
      BY <2>2, <3>1, <1>2, <1>3 DEF EdgesLead
    <3>3. TimerLeads(grown, s)
      BY <2>2, <3>1, <1>2, <1>3 DEF TimerLeads
    <3>4. FallbackLeads(grown, s)
      BY <2>2, <3>1, <1>2 DEF FallbackLeads
    <3>5. QED
      BY <2>2, <3>1, <3>2, <3>3, <3>4, <1>2
  <2>3. QED
    BY <2>1, <2>2, <1>2
<1>5. Wired(grown)
  BY <1>2, <1>4 DEF Wired, HOME_STATE_IDX
<1>6. ArmedBut(grown, due)
  BY <1>1, <1>2, <1>3 DEF ArmedBut, Wired, EdgesLead
<1>7. QED
  BY <1>1, <1>2, <1>5, <1>6 DEF grown, state

\* A new state, behind a minimum wait: its fallback is left unfilled.
LEMMA StateAddedBehindWait ==
  ASSUME NoneIsNoTransition,
         NEW states, Wired(states), NEW c \in DOMAIN states, states[c].timer = None,
         NEW due, ArmedBut(states, due)
  PROVE  LET grown == WithNext(states, c)
         IN  /\ Wired(grown) /\ ArmedBut(grown, due \ {c})
             /\ Len(grown) = Len(states) + 1
<1> DEFINE t       == Transition(None, <<>>, Len(states) + 1)
           waits   == [states[c] EXCEPT !.timer = t]
           changed == [states EXCEPT ![c] = waits]
           grown   == Append(changed, UnfilledState)
<1>1. grown = WithNext(states, c)
  BY DEF WithNext, WithTimer
<1>2. t # None /\ t.new_state = Len(states) + 1
  BY DEF NoneIsNoTransition, Transition
<1>3. /\ IsState(UnfilledState) /\ DOMAIN UnfilledState.edges = {}
      /\ UnfilledState.timer = None
  BY DEF UnfilledState, State, NoEdges, IsState, IsTransition, Transition
<1> HIDE DEF t
<1>4. IsSequence(states) /\ IsState(states[c])
  BY DEF Wired
<1>5. /\ waits.edges = states[c].edges /\ waits.fallback = states[c].fallback
      /\ waits.timer = t /\ IsState(waits)
  BY <1>4 DEF IsState
<1> HIDE DEF waits
<1>6. /\ IsSequence(changed) /\ Len(changed) = Len(states)
      /\ Len(states) \in Nat /\ DOMAIN states = 1 .. Len(states)
      /\ DOMAIN changed = DOMAIN states
      /\ \A i \in DOMAIN states : changed[i] = IF i = c THEN waits ELSE states[i]
  BY <1>4, ReplaceElement, SequenceDomain
<1> HIDE DEF changed
<1>7. /\ IsSequence(grown) /\ Len(grown) = Len(states) + 1
      /\ DOMAIN grown = 1 .. Len(states) + 1
      /\ \A i \in DOMAIN states : grown[i] = changed[i]
      /\ grown[Len(states) + 1] = UnfilledState
  BY <1>6, AppendElement, SequenceDomain
<1> HIDE DEF grown
<1>8. \A s \in DOMAIN states : /\ IsState(grown[s])
                               /\ grown[s].edges = states[s].edges
                               /\ grown[s].fallback = states[s].fallback
                               /\ s # c => grown[s].timer = states[s].timer
                               /\ s = c => grown[s].timer = t
  BY <1>5, <1>6, <1>7 DEF Wired
<1>9. \A s \in DOMAIN states : \A to : Onward(states, s, to) =>
                                   Onward(grown, s, to) /\ to \in DOMAIN states
  BY <1>6, <1>7 DEF Onward, Wired, HOME_STATE_IDX
<1>10. Onward(grown, c, Len(states) + 1) /\ c \in DOMAIN grown
  BY <1>6, <1>7 DEF Onward
<1>11. ASSUME NEW s \in DOMAIN grown
       PROVE  /\ IsState(grown[s]) /\ EdgesLead(grown, s)
              /\ TimerLeads(grown, s) /\ FallbackLeads(grown, s)
  <2>1. CASE s = Len(states) + 1
    <3>1. FallbackLeads(grown, s)
      BY <2>1, <1>2, <1>8, <1>10 DEF FallbackLeads
    <3>2. QED
      BY <2>1, <3>1, <1>3, <1>7 DEF EdgesLead, TimerLeads
  <2>2. CASE s \in DOMAIN states
    <3>1. IsState(states[s]) /\ EdgesLead(states, s) /\ TimerLeads(states, s)
          /\ FallbackLeads(states, s)
      BY <2>2 DEF Wired
    <3>2. EdgesLead(grown, s)
      BY <2>2, <3>1, <1>8, <1>9 DEF EdgesLead
    <3>3. TimerLeads(grown, s)
      BY <2>2, <3>1, <1>2, <1>8, <1>9, <1>10 DEF TimerLeads
    <3>4. FallbackLeads(grown, s)
      BY <2>2, <3>1, <1>6, <1>7, <1>8 DEF FallbackLeads
    <3>5. QED
      BY <2>2, <3>2, <3>3, <3>4, <1>8
  <2>3. QED
    BY <2>1, <2>2, <1>6, <1>7
<1>12. Wired(grown)
  BY <1>6, <1>7, <1>8, <1>11 DEF Wired, HOME_STATE_IDX
<1>13. ArmedBut(grown, due \ {c})
  <2> SUFFICES ASSUME NEW s \in DOMAIN grown, NEW ev \in DOMAIN grown[s].edges,
                      grown[s].edges[ev].timer_ms # None
               PROVE  \/ grown[grown[s].edges[ev].new_state].timer # None
                      \/ grown[s].edges[ev].new_state \in due \ {c}
    BY DEF ArmedBut
  <2>1. s \in DOMAIN states /\ grown[s].edges = states[s].edges
    BY <1>3, <1>6, <1>7, <1>8
  <2>2. states[s].edges[ev].new_state \in DOMAIN states
    BY <2>1, <1>9 DEF Wired, EdgesLead
  <2>3. \/ states[states[s].edges[ev].new_state].timer # None
        \/ states[s].edges[ev].new_state \in due
    BY <2>1 DEF ArmedBut
  <2>4. QED
    BY <2>1, <2>2, <2>3, <1>2, <1>8
<1>14. QED
  BY <1>1, <1>7, <1>12, <1>13

-----------------------------------------------------------------------------
(* The branches of the loop over a sequence. *)

\* The wait that trigger g.i brings with it is still due on the state reached.
Due(g, sequence) == IF Lookahead(sequence, g.i) = None THEN {} ELSE {g.current}

WithElement(s, c, x) == [s EXCEPT ![c] = x]

LEMMA AppendAfterReplace ==
  ASSUME NEW s, IsSequence(s), NEW c \in DOMAIN s, NEW e, NEW x
  PROVE  Append(WithElement(s, c, x), e) = WithElement(Append(s, e), c, x)
<1> DEFINE S     == {s[i] : i \in DOMAIN s} \cup {e, x}
           left  == Append([s EXCEPT ![c] = x], e)
           right == [Append(s, e) EXCEPT ![c] = x]
<1>1. s \in Seq(S) /\ e \in S /\ x \in S
  BY DEF IsSequence
<1> HIDE DEF S
<1>2. left \in Seq(S) /\ right \in Seq(S) /\ Len(left) = Len(s) + 1
      /\ Len(right) = Len(s) + 1
  BY <1>1
<1>3. ASSUME NEW i \in 1 .. Len(s) + 1
      PROVE  left[i] = right[i]
  <2>1. Len(s) \in Nat /\ DOMAIN s = 1 .. Len(s)
    BY <1>1
  <2>2. left[i] = IF i = Len(s) + 1 THEN e ELSE IF i = c THEN x ELSE s[i]
    BY <2>1, ReplaceElement, AppendElement
  <2>3. right[i] = IF i = Len(s) + 1 THEN e ELSE IF i = c THEN x ELSE s[i]
    <3> DEFINE longer == Append(s, e)
    <3>1. /\ DOMAIN longer = 1 .. Len(s) + 1 /\ longer[Len(s) + 1] = e
          /\ \A j \in 1 .. Len(s) : longer[j] = s[j]
      BY <2>1, AppendElement, SequenceDomain
    <3> HIDE DEF longer
    <3>2. right[i] = IF i = c THEN x ELSE longer[i]
      BY <2>1, <3>1 DEF longer
    <3>3. QED
      BY <2>1, <3>1, <3>2
  <2>4. QED
    BY <2>2, <2>3
<1>4. QED
  BY <1>2, <1>3, SeqEqual DEF WithElement

LEMMA AddEdgeKeeps ==
  ASSUME NEW g, IsMachine(g), ArmedBut(g.states, {}),
         NEW sq, sq.sequence \in Seq(Triggers), g.i <= Len(sq.sequence)
  PROVE  LET h == AddEdge(g, sq) IN
         /\ IsMachine(h) /\ h.i = g.i
         /\ h.states[h.current].fallback.new_state = HOME_STATE_IDX
         /\ ArmedBut(h.states, Due(h, sq.sequence))
<1> DEFINE event  == sq.sequence[g.i].ev
           timer  == Lookahead(sq.sequence, g.i)
           last   == g.i = Len(sq.sequence)
           echo   == IF sq.behavior = "release" THEN <<Basic(event)>> ELSE <<>>
           target == IF last THEN HOME_STATE_IDX ELSE Len(g.states) + 1
           edge   == Transition(IF timer = None THEN None ELSE timer.ms,
                                IF last THEN echo \o sq.binds ELSE echo, target)
           wire(states) == WithEdge(states, g.current, event, edge)
           h      == AddEdge(g, sq)
<1>1. /\ Wired(g.states) /\ IsSequence(g.states) /\ g.current \in DOMAIN g.states
      /\ g.i \in Nat /\ Len(sq.sequence) \in Nat
      /\ Len(g.states) \in Nat /\ DOMAIN g.states = 1 .. Len(g.states)
      /\ Len(g.states) >= 1
  BY SequenceDomain DEF IsMachine, Wired, HOME_STATE_IDX
<1>2. /\ edge.new_state = target /\ (edge.timer_ms # None => timer # None)
      /\ IsTransition(edge)
  BY DEF Transition, IsTransition
<1>3. CASE last
  <2>1. timer = None
    BY <1>1, <1>3 DEF Lookahead
  <2>2. /\ h.states = wire(g.states) /\ h.current = HOME_STATE_IDX /\ h.i = g.i
        /\ h = [states |-> h.states, meta |-> h.meta, current |-> h.current,
                i |-> h.i, status |-> h.status]
    <3>1. h = [g EXCEPT !.states = wire(g.states), !.meta = @, !.current = HOME_STATE_IDX]
      BY <1>3 DEF AddEdge, WithEdge
    <3> HIDE DEF h, wire, last, target, edge
    <3>2. QED
      BY <3>1 DEF IsMachine
  <2>3. target = HOME_STATE_IDX /\ Onward(g.states, g.current, target)
        /\ g.states[target].fallback.new_state = HOME_STATE_IDX
    BY <1>1, <1>3 DEF Wired, Onward
  <2>4. /\ IsTransition(edge) /\ Onward(g.states, g.current, edge.new_state)
        /\ g.states[edge.new_state].fallback.new_state = HOME_STATE_IDX
        /\ edge.timer_ms # None => edge.new_state \in {}
    BY <1>2, <2>1, <2>3
  <2>5. Wired(g.states) /\ g.current \in DOMAIN g.states /\ ArmedBut(g.states, {})
    BY <1>1
  <2> HIDE DEF edge, target, h, last, timer, event
  <2>6. /\ Wired(wire(g.states)) /\ ArmedBut(wire(g.states), {})
        /\ Len(wire(g.states)) = Len(g.states)
        /\ \A s \in DOMAIN g.states : wire(g.states)[s].fallback = g.states[s].fallback
    BY <2>4, <2>5, EdgeSet
  <2>7. Due(h, sq.sequence) = {}
    BY <2>1, <2>2 DEF Due, timer
  <2>8. DOMAIN wire(g.states) = 1 .. Len(g.states)
    BY <2>6, SequenceDomain DEF Wired
  <2> HIDE DEF wire
  <2>9. QED
    BY <1>1, <2>2, <2>3, <2>6, <2>7, <2>8 DEF IsMachine, h, HOME_STATE_IDX
<1>4. CASE ~last
  <2> DEFINE grown == Append(g.states, HalfTyped(sq, g.i))
  <2>1. /\ h.states = Append(wire(g.states), HalfTyped(sq, g.i))
        /\ h.current = Len(g.states) + 1 /\ h.i = g.i
        /\ h = [states |-> h.states, meta |-> h.meta, current |-> h.current,
                i |-> h.i, status |-> h.status]
    <3>1. h = [g EXCEPT !.states  = Append(wire(g.states), HalfTyped(sq, g.i)),
                        !.meta    = Append(@, Metadata(timer, sq.behavior)),
                        !.current = Len(g.states) + 1]
      BY <1>4 DEF AddEdge, WithEdge
    <3> HIDE DEF h, wire, last, target, edge, timer
    <3>2. QED
      BY <3>1 DEF IsMachine
  <2>2. /\ Wired(grown) /\ ArmedBut(grown, {})
        /\ Len(grown) = Len(g.states) + 1
        /\ grown[Len(grown)].fallback.new_state = HOME_STATE_IDX
    BY <1>1, StateAdded DEF HalfTyped
  <2>3. /\ DOMAIN grown = 1 .. Len(g.states) + 1
        /\ grown[g.current] = g.states[g.current]
    BY <1>1, AppendElement, SequenceDomain
  <2>4. Append(wire(g.states), HalfTyped(sq, g.i)) = wire(grown)
    <3> DEFINE edges == g.states[g.current].edges
               state == [g.states[g.current] EXCEPT !.edges =
                           [ev \in DOMAIN edges \cup {event} |->
                              IF ev = event THEN edge ELSE edges[ev]]]
    <3>1. wire(g.states) = WithElement(g.states, g.current, state)
      BY DEF WithEdge, WithElement
    <3>2. wire(grown) = WithElement(grown, g.current, state)
      BY <2>3 DEF WithEdge, WithElement
    <3> HIDE DEF state, wire
    <3>3. IsSequence(g.states) /\ g.current \in DOMAIN g.states
      BY <1>1
    <3>4. Append(WithElement(g.states, g.current, state), HalfTyped(sq, g.i))
            = WithElement(Append(g.states, HalfTyped(sq, g.i)), g.current, state)
      BY <3>3, AppendAfterReplace
    <3>5. QED
      BY <3>1, <3>2, <3>4
  <2>5. target = Len(grown) /\ Onward(grown, g.current, target)
    BY <1>1, <1>4, <2>2 DEF Onward
  <2>6. /\ IsTransition(edge) /\ Onward(grown, g.current, edge.new_state)
        /\ grown[edge.new_state].fallback.new_state = HOME_STATE_IDX
        /\ edge.timer_ms # None => edge.new_state \in IF timer = None THEN {} ELSE {target}
    BY <1>2, <2>2, <2>5
  <2>7. Wired(grown) /\ g.current \in DOMAIN grown /\ ArmedBut(grown, {})
    BY <1>1, <2>2, <2>3
  <2> HIDE DEF edge, target, h, last, timer, grown, event
  <2>8. /\ Wired(wire(grown)) /\ ArmedBut(wire(grown), IF timer = None THEN {} ELSE {target})
        /\ Len(wire(grown)) = Len(grown)
        /\ \A s \in DOMAIN grown : wire(grown)[s].fallback = grown[s].fallback
    BY <2>6, <2>7, EdgeSet
  <2>9. DOMAIN wire(grown) = DOMAIN grown
    BY <2>2, <2>3, <2>8, SequenceDomain DEF Wired
  <2>10. h.current = target /\ target \in DOMAIN grown
    BY <1>1, <2>1, <2>2, <2>3, <2>5
  <2>11. Due(h, sq.sequence) = IF timer = None THEN {} ELSE {target}
    BY <2>1, <2>10 DEF Due, timer
  <2>12. h.states = wire(grown)
    BY <2>1, <2>4 DEF grown
  <2> HIDE DEF wire
  <2>13. QED
    BY <1>1, <2>1, <2>2, <2>5, <2>8, <2>9, <2>10, <2>11, <2>12 DEF IsMachine, h
<1>5. QED
  BY <1>3, <1>4

LEMMA AddTimerKeeps ==
  ASSUME NoneIsNoTransition,
         NEW g, IsMachine(g), NEW sq,
         g.states[g.current].fallback.new_state = HOME_STATE_IDX,
         ArmedBut(g.states, Due(g, sq.sequence))
  PROVE  LET h == AddTimer(g, sq) IN
         IsMachine(h) /\ h.i = g.i /\ ArmedBut(h.states, {})
<1> DEFINE timer == Lookahead(sq.sequence, g.i)
           next  == g.states[g.current]
           final == Consumed(sq.sequence, g.i) = Len(sq.sequence)
           h     == AddTimer(g, sq)
<1>1. /\ Wired(g.states) /\ g.current \in DOMAIN g.states /\ IsState(next)
      /\ Len(g.states) \in Nat /\ DOMAIN g.states = 1 .. Len(g.states)
  BY SequenceDomain DEF IsMachine, Wired
<1>2. CASE timer = None
  BY <1>2 DEF AddTimer, Due
<1>3. ASSUME timer # None, next.timer # None
      PROVE  ArmedBut(g.states, {})
  BY <1>3 DEF ArmedBut, Due
<1>4. timer # None => timer.kind \in {"min", "max"} /\ Due(g, sq.sequence) = {g.current}
  BY DEF Lookahead, IsWait, Due
<1>5. ASSUME timer # None, next.timer = None, NEW t, t # None,
             Onward(g.states, g.current, t.new_state),
             h = [g EXCEPT !.states = WithTimer(@, g.current, t)]
      PROVE  IsMachine(h) /\ h.i = g.i /\ ArmedBut(h.states, {})
  <2> DEFINE changed == WithTimer(g.states, g.current, t)
  <2>1. /\ h.states = changed /\ h.current = g.current /\ h.i = g.i
        /\ h = [states |-> h.states, meta |-> h.meta, current |-> h.current,
                i |-> h.i, status |-> h.status]
    BY <1>5 DEF IsMachine
  <2>2. Wired(changed) /\ ArmedBut(changed, {g.current} \ {g.current})
        /\ Len(changed) = Len(g.states)
    BY <1>1, <1>4, <1>5, TimerSet
  <2>3. DOMAIN changed = DOMAIN g.states
    BY DEF WithTimer
  <2> HIDE DEF changed, h
  <2>4. QED
    BY <1>1, <2>1, <2>2, <2>3 DEF IsMachine
<1>6. CASE timer # None /\ timer.kind = "max"
  <2>1. h = TimeOut(g, sq)
    BY <1>6 DEF AddTimer
  <2>2. CASE next.timer = None
    <3>1. h = [g EXCEPT !.states = WithTimer(@, g.current, next.fallback)]
      BY <2>1, <2>2 DEF TimeOut, WithTimer
    <3>2. next.fallback # None /\ Onward(g.states, g.current, next.fallback.new_state)
      BY <1>1 DEF IsState, IsTransition, NoneIsNoTransition, Onward
    <3>3. QED
      BY <1>5, <1>6, <2>2, <3>1, <3>2
  <2>3. CASE next.timer # None
    <3>1. h = [g EXCEPT !.states = WithTimer(@, g.current, next.timer)]
      BY <2>1, <2>3 DEF TimeOut, WithTimer
    <3>2. [next EXCEPT !.timer = next.timer] = next
      BY <1>1 DEF IsState
    <3>3. WithTimer(g.states, g.current, next.timer) = [g.states EXCEPT ![g.current] = next]
      BY <3>2 DEF WithTimer
    <3>4. WithTimer(g.states, g.current, next.timer) = g.states
      <4>1. IsSequence(g.states)
        BY <1>1 DEF Wired
      <4>2. g.states = [s \in DOMAIN g.states |-> g.states[s]]
        BY <4>1 DEF IsSequence
      <4>3. QED
        BY <3>3, <4>2
    <3>5. h = g
      BY <3>1, <3>4 DEF IsMachine
    <3>6. QED
      BY <3>5, <1>3, <1>6, <2>3
  <2>4. QED
    BY <2>2, <2>3
<1>7. CASE timer # None /\ timer.kind = "min" /\ next.timer # None
  <2>1. h = [g EXCEPT !.current = next.timer.new_state]
    BY <1>7 DEF AddTimer
  <2>2. next.timer.new_state \in DOMAIN g.states
    BY <1>1, <1>7 DEF Wired, TimerLeads, Onward, HOME_STATE_IDX
  <2>3. QED
    BY <2>1, <2>2, <1>3, <1>7 DEF IsMachine
<1>8. CASE timer # None /\ timer.kind = "min" /\ next.timer = None /\ final
  <2>1. h = HoldEnds(g, sq)
    BY <1>8 DEF AddTimer
  <2>2. Transition(None, sq.binds, HOME_STATE_IDX) # None
        /\ Onward(g.states, g.current, Transition(None, sq.binds, HOME_STATE_IDX).new_state)
    BY DEF NoneIsNoTransition, Transition, Onward
  <2>3. QED
    BY <2>1, <2>2, <1>5, <1>8 DEF HoldEnds, WithTimer
<1>9. CASE timer # None /\ timer.kind = "min" /\ next.timer = None /\ ~final
  <2> DEFINE grown == WithNext(g.states, g.current)
  <2>1. h = HoldGoesOn(g, sq)
    BY <1>9 DEF AddTimer
  <2>2. /\ h.states = grown /\ h.current = Len(g.states) + 1 /\ h.i = g.i
        /\ h = [states |-> h.states, meta |-> h.meta, current |-> h.current,
                i |-> h.i, status |-> h.status]
    <3>1. h = [g EXCEPT !.states  = grown,
                        !.meta    = Append(@, Metadata(None, sq.behavior)),
                        !.current = Len(g.states) + 1]
      BY <2>1 DEF HoldGoesOn, WithNext, WithTimer
    <3> HIDE DEF h, grown
    <3>2. QED
      BY <3>1 DEF IsMachine
  <2>3. Wired(g.states) /\ g.current \in DOMAIN g.states
        /\ g.states[g.current].timer = None /\ ArmedBut(g.states, {g.current})
    BY <1>1, <1>4, <1>9
  <2>4. Wired(grown) /\ ArmedBut(grown, {g.current} \ {g.current})
        /\ Len(grown) = Len(g.states) + 1
    BY <2>3, StateAddedBehindWait
  <2>5. DOMAIN grown = 1 .. Len(g.states) + 1
    BY <2>4, SequenceDomain DEF Wired
  <2>6. h.current \in DOMAIN grown
    BY <1>1, <2>2, <2>5
  <2>7. g.i \in Nat /\ ArmedBut(grown, {})
    BY <2>4 DEF IsMachine
  <2> HIDE DEF grown, h
  <2>8. h.i \in Nat /\ h.current \in DOMAIN h.states /\ Wired(h.states)
    BY <2>2, <2>4, <2>6, <2>7
  <2>9. IsMachine(h)
    BY <2>2, <2>8, SMTT(30) DEF IsMachine
  <2>10. QED
    BY <2>2, <2>7, <2>9 DEF h
<1>10. QED
  BY <1>2, <1>4, <1>6, <1>7, <1>8, <1>9

LEMMA OnwardIsState ==
  ASSUME NEW states, Wired(states), NEW s, NEW to, Onward(states, s, to), s \in DOMAIN states
  PROVE  to \in DOMAIN states
<1>1. Len(states) \in Nat /\ DOMAIN states = 1 .. Len(states)
  BY SequenceDomain DEF Wired
<1>2. QED
  BY <1>1 DEF Onward, Wired, HOME_STATE_IDX

LEMMA StepKeeps ==
  ASSUME NoneIsNoTransition,
         NEW g, IsMachine(g), ArmedBut(g.states, {}),
         NEW sq, sq.sequence \in Seq(Triggers), g.i <= Len(sq.sequence)
  PROVE  IsMachine(Step(g, sq)) /\ ArmedBut(Step(g, sq).states, {})
<1> DEFINE trigger == sq.sequence[g.i]
           shared  == trigger.ev \in DOMAIN g.states[g.current].edges
           target  == g.states[g.current].edges[trigger.ev].new_state
<1>1. ASSUME NEW status
      PROVE  LET h == [g EXCEPT !.status = status] IN
             IsMachine(h) /\ ArmedBut(h.states, {})
  BY DEF IsMachine
<1>2. ASSUME NEW h, IsMachine(h), h.i = g.i, ArmedBut(h.states, Due(h, sq.sequence)),
             h.states[h.current].fallback.new_state = HOME_STATE_IDX
      PROVE  LET k == [AddTimer(h, sq) EXCEPT !.i = Consumed(sq.sequence, g.i) + 1]
             IN  IsMachine(k) /\ ArmedBut(k.states, {})
  <2> DEFINE t == AddTimer(h, sq)
             k == [t EXCEPT !.i = Consumed(sq.sequence, g.i) + 1]
  <2>1. IsMachine(t) /\ ArmedBut(t.states, {})
    BY <1>2, AddTimerKeeps
  <2> HIDE DEF t
  <2>2. Consumed(sq.sequence, g.i) + 1 \in Nat
    BY DEF Consumed, IsMachine
  <2>3. IsMachine(k) /\ k.states = t.states
    BY <2>1, <2>2 DEF IsMachine
  <2>4. QED
    BY <2>1, <2>3 DEF t
<1>3. CASE IsWait(trigger)
  BY <1>1, <1>3 DEF Step
<1>4. CASE ~IsWait(trigger) /\ shared /\ ~Shareable(g, sq)
  BY <1>1, <1>4 DEF Step
<1>5. CASE ~IsWait(trigger) /\ shared /\ Shareable(g, sq)
  <2> DEFINE h == [g EXCEPT !.current = target]
  <2>1. /\ Wired(g.states) /\ g.current \in DOMAIN g.states
        /\ DOMAIN g.states = 1 .. Len(g.states) /\ Len(g.states) \in Nat
    BY SequenceDomain DEF IsMachine, Wired
  <2>2. target \in DOMAIN g.states
        /\ g.states[target].fallback.new_state = HOME_STATE_IDX
    <3>1. EdgesLead(g.states, g.current)
      BY <2>1 DEF Wired
    <3>2. Onward(g.states, g.current, target)
          /\ g.states[target].fallback.new_state = HOME_STATE_IDX
      BY <1>5, <3>1 DEF EdgesLead
    <3> HIDE DEF target
    <3>3. QED
      BY <2>1, <3>2, OnwardIsState
  <2> HIDE DEF target
  <2>3. IsMachine(h) /\ h.i = g.i /\ h.states = g.states /\ h.current = target
    BY <2>2 DEF IsMachine
  <2>4. ArmedBut(h.states, Due(h, sq.sequence))
    BY <2>3 DEF ArmedBut
  <2>5. Step(g, sq) = [AddTimer(h, sq) EXCEPT !.i = Consumed(sq.sequence, g.i) + 1]
    BY <1>5 DEF Step, target
  <2> HIDE DEF h
  <2>6. QED
    BY <1>2, <2>2, <2>3, <2>4, <2>5
<1>6. CASE ~IsWait(trigger) /\ ~shared
  <2> DEFINE h == AddEdge(g, sq)
  <2>1. Step(g, sq) = [AddTimer(h, sq) EXCEPT !.i = Consumed(sq.sequence, g.i) + 1]
    BY <1>6 DEF Step
  <2>2. /\ IsMachine(h) /\ h.i = g.i /\ ArmedBut(h.states, Due(h, sq.sequence))
        /\ h.states[h.current].fallback.new_state = HOME_STATE_IDX
    BY AddEdgeKeeps
  <2> HIDE DEF h
  <2>3. QED
    BY <1>2, <2>1, <2>2
<1>7. QED
  BY <1>3, <1>4, <1>5, <1>6

-----------------------------------------------------------------------------
(* The machine stays well wired through every step of the generator. *)

THEOREM GeneratorInvariant == ASSUME NoneIsNoTransition
                              PROVE  Spec => []GenInv
<1>1. Init => GenInv
  <2> SUFFICES ASSUME Init PROVE GenInv
    OBVIOUS
  <2>1. gen = [states  |-> <<HomeState>>, meta |-> <<Metadata(None, "default")>>,
               current |-> HOME_STATE_IDX, i |-> 1, status |-> "building"]
        /\ seq = None
    BY DEF Init, EmptyMachine
  <2>2. HOME_STATE_IDX \in DOMAIN <<HomeState>>
    BY DEF HOME_STATE_IDX
  <2>3. QED
    BY <2>1, <2>2, EmptyMachineWired DEF GenInv, IsMachine
<1>2. GenInv /\ [Next]_vars => GenInv'
  <2> SUFFICES ASSUME GenInv, [Next]_vars PROVE GenInv'
    OBVIOUS
  <2>1. CASE BeginSequence
    <3>1. PICK n \in 1 .. MaxTriggers, b \in Behaviors :
            \E triggers \in [1 .. n -> Triggers] :
              seq' = [behavior |-> b, sequence |-> triggers, binds |-> BindsOf[Len(done) + 1]]
      BY <2>1 DEF BeginSequence
    <3>2. PICK triggers \in [1 .. n -> Triggers] :
            seq' = [behavior |-> b, sequence |-> triggers, binds |-> BindsOf[Len(done) + 1]]
      BY <3>1
    <3>3. seq'.sequence \in Seq(Triggers)
      <4>1. n \in Nat
        BY BoundsAssumption
      <4>2. seq'.sequence = triggers
        BY <3>2
      <4> HIDE DEF Triggers
      <4>3. QED
        BY <4>1, <4>2
    <3>4. IsMachine(gen') /\ gen'.states = gen.states
      <4>1. gen' = [gen EXCEPT !.current = HOME_STATE_IDX, !.i = 1]
        BY <2>1 DEF BeginSequence, StartSequence
      <4>2. HOME_STATE_IDX \in DOMAIN gen.states
        BY SequenceDomain DEF GenInv, IsMachine, Wired, HOME_STATE_IDX
      <4>3. QED
        BY <4>1, <4>2 DEF GenInv, IsMachine
    <3>5. QED
      BY <3>3, <3>4 DEF GenInv
  <2>2. CASE ConsumeTrigger
    BY <2>2, StepKeeps DEF ConsumeTrigger, GenInv
  <2>3. CASE ThrowOutOfRange
    BY <2>3 DEF ThrowOutOfRange, GenInv, IsMachine
  <2>4. CASE EndSequence
    BY <2>4 DEF EndSequence, GenInv
  <2>5. CASE Return
    BY <2>5 DEF Return, GenInv, IsMachine
  <2>6. CASE UNCHANGED vars
    BY <2>6 DEF vars, GenInv
  <2>7. QED
    BY <2>1, <2>2, <2>3, <2>4, <2>5, <2>6 DEF Next
<1>3. QED
  BY <1>1, <1>2, PTL DEF Spec

(***************************************************************************)
(* Whatever layer is generated, every transition leads to a state of the   *)
(* machine: mapper.cpp:76 indexes the states with it unchecked.            *)
(***************************************************************************)
THEOREM GeneratorCloses == ASSUME NoneIsNoTransition
                           PROVE  Spec => []Closed
<1>1. GenInv => Closed
  <2> SUFFICES ASSUME GenInv, NEW s \in Indices
               PROVE  /\ \A ev \in DOMAIN gen.states[s].edges :
                           LET to == gen.states[s].edges[ev].new_state IN
                           /\ to \in Indices
                           /\ gen.states[to].fallback.new_state = HOME_STATE_IDX
                      /\ gen.states[s].timer # None => gen.states[s].timer.new_state \in Indices
                      /\ gen.states[s].fallback.new_state # HOME_STATE_IDX =>
                           \E p \in Indices : gen.states[p].timer # None
                                                /\ gen.states[p].timer.new_state = s
    BY DEF Closed
  <2>1. Wired(gen.states) /\ s \in DOMAIN gen.states
    BY DEF GenInv, IsMachine, Indices
  <2>2. EdgesLead(gen.states, s) /\ TimerLeads(gen.states, s) /\ FallbackLeads(gen.states, s)
    BY <2>1 DEF Wired
  <2>3. \A ev \in DOMAIN gen.states[s].edges :
          LET to == gen.states[s].edges[ev].new_state IN
          to \in Indices /\ gen.states[to].fallback.new_state = HOME_STATE_IDX
    BY <2>1, <2>2, OnwardIsState DEF EdgesLead, Indices
  <2>4. gen.states[s].timer # None => gen.states[s].timer.new_state \in Indices
    BY <2>1, <2>2, OnwardIsState DEF TimerLeads, Indices
  <2>5. QED
    BY <2>2, <2>3, <2>4 DEF FallbackLeads, Indices
<1>2. QED
  BY <1>1, GeneratorInvariant, PTL

(***************************************************************************)
(* No edge arms the mapper's timer on its way to a state that does nothing *)
(* when it expires.                                                        *)
(***************************************************************************)
THEOREM GeneratorArmsOnlyTimers == ASSUME NoneIsNoTransition
                                   PROVE  Spec => []ArmedTimersFire
<1>1. GenInv => ArmedTimersFire
  BY DEF GenInv, ArmedBut, ArmedTimersFire, Indices
<1>2. QED
  BY <1>1, GeneratorInvariant, PTL

(***************************************************************************)
(* Every transition goes home or to a state created after its own: no loop *)
(* avoids the home state.                                                  *)
(***************************************************************************)
THEOREM GeneratorLoopsPassHome == ASSUME NoneIsNoTransition
                                  PROVE  Spec => []LoopsPassHome
<1>1. GenInv => LoopsPassHome
  BY DEF GenInv, IsMachine, Wired, EdgesLead, TimerLeads, Onward, LoopsPassHome, Indices
<1>2. QED
  BY <1>1, GeneratorInvariant, PTL

-----------------------------------------------------------------------------
(* Every accepted sequence can be typed.  A walk is the run of states that *)
(* the triggers of a sequence lead through; the machine only grows, so a   *)
(* walk that exists stays, and each step of the generator takes the walk   *)
(* of its own sequence one trigger further.                                *)

\* Taken, as a property of the states and the triggers.
TakenIn(states, triggers, n, s) ==
  LET t == triggers[n] IN
  CASE t.kind = "input" /\ t.ev \in DOMAIN states[s].edges -> states[s].edges[t.ev]
    [] t.kind = "min" /\ states[s].timer # None -> states[s].timer
    [] t.kind = "max" -> Transition(None, <<>>, s)
    [] OTHER -> None

\* walk[n] is the state the first n triggers lead to from home.
Walks(states, triggers, walk, m) ==
  /\ walk \in [0 .. m -> DOMAIN states] /\ walk[0] = HOME_STATE_IDX
  /\ \A n \in 1 .. m :
       LET t == TakenIn(states, triggers, n, walk[n - 1]) IN
       t # None /\ t.new_state = walk[n]

\* The whole sequence can be typed, and its last trigger gives its binds.
Typable(states, sq) ==
  LET n == Len(sq.sequence) IN
  \E walk : /\ Walks(states, sq.sequence, walk, n) /\ walk[n] = HOME_STATE_IDX
            /\ EndsWith(TakenIn(states, sq.sequence, n, walk[n - 1]).outputs, sq.binds)

\* No edge and no timer is lost or replaced.
Grows(old, new) ==
  /\ DOMAIN old \subseteq DOMAIN new
  /\ \A s \in DOMAIN old :
       /\ \A ev \in DOMAIN old[s].edges :
            ev \in DOMAIN new[s].edges /\ new[s].edges[ev] = old[s].edges[ev]
       /\ old[s].timer # None => new[s].timer = old[s].timer

\* Growing is transitive.
LEMMA GrowsTwice ==
  ASSUME NEW x, NEW y, NEW z, Grows(x, y), Grows(y, z)
  PROVE  Grows(x, z)
<1>1. DOMAIN x \subseteq DOMAIN z
  BY DEF Grows
<1>2. ASSUME NEW s \in DOMAIN x, NEW ev \in DOMAIN x[s].edges
      PROVE  ev \in DOMAIN z[s].edges /\ z[s].edges[ev] = x[s].edges[ev]
  <2>1. s \in DOMAIN y /\ ev \in DOMAIN y[s].edges /\ y[s].edges[ev] = x[s].edges[ev]
    BY DEF Grows
  <2>2. QED
    BY <2>1 DEF Grows
<1>3. ASSUME NEW s \in DOMAIN x, x[s].timer # None
      PROVE  z[s].timer = x[s].timer
  BY <1>3 DEF Grows
<1>4. QED
  BY <1>1, <1>2, <1>3 DEF Grows

\* A transition a trigger takes stays what it was.
LEMMA TakenGrows ==
  ASSUME NEW old, NEW new, Grows(old, new), NEW s \in DOMAIN old, NEW triggers, NEW n,
         TakenIn(old, triggers, n, s) # None
  PROVE  TakenIn(new, triggers, n, s) = TakenIn(old, triggers, n, s)
<1> DEFINE t == triggers[n]
<1>1. CASE t.kind = "input" /\ t.ev \in DOMAIN old[s].edges
  BY <1>1 DEF TakenIn, Grows
<1>2. CASE t.kind = "min" /\ old[s].timer # None
  BY <1>2 DEF TakenIn, Grows
<1>3. CASE t.kind = "max"
  BY <1>3 DEF TakenIn
<1>4. QED
  BY <1>1, <1>2, <1>3 DEF TakenIn

\* A walk stays a walk while the machine grows.
LEMMA WalksGrow ==
  ASSUME NEW old, NEW new, Grows(old, new), NEW triggers, NEW m \in Nat, NEW walk,
         Walks(old, triggers, walk, m)
  PROVE  /\ Walks(new, triggers, walk, m)
         /\ \A n \in 1 .. m : TakenIn(new, triggers, n, walk[n - 1])
                                = TakenIn(old, triggers, n, walk[n - 1])
<1>1. DOMAIN old \subseteq DOMAIN new
  BY DEF Grows
<1>2. ASSUME NEW n \in 1 .. m
      PROVE  TakenIn(new, triggers, n, walk[n - 1]) = TakenIn(old, triggers, n, walk[n - 1])
  <2>1. walk[n - 1] \in DOMAIN old /\ TakenIn(old, triggers, n, walk[n - 1]) # None
    BY DEF Walks
  <2>2. QED
    BY <2>1, TakenGrows
<1>3. walk \in [0 .. m -> DOMAIN new]
  BY <1>1 DEF Walks
<1>4. QED
  BY <1>2, <1>3 DEF Walks

\* A sequence that can be typed can still be typed.
LEMMA TypableGrows ==
  ASSUME NEW old, NEW new, Grows(old, new), NEW sq, Len(sq.sequence) \in Nat \ {0},
         Typable(old, sq)
  PROVE  Typable(new, sq)
<1> DEFINE n == Len(sq.sequence)
<1>1. PICK walk : /\ Walks(old, sq.sequence, walk, n) /\ walk[n] = HOME_STATE_IDX
                  /\ EndsWith(TakenIn(old, sq.sequence, n, walk[n - 1]).outputs, sq.binds)
  BY DEF Typable
<1>2. /\ Walks(new, sq.sequence, walk, n)
      /\ TakenIn(new, sq.sequence, n, walk[n - 1]) = TakenIn(old, sq.sequence, n, walk[n - 1])
  <2>1. n \in Nat /\ n \in 1 .. n
    OBVIOUS
  <2> HIDE DEF n
  <2>2. QED
    BY <1>1, <2>1, WalksGrow
<1>3. QED
  BY <1>1, <1>2 DEF Typable

\* One trigger further.
LEMMA WalkGoesOn ==
  ASSUME NEW states, NEW triggers, NEW m \in Nat, NEW walk, Walks(states, triggers, walk, m),
         TakenIn(states, triggers, m + 1, walk[m]) # None,
         TakenIn(states, triggers, m + 1, walk[m]).new_state \in DOMAIN states
  PROVE  LET further == [n \in 0 .. m + 1 |->
                           IF n = m + 1 THEN TakenIn(states, triggers, m + 1, walk[m]).new_state
                                        ELSE walk[n]]
         IN  Walks(states, triggers, further, m + 1)
             /\ further[m] = walk[m]
             /\ further[m + 1] = TakenIn(states, triggers, m + 1, walk[m]).new_state
<1> DEFINE to == TakenIn(states, triggers, m + 1, walk[m]).new_state
           further == [n \in 0 .. m + 1 |-> IF n = m + 1 THEN to ELSE walk[n]]
<1>1. /\ further \in [0 .. m + 1 -> DOMAIN states]
      /\ \A n \in 0 .. m : further[n] = walk[n]
      /\ further[m + 1] = to
  BY DEF Walks
<1> HIDE DEF further
<1>2. ASSUME NEW n \in 1 .. m + 1
      PROVE  LET t == TakenIn(states, triggers, n, further[n - 1]) IN
             t # None /\ t.new_state = further[n]
  <2>1. CASE n = m + 1
    BY <1>1, <2>1
  <2>2. CASE n # m + 1
    <3>1. n \in 1 .. m /\ n - 1 \in 0 .. m /\ n \in 0 .. m
      BY <2>2
    <3>2. QED
      BY <1>1, <3>1 DEF Walks
  <2>3. QED
    BY <2>1, <2>2
<1>3. QED
  BY <1>1, <1>2 DEF Walks, further

-----------------------------------------------------------------------------
(* Each way of changing the states makes them grow. *)

LEMMA EdgeGrows ==
  ASSUME NEW states, IsSequence(states), NEW c \in DOMAIN states, IsState(states[c]),
         NEW event, event \notin DOMAIN states[c].edges, NEW edge
  PROVE  LET wired == WithEdge(states, c, event, edge) IN
         /\ Grows(states, wired) /\ DOMAIN wired = DOMAIN states
         /\ event \in DOMAIN wired[c].edges /\ wired[c].edges[event] = edge
<1> DEFINE edges == [ev \in DOMAIN states[c].edges \cup {event} |->
                       IF ev = event THEN edge ELSE states[c].edges[ev]]
           state == [states[c] EXCEPT !.edges = edges]
           wired == [states EXCEPT ![c] = state]
<1>1. wired = WithEdge(states, c, event, edge)
  BY DEF WithEdge
<1>2. /\ \A ev \in DOMAIN states[c].edges :
           ev \in DOMAIN edges /\ edges[ev] = states[c].edges[ev]
      /\ event \in DOMAIN edges /\ edges[event] = edge
  OBVIOUS
<1> HIDE DEF edges
<1>3. state.edges = edges /\ state.timer = states[c].timer
  BY DEF IsState
<1> HIDE DEF state
<1>4. /\ DOMAIN wired = DOMAIN states
      /\ \A s \in DOMAIN states : wired[s] = IF s = c THEN state ELSE states[s]
  OBVIOUS
<1> HIDE DEF wired
<1>5. QED
  BY <1>1, <1>2, <1>3, <1>4 DEF Grows

LEMMA TimerGrows ==
  ASSUME NEW states, IsSequence(states), NEW c \in DOMAIN states, IsState(states[c]),
         states[c].timer = None, NEW t
  PROVE  LET timed == WithTimer(states, c, t) IN
         Grows(states, timed) /\ DOMAIN timed = DOMAIN states /\ timed[c].timer = t
<1> DEFINE state == [states[c] EXCEPT !.timer = t]
           timed == [states EXCEPT ![c] = state]
<1>1. timed = WithTimer(states, c, t)
  BY DEF WithTimer
<1>2. state.edges = states[c].edges /\ state.timer = t
  BY DEF IsState
<1> HIDE DEF state
<1>3. /\ DOMAIN timed = DOMAIN states
      /\ \A s \in DOMAIN states : timed[s] = IF s = c THEN state ELSE states[s]
  OBVIOUS
<1> HIDE DEF timed
<1>4. QED
  BY <1>1, <1>2, <1>3 DEF Grows

LEMMA StateGrows ==
  ASSUME NEW states, IsSequence(states), NEW state
  PROVE  LET grown == Append(states, state) IN
         Grows(states, grown) /\ Len(states) + 1 \in DOMAIN grown
<1> DEFINE grown == Append(states, state)
<1>1. /\ DOMAIN states = 1 .. Len(states) /\ DOMAIN grown = 1 .. Len(states) + 1
      /\ Len(states) \in Nat /\ \A s \in DOMAIN states : grown[s] = states[s]
  BY AppendElement, SequenceDomain
<1> HIDE DEF grown
<1>2. QED
  BY <1>1 DEF Grows, grown

\* The edge that AddEdge adds.
NewEdge(g, sq) ==
  LET event == sq.sequence[g.i].ev
      timer == Lookahead(sq.sequence, g.i)
      last  == g.i = Len(sq.sequence)
      echo  == IF sq.behavior = "release" THEN <<Basic(event)>> ELSE <<>>
  IN  Transition(IF timer = None THEN None ELSE timer.ms,
                 IF last THEN echo \o sq.binds ELSE echo,
                 IF last THEN HOME_STATE_IDX ELSE Len(g.states) + 1)

LEMMA AddEdgeGrows ==
  ASSUME NEW g, IsMachine(g), NEW sq, 
         LET event == sq.sequence[g.i].ev IN event \notin DOMAIN g.states[g.current].edges
  PROVE  LET h     == AddEdge(g, sq)
             event == sq.sequence[g.i].ev
         IN  /\ Grows(g.states, h.states)
             /\ event \in DOMAIN h.states[g.current].edges
             /\ h.states[g.current].edges[event] = NewEdge(g, sq)
             /\ h.current = NewEdge(g, sq).new_state /\ h.status = g.status
<1> DEFINE event == sq.sequence[g.i].ev
           edge  == NewEdge(g, sq)
           wired == WithEdge(g.states, g.current, event, edge)
           state == HalfTyped(sq, g.i)
           h     == AddEdge(g, sq)
<1>1. /\ IsSequence(g.states) /\ g.current \in DOMAIN g.states /\ IsState(g.states[g.current])
      /\ event \notin DOMAIN g.states[g.current].edges
  BY DEF IsMachine, Wired
<1>2. /\ Grows(g.states, wired) /\ DOMAIN wired = DOMAIN g.states
      /\ event \in DOMAIN wired[g.current].edges /\ wired[g.current].edges[event] = edge
  BY <1>1, EdgeGrows
<1>3. IsSequence(wired)
  BY <1>1, ReplaceElement DEF WithEdge
<1>4. Grows(wired, Append(wired, state))
  BY <1>3, StateGrows
<1>5. /\ h.states = IF g.i = Len(sq.sequence) THEN wired ELSE Append(wired, state)
      /\ h.current = edge.new_state /\ h.status = g.status
  <2>1. h = [g EXCEPT !.states  = IF g.i = Len(sq.sequence) THEN wired ELSE Append(wired, state),
                      !.meta    = h.meta,
                      !.current = edge.new_state]
    BY DEF AddEdge, WithEdge, NewEdge, Transition, IsMachine
  <2> HIDE DEF h, wired, state, edge
  <2>2. QED
    BY <2>1 DEF IsMachine
<1> HIDE DEF h, wired, edge, state, event
<1>6. CASE g.i = Len(sq.sequence)
  BY <1>2, <1>5, <1>6 DEF h, edge, event
<1>7. CASE g.i # Len(sq.sequence)
  <2>1. Grows(g.states, h.states)
    BY <1>2, <1>4, <1>5, <1>7, GrowsTwice
  <2>2. event \in DOMAIN h.states[g.current].edges /\ h.states[g.current].edges[event] = edge
    BY <1>1, <1>2, <1>4, <1>5, <1>7 DEF Grows
  <2>3. QED
    BY <1>5, <2>1, <2>2 DEF h, edge, event
<1>8. QED
  BY <1>6, <1>7

\* The wait after the trigger is the next step of the walk.
LEMMA AddTimerGrows ==
  ASSUME NoneIsNoTransition, NEW g, IsMachine(g), NEW sq
  PROVE  LET h     == AddTimer(g, sq)
             wait  == Lookahead(sq.sequence, g.i)
             final == g.i + 1 = Len(sq.sequence)
             taken == TakenIn(h.states, sq.sequence, g.i + 1, g.current)
         IN  /\ Grows(g.states, h.states) /\ h.status = g.status
             /\ wait = None => h.states = g.states /\ h.current = g.current
             /\ wait # None /\ ~final => taken # None /\ taken.new_state = h.current
<1> DEFINE wait  == Lookahead(sq.sequence, g.i)
           next  == g.states[g.current]
           h     == AddTimer(g, sq)
           taken == TakenIn(h.states, sq.sequence, g.i + 1, g.current)
<1>1. /\ IsSequence(g.states) /\ g.current \in DOMAIN g.states /\ IsState(next)
      /\ Len(g.states) \in Nat /\ DOMAIN g.states = 1 .. Len(g.states) /\ g.i \in Nat
  BY SequenceDomain DEF IsMachine, Wired
<1>2. Grows(g.states, g.states)
  BY DEF Grows
<1>3. CASE wait = None
  BY <1>2, <1>3 DEF AddTimer
<1>4. wait # None => /\ wait.kind \in {"min", "max"} /\ sq.sequence[g.i + 1] = wait
                     /\ Consumed(sq.sequence, g.i) = g.i + 1
  BY DEF Lookahead, IsWait, Consumed
<1>5. ASSUME next.timer = None, NEW t,
             h = [g EXCEPT !.states = WithTimer(@, g.current, t)]
      PROVE  /\ Grows(g.states, h.states) /\ h.status = g.status /\ h.current = g.current
             /\ h.states[g.current].timer = t
  <2> DEFINE timed == WithTimer(g.states, g.current, t)
  <2>1. Grows(g.states, timed) /\ timed[g.current].timer = t
    BY <1>1, <1>5, TimerGrows
  <2> HIDE DEF timed
  <2>2. h.states = timed /\ h.status = g.status /\ h.current = g.current
    <3> HIDE DEF h
    <3>1. QED
      BY <1>5 DEF IsMachine, timed
  <2>3. QED
    BY <2>1, <2>2
<1>6. CASE wait # None /\ wait.kind = "max"
  <2>1. h = TimeOut(g, sq)
    BY <1>6 DEF AddTimer
  <2>2. Grows(g.states, h.states) /\ h.status = g.status /\ h.current = g.current
    <3>1. CASE next.timer = None
      <4>1. h = [g EXCEPT !.states = WithTimer(@, g.current, next.fallback)]
        BY <2>1, <3>1 DEF TimeOut, WithTimer
      <4>2. QED
        BY <3>1, <4>1, <1>5
    <3>2. CASE next.timer # None
      <4>1. h = [g EXCEPT !.states[g.current].timer = next.timer]
        BY <2>1, <3>2 DEF TimeOut
      <4> DEFINE state == [next EXCEPT !.timer = next.timer]
      <4>2. state = next
        BY <1>1 DEF IsState
      <4>3. h = [g EXCEPT !.states = [g.states EXCEPT ![g.current] = state]]
        BY <4>1
      <4> HIDE DEF h, state
      <4>4. h.states = [g.states EXCEPT ![g.current] = state] /\ h.status = g.status
            /\ h.current = g.current
        BY <4>3 DEF IsMachine
      <4>5. DOMAIN h.states = DOMAIN g.states /\ \A s \in DOMAIN g.states : h.states[s] = g.states[s]
        BY <1>1, <4>2, <4>4
      <4>6. QED
        BY <4>4, <4>5 DEF Grows
    <3>3. QED
      BY <3>1, <3>2
  <2>3. taken = Transition(None, <<>>, g.current)
    BY <1>4, <1>6 DEF TakenIn
  <2>4. taken # None /\ taken.new_state = g.current
    BY <2>3 DEF NoneIsNoTransition, Transition
  <2> HIDE DEF h, taken
  <2>5. QED
    BY <1>6, <2>2, <2>4 DEF h, taken
<1>7. ASSUME wait # None, wait.kind = "min", h.states[g.current].timer # None
      PROVE  taken = h.states[g.current].timer
  BY <1>4, <1>7 DEF TakenIn
<1>8. CASE wait # None /\ wait.kind = "min" /\ next.timer # None
  <2>1. h = [g EXCEPT !.current = next.timer.new_state]
    BY <1>8 DEF AddTimer
  <2>2. h.states = g.states /\ h.status = g.status /\ h.current = next.timer.new_state
    <3> HIDE DEF h
    <3>1. QED
      BY <2>1 DEF IsMachine
  <2>3. taken = next.timer
    BY <1>7, <1>8, <2>2
  <2> HIDE DEF h, taken
  <2>4. QED
    BY <1>2, <1>8, <2>2, <2>3 DEF h, taken
<1>9. CASE wait # None /\ wait.kind = "min" /\ next.timer = None /\ Consumed(sq.sequence, g.i) = Len(sq.sequence)
  <2>1. h = HoldEnds(g, sq)
    BY <1>9 DEF AddTimer
  <2>2. Grows(g.states, h.states) /\ h.status = g.status
    BY <2>1, <1>5, <1>9 DEF HoldEnds, WithTimer
  <2>3. g.i + 1 = Len(sq.sequence)
    BY <1>4, <1>9
  <2> HIDE DEF h
  <2>4. QED
    BY <1>9, <2>2, <2>3 DEF h
<1>10. CASE wait # None /\ wait.kind = "min" /\ next.timer = None /\ Consumed(sq.sequence, g.i) # Len(sq.sequence)
  <2> DEFINE t     == Transition(None, <<>>, Len(g.states) + 1)
             timed == WithTimer(g.states, g.current, t)
             grown == Append(timed, UnfilledState)
  <2>1. h = HoldGoesOn(g, sq)
    BY <1>10 DEF AddTimer
  <2>2. h.states = grown /\ h.status = g.status /\ h.current = Len(g.states) + 1
    <3>1. h = [g EXCEPT !.states  = grown, !.meta = Append(@, Metadata(None, sq.behavior)),
                        !.current = Len(g.states) + 1]
      BY <2>1 DEF HoldGoesOn, WithTimer
    <3> HIDE DEF h, grown
    <3>2. QED
      BY <3>1 DEF IsMachine
  <2>3. Grows(g.states, timed) /\ timed[g.current].timer = t /\ DOMAIN timed = DOMAIN g.states
    BY <1>1, <1>10, TimerGrows
  <2>4. t # None /\ t.new_state = Len(g.states) + 1
    BY DEF NoneIsNoTransition, Transition
  <2>5. IsSequence(timed)
    BY <1>1, ReplaceElement DEF WithTimer
  <2> HIDE DEF t, timed
  <2>6. Grows(timed, grown)
    BY <2>5, StateGrows
  <2> HIDE DEF grown
  <2>7. Grows(g.states, grown) /\ grown[g.current].timer = t
    <3>1. Grows(g.states, grown)
      BY <2>3, <2>6, GrowsTwice
    <3>2. grown[g.current].timer = timed[g.current].timer
      BY <1>1, <2>3, <2>4, <2>6 DEF Grows
    <3>3. QED
      BY <2>3, <3>1, <3>2
  <2>8. taken = t
    BY <1>7, <1>10, <2>2, <2>4, <2>7
  <2> HIDE DEF h, taken
  <2>9. QED
    BY <1>10, <2>2, <2>4, <2>7, <2>8 DEF h, taken
<1>11. QED
  BY <1>3, <1>4, <1>6, <1>8, <1>9, <1>10

-----------------------------------------------------------------------------
(* One turn of the loop takes the walk one trigger further. *)

\* The two ways of taking an input: g is the machine before, e after.
InputTaken(g, e, sq) ==
  LET taken == TakenIn(e.states, sq.sequence, g.i, g.current) IN
  /\ Step(g, sq) = [AddTimer(e, sq) EXCEPT !.i = Consumed(sq.sequence, g.i) + 1]
  /\ IsMachine(e) /\ e.i = g.i /\ e.status = g.status
  /\ Grows(g.states, e.states)
  /\ taken # None /\ taken.new_state = e.current
  /\ g.i = Len(sq.sequence) => /\ e.current = HOME_STATE_IDX
                               /\ EndsWith(taken.outputs, sq.binds)

\* The sequence cannot go on from here.
Blocked(g, sq) ==
  LET trigger == sq.sequence[g.i] IN
  \/ IsWait(trigger)
  \/ trigger.ev \in DOMAIN g.states[g.current].edges /\ ~Shareable(g, sq)

\* A sequence that cannot go on leaves the states alone.
LEMMA BlockedStops ==
  ASSUME NEW g, IsMachine(g), NEW sq, Blocked(g, sq)
  PROVE  Step(g, sq).states = g.states /\ Step(g, sq).status # "building"
<1> DEFINE k == Step(g, sq)
<1>1. \/ k = [g EXCEPT !.status = "bad_optional_access"]
      \/ k = [g EXCEPT !.status = "rejected"]
  BY DEF Step, Blocked
<1> HIDE DEF k
<1>2. k.states = g.states /\ k.status # "building"
  BY <1>1 DEF IsMachine
<1>3. QED
  BY <1>2 DEF k

\* An input that is not refused is taken by an edge, an old one or a new one.
LEMMA InputIsTaken ==
  ASSUME NoneIsNoTransition, NEW g, IsMachine(g), ArmedBut(g.states, {}),
         NEW sq, sq.sequence \in Seq(Triggers), IsSequence(sq.binds),
         g.i \in 1 .. Len(sq.sequence), ~Blocked(g, sq)
  PROVE  \E e : /\ InputTaken(g, e, sq) /\ ArmedBut(e.states, Due(e, sq.sequence))
                /\ e.states[e.current].fallback.new_state = HOME_STATE_IDX
<1> DEFINE trigger == sq.sequence[g.i]
           shared  == trigger.ev \in DOMAIN g.states[g.current].edges
           target  == g.states[g.current].edges[trigger.ev].new_state
<1>1. /\ Wired(g.states) /\ g.current \in DOMAIN g.states /\ EdgesLead(g.states, g.current)
      /\ g.i \in Nat /\ g.i <= Len(sq.sequence)
  BY DEF IsMachine, Wired
<1>2. ~IsWait(trigger) /\ (shared => Shareable(g, sq))
  BY DEF Blocked
<1>3. trigger.kind = "input"
  <2>1. trigger \in Triggers
    <3> HIDE DEF Triggers
    <3>1. QED
      OBVIOUS
  <2>2. QED
    BY <1>2, <2>1 DEF Triggers, IsWait
<1>4. ASSUME NEW edge, IsTransition(edge)
      PROVE  edge # None
  BY <1>4 DEF IsTransition, NoneIsNoTransition
<1>5. ASSUME NEW states, trigger.ev \in DOMAIN states[g.current].edges
      PROVE  TakenIn(states, sq.sequence, g.i, g.current)
               = states[g.current].edges[trigger.ev]
  BY <1>3, <1>5 DEF TakenIn
<1>6. CASE shared
  <2> DEFINE e == [g EXCEPT !.current = target]
  <2>1. Step(g, sq) = [AddTimer(e, sq) EXCEPT !.i = Consumed(sq.sequence, g.i) + 1]
    BY <1>2, <1>6 DEF Step
  <2>2. /\ IsTransition(g.states[g.current].edges[trigger.ev])
        /\ Onward(g.states, g.current, target)
        /\ g.states[target].fallback.new_state = HOME_STATE_IDX
    BY <1>1, <1>6 DEF EdgesLead
  <2>3. target \in DOMAIN g.states
    <3> HIDE DEF target
    <3>1. QED
      BY <1>1, <2>2, OnwardIsState
  <2>4. TakenIn(g.states, sq.sequence, g.i, g.current) = g.states[g.current].edges[trigger.ev]
    BY <1>5, <1>6
  <2>5. TakenIn(g.states, sq.sequence, g.i, g.current) # None
        /\ TakenIn(g.states, sq.sequence, g.i, g.current).new_state = target
    BY <1>4, <2>2, <2>4
  <2>6. g.i < Len(sq.sequence)
    BY <1>2, <1>6 DEF Shareable
  <2> HIDE DEF target
  <2>7. /\ e.states = g.states /\ e.current = target /\ e.i = g.i /\ e.status = g.status
        /\ IsMachine(e)
    BY <2>3 DEF IsMachine
  <2>8. Grows(g.states, e.states)
    BY <2>7 DEF Grows
  <2> HIDE DEF e
  <2>9. ArmedBut(e.states, Due(e, sq.sequence))
    BY <2>7 DEF ArmedBut
  <2>10. InputTaken(g, e, sq)
    <3>1. g.i # Len(sq.sequence)
      BY <1>1, <2>6
    <3>2. QED
      BY <2>1, <2>5, <2>7, <2>8, <3>1 DEF InputTaken
  <2>11. QED
    BY <2>2, <2>7, <2>9, <2>10
<1>7. CASE ~shared
  <2> DEFINE e     == AddEdge(g, sq)
             edge  == NewEdge(g, sq)
  <2>1. Step(g, sq) = [AddTimer(e, sq) EXCEPT !.i = Consumed(sq.sequence, g.i) + 1]
    BY <1>2, <1>7 DEF Step
  <2>2. /\ IsMachine(e) /\ e.i = g.i /\ ArmedBut(e.states, Due(e, sq.sequence))
        /\ e.states[e.current].fallback.new_state = HOME_STATE_IDX
    BY <1>1, AddEdgeKeeps
  <2>3. /\ Grows(g.states, e.states)
        /\ trigger.ev \in DOMAIN e.states[g.current].edges
        /\ e.states[g.current].edges[trigger.ev] = edge
        /\ e.current = edge.new_state /\ e.status = g.status
    BY <1>7, AddEdgeGrows
  <2>4. edge # None
    BY DEF NewEdge, NoneIsNoTransition
  <2>5. TakenIn(e.states, sq.sequence, g.i, g.current) = edge
    BY <1>5, <2>3
  <2>6. ASSUME g.i = Len(sq.sequence)
        PROVE  edge.new_state = HOME_STATE_IDX /\ EndsWith(edge.outputs, sq.binds)
    <3> DEFINE echo == IF sq.behavior = "release" THEN <<Basic(trigger.ev)>> ELSE <<>>
               S    == {sq.binds[j] : j \in DOMAIN sq.binds} \cup {Basic(trigger.ev)}
    <3>1. edge.new_state = HOME_STATE_IDX /\ edge.outputs = echo \o sq.binds
      BY <2>6 DEF NewEdge, Transition
    <3>2. sq.binds \in Seq(S) /\ Basic(trigger.ev) \in S
      BY DEF IsSequence
    <3> HIDE DEF S
    <3>3. echo \in Seq(S)
      BY <3>2
    <3> HIDE DEF echo
    <3>4. EndsWith(echo \o sq.binds, sq.binds)
      BY <3>2, <3>3, SuffixOfConcat
    <3>5. QED
      BY <3>1, <3>4
  <2> HIDE DEF e, edge
  <2>7. InputTaken(g, e, sq)
    BY <2>1, <2>2, <2>3, <2>4, <2>5, <2>6 DEF InputTaken
  <2>8. QED
    BY <2>2, <2>7
<1>8. QED
  BY <1>6, <1>7

\* How far the sequence being walked has come.
WalkedTo(states, triggers, m, s) ==
  \E walk : Walks(states, triggers, walk, m) /\ walk[m] = s

Walked(g, sq) ==
  /\ g.i >= 1
  /\ g.i <= Len(sq.sequence) => WalkedTo(g.states, sq.sequence, g.i - 1, g.current)
  /\ g.i > Len(sq.sequence) /\ ~EndsInWait(sq) => Typable(g.states, sq)

\* A walk in the old machine goes on in the new one.
LEMMA OneFurther ==
  ASSUME NEW old, NEW new, Grows(old, new), NEW triggers, NEW m \in Nat, NEW s,
         WalkedTo(old, triggers, m, s),
         TakenIn(new, triggers, m + 1, s) # None,
         TakenIn(new, triggers, m + 1, s).new_state \in DOMAIN new
  PROVE  \E walk : /\ Walks(new, triggers, walk, m + 1) /\ walk[m] = s
                   /\ walk[m + 1] = TakenIn(new, triggers, m + 1, s).new_state
<1>1. PICK walk : Walks(old, triggers, walk, m) /\ walk[m] = s
  BY DEF WalkedTo
<1>2. Walks(new, triggers, walk, m)
  BY <1>1, WalksGrow
<1> DEFINE to      == TakenIn(new, triggers, m + 1, s).new_state
           further == [n \in 0 .. m + 1 |->
                         IF n = m + 1 THEN TakenIn(new, triggers, m + 1, walk[m]).new_state
                                      ELSE walk[n]]
<1>3. /\ Walks(new, triggers, further, m + 1) /\ further[m] = walk[m]
      /\ further[m + 1] = TakenIn(new, triggers, m + 1, walk[m]).new_state
  BY <1>1, <1>2, WalkGoesOn
<1> HIDE DEF further
<1>4. QED
  BY <1>1, <1>3

\* One turn of the loop: the walk grows by its input and the wait after it.
LEMMA StepWalks ==
  ASSUME NoneIsNoTransition, NEW g, IsMachine(g), ArmedBut(g.states, {}),
         NEW sq, sq.sequence \in Seq(Triggers), IsSequence(sq.binds),
         g.i \in 1 .. Len(sq.sequence),
         WalkedTo(g.states, sq.sequence, g.i - 1, g.current)
  PROVE  LET k == Step(g, sq) IN
         Grows(g.states, k.states) /\ (k.status = "building" => Walked(k, sq))
<1> DEFINE k == Step(g, sq)
           n == Len(sq.sequence)
           wait == Lookahead(sq.sequence, g.i)
<1>1. CASE Blocked(g, sq)
  <2>1. k.states = g.states /\ k.status # "building"
    BY <1>1, BlockedStops
  <2> HIDE DEF k
  <2>2. QED
    BY <2>1 DEF Grows, k
<1>2. CASE ~Blocked(g, sq)
  <2>1. PICK e : /\ InputTaken(g, e, sq) /\ ArmedBut(e.states, Due(e, sq.sequence))
                 /\ e.states[e.current].fallback.new_state = HOME_STATE_IDX
    BY <1>2, InputIsTaken
  <2> DEFINE h     == AddTimer(e, sq)
             taken == TakenIn(e.states, sq.sequence, g.i, g.current)
             next  == TakenIn(h.states, sq.sequence, g.i + 1, e.current)
  <2>2. /\ k = [h EXCEPT !.i = Consumed(sq.sequence, g.i) + 1]
        /\ IsMachine(e) /\ e.i = g.i /\ Grows(g.states, e.states)
        /\ taken # None /\ taken.new_state = e.current
        /\ g.i = n => e.current = HOME_STATE_IDX /\ EndsWith(taken.outputs, sq.binds)
    BY <2>1 DEF InputTaken
  <2>3. IsMachine(h) /\ h.i = g.i
    BY <2>1, <2>2, AddTimerKeeps
  <2>4. /\ Grows(e.states, h.states)
        /\ wait = None => h.states = e.states /\ h.current = e.current
        /\ wait # None /\ g.i + 1 # n => next # None /\ next.new_state = h.current
    <3>1. /\ Grows(e.states, h.states)
          /\ Lookahead(sq.sequence, e.i) = None => h.states = e.states /\ h.current = e.current
          /\ Lookahead(sq.sequence, e.i) # None /\ e.i + 1 # Len(sq.sequence) =>
               LET t == TakenIn(h.states, sq.sequence, e.i + 1, e.current) IN
               t # None /\ t.new_state = h.current
      <4>1. IsMachine(e)
        BY <2>2
      <4>2. QED
        BY <4>1, AddTimerGrows
    <3>2. e.i = g.i
      BY <2>2
    <3> HIDE DEF h
    <3>3. QED
      BY <3>1, <3>2
  <2>5. e.current \in DOMAIN e.states /\ h.current \in DOMAIN h.states
    BY <2>2, <2>3 DEF IsMachine
  <2> HIDE DEF h
  <2> DEFINE last == Consumed(sq.sequence, g.i) + 1
  <2>6. k.states = h.states /\ k.current = h.current /\ k.i = Consumed(sq.sequence, g.i) + 1
    <3> HIDE DEF k
    <3>1. k = [h EXCEPT !.i = last]
      BY <2>2
    <3> HIDE DEF last
    <3>2. k.states = h.states /\ k.current = h.current /\ k.i = last
      BY <2>3, <3>1 DEF IsMachine
    <3>3. QED
      BY <3>2 DEF last
  <2> HIDE DEF k, taken, next
  <2>7. Grows(g.states, k.states)
    BY <2>2, <2>4, <2>6, GrowsTwice
  <2>8. PICK walk : /\ Walks(e.states, sq.sequence, walk, g.i) /\ walk[g.i - 1] = g.current
                    /\ walk[g.i] = e.current
    <3> DEFINE m == g.i - 1
    <3>1. m \in Nat /\ m + 1 = g.i
      OBVIOUS
    <3> HIDE DEF m
    <3>2. WalkedTo(g.states, sq.sequence, m, g.current)
      BY DEF m
    <3>3. /\ TakenIn(e.states, sq.sequence, m + 1, g.current) # None
          /\ TakenIn(e.states, sq.sequence, m + 1, g.current).new_state \in DOMAIN e.states
      BY <2>2, <2>5, <3>1 DEF taken
    <3>4. \E walk : /\ Walks(e.states, sq.sequence, walk, m + 1) /\ walk[m] = g.current
                    /\ walk[m + 1] = TakenIn(e.states, sq.sequence, m + 1, g.current).new_state
      BY <2>2, <3>1, <3>2, <3>3, OneFurther
    <3>5. QED
      BY <2>2, <3>1, <3>4 DEF m, taken
  <2>9. CASE wait = None
    <3>1. k.i = g.i + 1 /\ k.states = e.states /\ k.current = e.current
      BY <2>4, <2>6, <2>9 DEF Consumed
    <3>2. WalkedTo(k.states, sq.sequence, k.i - 1, k.current)
      <4>1. k.i - 1 = g.i
        BY <3>1
      <4>2. QED
        BY <2>8, <3>1, <4>1 DEF WalkedTo
    <3>3. g.i = n => Typable(k.states, sq)
      BY <2>2, <2>8, <3>1 DEF Typable, taken
    <3>4. QED
      BY <2>7, <3>1, <3>2, <3>3 DEF Walked, k
  <2>10. CASE wait # None
    <3>1. /\ g.i < n /\ IsWait(sq.sequence[g.i + 1]) /\ k.i = g.i + 2
      BY <2>6, <2>10 DEF Lookahead, Consumed
    <3>2. CASE g.i + 1 = n
      <4>1. EndsInWait(sq) /\ k.i > n
        BY <3>1, <3>2 DEF EndsInWait
      <4>2. QED
        BY <2>7, <3>1, <4>1 DEF Walked, k
    <3>3. CASE g.i + 1 # n
      <4>1. next # None /\ next.new_state = h.current
        BY <2>4, <2>10, <3>3
      <4>2. WalkedTo(e.states, sq.sequence, g.i, e.current)
        BY <2>8 DEF WalkedTo
      <4>3. g.i \in Nat
        OBVIOUS
      <4>4. \E w : Walks(h.states, sq.sequence, w, g.i + 1) /\ w[g.i] = e.current
                   /\ w[g.i + 1] = next.new_state
        BY <2>4, <2>5, <4>1, <4>2, <4>3, OneFurther DEF next
      <4>5. k.i - 1 = g.i + 1 /\ k.i <= n
        BY <3>1, <3>3
      <4>6. WalkedTo(k.states, sq.sequence, k.i - 1, k.current)
        BY <2>6, <4>1, <4>4, <4>5 DEF WalkedTo
      <4>7. QED
        BY <2>7, <3>1, <4>5, <4>6 DEF Walked, k
    <3>4. QED
      BY <3>2, <3>3
  <2>11. QED
    BY <2>9, <2>10
<1>3. QED
  BY <1>1, <1>2

\* What a layer holds: at least one trigger.
IsRemapping(sq) ==
  sq.sequence \in Seq(Triggers) /\ Len(sq.sequence) >= 1 /\ IsSequence(sq.binds)

WalkInv ==
  /\ GenInv
  /\ IsSequence(done)
  /\ \A k \in DOMAIN done :
       IsRemapping(done[k]) /\ (~EndsInWait(done[k]) => Typable(gen.states, done[k]))
  /\ seq # None => IsRemapping(seq) /\ (gen.status = "building" => Walked(gen, seq))

\* What Reached computes, by its recursive equation.
LEMMA ReachedIs ==
  ASSUME NEW sq, Wired(gen.states), Len(sq.sequence) \in Nat,
         NEW walk, Walks(gen.states, sq.sequence, walk, Len(sq.sequence))
  PROVE  \A n \in 0 .. Len(sq.sequence) : Reached(sq)[n] = walk[n]
<1> DEFINE N == Len(sq.sequence)
           go(f, n) == IF n = 0 THEN HOME_STATE_IDX
                       ELSE IF f[n - 1] = 0 THEN 0
                       ELSE LET t == Taken(sq, n, f[n - 1])
                            IN  IF t = None THEN 0 ELSE t.new_state
           R == Reached(sq)
<1>1. \A s : s \in DOMAIN gen.states => s # 0
  BY SequenceDomain DEF Wired
<1>2. \A n, s : Taken(sq, n, s) = TakenIn(gen.states, sq.sequence, n, s)
  BY DEF Taken, TakenIn
<1>3. ASSUME NEW n \in 1 .. N
      PROVE  /\ walk[n - 1] # 0 /\ Taken(sq, n, walk[n - 1]) # None
             /\ Taken(sq, n, walk[n - 1]).new_state = walk[n]
  <2>1. n - 1 \in 0 .. N
    OBVIOUS
  <2>2. walk[n - 1] # 0
    BY <1>1, <2>1 DEF Walks
  <2>3. QED
    BY <1>2, <2>2 DEF Walks
<1>4. walk[0] = HOME_STATE_IDX /\ walk \in [0 .. N -> DOMAIN gen.states]
  BY DEF Walks
<1>5. \A n \in 0 .. N : walk[n] = go(walk, n)
  <2> SUFFICES ASSUME NEW n \in 0 .. N PROVE walk[n] = go(walk, n)
    OBVIOUS
  <2>1. CASE n = 0
    BY <1>4, <2>1
  <2>2. CASE n # 0
    <3>1. n \in 1 .. N
      BY <2>2
    <3>2. QED
      BY <1>3, <2>2, <3>1
  <2>3. QED
    BY <2>1, <2>2
<1>6. walk = [n \in 0 .. N |-> go(walk, n)]
  <2> HIDE DEF go
  <2>1. walk = [n \in 0 .. N |-> walk[n]]
    BY <1>4
  <2>2. QED
    BY <2>1, <1>5
<1>7. R = [n \in 0 .. N |-> go(R, n)]
  BY <1>6, Zenon DEF Reached
<1>8. \A n \in 0 .. N : R[n] = go(R, n)
  <2> HIDE DEF R, go
  <2>1. QED
    BY <1>7
<1> DEFINE S == {n \in 0 .. N : R[n] = walk[n]}
<1>9. 0 \in S
  <2>1. R[0] = go(R, 0) /\ 0 \in 0 .. N
    BY <1>8
  <2> HIDE DEF R
  <2>2. QED
    BY <2>1, <1>4
<1>10. ASSUME NEW n \in 1 .. N, n - 1 \in S
       PROVE  n \in S
  <2>1. n \in 0 .. N /\ n # 0
    OBVIOUS
  <2>2. R[n] = go(R, n)
    BY <1>8, <2>1
  <2> HIDE DEF R
  <2>3. R[n - 1] = walk[n - 1]
    BY <1>10
  <2>4. QED
    BY <1>3, <2>1, <2>2, <2>3
<1>11. \A n \in 0 .. N : n \in S
  <2>1. N \in Nat
    OBVIOUS
  <2> HIDE DEF S, N
  <2>2. QED
    BY <1>9, <1>10, <2>1, UpTo
<1>12. QED
  BY <1>11

\* A walk through the whole sequence is what Fires asks for.
LEMMA TypableFires ==
  ASSUME NEW sq, Wired(gen.states), Len(sq.sequence) \in Nat \ {0}, Typable(gen.states, sq)
  PROVE  Fires(sq)
<1> DEFINE N == Len(sq.sequence)
<1>1. PICK walk : /\ Walks(gen.states, sq.sequence, walk, N) /\ walk[N] = HOME_STATE_IDX
                  /\ EndsWith(TakenIn(gen.states, sq.sequence, N, walk[N - 1]).outputs, sq.binds)
  BY DEF Typable
<1>2. Reached(sq)[N - 1] = walk[N - 1]
  BY <1>1, ReachedIs
<1>3. walk[N - 1] \in DOMAIN gen.states /\ walk[N - 1] # 0
  <2>1. walk[N - 1] \in DOMAIN gen.states
    BY <1>1 DEF Walks
  <2>2. QED
    BY <2>1, SequenceDomain DEF Wired
<1>4. Taken(sq, N, walk[N - 1]) = TakenIn(gen.states, sq.sequence, N, walk[N - 1])
  BY DEF Taken, TakenIn
<1>5. TakenIn(gen.states, sq.sequence, N, walk[N - 1]) # None
      /\ TakenIn(gen.states, sq.sequence, N, walk[N - 1]).new_state = HOME_STATE_IDX
  <2>1. N \in 1 .. N
    OBVIOUS
  <2> HIDE DEF N
  <2>2. QED
    BY <1>1, <2>1 DEF Walks
<1> DEFINE last == TakenIn(gen.states, sq.sequence, N, walk[N - 1])
<1>6. Fires(sq) = /\ last # None /\ last.new_state = HOME_STATE_IDX
                  /\ \E k \in 0 .. Len(last.outputs) :
                       SubSeq(last.outputs, k + 1, Len(last.outputs)) = sq.binds
  BY <1>2, <1>3, <1>4 DEF Fires
<1>7. QED
  BY <1>1, <1>5, <1>6 DEF EndsWith

\* Through every step, all sequences wired so far can be typed.
LEMMA WalkInvariant == ASSUME NoneIsNoTransition
                       PROVE  Spec => []WalkInv
<1>1. Init /\ GenInv => WalkInv
  <2> SUFFICES ASSUME Init, GenInv PROVE WalkInv
    OBVIOUS
  <2>1. done \in Seq({}) /\ DOMAIN done = {} /\ seq = None
    BY DEF Init
  <2>2. QED
    BY <2>1, SequenceOfSet DEF WalkInv
<1>2. WalkInv /\ GenInv' /\ [Next]_vars => WalkInv'
  <2> SUFFICES ASSUME WalkInv, GenInv', [Next]_vars PROVE WalkInv'
    OBVIOUS
  <2>1. ASSUME Grows(gen.states, gen'.states), NEW k \in DOMAIN done
        PROVE  IsRemapping(done[k]) /\ (~EndsInWait(done[k]) => Typable(gen'.states, done[k]))
    <3>1. IsRemapping(done[k]) /\ Len(done[k].sequence) \in Nat \ {0}
      BY DEF WalkInv, IsRemapping
    <3>2. QED
      BY <2>1, <3>1, TypableGrows DEF WalkInv
  <2>2. ASSUME gen'.states = gen.states
        PROVE  Grows(gen.states, gen'.states)
    BY <2>2 DEF Grows
  <2>3. CASE BeginSequence
    <3>1. PICK n \in 1 .. MaxTriggers, b \in Behaviors :
            \E triggers \in [1 .. n -> Triggers] :
              seq' = [behavior |-> b, sequence |-> triggers, binds |-> BindsOf[Len(done) + 1]]
      BY <2>3 DEF BeginSequence
    <3>2. PICK triggers \in [1 .. n -> Triggers] :
            seq' = [behavior |-> b, sequence |-> triggers, binds |-> BindsOf[Len(done) + 1]]
      BY <3>1
    <3>3. seq'.sequence = triggers /\ seq'.binds = BindsOf[Len(done) + 1]
      BY <3>2
    <3>4. triggers \in Seq(Triggers) /\ Len(triggers) >= 1
      <4>1. n \in Nat /\ n >= 1
        BY BoundsAssumption
      <4> HIDE DEF Triggers
      <4>2. QED
        BY <4>1
    <3>5. IsSequence(BindsOf[Len(done) + 1])
      <4>1. Len(done) + 1 \in 1 .. Len(MaxInAll)
        BY <2>3, SequenceDomain, BoundsAssumption DEF BeginSequence, WalkInv
      <4>2. BindsOf[Len(done) + 1] \in Seq(Range(BindsOf[Len(done) + 1]))
        BY <4>1, BindsAssumption
      <4>3. QED
        BY <4>2, SequenceOfSet
    <3>6. IsRemapping(seq')
      BY <3>3, <3>4, <3>5 DEF IsRemapping
    <3>7. gen'.states = gen.states /\ gen'.current = HOME_STATE_IDX /\ gen'.i = 1
      BY <2>3 DEF BeginSequence, StartSequence, WalkInv, GenInv, IsMachine
    <3>8. Walked(gen', seq')
      <4> DEFINE walk == [m \in 0 .. 0 |-> HOME_STATE_IDX]
      <4>1. HOME_STATE_IDX \in DOMAIN gen.states
        BY SequenceDomain DEF WalkInv, GenInv, IsMachine, Wired, HOME_STATE_IDX
      <4>2. Walks(gen.states, triggers, walk, 0) /\ walk[0] = HOME_STATE_IDX
        BY <4>1 DEF Walks
      <4>3. WalkedTo(gen.states, triggers, 0, HOME_STATE_IDX)
        <5> HIDE DEF walk
        <5>1. QED
          BY <4>2 DEF WalkedTo
      <4>4. gen'.i - 1 = 0 /\ ~(gen'.i > Len(triggers)) /\ gen'.i >= 1
        BY <3>4, <3>7
      <4>5. QED
        BY <3>3, <3>7, <4>3, <4>4 DEF Walked
    <3>9. QED
      BY <2>1, <2>2, <2>3, <3>6, <3>7, <3>8 DEF BeginSequence, WalkInv
  <2>4. CASE ConsumeTrigger
    <3>1. /\ IsMachine(gen) /\ ArmedBut(gen.states, {}) /\ IsRemapping(seq)
          /\ Walked(gen, seq) /\ gen.i \in Nat /\ gen.i <= Len(seq.sequence)
          /\ gen' = Step(gen, seq) /\ seq # None
      BY <2>4 DEF ConsumeTrigger, WalkInv, GenInv, IsMachine
    <3>2. gen.i \in 1 .. Len(seq.sequence)
      BY <3>1 DEF Walked, IsRemapping
    <3>3. Grows(gen.states, gen'.states) /\ (gen'.status = "building" => Walked(gen', seq))
      BY <3>1, <3>2, StepWalks DEF Walked, IsRemapping
    <3>4. QED
      BY <2>1, <2>4, <3>1, <3>3 DEF ConsumeTrigger, WalkInv
  <2>5. CASE ThrowOutOfRange
    <3>1. gen'.states = gen.states /\ gen'.status # "building"
      BY <2>5 DEF ThrowOutOfRange, WalkInv, GenInv, IsMachine
    <3>2. QED
      BY <2>1, <2>2, <2>5, <3>1 DEF ThrowOutOfRange, WalkInv
  <2>6. CASE EndSequence
    <3>1. /\ IsRemapping(seq) /\ (~EndsInWait(seq) => Typable(gen.states, seq))
          /\ done' = Append(done, seq) /\ seq' = None /\ gen' = gen
      BY <2>6 DEF EndSequence, WalkInv, Walked
    <3>2. /\ IsSequence(done') /\ DOMAIN done' = 1 .. Len(done) + 1
          /\ DOMAIN done = 1 .. Len(done) /\ Len(done) \in Nat
          /\ \A k \in DOMAIN done : done'[k] = done[k]
          /\ done'[Len(done) + 1] = seq
      BY <3>1, AppendElement, SequenceDomain DEF WalkInv
    <3>3. \A k \in DOMAIN done' : k \in DOMAIN done \/ k = Len(done) + 1
      BY <3>2
    <3>4. QED
      BY <3>1, <3>2, <3>3 DEF WalkInv
  <2>7. CASE Return
    <3>1. gen'.states = gen.states /\ gen'.status # "building"
      BY <2>7 DEF Return, WalkInv, GenInv, IsMachine
    <3>2. QED
      BY <2>1, <2>2, <2>7, <3>1 DEF Return, WalkInv
  <2>8. CASE UNCHANGED vars
    BY <2>8 DEF vars, WalkInv
  <2>9. QED
    BY <2>3, <2>4, <2>5, <2>6, <2>7, <2>8 DEF Next
<1>3. QED
  BY <1>1, <1>2, GeneratorInvariant, PTL DEF Spec

(***************************************************************************)
(* Every accepted sequence that ends in an input can be typed from home to *)
(* its binds, whatever sequences were accepted before and after it.        *)
(***************************************************************************)
THEOREM GeneratorWiresAll == ASSUME NoneIsNoTransition
                             PROVE  Spec => []EverySequenceWired
<1>1. WalkInv => EverySequenceWired
  <2> SUFFICES ASSUME WalkInv, NEW k \in DOMAIN done, ~EndsInWait(done[k])
               PROVE  Fires(done[k])
    BY DEF EverySequenceWired
  <2>1. Len(done[k].sequence) \in Nat \ {0} /\ Wired(gen.states) /\ Typable(gen.states, done[k])
    BY DEF WalkInv, IsRemapping, GenInv, IsMachine
  <2>2. QED
    BY <2>1, TypableFires
<1>2. QED
  BY <1>1, WalkInvariant, PTL

-----------------------------------------------------------------------------
(* What an abandoned sequence gives back. *)

\* The first m inputs of a sequence without waits.
Inputs(sq, m) == [j \in 1 .. m |-> sq.sequence[j].ev]

NoWaits(sq) == \A n \in DOMAIN sq.sequence : ~IsWait(sq.sequence[n])

\* One input more.
LEMMA InputsGrow ==
  ASSUME NEW sq, sq.sequence \in Seq(Triggers), NoWaits(sq),
         NEW m \in 0 .. Len(sq.sequence)
  PROVE  /\ Inputs(sq, m) \in Seq(InputEvents) /\ Len(Inputs(sq, m)) = m
         /\ m < Len(sq.sequence) =>
              Inputs(sq, m + 1) = Append(Inputs(sq, m), sq.sequence[m + 1].ev)
<1>1. ASSUME NEW j \in 1 .. Len(sq.sequence)
      PROVE  sq.sequence[j].ev \in InputEvents
  <2>1. sq.sequence[j] \in Triggers /\ ~IsWait(sq.sequence[j])
    <3> HIDE DEF Triggers
    <3>1. QED
      BY DEF NoWaits
  <2>2. QED
    BY <2>1 DEF Triggers, IsWait
<1> HIDE DEF Triggers
<1>2. Len(sq.sequence) \in Nat
  OBVIOUS
<1> DEFINE p(k) == [j \in 1 .. k |-> sq.sequence[j].ev]
<1>3. \A k \in 0 .. Len(sq.sequence) : p(k) \in Seq(InputEvents) /\ Len(p(k)) = k
  BY <1>1, <1>2
<1>4. ASSUME m < Len(sq.sequence)
      PROVE  p(m + 1) = Append(p(m), sq.sequence[m + 1].ev)
  <2> DEFINE last == sq.sequence[m + 1].ev
             q    == Append(p(m), last)
  <2>1. m \in Nat /\ m + 1 \in 0 .. Len(sq.sequence) /\ m + 1 \in 1 .. Len(sq.sequence)
    BY <1>2, <1>4
  <2>2. p(m) \in Seq(InputEvents) /\ Len(p(m)) = m /\ last \in InputEvents
        /\ p(m + 1) \in Seq(InputEvents) /\ Len(p(m + 1)) = m + 1
        /\ \A j \in 1 .. m : p(m)[j] = sq.sequence[j].ev
    BY <1>1, <1>3, <2>1
  <2>3. \A j \in 1 .. m + 1 : p(m + 1)[j] = sq.sequence[j].ev
    OBVIOUS
  <2> HIDE DEF p
  <2>4. q \in Seq(InputEvents) /\ Len(q) = m + 1 /\ q[m + 1] = last
        /\ \A j \in 1 .. m : q[j] = p(m)[j]
    BY <2>2
  <2>5. \A j \in 1 .. m + 1 : q[j] = p(m + 1)[j]
    BY <2>1, <2>2, <2>3, <2>4
  <2> HIDE DEF q
  <2>6. q = p(m + 1)
    BY <2>2, <2>4, <2>5, SeqEqual
  <2>7. QED
    BY <2>6 DEF q
<1>5. QED
  BY <1>3, <1>4 DEF Inputs

\* The loop that fills a fallback, without waits.
LEMMA GivenIs ==
  ASSUME NEW sq, NEW n \in Nat, \A j \in 1 .. n : ~IsWait(sq.sequence[j])
  PROVE  Given(sq.sequence, n)
           = [j \in 1 .. n |-> IF j = 1 THEN Basic(sq.sequence[j].ev)
                                        ELSE Process(sq.sequence[j].ev)]
<1> DEFINE s       == sq.sequence
           item(j) == IF j = 1 THEN Basic(s[j].ev) ELSE Process(s[j].ev)
           go(f, m) == IF m = 0 THEN <<>>
                       ELSE IF IsWait(s[m]) THEN f[m - 1]
                       ELSE Append(f[m - 1], item(m))
           w       == [m \in 0 .. n |-> [j \in 1 .. m |-> item(j)]]
<1>1. ASSUME NEW m \in 0 .. n
      PROVE  w[m] = go(w, m)
  <2>1. CASE m = 0
    <3>1. w[m] = [j \in 1 .. 0 |-> item(j)]
      BY <2>1
    <3> HIDE DEF item, w
    <3>2. w[m] = <<>>
      BY <3>1
    <3>3. QED
      BY <2>1, <3>2
  <2>2. CASE m # 0
    <3> DEFINE S == {item(j) : j \in 1 .. n}
               k == m - 1
    <3>1. m \in 1 .. n /\ k \in 0 .. n /\ k \in Nat /\ m = k + 1
      BY <2>2
    <3> HIDE DEF k
    <3>2. w[k] = [j \in 1 .. k |-> item(j)] /\ w[m] = [j \in 1 .. k + 1 |-> item(j)]
      BY <3>1
    <3>3. \A j \in 1 .. k + 1 : item(j) \in S
      BY <3>1
    <3> HIDE DEF S, w, item
    <3> DEFINE a == [j \in 1 .. k |-> item(j)]
               b == [j \in 1 .. k + 1 |-> item(j)]
    <3>4. a \in Seq(S) /\ Len(a) = k /\ b \in Seq(S) /\ Len(b) = k + 1
          /\ item(k + 1) \in S
      BY <3>1, <3>3
    <3>5. (\A j \in 1 .. k : a[j] = item(j)) /\ (\A j \in 1 .. k + 1 : b[j] = item(j))
      OBVIOUS
    <3> HIDE DEF a, b
    <3> DEFINE c == Append(a, item(k + 1))
    <3>6. c \in Seq(S) /\ Len(c) = k + 1 /\ c[k + 1] = item(k + 1)
          /\ \A j \in 1 .. k : c[j] = a[j]
      BY <3>1, <3>4
    <3>7. \A j \in 1 .. k + 1 : c[j] = b[j]
      BY <3>1, <3>5, <3>6
    <3> HIDE DEF c
    <3>8. c = b
      BY <3>4, <3>6, <3>7, SeqEqual
    <3>9. w[m] = Append(w[m - 1], item(m))
      BY <3>1, <3>2, <3>8 DEF a, b, c, k
    <3>10. QED
      BY <2>2, <3>1, <3>9
  <2>3. QED
    BY <2>1, <2>2
<1>2. w = [m \in 0 .. n |-> go(w, m)]
  <2> HIDE DEF go
  <2>1. w = [m \in 0 .. n |-> w[m]]
    OBVIOUS
  <2> HIDE DEF w
  <2>2. QED
    BY <1>1, <2>1
<1> DEFINE R == CHOOSE f : f = [m \in 0 .. n |-> go(f, m)]
<1>3. R = [m \in 0 .. n |-> go(R, m)]
  <2> HIDE DEF w, go
  <2>1. QED
    BY <1>2, Zenon
<1>4. Given(s, n) = R[n]
  BY Zenon DEF Given
<1> DEFINE T == {m \in 0 .. n : R[m] = w[m]}
<1>5. \A m \in 0 .. n : R[m] = go(R, m)
  <2> HIDE DEF R, go
  <2>1. QED
    BY <1>3
<1> HIDE DEF R, w
<1>6. 0 \in T
  <2>1. R[0] = go(R, 0) /\ w[0] = go(w, 0) /\ 0 \in 0 .. n
    BY <1>1, <1>5
  <2>2. QED
    BY <2>1
<1>7. ASSUME NEW m \in 1 .. n, m - 1 \in T
      PROVE  m \in T
  <2>1. R[m] = go(R, m) /\ w[m] = go(w, m) /\ m \in 0 .. n /\ m # 0
    BY <1>1, <1>5
  <2>2. QED
    BY <2>1, <1>7
<1>8. \A m \in 0 .. n : m \in T
  <2> HIDE DEF T
  <2>1. QED
    BY <1>6, <1>7, UpTo
<1>9. R[n] = w[n]
  BY <1>8
<1>10. QED
  BY <1>4, <1>9 DEF w

\* What Replayed takes from a state.
GivenBack(state) ==
  LET outs == state.fallback.outputs
  IN  [j \in 1 .. Len(outs) - 1 |-> outs[j].ev]

\* The fallback of a state created for the i-th input gives back i inputs.
LEMMA FallbackGivesBack ==
  ASSUME NEW sq, sq.sequence \in Seq(Triggers), NoWaits(sq), sq.behavior = "default",
         NEW i \in 1 .. Len(sq.sequence)
  PROVE  GivenBack(HalfTyped(sq, i)) = Inputs(sq, i)
<1> DEFINE item(j) == IF j = 1 THEN Basic(sq.sequence[j].ev) ELSE Process(sq.sequence[j].ev)
           given == [j \in 1 .. i |-> item(j)]
           outs  == given \o <<Basic(None)>>
<1> HIDE DEF Triggers
<1>1. i \in Nat /\ \A j \in 1 .. i : ~IsWait(sq.sequence[j])
  BY DEF NoWaits
<1>2. Consumed(sq.sequence, i) = i
  BY DEF Consumed, Lookahead, NoWaits
<1>3. Given(sq.sequence, i) = given
  BY <1>1, GivenIs
<1>4. HalfTyped(sq, i).fallback.outputs = outs
  <2> HIDE DEF given
  <2>1. QED
    BY <1>2, <1>3 DEF HalfTyped, FallbackOutputs, State, Transition
<1>5. Len(outs) = i + 1 /\ \A j \in 1 .. i : outs[j] = given[j]
  <2> DEFINE S == {item(j) : j \in 1 .. i} \cup {Basic(None)}
  <2>1. (\A j \in 1 .. i : item(j) \in S) /\ Basic(None) \in S
    OBVIOUS
  <2> HIDE DEF S, item
  <2>2. given \in Seq(S) /\ Len(given) = i
    BY <1>1, <2>1
  <2> HIDE DEF given
  <2>3. <<Basic(None)>> \in Seq(S) /\ Len(<<Basic(None)>>) = 1
    BY <2>1
  <2> DEFINE last == <<Basic(None)>>
  <2> HIDE DEF last
  <2>4. last \in Seq(S) /\ Len(last) = 1
    BY <2>3 DEF last
  <2>5. Len(given \o last) = i + 1 /\ \A j \in 1 .. i : (given \o last)[j] = given[j]
    <3>1. /\ Len(given \o last) = Len(given) + Len(last)
          /\ \A j \in 1 .. Len(given) : (given \o last)[j] = given[j]
      BY <2>2, <2>4, StartOfConcat
    <3>2. QED
      BY <2>2, <2>4, <3>1
  <2>6. QED
    BY <2>5 DEF last
<1>6. \A j \in 1 .. i : given[j].ev = sq.sequence[j].ev
  BY DEF Basic, Process
<1> HIDE DEF given
<1>7. Len(outs) - 1 = i /\ \A j \in 1 .. i : outs[j].ev = sq.sequence[j].ev
  BY <1>1, <1>5, <1>6
<1> HIDE DEF outs
<1>8. QED
  BY <1>4, <1>7 DEF GivenBack, Inputs

-----------------------------------------------------------------------------
(* The tree of inputs that the generator builds from sequences none of     *)
(* which begins another: P[s] are the inputs on the way from home to s.    *)

Whole(sq) == Inputs(sq, Len(sq.sequence))

EdgesTraced(states, meta, layer, P, s) ==
  \A ev \in DOMAIN states[s].edges :
    LET t == states[s].edges[ev].new_state IN
    /\ t = HOME_STATE_IDX => \E a \in layer : Whole(a) = Append(P[s], ev)
    /\ t # HOME_STATE_IDX => /\ P[t] = Append(P[s], ev)
                             /\ s # HOME_STATE_IDX => meta[s].behavior = meta[t].behavior

Traced(states, meta, layer, P) ==
  /\ IsSequence(meta) /\ Len(meta) = Len(states)
  /\ DOMAIN P = DOMAIN states /\ P[HOME_STATE_IDX] = <<>>
  /\ \A s \in DOMAIN states :
       /\ s = HOME_STATE_IDX \/ meta[s].behavior = "default" => GivenBack(states[s]) = P[s]
       /\ EdgesTraced(states, meta, layer, P, s)

Separate(layer) ==
  /\ \A a \in layer : IsRemapping(a) /\ NoWaits(a)
  /\ \A a, b \in layer : ~IsProperPrefix(a.sequence, b.sequence)

\* Two sequences with the same inputs are the same.
LEMMA SameInputs ==
  ASSUME NEW a, NEW b, IsRemapping(a), NoWaits(a), IsRemapping(b), NoWaits(b),
         NEW m \in 0 .. Len(b.sequence), Whole(a) = Inputs(b, m)
  PROVE  Len(a.sequence) = m /\ SubSeq(b.sequence, 1, m) = a.sequence
<1> DEFINE s == a.sequence  t == b.sequence
<1>1. s \in Seq(Triggers) /\ t \in Seq(Triggers)
  BY DEF IsRemapping
<1>2. Len(s) = m
  <2>1. Len(s) \in 0 .. Len(s)
    BY <1>1
  <2>2. Len(Whole(a)) = Len(s) /\ Len(Inputs(b, m)) = m
    BY <1>1, <2>1, InputsGrow DEF Whole
  <2>3. QED
    BY <2>2
<1>3. ASSUME NEW t1 \in Triggers, NEW t2 \in Triggers, ~IsWait(t1), ~IsWait(t2), t1.ev = t2.ev
      PROVE  t1 = t2
  BY <1>3 DEF Triggers, IsWait
<1>4. ASSUME NEW j \in 1 .. m
      PROVE  s[j] = t[j]
  <2>1. Whole(a)[j] = s[j].ev /\ Inputs(b, m)[j] = t[j].ev
    BY <1>2 DEF Whole, Inputs
  <2> HIDE DEF Triggers
  <2>2. j \in DOMAIN s /\ j \in DOMAIN t /\ s[j] \in Triggers /\ t[j] \in Triggers
    BY <1>1, <1>2
  <2>3. ~IsWait(s[j]) /\ ~IsWait(t[j])
    BY <2>2 DEF NoWaits
  <2>4. QED
    BY <1>3, <2>1, <2>2, <2>3
<1> HIDE DEF Triggers
<1>5. m \in Nat /\ m <= Len(t)
  BY <1>1
<1> DEFINE u == SubSeq(t, 1, m)
<1> HIDE DEF s, t
<1>6. u \in Seq(Triggers) /\ Len(u) = m /\ \A j \in 1 .. m : u[j] = t[j]
  <2>1. Len(t) \in Nat
    BY <1>1
  <2>2. u = [j \in 1 .. m |-> t[j]]
    BY <1>1, <1>5, <2>1
  <2>3. u \in Seq(Triggers)
    BY <1>1, <1>5, <2>1
  <2> HIDE DEF u
  <2>4. QED
    BY <1>5, <2>2, <2>3
<1> HIDE DEF u
<1>7. u = s
  BY <1>1, <1>2, <1>4, <1>6, SeqEqual
<1>8. QED
  BY <1>2, <1>7 DEF u, s, t

\* What a new edge changes, and what it leaves alone.
LEMMA WithEdgeIs ==
  ASSUME NEW states, Wired(states), NEW c \in DOMAIN states, NEW event, NEW edge
  PROVE  LET wired == WithEdge(states, c, event, edge) IN
         /\ IsSequence(wired) /\ Len(wired) = Len(states) /\ DOMAIN wired = DOMAIN states
         /\ \A s \in DOMAIN states : GivenBack(wired[s]) = GivenBack(states[s])
         /\ \A s \in DOMAIN states : s # c => wired[s].edges = states[s].edges
         /\ DOMAIN wired[c].edges = DOMAIN states[c].edges \cup {event}
         /\ \A ev \in DOMAIN wired[c].edges :
              wired[c].edges[ev] = IF ev = event THEN edge ELSE states[c].edges[ev]
<1> DEFINE edges == [ev \in DOMAIN states[c].edges \cup {event} |->
                       IF ev = event THEN edge ELSE states[c].edges[ev]]
           state == [states[c] EXCEPT !.edges = edges]
           wired == [states EXCEPT ![c] = state]
<1>1. wired = WithEdge(states, c, event, edge)
  BY DEF WithEdge
<1>2. /\ DOMAIN edges = DOMAIN states[c].edges \cup {event}
      /\ \A ev \in DOMAIN edges : edges[ev] = IF ev = event THEN edge ELSE states[c].edges[ev]
  OBVIOUS
<1> HIDE DEF edges
<1>3. state.edges = edges /\ state.fallback = states[c].fallback
  BY DEF Wired, IsState
<1> HIDE DEF state
<1>4. /\ IsSequence(wired) /\ Len(wired) = Len(states) /\ DOMAIN wired = DOMAIN states
      /\ \A s \in DOMAIN states : wired[s] = IF s = c THEN state ELSE states[s]
  BY ReplaceElement DEF Wired
<1> HIDE DEF wired
<1>5. \A s \in DOMAIN states : wired[s].fallback = states[s].fallback
  BY <1>3, <1>4
<1>6. \A s \in DOMAIN states : GivenBack(wired[s]) = GivenBack(states[s])
  BY <1>5 DEF GivenBack
<1>7. QED
  BY <1>1, <1>2, <1>3, <1>4, <1>6

\* The last input of a sequence leads home.
LEMMA LastEdgeTraced ==
  ASSUME NEW states, Wired(states), NEW meta, NEW layer, NEW P,
         Traced(states, meta, layer, P), NEW c \in DOMAIN states,
         NEW event, NEW edge, edge.new_state = HOME_STATE_IDX,
         NEW a \in layer, Whole(a) = Append(P[c], event)
  PROVE  Traced(WithEdge(states, c, event, edge), meta, layer, P)
<1> DEFINE wired == WithEdge(states, c, event, edge)
<1>1. /\ IsSequence(wired) /\ Len(wired) = Len(states) /\ DOMAIN wired = DOMAIN states
      /\ \A s \in DOMAIN states : GivenBack(wired[s]) = GivenBack(states[s])
      /\ \A s \in DOMAIN states : s # c => wired[s].edges = states[s].edges
      /\ DOMAIN wired[c].edges = DOMAIN states[c].edges \cup {event}
      /\ \A ev \in DOMAIN wired[c].edges :
           wired[c].edges[ev] = IF ev = event THEN edge ELSE states[c].edges[ev]
  BY WithEdgeIs
<1> HIDE DEF wired
<1>2. ASSUME NEW s \in DOMAIN states
      PROVE  EdgesTraced(wired, meta, layer, P, s)
  <2>1. EdgesTraced(states, meta, layer, P, s)
    BY DEF Traced
  <2>2. CASE s # c
    BY <1>1, <2>1, <2>2 DEF EdgesTraced
  <2>3. CASE s = c
    <3> SUFFICES ASSUME NEW ev \in DOMAIN wired[c].edges
                 PROVE  LET t == wired[c].edges[ev].new_state IN
                        /\ t = HOME_STATE_IDX => \E b \in layer : Whole(b) = Append(P[c], ev)
                        /\ t # HOME_STATE_IDX =>
                             /\ P[t] = Append(P[c], ev)
                             /\ c # HOME_STATE_IDX => meta[c].behavior = meta[t].behavior
      BY <2>3 DEF EdgesTraced
    <3>1. CASE ev = event
      BY <1>1, <3>1
    <3>2. CASE ev # event
      <4>1. ev \in DOMAIN states[c].edges /\ wired[c].edges[ev] = states[c].edges[ev]
        BY <1>1, <3>2
      <4>2. QED
        BY <2>1, <2>3, <4>1 DEF EdgesTraced
    <3>3. QED
      BY <3>1, <3>2
  <2>4. QED
    BY <2>2, <2>3
<1>3. QED
  BY <1>1, <1>2 DEF Traced, wired

\* Any other new input leads to a new state, the n-th.
Longer(P, n, path) == [s \in 1 .. n |-> IF s = n THEN path ELSE P[s]]

LEMMA LongerIs ==
  ASSUME NEW P, NEW n \in Nat \ {0}, NEW path
  PROVE  Longer(P, n, path)[n] = path
  BY DEF Longer

LEMMA NewStateTraced ==
  ASSUME NEW states, Wired(states), NEW meta, NEW layer, NEW P,
         Traced(states, meta, layer, P), NEW c \in DOMAIN states,
         NEW event, NEW edge, edge.new_state = Len(states) + 1,
         NEW state, DOMAIN state.edges = {}, NEW m,
         NEW path, path = Append(P[c], event),
         m.behavior = "default" => GivenBack(state) = path,
         c # HOME_STATE_IDX => meta[c].behavior = m.behavior
  PROVE  LET grown == Append(WithEdge(states, c, event, edge), state)
         IN  Traced(grown, Append(meta, m), layer, Longer(P, Len(states) + 1, path))
<1> DEFINE wired == WithEdge(states, c, event, edge)
           grown == Append(wired, state)
           n     == Len(states) + 1
           metas == Append(meta, m)
           Q     == Longer(P, n, path)
<1>1. /\ IsSequence(wired) /\ Len(wired) = Len(states) /\ DOMAIN wired = DOMAIN states
      /\ \A s \in DOMAIN states : GivenBack(wired[s]) = GivenBack(states[s])
      /\ \A s \in DOMAIN states : s # c => wired[s].edges = states[s].edges
      /\ DOMAIN wired[c].edges = DOMAIN states[c].edges \cup {event}
      /\ \A ev \in DOMAIN wired[c].edges :
           wired[c].edges[ev] = IF ev = event THEN edge ELSE states[c].edges[ev]
  BY WithEdgeIs
<1> HIDE DEF wired
<1>2. /\ Len(states) \in Nat /\ DOMAIN states = 1 .. Len(states) /\ Len(states) >= 1
      /\ IsSequence(grown) /\ Len(grown) = n /\ DOMAIN grown = 1 .. n
      /\ \A s \in DOMAIN states : grown[s] = wired[s]
      /\ grown[n] = state
  BY <1>1, AppendElement, SequenceDomain DEF Wired, HOME_STATE_IDX
<1>3. /\ IsSequence(metas) /\ Len(metas) = n
      /\ \A s \in DOMAIN states : metas[s] = meta[s]
      /\ metas[n] = m
  BY <1>2, AppendElement DEF Traced
<1>4. /\ DOMAIN Q = 1 .. n /\ Q[n] = Append(P[c], event)
      /\ \A s \in DOMAIN states : Q[s] = P[s] /\ s # n
      /\ n # HOME_STATE_IDX /\ HOME_STATE_IDX \in DOMAIN states
      /\ \A s \in 1 .. n : s = n \/ s \in DOMAIN states
  BY <1>2 DEF HOME_STATE_IDX, Longer
<1> HIDE DEF grown, metas, Q, n
<1>5. ASSUME NEW s \in DOMAIN states
      PROVE  EdgesTraced(grown, metas, layer, Q, s)
  <2>1. EdgesTraced(states, meta, layer, P, s) /\ EdgesLead(states, s)
    BY DEF Traced, Wired
  <2>2. ASSUME NEW ev \in DOMAIN states[s].edges, grown[s].edges[ev] = states[s].edges[ev]
        PROVE  LET t == grown[s].edges[ev].new_state IN
               /\ t = HOME_STATE_IDX => \E b \in layer : Whole(b) = Append(Q[s], ev)
               /\ t # HOME_STATE_IDX =>
                    /\ Q[t] = Append(Q[s], ev)
                    /\ s # HOME_STATE_IDX => metas[s].behavior = metas[t].behavior
    <3>1. states[s].edges[ev].new_state \in DOMAIN states
      <4>1. Onward(states, s, states[s].edges[ev].new_state)
        BY <2>1 DEF EdgesLead
      <4>2. QED
        BY <4>1, OnwardIsState
    <3> DEFINE t == states[s].edges[ev].new_state
    <3>2. /\ t = HOME_STATE_IDX => \E b \in layer : Whole(b) = Append(P[s], ev)
          /\ t # HOME_STATE_IDX =>
               /\ P[t] = Append(P[s], ev)
               /\ s # HOME_STATE_IDX => meta[s].behavior = meta[t].behavior
      BY <2>1, <2>2 DEF EdgesTraced
    <3>3. grown[s].edges[ev].new_state = t
      BY <2>2
    <3>4. Q[s] = P[s] /\ Q[t] = P[t] /\ metas[s] = meta[s] /\ metas[t] = meta[t]
      BY <1>3, <1>4, <3>1
    <3> HIDE DEF t
    <3>5. QED
      BY <3>2, <3>3, <3>4
  <2>3. CASE s # c
    BY <1>1, <1>2, <2>2, <2>3 DEF EdgesTraced
  <2>4. CASE s = c
    <3> SUFFICES ASSUME NEW ev \in DOMAIN grown[s].edges
                 PROVE  LET t == grown[s].edges[ev].new_state IN
                        /\ t = HOME_STATE_IDX => \E b \in layer : Whole(b) = Append(Q[s], ev)
                        /\ t # HOME_STATE_IDX =>
                             /\ Q[t] = Append(Q[s], ev)
                             /\ s # HOME_STATE_IDX => metas[s].behavior = metas[t].behavior
      BY DEF EdgesTraced
    <3>1. CASE ev = event
      <4>1. grown[s].edges[ev].new_state = n
        BY <1>1, <1>2, <2>4, <3>1 DEF n
      <4>2. QED
        BY <1>3, <1>4, <2>4, <3>1, <4>1
    <3>2. CASE ev # event
      <4>1. ev \in DOMAIN states[s].edges /\ grown[s].edges[ev] = states[s].edges[ev]
        BY <1>1, <1>2, <2>4, <3>2
      <4>2. QED
        BY <2>2, <4>1
    <3>3. QED
      BY <3>1, <3>2
  <2>5. QED
    BY <2>3, <2>4
<1>6. EdgesTraced(grown, metas, layer, Q, n)
  BY <1>2 DEF EdgesTraced
<1>7. ASSUME NEW s \in DOMAIN grown
      PROVE  s = HOME_STATE_IDX \/ metas[s].behavior = "default" => GivenBack(grown[s]) = Q[s]
  <2>1. CASE s = n
    BY <1>2, <1>3, <1>4, <2>1
  <2>2. CASE s \in DOMAIN states
    BY <1>1, <1>2, <1>3, <1>4, <2>2 DEF Traced
  <2>3. QED
    BY <1>2, <1>4, <2>1, <2>2
<1>8. Q[HOME_STATE_IDX] = <<>>
  BY <1>4 DEF Traced
<1>9. Traced(grown, metas, layer, Q)
  <2>1. \A s \in DOMAIN grown : EdgesTraced(grown, metas, layer, Q, s)
    BY <1>2, <1>4, <1>5, <1>6
  <2>2. QED
    BY <1>2, <1>3, <1>4, <1>7, <1>8, <2>1 DEF Traced
<1>10. QED
  BY <1>9 DEF grown, wired, metas, Q, n

\* The sequence being walked has come to the state its inputs lead to.
AtPath(P, g, sq) ==
  /\ P[g.current] = Inputs(sq, g.i - 1)
  /\ g.current # HOME_STATE_IDX => g.meta[g.current].behavior = sq.behavior

\* One turn of the loop, when no sequence of the layer begins another.
LEMMA StepTraces ==
  ASSUME NEW g, IsMachine(g), NEW layer, Separate(layer), NEW sq \in layer,
         g.i \in 1 .. Len(sq.sequence),
         NEW P, Traced(g.states, g.meta, layer, P), AtPath(P, g, sq)
  PROVE  LET k == Step(g, sq) IN
         \E Q : /\ Traced(k.states, k.meta, layer, Q)
                /\ k.status = "building" /\ k.i <= Len(sq.sequence) => AtPath(Q, k, sq)
<1> DEFINE trigger == sq.sequence[g.i]
           shared  == trigger.ev \in DOMAIN g.states[g.current].edges
           target  == g.states[g.current].edges[trigger.ev].new_state
           k       == Step(g, sq)
           n       == Len(sq.sequence)
<1>1. /\ IsRemapping(sq) /\ NoWaits(sq)
      /\ sq.sequence \in Seq(Triggers) /\ n \in Nat
      /\ g.i \in Nat /\ Wired(g.states) /\ g.current \in DOMAIN g.states
      /\ EdgesTraced(g.states, g.meta, layer, P, g.current)
  BY DEF Separate, IsRemapping, IsMachine, Traced
<1>2. ~IsWait(trigger) /\ Lookahead(sq.sequence, g.i) = None /\ Consumed(sq.sequence, g.i) = g.i
  <2> HIDE DEF Triggers
  <2>1. DOMAIN sq.sequence = 1 .. n
    BY <1>1
  <2>2. ~IsWait(trigger)
    BY <1>1, <2>1 DEF NoWaits
  <2>3. g.i < n => ~IsWait(sq.sequence[g.i + 1])
    BY <1>1, <2>1 DEF NoWaits
  <2>4. QED
    BY <2>2, <2>3 DEF Lookahead, Consumed
<1>3. /\ Append(P[g.current], trigger.ev) = Inputs(sq, g.i)
  <2> DEFINE m == g.i - 1
  <2>1. m \in 0 .. n /\ m < n /\ m + 1 = g.i
    BY <1>1
  <2> HIDE DEF m
  <2>2. Inputs(sq, m + 1) = Append(Inputs(sq, m), sq.sequence[m + 1].ev)
    BY <1>1, <2>1, InputsGrow
  <2>3. P[g.current] = Inputs(sq, m)
    BY DEF AtPath, m
  <2>4. QED
    BY <2>1, <2>2, <2>3
<1>4. ASSUME NEW e, IsMachine(e),
             k = [AddTimer(e, sq) EXCEPT !.i = Consumed(sq.sequence, g.i) + 1],
             e.i = g.i
      PROVE  k.states = e.states /\ k.meta = e.meta /\ k.current = e.current
             /\ k.i = g.i + 1
  <2>1. AddTimer(e, sq) = e
    BY <1>2, <1>4 DEF AddTimer
  <2>2. k = [e EXCEPT !.i = g.i + 1]
    BY <1>2, <1>4, <2>1
  <2> HIDE DEF k
  <2>3. QED
    BY <1>4, <2>2 DEF IsMachine
<1>5. CASE shared /\ ~Shareable(g, sq)
  <2>1. k = [g EXCEPT !.status = "rejected"]
    BY <1>2, <1>5 DEF Step
  <2> HIDE DEF k
  <2>2. k.states = g.states /\ k.meta = g.meta /\ k.status = "rejected"
    BY <2>1 DEF IsMachine
  <2>3. QED
    BY <2>2 DEF k
<1>6. CASE shared /\ Shareable(g, sq)
  <2> DEFINE e == [g EXCEPT !.current = target]
  <2>1. k = [AddTimer(e, sq) EXCEPT !.i = Consumed(sq.sequence, g.i) + 1]
    BY <1>2, <1>6 DEF Step
  <2>2. target \in DOMAIN g.states
    <3>1. Onward(g.states, g.current, target)
      BY <1>1, <1>6 DEF Wired, EdgesLead
    <3> HIDE DEF target
    <3>2. QED
      BY <1>1, <3>1, OnwardIsState
  <2>3. g.i < n /\ g.meta[target].behavior = sq.behavior
    BY <1>6 DEF Shareable
  <2>4. target # HOME_STATE_IDX
    <3> SUFFICES ASSUME target = HOME_STATE_IDX PROVE FALSE
      OBVIOUS
    <3>1. PICK a \in layer : Whole(a) = Inputs(sq, g.i)
      BY <1>1, <1>3, <1>6 DEF EdgesTraced
    <3>2. IsRemapping(a) /\ NoWaits(a) /\ ~IsProperPrefix(a.sequence, sq.sequence)
      BY DEF Separate
    <3>3. Len(a.sequence) = g.i /\ SubSeq(sq.sequence, 1, g.i) = a.sequence
      <4>1. g.i \in 0 .. n
        BY <1>1
      <4>2. QED
        BY <1>1, <3>1, <3>2, <4>1, SameInputs
    <3>4. QED
      BY <2>3, <3>2, <3>3 DEF IsProperPrefix
  <2>5. P[target] = Inputs(sq, g.i)
    BY <1>1, <1>3, <1>6, <2>4 DEF EdgesTraced
  <2> HIDE DEF target
  <2>6. /\ e.states = g.states /\ e.meta = g.meta /\ e.current = target /\ e.i = g.i
        /\ IsMachine(e)
    BY <2>2 DEF IsMachine
  <2> HIDE DEF e, k
  <2>7. k.states = g.states /\ k.meta = g.meta /\ k.current = target /\ k.i = g.i + 1
    BY <1>4, <2>1, <2>6
  <2>8. k.i - 1 = g.i
    BY <1>1, <2>7
  <2>9. AtPath(P, k, sq)
    BY <2>3, <2>5, <2>7, <2>8 DEF AtPath
  <2>10. QED
    BY <2>7, <2>9 DEF k
<1>7. CASE ~shared
  <2> DEFINE e     == AddEdge(g, sq)
             edge  == NewEdge(g, sq)
             wired == WithEdge(g.states, g.current, trigger.ev, edge)
             state == HalfTyped(sq, g.i)
             m     == Metadata(None, sq.behavior)
             last  == g.i = n
  <2>1. k = [AddTimer(e, sq) EXCEPT !.i = Consumed(sq.sequence, g.i) + 1]
    BY <1>2, <1>7 DEF Step
  <2>2. /\ e.states = IF last THEN wired ELSE Append(wired, state)
        /\ e.meta = IF last THEN g.meta ELSE Append(g.meta, m)
        /\ e.current = edge.new_state /\ e.i = g.i
        /\ edge.new_state = IF last THEN HOME_STATE_IDX ELSE Len(g.states) + 1
    <3>1. e = [g EXCEPT !.states  = IF last THEN wired ELSE Append(wired, state),
                        !.meta    = IF last THEN g.meta ELSE Append(g.meta, m),
                        !.current = edge.new_state]
      BY <1>2 DEF AddEdge, WithEdge, NewEdge, Transition, IsMachine
    <3>2. edge.new_state = IF last THEN HOME_STATE_IDX ELSE Len(g.states) + 1
      BY DEF NewEdge, Transition
    <3> HIDE DEF e, wired, state, edge, m, last
    <3>3. QED
      BY <3>1, <3>2 DEF IsMachine
  <2>3. AddTimer(e, sq) = e
    <3> HIDE DEF e
    <3>1. QED
      BY <1>2, <2>2 DEF AddTimer
  <2>4. k = [e EXCEPT !.i = g.i + 1]
    BY <1>2, <2>1, <2>3
  <2>5. k.states = e.states /\ k.meta = e.meta /\ k.current = e.current /\ k.i = g.i + 1
    <3>1. \E x1, x2, x3, x4, x5 : e = [states |-> x1, meta |-> x2, current |-> x3, i |-> x4, status |-> x5]
      <4>1. e = [g EXCEPT !.states = e.states, !.meta = e.meta, !.current = e.current]
        BY DEF AddEdge, IsMachine
      <4> HIDE DEF e
      <4>2. QED
        BY <4>1 DEF IsMachine
    <3> HIDE DEF e, k
    <3>2. QED
      BY <2>4, <3>1
  <2> HIDE DEF e, k, edge, m, state, wired
  <2>6. CASE last
    <3>1. Whole(sq) = Append(P[g.current], trigger.ev)
      BY <1>3, <2>6 DEF Whole
    <3>2. Traced(wired, g.meta, layer, P)
      BY <1>1, <2>2, <2>6, <3>1, LastEdgeTraced DEF wired
    <3>3. ~(k.i <= n)
      BY <1>1, <2>5, <2>6
    <3>4. QED
      BY <2>2, <2>5, <2>6, <3>2, <3>3 DEF k
  <2>7. CASE ~last
    <3> DEFINE path == Inputs(sq, g.i)
               Q    == Longer(P, Len(g.states) + 1, path)
    <3>1. DOMAIN state.edges = {}
      BY DEF state, HalfTyped, State, NoEdges
    <3>2. m.behavior = sq.behavior
      BY DEF m, Metadata
    <3>3. m.behavior = "default" => GivenBack(state) = Append(P[g.current], trigger.ev)
      <4>1. sq.behavior = "default" => GivenBack(HalfTyped(sq, g.i)) = Inputs(sq, g.i)
        BY <1>1, FallbackGivesBack
      <4>2. QED
        BY <1>3, <3>2, <4>1 DEF state
    <3>4. g.current # HOME_STATE_IDX => g.meta[g.current].behavior = m.behavior
      BY <3>2 DEF AtPath
    <3>5. Traced(Append(wired, state), Append(g.meta, m), layer, Q)
      <4>1. edge.new_state = Len(g.states) + 1
        BY <2>2, <2>7
      <4>2. path = Append(P[g.current], trigger.ev) /\ (m.behavior = "default" => GivenBack(state) = path)
        BY <1>3, <3>3
      <4>3. Wired(g.states) /\ g.current \in DOMAIN g.states
        BY <1>1
      <4> DEFINE ev == trigger.ev
      <4>4. path = Append(P[g.current], ev)
        BY <4>2
      <4> HIDE DEF ev, path
      <4>5. Traced(Append(WithEdge(g.states, g.current, ev, edge), state), Append(g.meta, m), layer,
                   Longer(P, Len(g.states) + 1, path))
        BY <3>1, <3>4, <4>1, <4>2, <4>3, <4>4, NewStateTraced
      <4>6. QED
        BY <4>5 DEF wired, ev
    <3>6. Len(g.states) \in Nat /\ Len(g.states) >= 1 /\ k.i - 1 = g.i
          /\ k.current = Len(g.states) + 1
      BY <1>1, <2>2, <2>5, <2>7, SequenceDomain DEF Wired, HOME_STATE_IDX
    <3>7. Q[k.current] = Inputs(sq, k.i - 1)
      <4>1. Q[Len(g.states) + 1] = path
        <5> HIDE DEF path
        <5>1. QED
          BY <3>6, LongerIs
      <4> HIDE DEF Q
      <4>2. QED
        BY <3>6, <4>1
    <3>8. k.meta[k.current].behavior = sq.behavior
      <4>1. Len(g.meta) = Len(g.states) /\ IsSequence(g.meta)
        BY DEF Traced
      <4>2. k.meta[k.current] = m
        BY <2>2, <2>5, <2>7, <3>6, <4>1, AppendElement
      <4>3. QED
        BY <3>2, <4>2
    <3> HIDE DEF Q
    <3>9. AtPath(Q, k, sq)
      BY <3>7, <3>8 DEF AtPath
    <3>10. QED
      BY <2>2, <2>5, <2>7, <3>5, <3>9 DEF k
  <2>8. QED
    BY <2>6, <2>7
<1>8. QED
  BY <1>5, <1>6, <1>7

Layer == {done[k] : k \in DOMAIN done} \cup (IF seq = None THEN {} ELSE {seq})

ReplayInv ==
  Separate(Layer) =>
    \E P : /\ Traced(gen.states, gen.meta, Layer, P)
           /\ seq # None /\ gen.status = "building" /\ gen.i <= Len(seq.sequence) =>
                AtPath(P, gen, seq)

\* What is true of more sequences is true of fewer.
LEMMA SmallerLayer ==
  ASSUME NEW new, NEW old \in SUBSET new
  PROVE  /\ Separate(new) => Separate(old)
         /\ \A states, meta, P : Traced(states, meta, old, P) => Traced(states, meta, new, P)
<1>1. Separate(new) => Separate(old)
  BY DEF Separate
<1>2. ASSUME NEW states, NEW meta, NEW P, Traced(states, meta, old, P)
      PROVE  Traced(states, meta, new, P)
  <2>1. \A s : EdgesTraced(states, meta, old, P, s) => EdgesTraced(states, meta, new, P, s)
    BY DEF EdgesTraced
  <2>2. QED
    BY <1>2, <2>1 DEF Traced
<1>3. QED
  BY <1>1, <1>2

(***************************************************************************)
(* In a layer none of whose sequences begins another or has a wait, an     *)
(* abandoned "default" sequence gives back what was typed, however many    *)
(* sequences share its states.                                             *)
(***************************************************************************)
THEOREM GeneratorReplays == ASSUME NoneIsNoTransition
                            PROVE  Spec => []FallbackReplaysPath
<1>1. Init => ReplayInv
  <2> SUFFICES ASSUME Init PROVE ReplayInv
    OBVIOUS
  <2> DEFINE P == [s \in {HOME_STATE_IDX} |-> <<>>]
             m == Metadata(None, "default")
  <2>1. gen.states = <<HomeState>> /\ gen.meta = <<m>> /\ seq = None
    BY DEF Init, EmptyMachine
  <2>2. DOMAIN P = {1} /\ P[1] = <<>>
    BY DEF HOME_STATE_IDX
  <2> HIDE DEF P
  <2>3. DOMAIN <<HomeState>> = {1} /\ <<HomeState>>[1] = HomeState /\ Len(<<HomeState>>) = 1
    OBVIOUS
  <2>4. IsSequence(<<m>>) /\ Len(<<m>>) = 1
    <3> HIDE DEF m
    <3>1. <<m>> \in Seq({m}) /\ Len(<<m>>) = 1
      OBVIOUS
    <3>2. QED
      BY <3>1, SequenceOfSet
  <2>5. DOMAIN HomeState.edges = {} /\ GivenBack(HomeState) = <<>>
    <3>1. DOMAIN HomeState.edges = {}
      BY DEF HomeState, State, NoEdges
    <3> DEFINE outs == <<Basic(None)>>
    <3>2. HomeState.fallback.outputs = outs
      BY DEF HomeState, State, Transition
    <3>3. Len(outs) - 1 = 0
      OBVIOUS
    <3> HIDE DEF outs
    <3>4. GivenBack(HomeState) = [j \in 1 .. 0 |-> outs[j].ev]
      BY <3>2, <3>3 DEF GivenBack
    <3>5. [j \in 1 .. 0 |-> outs[j].ev] = <<>>
      OBVIOUS
    <3>6. QED
      BY <3>1, <3>4, <3>5
  <2> HIDE DEF m
  <2>6. Traced(gen.states, gen.meta, Layer, P)
    BY <2>1, <2>2, <2>3, <2>4, <2>5 DEF Traced, EdgesTraced, HOME_STATE_IDX
  <2>7. QED
    BY <2>1, <2>6 DEF ReplayInv
<1>2. ReplayInv /\ WalkInv /\ WalkInv' /\ [Next]_vars => ReplayInv'
  <2> SUFFICES ASSUME ReplayInv, WalkInv, WalkInv', [Next]_vars, Separate(Layer')
               PROVE  \E P : /\ Traced(gen'.states, gen'.meta, Layer', P)
                             /\ seq' # None /\ gen'.status = "building"
                                  /\ gen'.i <= Len(seq'.sequence) => AtPath(P, gen', seq')
    BY DEF ReplayInv
  <2>1. ASSUME Layer \subseteq Layer'
        PROVE  \E P : /\ Traced(gen.states, gen.meta, Layer', P)
                      /\ seq # None /\ gen.status = "building" /\ gen.i <= Len(seq.sequence) =>
                           AtPath(P, gen, seq)
    BY <2>1, SmallerLayer DEF ReplayInv
  <2>2. IsMachine(gen)
    BY DEF WalkInv, GenInv
  <2>3. CASE BeginSequence
    <3>1. Layer \subseteq Layer'
      BY <2>3 DEF BeginSequence, Layer
    <3>2. PICK P : Traced(gen.states, gen.meta, Layer', P)
      BY <2>1, <3>1
    <3>3. /\ gen'.states = gen.states /\ gen'.meta = gen.meta
          /\ gen'.current = HOME_STATE_IDX /\ gen'.i = 1
      <4>1. gen' = [gen EXCEPT !.current = HOME_STATE_IDX, !.i = 1]
        BY <2>3 DEF BeginSequence, StartSequence
      <4>2. QED
        BY <2>2, <4>1 DEF IsMachine
    <3>4. AtPath(P, gen', seq')
      <4>1. Inputs(seq', 0) = <<>>
        BY DEF Inputs
      <4>2. gen'.i - 1 = 0
        BY <3>3
      <4>3. QED
        BY <3>2, <3>3, <4>1, <4>2 DEF AtPath, Traced
    <3>5. QED
      BY <3>2, <3>3, <3>4
  <2>4. CASE ConsumeTrigger
    <3>1. /\ Layer' = Layer /\ seq' = seq /\ gen' = Step(gen, seq) /\ seq \in Layer
          /\ gen.status = "building" /\ seq # None /\ gen.i <= Len(seq.sequence)
      BY <2>4 DEF ConsumeTrigger, Layer
    <3>2. PICK P : Traced(gen.states, gen.meta, Layer, P) /\ AtPath(P, gen, seq)
      BY <2>1, <3>1
    <3>3. gen.i \in 1 .. Len(seq.sequence)
      BY <2>2, <3>1 DEF WalkInv, Walked, IsRemapping, IsMachine
    <3>4. Separate(Layer)
      BY <3>1
    <3>5. \E Q : /\ Traced(gen'.states, gen'.meta, Layer, Q)
                 /\ gen'.status = "building" /\ gen'.i <= Len(seq.sequence) => AtPath(Q, gen', seq)
      BY <2>2, <3>1, <3>2, <3>3, <3>4, StepTraces
    <3>6. QED
      BY <3>1, <3>5
  <2>5. CASE ThrowOutOfRange
    <3>1. Layer' = Layer
      BY <2>5 DEF ThrowOutOfRange, Layer
    <3>2. gen'.states = gen.states /\ gen'.meta = gen.meta /\ gen'.status # "building"
      BY <2>2, <2>5 DEF ThrowOutOfRange, IsMachine
    <3>3. QED
      BY <2>1, <3>1, <3>2
  <2>6. CASE EndSequence
    <3>1. done' = Append(done, seq) /\ seq' = None /\ gen' = gen /\ seq # None
      BY <2>6 DEF EndSequence
    <3>2. /\ DOMAIN done' = 1 .. Len(done) + 1 /\ DOMAIN done = 1 .. Len(done)
          /\ Len(done) \in Nat /\ \A k \in DOMAIN done : done'[k] = done[k]
          /\ done'[Len(done) + 1] = seq
      BY <3>1, AppendElement, SequenceDomain DEF WalkInv
    <3>3. Len(done) + 1 \in DOMAIN done' /\ \A k \in DOMAIN done : k \in DOMAIN done'
      BY <3>2
    <3>4. Layer \subseteq Layer'
      BY <3>1, <3>2, <3>3 DEF Layer
    <3>5. QED
      BY <2>1, <3>1, <3>4
  <2>7. CASE Return
    <3>1. Layer' = Layer
      BY <2>7 DEF Return, Layer
    <3>2. gen'.states = gen.states /\ gen'.meta = gen.meta /\ gen'.status # "building"
      BY <2>2, <2>7 DEF Return, IsMachine
    <3>3. QED
      BY <2>1, <3>1, <3>2
  <2>8. CASE UNCHANGED vars
    <3>1. Layer' = Layer /\ gen' = gen /\ seq' = seq
      BY <2>8 DEF vars, Layer
    <3>2. QED
      BY <2>1, <3>1
  <2>9. QED
    BY <2>3, <2>4, <2>5, <2>6, <2>7, <2>8 DEF Next
<1>3. WalkInv /\ ReplayInv => FallbackReplaysPath
  <2> SUFFICES ASSUME WalkInv, ReplayInv, PrefixFree, seq = None,
                      \A k \in DOMAIN done : \A n \in DOMAIN done[k].sequence :
                        ~IsWait(done[k].sequence[n]),
                      NEW s \in Indices, NEW ev \in DOMAIN gen.states[s].edges,
                      gen.states[s].edges[ev].new_state # HOME_STATE_IDX,
                      gen.meta[gen.states[s].edges[ev].new_state].behavior = "default"
               PROVE  Replayed(gen.states[s].edges[ev].new_state) = Append(Replayed(s), ev)
    BY DEF FallbackReplaysPath
  <2> DEFINE t == gen.states[s].edges[ev].new_state
  <2>1. Separate(Layer)
    <3>1. Layer = {done[k] : k \in DOMAIN done}
      BY DEF Layer
    <3>2. QED
      BY <3>1 DEF Separate, NoWaits, PrefixFree, WalkInv
  <2>2. PICK P : Traced(gen.states, gen.meta, Layer, P)
    BY <2>1 DEF ReplayInv
  <2>3. Wired(gen.states) /\ s \in DOMAIN gen.states
    BY DEF WalkInv, GenInv, IsMachine, Indices
  <2>4. t \in DOMAIN gen.states
    <3>1. Onward(gen.states, s, t)
      BY <2>3 DEF Wired, EdgesLead
    <3> HIDE DEF t
    <3>2. QED
      BY <2>3, <3>1, OnwardIsState
  <2>5. P[t] = Append(P[s], ev) /\ (s # HOME_STATE_IDX => gen.meta[s].behavior = "default")
    <3>1. EdgesTraced(gen.states, gen.meta, Layer, P, s)
      BY <2>2, <2>3 DEF Traced
    <3>2. QED
      BY <3>1 DEF EdgesTraced
  <2>6. GivenBack(gen.states[t]) = P[t] /\ GivenBack(gen.states[s]) = P[s]
    <3>1. gen.meta[t].behavior = "default"
      OBVIOUS
    <3> HIDE DEF t
    <3>2. QED
      BY <2>2, <2>3, <2>4, <2>5, <3>1 DEF Traced
  <2>7. \A x : Replayed(x) = GivenBack(gen.states[x])
    BY DEF Replayed, GivenBack
  <2>8. QED
    BY <2>5, <2>6, <2>7
<1>4. QED
  BY <1>1, <1>2, <1>3, WalkInvariant, PTL DEF Spec


-----------------------------------------------------------------------------
(* The two halves of a step, state by state. *)

\* h is g with an edge for the trigger, and the state it leads to.
EdgeAdded(g, h, sq) ==
  LET event == sq.sequence[g.i].ev
      new   == Len(g.states) + 1
      last  == g.i = Len(sq.sequence)
  IN  /\ h.i = g.i /\ h.status = g.status /\ h.current = NewEdge(g, sq).new_state
      /\ DOMAIN h.states = DOMAIN g.states \cup (IF last THEN {} ELSE {new})
      /\ ~last => h.states[new] = HalfTyped(sq, g.i) /\ new \notin DOMAIN g.states
      /\ \A s \in DOMAIN g.states :
           /\ h.states[s].fallback = g.states[s].fallback
           /\ h.states[s].timer = g.states[s].timer
           /\ s # g.current => h.states[s].edges = g.states[s].edges
      /\ DOMAIN h.states[g.current].edges = DOMAIN g.states[g.current].edges \cup {event}
      /\ \A ev \in DOMAIN h.states[g.current].edges :
           h.states[g.current].edges[ev] =
             IF ev = event THEN NewEdge(g, sq) ELSE g.states[g.current].edges[ev]

\* What AddEdge changes, and all it changes.
LEMMA AddEdgeIs ==
  ASSUME NEW g, IsMachine(g), NEW sq
  PROVE  EdgeAdded(g, AddEdge(g, sq), sq)
<1> DEFINE event == sq.sequence[g.i].ev
           new   == Len(g.states) + 1
           last  == g.i = Len(sq.sequence)
           c     == g.current
           edge  == NewEdge(g, sq)
           edges == [ev \in DOMAIN g.states[c].edges \cup {event} |->
                       IF ev = event THEN edge ELSE g.states[c].edges[ev]]
           state == [g.states[c] EXCEPT !.edges = edges]
           wired == [g.states EXCEPT ![c] = state]
           half  == HalfTyped(sq, g.i)
           h     == AddEdge(g, sq)
<1>1. /\ IsSequence(g.states) /\ c \in DOMAIN g.states /\ IsState(g.states[c])
      /\ Len(g.states) \in Nat /\ DOMAIN g.states = 1 .. Len(g.states)
  BY SequenceDomain DEF IsMachine, Wired
<1>2. h = [g EXCEPT !.states  = IF last THEN wired ELSE Append(wired, half),
                    !.meta    = h.meta,
                    !.current = edge.new_state]
  BY DEF AddEdge, NewEdge, Transition, IsMachine
<1>3. /\ DOMAIN edges = DOMAIN g.states[c].edges \cup {event}
      /\ \A ev \in DOMAIN edges : edges[ev] = IF ev = event THEN edge ELSE g.states[c].edges[ev]
  OBVIOUS
<1> HIDE DEF edges, edge
<1>4. /\ state.edges = edges /\ state.fallback = g.states[c].fallback
      /\ state.timer = g.states[c].timer
  BY <1>1 DEF IsState
<1> HIDE DEF state
<1>5. /\ IsSequence(wired) /\ Len(wired) = Len(g.states)
      /\ \A s \in DOMAIN g.states : wired[s] = IF s = c THEN state ELSE g.states[s]
  BY <1>1, ReplaceElement
<1> HIDE DEF wired, half, h
<1>6. /\ DOMAIN Append(wired, half) = 1 .. new /\ Append(wired, half)[new] = half
      /\ \A s \in DOMAIN g.states : Append(wired, half)[s] = wired[s]
  BY <1>1, <1>5, AppendElement, SequenceDomain
<1>7. /\ h.states = IF last THEN wired ELSE Append(wired, half)
      /\ h.current = edge.new_state /\ h.i = g.i /\ h.status = g.status
  BY <1>2 DEF IsMachine
<1>8. DOMAIN wired = DOMAIN g.states
  BY <1>1, <1>5, SequenceDomain
<1>9. /\ DOMAIN h.states = DOMAIN g.states \cup (IF last THEN {} ELSE {new})
      /\ ~last => h.states[new] = half /\ new \notin DOMAIN g.states
      /\ \A s \in DOMAIN g.states : h.states[s] = wired[s]
  BY <1>1, <1>6, <1>7, <1>8
<1>10. /\ \A s \in DOMAIN g.states :
            /\ h.states[s].fallback = g.states[s].fallback
            /\ h.states[s].timer = g.states[s].timer
            /\ s # c => h.states[s].edges = g.states[s].edges
       /\ h.states[c].edges = edges
  BY <1>1, <1>4, <1>5, <1>9
<1>11. QED
  BY <1>3, <1>7, <1>9, <1>10 DEF EdgeAdded, edge, half, h

\* A minimum wait in the middle of a sequence makes the walk go on behind it.
LoopsAt(sq, i) ==
  LET wait == Lookahead(sq.sequence, i)
  IN  wait # None /\ wait.kind = "min" /\ Consumed(sq.sequence, i) # Len(sq.sequence)

TimerOf(g, sq, t) ==
  \/ t = g.states[g.current].timer
  \/ t = g.states[g.current].fallback
  \/ t = Transition(None, sq.binds, HOME_STATE_IDX)
  \/ LoopsAt(sq, g.i) /\ t = Transition(None, <<>>, Len(g.states) + 1)

\* What AddTimer changes: one timer, and at most one state more.
LEMMA AddTimerIs ==
  ASSUME NEW g, IsMachine(g), NEW sq
  PROVE  LET h     == AddTimer(g, sq)
             new   == Len(g.states) + 1
             loops == LoopsAt(sq, g.i) /\ g.states[g.current].timer = None
             wait  == Lookahead(sq.sequence, g.i)
         IN  /\ h.i = g.i /\ h.status = g.status
             /\ DOMAIN h.states = DOMAIN g.states \cup (IF loops THEN {new} ELSE {})
             /\ loops => h.states[new] = UnfilledState /\ new \notin DOMAIN g.states
             /\ \A s \in DOMAIN g.states :
                  /\ h.states[s].fallback = g.states[s].fallback
                  /\ h.states[s].edges = g.states[s].edges
                  /\ s # g.current => h.states[s].timer = g.states[s].timer
             /\ TimerOf(g, sq, h.states[g.current].timer)
             /\ (wait = None \/ wait.kind = "max") => h.current = g.current
<1> DEFINE wait  == Lookahead(sq.sequence, g.i)
           next  == g.states[g.current]
           c     == g.current
           new   == Len(g.states) + 1
           loops == LoopsAt(sq, g.i) /\ next.timer = None
           final == Consumed(sq.sequence, g.i) = Len(sq.sequence)
           h     == AddTimer(g, sq)
<1>1. /\ IsSequence(g.states) /\ g.current \in DOMAIN g.states /\ IsState(next)
      /\ Len(g.states) \in Nat /\ DOMAIN g.states = 1 .. Len(g.states)
  BY SequenceDomain DEF IsMachine, Wired
<1>2. wait # None => wait.kind \in {"min", "max"}
  BY DEF Lookahead, IsWait
<1>3. ASSUME NEW current, h = [g EXCEPT !.current = current], ~loops,
             (wait = None \/ wait.kind = "max") => current = c
      PROVE  /\ h.i = g.i /\ h.status = g.status /\ h.states = g.states
             /\ (wait = None \/ wait.kind = "max") => h.current = c
             /\ TimerOf(g, sq, h.states[c].timer)
  <2> HIDE DEF h, wait
  <2>1. /\ h.i = g.i /\ h.status = g.status /\ h.states = g.states /\ h.current = current
    BY <1>3 DEF IsMachine
  <2>2. QED
    BY <1>3, <2>1 DEF TimerOf
<1>4. ASSUME NEW t, h = [g EXCEPT !.states = WithTimer(@, c, t)], ~loops,
             TimerOf(g, sq, t)
      PROVE  /\ h.i = g.i /\ h.status = g.status /\ h.current = c
             /\ DOMAIN h.states = DOMAIN g.states
             /\ \A s \in DOMAIN g.states :
                  /\ h.states[s].fallback = g.states[s].fallback
                  /\ h.states[s].edges = g.states[s].edges
                  /\ s # c => h.states[s].timer = g.states[s].timer
             /\ h.states[c].timer = t
  <2> DEFINE state == [next EXCEPT !.timer = t]
             timed == [g.states EXCEPT ![c] = state]
  <2>1. state.edges = next.edges /\ state.fallback = next.fallback /\ state.timer = t
    BY <1>1 DEF IsState
  <2>2. timed = WithTimer(g.states, c, t)
    BY DEF WithTimer
  <2> HIDE DEF state
  <2>3. /\ DOMAIN timed = DOMAIN g.states
        /\ \A s \in DOMAIN g.states : timed[s] = IF s = c THEN state ELSE g.states[s]
    BY <1>1
  <2> HIDE DEF timed, h
  <2>4. h.i = g.i /\ h.status = g.status /\ h.current = c /\ h.states = timed
    BY <1>4, <2>2 DEF IsMachine
  <2>5. QED
    BY <1>1, <2>1, <2>3, <2>4
<1>5. CASE wait = None
  <2>1. h = g /\ ~loops
    BY <1>5 DEF AddTimer, LoopsAt
  <2>2. h.states = g.states /\ h.current = c
    BY <2>1
  <2>3. QED
    BY <2>1 DEF TimerOf
<1>6. CASE wait # None /\ wait.kind = "max"
  <2>1. h = TimeOut(g, sq) /\ ~loops
    BY <1>6 DEF AddTimer, LoopsAt
  <2> DEFINE t == IF next.timer = None THEN next.fallback ELSE next.timer
  <2>2. h = [g EXCEPT !.states = WithTimer(@, c, t)]
    BY <2>1 DEF TimeOut, WithTimer
  <2>3. TimerOf(g, sq, t)
    BY DEF TimerOf
  <2> HIDE DEF t, h, loops
  <2>4. QED
    BY <1>4, <2>1, <2>2, <2>3 DEF loops, h
<1>7. CASE wait # None /\ wait.kind = "min" /\ next.timer # None
  <2>1. h = [g EXCEPT !.current = next.timer.new_state] /\ ~loops
    BY <1>7 DEF AddTimer
  <2> HIDE DEF h, loops
  <2>2. QED
    BY <1>3, <1>7, <2>1 DEF loops, h
<1>8. CASE wait # None /\ wait.kind = "min" /\ next.timer = None /\ final
  <2> DEFINE t == Transition(None, sq.binds, HOME_STATE_IDX)
  <2>1. h = HoldEnds(g, sq) /\ ~loops
    BY <1>8 DEF AddTimer, LoopsAt
  <2>2. h = [g EXCEPT !.states = WithTimer(@, c, t)]
    BY <2>1 DEF HoldEnds, WithTimer
  <2>3. TimerOf(g, sq, t)
    BY DEF TimerOf
  <2> HIDE DEF t, h, loops
  <2>4. QED
    BY <1>4, <1>8, <2>1, <2>2, <2>3 DEF loops, h
<1>9. CASE wait # None /\ wait.kind = "min" /\ next.timer = None /\ ~final
  <2> DEFINE t     == Transition(None, <<>>, new)
             state == [next EXCEPT !.timer = t]
             timed == [g.states EXCEPT ![c] = state]
             grown == Append(timed, UnfilledState)
  <2>1. h = HoldGoesOn(g, sq) /\ loops
    BY <1>9 DEF AddTimer, LoopsAt
  <2>2. h = [g EXCEPT !.states = grown, !.meta = Append(@, Metadata(None, sq.behavior)),
                      !.current = new]
    BY <2>1 DEF HoldGoesOn
  <2>3. state.edges = next.edges /\ state.fallback = next.fallback /\ state.timer = t
    BY <1>1 DEF IsState
  <2>4. TimerOf(g, sq, t)
    BY <2>1 DEF TimerOf
  <2> HIDE DEF state, t
  <2>5. /\ IsSequence(timed) /\ Len(timed) = Len(g.states)
        /\ \A s \in DOMAIN g.states : timed[s] = IF s = c THEN state ELSE g.states[s]
    BY <1>1, ReplaceElement
  <2> HIDE DEF timed
  <2>6. /\ DOMAIN grown = 1 .. new /\ grown[new] = UnfilledState
        /\ \A s \in DOMAIN g.states : grown[s] = timed[s]
    BY <1>1, <2>5, AppendElement, SequenceDomain
  <2> HIDE DEF grown, h
  <2>7. h.i = g.i /\ h.status = g.status /\ h.states = grown
    BY <2>2 DEF IsMachine
  <2>8. DOMAIN grown = DOMAIN g.states \cup {new} /\ new \notin DOMAIN g.states
    BY <1>1, <2>6
  <2>9. /\ \A s \in DOMAIN g.states :
             /\ grown[s].fallback = g.states[s].fallback
             /\ grown[s].edges = g.states[s].edges
             /\ s # c => grown[s].timer = g.states[s].timer
        /\ grown[c].timer = t
    BY <1>1, <2>3, <2>5, <2>6
  <2> HIDE DEF loops
  <2>10. QED
    BY <1>9, <2>1, <2>4, <2>6, <2>7, <2>8, <2>9 DEF loops, h
<1>10. QED
  BY <1>2, <1>5, <1>6, <1>7, <1>8, <1>9

-----------------------------------------------------------------------------
(* The loop that fills a fallback, with waits. *)

GivenTurn(f, sequence, m) ==
  IF m = 0 THEN <<>>
  ELSE IF IsWait(sequence[m]) THEN f[m - 1]
  ELSE Append(f[m - 1], IF m = 1 THEN Basic(sequence[m].ev) ELSE Process(sequence[m].ev))

IsGivenUpTo(f, sequence, n) == f = [m \in 0 .. n |-> GivenTurn(f, sequence, m)]

\* The recursion of Given has a solution, which Given is.
LEMMA GivenExists ==
  ASSUME NEW sequence, NEW n \in Nat
  PROVE  \E f : IsGivenUpTo(f, sequence, n)
<1> DEFINE T == {m \in 0 .. n : \E f : IsGivenUpTo(f, sequence, m)}
<1>1. 0 \in T
  <2> DEFINE f == [m \in 0 .. 0 |-> <<>>]
  <2>1. f = [m \in 0 .. 0 |-> GivenTurn(f, sequence, m)]
    BY DEF GivenTurn
  <2>2. QED
    BY <2>1 DEF IsGivenUpTo
<1>2. ASSUME NEW m \in 1 .. n, m - 1 \in T
      PROVE  m \in T
  <2>1. PICK f : IsGivenUpTo(f, sequence, m - 1)
    BY <1>2
  <2> DEFINE h == [k \in 0 .. m |-> IF k = m THEN GivenTurn(f, sequence, m) ELSE f[k]]
  <2>2. ASSUME NEW k \in 0 .. m
        PROVE  h[k] = GivenTurn(h, sequence, k)
    <3>1. k = 0 \/ h[k - 1] = f[k - 1]
      OBVIOUS
    <3>2. GivenTurn(h, sequence, k) = GivenTurn(f, sequence, k)
      <4> HIDE DEF h
      <4>1. QED
        BY <3>1 DEF GivenTurn
    <3>3. k \in 0 .. m - 1 => f[k] = GivenTurn(f, sequence, k)
      BY <2>1 DEF IsGivenUpTo
    <3>4. k = m \/ k \in 0 .. m - 1
      OBVIOUS
    <3>5. QED
      BY <3>2, <3>3, <3>4
  <2>3. h = [k \in 0 .. m |-> h[k]]
    OBVIOUS
  <2> HIDE DEF h
  <2>4. h = [k \in 0 .. m |-> GivenTurn(h, sequence, k)]
    BY <2>2, <2>3
  <2>5. QED
    BY <2>4 DEF IsGivenUpTo
<1>3. \A m \in 0 .. n : m \in T
  <2> HIDE DEF T
  <2>1. QED
    BY <1>1, <1>2, UpTo
<1>4. n \in 0 .. n
  OBVIOUS
<1>5. QED
  BY <1>3, <1>4

\* Given computes turn by turn.
LEMMA GivenByTurns ==
  ASSUME NEW sequence, NEW n \in Nat
  PROVE  \E f : IsGivenUpTo(f, sequence, n) /\ Given(sequence, n) = f[n]
<1> DEFINE item(m) == IF m = 1 THEN Basic(sequence[m].ev) ELSE Process(sequence[m].ev)
           go(f, m) == IF m = 0 THEN <<>>
                       ELSE IF IsWait(sequence[m]) THEN f[m - 1]
                       ELSE Append(f[m - 1], item(m))
           R        == CHOOSE f : f = [m \in 0 .. n |-> go(f, m)]
<1>1. Given(sequence, n) = R[n]
  BY Zenon DEF Given
<1>2. \A f, m : go(f, m) = GivenTurn(f, sequence, m)
  BY DEF GivenTurn
<1>3. \E f : f = [m \in 0 .. n |-> go(f, m)]
  <2>1. PICK f : IsGivenUpTo(f, sequence, n)
    BY GivenExists
  <2>2. f = [m \in 0 .. n |-> GivenTurn(f, sequence, m)]
    BY <2>1 DEF IsGivenUpTo
  <2> HIDE DEF go
  <2>3. f = [m \in 0 .. n |-> go(f, m)]
    BY <1>2, <2>2
  <2>4. QED
    BY <2>3
<1>4. R = [m \in 0 .. n |-> go(R, m)]
  <2> HIDE DEF go
  <2>1. QED
    BY <1>3, Zenon
<1> HIDE DEF R
<1>5. R = [m \in 0 .. n |-> GivenTurn(R, sequence, m)]
  <2> HIDE DEF go
  <2>1. QED
    BY <1>2, <1>4
<1>6. QED
  BY <1>1, <1>5 DEF IsGivenUpTo

\* One trigger more.
LEMMA GivenUnrolls ==
  ASSUME NEW sequence
  PROVE  /\ Given(sequence, 0) = <<>>
         /\ \A n \in Nat \ {0} :
              Given(sequence, n) =
                IF IsWait(sequence[n]) THEN Given(sequence, n - 1)
                ELSE Append(Given(sequence, n - 1),
                            IF n = 1 THEN Basic(sequence[n].ev) ELSE Process(sequence[n].ev))
<1>1. Given(sequence, 0) = <<>>
  <2>1. PICK f : IsGivenUpTo(f, sequence, 0) /\ Given(sequence, 0) = f[0]
    BY GivenByTurns
  <2>2. f[0] = GivenTurn(f, sequence, 0)
    BY <2>1 DEF IsGivenUpTo
  <2>3. QED
    BY <2>1, <2>2 DEF GivenTurn
<1>2. ASSUME NEW n \in Nat \ {0}
      PROVE  Given(sequence, n) =
                IF IsWait(sequence[n]) THEN Given(sequence, n - 1)
                ELSE Append(Given(sequence, n - 1),
                            IF n = 1 THEN Basic(sequence[n].ev) ELSE Process(sequence[n].ev))
  <2>1. PICK f : IsGivenUpTo(f, sequence, n) /\ Given(sequence, n) = f[n]
    BY GivenByTurns
  <2>2. n - 1 \in Nat
    OBVIOUS
  <2>3. PICK h : IsGivenUpTo(h, sequence, n - 1) /\ Given(sequence, n - 1) = h[n - 1]
    BY <2>2, GivenByTurns
  <2>4. /\ \A m \in 0 .. n : f[m] = GivenTurn(f, sequence, m)
        /\ \A m \in 0 .. n - 1 : h[m] = GivenTurn(h, sequence, m)
    BY <2>1, <2>3 DEF IsGivenUpTo
  <2> DEFINE T == {m \in 0 .. n - 1 : f[m] = h[m]}
  <2>5. 0 \in T
    BY <2>2, <2>4 DEF GivenTurn
  <2>6. ASSUME NEW m \in 1 .. n - 1, m - 1 \in T
        PROVE  m \in T
    <3>1. GivenTurn(f, sequence, m) = GivenTurn(h, sequence, m)
      BY <2>6 DEF GivenTurn
    <3>2. QED
      BY <2>4, <3>1
  <2>7. \A m \in 0 .. n - 1 : m \in T
    <3> HIDE DEF T
    <3>1. QED
      BY <2>2, <2>5, <2>6, UpTo
  <2>8. f[n - 1] = h[n - 1]
    BY <2>7
  <2>9. f[n] = GivenTurn(f, sequence, n)
    BY <2>4
  <2>10. QED
    BY <2>1, <2>3, <2>8, <2>9 DEF GivenTurn
<1>3. QED
  BY <1>1, <1>2

\* The outputs a machine for these events is made of.
HasOutputs(Out) == \A ev \in InputEvents \cup {None} : Basic(ev) \in Out /\ Process(ev) \in Out

\* The inputs among the first n triggers, as events.
Pressed(sequence, n) == [j \in DOMAIN Given(sequence, n) |-> Given(sequence, n)[j].ev]

InputOrWait(trigger) ==
  IF IsWait(trigger) THEN trigger.ms \in Durations ELSE trigger.ev \in InputEvents

\* A trigger is an input or a wait.
LEMMA TriggerIs ==
  ASSUME NEW trigger \in Triggers
  PROVE  InputOrWait(trigger)
  BY DEF Triggers, InputOrWait, IsWait

\* What has been given consists of outputs of Out.
LEMMA GivenTyped ==
  ASSUME NEW sq, sq.sequence \in Seq(Triggers), NEW Out, HasOutputs(Out),
         NEW n \in 0 .. Len(sq.sequence)
  PROVE  Given(sq.sequence, n) \in Seq(Out)
<1> DEFINE T == {m \in 0 .. n : Given(sq.sequence, m) \in Seq(Out)}
<1>1. n \in Nat
  <2> HIDE DEF Triggers
  <2>1. Len(sq.sequence) \in Nat
    OBVIOUS
  <2>2. QED
    BY <2>1
<1>2. 0 \in T
  <2>1. <<>> \in Seq(Out)
    OBVIOUS
  <2>2. Given(sq.sequence, 0) = <<>>
    BY GivenUnrolls
  <2>3. Given(sq.sequence, 0) \in Seq(Out)
    BY <2>1, <2>2, Zenon
  <2>4. 0 \in 0 .. n
    BY <1>1
  <2>5. QED
    BY <2>3, <2>4, Zenon
<1>3. ASSUME NEW m \in 1 .. n, m - 1 \in T
      PROVE  m \in T
  <2> DEFINE trigger == sq.sequence[m]
             item    == IF m = 1 THEN Basic(trigger.ev) ELSE Process(trigger.ev)
  <2>1. m \in 1 .. Len(sq.sequence) /\ m \in Nat \ {0} /\ m \in 0 .. n
    OBVIOUS
  <2>2. InputOrWait(trigger)
    <3>1. trigger \in Triggers
      <4> HIDE DEF Triggers
      <4>1. QED
        BY <2>1
    <3>2. QED
      BY <3>1, TriggerIs
  <2>3. ~IsWait(trigger) => item \in Out
    BY <2>2 DEF InputOrWait, HasOutputs
  <2> HIDE DEF item
  <2>4. Given(sq.sequence, m) = IF IsWait(trigger) THEN Given(sq.sequence, m - 1)
                                ELSE Append(Given(sq.sequence, m - 1), item)
    BY <2>1, GivenUnrolls DEF item
  <2>5. Given(sq.sequence, m) \in Seq(Out)
    BY <1>3, <2>3, <2>4
  <2>6. QED
    BY <2>1, <2>5
<1>4. \A m \in 0 .. n : m \in T
  <2> HIDE DEF T
  <2>1. QED
    BY <1>1, <1>2, <1>3, UpTo
<1>5. QED
  BY <1>4, <1>1

\* A turn consumes one trigger or two.
LEMMA ConsumedIs ==
  ASSUME NEW sequence, Len(sequence) \in Nat, NEW i \in 1 .. Len(sequence)
  PROVE  /\ Consumed(sequence, i) \in i .. Len(sequence)
         /\ Consumed(sequence, i) \in {i, i + 1}
         /\ Consumed(sequence, i) = i + 1 =>
              IsWait(sequence[i + 1]) /\ Lookahead(sequence, i) = sequence[i + 1]
         /\ Consumed(sequence, i) = i <=> Lookahead(sequence, i) = None
  BY DEF Consumed, Lookahead

\* So do fallbacks.
LEMMA FallbackTyped ==
  ASSUME NEW sq, sq.sequence \in Seq(Triggers), NEW Out, HasOutputs(Out),
         NEW i \in 1 .. Len(sq.sequence)
  PROVE  FallbackOutputs(sq, i) \in Seq(Out)
<1> DEFINE given == IF sq.behavior = "default"
                      THEN Given(sq.sequence, Consumed(sq.sequence, i)) ELSE <<>>
<1>1. Consumed(sq.sequence, i) \in 0 .. Len(sq.sequence)
  <2>1. Len(sq.sequence) \in Nat
    <3> HIDE DEF Triggers
    <3>1. QED
      OBVIOUS
  <2>2. QED
    BY <2>1, ConsumedIs
<1>2. Given(sq.sequence, Consumed(sq.sequence, i)) \in Seq(Out)
  BY <1>1, GivenTyped
<1>3. given \in Seq(Out)
  BY <1>2
<1>4. Basic(None) \in Out
  BY DEF HasOutputs
<1> HIDE DEF given
<1>5. <<Basic(None)>> \in Seq(Out)
  BY <1>4
<1>6. given \o <<Basic(None)>> \in Seq(Out)
  BY <1>3, <1>5
<1>7. QED
  BY <1>6 DEF FallbackOutputs, given

-----------------------------------------------------------------------------
(* One turn of the loop, in its two halves. *)

\* The machine once the input is taken, before the wait after it is added.
Takes(g, e, sq) ==
  LET event == sq.sequence[g.i].ev IN
  /\ IsMachine(e) /\ e.i = g.i
  /\ \/ /\ event \in DOMAIN g.states[g.current].edges /\ Shareable(g, sq)
        /\ e.states = g.states /\ e.meta = g.meta
        /\ e.current = g.states[g.current].edges[event].new_state
     \/ event \notin DOMAIN g.states[g.current].edges /\ e = AddEdge(g, sq)

\* A turn that ends building takes an input, then adds the wait after it.
LEMMA StepTakes ==
  ASSUME NoneIsNoTransition, NEW g, IsMachine(g), ArmedBut(g.states, {}),
         NEW sq, sq.sequence \in Seq(Triggers), g.i <= Len(sq.sequence), ~Blocked(g, sq)
  PROVE  \E e : LET h == AddTimer(e, sq)
                    k == Step(g, sq)
                IN  /\ Takes(g, e, sq) /\ IsMachine(h)
                    /\ k.states = h.states /\ k.current = h.current
                    /\ k.i = Consumed(sq.sequence, g.i) + 1
<1> DEFINE trigger == sq.sequence[g.i]
           shared  == trigger.ev \in DOMAIN g.states[g.current].edges
           target  == g.states[g.current].edges[trigger.ev].new_state
           k       == Step(g, sq)
<1>1. ~IsWait(trigger) /\ (shared => Shareable(g, sq))
  BY DEF Blocked
<1>2. ASSUME NEW e, Takes(g, e, sq), ArmedBut(e.states, Due(e, sq.sequence)),
             e.states[e.current].fallback.new_state = HOME_STATE_IDX,
             k = [AddTimer(e, sq) EXCEPT !.i = Consumed(sq.sequence, g.i) + 1]
      PROVE  LET h == AddTimer(e, sq) IN
             /\ Takes(g, e, sq) /\ IsMachine(h)
             /\ k.states = h.states /\ k.current = h.current
             /\ k.i = Consumed(sq.sequence, g.i) + 1
  <2> DEFINE h == AddTimer(e, sq)
  <2>1. IsMachine(h)
    BY <1>2, AddTimerKeeps DEF Takes
  <2> HIDE DEF h, k
  <2>2. k.states = h.states /\ k.current = h.current /\ k.i = Consumed(sq.sequence, g.i) + 1
    BY <1>2, <2>1 DEF IsMachine, h
  <2>3. QED
    BY <1>2, <2>1, <2>2 DEF h
<1>3. CASE shared
  <2> DEFINE e == [g EXCEPT !.current = target]
  <2>1. k = [AddTimer(e, sq) EXCEPT !.i = Consumed(sq.sequence, g.i) + 1]
    BY <1>1, <1>3 DEF Step
  <2>2. /\ Wired(g.states) /\ g.current \in DOMAIN g.states
        /\ Onward(g.states, g.current, target)
        /\ g.states[target].fallback.new_state = HOME_STATE_IDX
    BY <1>3 DEF IsMachine, Wired, EdgesLead
  <2>3. target \in DOMAIN g.states
    <3> HIDE DEF target
    <3>1. QED
      BY <2>2, OnwardIsState
  <2> HIDE DEF target
  <2>4. /\ IsMachine(e) /\ e.i = g.i /\ e.states = g.states /\ e.meta = g.meta
        /\ e.current = target
    BY <2>3 DEF IsMachine
  <2> HIDE DEF e, k
  <2>5. Takes(g, e, sq)
    BY <1>1, <1>3, <2>4 DEF Takes, target
  <2>6. ArmedBut(e.states, Due(e, sq.sequence))
    BY <2>4 DEF ArmedBut
  <2>7. e.states[e.current].fallback.new_state = HOME_STATE_IDX
    BY <2>2, <2>4
  <2>8. QED
    BY <1>2, <2>1, <2>5, <2>6, <2>7 DEF k
<1>4. CASE ~shared
  <2> DEFINE e == AddEdge(g, sq)
  <2>1. k = [AddTimer(e, sq) EXCEPT !.i = Consumed(sq.sequence, g.i) + 1]
    BY <1>1, <1>4 DEF Step
  <2>2. /\ IsMachine(e) /\ e.i = g.i /\ ArmedBut(e.states, Due(e, sq.sequence))
        /\ e.states[e.current].fallback.new_state = HOME_STATE_IDX
    BY AddEdgeKeeps
  <2> HIDE DEF k
  <2>3. Takes(g, e, sq)
    BY <1>4, <2>2 DEF Takes
  <2> HIDE DEF e
  <2>4. QED
    BY <1>2, <2>1, <2>2, <2>3 DEF k
<1>5. QED
  BY <1>3, <1>4

-----------------------------------------------------------------------------
(* The events, the outputs and the durations of a machine.                 *)

TypedTransition(t, Out) == t.timer_ms \in Nat \cup {None} /\ t.outputs \in Seq(Out)

TypedState(state, Out, Homes) ==
  /\ DOMAIN state.edges \subseteq InputEvents
  /\ \A ev \in DOMAIN state.edges : TypedTransition(state.edges[ev], Out)
  /\ TypedTransition(state.fallback, Out) /\ state.fallback.timer_ms = None
  /\ state.fallback.new_state \in Homes
  /\ state.timer # None => TypedTransition(state.timer, Out) /\ state.timer.timer_ms = None

Typed(states, Out, Homes) == \A s \in DOMAIN states : TypedState(states[s], Out, Homes)

DurationsAreNumbers == Durations \in SUBSET Nat

\* A new state holds only what Out and Homes allow.
LEMMA FreshStateTyped ==
  ASSUME NEW Out, NEW Homes, NEW outputs \in Seq(Out), NEW home \in Homes
  PROVE  TypedState(State(Transition(None, outputs, home)), Out, Homes)
  BY DEF TypedState, State, Transition, NoEdges, TypedTransition

\* So does a new edge.
LEMMA NewEdgeTyped ==
  ASSUME DurationsAreNumbers, NEW Out, HasOutputs(Out), NEW g,
         NEW sq, sq.sequence \in Seq(Triggers), sq.binds \in Seq(Out),
         g.i \in 1 .. Len(sq.sequence), ~IsWait(sq.sequence[g.i])
  PROVE  sq.sequence[g.i].ev \in InputEvents /\ TypedTransition(NewEdge(g, sq), Out)
<1> DEFINE event == sq.sequence[g.i].ev
           timer == Lookahead(sq.sequence, g.i)
           last  == g.i = Len(sq.sequence)
           echo  == IF sq.behavior = "release" THEN <<Basic(event)>> ELSE <<>>
<1>1. ASSUME NEW j \in 1 .. Len(sq.sequence)
      PROVE  InputOrWait(sq.sequence[j])
  <2>1. sq.sequence[j] \in Triggers
    <3> HIDE DEF Triggers
    <3>1. QED
      OBVIOUS
  <2>2. QED
    BY <2>1, TriggerIs
<1> HIDE DEF Triggers
<1>2. event \in InputEvents
  BY <1>1 DEF InputOrWait
<1>3. timer # None => timer.ms \in Nat
  <2>1. timer # None => g.i + 1 \in 1 .. Len(sq.sequence) /\ timer = sq.sequence[g.i + 1]
                          /\ IsWait(timer)
    BY DEF Lookahead
  <2>2. QED
    BY <1>1, <2>1 DEF InputOrWait, DurationsAreNumbers
<1>4. echo \in Seq(Out)
  <2>1. Basic(event) \in Out
    BY <1>2 DEF HasOutputs
  <2>2. <<Basic(event)>> \in Seq(Out)
    BY <2>1
  <2>3. QED
    BY <2>2
<1> HIDE DEF echo, timer, event
<1>5. NewEdge(g, sq).timer_ms = (IF timer = None THEN None ELSE timer.ms)
      /\ NewEdge(g, sq).outputs = (IF last THEN echo \o sq.binds ELSE echo)
  BY DEF NewEdge, Transition, echo, timer, event
<1>6. echo \o sq.binds \in Seq(Out)
  BY <1>4
<1>7. QED
  BY <1>2, <1>3, <1>4, <1>5, <1>6 DEF TypedTransition, event

\* And the machine with that edge.
LEMMA AddEdgeTyped ==
  ASSUME DurationsAreNumbers, NEW Out, HasOutputs(Out),
         NEW Homes, HOME_STATE_IDX \in Homes,
         NEW g, IsMachine(g), Typed(g.states, Out, Homes),
         NEW sq, sq.sequence \in Seq(Triggers), sq.binds \in Seq(Out),
         g.i \in 1 .. Len(sq.sequence), ~IsWait(sq.sequence[g.i])
  PROVE  Typed(AddEdge(g, sq).states, Out, Homes)
<1> DEFINE h     == AddEdge(g, sq)
           event == sq.sequence[g.i].ev
           edge  == NewEdge(g, sq)
           half  == HalfTyped(sq, g.i)
           new   == Len(g.states) + 1
<1>1. event \in InputEvents /\ TypedTransition(edge, Out)
  BY NewEdgeTyped
<1>2. TypedState(half, Out, Homes)
  <2>1. FallbackOutputs(sq, g.i) \in Seq(Out)
    BY FallbackTyped
  <2>2. QED
    BY <2>1, FreshStateTyped DEF HalfTyped
<1>3. /\ DOMAIN h.states = DOMAIN g.states
                              \cup (IF g.i = Len(sq.sequence) THEN {} ELSE {new})
      /\ g.i # Len(sq.sequence) => h.states[new] = half
      /\ \A s \in DOMAIN g.states :
           /\ h.states[s].fallback = g.states[s].fallback
           /\ h.states[s].timer = g.states[s].timer
           /\ s # g.current => h.states[s].edges = g.states[s].edges
      /\ DOMAIN h.states[g.current].edges = DOMAIN g.states[g.current].edges \cup {event}
      /\ \A ev \in DOMAIN h.states[g.current].edges :
           h.states[g.current].edges[ev] =
             IF ev = event THEN edge ELSE g.states[g.current].edges[ev]
  BY AddEdgeIs DEF EdgeAdded
<1> HIDE DEF h, event, edge, half, new
<1>4. ASSUME NEW s \in DOMAIN g.states
      PROVE  TypedState(h.states[s], Out, Homes)
  <2>1. TypedState(g.states[s], Out, Homes)
    BY DEF Typed
  <2>2. CASE s # g.current
    BY <1>3, <2>1, <2>2 DEF TypedState
  <2>3. CASE s = g.current
    <3>1. DOMAIN h.states[s].edges \subseteq InputEvents
      BY <1>1, <1>3, <2>1, <2>3 DEF TypedState
    <3>2. \A ev \in DOMAIN h.states[s].edges : TypedTransition(h.states[s].edges[ev], Out)
      BY <1>1, <1>3, <2>1, <2>3 DEF TypedState
    <3>3. QED
      BY <1>3, <2>1, <3>1, <3>2 DEF TypedState
  <2>4. QED
    BY <2>2, <2>3
<1>5. \A s \in DOMAIN h.states : s \in DOMAIN g.states \/ h.states[s] = half
  BY <1>3
<1>6. QED
  BY <1>2, <1>4, <1>5 DEF Typed, h

\* And the machine with the timer transition of a wait.
LEMMA AddTimerTyped ==
  ASSUME NEW Out, NEW Homes, NEW g, IsMachine(g), Typed(g.states, Out, Homes),
         NEW sq, sq.binds \in Seq(Out), LoopsAt(sq, g.i) => Indeterminate \in Homes
  PROVE  Typed(AddTimer(g, sq).states, Out, Homes)
<1> DEFINE h == AddTimer(g, sq)
           c == g.current
<1>1. /\ \A s \in DOMAIN h.states :
           s \in DOMAIN g.states \/ (LoopsAt(sq, g.i) /\ h.states[s] = UnfilledState)
      /\ \A s \in DOMAIN g.states :
           /\ h.states[s].fallback = g.states[s].fallback
           /\ h.states[s].edges = g.states[s].edges
           /\ s # c => h.states[s].timer = g.states[s].timer
      /\ TimerOf(g, sq, h.states[c].timer)
  BY AddTimerIs
<1>2. Indeterminate \in Homes => TypedState(UnfilledState, Out, Homes)
  <2>1. <<>> \in Seq(Out)
    OBVIOUS
  <2>2. QED
    BY <2>1, FreshStateTyped DEF UnfilledState
<1>3. c \in DOMAIN g.states
  BY DEF IsMachine
<1> DEFINE t == h.states[c].timer
<1>4. t # None => TypedTransition(t, Out) /\ t.timer_ms = None
  <2>1. TypedState(g.states[c], Out, Homes)
    BY <1>3 DEF Typed
  <2>2. ASSUME NEW outputs \in Seq(Out), NEW to
        PROVE  TypedTransition(Transition(None, outputs, to), Out)
               /\ Transition(None, outputs, to).timer_ms = None
    BY DEF TypedTransition, Transition
  <2>3. <<>> \in Seq(Out)
    OBVIOUS
  <2>4. CASE t = g.states[c].timer
    BY <2>1, <2>4 DEF TypedState
  <2>5. CASE t = g.states[c].fallback
    BY <2>1, <2>5 DEF TypedState
  <2>6. CASE t = Transition(None, sq.binds, HOME_STATE_IDX)
    BY <2>2, <2>6
  <2>7. CASE t = Transition(None, <<>>, Len(g.states) + 1)
    BY <2>2, <2>3, <2>7
  <2>8. QED
    BY <1>1, <2>4, <2>5, <2>6, <2>7 DEF TimerOf
<1> HIDE DEF h
<1>5. ASSUME NEW s \in DOMAIN g.states
      PROVE  TypedState(h.states[s], Out, Homes)
  <2>1. TypedState(g.states[s], Out, Homes)
    BY DEF Typed
  <2>2. CASE s # c
    BY <1>1, <2>1, <2>2 DEF TypedState
  <2>3. CASE s = c
    BY <1>1, <1>4, <2>1, <2>3 DEF TypedState
  <2>4. QED
    BY <2>2, <2>3
<1>6. QED
  BY <1>1, <1>2, <1>5 DEF Typed, h

\* And the machine after a whole turn.
LEMMA StepTyped ==
  ASSUME NoneIsNoTransition, DurationsAreNumbers, NEW Out, HasOutputs(Out),
         NEW Homes, HOME_STATE_IDX \in Homes,
         NEW g, IsMachine(g), ArmedBut(g.states, {}), Typed(g.states, Out, Homes),
         NEW sq, sq.sequence \in Seq(Triggers), sq.binds \in Seq(Out),
         g.i \in 1 .. Len(sq.sequence), LoopsAt(sq, g.i) => Indeterminate \in Homes
  PROVE  Typed(Step(g, sq).states, Out, Homes)
<1>1. CASE Blocked(g, sq)
  BY <1>1, BlockedStops
<1>2. CASE ~Blocked(g, sq)
  <2>1. g.i <= Len(sq.sequence)
    <3>1. Len(sq.sequence) \in Nat
      <4> HIDE DEF Triggers
      <4>1. QED
        OBVIOUS
    <3>2. QED
      BY <3>1
  <2>2. PICK e : Takes(g, e, sq) /\ Step(g, sq).states = AddTimer(e, sq).states
    BY <1>2, <2>1, StepTakes
  <2>3. ~IsWait(sq.sequence[g.i])
    BY <1>2 DEF Blocked
  <2>4. IsMachine(e) /\ e.i = g.i
    BY <2>2 DEF Takes
  <2>5. e.states = g.states \/ e = AddEdge(g, sq)
    BY <2>2 DEF Takes
  <2>6. Typed(e.states, Out, Homes)
    BY <2>3, <2>5, AddEdgeTyped
  <2>7. Typed(AddTimer(e, sq).states, Out, Homes)
    BY <2>4, <2>6, AddTimerTyped
  <2>8. QED
    BY <2>2, <2>7
<1>3. QED
  BY <1>1, <1>2

-----------------------------------------------------------------------------
(* The inputs typed on the way to a state, when sequences have waits. *)

\* Pressed has one event for every output given.
LEMMA GivenEvents ==
  ASSUME NEW sq, sq.sequence \in Seq(Triggers)
  PROVE  \A n \in 0 .. Len(sq.sequence) :
           /\ IsSequence(Given(sq.sequence, n))
           /\ Len(Pressed(sq.sequence, n)) = Len(Given(sq.sequence, n))
           /\ Len(Given(sq.sequence, n)) \in Nat
           /\ IsSequence(Pressed(sq.sequence, n))
<1> SUFFICES ASSUME NEW n \in 0 .. Len(sq.sequence)
             PROVE  /\ IsSequence(Given(sq.sequence, n))
                    /\ Len(Pressed(sq.sequence, n)) = Len(Given(sq.sequence, n))
                    /\ Len(Given(sq.sequence, n)) \in Nat
                    /\ IsSequence(Pressed(sq.sequence, n))
  OBVIOUS
<1> DEFINE Out == {Basic(ev) : ev \in InputEvents \cup {None}}
                    \cup {Process(ev) : ev \in InputEvents \cup {None}}
           given   == Given(sq.sequence, n)
           pressed == [j \in DOMAIN given |-> given[j].ev]
<1>1. HasOutputs(Out)
  BY DEF HasOutputs
<1> HIDE DEF Out
<1>2. given \in Seq(Out)
  BY <1>1, GivenTyped
<1> HIDE DEF given
<1>3. pressed \in Seq({o.ev : o \in Out}) /\ Len(pressed) = Len(given) /\ Len(given) \in Nat
  BY <1>2
<1>4. pressed = Pressed(sq.sequence, n)
  BY DEF Pressed, given
<1> HIDE DEF pressed
<1>5. IsSequence(pressed) /\ IsSequence(given)
  BY <1>2, <1>3, SequenceOfSet
<1>6. QED
  BY <1>3, <1>4, <1>5 DEF given

\* An input more, or a wait.
LEMMA PressedUnrolls ==
  ASSUME NEW sq, sq.sequence \in Seq(Triggers)
  PROVE  /\ Pressed(sq.sequence, 0) = <<>>
         /\ \A n \in 1 .. Len(sq.sequence) :
              Pressed(sq.sequence, n) =
                IF IsWait(sq.sequence[n]) THEN Pressed(sq.sequence, n - 1)
                ELSE Append(Pressed(sq.sequence, n - 1), sq.sequence[n].ev)
<1>1. Pressed(sq.sequence, 0) = <<>>
  <2>1. Given(sq.sequence, 0) = <<>>
    BY GivenUnrolls
  <2>2. DOMAIN Given(sq.sequence, 0) = {}
    BY <2>1
  <2> DEFINE pressed == [j \in {} |-> Given(sq.sequence, 0)[j].ev]
  <2>3. pressed = <<>>
    OBVIOUS
  <2>4. QED
    BY <2>2, <2>3 DEF Pressed
<1>2. ASSUME NEW n \in 1 .. Len(sq.sequence), ~IsWait(sq.sequence[n])
      PROVE  Pressed(sq.sequence, n) = Append(Pressed(sq.sequence, n - 1), sq.sequence[n].ev)
  <2> DEFINE old  == Given(sq.sequence, n - 1)
             item == IF n = 1 THEN Basic(sq.sequence[n].ev) ELSE Process(sq.sequence[n].ev)
             new  == Given(sq.sequence, n)
             p    == Pressed(sq.sequence, n - 1)
             q    == Pressed(sq.sequence, n)
             ev   == sq.sequence[n].ev
             r    == Append(p, ev)
  <2>1. n \in Nat \ {0} /\ n - 1 \in 0 .. Len(sq.sequence) /\ n \in 0 .. Len(sq.sequence)
    OBVIOUS
  <2>2. new = Append(old, item)
    BY <1>2, <2>1, GivenUnrolls
  <2>3. /\ IsSequence(old) /\ IsSequence(p) /\ IsSequence(q)
        /\ Len(p) = Len(old) /\ Len(q) = Len(new) /\ Len(old) \in Nat
    BY <2>1, GivenEvents
  <2>4. item.ev = ev
    BY DEF Basic, Process
  <2>5. /\ \A j \in DOMAIN old : p[j] = old[j].ev
        /\ \A j \in DOMAIN new : q[j] = new[j].ev
    BY DEF Pressed
  <2> HIDE DEF old, new, item, p, q, ev
  <2>6. /\ Len(new) = Len(old) + 1 /\ new[Len(old) + 1] = item
        /\ DOMAIN new = 1 .. Len(old) + 1 /\ DOMAIN old = 1 .. Len(old)
        /\ \A j \in 1 .. Len(old) : new[j] = old[j]
    BY <2>2, <2>3, AppendElement, SequenceDomain
  <2>7. /\ IsSequence(r) /\ Len(r) = Len(p) + 1 /\ r[Len(p) + 1] = ev
        /\ \A j \in 1 .. Len(p) : r[j] = p[j]
    BY <2>3, AppendElement
  <2> HIDE DEF r
  <2>8. \A j \in 1 .. Len(r) : q[j] = r[j]
    BY <2>3, <2>4, <2>5, <2>6, <2>7
  <2>9. Len(q) = Len(r)
    BY <2>3, <2>6, <2>7
  <2> DEFINE S == {q[j] : j \in DOMAIN q} \cup {r[j] : j \in DOMAIN r}
  <2>10. q \in Seq(S) /\ r \in Seq(S)
    <3>1. q \in Seq({q[j] : j \in DOMAIN q}) /\ r \in Seq({r[j] : j \in DOMAIN r})
      BY <2>3, <2>7 DEF IsSequence
    <3> DEFINE A == {q[j] : j \in DOMAIN q}
               B == {r[j] : j \in DOMAIN r}
    <3>2. q \in Seq(A) /\ r \in Seq(B)
      BY <3>1
    <3> HIDE DEF A, B
    <3>3. q \in Seq(A \cup B) /\ r \in Seq(A \cup B)
      BY <3>2
    <3>4. QED
      BY <3>3 DEF A, B
  <2> HIDE DEF S
  <2>11. q = r
    BY <2>8, <2>9, <2>10, SeqEqual
  <2>12. QED
    BY <2>11 DEF q, r, p, ev
<1>3. ASSUME NEW n \in 1 .. Len(sq.sequence), IsWait(sq.sequence[n])
      PROVE  Pressed(sq.sequence, n) = Pressed(sq.sequence, n - 1)
  <2>1. n \in Nat \ {0}
    OBVIOUS
  <2>2. Given(sq.sequence, n) = Given(sq.sequence, n - 1)
    BY <1>3, <2>1, GivenUnrolls
  <2>3. QED
    BY <2>2 DEF Pressed
<1>4. QED
  BY <1>1, <1>2, <1>3

\* The triggers of a sequence, without unfolding what they are.
LEMMA TriggerInSequence ==
  ASSUME NEW sq, sq.sequence \in Seq(Triggers), NEW n \in 1 .. Len(sq.sequence)
  PROVE  InputOrWait(sq.sequence[n]) /\ n \in Nat /\ Len(sq.sequence) \in Nat
<1>1. sq.sequence[n] \in Triggers /\ n \in Nat /\ Len(sq.sequence) \in Nat
  <2> HIDE DEF Triggers
  <2>1. QED
    OBVIOUS
<1>2. QED
  BY <1>1, TriggerIs

\* The inputs typed are input events.
LEMMA PressedTyped ==
  ASSUME NEW sq, sq.sequence \in Seq(Triggers)
  PROVE  \A n \in 0 .. Len(sq.sequence) : Pressed(sq.sequence, n) \in Seq(InputEvents)
<1> DEFINE T == {n \in 0 .. Len(sq.sequence) : Pressed(sq.sequence, n) \in Seq(InputEvents)}
<1>1. Len(sq.sequence) \in Nat
  <2> HIDE DEF Triggers
  <2>1. QED
    OBVIOUS
<1>2. 0 \in T
  <2>1. <<>> \in Seq(InputEvents)
    OBVIOUS
  <2>2. Pressed(sq.sequence, 0) = <<>>
    BY PressedUnrolls
  <2>3. Pressed(sq.sequence, 0) \in Seq(InputEvents)
    BY <2>1, <2>2, Zenon
  <2>4. 0 \in 0 .. Len(sq.sequence)
    BY <1>1
  <2>5. QED
    BY <2>3, <2>4, Zenon
<1>3. ASSUME NEW n \in 1 .. Len(sq.sequence), n - 1 \in T
      PROVE  n \in T
  <2>1. InputOrWait(sq.sequence[n])
    BY TriggerInSequence
  <2> DEFINE p == Pressed(sq.sequence, n - 1)
             q == Pressed(sq.sequence, n)
  <2>2. q = IF IsWait(sq.sequence[n]) THEN p ELSE Append(p, sq.sequence[n].ev)
    BY PressedUnrolls
  <2>3. p \in Seq(InputEvents)
    BY <1>3
  <2> HIDE DEF p, q, Triggers
  <2>4. q \in Seq(InputEvents)
    BY <2>1, <2>2, <2>3 DEF InputOrWait
  <2>5. n \in 0 .. Len(sq.sequence)
    OBVIOUS
  <2>6. QED
    BY <2>4, <2>5 DEF q
<1>4. \A n \in 0 .. Len(sq.sequence) : n \in T
  <2> HIDE DEF T, Triggers
  <2>1. QED
    BY <1>1, <1>2, <1>3, UpTo
<1>5. QED
  BY <1>4

Begins(a, b) == Len(a) <= Len(b) /\ \A j \in 1 .. Len(a) : a[j] = b[j]

\* What is typed first stays typed.
LEMMA PressedGrows ==
  ASSUME NEW sq, sq.sequence \in Seq(Triggers), NEW n \in 0 .. Len(sq.sequence)
  PROVE  \A m \in n .. Len(sq.sequence) :
           Begins(Pressed(sq.sequence, n), Pressed(sq.sequence, m))
<1> DEFINE L == Len(sq.sequence)
           T == {m \in 0 .. L : m < n \/ Begins(Pressed(sq.sequence, n), Pressed(sq.sequence, m))}
<1>1. L \in Nat /\ n \in Nat
  <2> HIDE DEF Triggers
  <2>1. QED
    OBVIOUS
<1>2. \A m \in 0 .. L : Pressed(sq.sequence, m) \in Seq(InputEvents)
  BY PressedTyped
<1>3. Begins(Pressed(sq.sequence, n), Pressed(sq.sequence, n))
  BY <1>2 DEF Begins
<1>4. 0 \in T
  BY <1>1, <1>3
<1>5. ASSUME NEW m \in 1 .. L, m - 1 \in T
      PROVE  m \in T
  <2> DEFINE p == Pressed(sq.sequence, n)
             q == Pressed(sq.sequence, m - 1)
             r == Pressed(sq.sequence, m)
  <2>1. CASE m <= n
    BY <1>1, <1>3, <2>1
  <2>2. CASE n < m
    <3>1. m - 1 \in 0 .. L /\ ~(m - 1 < n) /\ m \in 0 .. L
      BY <1>1, <2>2
    <3>2. Begins(p, q)
      BY <1>5, <3>1
    <3>3. r = IF IsWait(sq.sequence[m]) THEN q ELSE Append(q, sq.sequence[m].ev)
      BY PressedUnrolls
    <3>4. p \in Seq(InputEvents) /\ q \in Seq(InputEvents)
      BY <1>2, <3>1
    <3>5. ~IsWait(sq.sequence[m]) => sq.sequence[m].ev \in InputEvents
      BY TriggerInSequence DEF InputOrWait
    <3> HIDE DEF p, q, r, Triggers
    <3>6. Begins(p, r)
      BY <3>2, <3>3, <3>4, <3>5 DEF Begins
    <3>7. QED
      BY <3>1, <3>6 DEF p, r
  <2>3. QED
    BY <1>1, <2>1, <2>2
<1>6. \A m \in 0 .. L : m \in T
  <2> HIDE DEF T, L, Triggers
  <2>1. QED
    BY <1>1, <1>4, <1>5, UpTo
<1>7. QED
  BY <1>1, <1>6

\* An input later, what was typed before is a proper beginning.
LEMMA PressedMore ==
  ASSUME NEW sq, sq.sequence \in Seq(Triggers), NEW n \in 1 .. Len(sq.sequence),
         ~IsWait(sq.sequence[n])
  PROVE  IsProperPrefix(Pressed(sq.sequence, n - 1), Pressed(sq.sequence, Len(sq.sequence)))
<1> DEFINE p == Pressed(sq.sequence, n - 1)
           q == Pressed(sq.sequence, n)
           r == Pressed(sq.sequence, Len(sq.sequence))
<1>1. /\ n - 1 \in 0 .. Len(sq.sequence) /\ n \in 0 .. Len(sq.sequence)
      /\ Len(sq.sequence) \in n - 1 .. Len(sq.sequence)
      /\ Len(sq.sequence) \in n .. Len(sq.sequence) /\ Len(sq.sequence) \in 0 .. Len(sq.sequence)
  BY TriggerInSequence
<1>2. Begins(p, r) /\ Begins(q, r)
  BY <1>1, PressedGrows
<1>3. p \in Seq(InputEvents) /\ q \in Seq(InputEvents) /\ r \in Seq(InputEvents)
  BY <1>1, PressedTyped
<1>4. q = Append(p, sq.sequence[n].ev)
  BY PressedUnrolls
<1> HIDE DEF p, q, r, Triggers
<1>5. Len(q) = Len(p) + 1
  BY <1>3, <1>4
<1>6. Len(p) < Len(r)
  BY <1>2, <1>3, <1>5 DEF Begins
<1> DEFINE t == SubSeq(r, 1, Len(p))
<1>7. t \in Seq(InputEvents) /\ Len(t) = Len(p) /\ \A j \in 1 .. Len(p) : t[j] = r[j]
  BY <1>3, <1>6
<1> HIDE DEF t
<1>8. t = p
  BY <1>2, <1>3, <1>7, SeqEqual DEF Begins
<1>9. QED
  BY <1>6, <1>8 DEF IsProperPrefix, p, r, t

-----------------------------------------------------------------------------
(* What a half-typed sequence owes is less than what was typed of it. *)

\* Outputs without a second look have no member processed.
LEMMA NoneProcessed ==
  ASSUME NEW S, \A o \in S : o.kind # "process", NEW outputs \in Seq(S)
  PROVE  Tables!Processed(outputs) = {}
  BY DEF Tables!Processed

\* The instance has a copy of FiniteSets.
LEMMA SameCardinality ==
  \A S : Tables!Cardinality(S) = Cardinality(S)
  BY DEF Tables!Cardinality, Cardinality

\* At most n - 1 members of 2 .. n are processed.
LEMMA FewProcessed ==
  ASSUME NEW outputs, NEW n \in Nat \ {0},
         \A j \in Tables!Processed(outputs) : j \in 2 .. n
  PROVE  Cardinality(Tables!Processed(outputs)) < n
<1> DEFINE S == Tables!Processed(outputs)
<1>1. IsFiniteSet(2 .. n) /\ Cardinality(2 .. n) = n - 1
  <2>1. IsFiniteSet(2 .. n) /\ Cardinality(2 .. n) = IF 2 > n THEN 0 ELSE n - 2 + 1
    BY FS_Interval
  <2>2. QED
    BY <2>1
<1>2. S \subseteq 2 .. n
  OBVIOUS
<1> HIDE DEF S
<1>3. Cardinality(S) <= Cardinality(2 .. n) /\ Cardinality(S) \in Nat
  BY <1>1, <1>2, FS_Subset, FS_CardinalityType
<1>4. QED
  BY <1>1, <1>3 DEF S

\* Only the first input is translated.
LEMMA GivenKinds ==
  ASSUME NEW sq, sq.sequence \in Seq(Triggers), Len(sq.sequence) >= 1,
         ~IsWait(sq.sequence[1])
  PROVE  \A n \in 1 .. Len(sq.sequence) :
           Len(Given(sq.sequence, n)) >= 1 /\ Given(sq.sequence, n)[1].kind = "basic"
<1> DEFINE L == Len(sq.sequence)
           first(s) == Len(s) >= 1 /\ s[1].kind = "basic"
           T == {n \in 0 .. L : n = 0 \/ first(Given(sq.sequence, n))}
<1>1. L \in Nat /\ 1 \in 1 .. L
  <2>1. L \in Nat
    <3> HIDE DEF Triggers
    <3>1. QED
      OBVIOUS
  <2>2. QED
    BY <2>1
<1>2. 0 \in T
  BY <1>1
<1>3. ASSUME NEW n \in 1 .. L, n - 1 \in T
      PROVE  n \in T
  <2> DEFINE old  == Given(sq.sequence, n - 1)
             item == IF n = 1 THEN Basic(sq.sequence[n].ev) ELSE Process(sq.sequence[n].ev)
             new  == Given(sq.sequence, n)
  <2>1. n \in Nat \ {0} /\ n - 1 \in 0 .. L /\ n \in 0 .. L
    BY <1>1
  <2>2. new = IF IsWait(sq.sequence[n]) THEN old ELSE Append(old, item)
    BY <2>1, GivenUnrolls
  <2>3. IsSequence(old) /\ Len(old) \in Nat
    BY <2>1, GivenEvents
  <2>4. CASE n = 1
    <3>1. old = <<>> /\ ~IsWait(sq.sequence[n])
      BY <2>4, GivenUnrolls
    <3>2. item.kind = "basic"
      BY <2>4 DEF Basic
    <3> HIDE DEF old, new, item
    <3>3. new = <<item>>
      BY <2>2, <3>1
    <3>4. Len(<<item>>) = 1 /\ <<item>>[1] = item
      OBVIOUS
    <3>5. first(new)
      BY <3>2, <3>3, <3>4
    <3>6. QED
      BY <2>1, <3>5 DEF new
  <2>5. CASE n # 1
    <3>1. first(old)
      BY <1>3, <2>1, <2>5
    <3> HIDE DEF old, new, item
    <3>2. /\ Len(Append(old, item)) = Len(old) + 1
          /\ \A j \in 1 .. Len(old) : Append(old, item)[j] = old[j]
      BY <2>3, AppendElement
    <3>3. 1 \in 1 .. Len(old)
      BY <2>3, <3>1
    <3>4. first(Append(old, item))
      BY <2>3, <3>1, <3>2, <3>3
    <3>5. first(new)
      BY <2>2, <3>1, <3>4
    <3>6. QED
      BY <2>1, <3>5 DEF new
  <2>6. QED
    BY <2>4, <2>5
<1>4. \A n \in 0 .. L : n \in T
  <2> HIDE DEF T, L
  <2>1. QED
    BY <1>1, <1>2, <1>3, UpTo
<1>5. QED
  BY <1>1, <1>4

\* A fallback goes home with less to process than was typed.
LEMMA FallbackGoesBack ==
  ASSUME NEW sq, sq.sequence \in Seq(Triggers), ~IsWait(sq.sequence[1]),
         NEW i \in 1 .. Len(sq.sequence), ~IsWait(sq.sequence[i])
  PROVE  Tables!GoesBack(HalfTyped(sq, i).fallback, Len(Pressed(sq.sequence, i)))
<1> DEFINE c     == Consumed(sq.sequence, i)
           given == Given(sq.sequence, c)
           last  == <<Basic(None)>>
           outs  == (IF sq.behavior = "default" THEN given ELSE <<>>) \o last
<1>1. Len(sq.sequence) \in Nat /\ i \in Nat /\ Len(sq.sequence) >= 1 /\ i \in 0 .. Len(sq.sequence)
  BY TriggerInSequence
<1>2. /\ c \in 1 .. Len(sq.sequence) /\ c \in 0 .. Len(sq.sequence)
      /\ c = i \/ (c = i + 1 /\ IsWait(sq.sequence[i + 1]))
  BY <1>1, ConsumedIs
<1>3. Len(given) = Len(Pressed(sq.sequence, i))
  <2>1. Len(given) = Len(Pressed(sq.sequence, c))
    BY <1>2, GivenEvents
  <2>2. c = i + 1 => Pressed(sq.sequence, c) = Pressed(sq.sequence, i)
    <3> SUFFICES ASSUME c = i + 1 PROVE Pressed(sq.sequence, c) = Pressed(sq.sequence, i)
      OBVIOUS
    <3>1. c - 1 = i /\ IsWait(sq.sequence[c]) /\ c \in 1 .. Len(sq.sequence)
      BY <1>1, <1>2
    <3> HIDE DEF c
    <3>2. QED
      BY <3>1, PressedUnrolls
  <2>3. QED
    BY <1>2, <2>1, <2>2
<1>4. IsSequence(given) /\ Len(given) \in Nat /\ Len(given) >= 1 /\ given[1].kind = "basic"
  BY <1>1, <1>2, GivenEvents, GivenKinds
<1>5. HalfTyped(sq, i).fallback.outputs = outs /\ HalfTyped(sq, i).fallback.new_state = HOME_STATE_IDX
  BY DEF HalfTyped, FallbackOutputs, State, Transition
<1>6. Len(last) = 1 /\ last[1].kind = "basic" /\ IsSequence(last)
  <2>1. last \in Seq({Basic(None)}) /\ Len(last) = 1 /\ last[1] = Basic(None)
    OBVIOUS
  <2> HIDE DEF last
  <2>2. QED
    BY <2>1, SequenceOfSet DEF Basic
<1> HIDE DEF given, last
<1>7. CASE sq.behavior # "default"
  <2>1. outs = last
    <3>1. <<>> \o last = last
      BY <1>6 DEF IsSequence
    <3>2. QED
      BY <1>7, <3>1
  <2>2. Tables!Processed(last) = {}
    BY <1>6, SequenceDomain DEF Tables!Processed
  <2>3. QED
    BY <1>5, <2>1, <2>2 DEF Tables!GoesBack, Tables!HOME_STATE_IDX, HOME_STATE_IDX
<1>8. CASE sq.behavior = "default"
  <2> DEFINE S == {given[j] : j \in DOMAIN given} \cup {last[j] : j \in DOMAIN last}
             both == given \o last
             n    == Len(given)
  <2>1. /\ both \in Seq(S) /\ Len(both) = n + 1 /\ both[n + 1] = last[1]
        /\ \A j \in 1 .. n : both[j] = given[j]
    <3> DEFINE A == {given[j] : j \in DOMAIN given}
               B == {last[j] : j \in DOMAIN last}
    <3>1. given \in Seq(A) /\ last \in Seq(B)
      BY <1>4, <1>6 DEF IsSequence
    <3> HIDE DEF A, B
    <3>2. given \in Seq(A \cup B) /\ last \in Seq(A \cup B)
      BY <3>1
    <3>3. given \o last \in Seq(A \cup B)
      BY <3>2
    <3>4. /\ Len(given \o last) = Len(given) + Len(last)
          /\ \A j \in 1 .. Len(given) : (given \o last)[j] = given[j]
      BY <3>2, StartOfConcat
    <3>5. \A j \in 1 .. Len(last) : (given \o last)[Len(given) + j] = last[j]
      BY <3>2
    <3>6. (given \o last)[n + 1] = last[1]
      <4>1. 1 \in 1 .. Len(last)
        BY <1>6
      <4>2. QED
        BY <3>5, <4>1, Zenon
    <3>7. QED
      BY <1>6, <3>3, <3>4, <3>6 DEF A, B
  <2>2. outs = both
    BY <1>8
  <2> HIDE DEF S, both, outs
  <2>3. DOMAIN both = 1 .. n + 1
    BY <1>4, <2>1
  <2>4. \A j \in Tables!Processed(both) : j \in 2 .. n
    <3> SUFFICES ASSUME NEW j \in Tables!Processed(both) PROVE j \in 2 .. n
      OBVIOUS
    <3>1. j \in 1 .. n + 1 /\ both[j].kind = "process"
      BY <2>3 DEF Tables!Processed
    <3>2. j # 1 /\ j # n + 1
      BY <1>4, <1>6, <2>1, <3>1
    <3>3. QED
      BY <1>4, <3>1, <3>2
  <2>5. Cardinality(Tables!Processed(both)) < n
    BY <1>4, <2>4, FewProcessed
  <2>6. Tables!Cardinality(Tables!Processed(both)) < Len(Pressed(sq.sequence, i))
    BY <1>3, <2>5, SameCardinality
  <2>7. QED
    BY <1>5, <2>2, <2>6 DEF Tables!GoesBack, Tables!HOME_STATE_IDX, HOME_STATE_IDX
<1>9. QED
  BY <1>7, <1>8

-----------------------------------------------------------------------------
(* The machine of a layer whose minimum waits come last and none of whose  *)
(* sequences, up to its last input, begins another: P[s] are the inputs on *)
(* the way from home to s.                                                 *)

AllPressed(sq) == Pressed(sq.sequence, Len(sq.sequence))

EndsInInput(sq) == Len(sq.sequence) >= 1 /\ ~EndsInWait(sq)

\* A minimum wait is the end of its sequence.
MinWaitsLast(sq) == \A n \in 1 .. Len(sq.sequence) - 1 : sq.sequence[n].kind # "min"

Tidy(layer) ==
  /\ \A a \in layer : MinWaitsLast(a)
  /\ \A a, b \in layer : EndsInInput(a) => ~IsProperPrefix(AllPressed(a), AllPressed(b))

Branches(states, layer, P, s) ==
  \A ev \in DOMAIN states[s].edges :
    LET edge == states[s].edges[ev]
        path == Append(P[s], ev)
    IN  /\ Tables!Processed(edge.outputs) = {}
        /\ edge.new_state = HOME_STATE_IDX =>
             \E a \in layer : EndsInInput(a) /\ AllPressed(a) = path
        /\ edge.new_state # HOME_STATE_IDX => P[edge.new_state] = path

GivesLessBack(state, rank) ==
  /\ Tables!GoesBack(state.fallback, rank)
  /\ state.timer # None => Tables!GoesBack(state.timer, rank)

Rooted(states, layer, P) ==
  /\ P[HOME_STATE_IDX] = <<>>
  /\ \A s \in DOMAIN states :
       /\ P[s] \in Seq(InputEvents) /\ Len(P[s]) < s
       /\ Branches(states, layer, P, s)
       /\ GivesLessBack(states[s], Len(P[s]))

\* Such a sequence never makes the walk go on behind a minimum wait.
LEMMA NoLoop ==
  ASSUME NEW sq, sq.sequence \in Seq(Triggers), MinWaitsLast(sq),
         NEW i \in 1 .. Len(sq.sequence)
  PROVE  /\ ~LoopsAt(sq, i)
         /\ Lookahead(sq.sequence, i) # None /\ Lookahead(sq.sequence, i).kind # "max" =>
              Consumed(sq.sequence, i) = Len(sq.sequence)
<1> DEFINE wait == Lookahead(sq.sequence, i)
<1>1. wait # None => /\ wait = sq.sequence[i + 1] /\ i < Len(sq.sequence)
                     /\ Consumed(sq.sequence, i) = i + 1 /\ wait.kind \in {"min", "max"}
  BY DEF Lookahead, Consumed, IsWait
<1>2. i \in Nat /\ Len(sq.sequence) \in Nat
  BY TriggerInSequence
<1>3. wait # None /\ wait.kind = "min" => Consumed(sq.sequence, i) = Len(sq.sequence)
  <2> SUFFICES ASSUME wait # None, wait.kind = "min", i + 1 # Len(sq.sequence)
               PROVE  FALSE
    BY <1>1
  <2>1. i + 1 \in 1 .. Len(sq.sequence) - 1
    BY <1>1, <1>2
  <2>2. QED
    BY <1>1, <2>1 DEF MinWaitsLast
<1>4. QED
  BY <1>1, <1>3 DEF LoopsAt

\* The binds of a sequence process nothing.
LEMMA NewEdgeQuiet ==
  ASSUME NEW g, NEW sq, sq.binds \in Seq(Tables!Binds)
  PROVE  Tables!Processed(NewEdge(g, sq).outputs) = {}
<1> DEFINE event == sq.sequence[g.i].ev
           echo  == IF sq.behavior = "release" THEN <<Basic(event)>> ELSE <<>>
           S     == Tables!Binds \cup {Basic(event)}
           outs  == IF g.i = Len(sq.sequence) THEN echo \o sq.binds ELSE echo
<1>1. \A o \in S : o.kind # "process"
  BY DEF Tables!Binds, Basic
<1>2. sq.binds \in Seq(S) /\ Basic(event) \in S
  <2> HIDE DEF event
  <2>1. QED
    OBVIOUS
<1> HIDE DEF S
<1>3. echo \in Seq(S)
  BY <1>2
<1>4. NewEdge(g, sq).outputs = outs
  BY DEF NewEdge, Transition
<1> HIDE DEF echo
<1>5. outs \in Seq(S)
  BY <1>2, <1>3
<1> HIDE DEF outs
<1>6. QED
  BY <1>1, <1>4, <1>5, NoneProcessed

\* The last input of a sequence adds no state.
LEMMA LastEdgeRooted ==
  ASSUME NEW g, IsMachine(g), NEW layer, NEW P, Rooted(g.states, layer, P),
         NEW sq \in layer, sq.sequence \in Seq(Triggers), sq.binds \in Seq(Tables!Binds),
         g.i \in 1 .. Len(sq.sequence), g.i = Len(sq.sequence), ~IsWait(sq.sequence[g.i]),
         P[g.current] = Pressed(sq.sequence, g.i - 1)
  PROVE  Rooted(AddEdge(g, sq).states, layer, P)
<1> DEFINE h     == AddEdge(g, sq)
           event == sq.sequence[g.i].ev
           edge  == NewEdge(g, sq)
           c     == g.current
<1>1. /\ DOMAIN h.states = DOMAIN g.states
                              \cup (IF g.i = Len(sq.sequence) THEN {} ELSE {Len(g.states) + 1})
      /\ \A s \in DOMAIN g.states :
           /\ h.states[s].fallback = g.states[s].fallback
           /\ h.states[s].timer = g.states[s].timer
           /\ s # c => h.states[s].edges = g.states[s].edges
      /\ DOMAIN h.states[c].edges = DOMAIN g.states[c].edges \cup {event}
      /\ \A ev \in DOMAIN h.states[c].edges :
           h.states[c].edges[ev] = IF ev = event THEN edge ELSE g.states[c].edges[ev]
  <2>1. EdgeAdded(g, h, sq)
    BY AddEdgeIs
  <2> HIDE DEF h
  <2>2. QED
    BY <2>1 DEF EdgeAdded, event, edge
<1>2. edge.new_state = HOME_STATE_IDX
  BY DEF NewEdge, Transition
<1>3. Tables!Processed(edge.outputs) = {}
  BY NewEdgeQuiet
<1>4. EndsInInput(sq) /\ AllPressed(sq) = Append(P[c], event)
  <2>1. Pressed(sq.sequence, g.i) = Append(Pressed(sq.sequence, g.i - 1), event)
    BY PressedUnrolls
  <2>2. Len(sq.sequence) >= 1
    BY TriggerInSequence
  <2>3. QED
    BY <2>1, <2>2 DEF EndsInInput, EndsInWait, AllPressed
<1> HIDE DEF h, event, edge
<1>5. ASSUME NEW s \in DOMAIN g.states
      PROVE  /\ P[s] \in Seq(InputEvents) /\ Len(P[s]) < s
             /\ Branches(h.states, layer, P, s)
             /\ GivesLessBack(h.states[s], Len(P[s]))
  <2>1. /\ P[s] \in Seq(InputEvents) /\ Len(P[s]) < s
        /\ Branches(g.states, layer, P, s)
        /\ GivesLessBack(g.states[s], Len(P[s]))
    BY DEF Rooted
  <2>2. GivesLessBack(h.states[s], Len(P[s]))
    BY <1>1, <2>1 DEF GivesLessBack
  <2>3. Branches(h.states, layer, P, s)
    <3>1. CASE s # c
      BY <1>1, <2>1, <3>1 DEF Branches
    <3>2. CASE s = c
      BY <1>1, <1>2, <1>3, <1>4, <2>1, <3>2 DEF Branches
    <3>3. QED
      BY <3>1, <3>2
  <2>4. QED
    BY <2>1, <2>2, <2>3
<1>6. DOMAIN h.states = DOMAIN g.states
  BY <1>1
<1>7. QED
  BY <1>5, <1>6 DEF Rooted, h

\* Any other new input adds one.
LEMMA OtherEdgeRooted ==
  ASSUME NEW g, IsMachine(g), NEW layer, NEW P, Rooted(g.states, layer, P),
         NEW sq \in layer, sq.sequence \in Seq(Triggers), sq.binds \in Seq(Tables!Binds),
         g.i \in 1 .. Len(sq.sequence), g.i # Len(sq.sequence), ~IsWait(sq.sequence[g.i]),
         P[g.current] = Pressed(sq.sequence, g.i - 1), ~IsWait(sq.sequence[1])
  PROVE  \E Q : /\ Rooted(AddEdge(g, sq).states, layer, Q)
                /\ Q[AddEdge(g, sq).current] = Pressed(sq.sequence, g.i)
<1> DEFINE h     == AddEdge(g, sq)
           event == sq.sequence[g.i].ev
           edge  == NewEdge(g, sq)
           half  == HalfTyped(sq, g.i)
           c     == g.current
           n     == Len(g.states)
           new   == Len(g.states) + 1
           path  == Pressed(sq.sequence, g.i)
           Q     == Longer(P, new, path)
<1>1. /\ DOMAIN h.states = DOMAIN g.states
                              \cup (IF g.i = Len(sq.sequence) THEN {} ELSE {new})
      /\ g.i # Len(sq.sequence) => h.states[new] = half /\ new \notin DOMAIN g.states
      /\ h.current = edge.new_state
      /\ \A s \in DOMAIN g.states :
           /\ h.states[s].fallback = g.states[s].fallback
           /\ h.states[s].timer = g.states[s].timer
           /\ s # c => h.states[s].edges = g.states[s].edges
      /\ DOMAIN h.states[c].edges = DOMAIN g.states[c].edges \cup {event}
      /\ \A ev \in DOMAIN h.states[c].edges :
           h.states[c].edges[ev] = IF ev = event THEN edge ELSE g.states[c].edges[ev]
  <2>1. EdgeAdded(g, h, sq)
    BY AddEdgeIs
  <2> HIDE DEF h
  <2>2. QED
    BY <2>1 DEF EdgeAdded, event, edge, half, new
<1>2. edge.new_state = new
  BY DEF NewEdge, Transition
<1>3. Tables!Processed(edge.outputs) = {}
  BY NewEdgeQuiet
<1>4. path = Append(P[c], event) /\ path \in Seq(InputEvents) /\ event \in InputEvents
  <2>1. path = Append(Pressed(sq.sequence, g.i - 1), event)
    BY PressedUnrolls
  <2>2. g.i \in 0 .. Len(sq.sequence)
    BY TriggerInSequence
  <2>3. path \in Seq(InputEvents)
    BY <2>2, PressedTyped
  <2>4. event \in InputEvents
    BY TriggerInSequence DEF InputOrWait
  <2>5. QED
    BY <2>1, <2>3, <2>4
<1>5. /\ DOMAIN half.edges = {} /\ half.timer = None
      /\ Tables!GoesBack(half.fallback, Len(path))
  <2>1. Tables!GoesBack(half.fallback, Len(path))
    BY FallbackGoesBack
  <2>2. DOMAIN half.edges = {} /\ half.timer = None
    BY DEF HalfTyped, State, NoEdges
  <2>3. QED
    BY <2>1, <2>2
<1> HIDE DEF h, event, edge, half, path, new
<1>6. /\ DOMAIN h.states = DOMAIN g.states \cup {new}
      /\ h.states[new] = half /\ new \notin DOMAIN g.states
  BY <1>1
<1>7. /\ Wired(g.states) /\ n \in Nat /\ DOMAIN g.states = 1 .. n /\ c \in 1 .. n /\ n >= 1
  BY SequenceDomain DEF IsMachine, Wired, HOME_STATE_IDX
<1> HIDE DEF n
<1>8. new = n + 1 /\ Q[new] = path /\ \A s \in 1 .. n : Q[s] = P[s]
  BY <1>7 DEF Longer, n, new
<1> HIDE DEF Q
<1>9. Len(path) = Len(P[c]) + 1 /\ Len(path) < new
  <2>1. P[c] \in Seq(InputEvents) /\ Len(P[c]) < c
    BY <1>7 DEF Rooted
  <2>2. Len(path) = Len(P[c]) + 1
    BY <1>4, <2>1
  <2>3. Len(P[c]) \in Nat
    BY <2>1
  <2>4. QED
    BY <1>7, <1>8, <2>1, <2>2, <2>3
<1>10. ASSUME NEW s \in 1 .. n
      PROVE  /\ Q[s] \in Seq(InputEvents) /\ Len(Q[s]) < s
             /\ Branches(h.states, layer, Q, s)
             /\ GivesLessBack(h.states[s], Len(Q[s]))
  <2>1. /\ P[s] \in Seq(InputEvents) /\ Len(P[s]) < s
        /\ Branches(g.states, layer, P, s)
        /\ GivesLessBack(g.states[s], Len(P[s]))
    BY <1>7 DEF Rooted
  <2>2. GivesLessBack(h.states[s], Len(Q[s]))
    BY <1>1, <1>7, <1>8, <2>1 DEF GivesLessBack
  <2>3. Branches(h.states, layer, Q, s)
    <3>1. ASSUME NEW ev \in DOMAIN g.states[s].edges
          PROVE  LET t == g.states[s].edges[ev].new_state IN Q[t] = P[t]
      <4> DEFINE t == g.states[s].edges[ev].new_state
      <4>1. Onward(g.states, s, t)
        BY <1>7 DEF Wired, EdgesLead
      <4> HIDE DEF t
      <4>2. t \in DOMAIN g.states
        BY <1>7, <4>1, OnwardIsState
      <4>3. Q[t] = P[t]
        BY <1>7, <1>8, <4>2
      <4>4. QED
        BY <4>3 DEF t
    <3>2. Branches(g.states, layer, Q, s)
      BY <1>8, <2>1, <3>1 DEF Branches
    <3>3. CASE s # c
      BY <1>1, <1>7, <3>2, <3>3 DEF Branches
    <3>4. CASE s = c
      <4>1. new # HOME_STATE_IDX
        BY <1>7, <1>8 DEF HOME_STATE_IDX
      <4>2. Q[new] = Append(Q[c], event)
        BY <1>4, <1>7, <1>8
      <4>3. QED
        BY <1>1, <1>2, <1>3, <3>2, <3>4, <4>1, <4>2 DEF Branches
    <3>5. QED
      BY <3>3, <3>4
  <2>4. QED
    BY <1>8, <2>1, <2>2, <2>3
<1>11. /\ Q[new] \in Seq(InputEvents) /\ Len(Q[new]) < new
       /\ Branches(h.states, layer, Q, new)
       /\ GivesLessBack(h.states[new], Len(Q[new]))
  BY <1>6, <1>4, <1>5, <1>8, <1>9 DEF Branches, GivesLessBack
<1>12. Q[HOME_STATE_IDX] = <<>>
  <2>1. P[HOME_STATE_IDX] = <<>>
    BY DEF Rooted
  <2>2. HOME_STATE_IDX \in 1 .. n
    BY <1>7 DEF HOME_STATE_IDX
  <2>3. QED
    BY <1>8, <2>1, <2>2
<1>13. Rooted(h.states, layer, Q)
  BY <1>6, <1>7, <1>10, <1>11, <1>12 DEF Rooted
<1>14. QED
  BY <1>1, <1>2, <1>8, <1>13 DEF h, path

\* A wait leaves the ways to the states as they are.
LEMMA AddTimerRooted ==
  ASSUME NEW g, IsMachine(g), NEW layer, NEW P, Rooted(g.states, layer, P),
         NEW sq, sq.binds \in Seq(Tables!Binds), ~LoopsAt(sq, g.i)
  PROVE  Rooted(AddTimer(g, sq).states, layer, P)
<1> DEFINE h == AddTimer(g, sq)
           c == g.current
           t == h.states[c].timer
<1>1. /\ DOMAIN h.states = DOMAIN g.states \cup {}
      /\ \A s \in DOMAIN g.states :
           /\ h.states[s].fallback = g.states[s].fallback
           /\ h.states[s].edges = g.states[s].edges
           /\ s # c => h.states[s].timer = g.states[s].timer
      /\ TimerOf(g, sq, t)
  BY AddTimerIs
<1>2. c \in DOMAIN g.states
  BY DEF IsMachine
<1>3. t # None => Tables!GoesBack(t, Len(P[c]))
  <2>1. GivesLessBack(g.states[c], Len(P[c]))
    BY <1>2 DEF Rooted
  <2>2. CASE t = g.states[c].timer \/ t = g.states[c].fallback
    BY <2>1, <2>2 DEF GivesLessBack
  <2>3. CASE t = Transition(None, sq.binds, HOME_STATE_IDX)
    <3>1. \A o \in Tables!Binds : o.kind # "process"
      BY DEF Tables!Binds
    <3>2. Tables!Processed(sq.binds) = {}
      BY <3>1, NoneProcessed
    <3>3. t.new_state = HOME_STATE_IDX /\ t.outputs = sq.binds
      BY <2>3 DEF Transition
    <3> HIDE DEF t
    <3>4. QED
      BY <3>2, <3>3 DEF Tables!GoesBack, Tables!HOME_STATE_IDX, HOME_STATE_IDX
  <2>4. QED
    BY <1>1, <2>2, <2>3 DEF TimerOf
<1> HIDE DEF h
<1>4. ASSUME NEW s \in DOMAIN g.states
      PROVE  /\ P[s] \in Seq(InputEvents) /\ Len(P[s]) < s
             /\ Branches(h.states, layer, P, s)
             /\ GivesLessBack(h.states[s], Len(P[s]))
  <2>1. /\ P[s] \in Seq(InputEvents) /\ Len(P[s]) < s
        /\ Branches(g.states, layer, P, s)
        /\ GivesLessBack(g.states[s], Len(P[s]))
    BY DEF Rooted
  <2>2. Branches(h.states, layer, P, s)
    BY <1>1, <2>1 DEF Branches
  <2>3. GivesLessBack(h.states[s], Len(P[s]))
    BY <1>1, <1>3, <2>1 DEF GivesLessBack
  <2>4. QED
    BY <2>1, <2>2, <2>3
<1>5. QED
  BY <1>1, <1>4 DEF Rooted, h

\* The wait after an input types nothing.
LEMMA PressedConsumed ==
  ASSUME NEW sq, sq.sequence \in Seq(Triggers), NEW i \in 1 .. Len(sq.sequence)
  PROVE  Pressed(sq.sequence, Consumed(sq.sequence, i)) = Pressed(sq.sequence, i)
<1> DEFINE c == Consumed(sq.sequence, i)
<1>1. Len(sq.sequence) \in Nat /\ i \in Nat
  BY TriggerInSequence
<1>2. /\ c \in 1 .. Len(sq.sequence)
      /\ c = i \/ (c = i + 1 /\ IsWait(sq.sequence[i + 1]))
  BY <1>1, ConsumedIs
<1>3. ASSUME c = i + 1
      PROVE  Pressed(sq.sequence, c) = Pressed(sq.sequence, i)
  <2>1. c - 1 = i /\ IsWait(sq.sequence[c]) /\ c \in 1 .. Len(sq.sequence)
    BY <1>1, <1>2, <1>3
  <2> HIDE DEF c
  <2>2. QED
    BY <2>1, PressedUnrolls
<1>4. QED
  BY <1>2, <1>3

\* The walk stands where the inputs it has consumed lead.
Walking(P, g, sq) ==
  g.status = "building" /\ g.i <= Len(sq.sequence) /\ ~IsWait(sq.sequence[g.i]) =>
    P[g.current] = Pressed(sq.sequence, g.i - 1) /\ ~IsWait(sq.sequence[1])

\* One turn of the loop.
LEMMA StepRooted ==
  ASSUME NoneIsNoTransition, NEW g, IsMachine(g), ArmedBut(g.states, {}),
         NEW layer, Tidy(layer), NEW P, Rooted(g.states, layer, P),
         NEW sq \in layer, sq.sequence \in Seq(Triggers), sq.binds \in Seq(Tables!Binds),
         g.status = "building", g.i \in 1 .. Len(sq.sequence), Walking(P, g, sq)
  PROVE  \E Q : Rooted(Step(g, sq).states, layer, Q) /\ Walking(Q, Step(g, sq), sq)
<1> DEFINE k == Step(g, sq)
           i == g.i
           c == Consumed(sq.sequence, i)
           event == sq.sequence[i].ev
           more == c + 1 <= Len(sq.sequence) /\ ~IsWait(sq.sequence[c + 1])
<1>1. CASE Blocked(g, sq)
  <2>1. k.states = g.states /\ k.status # "building"
    BY <1>1, BlockedStops
  <2> HIDE DEF k
  <2>2. QED
    BY <2>1 DEF Walking, k
<1>2. CASE ~Blocked(g, sq)
  <2>1. Len(sq.sequence) \in Nat /\ i \in Nat /\ i <= Len(sq.sequence)
    BY TriggerInSequence
  <2>2. ~IsWait(sq.sequence[i])
    BY <1>2 DEF Blocked
  <2>3. P[g.current] = Pressed(sq.sequence, i - 1) /\ ~IsWait(sq.sequence[1])
    BY <2>1, <2>2 DEF Walking
  <2>4. PICK e : LET h == AddTimer(e, sq)
                 IN  /\ Takes(g, e, sq) /\ IsMachine(h)
                     /\ k.states = h.states /\ k.current = h.current /\ k.i = c + 1
    BY <1>2, <2>1, StepTakes
  <2> DEFINE h == AddTimer(e, sq)
  <2>5. k.states = h.states /\ k.current = h.current /\ k.i = c + 1
    BY <2>4
  <2>6. IsMachine(e) /\ e.i = i
    BY <2>4 DEF Takes
  <2> HIDE DEF k
  <2>7. c \in i .. Len(sq.sequence) /\ Pressed(sq.sequence, c) = Pressed(sq.sequence, i)
    BY <2>1, ConsumedIs, PressedConsumed
  <2>8. Pressed(sq.sequence, i) = Append(P[g.current], event)
    BY <2>2, <2>3, PressedUnrolls
  <2>9. ~LoopsAt(sq, i) /\ (more => Lookahead(sq.sequence, i) = None
                                      \/ Lookahead(sq.sequence, i).kind = "max")
    <3>1. MinWaitsLast(sq)
      BY DEF Tidy
    <3>2. c # Len(sq.sequence) => Lookahead(sq.sequence, i) = None
                                    \/ Lookahead(sq.sequence, i).kind = "max"
      BY <3>1, NoLoop
    <3>3. more => c # Len(sq.sequence)
      BY <2>1, <2>7
    <3>4. ~LoopsAt(sq, i)
      BY <3>1, NoLoop
    <3>5. QED
      BY <3>2, <3>3, <3>4
  <2> HIDE DEF c
  <2>10. \E Q : /\ Rooted(e.states, layer, Q)
                /\ more => Q[e.current] = Pressed(sq.sequence, i)
    <3>1. CASE /\ event \in DOMAIN g.states[g.current].edges
               /\ e.states = g.states
               /\ e.current = g.states[g.current].edges[event].new_state
      <4> DEFINE target == g.states[g.current].edges[event].new_state
      <4>1. /\ target = HOME_STATE_IDX =>
                 \E a \in layer : EndsInInput(a) /\ AllPressed(a) = Append(P[g.current], event)
            /\ target # HOME_STATE_IDX => P[target] = Append(P[g.current], event)
        BY <3>1 DEF Rooted, Branches, IsMachine
      <4>2. more => target # HOME_STATE_IDX
        <5> SUFFICES ASSUME more, target = HOME_STATE_IDX PROVE FALSE
          OBVIOUS
        <5>1. PICK a \in layer : EndsInInput(a) /\ AllPressed(a) = Pressed(sq.sequence, c)
          BY <2>7, <2>8, <4>1
        <5>2. c + 1 \in 1 .. Len(sq.sequence) /\ (c + 1) - 1 = c
          BY <2>1, <2>7
        <5>3. IsProperPrefix(Pressed(sq.sequence, (c + 1) - 1), AllPressed(sq))
          BY <5>2, PressedMore DEF AllPressed
        <5>4. IsProperPrefix(AllPressed(a), AllPressed(sq))
          BY <5>1, <5>2, <5>3
        <5>5. QED
          BY <5>1, <5>4 DEF Tidy
      <4>3. QED
        BY <2>8, <3>1, <4>1, <4>2
    <3>2. CASE e = AddEdge(g, sq) /\ i = Len(sq.sequence)
      <4>1. Rooted(e.states, layer, P)
        BY <2>2, <2>3, <3>2, LastEdgeRooted
      <4>2. ~more
        BY <2>1, <2>7, <3>2
      <4>3. QED
        BY <4>1, <4>2
    <3>3. CASE e = AddEdge(g, sq) /\ i # Len(sq.sequence)
      BY <2>2, <2>3, <3>3, OtherEdgeRooted
    <3>4. QED
      BY <2>4, <3>1, <3>2, <3>3 DEF Takes
  <2>11. PICK Q : /\ Rooted(e.states, layer, Q)
                  /\ more => Q[e.current] = Pressed(sq.sequence, i)
    BY <2>10
  <2>12. Rooted(h.states, layer, Q)
    BY <2>6, <2>9, <2>11, AddTimerRooted
  <2>13. more => h.current = e.current
    <3>1. Lookahead(sq.sequence, i) = None \/ Lookahead(sq.sequence, i).kind = "max" =>
            h.current = e.current
      BY <2>6, AddTimerIs
    <3>2. QED
      BY <2>9, <3>1
  <2> HIDE DEF h
  <2>14. Walking(Q, k, sq)
    <3> SUFFICES ASSUME k.i <= Len(sq.sequence), ~IsWait(sq.sequence[k.i])
                 PROVE  Q[k.current] = Pressed(sq.sequence, k.i - 1)
      BY <2>3 DEF Walking
    <3>1. more
      BY <2>5
    <3>2. k.i - 1 = c
      BY <2>1, <2>5, <2>7
    <3>3. QED
      BY <2>5, <2>7, <2>11, <2>13, <3>1, <3>2
  <2>15. QED
    BY <2>5, <2>12, <2>14 DEF k
<1>3. QED
  BY <1>1, <1>2

-----------------------------------------------------------------------------
(* All sequences of a layer, one after another. *)

\* A sequence of a layer that is built with the outputs of Out.
Buildable(sq, Out, Homes) ==
  /\ sq.sequence \in Seq(Triggers)
  /\ sq.binds \in Seq(Out) /\ sq.binds \in Seq(Tables!Binds)
  /\ \A i \in 1 .. Len(sq.sequence) : LoopsAt(sq, i) => Indeterminate \in Homes

Sound(g, Out, Homes) ==
  IsMachine(g) /\ ArmedBut(g.states, {}) /\ Typed(g.states, Out, Homes)

\* Between two sequences, and while sq is walked.
Built(g, layer, Out, Homes) ==
  /\ Sound(g, Out, Homes)
  /\ Tidy(layer) => \E P : Rooted(g.states, layer, P)

BuiltUpTo(g, layer, sq, Out, Homes) ==
  /\ Sound(g, Out, Homes)
  /\ Tidy(layer) => \E P : Rooted(g.states, layer, P) /\ Walking(P, g, sq)

\* Before the first sequence.
LEMMA EmptyMachineBuilt ==
  ASSUME NEW layer, NEW Out, HasOutputs(Out), NEW Homes, HOME_STATE_IDX \in Homes
  PROVE  Built(EmptyMachine, layer, Out, Homes)
<1> DEFINE states == EmptyMachine.states
           P      == [s \in {HOME_STATE_IDX} |-> <<>>]
           outs   == <<Basic(None)>>
<1>1. /\ EmptyMachine = [states |-> states, meta |-> EmptyMachine.meta, current |-> HOME_STATE_IDX,
                         i |-> 1, status |-> "building"]
      /\ states = <<HomeState>>
  BY DEF EmptyMachine
<1>2. DOMAIN <<HomeState>> = {1} /\ <<HomeState>>[1] = HomeState
  OBVIOUS
<1>3. IsMachine(EmptyMachine) /\ ArmedBut(states, {})
  <2> HIDE DEF states
  <2>1. QED
    BY <1>1, <1>2, EmptyMachineWired DEF IsMachine, HOME_STATE_IDX
<1>4. Basic(None) \in Out /\ Basic(None).kind = "basic"
  BY DEF HasOutputs, Basic
<1>5. outs \in Seq(Out)
  BY <1>4
<1>6. DOMAIN outs = {1} /\ outs[1] = Basic(None)
  OBVIOUS
<1> HIDE DEF outs
<1>7. TypedState(HomeState, Out, Homes)
  BY <1>5, FreshStateTyped DEF HomeState, outs
<1>8. /\ DOMAIN HomeState.edges = {} /\ HomeState.timer = None
      /\ HomeState.fallback.outputs = outs /\ HomeState.fallback.new_state = HOME_STATE_IDX
  BY DEF HomeState, State, NoEdges, Transition, outs
<1>9. GivesLessBack(HomeState, 0)
  <2>1. Tables!Processed(outs) = {}
    BY <1>4, <1>6 DEF Tables!Processed
  <2>2. QED
    BY <1>8, <2>1 DEF GivesLessBack, Tables!GoesBack, Tables!HOME_STATE_IDX, HOME_STATE_IDX
<1>10. P[1] = <<>> /\ P[1] \in Seq(InputEvents) /\ Len(P[1]) = 0
  <2>1. P[1] = <<>>
    BY DEF HOME_STATE_IDX
  <2>2. <<>> \in Seq(InputEvents) /\ Len(<<>>) = 0
    OBVIOUS
  <2> HIDE DEF P
  <2>3. QED
    BY <2>1, <2>2
<1> HIDE DEF P, states
<1>11. Rooted(states, layer, P)
  <2>1. Branches(states, layer, P, 1)
    BY <1>1, <1>2, <1>8 DEF Branches
  <2>2. GivesLessBack(states[1], Len(P[1]))
    BY <1>1, <1>2, <1>9, <1>10
  <2>3. P[1] = <<>> /\ P[1] \in Seq(InputEvents) /\ Len(P[1]) < 1
    BY <1>10
  <2>4. DOMAIN states = {1}
    BY <1>1, <1>2
  <2>5. QED
    BY <2>1, <2>2, <2>3, <2>4 DEF Rooted, HOME_STATE_IDX
<1>12. Typed(states, Out, Homes)
  BY <1>1, <1>2, <1>7 DEF Typed
<1>13. QED
  BY <1>3, <1>11, <1>12 DEF Built, Sound, states

\* A sequence starts from home.
LEMMA StartBuilds ==
  ASSUME NEW g, NEW layer, NEW sq, sq.sequence \in Seq(Triggers), NEW Out, NEW Homes,
         Built(g, layer, Out, Homes)
  PROVE  BuiltUpTo(StartSequence(g), layer, sq, Out, Homes) /\ StartSequence(g).i = 1
<1> DEFINE h == StartSequence(g)
<1>1. IsMachine(g)
  BY DEF Built, Sound
<1>2. /\ h.states = g.states /\ h.current = HOME_STATE_IDX /\ h.i = 1
      /\ h = [states |-> h.states, meta |-> h.meta, current |-> h.current,
              i |-> h.i, status |-> h.status]
  <2>1. h = [g EXCEPT !.current = HOME_STATE_IDX, !.i = 1]
    BY DEF StartSequence
  <2> HIDE DEF h
  <2>2. QED
    BY <1>1, <2>1 DEF IsMachine
<1> HIDE DEF h
<1>3. HOME_STATE_IDX \in DOMAIN g.states
  BY <1>1, SequenceDomain DEF IsMachine, Wired, HOME_STATE_IDX
<1>4. Sound(h, Out, Homes)
  BY <1>1, <1>2, <1>3 DEF Built, Sound, IsMachine
<1>5. ASSUME NEW P, Rooted(g.states, layer, P)
      PROVE  Rooted(h.states, layer, P) /\ Walking(P, h, sq)
  <2>1. Pressed(sq.sequence, 0) = <<>> /\ h.i - 1 = 0
    BY <1>2, PressedUnrolls
  <2>2. P[h.current] = Pressed(sq.sequence, h.i - 1)
    BY <1>2, <1>5, <2>1 DEF Rooted
  <2>3. QED
    BY <1>2, <1>5, <2>2 DEF Walking
<1>6. QED
  BY <1>2, <1>4, <1>5 DEF Built, BuiltUpTo, h

\* One turn of the loop over its triggers.
LEMMA StepBuilds ==
  ASSUME NoneIsNoTransition, DurationsAreNumbers, NEW Out, HasOutputs(Out),
         NEW Homes, HOME_STATE_IDX \in Homes, NEW layer, NEW sq \in layer,
         Buildable(sq, Out, Homes), NEW g, BuiltUpTo(g, layer, sq, Out, Homes),
         g.status = "building", g.i \in 1 .. Len(sq.sequence)
  PROVE  BuiltUpTo(Step(g, sq), layer, sq, Out, Homes)
<1>1. sq.sequence \in Seq(Triggers) /\ sq.binds \in Seq(Out) /\ sq.binds \in Seq(Tables!Binds)
  BY DEF Buildable
<1>2. IsMachine(g) /\ ArmedBut(g.states, {}) /\ Typed(g.states, Out, Homes)
  BY DEF BuiltUpTo, Sound
<1>3. g.i <= Len(sq.sequence)
  BY <1>1, TriggerInSequence
<1>4. IsMachine(Step(g, sq)) /\ ArmedBut(Step(g, sq).states, {})
  BY <1>1, <1>2, <1>3, StepKeeps
<1>5. LoopsAt(sq, g.i) => Indeterminate \in Homes
  BY DEF Buildable
<1>6. Typed(Step(g, sq).states, Out, Homes)
  BY <1>1, <1>2, <1>5, StepTyped
<1>7. Tidy(layer) =>
        \E P : Rooted(Step(g, sq).states, layer, P) /\ Walking(P, Step(g, sq), sq)
  <2> SUFFICES ASSUME Tidy(layer)
               PROVE  \E P : Rooted(Step(g, sq).states, layer, P) /\ Walking(P, Step(g, sq), sq)
    OBVIOUS
  <2>1. PICK P : Rooted(g.states, layer, P) /\ Walking(P, g, sq)
    BY DEF BuiltUpTo
  <2>2. QED
    BY <1>1, <1>2, <2>1, StepRooted
<1>8. QED
  BY <1>4, <1>6, <1>7 DEF BuiltUpTo, Sound

\* The loop over the triggers of a sequence.
WalkTurn(f, g, sq, n) ==
  IF n = 0 THEN StartSequence(g)
  ELSE LET h == f[n - 1]
       IN  IF h.status = "building" /\ h.i = n THEN Step(h, sq) ELSE h

IsWalk(f, g, sq, n) == f = [m \in 0 .. n |-> WalkTurn(f, g, sq, m)]

\* The recursion of AddSequence has a solution.
LEMMA WalkExists ==
  ASSUME NEW g, NEW sq, NEW n \in Nat
  PROVE  \E f : IsWalk(f, g, sq, n)
<1> DEFINE T == {m \in 0 .. n : \E f : IsWalk(f, g, sq, m)}
<1>1. 0 \in T
  <2> DEFINE f == [m \in 0 .. 0 |-> StartSequence(g)]
  <2>1. f = [m \in 0 .. 0 |-> WalkTurn(f, g, sq, m)]
    BY DEF WalkTurn
  <2>2. QED
    BY <2>1 DEF IsWalk
<1>2. ASSUME NEW m \in 1 .. n, m - 1 \in T
      PROVE  m \in T
  <2>1. PICK f : IsWalk(f, g, sq, m - 1)
    BY <1>2
  <2> DEFINE h == [k \in 0 .. m |-> IF k = m THEN WalkTurn(f, g, sq, m) ELSE f[k]]
  <2>2. ASSUME NEW k \in 0 .. m
        PROVE  h[k] = WalkTurn(h, g, sq, k)
    <3>1. k = 0 \/ h[k - 1] = f[k - 1]
      OBVIOUS
    <3>2. WalkTurn(h, g, sq, k) = WalkTurn(f, g, sq, k)
      <4> HIDE DEF h
      <4>1. QED
        BY <3>1 DEF WalkTurn
    <3>3. k \in 0 .. m - 1 => f[k] = WalkTurn(f, g, sq, k)
      BY <2>1 DEF IsWalk
    <3>4. k = m \/ k \in 0 .. m - 1
      OBVIOUS
    <3>5. QED
      BY <3>2, <3>3, <3>4
  <2>3. h = [k \in 0 .. m |-> h[k]]
    OBVIOUS
  <2> HIDE DEF h
  <2>4. h = [k \in 0 .. m |-> WalkTurn(h, g, sq, k)]
    BY <2>2, <2>3
  <2>5. QED
    BY <2>4 DEF IsWalk
<1>3. \A m \in 0 .. n : m \in T
  <2> HIDE DEF T
  <2>1. QED
    BY <1>1, <1>2, UpTo
<1>4. n \in 0 .. n
  OBVIOUS
<1>5. QED
  BY <1>3, <1>4

\* A whole sequence.
LEMMA AddSequenceBuilds ==
  ASSUME NoneIsNoTransition, DurationsAreNumbers, NEW Out, HasOutputs(Out),
         NEW Homes, HOME_STATE_IDX \in Homes, NEW layer, NEW sq \in layer,
         Buildable(sq, Out, Homes), NEW g, Built(g, layer, Out, Homes)
  PROVE  Built(AddSequence(g, sq), layer, Out, Homes)
<1> DEFINE L        == Len(sq.sequence)
           go(f, n) == IF n = 0 THEN StartSequence(g)
                       ELSE LET h == f[n - 1]
                            IN  IF h.status = "building" /\ h.i = n THEN Step(h, sq) ELSE h
           R        == CHOOSE f : f = [n \in 0 .. L |-> go(f, n)]
<1>1. AddSequence(g, sq) = R[L]
  BY Zenon DEF AddSequence
<1>2. \A f, n : go(f, n) = WalkTurn(f, g, sq, n)
  BY DEF WalkTurn
<1>3. L \in Nat /\ sq.sequence \in Seq(Triggers)
  <2>1. sq.sequence \in Seq(Triggers)
    BY DEF Buildable
  <2> HIDE DEF Triggers
  <2>2. QED
    BY <2>1
<1> HIDE DEF L
<1>4. \E f : f = [n \in 0 .. L |-> go(f, n)]
  <2>1. PICK f : IsWalk(f, g, sq, L)
    <3>1. L \in Nat
      BY <1>3
    <3>2. QED
      BY <3>1, WalkExists
  <2> HIDE DEF go
  <2>2. f = [n \in 0 .. L |-> go(f, n)]
    BY <1>2, <2>1 DEF IsWalk
  <2>3. QED
    BY <2>2
<1>5. R = [n \in 0 .. L |-> go(R, n)]
  <2> HIDE DEF go
  <2>1. QED
    BY <1>4, Zenon
<1> HIDE DEF R
<1>6. \A n \in 0 .. L : R[n] = WalkTurn(R, g, sq, n)
  <2> HIDE DEF go
  <2>1. QED
    BY <1>2, <1>5
<1> DEFINE T == {n \in 0 .. L : BuiltUpTo(R[n], layer, sq, Out, Homes)}
<1>7. 0 \in T
  <2>1. R[0] = StartSequence(g) /\ 0 \in 0 .. L
    BY <1>3, <1>6 DEF WalkTurn
  <2>2. BuiltUpTo(R[0], layer, sq, Out, Homes)
    BY <1>3, <2>1, StartBuilds
  <2>3. QED
    BY <2>1, <2>2
<1>8. ASSUME NEW n \in 1 .. L, n - 1 \in T
      PROVE  n \in T
  <2> DEFINE h == R[n - 1]
  <2>1. BuiltUpTo(h, layer, sq, Out, Homes) /\ n \in 0 .. L /\ n # 0
    BY <1>3, <1>8
  <2>2. R[n] = IF h.status = "building" /\ h.i = n THEN Step(h, sq) ELSE h
    BY <1>6, <2>1 DEF WalkTurn
  <2> HIDE DEF h
  <2>3. h.status = "building" /\ h.i = n => BuiltUpTo(Step(h, sq), layer, sq, Out, Homes)
    BY <2>1, StepBuilds DEF L
  <2>4. BuiltUpTo(R[n], layer, sq, Out, Homes)
    BY <2>1, <2>2, <2>3
  <2>5. QED
    BY <2>1, <2>4
<1>9. \A n \in 0 .. L : n \in T
  <2> HIDE DEF T
  <2>1. QED
    BY <1>3, <1>7, <1>8, UpTo
<1>10. BuiltUpTo(R[L], layer, sq, Out, Homes)
  BY <1>3, <1>9
<1>11. QED
  BY <1>1, <1>10 DEF Built, BuiltUpTo

\* The loop over the sequences.
BuildTurn(f, sequences, n) ==
  IF n = 0 THEN EmptyMachine
  ELSE LET g == f[n - 1]
       IN  IF g.status = "building" THEN AddSequence(g, sequences[n]) ELSE g

IsBuildUp(f, sequences, n) == f = [m \in 0 .. n |-> BuildTurn(f, sequences, m)]

\* The recursion of generate_states has a solution.
LEMMA BuildExists ==
  ASSUME NEW sequences, NEW n \in Nat
  PROVE  \E f : IsBuildUp(f, sequences, n)
<1> DEFINE T == {m \in 0 .. n : \E f : IsBuildUp(f, sequences, m)}
<1>1. 0 \in T
  <2> DEFINE f == [m \in 0 .. 0 |-> EmptyMachine]
  <2>1. f = [m \in 0 .. 0 |-> BuildTurn(f, sequences, m)]
    BY DEF BuildTurn
  <2>2. QED
    BY <2>1 DEF IsBuildUp
<1>2. ASSUME NEW m \in 1 .. n, m - 1 \in T
      PROVE  m \in T
  <2>1. PICK f : IsBuildUp(f, sequences, m - 1)
    BY <1>2
  <2> DEFINE h == [k \in 0 .. m |-> IF k = m THEN BuildTurn(f, sequences, m) ELSE f[k]]
  <2>2. ASSUME NEW k \in 0 .. m
        PROVE  h[k] = BuildTurn(h, sequences, k)
    <3>1. k = 0 \/ h[k - 1] = f[k - 1]
      OBVIOUS
    <3>2. BuildTurn(h, sequences, k) = BuildTurn(f, sequences, k)
      <4> HIDE DEF h
      <4>1. QED
        BY <3>1 DEF BuildTurn
    <3>3. k \in 0 .. m - 1 => f[k] = BuildTurn(f, sequences, k)
      BY <2>1 DEF IsBuildUp
    <3>4. k = m \/ k \in 0 .. m - 1
      OBVIOUS
    <3>5. QED
      BY <3>2, <3>3, <3>4
  <2>3. h = [k \in 0 .. m |-> h[k]]
    OBVIOUS
  <2> HIDE DEF h
  <2>4. h = [k \in 0 .. m |-> BuildTurn(h, sequences, k)]
    BY <2>2, <2>3
  <2>5. QED
    BY <2>4 DEF IsBuildUp
<1>3. \A m \in 0 .. n : m \in T
  <2> HIDE DEF T
  <2>1. QED
    BY <1>1, <1>2, UpTo
<1>4. n \in 0 .. n
  OBVIOUS
<1>5. QED
  BY <1>3, <1>4

\* A whole layer.
LEMMA GenerateBuilds ==
  ASSUME NoneIsNoTransition, DurationsAreNumbers, NEW Out, HasOutputs(Out),
         NEW Homes, HOME_STATE_IDX \in Homes, NEW sequences, IsSequence(sequences),
         \A k \in DOMAIN sequences : Buildable(sequences[k], Out, Homes)
  PROVE  Built(generate_states(sequences), {sequences[k] : k \in DOMAIN sequences}, Out, Homes)
<1> DEFINE L        == Len(sequences)
           layer    == {sequences[k] : k \in DOMAIN sequences}
           go(f, n) == IF n = 0 THEN EmptyMachine
                       ELSE LET g == f[n - 1]
                            IN  IF g.status = "building" THEN AddSequence(g, sequences[n]) ELSE g
           R        == CHOOSE f : f = [n \in 0 .. L |-> go(f, n)]
<1>1. generate_states(sequences) = R[L]
  BY Zenon DEF generate_states
<1>2. \A f, n : go(f, n) = BuildTurn(f, sequences, n)
  BY DEF BuildTurn
<1>3. L \in Nat /\ DOMAIN sequences = 1 .. L
  BY SequenceDomain
<1> HIDE DEF L
<1>4. \E f : f = [n \in 0 .. L |-> go(f, n)]
  <2>1. PICK f : IsBuildUp(f, sequences, L)
    BY <1>3, BuildExists
  <2> HIDE DEF go
  <2>2. f = [n \in 0 .. L |-> go(f, n)]
    BY <1>2, <2>1 DEF IsBuildUp
  <2>3. QED
    BY <2>2
<1>5. R = [n \in 0 .. L |-> go(R, n)]
  <2> HIDE DEF go
  <2>1. QED
    BY <1>4, Zenon
<1> HIDE DEF R
<1>6. \A n \in 0 .. L : R[n] = BuildTurn(R, sequences, n)
  <2> HIDE DEF go
  <2>1. QED
    BY <1>2, <1>5
<1> DEFINE T == {n \in 0 .. L : Built(R[n], layer, Out, Homes)}
<1>7. 0 \in T
  <2>1. R[0] = EmptyMachine /\ 0 \in 0 .. L
    BY <1>3, <1>6 DEF BuildTurn
  <2>2. Built(R[0], layer, Out, Homes)
    BY <2>1, EmptyMachineBuilt
  <2>3. QED
    BY <2>1, <2>2
<1>8. ASSUME NEW n \in 1 .. L, n - 1 \in T
      PROVE  n \in T
  <2> DEFINE g == R[n - 1]
             sq == sequences[n]
  <2>1. Built(g, layer, Out, Homes) /\ n \in 0 .. L /\ n # 0
    BY <1>3, <1>8
  <2>2. R[n] = IF g.status = "building" THEN AddSequence(g, sq) ELSE g
    BY <1>6, <2>1 DEF BuildTurn
  <2>3. sq \in layer /\ Buildable(sq, Out, Homes)
    BY <1>3
  <2> HIDE DEF g, sq, layer
  <2>4. Built(AddSequence(g, sq), layer, Out, Homes)
    BY <2>1, <2>3, AddSequenceBuilds
  <2>5. Built(R[n], layer, Out, Homes)
    BY <2>1, <2>2, <2>4
  <2>6. QED
    BY <2>1, <2>5
<1>9. \A n \in 0 .. L : n \in T
  <2> HIDE DEF T
  <2>1. QED
    BY <1>3, <1>7, <1>8, UpTo
<1>10. Built(R[L], layer, Out, Homes)
  <2>1. L \in 0 .. L
    BY <1>3
  <2> HIDE DEF layer
  <2>2. QED
    BY <1>9, <2>1
<1>11. QED
  BY <1>1, <1>10

-----------------------------------------------------------------------------
(* From the machine of every layer to the tables of the whole profile.      *)

\* What the parser makes of a layer, as far as the mapper's tables need it.
IsProfileLayer(layer) ==
  /\ IsSequence(layer.basic)
  /\ \A k \in DOMAIN layer.basic : /\ layer.basic[k].ev \in InputEvents
                                   /\ layer.basic[k].binds \in Seq(Tables!Binds)
  /\ IsSequence(layer.sequences)
  /\ \A k \in DOMAIN layer.sequences : /\ layer.sequences[k].sequence \in Seq(Triggers)
                                       /\ layer.sequences[k].binds \in Seq(Tables!Binds)

IsProfile(profile) ==
  /\ profile.default_layer \in Nat
  /\ IsSequence(profile.layers)
  /\ \A l \in DOMAIN profile.layers : IsProfileLayer(profile.layers[l])

SequencesOf(layer) == {layer.sequences[k] : k \in DOMAIN layer.sequences}

\* Its binds swap to layers that exist.
SwapsExist(profile) ==
  \A l \in DOMAIN profile.layers :
    LET layer == profile.layers[l]
        n     == Len(profile.layers)
    IN  /\ \A k \in DOMAIN layer.basic : Tables!LayersExist(layer.basic[k].binds, n)
        /\ \A k \in DOMAIN layer.sequences : Tables!LayersExist(layer.sequences[k].binds, n)

AllOutputs == Tables!StateMachineOutputs

\* All outputs serve for a machine and its binds.
LEMMA AllOutputsServe == HasOutputs(AllOutputs) /\ Tables!Binds \subseteq AllOutputs
<1>1. ASSUME NEW ev \in InputEvents \cup {None}
      PROVE  Basic(ev) \in AllOutputs /\ Process(ev) \in AllOutputs
  BY DEF AllOutputs, Tables!StateMachineOutputs, Basic, Process
<1>2. Tables!Binds \subseteq AllOutputs
  BY DEF AllOutputs, Tables!StateMachineOutputs
<1>3. QED
  BY <1>1, <1>2 DEF HasOutputs

\* The machine of a layer of a profile.
LEMMA LayerBuilds ==
  ASSUME NoneIsNoTransition, DurationsAreNumbers, NEW Out, HasOutputs(Out),
         NEW Homes, HOME_STATE_IDX \in Homes, NEW layer, IsProfileLayer(layer),
         \A k \in DOMAIN layer.sequences : layer.sequences[k].binds \in Seq(Out),
         Indeterminate \in Homes \/ \A sq \in SequencesOf(layer) : MinWaitsLast(sq)
  PROVE  Built(generate_states(layer.sequences), SequencesOf(layer), Out, Homes)
<1>1. IsSequence(layer.sequences)
  BY DEF IsProfileLayer
<1>2. ASSUME NEW k \in DOMAIN layer.sequences
      PROVE  Buildable(layer.sequences[k], Out, Homes)
  <2> DEFINE sq == layer.sequences[k]
  <2>1. sq.sequence \in Seq(Triggers) /\ sq.binds \in Seq(Tables!Binds) /\ sq.binds \in Seq(Out)
    BY <1>2 DEF IsProfileLayer
  <2>2. Indeterminate \in Homes \/ MinWaitsLast(sq)
    BY <1>2 DEF SequencesOf
  <2> HIDE DEF sq, Triggers
  <2>3. ASSUME NEW i \in 1 .. Len(sq.sequence), LoopsAt(sq, i)
        PROVE  Indeterminate \in Homes
    BY <2>1, <2>2, <2>3, NoLoop
  <2>4. Buildable(sq, Out, Homes)
    BY <2>1, <2>3 DEF Buildable
  <2>5. QED
    BY <2>4 DEF sq
<1>3. QED
  BY <1>1, <1>2, GenerateBuilds DEF SequencesOf

\* The two readings of a machine's length and of its targets.
LEMMA MachineStates ==
  ASSUME NEW g, IsMachine(g)
  PROVE  /\ Len(g.states) \in Nat \ {0}
         /\ DOMAIN g.states = 1 .. Len(g.states)
         /\ \A s \in 1 .. Len(g.states) :
              LET state == g.states[s] IN
              /\ \A ev \in DOMAIN state.edges : state.edges[ev].new_state \in 1 .. Len(g.states)
              /\ state.timer # None => state.timer.new_state \in 1 .. Len(g.states)
<1>1. Wired(g.states)
  BY DEF IsMachine
<1>2. /\ Len(g.states) \in Nat /\ DOMAIN g.states = 1 .. Len(g.states)
      /\ Len(g.states) >= 1
  BY <1>1, SequenceDomain DEF Wired, HOME_STATE_IDX
<1>3. ASSUME NEW s \in 1 .. Len(g.states)
      PROVE  /\ \A ev \in DOMAIN g.states[s].edges :
                  g.states[s].edges[ev].new_state \in 1 .. Len(g.states)
             /\ g.states[s].timer # None => g.states[s].timer.new_state \in 1 .. Len(g.states)
  <2>1. s \in DOMAIN g.states /\ EdgesLead(g.states, s) /\ TimerLeads(g.states, s)
    BY <1>1, <1>2 DEF Wired
  <2>2. ASSUME NEW ev \in DOMAIN g.states[s].edges
        PROVE  g.states[s].edges[ev].new_state \in 1 .. Len(g.states)
    <3>1. Onward(g.states, s, g.states[s].edges[ev].new_state)
      BY <2>1 DEF EdgesLead
    <3>2. QED
      BY <1>1, <1>2, <2>1, <3>1, OnwardIsState
  <2>3. ASSUME g.states[s].timer # None
        PROVE  g.states[s].timer.new_state \in 1 .. Len(g.states)
    <3>1. Onward(g.states, s, g.states[s].timer.new_state)
      BY <2>1, <2>3 DEF TimerLeads
    <3>2. QED
      BY <1>1, <1>2, <2>1, <3>1, OnwardIsState
  <2>4. QED
    BY <2>2, <2>3
<1>4. QED
  BY <1>2, <1>3

\* The table of basic mappings holds binds of the profile.
LEMMA BasicMapIs ==
  ASSUME NEW layer
  PROVE  /\ DOMAIN BasicMap(layer) = {layer.basic[k].ev : k \in DOMAIN layer.basic}
         /\ \A ev \in DOMAIN BasicMap(layer) :
              \E k \in DOMAIN layer.basic :
                layer.basic[k].ev = ev /\ BasicMap(layer)[ev] = layer.basic[k].binds
<1> DEFINE of(ev) == CHOOSE k \in DOMAIN layer.basic : layer.basic[k].ev = ev
<1>1. BasicMap(layer) =
        [ev \in {layer.basic[k].ev : k \in DOMAIN layer.basic} |-> layer.basic[of(ev)].binds]
  BY Zenon DEF BasicMap
<1>2. ASSUME NEW ev \in {layer.basic[k].ev : k \in DOMAIN layer.basic}
      PROVE  of(ev) \in DOMAIN layer.basic /\ layer.basic[of(ev)].ev = ev
  OBVIOUS
<1> HIDE DEF of
<1>3. QED
  BY <1>1, <1>2

\* The parts of what Compile makes of a profile.
LEMMA CompileIs ==
  ASSUME NEW profile, IsSequence(profile.layers)
  PROVE  /\ Compile(profile).accepted \in BOOLEAN
         /\ Compile(profile).default_layer = profile.default_layer
         /\ Len(Compile(profile).layers) = Len(profile.layers)
         /\ Len(profile.layers) \in Nat /\ DOMAIN profile.layers = 1 .. Len(profile.layers)
         /\ \A l \in 1 .. Len(profile.layers) :
              /\ Compile(profile).layers[l].basic = BasicMap(profile.layers[l])
              /\ Compile(profile).layers[l].states =
                   generate_states(profile.layers[l].sequences).states
<1> DEFINE layers == [l \in DOMAIN profile.layers |-> Compiled(profile.layers[l])]
<1>1. Len(profile.layers) \in Nat /\ DOMAIN profile.layers = 1 .. Len(profile.layers)
  BY SequenceDomain
<1>2. /\ Compile(profile).layers = layers
      /\ Compile(profile).default_layer = profile.default_layer
      /\ Compile(profile).accepted \in BOOLEAN
  BY DEF Compile
<1>3. Len(layers) = Len(profile.layers)
  <2>1. DOMAIN layers = 1 .. Len(profile.layers)
    BY <1>1
  <2> HIDE DEF layers
  <2>2. QED
    BY <1>1, <2>1, LenProperties
<1>4. ASSUME NEW l \in 1 .. Len(profile.layers)
      PROVE  /\ layers[l].basic = BasicMap(profile.layers[l])
             /\ layers[l].states = generate_states(profile.layers[l].sequences).states
  BY <1>1, <1>4 DEF Compiled
<1> HIDE DEF layers
<1>5. QED
  BY <1>1, <1>2, <1>3, <1>4

-----------------------------------------------------------------------------
(* Every profile the parser can make compiles to tables the mapper can run  *)
(* on (what Mapper assumes of its profiles): events, outputs and targets in *)
(* range, and behind every edge that arms the timer a state that reacts.    *)

\* One layer of such a profile.
LEMMA LayerIsLayer ==
  ASSUME NoneIsNoTransition, DurationsAreNumbers, NEW layer, IsProfileLayer(layer), NEW built,
         built.basic = BasicMap(layer),
         built.states = generate_states(layer.sequences).states
  PROVE  Tables!IsLayer(built)
<1> DEFINE g     == generate_states(layer.sequences)
           Homes == {Indeterminate, HOME_STATE_IDX}
<1>1. Sound(g, AllOutputs, Homes)
  <2>1. \A k \in DOMAIN layer.sequences : layer.sequences[k].binds \in Seq(AllOutputs)
    <3>1. ASSUME NEW b \in Seq(Tables!Binds)
          PROVE  b \in Seq(AllOutputs)
      BY AllOutputsServe
    <3>2. QED
      BY <3>1 DEF IsProfileLayer
  <2>2. Built(g, SequencesOf(layer), AllOutputs, Homes)
    BY <2>1, AllOutputsServe, LayerBuilds
  <2>3. QED
    BY <2>2 DEF Built
<1> DEFINE states == g.states
<1> HIDE DEF g
<1>2. /\ IsMachine(g) /\ ArmedBut(states, {}) /\ Typed(states, AllOutputs, Homes)
      /\ Len(states) \in Nat \ {0} /\ DOMAIN states = 1 .. Len(states)
  BY <1>1, MachineStates DEF Sound
<1> HIDE DEF states
<1>3. ASSUME NEW s \in 1 .. Len(states)
      PROVE  Tables!IsState(states[s], states)
  <2> DEFINE state == states[s]
  <2>1. TypedState(state, AllOutputs, Homes) /\ s \in DOMAIN states
    BY <1>2, <1>3 DEF Typed
  <2>2. /\ \A ev \in DOMAIN state.edges : state.edges[ev].new_state \in 1 .. Len(states)
        /\ state.timer # None => state.timer.new_state \in 1 .. Len(states)
    BY <1>2, <1>3, MachineStates DEF states
  <2> HIDE DEF state
  <2>3. ASSUME NEW ev \in DOMAIN state.edges
        PROVE  Tables!IsTransition(state.edges[ev], states)
    <3>1. TypedTransition(state.edges[ev], AllOutputs)
      BY <2>1, <2>3 DEF TypedState
    <3>2. state.edges[ev].timer_ms # None => states[state.edges[ev].new_state].timer # None
      BY <1>2, <2>1, <2>3 DEF ArmedBut, state
    <3>3. state.edges[ev].new_state \in 1 .. Len(states)
      BY <2>2, <2>3
    <3>4. state.edges[ev].new_state # Indeterminate
      BY <1>2, <3>3 DEF Indeterminate
    <3>5. QED
      BY <3>1, <3>2, <3>3, <3>4 DEF Tables!IsTransition, TypedTransition, AllOutputs,
                                    Tables!Indeterminate, Indeterminate
  <2>4. Tables!IsTransition(state.fallback, states)
    <3>1. /\ TypedTransition(state.fallback, AllOutputs) /\ state.fallback.timer_ms = None
          /\ state.fallback.new_state \in Homes
      BY <2>1 DEF TypedState
    <3>2. QED
      BY <1>2, <3>1 DEF Tables!IsTransition, TypedTransition, AllOutputs,
                        Tables!Indeterminate, Indeterminate, HOME_STATE_IDX
  <2>5. ASSUME state.timer # None
        PROVE  Tables!IsTransition(state.timer, states)
    <3>1. TypedTransition(state.timer, AllOutputs) /\ state.timer.timer_ms = None
      BY <2>1, <2>5 DEF TypedState
    <3>2. QED
      BY <2>2, <2>5, <3>1 DEF Tables!IsTransition, TypedTransition, AllOutputs
  <2>6. DOMAIN state.edges \subseteq InputEvents
    BY <2>1 DEF TypedState
  <2>7. Tables!IsState(state, states)
    BY <2>3, <2>4, <2>5, <2>6 DEF Tables!IsState
  <2>8. QED
    BY <2>7 DEF state
<1>4. /\ DOMAIN BasicMap(layer) \subseteq InputEvents
      /\ \A ev \in DOMAIN BasicMap(layer) : BasicMap(layer)[ev] \in Seq(Tables!Binds)
  <2> DEFINE map == BasicMap(layer)
  <2>1. /\ DOMAIN map = {layer.basic[k].ev : k \in DOMAIN layer.basic}
        /\ \A ev \in DOMAIN map :
             \E k \in DOMAIN layer.basic : layer.basic[k].ev = ev /\ map[ev] = layer.basic[k].binds
    BY BasicMapIs
  <2>2. \A k \in DOMAIN layer.basic : /\ layer.basic[k].ev \in InputEvents
                                      /\ layer.basic[k].binds \in Seq(Tables!Binds)
    BY DEF IsProfileLayer
  <2> HIDE DEF map
  <2>3. DOMAIN map \subseteq InputEvents
    BY <2>1, <2>2
  <2>4. ASSUME NEW ev \in DOMAIN map
        PROVE  map[ev] \in Seq(Tables!Binds)
    <3>1. PICK k \in DOMAIN layer.basic : map[ev] = layer.basic[k].binds
      BY <2>1, <2>4
    <3>2. QED
      BY <2>2, <3>1
  <2>5. QED
    BY <2>3, <2>4 DEF map
<1>5. QED
  <2>1. built.states = states
    BY DEF states, g
  <2>2. QED
    BY <1>2, <1>3, <1>4, <2>1 DEF Tables!IsLayer

\* BuildAssumption of Mapper holds of every profile that is compiled
\* (Mapper::set_profile on what read_profile and generate_states give it).
THEOREM CompiledIsBuild ==
  ASSUME NoneIsNoTransition, DurationsAreNumbers, NEW profile, IsProfile(profile)
  PROVE  Tables!IsBuild(Compile(profile))
<1> DEFINE c == Compile(profile)
           n == Len(profile.layers)
<1>1. /\ c.accepted \in BOOLEAN /\ c.default_layer \in Nat /\ Len(c.layers) = n /\ n \in Nat
      /\ DOMAIN profile.layers = 1 .. n
      /\ \A l \in 1 .. n : /\ c.layers[l].basic = BasicMap(profile.layers[l])
                           /\ c.layers[l].states =
                                generate_states(profile.layers[l].sequences).states
  BY CompileIs DEF IsProfile
<1> HIDE DEF c, n
<1>2. ASSUME NEW l \in 1 .. n
      PROVE  Tables!IsLayer(c.layers[l])
  <2>1. IsProfileLayer(profile.layers[l])
    BY <1>1, <1>2 DEF IsProfile
  <2>2. QED
    BY <1>1, <1>2, <2>1, LayerIsLayer
<1>3. QED
  BY <1>1, <1>2 DEF Tables!IsBuild, c

-----------------------------------------------------------------------------
(* When no minimum wait has a trigger after it, the machine never leaves    *)
(* the tables: the state whose target nobody assigns is never made.         *)

OutputsTo(n) == {o \in AllOutputs : o.kind = "layer" => o.to \in 1 .. n}

\* Outputs that swap to one of n layers serve for a machine.
LEMMA OutputsToServe ==
  ASSUME NEW n \in Nat
  PROVE  /\ HasOutputs(OutputsTo(n))
         /\ \A binds \in Seq(Tables!Binds) :
              Tables!LayersExist(binds, n) => binds \in Seq(OutputsTo(n))
         /\ \A outputs \in Seq(OutputsTo(n)) : Tables!LayersExist(outputs, n)
<1>1. ASSUME NEW ev \in InputEvents \cup {None}
      PROVE  Basic(ev) \in OutputsTo(n) /\ Process(ev) \in OutputsTo(n)
  <2>1. Basic(ev) \in AllOutputs /\ Process(ev) \in AllOutputs
    BY AllOutputsServe DEF HasOutputs
  <2>2. Basic(ev).kind # "layer" /\ Process(ev).kind # "layer"
    BY DEF Basic, Process
  <2>3. QED
    BY <2>1, <2>2 DEF OutputsTo
<1>2. ASSUME NEW binds \in Seq(Tables!Binds), Tables!LayersExist(binds, n)
      PROVE  binds \in Seq(OutputsTo(n))
  <2>1. \A k \in 1 .. Len(binds) : binds[k] \in AllOutputs
    BY AllOutputsServe
  <2>2. \A k \in 1 .. Len(binds) : binds[k] \in OutputsTo(n)
    BY <1>2, <2>1 DEF OutputsTo, Tables!LayersExist
  <2>3. QED
    BY <2>2
<1>3. ASSUME NEW outputs \in Seq(OutputsTo(n))
      PROVE  Tables!LayersExist(outputs, n)
  <2>1. \A k \in 1 .. Len(outputs) : outputs[k] \in OutputsTo(n)
    OBVIOUS
  <2>2. QED
    BY <2>1 DEF OutputsTo, Tables!LayersExist
<1>4. QED
  BY <1>1, <1>2, <1>3 DEF HasOutputs

\* One layer of such a profile.
LEMMA LayerIsSafe ==
  ASSUME NoneIsNoTransition, DurationsAreNumbers, NEW n \in Nat,
         NEW layer, IsProfileLayer(layer),
         \A sq \in SequencesOf(layer) : MinWaitsLast(sq),
         \A k \in DOMAIN layer.sequences : Tables!LayersExist(layer.sequences[k].binds, n),
         NEW s \in 1 .. Len(generate_states(layer.sequences).states)
  PROVE  LET state == generate_states(layer.sequences).states[s] IN
         /\ \A ev \in DOMAIN state.edges : Tables!SafeTransition(state.edges[ev], n)
         /\ Tables!SafeTransition(state.fallback, n)
         /\ state.timer # None => Tables!SafeTransition(state.timer, n)
<1> DEFINE g     == generate_states(layer.sequences)
           Out   == OutputsTo(n)
           Homes == {HOME_STATE_IDX}
<1>1. Sound(g, Out, Homes)
  <2>1. \A k \in DOMAIN layer.sequences : layer.sequences[k].binds \in Seq(Out)
    BY OutputsToServe DEF IsProfileLayer
  <2>2. Built(g, SequencesOf(layer), Out, Homes)
    BY <2>1, OutputsToServe, LayerBuilds
  <2>3. QED
    BY <2>2 DEF Built
<1>2. s \in 1 .. Len(g.states)
  OBVIOUS
<1> HIDE DEF g
<1> DEFINE state == g.states[s]
<1>3. /\ IsMachine(g) /\ DOMAIN g.states = 1 .. Len(g.states) /\ Len(g.states) \in Nat
      /\ \A ev \in DOMAIN state.edges : state.edges[ev].new_state \in 1 .. Len(g.states)
      /\ state.timer # None => state.timer.new_state \in 1 .. Len(g.states)
  BY <1>1, <1>2, MachineStates DEF Sound
<1>4. TypedState(state, Out, Homes)
  BY <1>1, <1>2, <1>3 DEF Sound, Typed
<1> HIDE DEF state
<1>5. \A t : TypedTransition(t, Out) => Tables!LayersExist(t.outputs, n)
  BY OutputsToServe DEF TypedTransition
<1>6. \A k \in 1 .. Len(g.states) : k # Tables!Indeterminate
  BY <1>3 DEF Tables!Indeterminate
<1>7. \A ev \in DOMAIN state.edges : Tables!SafeTransition(state.edges[ev], n)
  BY <1>3, <1>4, <1>5, <1>6 DEF TypedState, Tables!SafeTransition
<1>8. Tables!SafeTransition(state.fallback, n)
  BY <1>4, <1>5 DEF TypedState, Tables!SafeTransition, Tables!Indeterminate, HOME_STATE_IDX
<1>9. state.timer # None => Tables!SafeTransition(state.timer, n)
  BY <1>3, <1>4, <1>5, <1>6 DEF TypedState, Tables!SafeTransition
<1>10. QED
  BY <1>7, <1>8, <1>9 DEF state, g

\* A profile whose default layer exists, whose binds swap to layers that
\* exist and whose minimum waits end their sequences compiles to tables the
\* mapper never leaves (what generate_states and set_profile do not check).
THEOREM CompiledIsWellFormed ==
  ASSUME NoneIsNoTransition, DurationsAreNumbers, NEW profile, IsProfile(profile),
         profile.default_layer \in DOMAIN profile.layers, SwapsExist(profile),
         \A l \in DOMAIN profile.layers :
           \A sq \in SequencesOf(profile.layers[l]) : MinWaitsLast(sq)
  PROVE  Tables!WellFormed(Compile(profile))
<1> DEFINE c == Compile(profile)
           n == Len(profile.layers)
<1>1. /\ c.default_layer \in 1 .. n /\ Len(c.layers) = n /\ n \in Nat
      /\ DOMAIN profile.layers = 1 .. n
      /\ \A l \in 1 .. n : /\ c.layers[l].basic = BasicMap(profile.layers[l])
                           /\ c.layers[l].states =
                                generate_states(profile.layers[l].sequences).states
  BY CompileIs DEF IsProfile
<1>2. ASSUME NEW l \in 1 .. n
      PROVE  LET layer == profile.layers[l] IN
             /\ IsProfileLayer(layer) /\ \A sq \in SequencesOf(layer) : MinWaitsLast(sq)
             /\ \A k \in DOMAIN layer.basic : Tables!LayersExist(layer.basic[k].binds, n)
             /\ \A k \in DOMAIN layer.sequences :
                  Tables!LayersExist(layer.sequences[k].binds, n)
  BY <1>1, <1>2 DEF IsProfile, SwapsExist
<1> HIDE DEF c, n
<1>3. ASSUME NEW l \in 1 .. n
      PROVE  \A ev \in DOMAIN c.layers[l].basic : Tables!LayersExist(c.layers[l].basic[ev], n)
  <2> DEFINE layer == profile.layers[l]
             map   == BasicMap(layer)
  <2>1. \A ev \in DOMAIN map :
          \E k \in DOMAIN layer.basic : map[ev] = layer.basic[k].binds
    BY BasicMapIs
  <2>2. \A k \in DOMAIN layer.basic : Tables!LayersExist(layer.basic[k].binds, n)
    BY <1>2
  <2>3. c.layers[l].basic = map
    BY <1>1
  <2> HIDE DEF layer, map
  <2>4. QED
    BY <2>1, <2>2, <2>3
<1>4. ASSUME NEW l \in 1 .. n, NEW s \in 1 .. Len(c.layers[l].states)
      PROVE  LET state == c.layers[l].states[s] IN
             /\ \A ev \in DOMAIN state.edges : Tables!SafeTransition(state.edges[ev], n)
             /\ Tables!SafeTransition(state.fallback, n)
             /\ state.timer # None => Tables!SafeTransition(state.timer, n)
  <2>1. c.layers[l].states = generate_states(profile.layers[l].sequences).states
    BY <1>1
  <2>2. s \in 1 .. Len(generate_states(profile.layers[l].sequences).states)
    BY <2>1
  <2>3. QED
    BY <1>1, <1>2, <2>1, <2>2, LayerIsSafe
<1>5. QED
  BY <1>1, <1>3, <1>4 DEF Tables!WellFormed, c

-----------------------------------------------------------------------------
(* When, moreover, no sequence that ends in an input has its inputs at the  *)
(* start of another's, an abandoned sequence gives back less than was       *)
(* typed: the rank of a state is the number of inputs on the way to it.     *)

\* The ways to the states rank them.
LEMMA TidyIsRanked ==
  ASSUME NEW g, IsMachine(g), NEW layer, NEW P, Rooted(g.states, layer, P)
  PROVE  Tables!Ranked(g.states)
<1> DEFINE states == g.states
           n      == Len(states)
           rank   == [s \in 1 .. n |-> Len(P[s])]
<1>1. /\ n \in Nat \ {0} /\ DOMAIN states = 1 .. n
      /\ \A s \in 1 .. n : /\ \A ev \in DOMAIN states[s].edges :
                                states[s].edges[ev].new_state \in 1 .. n
  BY MachineStates
<1> HIDE DEF states, n
<1>2. /\ P[HOME_STATE_IDX] = <<>>
      /\ \A s \in 1 .. n : /\ P[s] \in Seq(InputEvents) /\ Len(P[s]) < s
                           /\ Branches(states, layer, P, s)
                           /\ GivesLessBack(states[s], Len(P[s]))
  BY <1>1 DEF Rooted, states
<1>3. \A s \in 1 .. n : rank[s] = Len(P[s]) /\ Len(P[s]) \in 0 .. n - 1
  <2>1. ASSUME NEW s \in 1 .. n
        PROVE  Len(P[s]) \in 0 .. n - 1
    <3>1. Len(P[s]) \in Nat
      BY <1>2, <2>1
    <3>2. QED
      BY <1>1, <1>2, <2>1, <3>1
  <2>2. QED
    BY <2>1
<1>4. rank \in [1 .. n -> 0 .. n - 1]
  BY <1>3
<1>5. HOME_STATE_IDX \in 1 .. n /\ rank[HOME_STATE_IDX] = 0
  <2>1. HOME_STATE_IDX \in 1 .. n
    BY <1>1 DEF HOME_STATE_IDX
  <2>2. Len(<<>>) = 0
    OBVIOUS
  <2>3. QED
    BY <1>2, <1>3, <2>1, <2>2
<1> HIDE DEF rank
<1>6. ASSUME NEW s \in 1 .. n, NEW ev \in DOMAIN states[s].edges
      PROVE  Tables!GoesOn(states[s].edges[ev], states, rank, s)
  <2> DEFINE to == states[s].edges[ev].new_state
  <2>1. to \in 1 .. n
    BY <1>1, <1>6
  <2>2. /\ Tables!Processed(states[s].edges[ev].outputs) = {}
        /\ to # HOME_STATE_IDX => P[to] = Append(P[s], ev)
    BY <1>2, <1>6 DEF Branches
  <2> HIDE DEF to
  <2>3. Len(Append(P[s], ev)) = Len(P[s]) + 1
    BY <1>2, <1>6
  <2>4. rank[to] <= rank[s] + 1
    <3>1. rank[s] \in Nat /\ rank[s] = Len(P[s]) /\ rank[to] = Len(P[to])
      BY <1>3, <1>6, <2>1
    <3>2. QED
      BY <1>5, <2>2, <2>3, <3>1
  <2>5. QED
    BY <2>1, <2>2, <2>4 DEF Tables!GoesOn, to, n
<1>7. ASSUME NEW s \in 1 .. n
      PROVE  /\ Tables!GoesBack(states[s].fallback, rank[s])
             /\ states[s].timer # None => Tables!GoesBack(states[s].timer, rank[s])
  BY <1>2, <1>3, <1>7 DEF GivesLessBack
<1>8. Tables!RankedBy(rank, states)
  BY <1>5, <1>6, <1>7 DEF Tables!RankedBy, n, Tables!HOME_STATE_IDX, HOME_STATE_IDX
<1>9. QED
  BY <1>4, <1>8 DEF Tables!Ranked, n, states

\* A profile of tidy layers compiles to tables that can be replayed: the
\* hypothesis under which Mapper's replays are shallow.
THEOREM CompiledIsReplayable ==
  ASSUME NoneIsNoTransition, DurationsAreNumbers, NEW profile, IsProfile(profile),
         \A l \in DOMAIN profile.layers : Tidy(SequencesOf(profile.layers[l]))
  PROVE  Tables!Replayable(Compile(profile))
<1> DEFINE c == Compile(profile)
           n == Len(profile.layers)
<1>1. /\ Len(c.layers) = n /\ DOMAIN profile.layers = 1 .. n
      /\ \A l \in 1 .. n : c.layers[l].states =
                             generate_states(profile.layers[l].sequences).states
  BY CompileIs DEF IsProfile
<1>2. \A l \in 1 .. n : IsProfileLayer(profile.layers[l]) /\ Tidy(SequencesOf(profile.layers[l]))
  BY <1>1 DEF IsProfile
<1> HIDE DEF c, n
<1>3. ASSUME NEW l \in 1 .. n
      PROVE  Tables!Ranked(c.layers[l].states)
  <2> DEFINE layer == profile.layers[l]
             g     == generate_states(layer.sequences)
             Homes == {Indeterminate, HOME_STATE_IDX}
  <2>1. IsProfileLayer(layer) /\ Tidy(SequencesOf(layer))
    BY <1>2, <1>3
  <2>2. c.layers[l].states = g.states
    BY <1>1, <1>3
  <2>3. Built(g, SequencesOf(layer), AllOutputs, Homes)
    <3> HIDE DEF layer
    <3>1. ASSUME NEW b \in Seq(Tables!Binds)
          PROVE  b \in Seq(AllOutputs)
      BY AllOutputsServe
    <3>2. \A k \in DOMAIN layer.sequences : layer.sequences[k].binds \in Seq(AllOutputs)
      BY <2>1, <3>1 DEF IsProfileLayer
    <3>3. QED
      BY <2>1, <3>2, AllOutputsServe, LayerBuilds
  <2> HIDE DEF g, layer
  <2>4. PICK P : Rooted(g.states, SequencesOf(layer), P)
    BY <2>1, <2>3 DEF Built
  <2>5. IsMachine(g)
    BY <2>3 DEF Built, Sound
  <2>6. Tables!Ranked(g.states)
    BY <2>4, <2>5, TidyIsRanked
  <2>7. QED
    BY <2>2, <2>6
<1>4. QED
  BY <1>1, <1>3 DEF Tables!Replayable, c
=============================================================================
