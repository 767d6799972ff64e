----------------------------- MODULE MapperProofs -----------------------------
(***************************************************************************)
(* Machine-checked proofs about Mapper, for every set of events, every     *)
(* profile the generator can build and every bound.                        *)
(***************************************************************************)
EXTENDS MapperPromises, FiniteSetTheorems, SequenceTheorems, TLAPS

-----------------------------------------------------------------------------
(* Operators the steps are built from. *)

\* Nothing is delayed in an empty vector.
LEMMA NothingDelayed == Cardinality(Delayed(<<>>)) = 0
<1>1. Delayed(<<>>) = {}
  BY DEF Delayed
<1>2. QED
  BY <1>1, FS_EmptySet

\* Flushing an empty vector leaves it empty.
LEMMA KeptEmpty == Kept(<<>>) = <<>>
BY NothingDelayed DEF Kept

LEMMA DelayedCount ==
  ASSUME NEW S, NEW q \in Seq(S)
  PROVE  Cardinality(Delayed(q)) \in 0 .. Len(q)
<1>1. Len(q) \in Nat
  BY LenProperties
<1>2. IsFiniteSet(1 .. Len(q)) /\ Cardinality(1 .. Len(q)) = Len(q)
  BY <1>1, FS_Interval
<1>3. Delayed(q) \in SUBSET (1 .. Len(q))
  BY DEF Delayed
<1>4. QED
  BY <1>1, <1>2, <1>3, FS_Subset, FS_CardinalityType

\* The partition moves every event to a place of the vector.
LEMMA PartitionInRange ==
  ASSUME NEW S, NEW q \in Seq(S), NEW n \in 1 .. Len(q)
  PROVE  PartitionOrder(q)[n] \in 1 .. Len(q)
BY DEF PartitionOrder

LEMMA KeptTyped ==
  ASSUME NEW S, NEW q \in Seq(S)
  PROVE  Kept(q) \in Seq(S)
<1> DEFINE mid == Cardinality(Delayed(q))
<1>1. mid \in 0 .. Len(q) /\ Len(q) \in Nat
  BY DelayedCount, LenProperties
<1>2. \A n \in 1 .. mid : q[PartitionOrder(q)[n]] \in S
  BY <1>1, PartitionInRange, ElementOfSeq
<1> HIDE DEF mid
<1>3. [n \in 1 .. mid |-> q[PartitionOrder(q)[n]]] \in [1 .. mid -> S]
  BY <1>2
<1>4. QED
  BY <1>1, <1>3, SeqDef DEF Kept, mid

LEMMA EmittedTyped ==
  ASSUME NEW T, NEW S, NEW q \in Seq(S), \A e \in S : e.ev \in T
  PROVE  Emitted(q) \in Seq(T)
<1> DEFINE mid == Cardinality(Delayed(q))
           len == Len(q) - mid
<1>1. mid \in 0 .. Len(q) /\ Len(q) \in Nat /\ len \in Nat
  BY DelayedCount, LenProperties
<1>2. \A n \in 1 .. len : q[PartitionOrder(q)[mid + n]].ev \in T
  <2> TAKE n \in 1 .. len
  <2>1. mid + n \in 1 .. Len(q)
    BY <1>1
  <2> HIDE DEF mid
  <2>2. QED
    BY <2>1, PartitionInRange, ElementOfSeq
<1> HIDE DEF mid, len
<1>3. [n \in 1 .. len |-> q[PartitionOrder(q)[mid + n]].ev] \in [1 .. len -> T]
  BY <1>2
<1>4. [n \in 1 .. len |-> q[PartitionOrder(q)[mid + n]].ev] \in Seq(T)
  BY <1>1, <1>3, SeqDef
<1>5. Emitted(q) = [n \in 1 .. len |-> q[PartitionOrder(q)[mid + n]].ev]
  BY DEF Emitted, len, mid
<1>6. QED
  BY <1>4, <1>5

\* Pushing an activation.
LEMMA PushTyped ==
  ASSUME NEW S, NEW top \in S, NEW rest \in Seq(S)
  PROVE  <<top>> \o rest \in Seq(S)
<1>1. <<top>> \in Seq(S)
  OBVIOUS
<1>2. QED
  BY <1>1, ConcatProperties

-----------------------------------------------------------------------------
(* The thread outside a turn, and the paused mapper. *)

\* Only a turn that holds the mutex has activations: they end with it, or
\* with the process.
ActivationsInTurn == stack # <<>> => pc \in {"key", "flush", "crashed"}

QuietInv == PausedQuiescent /\ ActivationsInTurn

LEMMA InitQuiet == Init => QuietInv
BY DEF Init, QuietInv, PausedQuiescent, ActivationsInTurn

LEMMA NextActivations == ActivationsInTurn /\ [Next]_vars => ActivationsInTurn'
<1> SUFFICES ASSUME ActivationsInTurn, [Next]_vars PROVE ActivationsInTurn'
  OBVIOUS
<1> USE DEF ActivationsInTurn, channel, machine, control, thread
<1>1. CASE LoopTest \/ WaitKey \/ CheckTimer \/ ProcessKey \/ CheckQueuedEvents \/ Throw
  BY <1>1 DEF LoopTest, WaitKey, CheckTimer, ProcessKey, CheckQueuedEvents, Throw
<1>2. CASE \/ QueueOutput \/ QueueWait \/ SwapLayer \/ DeferInput \/ TranslateBasic
           \/ OutputBind \/ RedoInput \/ Return
  BY <1>2 DEF QueueOutput, QueueWait, SwapLayer, DeferInput, TranslateBasic, OutputBind,
              RedoInput, Return, NextOutput, OutputsDone, InActivation
<1>3. ASSUME NEW p \in Profiles, SetProfile(p) PROVE ActivationsInTurn'
  BY <1>3 DEF SetProfile, MainThread, HoldsMutex
<1>4. ASSUME NEW l \in 1 .. Len(Layers), SetLayer(l) PROVE ActivationsInTurn'
  BY <1>4 DEF SetLayer
<1>5. CASE Pause \/ Resume \/ Stop \/ Close \/ Tick
  BY <1>5 DEF Pause, Resume, Stop, Close, Tick
<1>6. ASSUME NEW ev \in InputEvents, SendKey(ev) PROVE ActivationsInTurn'
  BY <1>6 DEF SendKey
<1>7. CASE UNCHANGED vars
  BY <1>7 DEF vars
<1>8. QED
  BY <1>1, <1>2, <1>3, <1>4, <1>5, <1>6, <1>7 DEF Next, MapperStep, MainStep

LEMMA NextQuiet == QuietInv /\ [Next]_vars => QuietInv'
<1> SUFFICES ASSUME QuietInv, [Next]_vars PROVE QuietInv'
  OBVIOUS
<1> USE DEF QuietInv, PausedQuiescent, ActivationsInTurn, channel, machine, control, thread
<1>1. CASE LoopTest
  BY <1>1 DEF LoopTest
<1>2. CASE WaitKey
  BY <1>2 DEF WaitKey
<1>3. CASE CheckTimer
  BY <1>3, EventsAssumption DEF CheckTimer, ApplyTransition, TimerExpired
<1>4. CASE ProcessKey
  BY <1>4 DEF ProcessKey, ForwardRaw, TakeTransition, ApplyTransition
<1>5. CASE CheckQueuedEvents
  BY <1>5, KeptEmpty DEF CheckQueuedEvents
<1>6. CASE QueueOutput
  BY <1>6 DEF QueueOutput, InActivation, Replace
<1>7. CASE QueueWait
  BY <1>7 DEF QueueWait, InActivation, Replace
<1>8. CASE SwapLayer
  BY <1>8 DEF SwapLayer, InActivation, Replace, SetLayerInner
<1>9. CASE DeferInput
  BY <1>9 DEF DeferInput, NextOutput, InActivation, Replace
<1>10. CASE TranslateBasic
  BY <1>10 DEF TranslateBasic, NextOutput, InActivation, Replace
<1>11. CASE OutputBind
  BY <1>11 DEF OutputBind, NextOutput, InActivation, Replace
<1>12. CASE RedoInput
  BY <1>12 DEF RedoInput, OutputsDone, InActivation, TakeTransition, ApplyTransition
<1>13. CASE Return
  BY <1>13 DEF Return, OutputsDone, InActivation
<1>14. CASE Throw
  BY <1>14 DEF Throw
<1>15. ASSUME NEW p \in Profiles, SetProfile(p) PROVE QuietInv'
  BY <1>15 DEF SetProfile, SetLayerInner, MainThread, HoldsMutex
<1>16. ASSUME NEW l \in 1 .. Len(Layers), SetLayer(l) PROVE QuietInv'
  BY <1>16 DEF SetLayer, SetLayerInner
<1>17. CASE Pause
  BY <1>17 DEF Pause, MainThread, HoldsMutex
<1>18. CASE Resume
  BY <1>18 DEF Resume
<1>19. CASE Stop
  BY <1>19 DEF Stop
<1>20. CASE Close
  BY <1>20 DEF Close
<1>21. ASSUME NEW ev \in InputEvents, SendKey(ev) PROVE QuietInv'
  BY <1>21 DEF SendKey
<1>22. CASE Tick
  BY <1>22 DEF Tick
<1>23. CASE UNCHANGED vars
  BY <1>23 DEF vars
<1>24. QED
  BY <1>1, <1>2, <1>3, <1>4, <1>5, <1>6, <1>7, <1>8, <1>9, <1>10, <1>11, <1>12, <1>13, <1>14,
     <1>15, <1>16, <1>17, <1>18, <1>19, <1>20, <1>21, <1>22, <1>23
  DEF Next, MapperStep, MainStep

\* A paused mapper never has a timer, a pending output or a transition under
\* way, from pause() to resume(), whatever the other threads do
\* (mapper.cpp:200-215, 255-263).
THEOREM PausedMapperIsQuiet == Spec => []PausedQuiescent
<1>1. QuietInv => PausedQuiescent
  BY DEF QuietInv
<1>2. QED
  BY InitQuiet, NextQuiet, <1>1, PTL DEF Spec
-----------------------------------------------------------------------------
(* The length of the next wait. *)

LEMMA InitNoOversleep == Init => NoOversleep
BY DEF Init, NoOversleep

LEMMA NextNoOversleep == NoOversleep /\ ActivationsInTurn /\ [Next]_vars => NoOversleep'
<1> SUFFICES ASSUME NoOversleep, ActivationsInTurn, [Next]_vars PROVE NoOversleep'
  OBVIOUS
<1> USE DEF NoOversleep, ActivationsInTurn, channel, machine, control, thread
<1>1. CASE LoopTest \/ WaitKey \/ Return \/ Throw
  BY <1>1 DEF LoopTest, WaitKey, Return, Throw, OutputsDone, InActivation
<1>2. CASE CheckTimer \/ ProcessKey
  BY <1>2 DEF CheckTimer, ProcessKey
<1>3. CASE CheckQueuedEvents
  BY <1>3 DEF CheckQueuedEvents
<1>4. CASE QueueOutput \/ QueueWait \/ DeferInput \/ TranslateBasic \/ OutputBind \/ RedoInput
  BY <1>4 DEF QueueOutput, QueueWait, DeferInput, TranslateBasic, OutputBind, RedoInput,
              NextOutput, OutputsDone, InActivation
<1>5. CASE SwapLayer
  BY <1>5 DEF SwapLayer, InActivation
<1>6. ASSUME NEW p \in Profiles, SetProfile(p) PROVE NoOversleep'
  BY <1>6 DEF SetProfile, SetLayerInner
<1>7. ASSUME NEW l \in 1 .. Len(Layers), SetLayer(l) PROVE NoOversleep'
  BY <1>7 DEF SetLayer, SetLayerInner
<1>8. CASE Pause \/ Resume \/ Stop \/ Close
  BY <1>8 DEF Pause, Resume, Stop, Close
<1>9. ASSUME NEW ev \in InputEvents, SendKey(ev) PROVE NoOversleep'
  BY <1>9 DEF SendKey
<1>10. CASE Tick
  BY <1>10 DEF Tick
<1>11. CASE UNCHANGED vars
  BY <1>11 DEF vars
<1>12. QED
  BY <1>1, <1>2, <1>3, <1>4, <1>5, <1>6, <1>7, <1>8, <1>9, <1>10, <1>11
  DEF Next, MapperStep, MainStep

\* No timer and no delayed output is ever left behind a wait that may last
\* for ever: whatever the main thread does between the flush of one turn and
\* the wait of the next, the timeout computed at the flush is still right
\* (mapper.cpp:123, 148-152).
THEOREM NeverOversleeps == Spec => []NoOversleep
<1>1. Init => NoOversleep /\ QuietInv
  BY InitNoOversleep, InitQuiet
<1>2. NoOversleep /\ QuietInv /\ [Next]_vars => (NoOversleep /\ QuietInv)'
  BY NextNoOversleep, NextQuiet DEF QuietInv
<1>3. QED
  BY <1>1, <1>2, PTL DEF Spec
-----------------------------------------------------------------------------
(* Types. *)

\* What a transition hands to apply_transition.
LEMMA TransitionTyped ==
  ASSUME NEW states, Len(states) \in Nat, NEW t, IsTransition(t, states)
  PROVE  /\ t.timer_ms \in Nat \cup {None}
         /\ t.outputs \in Seq(StateMachineOutputs)
         /\ t.new_state \in Nat
         /\ t.timer_ms # None => /\ t.new_state \in 1 .. Len(states)
                                 /\ states[t.new_state].timer # None
BY DEF IsTransition, Indeterminate

\* The layer and the state a lookup finds.
LEMMA LookupTyped ==
  ASSUME IsBuild(installed), InRange
  PROVE  /\ IsLayer(Layers[cur_layer_idx])
         /\ IsState(CurState, Layers[cur_layer_idx].states)
         /\ Len(Layers[cur_layer_idx].states) \in Nat
BY DEF IsBuild, InRange, Layers, IsLayer, CurState

\* The transition an event takes in the current state.
LEMMA EdgeTyped ==
  ASSUME IsBuild(installed), InRange, NEW ev
  PROVE  IsTransition(IF ev \in DOMAIN CurState.edges THEN CurState.edges[ev]
                                                      ELSE CurState.fallback,
                      Layers[cur_layer_idx].states)
BY LookupTyped DEF IsState

LEMMA ApplyTyped ==
  ASSUME IsBuild(installed), InRange, NEW t, IsTransition(t, Layers[cur_layer_idx].states),
         NEW prev \in InputEvents \cup {None}, NEW rest \in Seq(Activations),
         ApplyTransition(t, prev, rest)
  PROVE  /\ cur_state_idx' \in Nat
         /\ current_timer' \in Nat \cup {None}
         /\ stack' \in Seq(Activations)
<1>1. Len(Layers[cur_layer_idx].states) \in Nat
  BY LookupTyped
<1>2. /\ t.timer_ms \in Nat \cup {None}
      /\ t.outputs \in Seq(StateMachineOutputs)
      /\ t.new_state \in Nat
  BY <1>1, TransitionTyped
<1>3. cur_state_idx' \in Nat
  BY <1>1, <1>2 DEF ApplyTransition, Targets
<1>4. [prev |-> prev, outputs |-> t.outputs, redo |-> <<>>, binds |-> <<>>, delay |-> 0]
        \in Activations
  BY <1>2, EmptySeq DEF Activations
<1>5. stack' \in Seq(Activations)
  BY <1>4, PushTyped DEF ApplyTransition
<1>6. QED
  BY <1>2, <1>3, <1>5 DEF ApplyTransition

\* Replacing the innermost activation by another one.
LEMMA ReplaceTyped ==
  ASSUME stack \in Seq(Activations), stack # <<>>, NEW a \in Activations, Replace(a)
  PROVE  stack' \in Seq(Activations)
BY HeadTailProperties, PushTyped DEF Replace

\* The innermost activation, its next bind and its next output.
LEMMA TopTyped ==
  ASSUME stack \in Seq(Activations), stack # <<>>
  PROVE  /\ Top \in Activations
         /\ Top.binds # <<>> => /\ Head(Top.binds) \in Binds
                                /\ Tail(Top.binds) \in Seq(Binds)
         /\ Top.outputs # <<>> => /\ Head(Top.outputs) \in StateMachineOutputs
                                  /\ Tail(Top.outputs) \in Seq(StateMachineOutputs)
         /\ Top.redo # <<>> => /\ Head(Top.redo) \in InputEvents
                               /\ Tail(Top.redo) \in Seq(InputEvents)
<1>1. Top \in Activations
  BY HeadTailProperties DEF Top
<1>2. QED
  BY <1>1, HeadTailProperties DEF Activations

LEMMA RestTyped ==
  ASSUME stack \in Seq(Activations), NextOutput
  PROVE  /\ Rest \in Activations
         /\ \A e \in InputEvents : [Rest EXCEPT !.redo = Append(@, e)] \in Activations
         /\ \A b \in Seq(Binds) : [Rest EXCEPT !.binds = b] \in Activations
         /\ Head(Top.outputs).kind \in {"basic", "process"}
              => EventOf(Head(Top.outputs)) \in InputEvents \cup {None}
<1>1. /\ Top \in Activations
      /\ Tail(Top.outputs) \in Seq(StateMachineOutputs)
      /\ Head(Top.outputs) \in StateMachineOutputs
  BY TopTyped DEF NextOutput, InActivation
<1>2. Rest \in Activations /\ Rest.redo \in Seq(InputEvents)
  BY <1>1 DEF Rest, Activations
<1>3. \A e \in InputEvents : [Rest EXCEPT !.redo = Append(@, e)] \in Activations
  BY <1>2, AppendProperties DEF Activations
<1>4. \A b \in Seq(Binds) : [Rest EXCEPT !.binds = b] \in Activations
  BY <1>2 DEF Activations
<1>5. Head(Top.outputs).kind \in {"basic", "process"}
        => EventOf(Head(Top.outputs)) \in InputEvents \cup {None}
  BY <1>1 DEF EventOf, StateMachineOutputs, Binds, Activations
<1>6. QED
  BY <1>2, <1>3, <1>4, <1>5
\* One layer's list of binds.
LEMMA BasicTyped ==
  ASSUME IsBuild(installed), cur_layer_idx \in 1 .. Len(Layers),
         NEW ev \in DOMAIN Layers[cur_layer_idx].basic
  PROVE  Layers[cur_layer_idx].basic[ev] \in Seq(Binds)
BY DEF IsBuild, IsLayer, Layers

LEMMA InitTypes == Init => TypeOK
<1> SUFFICES ASSUME Init PROVE TypeOK
  OBVIOUS
<1>1. IsBuild(NothingInstalled)
  BY DEF IsBuild, NothingInstalled
<1>2. IsBuild(installed)
  BY <1>1, BuildAssumption DEF Init
<1>3. cur_layer_idx \in Nat /\ cur_state_idx \in Nat
  BY <1>2 DEF Init, IsBuild, HOME_STATE_IDX
<1>4. QED
  BY <1>2, <1>3, EmptySeq DEF Init, TypeOK, Points

\* A queued output waits for what is left of its delay.
Waiting == [left : Nat, ev : OutputEvents]

LEMMA LaterTyped ==
  ASSUME NEW e \in Waiting
  PROVE  [e EXCEPT !.left = Later(e.left)] \in Waiting
<1>1. Later(e.left) \in Nat
  BY DEF Later, Waiting
<1>2. QED
  BY <1>1 DEF Waiting

LEMMA NextTypes == TypeOK /\ [Next]_vars => TypeOK'
<1> SUFFICES ASSUME TypeOK, [Next]_vars PROVE TypeOK'
  OBVIOUS
<1> USE DEF TypeOK, channel, machine, control, thread
<1>1. CASE LoopTest
  BY <1>1, EmptySeq DEF LoopTest, Points
<1>2. CASE WaitKey
  <2>1. queue # <<>> => Head(queue) \in InputEvents /\ Tail(queue) \in Seq(InputEvents)
    BY HeadTailProperties
  <2>2. QED
    BY <1>2, <2>1, EmptySeq DEF WaitKey, Points
<1>3. CASE CheckTimer
  <2>1. CASE TimerExpired /\ ApplyTransition(CurState.timer, None, stack)
    <3>1. IsTransition(CurState.timer, Layers[cur_layer_idx].states)
      BY <1>3, <2>1, LookupTyped DEF CheckTimer, TimerExpired, IsState
    <3>2. /\ cur_state_idx' \in Nat /\ current_timer' \in Nat \cup {None}
          /\ stack' \in Seq(Activations)
      BY <1>3, <2>1, <3>1, ApplyTyped DEF CheckTimer
    <3>3. QED
      BY <1>3, <2>1, <3>2, EmptySeq DEF CheckTimer, ApplyTransition, Points
  <2>2. QED
    BY <1>3, <2>1, EmptySeq DEF CheckTimer, Points
<1>4. CASE ProcessKey
  <2>1. CASE key_opt # None /\ ~paused /\ TakeTransition(key_opt, stack)
    <3>1. /\ cur_state_idx' \in Nat /\ current_timer' \in Nat \cup {None}
          /\ stack' \in Seq(Activations)
      BY <2>1, EdgeTyped, ApplyTyped DEF TakeTransition
    <3>2. QED
      BY <1>4, <2>1, <3>1, EmptySeq DEF ProcessKey, TakeTransition, ApplyTransition, Points
  <2>2. CASE key_opt # None /\ paused /\ ForwardRaw(key_opt)
    <3>1. sent' \in Seq(OutputEvents)
      BY <2>2, EventsAssumption DEF ForwardRaw
    <3>2. QED
      BY <1>4, <2>2, <3>1 DEF ProcessKey, ForwardRaw, Points
  <2>3. QED
    BY <1>4, <2>1, <2>2, EmptySeq DEF ProcessKey, Points
<1>5. CASE CheckQueuedEvents
  <2>1. queued_events \in Seq(Waiting)
    BY DEF Waiting
  <2>2. \A e \in Waiting : e.ev \in OutputEvents
    BY DEF Waiting
  <2>3. Kept(queued_events) \in Seq(Waiting) /\ Emitted(queued_events) \in Seq(OutputEvents)
    BY <2>1, <2>2, KeptTyped, EmittedTyped
  <2>4. QED
    BY <1>5, <2>3 DEF CheckQueuedEvents, Points, Waiting
<1>6. CASE QueueOutput
  <2>1. /\ Top \in Activations /\ Head(Top.binds) \in Binds
        /\ Tail(Top.binds) \in Seq(Binds) /\ Head(Top.binds).kind = "out"
    BY <1>6, TopTyped DEF QueueOutput, InActivation
  <2>2. [Top EXCEPT !.binds = Tail(@)] \in Activations
    BY <2>1 DEF Activations
  <2>3. [left |-> Top.delay, ev |-> Head(Top.binds).ev] \in Waiting
    BY <2>1 DEF Waiting, Binds, Activations
  <2>4. queued_events' \in Seq(Waiting)
    BY <1>6, <2>3, AppendProperties DEF QueueOutput, Waiting
  <2>5. QED
    BY <1>6, <2>2, <2>4, ReplaceTyped, EmptySeq DEF QueueOutput, InActivation, Waiting
<1>7. CASE QueueWait
  <2>1. /\ Top \in Activations /\ Head(Top.binds) \in Binds
        /\ Tail(Top.binds) \in Seq(Binds) /\ Head(Top.binds).kind = "wait"
    BY <1>7, TopTyped DEF QueueWait, InActivation
  <2>2. Top.delay + Head(Top.binds).ms \in Nat
    BY <2>1 DEF Binds, Activations
  <2>3. [Top EXCEPT !.binds = Tail(@), !.delay = @ + Head(Top.binds).ms] \in Activations
    BY <2>1, <2>2 DEF Activations
  <2>4. QED
    BY <1>7, <2>3, ReplaceTyped, EmptySeq DEF QueueWait, InActivation
<1>8. CASE SwapLayer
  <2>1. /\ Top \in Activations /\ Head(Top.binds) \in Binds
        /\ Tail(Top.binds) \in Seq(Binds) /\ Head(Top.binds).kind = "layer"
    BY <1>8, TopTyped DEF SwapLayer, InActivation
  <2>2. [Top EXCEPT !.binds = Tail(@)] \in Activations
    BY <2>1 DEF Activations
  <2>3. Head(Top.binds).to \in Nat
    BY <2>1 DEF Binds
  <2>4. QED
    BY <1>8, <2>2, <2>3, ReplaceTyped, EmptySeq
    DEF SwapLayer, SetLayerInner, HOME_STATE_IDX, InActivation, Points
<1>9. CASE DeferInput
  <2>1. stack' \in Seq(Activations)
    BY <1>9, RestTyped, ReplaceTyped DEF DeferInput, NextOutput, InActivation
  <2>2. QED
    BY <1>9, <2>1, EmptySeq DEF DeferInput
<1>10. CASE TranslateBasic
  <2> DEFINE ev == EventOf(Head(Top.outputs))
  <2>1. stack \in Seq(Activations) /\ stack # <<>> /\ NextOutput
    BY <1>10 DEF TranslateBasic, NextOutput, InActivation
  <2>2. ev \in InputEvents \cup {None}
    BY <1>10, <2>1, RestTyped DEF TranslateBasic
  <2>3. stack' \in Seq(Activations)
    <3>1. CASE /\ ev # None /\ cur_layer_idx \in 1 .. Len(Layers)
               /\ ev \in DOMAIN Layers[cur_layer_idx].basic
               /\ Replace([Rest EXCEPT !.binds = Layers[cur_layer_idx].basic[ev]])
      BY <2>1, <3>1, BasicTyped, RestTyped, ReplaceTyped
    <3>2. CASE Replace(Rest)
      BY <2>1, <3>2, RestTyped, ReplaceTyped
    <3>3. QED
      BY <1>10, <3>1, <3>2 DEF TranslateBasic
  <2>4. queued_events' \in Seq(Waiting)
    <3>1. CASE UNCHANGED queued_events
      BY <3>1 DEF Waiting
    <3>2. CASE /\ ev \in KeyEvents
               /\ queued_events' = Append(queued_events, [left |-> 0, ev |-> ev])
      BY <3>2, EventsAssumption, AppendProperties DEF Waiting
    <3>3. QED
      BY <1>10, <3>1, <3>2 DEF TranslateBasic
  <2>5. QED
    BY <1>10, <2>3, <2>4, EmptySeq DEF TranslateBasic, Waiting
<1>11. CASE OutputBind
  <2>1. stack \in Seq(Activations) /\ stack # <<>> /\ NextOutput
    BY <1>11 DEF OutputBind, NextOutput, InActivation
  <2>2. Head(Top.outputs) \in Binds
    BY <1>11, <2>1, TopTyped DEF OutputBind, NextOutput, StateMachineOutputs
  <2>3. <<Head(Top.outputs)>> \in Seq(Binds)
    BY <2>2
  <2>4. stack' \in Seq(Activations)
    BY <1>11, <2>1, <2>3, RestTyped, ReplaceTyped DEF OutputBind
  <2>5. QED
    BY <1>11, <2>4, EmptySeq DEF OutputBind
<1>12. CASE RedoInput
  <2> DEFINE rest == <<[Top EXCEPT !.redo = Tail(@)]>> \o Tail(stack)
  <2>1. /\ Top \in Activations /\ Head(Top.redo) \in InputEvents
        /\ Tail(Top.redo) \in Seq(InputEvents)
        /\ Tail(stack) \in Seq(Activations)
    BY <1>12, TopTyped, HeadTailProperties DEF RedoInput, OutputsDone, InActivation
  <2>2. [Top EXCEPT !.redo = Tail(@)] \in Activations
    BY <2>1 DEF Activations
  <2>3. rest \in Seq(Activations)
    BY <2>1, <2>2, PushTyped
  <2>4. TakeTransition(Head(Top.redo), rest)
    BY <1>12 DEF RedoInput
  <2> HIDE DEF rest
  <2>5. /\ cur_state_idx' \in Nat /\ current_timer' \in Nat \cup {None}
        /\ stack' \in Seq(Activations)
    BY <2>1, <2>3, <2>4, EdgeTyped, ApplyTyped DEF TakeTransition
  <2>6. QED
    BY <1>12, <2>4, <2>5, EmptySeq DEF RedoInput, TakeTransition, ApplyTransition
<1>13. CASE Return
  BY <1>13, HeadTailProperties, EmptySeq DEF Return, OutputsDone, InActivation
<1>14. CASE Throw
  BY <1>14, EmptySeq DEF Throw, Points
<1>15. ASSUME NEW p \in Profiles, SetProfile(p) PROVE TypeOK'
  <2>1. IsBuild(Build[p]) /\ Build[p].default_layer \in Nat
    BY BuildAssumption DEF IsBuild
  <2>2. QED
    BY <1>15, <2>1, EmptySeq DEF SetProfile, SetLayerInner, HOME_STATE_IDX, Points
<1>16. ASSUME NEW l \in 1 .. Len(Layers), SetLayer(l) PROVE TypeOK'
  BY <1>16, EmptySeq DEF SetLayer, SetLayerInner, HOME_STATE_IDX, IsBuild, Layers
<1>17. CASE Pause
  BY <1>17, EmptySeq DEF Pause
<1>18. CASE Resume \/ Stop \/ Close
  BY <1>18, EmptySeq DEF Resume, Stop, Close
<1>19. ASSUME NEW ev \in InputEvents, SendKey(ev) PROVE TypeOK'
  BY <1>19, AppendProperties, EmptySeq DEF SendKey
<1>20. CASE Tick
  <2>1. current_timer' \in Nat \cup {None}
    BY <1>20 DEF Tick, Later
  <2>2. \A n \in 1 .. Len(queued_events) : queued_events[n] \in Waiting
    BY ElementOfSeq DEF Waiting
  <2>3. \A n \in 1 .. Len(queued_events) :
          [queued_events[n] EXCEPT !.left = Later(queued_events[n].left)] \in Waiting
    BY <2>2, LaterTyped
  <2>4. Len(queued_events) \in Nat
    BY LenProperties
  <2>5. queued_events' \in [1 .. Len(queued_events) -> Waiting]
    BY <1>20, <2>3 DEF Tick
  <2>6. queued_events' \in Seq(Waiting)
    BY <2>4, <2>5, SeqDef
  <2>7. QED
    BY <1>20, <2>1, <2>6, EmptySeq DEF Tick, Waiting
<1>21. CASE UNCHANGED vars
  BY <1>21 DEF vars
<1>22. QED
  BY <1>1, <1>2, <1>3, <1>4, <1>5, <1>6, <1>7, <1>8, <1>9, <1>10, <1>11, <1>12, <1>13, <1>14,
     <1>15, <1>16, <1>17, <1>18, <1>19, <1>20, <1>21
  DEF Next, MapperStep, MainStep

\* Every variable keeps its type: in particular the outputs that survive the
\* partition and those that leave it are outputs that were queued
\* (mapper.cpp:221-254).
THEOREM MapperTypes == Spec => []TypeOK
BY InitTypes, NextTypes, PTL DEF Spec

-----------------------------------------------------------------------------
(* The timer. *)

\* A transition starts a timer only on the way to a state that reacts to it.
LEMMA ApplyArmed ==
  ASSUME IsBuild(installed), InRange, NEW t, IsTransition(t, Layers[cur_layer_idx].states),
         NEW prev, NEW rest, ApplyTransition(t, prev, rest)
  PROVE  TimerHasTransition'
<1> SUFFICES ASSUME current_timer' # None
             PROVE  InRange' /\ CurState'.timer # None
  BY DEF TimerHasTransition
<1>1. /\ t.new_state \in 1 .. Len(Layers[cur_layer_idx].states)
      /\ t.new_state # Indeterminate
      /\ Layers[cur_layer_idx].states[t.new_state].timer # None
  BY DEF ApplyTransition, IsTransition, Indeterminate
<1>2. /\ cur_state_idx' = t.new_state
      /\ cur_layer_idx' = cur_layer_idx /\ installed' = installed
  BY <1>1 DEF ApplyTransition, Targets
<1>3. QED
  BY <1>1, <1>2 DEF InRange, CurState, Layers

LEMMA InitTimer == Init => TimerHasTransition
BY DEF Init, TimerHasTransition

LEMMA NextTimer == TypeOK /\ TimerHasTransition /\ [Next]_vars => TimerHasTransition'
<1> SUFFICES ASSUME TypeOK, TimerHasTransition, [Next]_vars PROVE TimerHasTransition'
  OBVIOUS
<1> DEFINE Same == UNCHANGED machine
<1>1. CASE Same
  BY <1>1 DEF TimerHasTransition, InRange, CurState, Layers, machine
<1>2. CASE LoopTest \/ WaitKey \/ CheckQueuedEvents \/ Return \/ Throw
  BY <1>1, <1>2 DEF LoopTest, WaitKey, CheckQueuedEvents, Return, Throw
<1>3. CASE CheckTimer
  <2>1. CASE TimerExpired /\ ApplyTransition(CurState.timer, None, stack)
    <3>1. IsTransition(CurState.timer, Layers[cur_layer_idx].states)
      BY <1>3, <2>1, LookupTyped DEF CheckTimer, TimerExpired, IsState, TypeOK
    <3>2. QED
      BY <1>3, <2>1, <3>1, ApplyArmed DEF CheckTimer, TypeOK
  <2>2. QED
    BY <1>1, <1>3, <2>1 DEF CheckTimer
<1>4. CASE ProcessKey
  <2>1. CASE key_opt # None /\ ~paused /\ TakeTransition(key_opt, stack)
    BY <2>1, EdgeTyped, ApplyArmed DEF TakeTransition, TypeOK
  <2>2. QED
    BY <1>1, <1>4, <2>1 DEF ProcessKey, ForwardRaw
<1>5. CASE RedoInput
  <2> DEFINE rest == <<[Top EXCEPT !.redo = Tail(@)]>> \o Tail(stack)
  <2>1. TakeTransition(Head(Top.redo), rest)
    BY <1>5 DEF RedoInput
  <2> HIDE DEF rest
  <2>2. QED
    BY <2>1, EdgeTyped, ApplyArmed DEF TakeTransition, TypeOK
<1>6. CASE QueueOutput \/ QueueWait \/ DeferInput \/ TranslateBasic \/ OutputBind
  BY <1>1, <1>6 DEF QueueOutput, QueueWait, DeferInput, TranslateBasic, OutputBind
<1>7. CASE SwapLayer
  BY <1>7 DEF SwapLayer, SetLayerInner, TimerHasTransition
<1>8. ASSUME NEW p \in Profiles, SetProfile(p) PROVE TimerHasTransition'
  BY <1>8 DEF SetProfile, SetLayerInner, TimerHasTransition
<1>9. ASSUME NEW l \in 1 .. Len(Layers), SetLayer(l) PROVE TimerHasTransition'
  BY <1>9 DEF SetLayer, SetLayerInner, TimerHasTransition
<1>10. CASE Pause
  BY <1>10 DEF Pause, TimerHasTransition
<1>11. CASE Resume \/ Stop \/ Close
  BY <1>1, <1>11 DEF Resume, Stop, Close
<1>12. ASSUME NEW ev \in InputEvents, SendKey(ev) PROVE TimerHasTransition'
  BY <1>1, <1>12 DEF SendKey
<1>13. CASE Tick
  <2>1. current_timer' # None => current_timer # None
    BY <1>13 DEF Tick
  <2>2. UNCHANGED <<installed, cur_layer_idx, cur_state_idx>>
    BY <1>13 DEF Tick
  <2>3. QED
    BY <2>1, <2>2 DEF TimerHasTransition, InRange, CurState, Layers
<1>14. CASE UNCHANGED vars
  BY <1>1, <1>14 DEF vars
<1>15. QED
  BY <1>2, <1>3, <1>4, <1>5, <1>6, <1>7, <1>8, <1>9, <1>10, <1>11, <1>12, <1>13, <1>14
  DEF Next, MapperStep, MainStep

\* Whenever the mapper's timer runs, the state it is in has a timer
\* transition, so an expired timer is always consumed: no swap of layer or
\* profile leaves a timer of the old tables running (mapper.cpp:68-89,
\* 129-133, 171-176).
THEOREM RunningTimerIsArmed == Spec => []TimerHasTransition
<1>1. Init => TypeOK /\ TimerHasTransition
  BY InitTypes, InitTimer
<1>2. TypeOK /\ TimerHasTransition /\ [Next]_vars => (TypeOK /\ TimerHasTransition)'
  BY NextTypes, NextTimer
<1>3. QED
  BY <1>1, <1>2, PTL DEF Spec

-----------------------------------------------------------------------------
(* The indices. *)

\* An activation that names layers 1 .. n only.
SafeActivations(n) ==
  {a \in Activations : LayersExist(a.binds, n) /\ LayersExist(a.outputs, n)}

\* What a well-formed profile gives, with what is needed of the half-done
\* transitions to keep it: they came from the same tables.
TablesFit ==
  WellFormed(installed) =>
    InRange /\ pc # "crashed" /\ stack \in Seq(SafeActivations(Len(Layers)))

TableInv == TypeOK /\ ActivationsInTurn /\ TablesFit

LEMMA LayersExistTail ==
  ASSUME NEW S, NEW s \in Seq(S), s # <<>>, NEW n, LayersExist(s, n)
  PROVE  LayersExist(Tail(s), n) /\ (Head(s).kind = "layer" => Head(s).to \in 1 .. n)
<1>1. Len(s) \in Nat \ {0} /\ Len(Tail(s)) = Len(s) - 1 /\ Head(s) = s[1]
  BY HeadTailProperties, EmptySeq, LenProperties
<1>2. \A i \in 1 .. Len(Tail(s)) : Tail(s)[i] = s[i + 1] /\ i + 1 \in 1 .. Len(s)
  BY <1>1, HeadTailProperties
<1>3. QED
  BY <1>1, <1>2 DEF LayersExist

LEMMA LayersExistEmpty == \A n : LayersExist(<<>>, n)
BY DEF LayersExist

\* A transition of a well-formed profile keeps both indices in range and
\* brings outputs that name existing layers.
LEMMA ApplySafe ==
  ASSUME TypeOK, WellFormed(installed), InRange,
         NEW t, IsTransition(t, Layers[cur_layer_idx].states), SafeTransition(t, Len(Layers)),
         NEW prev \in InputEvents \cup {None},
         NEW rest \in Seq(SafeActivations(Len(Layers))),
         ApplyTransition(t, prev, rest)
  PROVE  InRange' /\ stack' \in Seq(SafeActivations(Len(Layers)))
<1> DEFINE a == [prev |-> prev, outputs |-> t.outputs, redo |-> <<>>, binds |-> <<>>, delay |-> 0]
<1>1. /\ t.outputs \in Seq(StateMachineOutputs)
      /\ t.new_state \in 1 .. Len(Layers[cur_layer_idx].states)
      /\ LayersExist(t.outputs, Len(Layers))
  BY DEF IsTransition, SafeTransition
<1>2. cur_state_idx' = t.new_state /\ UNCHANGED <<installed, cur_layer_idx>>
  BY DEF ApplyTransition, Targets, SafeTransition
<1>3. InRange'
  BY <1>1, <1>2 DEF InRange, Layers
<1>4. a \in Activations
  BY <1>1, EmptySeq DEF Activations
<1>5. a \in SafeActivations(Len(Layers))
  BY <1>1, <1>4, LayersExistEmpty DEF SafeActivations
<1>6. stack' = <<a>> \o rest
  BY DEF ApplyTransition
<1> HIDE DEF a
<1>7. QED
  BY <1>3, <1>5, <1>6, PushTyped

\* The edge, the fallback and the timer of the current state are safe.
LEMMA CurrentSafe ==
  ASSUME TypeOK, WellFormed(installed), InRange
  PROVE  /\ \A ev : SafeTransition(IF ev \in DOMAIN CurState.edges THEN CurState.edges[ev]
                                                                  ELSE CurState.fallback,
                                   Len(Layers))
         /\ CurState.timer # None => SafeTransition(CurState.timer, Len(Layers))
BY DEF WellFormed, InRange, CurState, Layers

LEMMA InitTables == Init => TableInv
<1> SUFFICES ASSUME Init PROVE TableInv
  OBVIOUS
<1>1. TypeOK
  BY InitTypes
<1>2. ActivationsInTurn
  BY DEF Init, ActivationsInTurn
<1>3. ASSUME WellFormed(installed) PROVE InRange
  <2>1. cur_layer_idx \in 1 .. Len(Layers)
    BY <1>3 DEF Init, WellFormed, Layers
  <2>2. Len(Layers[cur_layer_idx].states) \in Nat \ {0}
    BY <1>1, <2>1 DEF TypeOK, IsBuild, IsLayer, Layers
  <2>3. QED
    BY <2>1, <2>2 DEF InRange, Init, HOME_STATE_IDX
<1>4. QED
  BY <1>1, <1>2, <1>3, EmptySeq DEF TableInv, TablesFit, Init
\* Replacing the innermost activation by another safe one.
LEMMA ReplaceSafe ==
  ASSUME NEW n, stack \in Seq(SafeActivations(n)), stack # <<>>,
         NEW a \in SafeActivations(n), Replace(a)
  PROVE  stack' \in Seq(SafeActivations(n))
BY HeadTailProperties, PushTyped DEF Replace

\* What remains of a safe activation is safe, and so is its next layer swap.
LEMMA TopSafe ==
  ASSUME NEW n, stack \in Seq(SafeActivations(n)), stack # <<>>
  PROVE  /\ Top \in SafeActivations(n)
         /\ Top.binds # <<>> =>
              /\ LayersExist(Tail(Top.binds), n)
              /\ Head(Top.binds).kind = "layer" => Head(Top.binds).to \in 1 .. n
         /\ Top.outputs # <<>> =>
              /\ LayersExist(Tail(Top.outputs), n)
              /\ Head(Top.outputs).kind = "layer" => Head(Top.outputs).to \in 1 .. n
<1>1. Top \in SafeActivations(n)
  BY HeadTailProperties DEF Top
<1>2. /\ Top.binds \in Seq(Binds) /\ LayersExist(Top.binds, n)
      /\ Top.outputs \in Seq(StateMachineOutputs) /\ LayersExist(Top.outputs, n)
  BY <1>1 DEF SafeActivations, Activations
<1>3. QED
  BY <1>1, <1>2, LayersExistTail

LEMMA RestSafe ==
  ASSUME NEW n, stack \in Seq(SafeActivations(n)), stack \in Seq(Activations), NextOutput
  PROVE  /\ Rest \in SafeActivations(n)
         /\ \A e \in InputEvents : [Rest EXCEPT !.redo = Append(@, e)] \in SafeActivations(n)
         /\ \A b \in Seq(Binds) : LayersExist(b, n)
              => [Rest EXCEPT !.binds = b] \in SafeActivations(n)
<1>1. /\ Top \in SafeActivations(n) /\ Top \in Activations
      /\ LayersExist(Tail(Top.outputs), n)
  BY TopSafe, TopTyped DEF NextOutput, InActivation
<1>2. /\ Rest.binds = Top.binds /\ Rest.outputs = Tail(Top.outputs)
      /\ Rest.redo = Top.redo /\ LayersExist(Top.binds, n)
  BY <1>1 DEF Rest, SafeActivations, Activations
<1>3. Rest \in Activations
  BY RestTyped
<1>4. Rest \in SafeActivations(n)
  BY <1>1, <1>2, <1>3 DEF SafeActivations
<1>5. ASSUME NEW e \in InputEvents
      PROVE  [Rest EXCEPT !.redo = Append(@, e)] \in SafeActivations(n)
  <2>1. [Rest EXCEPT !.redo = Append(@, e)] \in Activations
    BY RestTyped
  <2>2. /\ [Rest EXCEPT !.redo = Append(@, e)].binds = Rest.binds
        /\ [Rest EXCEPT !.redo = Append(@, e)].outputs = Rest.outputs
    BY <1>3 DEF Activations
  <2>3. QED
    BY <1>1, <1>2, <2>1, <2>2 DEF SafeActivations
<1>6. ASSUME NEW b \in Seq(Binds), LayersExist(b, n)
      PROVE  [Rest EXCEPT !.binds = b] \in SafeActivations(n)
  <2>1. [Rest EXCEPT !.binds = b] \in Activations
    BY RestTyped
  <2>2. /\ [Rest EXCEPT !.binds = b].binds = b
        /\ [Rest EXCEPT !.binds = b].outputs = Rest.outputs
    BY <1>3 DEF Activations
  <2>3. QED
    BY <1>1, <1>2, <1>6, <2>1, <2>2 DEF SafeActivations
<1>7. QED
  BY <1>4, <1>5, <1>6

LEMMA NextTables == TableInv /\ [Next]_vars => TablesFit'
<1> SUFFICES ASSUME TypeOK, ActivationsInTurn, TablesFit, [Next]_vars, WellFormed(installed')
             PROVE  /\ InRange' /\ pc' # "crashed"
                    /\ stack' \in Seq(SafeActivations(Len(Layers')))
  BY DEF TableInv, TablesFit
<1> DEFINE Goal == /\ InRange' /\ pc' # "crashed"
                   /\ stack' \in Seq(SafeActivations(Len(Layers')))
<1>1. UNCHANGED installed => /\ WellFormed(installed) /\ InRange /\ pc # "crashed"
                             /\ stack \in Seq(SafeActivations(Len(Layers)))
                             /\ Layers' = Layers
  BY DEF TablesFit, Layers
\* A step that leaves the machine alone.
<1>2. UNCHANGED machine => InRange'
  BY <1>1 DEF machine, InRange, Layers
<1>3. CASE LoopTest \/ WaitKey \/ CheckQueuedEvents
  BY <1>3, <1>1, <1>2 DEF LoopTest, WaitKey, CheckQueuedEvents, machine
<1>4. CASE CheckTimer
  <2>1. CASE TimerExpired /\ ApplyTransition(CurState.timer, None, stack)
    <3>1. UNCHANGED installed
      BY <2>1 DEF ApplyTransition
    <3>2. IsTransition(CurState.timer, Layers[cur_layer_idx].states)
      BY <1>1, <2>1, <3>1, LookupTyped DEF TimerExpired, IsState, TypeOK
    <3>3. InRange' /\ stack' \in Seq(SafeActivations(Len(Layers)))
      BY <1>1, <2>1, <3>1, <3>2, CurrentSafe, ApplySafe DEF TimerExpired
    <3>4. QED
      BY <1>4, <1>1, <3>1, <3>3 DEF CheckTimer
  <2>2. QED
    BY <1>4, <2>1, <1>1, <1>2 DEF CheckTimer, machine
<1>5. CASE ProcessKey
  <2>1. CASE key_opt # None /\ ~paused /\ TakeTransition(key_opt, stack)
    <3>1. UNCHANGED installed /\ key_opt \in InputEvents
      BY <2>1 DEF TakeTransition, ApplyTransition, TypeOK
    <3>2. InRange' /\ stack' \in Seq(SafeActivations(Len(Layers)))
      BY <1>1, <2>1, <3>1, EdgeTyped, CurrentSafe, ApplySafe DEF TakeTransition, TypeOK
    <3>3. QED
      BY <1>5, <1>1, <3>1, <3>2 DEF ProcessKey
  <2>2. QED
    BY <1>5, <2>1, <1>1, <1>2 DEF ProcessKey, ForwardRaw, machine
<1>6. CASE QueueOutput \/ QueueWait
  <2>1. UNCHANGED <<machine, pc>> /\ stack # <<>> /\ Top.binds # <<>>
    BY <1>6 DEF QueueOutput, QueueWait, InActivation
  <2>2. stack \in Seq(SafeActivations(Len(Layers))) /\ Layers' = Layers
    BY <2>1, <1>1 DEF machine
  <2>3. /\ Top \in SafeActivations(Len(Layers)) /\ Top \in Activations
        /\ LayersExist(Tail(Top.binds), Len(Layers))
        /\ Tail(Top.binds) \in Seq(Binds) /\ Head(Top.binds) \in Binds
    BY <2>1, <2>2, TopSafe, TopTyped DEF TypeOK
  <2>4. \A d \in Nat : [Top EXCEPT !.binds = Tail(@), !.delay = d]
                         \in SafeActivations(Len(Layers))
    BY <2>3 DEF SafeActivations, Activations
  <2>5. [Top EXCEPT !.binds = Tail(@)] \in SafeActivations(Len(Layers))
    BY <2>3 DEF SafeActivations, Activations
  <2>6. stack' \in Seq(SafeActivations(Len(Layers)))
    <3>1. CASE QueueOutput
      BY <2>1, <2>2, <2>5, <3>1, ReplaceSafe DEF QueueOutput
    <3>2. CASE QueueWait
      <4>1. Top.delay + Head(Top.binds).ms \in Nat
        BY <3>2, <2>3 DEF QueueWait, Binds, Activations
      <4>2. Replace([Top EXCEPT !.binds = Tail(@), !.delay = Top.delay + Head(Top.binds).ms])
        BY <3>2 DEF QueueWait
      <4>3. QED
        BY <2>1, <2>2, <2>4, <4>1, <4>2, ReplaceSafe
    <3>3. QED
      BY <1>6, <3>1, <3>2
  <2>7. QED
    BY <2>1, <2>2, <2>6, <1>1, <1>2 DEF machine
<1>7. CASE SwapLayer
  <2>1. /\ UNCHANGED installed /\ stack # <<>> /\ Top.binds # <<>>
        /\ Head(Top.binds).kind = "layer"
    BY <1>7 DEF SwapLayer, InActivation
  <2>2. /\ stack \in Seq(SafeActivations(Len(Layers))) /\ Layers' = Layers
        /\ WellFormed(installed)
    BY <2>1, <1>1
  <2>3. /\ Top \in SafeActivations(Len(Layers)) /\ Top \in Activations
        /\ LayersExist(Tail(Top.binds), Len(Layers))
        /\ Tail(Top.binds) \in Seq(Binds)
        /\ Head(Top.binds).to \in 1 .. Len(Layers)
    BY <2>1, <2>2, TopSafe, TopTyped DEF TypeOK
  <2>4. [Top EXCEPT !.binds = Tail(@)] \in SafeActivations(Len(Layers))
    BY <2>3 DEF SafeActivations, Activations
  <2>5. stack' \in Seq(SafeActivations(Len(Layers)))
    BY <1>7, <2>1, <2>2, <2>4, ReplaceSafe DEF SwapLayer
  <2>6. pc' # "crashed"
    BY <1>7, <2>3, <1>1, <2>1 DEF SwapLayer
  <2>7. Len(Layers[Head(Top.binds).to].states) \in Nat \ {0}
    BY <2>3 DEF TypeOK, IsBuild, IsLayer, Layers
  <2>8. InRange'
    BY <1>7, <2>2, <2>3, <2>7 DEF SwapLayer, SetLayerInner, InRange, HOME_STATE_IDX
  <2>9. QED
    BY <2>2, <2>5, <2>6, <2>8
<1>8. CASE DeferInput \/ TranslateBasic \/ OutputBind
  <2>1. UNCHANGED <<machine, pc>> /\ stack # <<>> /\ NextOutput
    BY <1>8 DEF DeferInput, TranslateBasic, OutputBind, NextOutput, InActivation
  <2>2. /\ stack \in Seq(SafeActivations(Len(Layers))) /\ Layers' = Layers
        /\ stack \in Seq(Activations) /\ WellFormed(installed)
    BY <2>1, <1>1 DEF machine, TypeOK
  <2>3. ASSUME NEW a \in SafeActivations(Len(Layers)), Replace(a)
        PROVE  stack' \in Seq(SafeActivations(Len(Layers)))
    BY <2>1, <2>2, <2>3, ReplaceSafe
  <2>4. Rest \in SafeActivations(Len(Layers))
    BY <2>1, <2>2, RestSafe
  <2>5. CASE DeferInput
    <3>1. EventOf(Head(Top.outputs)) \in InputEvents \cup {None}
      BY <2>1, <2>2, <2>5, RestTyped DEF DeferInput
    <3>2. QED
      BY <2>1, <2>2, <2>3, <2>4, <2>5, <3>1, <1>1, <1>2, RestSafe DEF DeferInput, machine
  <2>6. CASE TranslateBasic
    <3> DEFINE ev == EventOf(Head(Top.outputs))
               binds == Layers[cur_layer_idx].basic[ev]
    <3>1. CASE /\ cur_layer_idx \in 1 .. Len(Layers)
               /\ ev \in DOMAIN Layers[cur_layer_idx].basic
               /\ Replace([Rest EXCEPT !.binds = binds])
      <4>1. binds \in Seq(Binds)
        BY <3>1, BasicTyped DEF TypeOK
      <4>2. LayersExist(binds, Len(Layers))
        BY <2>2, <3>1 DEF WellFormed, Layers
      <4> HIDE DEF binds
      <4>3. [Rest EXCEPT !.binds = binds] \in SafeActivations(Len(Layers))
        BY <2>1, <2>2, <4>1, <4>2, RestSafe
      <4>4. QED
        BY <2>1, <2>2, <2>3, <3>1, <4>3, <1>1, <1>2 DEF machine
    <3>2. CASE Replace(Rest)
      BY <2>1, <2>2, <2>3, <2>4, <3>2, <1>1, <1>2 DEF machine
    <3>3. QED
      BY <2>6, <3>1, <3>2 DEF TranslateBasic
  <2>7. CASE OutputBind
    <3> DEFINE bind == <<Head(Top.outputs)>>
    <3>1. Head(Top.outputs) \in Binds
      BY <2>1, <2>2, <2>7, TopTyped DEF OutputBind, StateMachineOutputs, NextOutput
    <3>2. bind \in Seq(Binds) /\ LayersExist(bind, Len(Layers))
      BY <2>1, <2>2, <3>1, TopSafe DEF LayersExist, NextOutput
    <3>3. Replace([Rest EXCEPT !.binds = bind])
      BY <2>7 DEF OutputBind
    <3> HIDE DEF bind
    <3>4. [Rest EXCEPT !.binds = bind] \in SafeActivations(Len(Layers))
      BY <2>1, <2>2, <3>2, RestSafe
    <3>5. QED
      BY <2>1, <2>2, <2>3, <3>3, <3>4, <1>1, <1>2 DEF machine
  <2>8. QED
    BY <1>8, <2>5, <2>6, <2>7
<1>9. CASE RedoInput
  <2> DEFINE top == [Top EXCEPT !.redo = Tail(@)]
             rest == <<top>> \o Tail(stack)
  <2>1. TakeTransition(Head(Top.redo), rest) /\ stack # <<>> /\ Top.redo # <<>>
    BY <1>9 DEF RedoInput, OutputsDone, InActivation
  <2>2. UNCHANGED <<installed, pc>>
    BY <1>9, <2>1 DEF RedoInput, TakeTransition, ApplyTransition
  <2>3. /\ stack \in Seq(SafeActivations(Len(Layers)))
        /\ Layers' = Layers /\ WellFormed(installed) /\ InRange
    BY <2>2, <1>1
  <2>4. /\ Top \in SafeActivations(Len(Layers)) /\ Top \in Activations
        /\ Head(Top.redo) \in InputEvents /\ Tail(Top.redo) \in Seq(InputEvents)
        /\ Tail(stack) \in Seq(SafeActivations(Len(Layers)))
    BY <2>1, <2>3, TopSafe, TopTyped, HeadTailProperties DEF TypeOK
  <2>5. top \in SafeActivations(Len(Layers))
    BY <2>4 DEF SafeActivations, Activations
  <2> HIDE DEF top
  <2>6. rest \in Seq(SafeActivations(Len(Layers)))
    BY <2>4, <2>5, PushTyped
  <2> HIDE DEF rest
  <2>7. InRange' /\ stack' \in Seq(SafeActivations(Len(Layers)))
    BY <2>1, <2>3, <2>4, <2>6, EdgeTyped, CurrentSafe, ApplySafe DEF TakeTransition, TypeOK
  <2>8. QED
    BY <2>2, <2>3, <2>7, <1>1
<1>10. CASE Return
  <2>1. UNCHANGED <<machine, pc>> /\ stack # <<>> /\ stack' = Tail(stack)
    BY <1>10 DEF Return, OutputsDone, InActivation
  <2>2. QED
    BY <2>1, <1>1, <1>2, HeadTailProperties DEF machine
<1>11. CASE Throw
  <2>1. InRange /\ cur_layer_idx \in 1 .. Len(Layers)
    BY <1>11, <1>1 DEF Throw, machine, InRange
  <2>2. QED
    BY <1>11, <2>1 DEF Throw
<1>12. ASSUME NEW p \in Profiles, SetProfile(p) PROVE Goal
  <2>1. installed' = Build[p] /\ IsBuild(Build[p])
    BY <1>12, BuildAssumption DEF SetProfile
  <2>2. Build[p].default_layer \in 1 .. Len(Build[p].layers)
    BY <2>1 DEF WellFormed
  <2>3. Len(Build[p].layers[Build[p].default_layer].states) \in Nat \ {0}
    BY <2>1, <2>2 DEF IsBuild, IsLayer
  <2>4. /\ Layers' = Build[p].layers
        /\ cur_layer_idx' = Build[p].default_layer /\ cur_state_idx' = 1
        /\ 1 \in 1 .. Len(Build[p].layers[Build[p].default_layer].states)
    BY <1>12, <2>3 DEF SetProfile, SetLayerInner, Layers, HOME_STATE_IDX
  <2>5. InRange'
    BY <2>2, <2>4 DEF InRange
  <2>6. stack' = <<>> /\ pc' # "crashed"
    BY <1>12, <2>2 DEF SetProfile, MainThread, HoldsMutex, ActivationsInTurn
  <2>7. QED
    BY <2>5, <2>6, EmptySeq
<1>13. ASSUME NEW l \in 1 .. Len(Layers), SetLayer(l) PROVE Goal
  <2>1. UNCHANGED <<installed, thread>>
    BY <1>13 DEF SetLayer
  <2>2. Len(Layers[l].states) \in Nat \ {0}
    BY DEF TypeOK, IsBuild, IsLayer, Layers
  <2>3. /\ Layers' = Layers /\ cur_layer_idx' = l /\ cur_state_idx' = 1
        /\ 1 \in 1 .. Len(Layers[l].states)
    BY <1>13, <2>1, <2>2 DEF SetLayer, SetLayerInner, HOME_STATE_IDX, Layers
  <2>4. InRange'
    BY <2>3 DEF InRange
  <2>5. QED
    BY <2>1, <2>4, <1>1 DEF thread
<1>14. CASE Pause
  <2>1. UNCHANGED <<installed, cur_layer_idx, cur_state_idx, thread>>
    BY <1>14 DEF Pause
  <2>2. QED
    BY <2>1, <1>1 DEF InRange, Layers, thread
<1>15. CASE Resume \/ Stop \/ Close
  BY <1>15, <1>1, <1>2 DEF Resume, Stop, Close, machine, thread
<1>16. ASSUME NEW ev \in InputEvents, SendKey(ev) PROVE Goal
  BY <1>16, <1>1, <1>2 DEF SendKey, machine, thread
<1>17. CASE Tick
  <2>1. UNCHANGED <<installed, cur_layer_idx, cur_state_idx, thread>>
    BY <1>17 DEF Tick
  <2>2. QED
    BY <2>1, <1>1 DEF InRange, Layers, thread
<1>18. CASE UNCHANGED vars
  BY <1>18, <1>1, <1>2 DEF vars, machine, thread
<1>19. QED
  BY <1>3, <1>4, <1>5, <1>6, <1>7, <1>8, <1>9, <1>10, <1>11, <1>12, <1>13, <1>14, <1>15, <1>16,
     <1>17, <1>18
  DEF Next, MapperStep, MainStep
LEMMA TablesAlways == Spec => []TableInv
<1>1. TableInv /\ [Next]_vars => TableInv'
  <2> SUFFICES ASSUME TableInv, [Next]_vars PROVE TableInv'
    OBVIOUS
  <2>1. TypeOK' /\ TablesFit'
    BY NextTypes, NextTables DEF TableInv
  <2>2. ActivationsInTurn'
    BY NextActivations DEF TableInv
  <2>3. QED
    BY <2>1, <2>2 DEF TableInv
<1>2. QED
  BY InitTables, <1>1, PTL DEF Spec

\* While a well-formed profile is installed, the layer index and the state
\* index find a state, in the middle of a layer swap inside a transition as
\* well as between turns (mapper.cpp:68-89, 129, 171-179, 264).
THEOREM IndicesFitTables == Spec => []IndexInRange
<1>1. TableInv => IndexInRange
  BY DEF TableInv, TablesFit, IndexInRange
<1>2. QED
  BY TablesAlways, <1>1, PTL

\* The mapper thread never dies of an exception while a well-formed profile
\* is installed (the at() of mapper.cpp:129, 179, 191, 264).
THEOREM WellFormedNeverCrashes == Spec => []NoCrash
<1>1. TableInv => NoCrash
  BY DEF TableInv, TablesFit, NoCrash
<1>2. QED
  BY TablesAlways, <1>1, PTL

-----------------------------------------------------------------------------
(* The partition of the queued outputs. *)

\* The members of a finite set, each numbered by how many come before it.
LEMMA Ranks ==
  ASSUME NEW S, IsFiniteSet(S), NEW B \in [S -> SUBSET S],
         \A x \in S : x \in B[x],
         \A x, y \in S : x # y => B[x] # B[y] /\ (B[x] \subseteq B[y] \/ B[y] \subseteq B[x])
  PROVE  /\ \A x \in S : Cardinality(B[x]) \in 1 .. Cardinality(S)
         /\ \A x, y \in S : Cardinality(B[x]) = Cardinality(B[y]) => x = y
         /\ \A r \in 1 .. Cardinality(S) : \E x \in S : Cardinality(B[x]) = r
<1> DEFINE rank == [x \in S |-> Cardinality(B[x])]
           k    == Cardinality(S)
<1>1. k \in Nat /\ \A T \in SUBSET S : /\ IsFiniteSet(T) /\ Cardinality(T) \in Nat
                                       /\ Cardinality(T) <= k
  BY FS_CardinalityType, FS_Subset
<1>2. ASSUME NEW x \in S PROVE Cardinality(B[x]) \in 1 .. k
  <2>1. Cardinality(B[x]) # 0
    BY <1>1, FS_EmptySet
  <2>2. QED
    BY <1>1, <2>1
<1>3. ASSUME NEW x \in S, NEW y \in S, Cardinality(B[x]) = Cardinality(B[y]) PROVE x = y
  <2>1. ASSUME NEW T \in SUBSET S, NEW U \in SUBSET T, Cardinality(U) = Cardinality(T)
        PROVE  U = T
    BY <1>1, <2>1, FS_Subset
  <2>2. CASE B[x] \subseteq B[y]
    BY <1>3, <2>1, <2>2
  <2>3. CASE B[y] \subseteq B[x]
    BY <1>3, <2>1, <2>3
  <2>4. QED
    BY <2>2, <2>3
<1>4. rank \in Injection(S, 1 .. k)
  BY <1>2, <1>3 DEF Injection, IsInjective
<1>5. IsFiniteSet(1 .. k) /\ Cardinality(1 .. k) = k
  BY <1>1, FS_Interval
<1>6. rank \in Surjection(S, 1 .. k)
  BY <1>4, <1>5, FS_Injection
<1>7. QED
  BY <1>2, <1>3, <1>6 DEF Surjection

\* The partition exchanges positions: done twice it changes nothing, and it
\* brings exactly the delayed outputs to the front.
LEMMA PartitionExchanges ==
  ASSUME NEW T, NEW q \in Seq(T)
  PROVE  LET order == PartitionOrder(q)
             mid   == Cardinality(Delayed(q))
         IN  \A n \in 1 .. Len(q) : /\ order[n] \in 1 .. Len(q)
                                    /\ order[order[n]] = n
                                    /\ order[n] \in Delayed(q) <=> n <= mid
<1> DEFINE N     == Len(q)
           D     == Delayed(q)
           mid   == Cardinality(D)
           due     == 1 .. mid \ D
           delayed == D \ 1 .. mid
           left  == [x \in due |-> {y \in due : y <= x}]
           right == [x \in delayed |-> {y \in delayed : y >= x}]
           Meet(x, y) == /\ x \in due /\ y \in delayed
                         /\ Cardinality({z \in due : z <= x}) = Cardinality({z \in delayed : z >= y})
           order == [n \in 1 .. N |->
                       IF \E m \in 1 .. N : Meet(n, m) \/ Meet(m, n)
                         THEN CHOOSE m \in 1 .. N : Meet(n, m) \/ Meet(m, n) ELSE n]
<1>1. N \in Nat /\ D \subseteq 1 .. N /\ mid \in 0 .. N
  BY LenProperties, DelayedCount DEF Delayed
<1> HIDE DEF N, D
<1>2. IsFiniteSet(1 .. mid) /\ Cardinality(1 .. mid) = mid
      /\ IsFiniteSet(1 .. N) /\ IsFiniteSet(D)
  <2> HIDE DEF mid
  <2>1. mid \in Nat /\ 1 \in Int /\ mid \in Int /\ N \in Int
    BY <1>1
  <2>2. IsFiniteSet(1 .. mid) /\ Cardinality(1 .. mid) = mid /\ IsFiniteSet(1 .. N)
    BY <2>1, FS_Interval
  <2>3. IsFiniteSet(D)
    BY <1>1, <2>2, FS_Subset
  <2>4. QED
    BY <2>2, <2>3
<1>3. IsFiniteSet(due) /\ IsFiniteSet(delayed) /\ Cardinality(due) = Cardinality(delayed)
  <2>1. Cardinality(due) = mid - Cardinality((1 .. mid) \cap D)
        /\ Cardinality(delayed) = mid - Cardinality(D \cap (1 .. mid))
        /\ IsFiniteSet(due) /\ IsFiniteSet(delayed)
    BY <1>2, FS_Difference
  <2>2. (1 .. mid) \cap D = D \cap (1 .. mid)
    OBVIOUS
  <2>3. QED
    BY <2>1, <2>2
<1>4. due \subseteq 1 .. N /\ delayed \subseteq 1 .. N /\ due \cap delayed = {}
  <2> HIDE DEF mid
  <2>1. QED
    BY <1>1
<1>5. /\ \A x \in due : Cardinality(left[x]) \in 1 .. Cardinality(due)
      /\ \A x, y \in due : Cardinality(left[x]) = Cardinality(left[y]) => x = y
      /\ \A r \in 1 .. Cardinality(due) : \E x \in due : Cardinality(left[x]) = r
  <2> HIDE DEF due
  <2>1. left \in [due -> SUBSET due] /\ \A x \in due : x \in left[x]
    BY <1>1, <1>4
  <2>2. \A x, y \in due : x # y => left[x] # left[y]
                                    /\ (left[x] \subseteq left[y] \/ left[y] \subseteq left[x])
    <3> SUFFICES ASSUME NEW x \in due, NEW y \in due, x < y
                 PROVE  left[x] # left[y] /\ left[x] \subseteq left[y]
      BY <1>1, <1>4
    <3>1. \A z \in due : z \in Int
      BY <1>1, <1>4
    <3>2. y \in left[y] /\ y \notin left[x]
      BY <3>1
    <3>3. QED
      BY <3>1, <3>2
  <2> HIDE DEF left
  <2>3. IsFiniteSet(due)
    BY <1>3
  <2>4. QED
    BY <2>1, <2>2, <2>3, Ranks
<1>6. /\ \A x \in delayed : Cardinality(right[x]) \in 1 .. Cardinality(delayed)
      /\ \A x, y \in delayed : Cardinality(right[x]) = Cardinality(right[y]) => x = y
      /\ \A r \in 1 .. Cardinality(delayed) : \E x \in delayed : Cardinality(right[x]) = r
  <2> HIDE DEF delayed
  <2>1. right \in [delayed -> SUBSET delayed] /\ \A x \in delayed : x \in right[x]
    BY <1>1, <1>4
  <2>2. \A x, y \in delayed : x # y => right[x] # right[y]
                                    /\ (right[x] \subseteq right[y] \/ right[y] \subseteq right[x])
    <3> SUFFICES ASSUME NEW x \in delayed, NEW y \in delayed, x < y
                 PROVE  right[x] # right[y] /\ right[y] \subseteq right[x]
      BY <1>1, <1>4
    <3>1. \A z \in delayed : z \in Int
      BY <1>1, <1>4
    <3>2. x \in right[x] /\ x \notin right[y]
      BY <3>1
    <3>3. QED
      BY <3>1, <3>2
  <2> HIDE DEF right
  <2>3. IsFiniteSet(delayed)
    BY <1>3
  <2>4. QED
    BY <2>1, <2>2, <2>3, Ranks
<1>7. \A x, y : Meet(x, y) <=> x \in due /\ y \in delayed
                                 /\ Cardinality(left[x]) = Cardinality(right[y])
  OBVIOUS
<1>8. /\ \A x \in due : \E y \in delayed : Meet(x, y)
      /\ \A y \in delayed : \E x \in due : Meet(x, y)
      /\ \A x, y, z : Meet(x, y) /\ Meet(x, z) => y = z
      /\ \A x, y, z : Meet(x, z) /\ Meet(y, z) => x = y
      /\ \A x, y : Meet(x, y) => x \in due /\ y \in delayed
  <2> HIDE DEF Meet, left, right, due, delayed
  <2>1. QED
    BY <1>3, <1>5, <1>6, <1>7
<1> HIDE DEF Meet, left, right
<1>9. ASSUME NEW n \in 1 .. N, NEW m, Meet(n, m) \/ Meet(m, n)
      PROVE  order[n] = m
  <2> HIDE DEF due, delayed
  <2>1. m \in 1 .. N
    BY <1>4, <1>8, <1>9
  <2>2. \A l \in 1 .. N : Meet(n, l) \/ Meet(l, n) => l = m
    BY <1>4, <1>8, <1>9
  <2>3. QED
    BY <1>9, <2>1, <2>2
<1>10. ASSUME NEW n \in 1 .. N, n \notin due \cup delayed
       PROVE  order[n] = n
  <2> HIDE DEF due, delayed
  <2>1. QED
    BY <1>8, <1>10
<1>11. order = PartitionOrder(q)
  BY DEF PartitionOrder, N, D, Meet
<1> HIDE DEF order
<1>12. ASSUME NEW n \in 1 .. N
       PROVE  order[n] \in 1 .. N /\ order[order[n]] = n /\ (order[n] \in D <=> n <= mid)
  <2>1. CASE n \in due
    <3>1. PICK m \in delayed : Meet(n, m)
      BY <1>8, <2>1
    <3>2. order[n] = m /\ order[m] = n
      BY <1>4, <1>9, <3>1
    <3>3. QED
      BY <1>1, <1>4, <2>1, <3>1, <3>2
  <2>2. CASE n \in delayed
    <3>1. PICK m \in due : Meet(m, n)
      BY <1>8, <2>2
    <3>2. order[n] = m /\ order[m] = n
      BY <1>4, <1>9, <3>1
    <3>3. QED
      BY <1>1, <1>4, <2>2, <3>1, <3>2
  <2>3. CASE n \notin due \cup delayed
    BY <1>1, <1>10, <2>3
  <2>4. QED
    BY <2>1, <2>2, <2>3
<1>13. QED
  BY <1>11, <1>12 DEF N, D

-----------------------------------------------------------------------------
(* Counting the outputs that wait and those that were emitted. *)

LEMMA Positions ==
  ASSUME NEW N \in Nat, NEW S, S \subseteq 1 .. N
  PROVE  IsFiniteSet(S) /\ Cardinality(S) \in Nat
<1>1. IsFiniteSet(1 .. N)
  BY FS_Interval
<1>2. QED
  BY <1>1, FS_Subset, FS_CardinalityType

LEMMA CountsAreNumbers ==
  ASSUME NEW q, Len(q) \in Nat, NEW ev, NEW d
  PROVE  HowManyWait(q, ev, d) \in Nat /\ HowManySent(q, ev) \in Nat
  BY Positions DEF HowManyWait, HowManySent

LEMMA NoneWait == \A ev, d : HowManyWait(<<>>, ev, d) = 0 /\ HowManySent(<<>>, ev) = 0
<1>1. 1 .. Len(<<>>) = {}
  OBVIOUS
<1>2. \A ev, d : /\ {n \in 1 .. Len(<<>>) : <<>>[n].ev = ev /\ <<>>[n].left = d} = {}
                /\ {n \in 1 .. Len(<<>>) : <<>>[n] = ev} = {}
  BY <1>1
<1>3. QED
  BY <1>2, FS_EmptySet DEF HowManyWait, HowManySent

LEMMA OneSent ==
  ASSUME NEW ev, NEW other
  PROVE  HowManySent(<<ev>>, other) = IF other = ev THEN 1 ELSE 0
<1>1. {n \in 1 .. Len(<<ev>>) : <<ev>>[n] = other} = IF other = ev THEN {1} ELSE {}
  OBVIOUS
<1>2. QED
  BY <1>1, FS_EmptySet, FS_Singleton DEF HowManySent

LEMMA OneMoreWaits ==
  ASSUME NEW T, NEW q \in Seq(T), NEW item \in T, NEW ev, NEW d
  PROVE  HowManyWait(Append(q, item), ev, d)
           = IF ev = item.ev /\ d = item.left THEN HowManyWait(q, ev, d) + 1
                                             ELSE HowManyWait(q, ev, d)
<1> DEFINE longer == Append(q, item)
           before == {n \in 1 .. Len(q) : q[n].ev = ev /\ q[n].left = d}
           after  == {n \in 1 .. Len(longer) : longer[n].ev = ev /\ longer[n].left = d}
<1>1. /\ Len(q) \in Nat /\ Len(longer) = Len(q) + 1 /\ longer[Len(q) + 1] = item
      /\ \A n \in 1 .. Len(q) : longer[n] = q[n]
  OBVIOUS
<1>2. after = IF ev = item.ev /\ d = item.left THEN before \cup {Len(q) + 1} ELSE before
  <2> HIDE DEF longer
  <2>1. QED
    BY <1>1
<1>3. IsFiniteSet(before) /\ Len(q) + 1 \notin before
  <2>1. before \subseteq 1 .. Len(q)
    OBVIOUS
  <2> HIDE DEF before
  <2>2. IsFiniteSet(before)
    BY <1>1, <2>1, Positions
  <2>3. Len(q) + 1 \notin 1 .. Len(q)
    BY <1>1
  <2>4. QED
    BY <2>1, <2>2, <2>3
<1>4. QED
  BY <1>2, <1>3, FS_AddElement DEF HowManyWait

LEMMA TickCounts ==
  ASSUME NEW T, NEW q \in Seq(T), \A n \in 1 .. Len(q) : q[n].left \in Nat,
         NEW later, Len(later) = Len(q),
         \A n \in 1 .. Len(q) : later[n].ev = q[n].ev /\ later[n].left = Later(q[n].left),
         NEW ev, NEW d \in Nat
  PROVE  HowManyWait(later, ev, d)
           = (IF d = 0 THEN HowManyWait(q, ev, 0) ELSE 0) + HowManyWait(q, ev, d + 1)
<1> DEFINE Of(x) == {n \in 1 .. Len(q) : q[n].ev = ev /\ q[n].left = x}
           after == {n \in 1 .. Len(later) : later[n].ev = ev /\ later[n].left = d}
<1>1. \A x : IsFiniteSet(Of(x)) /\ Cardinality(Of(x)) \in Nat
  <2>1. \A x : Of(x) \subseteq 1 .. Len(q)
    OBVIOUS
  <2> HIDE DEF Of
  <2>2. QED
    BY <2>1, Positions
<1>2. /\ HowManyWait(later, ev, d) = Cardinality(after)
      /\ \A x : HowManyWait(q, ev, x) = Cardinality(Of(x))
  BY DEF HowManyWait
<1>3. CASE d # 0
  <2>1. \A x \in Nat : Later(x) = d <=> x = d + 1
    BY <1>3 DEF Later
  <2>2. \A n \in 1 .. Len(q) : later[n].left = d <=> q[n].left = d + 1
    BY <2>1
  <2>3. after = Of(d + 1)
    BY <2>2
  <2> HIDE DEF Of, after
  <2>4. QED
    BY <1>1, <1>3, <1>2, <2>3
<1>4. CASE d = 0
  <2>1. \A x \in Nat : Later(x) = d <=> x \in {0, 1}
    BY <1>4 DEF Later
  <2>2. \A n \in 1 .. Len(q) : later[n].left = d <=> q[n].left \in {0, 1}
    BY <2>1
  <2>3. after = Of(0) \cup Of(1) /\ Of(0) \cap Of(1) = {}
    BY <2>2
  <2> HIDE DEF Of, after
  <2>4. Cardinality(Of(0) \cup Of(1))
          = Cardinality(Of(0)) + Cardinality(Of(1)) - Cardinality(Of(0) \cap Of(1))
    BY <1>1, FS_Union
  <2>5. Cardinality(Of(0) \cap Of(1)) = 0
    BY <2>3, FS_EmptySet
  <2>6. QED
    BY <1>1, <1>4, <1>2, <2>3, <2>4, <2>5
<1>5. QED
  BY <1>3, <1>4

LEMMA SameSize ==
  ASSUME NEW A, NEW B, IsFiniteSet(A), NEW f \in [A -> B],
         \A x, y \in A : f[x] = f[y] => x = y,
         \A z \in B : \E x \in A : f[x] = z
  PROVE  Cardinality(A) = Cardinality(B)
<1>1. f \in Bijection(A, B)
  BY DEF Bijection, Injection, IsInjective, Surjection
<1>2. QED
  BY <1>1, FS_Bijection DEF ExistsBijection

\* check_queued_events keeps what has time left, as many of each.
LEMMA KeptCounts ==
  ASSUME NEW T, NEW q \in Seq(T), NEW ev, NEW d \in Nat,
         \A n \in 1 .. Len(q) : q[n].left \in Nat
  PROVE  HowManyWait(Kept(q), ev, d) = IF d = 0 THEN 0 ELSE HowManyWait(q, ev, d)
<1> DEFINE order == PartitionOrder(q)
           mid   == Cardinality(Delayed(q))
           N     == Len(q)
           A     == {n \in 1 .. mid : q[order[n]].ev = ev /\ q[order[n]].left = d}
           B     == {n \in 1 .. N : q[n].ev = ev /\ q[n].left = d}
<1>1. N \in Nat /\ mid \in 0 .. N
  BY LenProperties, DelayedCount
<1>2. \A n \in 1 .. N : /\ order[n] \in 1 .. N /\ order[order[n]] = n
                        /\ q[order[n]].left > 0 <=> n <= mid
                        /\ q[n].left \in Nat
  <2>1. \A n \in 1 .. N : n \in Delayed(q) <=> q[n].left > 0
    BY DEF Delayed
  <2>2. QED
    BY <2>1, PartitionExchanges
<1>3. HowManyWait(Kept(q), ev, d) = Cardinality(A)
  <2>1. Len(Kept(q)) = mid /\ \A n \in 1 .. mid : Kept(q)[n] = q[order[n]]
    BY <1>1 DEF Kept
  <2> HIDE DEF mid, order
  <2>2. {n \in 1 .. Len(Kept(q)) : Kept(q)[n].ev = ev /\ Kept(q)[n].left = d} = A
    BY <2>1
  <2>3. QED
    BY <2>2 DEF HowManyWait
<1> HIDE DEF mid, order, N
<1>4. CASE d = 0
  <2>1. A = {}
    BY <1>1, <1>2, <1>4
  <2>2. QED
    BY <1>3, <1>4, <2>1, FS_EmptySet
<1>5. CASE d # 0
  <2> DEFINE f == [n \in A |-> order[n]]
  <2>1. IsFiniteSet(A)
    <3>1. A \subseteq 1 .. mid /\ mid \in Nat
      BY <1>1
    <3> HIDE DEF A
    <3>2. QED
      BY <3>1, Positions
  <2>2. f \in [A -> B] /\ \A x, y \in A : f[x] = f[y] => x = y
    BY <1>1, <1>2
  <2>3. ASSUME NEW z \in B PROVE \E x \in A : f[x] = z
    <3>1. order[z] \in A /\ order[order[z]] = z
      BY <1>1, <1>2, <1>5
    <3>2. QED
      BY <3>1
  <2> HIDE DEF f, A, B
  <2>4. Cardinality(A) = Cardinality(B)
    BY <2>1, <2>2, <2>3, SameSize
  <2>5. QED
    BY <1>3, <1>5, <2>4 DEF HowManyWait, B, N
<1>6. QED
  BY <1>4, <1>5

\* ... and emits what has none, as many of each.
LEMMA EmittedCounts ==
  ASSUME NEW T, NEW q \in Seq(T), NEW ev,
         \A n \in 1 .. Len(q) : q[n].left \in Nat
  PROVE  HowManySent(Emitted(q), ev) = HowManyWait(q, ev, 0)
<1> DEFINE order == PartitionOrder(q)
           mid   == Cardinality(Delayed(q))
           N     == Len(q)
           A     == {n \in 1 .. N - mid : q[order[mid + n]].ev = ev}
           B     == {n \in 1 .. N : q[n].ev = ev /\ q[n].left = 0}
<1>1. N \in Nat /\ mid \in 0 .. N
  BY LenProperties, DelayedCount
<1>2. \A n \in 1 .. N : /\ order[n] \in 1 .. N /\ order[order[n]] = n
                        /\ q[order[n]].left > 0 <=> n <= mid
                        /\ q[n].left \in Nat
  <2>1. \A n \in 1 .. N : n \in Delayed(q) <=> q[n].left > 0
    BY DEF Delayed
  <2>2. QED
    BY <2>1, PartitionExchanges
<1>3. HowManySent(Emitted(q), ev) = Cardinality(A)
  <2>1. Len(Emitted(q)) = N - mid
        /\ \A n \in 1 .. N - mid : Emitted(q)[n] = q[order[mid + n]].ev
    BY <1>1 DEF Emitted
  <2> HIDE DEF mid, order, N
  <2>2. {n \in 1 .. Len(Emitted(q)) : Emitted(q)[n] = ev} = A
    BY <2>1
  <2>3. QED
    BY <2>2 DEF HowManySent
<1> HIDE DEF mid, order, N
<1>4. IsFiniteSet(A)
  <2>1. A \subseteq 1 .. N - mid /\ N - mid \in Nat
    BY <1>1
  <2> HIDE DEF A
  <2>2. QED
    BY <2>1, Positions
<1> DEFINE f == [n \in A |-> order[mid + n]]
<1>5. \A n \in A : mid + n \in 1 .. N /\ mid + n > mid
  BY <1>1
<1>6. f \in [A -> B] /\ \A x, y \in A : f[x] = f[y] => x = y
  BY <1>1, <1>2, <1>5
<1>7. ASSUME NEW z \in B PROVE \E x \in A : f[x] = z
  <2>1. order[z] \in 1 .. N /\ order[order[z]] = z /\ order[z] > mid
    BY <1>1, <1>2
  <2>2. order[z] - mid \in A /\ mid + (order[z] - mid) = order[z]
    BY <1>1, <2>1
  <2>3. QED
    BY <2>1, <2>2
<1> HIDE DEF f, A, B
<1>8. Cardinality(A) = Cardinality(B)
  BY <1>4, <1>6, <1>7, SameSize
<1>9. QED
  BY <1>3, <1>8 DEF HowManyWait, B, N

-----------------------------------------------------------------------------
(* Every step of the mapper is a change of the outbox. *)

\* Out!pending and Out!batch.
Counts(q) == [ev \in OutputEvents |-> [d \in Delays |-> HowManyWait(q, ev, d)]]

LEMMA QueueTyped ==
  ASSUME TypeOK
  PROVE  /\ queued_events \in Seq(Waiting) /\ Len(queued_events) \in Nat
         /\ \A n \in 1 .. Len(queued_events) : queued_events[n].left \in Nat
<1>1. queued_events \in Seq(Waiting)
  BY DEF TypeOK, Waiting
<1>2. \A n \in 1 .. Len(queued_events) : queued_events[n] \in Waiting
  BY <1>1
<1>3. QED
  BY <1>1, <1>2 DEF Waiting

LEMMA NothingSent ==
  ASSUME sent' = <<>>
  PROVE  [ev \in OutputEvents |-> HowManySent(sent', ev)] = Out!Nothing
BY NoneWait DEF Out!Nothing

LEMMA IdleStep ==
  ASSUME sent' = <<>>, UNCHANGED queued_events
  PROVE  Out!Change
<1>1. Out!Idle
  BY NothingSent DEF Out!Idle
<1>2. QED
  BY <1>1 DEF Out!Change

LEMMA PutStep ==
  ASSUME Delays = Nat, TypeOK, sent' = <<>>,
         NEW ev \in OutputEvents, NEW left \in Nat,
         queued_events' = Append(queued_events, [left |-> left, ev |-> ev])
  PROVE  Out!Change
<1>1. \A e, d : HowManyWait(queued_events', e, d)
                = IF e = ev /\ d = left THEN HowManyWait(queued_events, e, d) + 1
                                       ELSE HowManyWait(queued_events, e, d)
  <2> DEFINE item == [left |-> left, ev |-> ev]
  <2>1. item \in Waiting /\ item.ev = ev /\ item.left = left
    BY DEF Waiting
  <2>2. queued_events \in Seq(Waiting) /\ queued_events' = Append(queued_events, item)
    BY QueueTyped
  <2> HIDE DEF item
  <2>3. QED
    BY <2>1, <2>2, OneMoreWaits
<1>2. Counts(queued_events') = [Counts(queued_events) EXCEPT ![ev][left] = @ + 1]
  <2> DEFINE old == Counts(queued_events)
             new == Counts(queued_events')
  <2>1. /\ old = [e \in OutputEvents |-> old[e]]
        /\ \A e \in OutputEvents : old[e] = [d \in Nat |-> old[e][d]]
        /\ new = [e \in OutputEvents |-> new[e]]
        /\ \A e \in OutputEvents : new[e] = [d \in Nat |-> new[e][d]]
    BY DEF Counts
  <2>2. \A e \in OutputEvents, d \in Nat :
          new[e][d] = IF e = ev /\ d = left THEN old[e][d] + 1 ELSE old[e][d]
    BY <1>1 DEF Counts
  <2> HIDE DEF old, new
  <2>3. \A e \in OutputEvents :
          new[e] = IF e = ev THEN [old[ev] EXCEPT ![left] = @ + 1] ELSE old[e]
    <3> SUFFICES ASSUME NEW e \in OutputEvents
                 PROVE  new[e] = IF e = ev THEN [old[ev] EXCEPT ![left] = @ + 1] ELSE old[e]
      OBVIOUS
    <3>1. CASE e = ev
      BY <2>1, <2>2, <3>1
    <3>2. CASE e # ev
      BY <2>1, <2>2, <3>2
    <3>3. QED
      BY <3>1, <3>2
  <2>4. new = [old EXCEPT ![ev] = [old[ev] EXCEPT ![left] = @ + 1]]
    BY <2>1, <2>3
  <2>5. QED
    BY <2>4 DEF old, new
<1>3. Out!Put(ev, left)
  BY <1>2, NothingSent DEF Out!Put, Counts
<1>4. QED
  BY <1>3 DEF Out!Change

LEMMA DropStep ==
  ASSUME sent' = <<>>, queued_events' = <<>>
  PROVE  Out!Change
<1>1. Out!Drop
  BY NothingSent, NoneWait DEF Out!Drop, Out!Empty
<1>2. QED
  BY <1>1 DEF Out!Change

LEMMA ElapseStep ==
  ASSUME Delays = Nat, TypeOK, Tick
  PROVE  Out!Change
<1>1. /\ sent' = <<>>
      /\ queued_events' = [n \in 1 .. Len(queued_events) |->
                             [queued_events[n] EXCEPT !.left = Later(@)]]
  BY DEF Tick
<1>2. /\ Len(queued_events') = Len(queued_events)
      /\ \A n \in 1 .. Len(queued_events) :
           /\ queued_events'[n].ev = queued_events[n].ev
           /\ queued_events'[n].left = Later(queued_events[n].left)
  <2>1. Len(queued_events) \in Nat /\ DOMAIN queued_events' = 1 .. Len(queued_events)
    BY <1>1, QueueTyped
  <2>2. Len(queued_events') = Len(queued_events)
    BY <1>1, <2>1
  <2>3. ASSUME NEW n \in 1 .. Len(queued_events)
        PROVE  /\ queued_events'[n].ev = queued_events[n].ev
               /\ queued_events'[n].left = Later(queued_events[n].left)
    <3>1. queued_events[n] \in [left : Nat, ev : OutputEvents]
      <4>1. queued_events \in Seq(Waiting)
        BY QueueTyped
      <4>2. queued_events[n] \in Waiting
        BY <4>1
      <4>3. QED
        BY <4>2 DEF Waiting
    <3>2. queued_events'[n] = [queued_events[n] EXCEPT !.left = Later(@)]
      BY <1>1
    <3>3. QED
      BY <3>1, <3>2
  <2>4. QED
    BY <2>2, <2>3
<1>3. \A ev : \A d \in Nat : HowManyWait(queued_events', ev, d)
             = (IF d = 0 THEN HowManyWait(queued_events, ev, 0) ELSE 0)
                 + HowManyWait(queued_events, ev, d + 1)
  <2>1. /\ queued_events \in Seq(Waiting)
        /\ \A n \in 1 .. Len(queued_events) : queued_events[n].left \in Nat
    BY QueueTyped
  <2>2. QED
    BY <1>2, <2>1, TickCounts
<1>4. \A ev : \A d \in Nat : HowManyWait(queued_events, ev, d) \in Nat
  BY QueueTyped, CountsAreNumbers
<1>5. ASSUME NEW ev \in OutputEvents
      PROVE  Counts(queued_events')[ev] = Out!OneLess(Counts(queued_events)[ev])
  <2>1. \A d \in Nat : d + 1 \in Nat
    OBVIOUS
  <2>2. Counts(queued_events)[ev] = [d \in Nat |-> HowManyWait(queued_events, ev, d)]
    BY DEF Counts
  <2>3. Out!OneLess(Counts(queued_events)[ev])
          = [d \in Nat |-> (IF d = 0 THEN HowManyWait(queued_events, ev, 0) ELSE 0)
                              + HowManyWait(queued_events, ev, d + 1)]
    BY <2>1, <2>2 DEF Out!OneLess
  <2>4. Counts(queued_events')[ev] = [d \in Nat |-> HowManyWait(queued_events', ev, d)]
    BY DEF Counts
  <2>5. QED
    BY <1>3, <2>3, <2>4
<1>6. Out!Elapse
  BY <1>1, <1>5, NothingSent DEF Out!Elapse, Counts
<1>7. QED
  BY <1>6 DEF Out!Change

LEMMA FlushStep ==
  ASSUME Delays = Nat, TypeOK, CheckQueuedEvents
  PROVE  Out!Change
<1>1. sent' = Emitted(queued_events) /\ queued_events' = Kept(queued_events)
  BY DEF CheckQueuedEvents
<1>2. \A ev : \A d \in Nat : HowManyWait(queued_events', ev, d)
             = IF d = 0 THEN 0 ELSE HowManyWait(queued_events, ev, d)
  BY <1>1, QueueTyped, KeptCounts
<1>3. \A ev : HowManySent(sent', ev) = HowManyWait(queued_events, ev, 0)
  BY <1>1, QueueTyped, EmittedCounts
<1>4. ASSUME NEW ev \in OutputEvents
      PROVE  Counts(queued_events')[ev] = [Counts(queued_events)[ev] EXCEPT ![0] = 0]
  <2>1. /\ Counts(queued_events)[ev] = [d \in Nat |-> HowManyWait(queued_events, ev, d)]
        /\ Counts(queued_events')[ev] = [d \in Nat |-> HowManyWait(queued_events', ev, d)]
    BY DEF Counts
  <2>2. QED
    BY <1>2, <2>1
<1>5. Out!Flush
  BY <1>3, <1>4 DEF Out!Flush, Counts
<1>6. QED
  BY <1>5 DEF Out!Change

LEMMA ForwardStep ==
  ASSUME NEW ev \in OutputEvents, queued_events = <<>>, UNCHANGED queued_events,
         sent' = <<ev>>
  PROVE  Out!Change
<1>1. [e \in OutputEvents |-> [d \in Delays |-> HowManyWait(queued_events, e, d)]] = Out!Empty
  BY NoneWait DEF Out!Empty
<1>2. [e \in OutputEvents |-> HowManySent(sent', e)] = [Out!Nothing EXCEPT ![ev] = 1]
  BY OneSent DEF Out!Nothing
<1>3. Out!Forward(ev)
  BY <1>1, <1>2 DEF Out!Forward
<1>4. QED
  BY <1>3 DEF Out!Change

LEMMA OutboxInit == Init => Out!Start
<1> SUFFICES ASSUME Init PROVE Out!Start
  OBVIOUS
<1>1. queued_events = <<>> /\ sent = <<>>
  BY DEF Init
<1>2. QED
  BY <1>1, NoneWait DEF Out!Start, Out!Empty, Out!Nothing

LEMMA OutboxStep ==
  ASSUME Delays = Nat, TypeOK, PausedQuiescent, [Next]_vars
  PROVE  [Out!Change]_Out!outbox
<1>1. CASE UNCHANGED vars
  BY <1>1 DEF vars, Out!outbox
<1>2. CASE \/ LoopTest \/ WaitKey \/ CheckTimer \/ QueueWait \/ SwapLayer \/ DeferInput
           \/ OutputBind \/ Return \/ Throw
  <2>1. sent' = <<>> /\ UNCHANGED queued_events
    BY <1>2 DEF LoopTest, WaitKey, CheckTimer, QueueWait, SwapLayer, DeferInput, OutputBind,
                Return, Throw
  <2>2. QED
    BY <2>1, IdleStep
<1>3. CASE RedoInput
  BY <1>3, IdleStep DEF RedoInput, TakeTransition
<1>4. CASE \/ \E p \in Profiles : SetProfile(p)
           \/ \E l \in 1 .. Len(Layers) : SetLayer(l)
           \/ Resume \/ Stop \/ Close \/ \E ev \in InputEvents : SendKey(ev)
  <2>1. sent' = <<>> /\ UNCHANGED queued_events
    BY <1>4 DEF SetProfile, SetLayer, Resume, Stop, Close, SendKey
  <2>2. QED
    BY <2>1, IdleStep
<1>5. CASE Pause
  BY <1>5, DropStep DEF Pause
<1>6. CASE Tick
  BY <1>6, ElapseStep
<1>7. CASE CheckQueuedEvents
  BY <1>7, FlushStep
<1>8. CASE ProcessKey
  <2>1. UNCHANGED queued_events
    BY <1>8 DEF ProcessKey
  <2>2. CASE key_opt # None /\ paused /\ ForwardRaw(key_opt)
    <3>1. CASE key_opt \in KeyEvents
      BY <2>1, <2>2, <3>1, ForwardStep, EventsAssumption DEF ForwardRaw, PausedQuiescent
    <3>2. CASE key_opt \notin KeyEvents
      BY <2>1, <2>2, <3>2, IdleStep DEF ForwardRaw
    <3>3. QED
      BY <3>1, <3>2
  <2>3. CASE sent' = <<>>
    BY <2>1, <2>3, IdleStep
  <2>4. QED
    BY <1>8, <2>2, <2>3 DEF ProcessKey, TakeTransition
<1>9. CASE QueueOutput
  <2>1. Top \in Activations /\ Head(Top.binds) \in Binds /\ Head(Top.binds).kind = "out"
    BY <1>9, TopTyped DEF QueueOutput, InActivation, Activations, TypeOK
  <2>2. Top.delay \in Nat /\ Head(Top.binds).ev \in OutputEvents
    BY <2>1 DEF Activations, Binds
  <2>3. QED
    BY <1>9, <2>2, PutStep DEF QueueOutput
<1>10. CASE TranslateBasic
  <2>1. sent' = <<>>
    BY <1>10 DEF TranslateBasic
  <2>2. CASE UNCHANGED queued_events
    BY <2>1, <2>2, IdleStep
  <2>3. CASE \E ev \in KeyEvents :
               queued_events' = Append(queued_events, [left |-> 0, ev |-> ev])
    BY <2>1, <2>3, PutStep, EventsAssumption
  <2>4. QED
    BY <1>10, <2>2, <2>3 DEF TranslateBasic
<1>11. QED
  BY <1>1, <1>2, <1>3, <1>4, <1>5, <1>6, <1>7, <1>8, <1>9, <1>10
  DEF Next, MapperStep, MainStep

(***************************************************************************)
(* The mapper's delayed outputs behave like the abstract outbox, whatever  *)
(* the keys, the profiles and the pauses, and however long the delays:     *)
(* each is emitted exactly once, at the first flush after its delay        *)
(* (mapper.cpp:95-120, 200-249, 255-263).  The profiles' delays add up to  *)
(* any natural number.                                                     *)
(***************************************************************************)
THEOREM MapperImplementsOutbox == ASSUME Delays = Nat
                                  PROVE  Spec => KeepsOutbox
<1>1. TypeOK /\ PausedQuiescent /\ [Next]_vars => [Out!Change]_Out!outbox
  BY OutboxStep
<1>2. QED
  BY <1>1, OutboxInit, MapperTypes, PausedMapperIsQuiet, PTL DEF Spec, KeepsOutbox, Out!Promise

-----------------------------------------------------------------------------
(* The depth of a replay. *)

\* What an activation has still to process again.
Owed(a) == Len(a.redo) + Cardinality(Processed(a.outputs))

\* Activations that leave room: what they owe, the rank of the state and the
\* depth add up to at most m, and to less while the innermost one owes
\* anything.  owed[n] is what activation n and those under it owe.
Shallow(st, k, m) ==
  \E owed \in [1 .. Len(st) + 1 -> Nat] :
     /\ \A n \in 1 .. Len(st) : owed[n] >= Owed(st[n]) + owed[n + 1]
     /\ k + owed[1] + Len(st) - 1 <= IF Owed(st[1]) = 0 THEN m ELSE m - 1

LEMMA ProcessedCount ==
  ASSUME NEW S, NEW s \in Seq(S)
  PROVE  IsFiniteSet(Processed(s)) /\ Cardinality(Processed(s)) \in Nat
<1>1. Len(s) \in Nat /\ Processed(s) \subseteq 1 .. Len(s)
  BY LenProperties DEF Processed
<1>2. QED
  BY <1>1, Positions

LEMMA OwedTyped ==
  ASSUME NEW a \in Activations
  PROVE  Owed(a) \in Nat
<1>1. a.redo \in Seq(InputEvents) /\ a.outputs \in Seq(StateMachineOutputs)
  BY DEF Activations
<1>2. QED
  BY <1>1, ProcessedCount, LenProperties DEF Owed

\* The first output leaves the list.
LEMMA ProcessedTail ==
  ASSUME NEW S, NEW s \in Seq(S), s # <<>>
  PROVE  Cardinality(Processed(Tail(s)))
           = IF Head(s).kind = "process" THEN Cardinality(Processed(s)) - 1
                                         ELSE Cardinality(Processed(s))
<1> DEFINE later == Processed(s) \ {1}
<1>1. /\ Len(s) \in Nat \ {0} /\ Len(Tail(s)) = Len(s) - 1 /\ Head(s) = s[1]
      /\ Tail(s) \in Seq(S)
  BY HeadTailProperties, EmptySeq, LenProperties
<1>2. \A i \in 1 .. Len(Tail(s)) : Tail(s)[i] = s[i + 1] /\ i + 1 \in 2 .. Len(s)
  BY <1>1, HeadTailProperties
<1>3. Processed(Tail(s)) = {i \in 1 .. Len(Tail(s)) : s[i + 1].kind = "process"}
  BY <1>1, <1>2, LenProperties DEF Processed
<1>4. later = {n \in 2 .. Len(s) : s[n].kind = "process"}
  BY <1>1, LenProperties DEF Processed
<1>5. Cardinality(Processed(Tail(s))) = Cardinality(later)
  <2> DEFINE f == [i \in Processed(Tail(s)) |-> i + 1]
             g(n) == n - 1
  <2>1. IsFiniteSet(Processed(Tail(s)))
    BY <1>1, ProcessedCount
  <2>2. f \in [Processed(Tail(s)) -> later]
    BY <1>1, <1>3, <1>4
  <2>3. \A x, y \in Processed(Tail(s)) : f[x] = f[y] => x = y
    BY <1>1, <1>3
  <2>4. ASSUME NEW z \in later
        PROVE  \E x \in Processed(Tail(s)) : f[x] = z
    <3>1. z - 1 \in Processed(Tail(s)) /\ z \in Int
      BY <1>1, <1>3, <1>4
    <3>2. f[z - 1] = z
      BY <3>1
    <3>3. QED
      BY <3>1, <3>2
  <2> HIDE DEF f, later
  <2>5. QED
    BY <2>1, <2>2, <2>3, <2>4, SameSize
<1>6. 1 \in Processed(s) <=> Head(s).kind = "process"
  BY <1>1, LenProperties DEF Processed
<1>7. QED
  BY <1>5, <1>6, ProcessedCount, FS_RemoveElement

\* The innermost activation goes on, owing no more than before.
LEMMA ShallowReplace ==
  ASSUME NEW st \in Seq(Activations), st # <<>>, NEW a \in Activations, Owed(a) <= Owed(st[1]),
         NEW k \in Nat, NEW j \in Nat, j <= k, NEW m \in Nat, Shallow(st, k, m)
  PROVE  Shallow(<<a>> \o Tail(st), j, m)
<1> DEFINE new == <<a>> \o Tail(st)
<1>1. /\ Len(st) \in Nat \ {0} /\ Tail(st) \in Seq(Activations) /\ Len(Tail(st)) = Len(st) - 1
      /\ \A i \in 1 .. Len(st) - 1 : Tail(st)[i] = st[i + 1]
  BY HeadTailProperties, EmptySeq, LenProperties
<1>2. /\ Len(new) = Len(st) /\ new[1] = a
      /\ \A i \in 2 .. Len(st) : new[i] = st[i]
  BY <1>1
<1>3. PICK owed \in [1 .. Len(st) + 1 -> Nat] :
        /\ \A n \in 1 .. Len(st) : owed[n] >= Owed(st[n]) + owed[n + 1]
        /\ k + owed[1] + Len(st) - 1 <= IF Owed(st[1]) = 0 THEN m ELSE m - 1
  BY DEF Shallow
<1>4. Owed(a) \in Nat /\ Owed(st[1]) \in Nat /\ owed[1] \in Nat /\ owed[2] \in Nat
  BY <1>1, OwedTyped, ElementOfSeq
<1>5. \A n \in 1 .. Len(st) : owed[n] >= Owed(new[n]) + owed[n + 1]
  <2>1. owed[1] >= Owed(a) + owed[2]
    <3>1. owed[1] >= Owed(st[1]) + owed[2]
      BY <1>1, <1>3
    <3>2. QED
      BY <1>4, <3>1
  <2>2. \A n \in 2 .. Len(st) : owed[n] >= Owed(new[n]) + owed[n + 1]
    BY <1>1, <1>2, <1>3
  <2> HIDE DEF new
  <2>3. QED
    BY <1>1, <1>2, <2>1, <2>2
<1>6. j + owed[1] + Len(st) - 1 <= IF Owed(a) = 0 THEN m ELSE m - 1
  BY <1>1, <1>3, <1>4
<1> HIDE DEF new
<1>7. Shallow(new, j, m)
  BY <1>2, <1>5, <1>6 DEF Shallow
<1>8. QED
  BY <1>7 DEF new

\* The innermost activation is over.
LEMMA ShallowReturn ==
  ASSUME NEW st \in Seq(Activations), st # <<>>, Tail(st) # <<>>, Owed(st[1]) = 0,
         NEW k \in Nat, NEW m \in Nat, Shallow(st, k, m)
  PROVE  Shallow(Tail(st), k, m)
<1> DEFINE new == Tail(st)
<1>1. /\ Len(st) \in Nat \ {0} /\ Tail(st) \in Seq(Activations) /\ Len(Tail(st)) = Len(st) - 1
      /\ \A i \in 1 .. Len(st) - 1 : Tail(st)[i] = st[i + 1]
  BY HeadTailProperties, EmptySeq, LenProperties
<1>2. Len(new) \in Nat \ {0} /\ Len(st) = Len(new) + 1
  BY <1>1, EmptySeq, LenProperties
<1>3. PICK owed \in [1 .. Len(st) + 1 -> Nat] :
        /\ \A n \in 1 .. Len(st) : owed[n] >= Owed(st[n]) + owed[n + 1]
        /\ k + owed[1] + Len(st) - 1 <= IF Owed(st[1]) = 0 THEN m ELSE m - 1
  BY DEF Shallow
<1> DEFINE below == [n \in 1 .. Len(new) + 1 |-> owed[n + 1]]
<1>4. below \in [1 .. Len(new) + 1 -> Nat]
  BY <1>2, <1>3
<1>5. \A n \in 1 .. Len(new) : below[n] >= Owed(new[n]) + below[n + 1]
  <2> TAKE n \in 1 .. Len(new)
  <2>1. n + 1 \in 1 .. Len(st) /\ new[n] = st[n + 1]
    BY <1>1, <1>2
  <2>2. below[n] = owed[n + 1] /\ below[n + 1] = owed[n + 2]
    BY <1>2
  <2> HIDE DEF below, new
  <2>3. owed[n + 1] >= Owed(st[n + 1]) + owed[(n + 1) + 1]
    BY <1>3, <2>1
  <2>4. (n + 1) + 1 = n + 2
    BY <1>2
  <2>5. QED
    BY <2>1, <2>2, <2>3, <2>4
<1>6. k + below[1] + Len(new) - 1 <= m - 1
  <2>1. below[1] = owed[2] /\ owed[2] \in Nat /\ owed[1] \in Nat
    BY <1>2
  <2>2. owed[1] >= owed[2]
    BY <1>2, <1>3, <2>1
  <2> HIDE DEF below, new
  <2>3. QED
    BY <1>2, <1>3, <2>1, <2>2
<1> HIDE DEF below, new
<1>7. k + below[1] + Len(new) - 1 <= IF Owed(new[1]) = 0 THEN m ELSE m - 1
  <2>1. below[1] \in Nat
    BY <1>2, <1>4
  <2>2. QED
    BY <1>2, <1>6, <2>1
<1>8. Shallow(new, k, m)
  BY <1>4, <1>5, <1>7 DEF Shallow
<1>9. QED
  BY <1>8 DEF new

\* An input is processed again: by an edge, which goes on by at most one, or
\* by a fallback, which gives back less than the rank it falls from.
LEMMA ShallowRedo ==
  ASSUME NEW st \in Seq(Activations), st # <<>>, NEW top \in Activations, NEW a \in Activations,
         Owed(st[1]) = Owed(top) + 1, NEW k \in Nat, NEW j \in Nat, NEW m \in Nat,
         \/ Owed(a) = 0 /\ j <= k + 1
         \/ j = 0 /\ Owed(a) < k,
         Shallow(st, k, m)
  PROVE  Shallow(<<a>> \o (<<top>> \o Tail(st)), j, m)
<1> DEFINE new == <<a>> \o (<<top>> \o Tail(st))
<1>1. /\ Len(st) \in Nat \ {0} /\ Tail(st) \in Seq(Activations) /\ Len(Tail(st)) = Len(st) - 1
      /\ \A i \in 1 .. Len(st) - 1 : Tail(st)[i] = st[i + 1]
  BY HeadTailProperties, EmptySeq, LenProperties
<1>2. /\ Len(new) = Len(st) + 1 /\ new[1] = a /\ new[2] = top
      /\ \A i \in 3 .. Len(st) + 1 : new[i] = st[i - 1]
  BY <1>1
<1>3. PICK owed \in [1 .. Len(st) + 1 -> Nat] :
        /\ \A n \in 1 .. Len(st) : owed[n] >= Owed(st[n]) + owed[n + 1]
        /\ k + owed[1] + Len(st) - 1 <= IF Owed(st[1]) = 0 THEN m ELSE m - 1
  BY DEF Shallow
<1>4. Owed(a) \in Nat /\ Owed(top) \in Nat /\ owed[1] \in Nat /\ owed[2] \in Nat
  <2>1. Owed(a) \in Nat /\ Owed(top) \in Nat
    BY OwedTyped
  <2>2. QED
    BY <1>1, <2>1
<1>5. owed[1] >= Owed(top) + 1 + owed[2]
  <2>1. owed[1] >= Owed(st[1]) + owed[2]
    BY <1>1, <1>3
  <2>2. QED
    BY <1>4, <2>1
<1> DEFINE all == [n \in 1 .. Len(st) + 2 |->
                     IF n = 1 THEN Owed(a) + (owed[1] - 1)
                     ELSE IF n = 2 THEN owed[1] - 1 ELSE owed[n - 1]]
<1>6. all \in [1 .. Len(new) + 1 -> Nat]
  <2>1. owed[1] - 1 \in Nat /\ Owed(a) + (owed[1] - 1) \in Nat
    BY <1>4, <1>5
  <2>2. \A n \in 3 .. Len(st) + 2 : owed[n - 1] \in Nat
    BY <1>1, <1>3
  <2>3. Len(new) + 1 = Len(st) + 2
    BY <1>1, <1>2
  <2> HIDE DEF new
  <2>4. QED
    BY <1>1, <2>1, <2>2, <2>3
<1>7. all[1] = Owed(a) + all[2] /\ all[2] = owed[1] - 1
  BY <1>1
<1>8. \A n \in 3 .. Len(st) + 2 : all[n] = owed[n - 1]
  BY <1>1
<1> HIDE DEF all, new
<1>9. \A n \in 1 .. Len(new) : all[n] >= Owed(new[n]) + all[n + 1]
  <2> TAKE n \in 1 .. Len(new)
  <2>1. CASE n = 1
    BY <1>2, <1>4, <1>7, <2>1
  <2>2. CASE n = 2
    <3>1. all[3] = owed[2]
      BY <1>1, <1>8
    <3>2. QED
      BY <1>2, <1>4, <1>5, <1>7, <2>2, <3>1
  <2>3. CASE n \in 3 .. Len(st) + 1
    <3>1. all[n] = owed[n - 1] /\ all[n + 1] = owed[n] /\ new[n] = st[n - 1]
      BY <1>1, <1>2, <1>8, <2>3
    <3>2. n - 1 \in 1 .. Len(st) /\ (n - 1) + 1 = n
      BY <1>1, <2>3
    <3>3. owed[n - 1] >= Owed(st[n - 1]) + owed[(n - 1) + 1]
      BY <1>3, <3>2
    <3>4. QED
      BY <3>1, <3>2, <3>3
  <2>4. QED
    BY <1>1, <1>2, <2>1, <2>2, <2>3
<1>10. j + all[1] + Len(new) - 1 <= IF Owed(new[1]) = 0 THEN m ELSE m - 1
  <2>1. k + owed[1] + Len(st) - 1 <= m - 1
    BY <1>3, <1>4
  <2>2. j + all[1] + Len(new) - 1 = j + Owed(a) + owed[1] + Len(st) - 1
    BY <1>1, <1>2, <1>4, <1>7
  <2>3. CASE Owed(a) = 0 /\ j <= k + 1
    BY <1>1, <1>2, <1>4, <2>1, <2>2, <2>3
  <2>4. CASE j = 0 /\ Owed(a) < k
    BY <1>1, <1>2, <1>4, <2>1, <2>2, <2>4
  <2>5. QED
    BY <2>3, <2>4
<1>11. Shallow(new, j, m)
  BY <1>6, <1>9, <1>10 DEF Shallow
<1>12. QED
  BY <1>11 DEF new

\* The first activation of a turn.
LEMMA ShallowFirst ==
  ASSUME NEW a \in Activations, NEW j \in Nat, NEW m \in Nat,
         \/ Owed(a) = 0 /\ j <= m
         \/ j = 0 /\ Owed(a) < m
  PROVE  Shallow(<<a>>, j, m)
<1> DEFINE owed == [n \in 1 .. 2 |-> IF n = 1 THEN Owed(a) ELSE 0]
<1>1. Owed(a) \in Nat
  BY OwedTyped
<1>2. owed \in [1 .. 2 -> Nat] /\ owed[1] = Owed(a) /\ owed[2] = 0
  BY <1>1
<1>3. Len(<<a>>) = 1 /\ <<a>>[1] = a
  OBVIOUS
<1> HIDE DEF owed
<1>4. \A n \in 1 .. 1 : owed[n] >= Owed(<<a>>[n]) + owed[n + 1]
  BY <1>1, <1>2, <1>3
<1>5. j + owed[1] + 1 - 1 <= IF Owed(<<a>>[1]) = 0 THEN m ELSE m - 1
  BY <1>1, <1>2, <1>3
<1>6. owed \in [1 .. Len(<<a>>) + 1 -> Nat]
  BY <1>2, <1>3
<1>7. QED
  BY <1>3, <1>4, <1>5, <1>6 DEF Shallow

LEMMA ShallowBound ==
  ASSUME NEW st \in Seq(Activations), st # <<>>, NEW k \in Nat, NEW m \in Nat, Shallow(st, k, m)
  PROVE  Len(st) <= m + 1
<1>1. Len(st) \in Nat \ {0}
  BY EmptySeq, LenProperties
<1>2. PICK owed \in [1 .. Len(st) + 1 -> Nat] :
        k + owed[1] + Len(st) - 1 <= IF Owed(st[1]) = 0 THEN m ELSE m - 1
  BY DEF Shallow
<1>3. owed[1] \in Nat
  BY <1>1
<1>4. QED
  BY <1>1, <1>2, <1>3

\* The ranks of a machine's states, and the one of the state the mapper is in.
RankOf(states) ==
  CHOOSE rank \in [1 .. Len(states) -> 0 .. Len(states) - 1] : RankedBy(rank, states)

CurRank == IF InRange THEN RankOf(Layers[cur_layer_idx].states)[cur_state_idx] ELSE 0

\* The machine the replay began in bounds it to its end.
ReplayInv ==
  Replayable(installed) /\ stack # <<>> =>
    \E l \in 1 .. Len(Layers) : Shallow(stack, CurRank, Len(Layers[l].states) - 1)

LEMMA RankProperties ==
  ASSUME NEW b, IsBuild(b), Replayable(b), NEW l \in 1 .. Len(b.layers)
  PROVE  LET states == b.layers[l].states IN
         /\ RankOf(states) \in [1 .. Len(states) -> 0 .. Len(states) - 1]
         /\ RankedBy(RankOf(states), states)
         /\ Len(states) \in Nat \ {0}
<1>1. Ranked(b.layers[l].states)
  BY DEF Replayable
<1>2. Len(b.layers[l].states) \in Nat \ {0}
  BY DEF IsBuild, IsLayer
<1>3. QED
  BY <1>1, <1>2 DEF Ranked, RankOf

LEMMA CurRankTyped ==
  ASSUME IsBuild(installed), Replayable(installed)
  PROVE  /\ CurRank \in Nat
         /\ InRange => CurRank <= Len(Layers[cur_layer_idx].states) - 1
         /\ cur_state_idx = HOME_STATE_IDX => CurRank = 0
<1>1. CASE InRange
  <2> DEFINE states == Layers[cur_layer_idx].states
  <2>1. /\ RankOf(states) \in [1 .. Len(states) -> 0 .. Len(states) - 1]
        /\ RankedBy(RankOf(states), states)
        /\ Len(states) \in Nat \ {0}
        /\ cur_state_idx \in 1 .. Len(states)
    BY <1>1, RankProperties DEF InRange, Layers
  <2>2. CurRank = RankOf(states)[cur_state_idx]
    BY <1>1 DEF CurRank
  <2> HIDE DEF states
  <2>3. CurRank \in 0 .. Len(states) - 1
    BY <2>1, <2>2
  <2>4. cur_state_idx = HOME_STATE_IDX => CurRank = 0
    BY <2>1, <2>2 DEF RankedBy
  <2>5. QED
    BY <2>1, <2>3, <2>4 DEF states
<1>2. CASE ~InRange
  BY <1>2 DEF CurRank
<1>3. QED
  BY <1>1, <1>2

\* An edge, a fallback or a timer taken: what its activation owes, and the
\* rank of the state it leads to.
LEMMA ApplyRanked ==
  ASSUME IsBuild(installed), Replayable(installed), InRange,
         NEW t, IsTransition(t, Layers[cur_layer_idx].states),
         \/ GoesOn(t, Layers[cur_layer_idx].states, RankOf(Layers[cur_layer_idx].states),
                   cur_state_idx)
         \/ GoesBack(t, RankOf(Layers[cur_layer_idx].states)[cur_state_idx]),
         NEW prev \in InputEvents \cup {None}, NEW rest,
         ApplyTransition(t, prev, rest)
  PROVE  \E a \in Activations :
           /\ stack' = <<a>> \o rest
           /\ CurRank' \in Nat /\ CurRank' <= Len(Layers[cur_layer_idx].states) - 1
           /\ \/ Owed(a) = 0 /\ CurRank' <= CurRank + 1
              \/ CurRank' = 0 /\ Owed(a) < CurRank
<1> DEFINE states == Layers[cur_layer_idx].states
           a == [prev |-> prev, outputs |-> t.outputs, redo |-> <<>>, binds |-> <<>>, delay |-> 0]
<1>1. /\ RankOf(states) \in [1 .. Len(states) -> 0 .. Len(states) - 1]
      /\ RankedBy(RankOf(states), states)
      /\ Len(states) \in Nat \ {0}
      /\ cur_state_idx \in 1 .. Len(states)
  BY RankProperties DEF InRange, Layers
<1>2. a \in Activations /\ stack' = <<a>> \o rest
  BY EmptySeq DEF Activations, ApplyTransition, IsTransition
<1>3. Owed(a) = Cardinality(Processed(t.outputs))
  <2>1. a.redo = <<>> /\ a.outputs = t.outputs /\ t.outputs \in Seq(StateMachineOutputs)
    BY DEF IsTransition
  <2> HIDE DEF a
  <2>2. Cardinality(Processed(t.outputs)) \in Nat
    BY <2>1, ProcessedCount
  <2>3. QED
    BY <2>1, <2>2 DEF Owed
<1>4. t.new_state \in 1 .. Len(states)
  BY <1>1 DEF GoesOn, GoesBack, HOME_STATE_IDX
<1>5. /\ UNCHANGED <<installed, cur_layer_idx>> /\ cur_state_idx' = t.new_state
      /\ InRange'
  BY <1>1, <1>4 DEF ApplyTransition, Targets, Indeterminate, InRange, Layers
<1>6. CurRank = RankOf(states)[cur_state_idx] /\ CurRank' = RankOf(states)[t.new_state]
  BY <1>5 DEF CurRank, Layers
<1> HIDE DEF states, a
<1>7. /\ CurRank \in 0 .. Len(states) - 1 /\ CurRank' \in 0 .. Len(states) - 1
  BY <1>1, <1>4, <1>6
<1>8. CASE GoesOn(t, states, RankOf(states), cur_state_idx)
  <2>1. Owed(a) = 0 /\ CurRank' <= CurRank + 1
    BY <1>3, <1>6, <1>8, FS_EmptySet DEF GoesOn
  <2>2. QED
    BY <1>1, <1>2, <1>7, <2>1 DEF states
<1>9. CASE GoesBack(t, RankOf(states)[cur_state_idx])
  <2>1. CurRank' = 0
    BY <1>1, <1>6, <1>9 DEF GoesBack, RankedBy
  <2>2. Owed(a) = 0 \/ Owed(a) < CurRank
    BY <1>3, <1>6, <1>9, FS_EmptySet DEF GoesBack
  <2>3. QED
    BY <1>1, <1>2, <1>7, <2>1, <2>2 DEF states
<1>10. QED
  BY <1>8, <1>9 DEF states

\* What the lookups of process_input and of the timer find.
LEMMA CurrentRanked ==
  ASSUME IsBuild(installed), Replayable(installed), InRange
  PROVE  LET states == Layers[cur_layer_idx].states
             rank == RankOf(states) IN
         /\ \A ev : LET t == IF ev \in DOMAIN CurState.edges THEN CurState.edges[ev]
                                                            ELSE CurState.fallback IN
                    GoesOn(t, states, rank, cur_state_idx) \/ GoesBack(t, rank[cur_state_idx])
         /\ CurState.timer # None => GoesBack(CurState.timer, rank[cur_state_idx])
<1> DEFINE states == Layers[cur_layer_idx].states
<1>1. RankedBy(RankOf(states), states) /\ cur_state_idx \in 1 .. Len(states)
  BY RankProperties DEF InRange, Layers
<1>2. CurState = states[cur_state_idx]
  BY DEF CurState
<1> HIDE DEF states
<1>3. /\ \A ev \in DOMAIN CurState.edges :
           GoesOn(CurState.edges[ev], states, RankOf(states), cur_state_idx)
      /\ GoesBack(CurState.fallback, RankOf(states)[cur_state_idx])
      /\ CurState.timer # None => GoesBack(CurState.timer, RankOf(states)[cur_state_idx])
  BY <1>1, <1>2 DEF RankedBy
<1>4. QED
  BY <1>3 DEF states

LEMMA NextReplay == TypeOK /\ ActivationsInTurn /\ ReplayInv /\ [Next]_vars => ReplayInv'
<1> SUFFICES ASSUME TypeOK, ActivationsInTurn, ReplayInv, [Next]_vars,
                    Replayable(installed'), stack' # <<>>
             PROVE  \E l \in 1 .. Len(Layers') :
                      Shallow(stack', CurRank', Len(Layers'[l].states) - 1)
  BY DEF ReplayInv
<1> DEFINE Goal == \E l \in 1 .. Len(Layers') :
                     Shallow(stack', CurRank', Len(Layers'[l].states) - 1)
<1>1. /\ IsBuild(installed) /\ stack \in Seq(Activations)
      /\ \A l \in 1 .. Len(Layers) : Len(Layers[l].states) - 1 \in Nat
  BY DEF TypeOK, IsBuild, IsLayer, Layers
<1>2. UNCHANGED installed => /\ Layers' = Layers /\ Replayable(installed)
                             /\ CurRank \in Nat
  BY <1>1, CurRankTyped DEF Layers
<1>3. UNCHANGED <<installed, cur_layer_idx, cur_state_idx>> => CurRank' = CurRank
  BY DEF CurRank, InRange, Layers
\* A step that leaves the activations and the state alone.
<1>4. ASSUME UNCHANGED <<installed, cur_layer_idx, cur_state_idx, stack>> PROVE Goal
  BY <1>2, <1>3, <1>4 DEF ReplayInv
\* A step of the innermost activation.
<1>5. ASSUME UNCHANGED installed, stack # <<>>, CurRank' \in Nat, CurRank' <= CurRank,
             NEW a \in Activations, Owed(a) <= Owed(Top), Replace(a)
      PROVE  Goal
  <2>1. PICK l \in 1 .. Len(Layers) : Shallow(stack, CurRank, Len(Layers[l].states) - 1)
    BY <1>2, <1>5 DEF ReplayInv
  <2>2. Owed(a) <= Owed(stack[1])
    BY <1>1, <1>5, HeadTailProperties DEF Top
  <2>3. Shallow(<<a>> \o Tail(stack), CurRank', Len(Layers[l].states) - 1)
    BY <1>1, <1>2, <1>5, <2>1, <2>2, ShallowReplace
  <2>4. QED
    BY <1>2, <1>5, <2>3 DEF Replace
\* The first transition of a turn, and the timer's.
<1>6. ASSUME stack = <<>>, InRange, NEW t, IsTransition(t, Layers[cur_layer_idx].states),
             \/ GoesOn(t, Layers[cur_layer_idx].states, RankOf(Layers[cur_layer_idx].states),
                       cur_state_idx)
             \/ GoesBack(t, RankOf(Layers[cur_layer_idx].states)[cur_state_idx]),
             NEW prev \in InputEvents \cup {None}, ApplyTransition(t, prev, stack)
      PROVE  Goal
  <2>1. UNCHANGED installed
    BY <1>6 DEF ApplyTransition
  <2>2. PICK m \in Nat : m = Len(Layers[cur_layer_idx].states) - 1
    BY <1>1, <1>6 DEF InRange
  <2>3. PICK a \in Activations :
          /\ stack' = <<a>> \o stack
          /\ CurRank' \in Nat /\ CurRank' <= m
          /\ \/ Owed(a) = 0 /\ CurRank' <= CurRank + 1
             \/ CurRank' = 0 /\ Owed(a) < CurRank
    BY <1>1, <1>2, <1>6, <2>1, <2>2, ApplyRanked
  <2>4. CurRank \in Nat /\ CurRank <= m /\ Owed(a) \in Nat
    BY <1>1, <1>2, <1>6, <2>1, <2>2, CurRankTyped, OwedTyped
  <2>5. \/ Owed(a) = 0 /\ CurRank' <= m
        \/ CurRank' = 0 /\ Owed(a) < m
    BY <2>3, <2>4
  <2>6. Shallow(<<a>>, CurRank', m)
    BY <2>3, <2>5, ShallowFirst
  <2>7. stack' = <<a>> /\ cur_layer_idx \in 1 .. Len(Layers)
    BY <1>6, <2>3 DEF InRange
  <2>8. QED
    BY <1>2, <2>1, <2>2, <2>6, <2>7
<1>7. CASE LoopTest \/ WaitKey \/ CheckQueuedEvents \/ Throw
  BY <1>4, <1>7 DEF LoopTest, WaitKey, CheckQueuedEvents, Throw, machine
<1>8. CASE CheckTimer
  <2>1. CASE TimerExpired /\ ApplyTransition(CurState.timer, None, stack)
    <3>1. UNCHANGED installed /\ InRange /\ stack = <<>>
      BY <1>8, <2>1 DEF CheckTimer, ApplyTransition, ActivationsInTurn
    <3>2. IsTransition(CurState.timer, Layers[cur_layer_idx].states)
      BY <1>1, <2>1, <3>1, LookupTyped DEF TimerExpired, IsState
    <3>3. GoesBack(CurState.timer, RankOf(Layers[cur_layer_idx].states)[cur_state_idx])
      BY <1>1, <1>2, <2>1, <3>1, CurrentRanked DEF TimerExpired
    <3>4. QED
      BY <1>6, <2>1, <3>1, <3>2, <3>3
  <2>2. QED
    BY <1>4, <1>8, <2>1 DEF CheckTimer, machine
<1>9. CASE ProcessKey
  <2>1. CASE key_opt # None /\ ~paused /\ TakeTransition(key_opt, stack)
    <3> DEFINE t == IF key_opt \in DOMAIN CurState.edges THEN CurState.edges[key_opt]
                                                         ELSE CurState.fallback
    <3>1. UNCHANGED installed /\ InRange /\ stack = <<>> /\ key_opt \in InputEvents
      BY <1>9, <2>1 DEF ProcessKey, TakeTransition, ApplyTransition, TypeOK
    <3>2. IsTransition(t, Layers[cur_layer_idx].states)
      BY <1>1, <3>1, EdgeTyped
    <3>3. \/ GoesOn(t, Layers[cur_layer_idx].states, RankOf(Layers[cur_layer_idx].states),
                    cur_state_idx)
          \/ GoesBack(t, RankOf(Layers[cur_layer_idx].states)[cur_state_idx])
      BY <1>1, <1>2, <3>1, CurrentRanked
    <3>4. ApplyTransition(t, key_opt, stack)
      BY <2>1 DEF TakeTransition
    <3> HIDE DEF t
    <3>5. QED
      BY <1>6, <3>1, <3>2, <3>3, <3>4
  <2>2. QED
    BY <1>4, <1>9, <2>1 DEF ProcessKey, ForwardRaw, machine
<1>10. CASE QueueOutput \/ QueueWait
  <2>1. UNCHANGED machine /\ stack # <<>> /\ Top.binds # <<>>
    BY <1>10 DEF QueueOutput, QueueWait, InActivation
  <2>2. /\ Top \in Activations
        /\ Tail(Top.binds) \in Seq(Binds) /\ Head(Top.binds) \in Binds
    BY <1>1, <2>1, TopTyped
  <2>3. ASSUME NEW d \in Nat, Replace([Top EXCEPT !.binds = Tail(@), !.delay = d]) PROVE Goal
    <3> DEFINE a == [Top EXCEPT !.binds = Tail(@), !.delay = d]
    <3>1. a \in Activations /\ a.redo = Top.redo /\ a.outputs = Top.outputs
      BY <2>2 DEF Activations
    <3>2. Replace(a)
      BY <2>3
    <3> HIDE DEF a
    <3>3. Owed(a) <= Owed(Top)
      BY <2>2, <3>1, OwedTyped DEF Owed
    <3>4. QED
      BY <1>2, <1>3, <1>5, <2>1, <3>1, <3>2, <3>3 DEF machine
  <2>4. CASE QueueOutput
    <3>1. [Top EXCEPT !.binds = Tail(@)] = [Top EXCEPT !.binds = Tail(@), !.delay = Top.delay]
          /\ Top.delay \in Nat
      BY <2>2 DEF Activations
    <3>2. QED
      BY <2>3, <2>4, <3>1 DEF QueueOutput
  <2>5. CASE QueueWait
    <3>1. Top.delay + Head(Top.binds).ms \in Nat
      BY <2>2, <2>5 DEF QueueWait, Binds, Activations
    <3>2. Replace([Top EXCEPT !.binds = Tail(@), !.delay = Top.delay + Head(Top.binds).ms])
      BY <2>5 DEF QueueWait
    <3>3. QED
      BY <2>3, <3>1, <3>2
  <2>6. QED
    BY <1>10, <2>4, <2>5
<1>11. CASE SwapLayer
  <2> DEFINE a == [Top EXCEPT !.binds = Tail(@)]
  <2>1. /\ UNCHANGED installed /\ stack # <<>> /\ Top.binds # <<>>
        /\ cur_state_idx' = HOME_STATE_IDX /\ Replace(a)
    BY <1>11 DEF SwapLayer, InActivation, SetLayerInner
  <2>2. Top \in Activations /\ Tail(Top.binds) \in Seq(Binds)
    BY <1>1, <2>1, TopTyped
  <2>3. a \in Activations /\ a.redo = Top.redo /\ a.outputs = Top.outputs
    BY <2>2 DEF Activations
  <2> HIDE DEF a
  <2>4. Owed(a) <= Owed(Top)
    BY <2>2, <2>3, OwedTyped DEF Owed
  <2>5. CurRank' = 0
    <3>1. IsBuild(installed')
      BY <1>1, <2>1
    <3>2. CASE InRange'
      <4>1. RankedBy(RankOf(Layers'[cur_layer_idx'].states), Layers'[cur_layer_idx'].states)
        BY <3>1, <3>2, RankProperties DEF InRange, Layers
      <4>2. QED
        BY <2>1, <3>2, <4>1 DEF CurRank, RankedBy
    <3>3. CASE ~InRange'
      BY <3>3 DEF CurRank
    <3>4. QED
      BY <3>2, <3>3
  <2>6. QED
    BY <1>2, <1>5, <2>1, <2>3, <2>4, <2>5
<1>12. CASE DeferInput \/ TranslateBasic \/ OutputBind
  <2>1. UNCHANGED machine /\ stack # <<>> /\ NextOutput
    BY <1>12 DEF DeferInput, TranslateBasic, OutputBind, NextOutput, InActivation
  <2>2. /\ Top \in Activations /\ Top.outputs \in Seq(StateMachineOutputs) /\ Top.outputs # <<>>
        /\ Head(Top.outputs) \in StateMachineOutputs
    BY <1>1, <2>1, TopTyped DEF NextOutput, Activations
  <2>3. /\ Rest \in Activations /\ Rest.redo = Top.redo /\ Rest.outputs = Tail(Top.outputs)
    BY <1>1, <2>1, <2>2, RestTyped DEF Rest, Activations
  <2>4. /\ Cardinality(Processed(Tail(Top.outputs)))
             = IF Head(Top.outputs).kind = "process" THEN Cardinality(Processed(Top.outputs)) - 1
                                                     ELSE Cardinality(Processed(Top.outputs))
        /\ Cardinality(Processed(Tail(Top.outputs))) \in Nat
        /\ Cardinality(Processed(Top.outputs)) \in Nat
        /\ Len(Top.redo) \in Nat
    BY <2>2, ProcessedTail, ProcessedCount, HeadTailProperties, LenProperties DEF Activations
  <2>5. Owed(Rest) = IF Head(Top.outputs).kind = "process" THEN Owed(Top) - 1 ELSE Owed(Top)
    BY <2>3, <2>4 DEF Owed
  <2>6. Owed(Top) \in Nat
    BY <2>2, OwedTyped
  <2>7. ASSUME NEW a \in Activations, Owed(a) <= Owed(Top), Replace(a) PROVE Goal
    BY <1>2, <1>3, <1>5, <2>1, <2>7 DEF machine
  <2>8. CASE Replace(Rest)
    BY <2>3, <2>5, <2>6, <2>7, <2>8
  <2>9. ASSUME NEW b \in Seq(Binds), Replace([Rest EXCEPT !.binds = b]),
               Head(Top.outputs).kind # "process"
        PROVE  Goal
    <3> DEFINE a == [Rest EXCEPT !.binds = b]
    <3>1. a \in Activations /\ a.redo = Rest.redo /\ a.outputs = Rest.outputs
      BY <1>1, <2>1, <2>3, RestTyped DEF Activations
    <3>2. Replace(a)
      BY <2>9
    <3> HIDE DEF a
    <3>3. Owed(a) <= Owed(Top)
      BY <2>5, <2>6, <2>9, <3>1 DEF Owed
    <3>4. QED
      BY <2>7, <3>1, <3>2, <3>3
  <2>10. CASE DeferInput
    <3> DEFINE ev == EventOf(Head(Top.outputs))
               a == [Rest EXCEPT !.redo = Append(@, ev)]
    <3>1. Head(Top.outputs).kind = "process"
      BY <2>10 DEF DeferInput
    <3>2. CASE ev # None /\ Replace(a)
      <4>1. ev \in InputEvents
        BY <1>1, <2>1, <3>1, <3>2, RestTyped
      <4>2. /\ a \in Activations /\ a.outputs = Rest.outputs
            /\ a.redo = Append(Rest.redo, ev) /\ Rest.redo \in Seq(InputEvents)
        BY <1>1, <2>1, <2>3, <4>1, RestTyped DEF Activations
      <4> HIDE DEF a, ev
      <4>3. Len(a.redo) = Len(Rest.redo) + 1
        BY <4>1, <4>2, AppendProperties
      <4>4. Owed(a) = Owed(Rest) + 1
        BY <2>3, <2>4, <4>2, <4>3 DEF Owed
      <4>5. QED
        BY <2>5, <2>6, <2>7, <3>1, <3>2, <4>2, <4>4
    <3>3. QED
      BY <2>8, <2>10, <3>2 DEF DeferInput
  <2>11. CASE TranslateBasic
    <3> DEFINE ev == EventOf(Head(Top.outputs))
               binds == Layers[cur_layer_idx].basic[ev]
    <3>1. CASE /\ cur_layer_idx \in 1 .. Len(Layers)
               /\ ev \in DOMAIN Layers[cur_layer_idx].basic
               /\ Replace([Rest EXCEPT !.binds = binds])
      <4>1. binds \in Seq(Binds)
        BY <1>1, <3>1, BasicTyped
      <4>2. QED
        BY <2>9, <2>11, <3>1, <4>1 DEF TranslateBasic
    <3>2. QED
      BY <2>8, <2>11, <3>1 DEF TranslateBasic
  <2>12. CASE OutputBind
    <3>1. Head(Top.outputs) \in Binds /\ Head(Top.outputs).kind # "process"
      BY <2>2, <2>12 DEF OutputBind, StateMachineOutputs
    <3>2. <<Head(Top.outputs)>> \in Seq(Binds)
      BY <3>1
    <3>3. QED
      BY <2>9, <2>12, <3>1, <3>2 DEF OutputBind
  <2>13. QED
    BY <1>12, <2>10, <2>11, <2>12
<1>13. CASE RedoInput
  <2> DEFINE top == [Top EXCEPT !.redo = Tail(@)]
             rest == <<top>> \o Tail(stack)
             ev == Head(Top.redo)
             t == IF ev \in DOMAIN CurState.edges THEN CurState.edges[ev] ELSE CurState.fallback
  <2>1. TakeTransition(ev, rest) /\ stack # <<>> /\ Top.redo # <<>>
    BY <1>13 DEF RedoInput, OutputsDone, InActivation
  <2>2. UNCHANGED installed /\ InRange /\ ApplyTransition(t, ev, rest)
    BY <2>1 DEF TakeTransition, ApplyTransition
  <2>3. /\ Top \in Activations /\ ev \in InputEvents
        /\ Tail(Top.redo) \in Seq(InputEvents) /\ Len(Tail(Top.redo)) = Len(Top.redo) - 1
        /\ Len(Top.redo) \in Nat
    BY <1>1, <2>1, TopTyped, HeadTailProperties, LenProperties DEF Activations
  <2>4. top \in Activations /\ top.redo = Tail(Top.redo) /\ top.outputs = Top.outputs
    BY <2>3 DEF Activations
  <2>5. IsTransition(t, Layers[cur_layer_idx].states)
    BY <1>1, <2>2, EdgeTyped
  <2>6. \/ GoesOn(t, Layers[cur_layer_idx].states, RankOf(Layers[cur_layer_idx].states),
                  cur_state_idx)
        \/ GoesBack(t, RankOf(Layers[cur_layer_idx].states)[cur_state_idx])
    BY <1>1, <1>2, <2>2, CurrentRanked
  <2> HIDE DEF t, rest, top, ev
  <2>7. PICK a \in Activations :
          /\ stack' = <<a>> \o rest
          /\ CurRank' \in Nat
          /\ \/ Owed(a) = 0 /\ CurRank' <= CurRank + 1
             \/ CurRank' = 0 /\ Owed(a) < CurRank
    BY <1>1, <1>2, <2>2, <2>3, <2>5, <2>6, ApplyRanked
  <2>8. Owed(stack[1]) = Owed(top) + 1
    <3>1. stack[1] = Top
      BY <1>1, <2>1, HeadTailProperties DEF Top
    <3>2. Cardinality(Processed(Top.outputs)) \in Nat
      BY <2>3, ProcessedCount DEF Activations
    <3>3. QED
      BY <2>3, <2>4, <3>1, <3>2 DEF Owed
  <2>9. PICK l \in 1 .. Len(Layers) : Shallow(stack, CurRank, Len(Layers[l].states) - 1)
    BY <1>2, <2>1, <2>2 DEF ReplayInv
  <2>10. Shallow(<<a>> \o (<<top>> \o Tail(stack)), CurRank', Len(Layers[l].states) - 1)
    BY <1>1, <1>2, <2>1, <2>2, <2>4, <2>7, <2>8, <2>9, ShallowRedo
  <2>11. QED
    BY <1>2, <2>2, <2>7, <2>10 DEF rest
<1>14. CASE Return
  <2>1. UNCHANGED machine /\ stack # <<>> /\ stack' = Tail(stack) /\ Top.redo = <<>>
        /\ Top.outputs = <<>>
    BY <1>14 DEF Return, OutputsDone, InActivation
  <2>2. Owed(stack[1]) = 0
    <3>1. stack[1] = Top
      BY <1>1, <2>1, HeadTailProperties DEF Top
    <3>2. Processed(<<>>) = {}
      BY DEF Processed
    <3>3. Cardinality(Processed(Top.outputs)) = 0 /\ Len(Top.redo) = 0
      BY <2>1, <3>2, FS_EmptySet
    <3>4. QED
      BY <3>1, <3>3 DEF Owed
  <2>3. PICK l \in 1 .. Len(Layers) : Shallow(stack, CurRank, Len(Layers[l].states) - 1)
    BY <1>2, <2>1 DEF ReplayInv, machine
  <2>4. Shallow(Tail(stack), CurRank, Len(Layers[l].states) - 1)
    BY <1>1, <1>2, <2>1, <2>2, <2>3, ShallowReturn DEF machine
  <2>5. QED
    BY <1>2, <1>3, <2>1, <2>4 DEF machine
<1>15. ASSUME NEW p \in Profiles, SetProfile(p) PROVE Goal
  BY <1>15 DEF SetProfile, MainThread, HoldsMutex, ActivationsInTurn
<1>16. ASSUME NEW l \in 1 .. Len(Layers), SetLayer(l) PROVE Goal
  BY <1>16 DEF SetLayer, MainThread, HoldsMutex, ActivationsInTurn, thread
<1>17. CASE Pause \/ Resume \/ Stop \/ Close \/ Tick
  BY <1>4, <1>17 DEF Pause, Resume, Stop, Close, Tick, machine, thread
<1>18. ASSUME NEW ev \in InputEvents, SendKey(ev) PROVE Goal
  BY <1>4, <1>18 DEF SendKey, machine, thread
<1>19. CASE UNCHANGED vars
  BY <1>4, <1>19 DEF vars, machine, thread
<1>20. QED
  BY <1>7, <1>8, <1>9, <1>10, <1>11, <1>12, <1>13, <1>14, <1>15, <1>16, <1>17, <1>18, <1>19
  DEF Next, MapperStep, MainStep

\* While the profile installed is one whose replays give back less than they
\* take (ranks of a machine's states that every fallback falls below), the
\* activations of apply_transition and process_input never nest deeper than
\* one of its machines has states, across the layers a replay may swap
\* through (mapper.cpp:165-224).
THEOREM ReplaysAreShallow == Spec => [](Replayable(installed) => ReplayDepth)
<1> DEFINE Inv == TypeOK /\ ActivationsInTurn /\ ReplayInv
<1>1. Init => Inv
  BY InitTypes DEF Init, ActivationsInTurn, ReplayInv
<1>2. Inv /\ [Next]_vars => Inv'
  BY NextTypes, NextActivations, NextReplay
<1>3. Inv => (Replayable(installed) => ReplayDepth)
  <2> SUFFICES ASSUME Inv, Replayable(installed), stack # <<>>
               PROVE  \E l \in 1 .. Len(Layers) : Len(stack) <= Len(Layers[l].states)
    BY DEF ReplayDepth
  <2>1. PICK l \in 1 .. Len(Layers) : Shallow(stack, CurRank, Len(Layers[l].states) - 1)
    BY DEF ReplayInv
  <2>2. /\ Len(Layers[l].states) \in Nat \ {0} /\ stack \in Seq(Activations)
        /\ IsBuild(installed)
    BY DEF TypeOK, IsBuild, IsLayer, Layers
  <2>3. CurRank \in Nat
    BY <2>2, CurRankTyped
  <2>4. Len(stack) <= (Len(Layers[l].states) - 1) + 1
    BY <2>1, <2>2, <2>3, ShallowBound
  <2>5. QED
    BY <2>2, <2>4
<1>4. QED
  BY <1>1, <1>2, <1>3, PTL DEF Spec
=============================================================================
