---------------------------- MODULE KeyPathProofs ----------------------------
(***************************************************************************)
(* The whole way of a key takes no step that the mapper's specification    *)
(* does not know, so everything proved of Mapper holds between the         *)
(* keyboard and the desktop on every platform.                             *)
(*                                                                         *)
(* And under the default profile it is the keyboard itself: PassThrough.   *)
(***************************************************************************)
EXTENDS KeyPath, MapperProofs, WellFoundedInduction

LEMMA KeyEventTypes ==
  ASSUME NEW code, NEW press
  PROVE  KeyEvent(code, press) \in {KeyEvent(code, TRUE), KeyEvent(code, FALSE)}
BY DEF KeyEvent

\* What the daemon makes of a key it knows is an input of the mapper.
LEMMA ToMapperSends ==
  ASSUME NEW event, platform \in Platforms, Known(event), ToMapper(event)
  PROVE  Next
<1> DEFINE ev == KeyEvent(table.forward[event.code], event.press)
<1>1. ev \in KeyEvents
  <2>1. event.code \in DOMAIN int_to_keycode[platform].forward
    BY DEF Known, ContainsForward, table
  <2>2. \A press \in BOOLEAN : KeyEvent(table.forward[event.code], press) \in KeyEvents
    BY <2>1, PathAssumption DEF table
  <2> QED BY <2>2, KeyEventTypes
<1>2. ev \in InputEvents
  BY <1>1, EventsAssumption
<1>3. SendKey(ev)
  BY DEF ToMapper
<1> QED BY <1>2, <1>3 DEF Next

\* Every step of the path is a step of the mapper, or of something around it.
LEMMA PathStep ==
  ASSUME platform \in Platforms, PathNext
  PROVE  [Next]_vars /\ platform' = platform
<1>1. ASSUME User
      PROVE  UNCHANGED vars /\ platform' = platform
  BY <1>1 DEF User, TypeKey
<1>2. ASSUME ReadKey
      PROVE  [Next]_vars /\ platform' = platform
  <2> DEFINE event == Head(source)
  <2>1. platform' = platform
    BY <1>2 DEF ReadKey
  <2>2. CASE LinuxRead(event)
    BY <2>1, <2>2, ToMapperSends DEF LinuxRead
  <2>3. CASE HookProc(event)
    <3>1. CASE ToMapper(event) /\ Known(event)
      BY <2>1, <3>1, ToMapperSends
    <3>2. CASE UNCHANGED vars
      BY <2>1, <3>2
    <3> QED BY <2>3, <3>1, <3>2 DEF HookProc, Known, Unknown
  <2>4. CASE HandleInputEvent(event)
    BY <2>1, <2>4, ToMapperSends DEF HandleInputEvent
  <2> QED BY <1>2, <2>2, <2>3, <2>4 DEF ReadKey
<1>3. ASSUME MapperTurn
      PROVE  Next /\ platform' = platform
  BY <1>3 DEF MapperTurn, Next
<1>4. ASSUME Wait
      PROVE  Next /\ platform' = platform
  BY <1>4 DEF Wait, path, Next
<1>5. ASSUME FocusChange
      PROVE  Next /\ platform' = platform
  BY <1>5, PathAssumption DEF FocusChange, ToOtherApplication, Next
<1>6. ASSUME DanglingFocusChange
      PROVE  UNCHANGED vars /\ platform' = platform
  BY <1>6 DEF DanglingFocusChange, ToOtherApplication
<1>7. ASSUME StartClient
      PROVE  UNCHANGED vars /\ platform' = platform
  BY <1>7 DEF StartClient
<1>8. ASSUME MainCall
      PROVE  Next /\ platform' = platform
  BY <1>8 DEF MainCall, MainStep, Next
<1> QED
  BY <1>1, <1>2, <1>3, <1>4, <1>5, <1>6, <1>7, <1>8 DEF PathNext

\* Whatever the platform does with its keys, its injected events and its
\* focus changes, the mapper between them behaves as it does alone
\* (linux/src/daemon.cpp:88-157, win/src/daemon.cpp:72-188,
\* mac/src/daemon.cpp:79-208 against mapper.cpp:122-249).
THEOREM PathIsMapper == PathSpec => Spec
<1>1. PathInit => Init /\ platform \in Platforms
  BY DEF PathInit
<1>2. platform \in Platforms /\ [PathNext]_pathVars => [Next]_vars /\ (platform \in Platforms)'
  <2>1. CASE PathNext
    BY <2>1, PathStep
  <2>2. CASE UNCHANGED pathVars
    BY <2>2 DEF pathVars, path
  <2> QED BY <2>1, <2>2
<1> QED BY <1>1, <1>2, PTL DEF PathSpec, Spec

-----------------------------------------------------------------------------
(* What is on its way can be written. *)

WritableInputs  == {ev \in InputEvents : ~Unsendable(ev)}
WritableEvents  == {ev \in OutputEvents : ~Unsendable(ev)}
WritableOutputs == {o \in StateMachineOutputs :
                  o.kind \in {"out", "basic", "process"} => ~Unsendable(o.ev)}
WritableBinds   == {b \in Binds : b \in WritableOutputs}
WritableWaiting == [left : Nat, ev : WritableEvents]

WritableActivations ==
  [prev : WritableInputs \cup {None}, outputs : Seq(WritableOutputs),
   redo : Seq(WritableInputs), binds : Seq(WritableBinds), delay : Nat]

PendingWritable ==
  /\ queue \in Seq(WritableInputs)
  /\ key_opt \in WritableInputs \cup {None}
  /\ queued_events \in Seq(WritableWaiting)
  /\ stack \in Seq(WritableActivations)

\* A sequence all of whose members have another property.
LEMMA Refined ==
  ASSUME NEW S, NEW T, NEW s \in Seq(S), \A n \in 1 .. Len(s) : s[n] \in T
  PROVE  s \in Seq(T)
<1>1. Len(s) \in Nat /\ s \in [1 .. Len(s) -> S]
  BY LenProperties
<1>2. s \in [1 .. Len(s) -> T]
  BY <1>1
<1> QED BY <1>1, <1>2, SeqDef

LEMMA OutputsWritable ==
  ASSUME NEW outputs \in Seq(StateMachineOutputs), ~Names(outputs)
  PROVE  outputs \in Seq(WritableOutputs)
<1>1. \A n \in 1 .. Len(outputs) : outputs[n] \in WritableOutputs
  BY ElementOfSeq DEF Names, WritableOutputs
<1> QED BY <1>1, Refined

LEMMA BindsWritable ==
  ASSUME NEW binds \in Seq(Binds), ~Names(binds)
  PROVE  binds \in Seq(WritableBinds)
<1>1. \A n \in 1 .. Len(binds) : binds[n] \in WritableBinds
  BY ElementOfSeq DEF Names, WritableBinds, WritableOutputs, StateMachineOutputs
<1> QED BY <1>1, Refined

\* The transitions of a profile that names no such key.
LEMMA LookupWritable ==
  ASSUME IsBuild(installed), InRange, ~LacksKey(installed)
  PROVE  /\ \A ev : (IF ev \in DOMAIN CurState.edges THEN CurState.edges[ev]
                                                     ELSE CurState.fallback).outputs \in Seq(WritableOutputs)
         /\ CurState.timer # None => CurState.timer.outputs \in Seq(WritableOutputs)
<1>1. ~StateLacksKey(CurState)
  BY DEF LacksKey, InRange, CurState, Layers
<1>2. /\ \A ev \in DOMAIN CurState.edges : CurState.edges[ev].outputs \in Seq(StateMachineOutputs)
      /\ CurState.fallback.outputs \in Seq(StateMachineOutputs)
      /\ CurState.timer # None => CurState.timer.outputs \in Seq(StateMachineOutputs)
  BY LookupTyped DEF IsState, IsTransition
<1> QED BY <1>1, <1>2, OutputsWritable DEF StateLacksKey

LEMMA BasicWritable ==
  ASSUME IsBuild(installed), ~LacksKey(installed), cur_layer_idx \in 1 .. Len(Layers),
         NEW ev \in DOMAIN Layers[cur_layer_idx].basic
  PROVE  Layers[cur_layer_idx].basic[ev] \in Seq(WritableBinds)
<1>1. ~Names(Layers[cur_layer_idx].basic[ev])
  BY DEF LacksKey, Layers
<1> QED BY <1>1, BasicTyped, BindsWritable

\* Nothing about a key changes while the platform does not.
LEMMA WritableUnchanged ==
  ASSUME platform' = platform
  PROVE  /\ WritableInputs' = WritableInputs /\ WritableWaiting' = WritableWaiting
         /\ WritableActivations' = WritableActivations
         /\ installed' = installed => LacksKey(installed)' = LacksKey(installed)
<1>1. \A ev : Unsendable(ev)' <=> Unsendable(ev)
  BY DEF Unsendable, table
<1>2. WritableInputs' = WritableInputs /\ WritableEvents' = WritableEvents /\ WritableOutputs' = WritableOutputs
  BY <1>1 DEF WritableInputs, WritableEvents, WritableOutputs
<1>3. WritableBinds' = WritableBinds /\ WritableWaiting' = WritableWaiting
  BY <1>2 DEF WritableBinds, WritableWaiting
<1>4. WritableActivations' = WritableActivations
  BY <1>2, <1>3 DEF WritableActivations
<1>5. ASSUME installed' = installed PROVE LacksKey(installed)' = LacksKey(installed)
  <2>1. \A outputs : Names(outputs)' <=> Names(outputs)
    BY <1>1 DEF Names
  <2>2. \A state : StateLacksKey(state)' <=> StateLacksKey(state)
    BY <2>1 DEF StateLacksKey
  <2> QED BY <1>5, <2>1, <2>2 DEF LacksKey
<1> QED BY <1>2, <1>3, <1>4, <1>5

-----------------------------------------------------------------------------
(* The mapper's steps keep it so. *)

LEMMA ApplyWritable ==
  ASSUME NEW t, t.outputs \in Seq(WritableOutputs), NEW prev \in WritableInputs \cup {None},
         NEW rest \in Seq(WritableActivations), ApplyTransition(t, prev, rest)
  PROVE  stack' \in Seq(WritableActivations)
<1>1. [prev |-> prev, outputs |-> t.outputs, redo |-> <<>>, binds |-> <<>>, delay |-> 0]
        \in WritableActivations
  BY EmptySeq DEF WritableActivations
<1> QED BY <1>1, PushTyped DEF ApplyTransition

LEMMA ReplaceWritable ==
  ASSUME stack \in Seq(WritableActivations), stack # <<>>, NEW a \in WritableActivations, Replace(a)
  PROVE  stack' \in Seq(WritableActivations)
BY HeadTailProperties, PushTyped DEF Replace

LEMMA TopWritable ==
  ASSUME stack \in Seq(WritableActivations), stack # <<>>
  PROVE  /\ Top \in WritableActivations
         /\ Tail(stack) \in Seq(WritableActivations)
         /\ Top.binds # <<>> => /\ Head(Top.binds) \in WritableBinds
                                /\ Tail(Top.binds) \in Seq(WritableBinds)
         /\ Top.outputs # <<>> => /\ Head(Top.outputs) \in WritableOutputs
                                  /\ Tail(Top.outputs) \in Seq(WritableOutputs)
         /\ Top.redo # <<>> => /\ Head(Top.redo) \in WritableInputs
                               /\ Tail(Top.redo) \in Seq(WritableInputs)
<1>1. Top \in WritableActivations /\ Tail(stack) \in Seq(WritableActivations)
  BY HeadTailProperties DEF Top
<1> QED BY <1>1, HeadTailProperties DEF WritableActivations

LEMMA RestWritable ==
  ASSUME stack \in Seq(WritableActivations), NextOutput
  PROVE  /\ Rest \in WritableActivations
         /\ \A e \in WritableInputs : [Rest EXCEPT !.redo = Append(@, e)] \in WritableActivations
         /\ \A b \in Seq(WritableBinds) : [Rest EXCEPT !.binds = b] \in WritableActivations
         /\ Head(Top.outputs).kind \in {"basic", "process"}
              => EventOf(Head(Top.outputs)) \in WritableInputs \cup {None}
<1>1. /\ Top \in WritableActivations
      /\ Tail(Top.outputs) \in Seq(WritableOutputs)
      /\ Head(Top.outputs) \in WritableOutputs
  BY TopWritable DEF NextOutput, InActivation
<1>2. Rest \in WritableActivations /\ Rest.redo \in Seq(WritableInputs)
  BY <1>1 DEF Rest, WritableActivations
<1>3. \A e \in WritableInputs : [Rest EXCEPT !.redo = Append(@, e)] \in WritableActivations
  BY <1>2, AppendProperties DEF WritableActivations
<1>4. \A b \in Seq(WritableBinds) : [Rest EXCEPT !.binds = b] \in WritableActivations
  BY <1>2 DEF WritableActivations
<1>5. Head(Top.outputs).kind \in {"basic", "process"}
        => EventOf(Head(Top.outputs)) \in WritableInputs \cup {None}
  BY <1>1 DEF EventOf, WritableOutputs, StateMachineOutputs, Binds, WritableInputs, WritableActivations
<1> QED BY <1>2, <1>3, <1>4, <1>5

\* A key event on its way in may go out as it is.
LEMMA InputWritable ==
  ASSUME NEW ev \in WritableInputs, ev \in KeyEvents
  PROVE  ev \in WritableEvents
BY EventsAssumption DEF WritableInputs, WritableEvents

\* What leaves the mapper was on its way.
LEMMA SentWritable ==
  ASSUME PendingWritable, MapperStep
  PROVE  sent' \in Seq(WritableEvents)
<1>1. CASE CheckQueuedEvents
  <2>1. \A e \in WritableWaiting : e.ev \in WritableEvents
    BY DEF WritableWaiting
  <2> QED BY <1>1, <2>1, EmittedTyped DEF CheckQueuedEvents, PendingWritable
<1>2. CASE ProcessKey
  <2>1. CASE key_opt # None /\ paused /\ ForwardRaw(key_opt)
    <3>1. key_opt \in KeyEvents => key_opt \in WritableEvents
      BY <2>1, InputWritable DEF PendingWritable
    <3>2. \A ev \in WritableEvents : <<ev>> \in Seq(WritableEvents)
      OBVIOUS
    <3> QED BY <2>1, <3>1, <3>2, EmptySeq DEF ForwardRaw
  <2> QED BY <1>2, <2>1, EmptySeq DEF ProcessKey, TakeTransition
<1>3. CASE sent' = <<>>
  BY <1>3, EmptySeq
<1> QED
  BY <1>1, <1>2, <1>3 DEF MapperStep, LoopTest, WaitKey, CheckTimer, QueueOutput, QueueWait, SwapLayer,
     DeferInput, TranslateBasic, OutputBind, RedoInput, TakeTransition, Return, Throw

LEMMA StepWritable ==
  ASSUME TypeOK, PendingWritable, ~LacksKey(installed), MapperStep
  PROVE  /\ queue' \in Seq(WritableInputs)
         /\ key_opt' \in WritableInputs \cup {None}
         /\ queued_events' \in Seq(WritableWaiting)
         /\ stack' \in Seq(WritableActivations)
<1> DEFINE Goal == /\ queue' \in Seq(WritableInputs)
                   /\ key_opt' \in WritableInputs \cup {None}
                   /\ queued_events' \in Seq(WritableWaiting)
                   /\ stack' \in Seq(WritableActivations)
<1> USE DEF channel, machine, control, thread
<1>a. IsBuild(installed)
  BY DEF TypeOK
<1>b. /\ queue \in Seq(WritableInputs) /\ key_opt \in WritableInputs \cup {None}
      /\ queued_events \in Seq(WritableWaiting) /\ stack \in Seq(WritableActivations)
  BY DEF PendingWritable
<1>1. CASE LoopTest \/ Throw
  BY <1>1, <1>b DEF LoopTest, Throw
<1>2. CASE WaitKey
  <2>1. queue # <<>> => /\ Head(queue) \in WritableInputs
                        /\ Tail(queue) \in Seq(WritableInputs)
    BY <1>b, HeadTailProperties
  <2> QED BY <1>2, <1>b, <2>1 DEF WaitKey
<1>3. CASE CheckTimer
  <2>1. CASE TimerExpired /\ ApplyTransition(CurState.timer, None, stack)
    <3>1. CurState.timer.outputs \in Seq(WritableOutputs)
      BY <1>3, <2>1, <1>a, LookupWritable DEF CheckTimer, TimerExpired
    <3>2. stack' \in Seq(WritableActivations)
      BY <2>1, <3>1, <1>b, ApplyWritable
    <3> QED BY <1>3, <1>b, <3>2 DEF CheckTimer
  <2> QED BY <1>3, <1>b, <2>1 DEF CheckTimer
<1>4. CASE ProcessKey
  <2>1. CASE key_opt # None /\ ~paused /\ TakeTransition(key_opt, stack)
    <3>1. stack' \in Seq(WritableActivations)
      BY <2>1, <1>a, <1>b, LookupWritable, ApplyWritable DEF TakeTransition
    <3> QED BY <1>4, <1>b, <3>1 DEF ProcessKey
  <2> QED BY <1>4, <1>b, <2>1 DEF ProcessKey, ForwardRaw
<1>5. CASE CheckQueuedEvents
  BY <1>5, <1>b, KeptTyped DEF CheckQueuedEvents
<1>6. CASE QueueOutput
  <2>1. /\ stack # <<>> /\ Top \in WritableActivations
        /\ Head(Top.binds) \in WritableBinds /\ Tail(Top.binds) \in Seq(WritableBinds)
    BY <1>6, <1>b, TopWritable DEF QueueOutput, InActivation
  <2>2. [Top EXCEPT !.binds = Tail(@)] \in WritableActivations
    BY <2>1 DEF WritableActivations
  <2>3. stack' \in Seq(WritableActivations)
    BY <1>6, <1>b, <2>1, <2>2, ReplaceWritable DEF QueueOutput
  <2>4. Head(Top.binds).ev \in WritableEvents /\ Top.delay \in Nat
    BY <1>6, <2>1 DEF QueueOutput, WritableBinds, WritableOutputs, WritableEvents, Binds,
                      WritableActivations
  <2>5. [left |-> Top.delay, ev |-> Head(Top.binds).ev] \in WritableWaiting
    BY <2>4 DEF WritableWaiting
  <2> QED BY <1>6, <1>b, <2>3, <2>5, AppendProperties DEF QueueOutput
<1>7. CASE QueueWait
  <2>1. /\ stack # <<>> /\ Top \in WritableActivations
        /\ Head(Top.binds) \in WritableBinds /\ Tail(Top.binds) \in Seq(WritableBinds)
    BY <1>7, <1>b, TopWritable DEF QueueWait, InActivation
  <2>2. Top.delay + Head(Top.binds).ms \in Nat
    BY <1>7, <2>1 DEF QueueWait, WritableBinds, Binds, WritableActivations
  <2>3. \A d \in Nat : [Top EXCEPT !.binds = Tail(@), !.delay = d] \in WritableActivations
    BY <2>1 DEF WritableActivations
  <2>4. Replace([Top EXCEPT !.binds = Tail(@), !.delay = Top.delay + Head(Top.binds).ms])
    BY <1>7 DEF QueueWait
  <2>5. stack' \in Seq(WritableActivations)
    BY <1>b, <2>1, <2>2, <2>3, <2>4, ReplaceWritable
  <2> QED BY <1>7, <1>b, <2>5 DEF QueueWait
<1>8. CASE SwapLayer
  <2>1. /\ stack # <<>> /\ Top \in WritableActivations
        /\ Tail(Top.binds) \in Seq(WritableBinds)
    BY <1>8, <1>b, TopWritable DEF SwapLayer, InActivation
  <2>2. [Top EXCEPT !.binds = Tail(@)] \in WritableActivations
    BY <2>1 DEF WritableActivations
  <2>3. stack' \in Seq(WritableActivations)
    BY <1>8, <1>b, <2>1, <2>2, ReplaceWritable DEF SwapLayer
  <2> QED BY <1>8, <1>b, <2>3 DEF SwapLayer
<1>9. CASE DeferInput
  <2>1. NextOutput /\ stack # <<>> /\ Head(Top.outputs).kind = "process"
    BY <1>9 DEF DeferInput, NextOutput, InActivation
  <2>2. EventOf(Head(Top.outputs)) \in WritableInputs \cup {None}
    BY <1>b, <2>1, RestWritable
  <2>3. stack' \in Seq(WritableActivations)
    <3>1. CASE EventOf(Head(Top.outputs)) = None /\ Replace(Rest)
      BY <1>b, <2>1, <3>1, RestWritable, ReplaceWritable
    <3>2. CASE /\ EventOf(Head(Top.outputs)) # None
               /\ Replace([Rest EXCEPT !.redo = Append(@, EventOf(Head(Top.outputs)))])
      <4>1. [Rest EXCEPT !.redo = Append(@, EventOf(Head(Top.outputs)))] \in WritableActivations
        BY <1>b, <2>1, <2>2, <3>2, RestWritable
      <4> QED BY <1>b, <2>1, <3>2, <4>1, ReplaceWritable
    <3> QED BY <1>9, <3>1, <3>2 DEF DeferInput
  <2> QED BY <1>9, <1>b, <2>3 DEF DeferInput
<1>10. CASE TranslateBasic
  <2> DEFINE ev == EventOf(Head(Top.outputs))
             binds == Layers[cur_layer_idx].basic[ev]
  <2>1. NextOutput /\ stack # <<>> /\ Head(Top.outputs).kind = "basic"
    BY <1>10 DEF TranslateBasic, NextOutput, InActivation
  <2>2. ev \in WritableInputs \cup {None}
    BY <1>b, <2>1, RestWritable
  <2>3. CASE /\ cur_layer_idx \in 1 .. Len(Layers)
             /\ ev \in DOMAIN Layers[cur_layer_idx].basic
             /\ Replace([Rest EXCEPT !.binds = binds]) /\ UNCHANGED queued_events
    <3>1. binds \in Seq(WritableBinds)
      BY <2>3, <1>a, BasicWritable
    <3> HIDE DEF binds
    <3>2. [Rest EXCEPT !.binds = binds] \in WritableActivations
      BY <1>b, <2>1, <3>1, RestWritable
    <3>3. stack' \in Seq(WritableActivations)
      BY <1>b, <2>1, <2>3, <3>2, ReplaceWritable
    <3> QED BY <1>10, <1>b, <2>3, <3>3 DEF TranslateBasic
  <2>4. CASE /\ Replace(Rest)
             /\ \/ UNCHANGED queued_events
                \/ /\ ev # None /\ ev \in KeyEvents
                   /\ queued_events' = Append(queued_events, [left |-> 0, ev |-> ev])
    <3>1. stack' \in Seq(WritableActivations)
      BY <1>b, <2>1, <2>4, RestWritable, ReplaceWritable
    <3>2. ev # None /\ ev \in KeyEvents => [left |-> 0, ev |-> ev] \in WritableWaiting
      <4>1. ev # None /\ ev \in KeyEvents => ev \in WritableEvents
        BY <2>2, InputWritable
      <4> HIDE DEF ev
      <4> QED BY <4>1 DEF WritableWaiting
    <3> HIDE DEF ev
    <3>3. queued_events' \in Seq(WritableWaiting)
      BY <1>b, <2>4, <3>2, AppendProperties
    <3> QED BY <1>10, <1>b, <3>1, <3>3 DEF TranslateBasic
  <2> HIDE DEF binds
  <2> QED BY <1>10, <2>3, <2>4 DEF TranslateBasic, binds
<1>11. CASE OutputBind
  <2>1. NextOutput /\ stack # <<>> /\ Head(Top.outputs) \in WritableOutputs
    BY <1>11, <1>b, TopWritable DEF OutputBind, NextOutput, InActivation
  <2>2. Head(Top.outputs) \in WritableBinds
    BY <1>11, <2>1 DEF OutputBind, WritableBinds, WritableOutputs, StateMachineOutputs
  <2>3. <<Head(Top.outputs)>> \in Seq(WritableBinds)
    BY <2>2
  <2>4. [Rest EXCEPT !.binds = <<Head(Top.outputs)>>] \in WritableActivations
    BY <1>b, <2>1, <2>3, RestWritable
  <2>5. stack' \in Seq(WritableActivations)
    BY <1>11, <1>b, <2>1, <2>4, ReplaceWritable DEF OutputBind
  <2> QED BY <1>11, <1>b, <2>5 DEF OutputBind
<1>12. CASE RedoInput
  <2> DEFINE top == [Top EXCEPT !.redo = Tail(@)]
             rest == <<top>> \o Tail(stack)
  <2>1. TakeTransition(Head(Top.redo), rest) /\ stack # <<>> /\ Top.redo # <<>>
    BY <1>12 DEF RedoInput, OutputsDone, InActivation
  <2>2. /\ Top \in WritableActivations /\ Tail(stack) \in Seq(WritableActivations)
        /\ Head(Top.redo) \in WritableInputs /\ Tail(Top.redo) \in Seq(WritableInputs)
    BY <1>b, <2>1, TopWritable
  <2>3. top \in WritableActivations
    BY <2>2 DEF WritableActivations
  <2> HIDE DEF top
  <2>4. rest \in Seq(WritableActivations)
    BY <2>2, <2>3, PushTyped
  <2> HIDE DEF rest
  <2>5. stack' \in Seq(WritableActivations)
    BY <2>1, <2>2, <2>4, <1>a, LookupWritable, ApplyWritable DEF TakeTransition
  <2> QED BY <1>12, <1>b, <2>5 DEF RedoInput
<1>13. CASE Return
  BY <1>13, <1>b, TopWritable DEF Return, OutputsDone, InActivation
<1> QED
  BY <1>1, <1>2, <1>3, <1>4, <1>5, <1>6, <1>7, <1>8, <1>9, <1>10, <1>11, <1>12, <1>13
  DEF MapperStep

-----------------------------------------------------------------------------
(* What the tables read they can write. *)

LEMMA OneToOneRoundTrip ==
  ASSUME NEW codes, NEW c \in DOMAIN OneToOne(codes).forward
  PROVE  OneToOne(codes).forward[c] \in DOMAIN OneToOne(codes).backward
BY DEF OneToOne

\* insert() keeps it so: it overwrites, but what it overwrote is still listed
\* the other way.
LEMMA InsertRoundTrip ==
  ASSUME NEW map, NEW key, NEW value,
         \A c \in DOMAIN map.forward : map.forward[c] \in DOMAIN map.backward,
         NEW c \in DOMAIN Insert(map, key, value).forward
  PROVE  Insert(map, key, value).forward[c] \in DOMAIN Insert(map, key, value).backward
BY DEF Insert, Overwrite

LEMMA TablesRoundTrip ==
  ASSUME NEW p \in DOMAIN int_to_keycode, NEW c \in DOMAIN int_to_keycode[p].forward
  PROVE  int_to_keycode[p].forward[c] \in DOMAIN int_to_keycode[p].backward
<1>1. CASE p = "linux"
  BY <1>1, OneToOneRoundTrip DEF int_to_keycode, LinuxKeys
<1>2. CASE p = "mac"
  BY <1>2, OneToOneRoundTrip DEF int_to_keycode, MacKeys
<1>3. CASE p = "win"
  BY <1>3, OneToOneRoundTrip, InsertRoundTrip DEF int_to_keycode, WinKeys
<1> QED BY <1>1, <1>2, <1>3 DEF int_to_keycode

\* So what the daemon makes of a key it knows can be written.
LEMMA KnownWritable ==
  ASSUME NEW event, platform \in Platforms, Known(event), ToMapper(event),
         queue \in Seq(WritableInputs)
  PROVE  queue' \in Seq(WritableInputs) /\ UNCHANGED <<machine, queued_events, control, thread>>
<1> DEFINE code == table.forward[event.code]
           ev   == KeyEvent(code, event.press)
<1>1. event.code \in DOMAIN int_to_keycode[platform].forward
  BY DEF Known, ContainsForward, table
<1>2. code \in DOMAIN table.backward
  BY <1>1, TablesRoundTrip, PathAssumption DEF table
<1>3. ev \in InputEvents
  <2>1. \A press \in BOOLEAN : KeyEvent(code, press) \in KeyEvents
    BY <1>1, PathAssumption DEF table
  <2> QED BY <2>1, KeyEventTypes, EventsAssumption
<1>4. ~Unsendable(ev)
  BY <1>2 DEF Unsendable, ContainsBackward, KeyEvent
<1>5. ev \in WritableInputs
  BY <1>3, <1>4 DEF WritableInputs
<1>6. SendKey(ev)
  BY DEF ToMapper
<1> HIDE DEF ev
<1> QED BY <1>5, <1>6, AppendProperties DEF SendKey

-----------------------------------------------------------------------------
(* The invariant. *)

\* An input is in the thread's hands in a turn only.
KeyInTurn == key_opt # None => pc \in {"lock", "key", "crashed"}

KillInv ==
  /\ platform \in Platforms /\ KeyInTurn
  /\ ~disturbed /\ ~LacksKey(installed) => PendingWritable /\ ended # "key"

\* The clock keeps what waits.
LEMMA WaitingWritable ==
  ASSUME queued_events \in Seq(WritableWaiting),
         queued_events' = [n \in 1 .. Len(queued_events) |->
                             [queued_events[n] EXCEPT !.left = Later(@)]]
  PROVE  queued_events' \in Seq(WritableWaiting)
<1>1. Len(queued_events) \in Nat
  BY LenProperties
<1>2. \A n \in 1 .. Len(queued_events) :
        [queued_events[n] EXCEPT !.left = Later(@)] \in WritableWaiting
  <2> TAKE n \in 1 .. Len(queued_events)
  <2>1. queued_events[n] \in WritableWaiting
    BY ElementOfSeq
  <2>2. Later(queued_events[n].left) \in Nat
    BY <2>1 DEF WritableWaiting, Later
  <2> QED BY <2>1, <2>2 DEF WritableWaiting
<1>3. queued_events' \in [1 .. Len(queued_events) -> WritableWaiting]
  BY <1>2
<1> QED BY <1>1, <1>3, SeqDef

LEMMA InitKill == PathInit => KillInv
<1> SUFFICES ASSUME PathInit PROVE KillInv
  OBVIOUS
<1>1. PendingWritable
  BY EmptySeq DEF PathInit, Init, PendingWritable
<1> QED BY <1>1, PathAssumption DEF PathInit, Init, KillInv, KeyInTurn

LEMMA NextKeyInTurn == KeyInTurn /\ ActivationsInTurn /\ [Next]_vars => KeyInTurn'
<1> SUFFICES ASSUME KeyInTurn, ActivationsInTurn, [Next]_vars PROVE KeyInTurn'
  OBVIOUS
<1> USE DEF KeyInTurn, channel, machine, control, thread
<1>1. CASE LoopTest \/ WaitKey \/ CheckTimer \/ ProcessKey \/ CheckQueuedEvents \/ Throw
  BY <1>1 DEF LoopTest, WaitKey, CheckTimer, ProcessKey, CheckQueuedEvents, Throw
<1>2. CASE \/ QueueOutput \/ QueueWait \/ SwapLayer \/ DeferInput \/ TranslateBasic
           \/ OutputBind \/ RedoInput \/ Return
  BY <1>2 DEF QueueOutput, QueueWait, SwapLayer, DeferInput, TranslateBasic, OutputBind,
              RedoInput, Return, NextOutput, OutputsDone, InActivation
<1>3. ASSUME NEW p \in Profiles, SetProfile(p) PROVE KeyInTurn'
  BY <1>3 DEF SetProfile
<1>4. ASSUME NEW l \in 1 .. Len(Layers), SetLayer(l) PROVE KeyInTurn'
  BY <1>4 DEF SetLayer
<1>5. CASE Pause \/ Resume \/ Stop \/ Close \/ Tick
  BY <1>5 DEF Pause, Resume, Stop, Close, Tick
<1>6. ASSUME NEW ev \in InputEvents, SendKey(ev) PROVE KeyInTurn'
  BY <1>6 DEF SendKey
<1>7. CASE UNCHANGED vars
  BY <1>7 DEF vars
<1> QED
  BY <1>1, <1>2, <1>3, <1>4, <1>5, <1>6, <1>7 DEF Next, MapperStep, MainStep

\* A profile that is loaded while nothing is on its way finds nothing that it
\* could not write.
LEMMA QuietWritable ==
  ASSUME Quiet, KeyInTurn, ActivationsInTurn
  PROVE  PendingWritable
<1>1. queue = <<>> /\ queued_events = <<>> /\ stack = <<>> /\ key_opt = None
  BY DEF Quiet, KeyInTurn, ActivationsInTurn
<1> QED BY <1>1, EmptySeq DEF PendingWritable

\* A mapper's turn kills the process by a key only if it sends one that the
\* table cannot write.
LEMMA TurnKills ==
  ASSUME MapperTurn, sent' \in Seq(WritableEvents), ended # "key"
  PROVE  ended' # "key"
<1>1. ~Throws(sent')
  BY ElementOfSeq DEF Throws, WritableEvents
<1> QED BY <1>1 DEF MapperTurn, SendOutputs, WriteEach, WriteToNobody, SendInput, Running

LEMMA NextKill ==
  ASSUME KillInv, TypeOK, ActivationsInTurn, PathNext
  PROVE  KillInv'
<1>1. [Next]_vars /\ platform' = platform
  BY PathStep DEF KillInv
<1>2. platform' \in Platforms /\ KeyInTurn'
  BY <1>1, NextKeyInTurn DEF KillInv
<1>3. /\ WritableInputs' = WritableInputs /\ WritableWaiting' = WritableWaiting
      /\ WritableActivations' = WritableActivations
      /\ installed' = installed => LacksKey(installed)' = LacksKey(installed)
  BY <1>1, WritableUnchanged
<1>4. ASSUME ~disturbed', ~LacksKey(installed)'
      PROVE  PendingWritable' /\ ended' # "key"
  <2> DEFINE Goal == /\ queue' \in Seq(WritableInputs)
                     /\ key_opt' \in WritableInputs \cup {None}
                     /\ queued_events' \in Seq(WritableWaiting)
                     /\ stack' \in Seq(WritableActivations)
  <2> SUFFICES Goal /\ ended' # "key"
    BY <1>3 DEF PendingWritable
  <2>a. ~disturbed /\ installed' = installed
          => /\ PendingWritable /\ ended # "key"
             /\ (UNCHANGED <<queue, key_opt, queued_events, stack>> => Goal)
    BY <1>3, <1>4 DEF KillInv, PendingWritable
  <2>1. CASE User \/ StartClient \/ DanglingFocusChange
    <3>1. /\ UNCHANGED <<installed, queue, queued_events, key_opt, stack, disturbed>>
          /\ ended' \in {ended, None, "reference"}
      BY <2>1 DEF User, TypeKey, StartClient, DanglingFocusChange, ToOtherApplication, vars,
         channel, machine, thread
    <3>2. ended # "key" /\ Goal
      BY <1>4, <3>1, <2>a
    <3> QED BY <3>1, <3>2, PathAssumption
  <2>2. CASE ReadKey
    <3> DEFINE event == Head(source)
    <3>1. ended' = ended /\ ~disturbed /\ platform \in Platforms
      <4>1. ended' = ended
        BY <2>2 DEF ReadKey
      <4>2. disturbed => disturbed'
        BY <2>2 DEF ReadKey, LinuxRead, HookProc, HandleInputEvent
      <4> QED BY <1>4, <4>1, <4>2 DEF KillInv
    <3>2. CASE Known(event) /\ ToMapper(event)
      <4>1. UNCHANGED installed
        BY <3>2 DEF ToMapper, SendKey, machine
      <4>2. PendingWritable /\ ended # "key"
        BY <3>1, <4>1, <2>a
      <4>3. queue' \in Seq(WritableInputs) /\ UNCHANGED <<queued_events, thread>>
        BY <3>1, <3>2, <4>2, KnownWritable DEF PendingWritable
      <4> QED BY <3>1, <4>2, <4>3 DEF PendingWritable, thread
    <3>3. CASE UNCHANGED vars
      BY <3>1, <3>3, <2>a DEF vars, channel, machine, thread
    <3> QED
      BY <2>2, <3>2, <3>3 DEF ReadKey, LinuxRead, HookProc, HandleInputEvent, Known, Unknown
  <2>3. CASE MapperTurn
    <3>1. ~disturbed /\ MapperStep
      BY <1>4, <2>3 DEF MapperTurn
    <3>2. installed' = installed
      BY <3>1 DEF MapperStep, LoopTest, WaitKey, CheckTimer, ProcessKey, CheckQueuedEvents,
         QueueOutput, QueueWait, SwapLayer, SetLayerInner, DeferInput, TranslateBasic,
         OutputBind, RedoInput, TakeTransition, ForwardRaw, ApplyTransition, Return, Throw,
         machine
    <3>3. PendingWritable /\ ended # "key" /\ ~LacksKey(installed)
      BY <1>3, <1>4, <3>1, <3>2, <2>a
    <3>4. Goal
      BY <3>1, <3>3, StepWritable
    <3>5. ended' # "key"
      BY <2>3, <3>1, <3>3, SentWritable, TurnKills
    <3> QED BY <3>4, <3>5
  <2>4. CASE Wait
    <3>1. ~disturbed /\ ended' = ended /\ UNCHANGED <<installed, queue, key_opt, stack>>
      BY <1>4, <2>4 DEF Wait, path, Tick, channel, thread
    <3>2. PendingWritable /\ ended # "key"
      BY <3>1, <2>a
    <3>3. queued_events' \in Seq(WritableWaiting)
      BY <2>4, <3>2, WaitingWritable DEF Wait, Tick, PendingWritable
    <3> QED BY <3>1, <3>2, <3>3 DEF PendingWritable
  <2>5. CASE FocusChange
    <3>1. /\ ~disturbed /\ ended' # "key" /\ SendKey(Focus)
          /\ UNCHANGED <<installed, queued_events, key_opt, stack>>
      <4>1. ended' = None /\ disturbed' = disturbed /\ SendKey(Focus)
        BY <2>5 DEF FocusChange, ToOtherApplication
      <4>2. UNCHANGED <<installed, queued_events, key_opt, stack>>
        BY <4>1 DEF SendKey, machine, thread
      <4> QED BY <1>4, <4>1, <4>2, PathAssumption
    <3>2. Focus \in WritableInputs
      BY PathAssumption DEF WritableInputs, Unsendable
    <3>3. PendingWritable
      BY <3>1, <2>a
    <3>4. queue' \in Seq(WritableInputs)
      BY <3>1, <3>2, <3>3, AppendProperties DEF SendKey, PendingWritable
    <3> QED BY <3>1, <3>3, <3>4 DEF PendingWritable
  <2>6. CASE MainCall
    <3>1. ended' # "key"
      BY <2>6, PathAssumption DEF MainCall, Running
    <3>3. ~disturbed /\ (Quiet \/ installed' = installed)
      <4>1. disturbed' = (disturbed \/ ~(\/ held = {} /\ Quiet
                                         \/ {installed, installed'} = {Build[Plain]}))
        BY <2>6 DEF MainCall
      <4>2. {installed, installed'} = {Build[Plain]} => installed' = installed
        OBVIOUS
      <4> QED BY <1>4, <4>1, <4>2, Zenon
    <3>4. PendingWritable
      BY <3>3, <2>a, QuietWritable DEF KillInv
    <3>5. <<>> \in Seq(WritableWaiting)
      BY EmptySeq
    <3>2. UNCHANGED <<queue, key_opt, stack>> /\ queued_events' \in {queued_events, <<>>}
      BY <2>6 DEF MainCall, SetProfile, Pause, Resume, channel, thread
    <3> QED BY <3>1, <3>2, <3>4, <3>5 DEF PendingWritable
  <2> QED
    BY <2>1, <2>2, <2>3, <2>4, <2>5, <2>6 DEF PathNext
<1> QED BY <1>2, <1>4 DEF KillInv

\* On every platform, under every keyboard and every profile: the process dies
\* of a key its table cannot write only under a profile that names such a key
\* (linux/src/daemon.cpp:148, win/src/daemon.cpp:85, mac/src/daemon.cpp:163).
\* What the table reads it can write, and what waits in the thread while a
\* turn is interrupted came from the table or from the profile.
THEOREM KeysKillByProfileOnly == PathSpec => []OnlyAbsentKeysKill
<1>1. KillInv => OnlyAbsentKeysKill
  BY DEF KillInv, OnlyAbsentKeysKill
<1>2. KillInv /\ TableInv /\ [PathNext]_pathVars => KillInv'
  <2> SUFFICES ASSUME KillInv, TableInv, [PathNext]_pathVars PROVE KillInv'
    OBVIOUS
  <2>1. CASE PathNext
    BY <2>1, NextKill DEF TableInv
  <2>2. CASE UNCHANGED pathVars
    <3>1. /\ platform' = platform /\ installed' = installed /\ key_opt' = key_opt
          /\ pc' = pc /\ disturbed' = disturbed /\ ended' = ended
          /\ UNCHANGED <<queue, queued_events, stack>>
      BY <2>2 DEF pathVars, path, vars, channel, machine, thread
    <3> QED BY <3>1, WritableUnchanged DEF KillInv, KeyInTurn, PendingWritable
  <2> QED BY <2>1, <2>2
<1>3. PathSpec => []TableInv
  BY PathIsMapper, TablesAlways, PTL
<1>4. PathSpec => PathInit /\ [][PathNext]_pathVars
  BY PTL DEF PathSpec
<1> QED BY InitKill, <1>1, <1>2, <1>3, <1>4, PTL

\* Between a keyboard and a desktop the mapper keeps what it keeps alone: its
\* types, its tables under a well-formed profile, its quiet while paused.
THEOREM PathKeepsTables ==
  PathSpec => [](TypeOK /\ PausedQuiescent /\ NoOversleep /\ IndexInRange /\ NoCrash)
BY PathIsMapper, MapperTypes, PausedMapperIsQuiet, NeverOversleeps, IndicesFitTables,
   WellFormedNeverCrashes, PTL

-----------------------------------------------------------------------------
(* Lists joined to one: FlattenSeq.                                         *)

\* Induction up to m, by the least counterexample.
LEMMA UpTo ==
  ASSUME NEW S, NEW m \in Nat, 0 \in S, \A n \in 1 .. m : n - 1 \in S => n \in S
  PROVE  \A n \in 0 .. m : n \in S
<1> DEFINE T == {n \in 0 .. m : n \notin S}
           R == {p \in Nat \X Nat : p[1] < p[2]}
<1> SUFFICES ASSUME T # {} PROVE FALSE
  OBVIOUS
<1>1. \E x \in T : \A y \in T : <<y, x>> \notin R
  <2>1. IsWellFoundedOn(R, Nat)
    BY NatLessThanWellFounded DEF OpToRel
  <2>2. T \in SUBSET Nat
    OBVIOUS
  <2> QED BY <2>1, <2>2, WFMin
<1>2. PICK x \in T : \A y \in T : <<y, x>> \notin R
  BY <1>1
<1>3. x \in 1 .. m /\ x - 1 \in 0 .. m /\ x \in Nat /\ x - 1 \in Nat
  OBVIOUS
<1>4. <<x - 1, x>> \in R
  BY <1>3
<1> HIDE DEF R
<1>5. x - 1 \in S
  BY <1>2, <1>3, <1>4
<1> QED BY <1>3, <1>5

\* A name for \o that keeps the provers from taking it apart.
Cat(a, b) == a \o b

LEMMA CatAssociative ==
  ASSUME NEW S, NEW a \in Seq(S), NEW b \in Seq(S), NEW c \in Seq(S)
  PROVE  Cat(Cat(a, b), c) = Cat(a, Cat(b, c))
BY ConcatAssociative DEF Cat

LEMMA CatTyped ==
  ASSUME NEW S, NEW a \in Seq(S), NEW b \in Seq(S)
  PROVE  Cat(a, b) \in Seq(S) /\ Cat(a, <<>>) = a /\ Cat(<<>>, a) = a
BY ConcatProperties, ConcatEmptySeq DEF Cat

\* The parts up to the i-th, from those up to the one before.
Joined(f, parts, i) == IF i = 1 THEN parts[i] ELSE f[i - 1] \o parts[i]

LEMMA JoiningExists ==
  ASSUME NEW parts, NEW n \in Nat
  PROVE  \E f : f = [i \in 1 .. n |-> Joined(f, parts, i)]
<1> DEFINE Does(f, m) == f = [i \in 1 .. m |-> Joined(f, parts, i)]
           S == {m \in 0 .. n : \E f : Does(f, m)}
<1>1. 0 \in S
  <2> DEFINE f == [i \in 1 .. 0 |-> <<>>]
  <2>1. 1 .. 0 = {}
    OBVIOUS
  <2>2. f = [i \in 1 .. 0 |-> Joined(f, parts, i)]
    BY <2>1
  <2>3. 0 \in 0 .. n
    OBVIOUS
  <2> HIDE DEF f
  <2> QED BY <2>2, <2>3
<1>2. ASSUME NEW m \in 1 .. n, m - 1 \in S
      PROVE  m \in S
  <2>1. PICK f : Does(f, m - 1)
    BY <1>2
  <2> DEFINE g == [i \in 1 .. m |-> IF i < m THEN f[i] ELSE Joined(f, parts, m)]
  <2>2. \A i \in 1 .. m - 1 : g[i] = f[i] /\ f[i] = Joined(f, parts, i)
    BY <2>1
  <2>3. ASSUME NEW i \in 1 .. m
        PROVE  g[i] = Joined(g, parts, i)
    <3>1. g[i] = Joined(f, parts, i)
      <4>1. CASE i = m
        BY <4>1
      <4>2. CASE i # m
        <5>1. i \in 1 .. m - 1
          BY <4>2
        <5> HIDE DEF g
        <5> QED BY <2>2, <5>1
      <4> QED BY <4>1, <4>2
    <3>2. i # 1 => g[i - 1] = f[i - 1]
      OBVIOUS
    <3> HIDE DEF g
    <3> QED BY <3>1, <3>2 DEF Joined
  <2>4. g = [i \in 1 .. m |-> g[i]]
    OBVIOUS
  <2> HIDE DEF g
  <2>5. g = [i \in 1 .. m |-> Joined(g, parts, i)]
    BY <2>3, <2>4
  <2> QED BY <2>5
<1>3. n \in S
  <2> HIDE DEF S
  <2>1. \A m \in 0 .. n : m \in S
    BY <1>1, <1>2, UpTo
  <2> QED BY <2>1
<1> QED BY <1>3

Joining(parts) == CHOOSE f : f = [i \in 1 .. Len(parts) |-> Joined(f, parts, i)]

LEMMA JoiningIs ==
  ASSUME NEW parts, Len(parts) \in Nat
  PROVE  /\ \A i \in 1 .. Len(parts) : Joining(parts)[i] = Joined(Joining(parts), parts, i)
         /\ FlattenSeq(parts) = IF Len(parts) = 0 THEN parts ELSE Joining(parts)[Len(parts)]
<1>1. Joining(parts) = [i \in 1 .. Len(parts) |-> Joined(Joining(parts), parts, i)]
  BY JoiningExists, Zenon DEF Joining
<1>2. \A i \in 1 .. Len(parts) : Joining(parts)[i] = Joined(Joining(parts), parts, i)
  BY <1>1
<1>3. FlattenSeq(parts) = IF Len(parts) = 0 THEN parts ELSE Joining(parts)[Len(parts)]
  BY Zenon DEF FlattenSeq, Joining, Joined
<1> QED BY <1>2, <1>3

LEMMA JoiningTyped ==
  ASSUME NEW S, NEW parts \in Seq(Seq(S))
  PROVE  \A i \in 1 .. Len(parts) : Joining(parts)[i] \in Seq(S)
<1>1. Len(parts) \in Nat /\ \A i \in 1 .. Len(parts) : parts[i] \in Seq(S)
  BY LenProperties, ElementOfSeq
<1> DEFINE F == Joining(parts)
           n == Len(parts)
           T == {i \in 0 .. n : i # 0 => F[i] \in Seq(S)}
<1>2. \A i \in 1 .. n : F[i] = Joined(F, parts, i)
  BY <1>1, JoiningIs
<1> HIDE DEF F, n
<1>3. n \in Nat /\ \A i \in 1 .. n : parts[i] \in Seq(S)
  BY <1>1 DEF n
<1>4. ASSUME NEW i \in 1 .. n, i - 1 \in T
      PROVE  i \in T
  <2>1. F[i] \in Seq(S)
    <3>1. CASE i = 1
      BY <1>2, <1>3, <3>1 DEF Joined
    <3>2. CASE i # 1
      <4>1. F[i - 1] \in Seq(S)
        BY <1>4, <3>2
      <4> QED BY <1>2, <1>3, <3>2, <4>1, ConcatProperties DEF Joined
    <3> QED BY <3>1, <3>2
  <2> QED BY <2>1
<1>5. \A i \in 0 .. n : i \in T
  <2>1. 0 \in T
    BY <1>3
  <2> HIDE DEF T
  <2> QED BY <1>3, <1>4, <2>1, UpTo
<1> QED BY <1>3, <1>5 DEF F, n

LEMMA FlatTyped ==
  ASSUME NEW S, NEW parts \in Seq(Seq(S))
  PROVE  FlattenSeq(parts) \in Seq(S)
<1>1. Len(parts) \in Nat
  BY LenProperties
<1>2. CASE Len(parts) = 0
  <2>1. parts = <<>>
    BY <1>2, EmptySeq
  <2> QED BY <1>1, <1>2, <2>1, JoiningIs, EmptySeq
<1>3. CASE Len(parts) # 0
  <2>1. FlattenSeq(parts) = Joining(parts)[Len(parts)]
    BY <1>1, <1>3, JoiningIs
  <2>2. Len(parts) \in 1 .. Len(parts)
    BY <1>1, <1>3
  <2> QED BY <2>1, <2>2, JoiningTyped
<1> QED BY <1>2, <1>3

\* One part is the whole.
LEMMA FlatOne ==
  ASSUME NEW part
  PROVE  FlattenSeq(<<part>>) = part
<1>1. Len(<<part>>) = 1
  OBVIOUS
<1>2. FlattenSeq(<<part>>) = Joining(<<part>>)[1] /\ Joining(<<part>>)[1] = <<part>>[1]
  BY <1>1, JoiningIs DEF Joined
<1> QED BY <1>2

LEMMA FlatNone == FlattenSeq(<<>>) = <<>>
<1>1. Len(<<>>) = 0
  OBVIOUS
<1> QED BY <1>1, JoiningIs

\* A part is added at the end.
LEMMA FlatAppend ==
  ASSUME NEW S, NEW parts \in Seq(Seq(S)), NEW part \in Seq(S)
  PROVE  FlattenSeq(Append(parts, part)) = FlattenSeq(parts) \o part
<1> DEFINE more == Append(parts, part)
           n    == Len(parts)
           F    == Joining(parts)
           G    == Joining(more)
           T    == {i \in 0 .. n : i # 0 => G[i] = F[i]}
<1>1. /\ n \in Nat /\ Len(more) = n + 1 /\ more[n + 1] = part
      /\ \A i \in 1 .. n : more[i] = parts[i]
  BY AppendProperties, LenProperties
<1>2. /\ \A i \in 1 .. n : F[i] = Joined(F, parts, i)
      /\ FlattenSeq(parts) = IF n = 0 THEN parts ELSE F[n]
  BY <1>1, JoiningIs
<1>3. /\ \A i \in 1 .. n + 1 : G[i] = Joined(G, more, i)
      /\ FlattenSeq(more) = G[n + 1]
  <2> HIDE DEF n, more
  <2>1. n + 1 \in Nat /\ n + 1 # 0
    BY <1>1
  <2> QED BY <1>1, <2>1, JoiningIs
<1> HIDE DEF F, G, n, more
<1>4. ASSUME NEW i \in 1 .. n, i - 1 \in T
      PROVE  i \in T
  <2>1. G[i] = Joined(G, more, i) /\ F[i] = Joined(F, parts, i) /\ more[i] = parts[i]
    BY <1>1, <1>2, <1>3
  <2>2. i # 1 => G[i - 1] = F[i - 1]
    BY <1>4
  <2> QED BY <2>1, <2>2 DEF Joined
<1>5. \A i \in 0 .. n : i \in T
  <2>1. 0 \in T
    BY <1>1
  <2> HIDE DEF T
  <2> QED BY <1>1, <1>4, <2>1, UpTo
<1>6. CASE n = 0
  <2>1. parts = <<>>
    BY <1>6, EmptySeq DEF n
  <2>2. G[n + 1] = part
    BY <1>1, <1>3, <1>6 DEF Joined
  <2>3. FlattenSeq(parts) \o part = part
    BY <1>2, <1>6, <2>1, ConcatEmptySeq
  <2> QED BY <1>3, <2>2, <2>3 DEF more
<1>7. CASE n # 0
  <2>1. G[n] = F[n] /\ G[n + 1] = Joined(G, more, n + 1) /\ n + 1 # 1 /\ (n + 1) - 1 = n
    <3>1. n \in Nat /\ n \in 0 .. n /\ n + 1 # 1 /\ (n + 1) - 1 = n
      BY <1>1, <1>7
    <3>2. n \in T
      BY <1>5, <3>1
    <3>3. G[n] = F[n]
      BY <1>7, <3>2
    <3> QED BY <1>3, <3>1, <3>3
  <2> QED BY <1>1, <1>2, <1>3, <1>7, <2>1 DEF Joined, more
<1> QED BY <1>6, <1>7

\* A part is taken from the front.
LEMMA FlatHead ==
  ASSUME NEW S, NEW parts \in Seq(Seq(S)), parts # <<>>
  PROVE  FlattenSeq(parts) = Head(parts) \o FlattenSeq(Tail(parts))
<1> DEFINE rest == Tail(parts)
           n    == Len(rest)
           F    == Joining(parts)
           G    == Joining(rest)
           H    == [i \in 1 .. n |-> parts[1] \o G[i]]
           T    == {i \in 0 .. n : i # 0 => F[i + 1] = H[i]}
<1>1. /\ n \in Nat /\ Len(parts) = n + 1 /\ rest \in Seq(Seq(S))
      /\ \A i \in 1 .. n : rest[i] = parts[i + 1]
  BY HeadTailProperties, LenProperties
<1>2. /\ \A i \in 1 .. n : G[i] = Joined(G, rest, i)
      /\ FlattenSeq(rest) = IF n = 0 THEN rest ELSE G[n]
  BY <1>1, JoiningIs
<1>3. /\ \A i \in 1 .. n + 1 : F[i] = Joined(F, parts, i)
      /\ FlattenSeq(parts) = F[n + 1]
  <2> HIDE DEF n, rest
  <2>1. n + 1 \in Nat /\ n + 1 # 0
    BY <1>1
  <2> QED BY <1>1, <2>1, JoiningIs
<1>4. /\ Head(parts) = parts[1] /\ parts[1] \in Seq(S)
      /\ \A i \in 1 .. n : G[i] \in Seq(S) /\ rest[i] \in Seq(S)
  <2>1. Head(parts) = parts[1] /\ parts[1] \in Seq(S)
    BY HeadTailProperties
  <2>2. \A i \in 1 .. n : G[i] \in Seq(S) /\ rest[i] \in Seq(S)
    BY <1>1, JoiningTyped, ElementOfSeq
  <2> QED BY <2>1, <2>2
<1>10. \A i \in 1 .. n : H[i] = parts[1] \o G[i]
  OBVIOUS
<1> HIDE DEF F, G, n, rest, H
<1>5. F[1] = parts[1]
  BY <1>1, <1>3 DEF Joined
<1>6. ASSUME NEW i \in 1 .. n, i - 1 \in T
      PROVE  i \in T
  <2>1. F[i + 1] = F[i] \o parts[i + 1] /\ G[i] = Joined(G, rest, i) /\ rest[i] = parts[i + 1]
    <3>1. i + 1 \in 1 .. n + 1 /\ i + 1 # 1 /\ (i + 1) - 1 = i
      BY <1>1
    <3>2. F[i + 1] = Joined(F, parts, i + 1)
      BY <1>3, <3>1
    <3> QED BY <1>1, <1>2, <3>1, <3>2 DEF Joined
  <2>2. CASE i = 1
    <3>1. G[i] = rest[i]
      BY <2>1, <2>2 DEF Joined
    <3>2. F[i + 1] = H[i]
      BY <1>5, <1>10, <2>1, <2>2, <3>1
    <3> QED BY <3>2
  <2>3. CASE i # 1
    <3>1. i - 1 \in 1 .. n /\ (i - 1) + 1 = i
      BY <1>1, <2>3
    <3>2. F[i] = H[i - 1]
      BY <1>6, <3>1
    <3>3. F[i] = parts[1] \o G[i - 1]
      BY <1>10, <3>1, <3>2
    <3>4. G[i - 1] \in Seq(S) /\ rest[i] \in Seq(S) /\ parts[1] \in Seq(S)
      BY <1>4, <3>1
    <3>5. (parts[1] \o G[i - 1]) \o rest[i] = parts[1] \o (G[i - 1] \o rest[i])
      <4>1. Cat(Cat(parts[1], G[i - 1]), rest[i]) = Cat(parts[1], Cat(G[i - 1], rest[i]))
        BY <3>4, CatAssociative
      <4> QED BY <4>1, Zenon DEF Cat
    <3>6. G[i] = G[i - 1] \o rest[i]
      BY <2>1, <2>3 DEF Joined
    <3>7. F[i + 1] = H[i]
      BY <1>10, <2>1, <3>3, <3>5, <3>6
    <3> QED BY <3>7
  <2> QED BY <2>2, <2>3
<1>7. \A i \in 0 .. n : i \in T
  <2>1. 0 \in T
    BY <1>1
  <2> HIDE DEF T
  <2> QED BY <1>1, <1>6, <2>1, UpTo
<1>8. CASE n = 0
  <2>1. rest = <<>>
    BY <1>1, <1>8, EmptySeq DEF n
  <2>2. parts[1] \o <<>> = parts[1]
    BY <1>4, ConcatEmptySeq
  <2>3. FlattenSeq(rest) = <<>>
    BY <2>1, FlatNone
  <2>4. FlattenSeq(parts) = parts[1]
    BY <1>3, <1>5, <1>8
  <2> QED BY <1>4, <2>2, <2>3, <2>4 DEF rest
<1>9. CASE n # 0
  <2>1. n \in 1 .. n /\ n \in T
    BY <1>1, <1>7, <1>9
  <2>2. F[n + 1] = H[n]
    BY <1>9, <2>1
  <2>3. FlattenSeq(parts) = parts[1] \o FlattenSeq(rest)
    BY <1>2, <1>3, <1>9, <1>10, <2>1, <2>2
  <2> QED BY <1>4, <2>3 DEF rest
<1> QED BY <1>8, <1>9

-----------------------------------------------------------------------------
(* Lists of strokes. *)

\* Nothing joined to nothing.
LEMMA FlatNothing ==
  ASSUME NEW parts, Len(parts) \in Nat, \A i \in 1 .. Len(parts) : parts[i] = <<>>,
         Len(parts) = 0 => parts = <<>>
  PROVE  FlattenSeq(parts) = <<>>
<1> DEFINE n == Len(parts)
           F == Joining(parts)
           T == {i \in 0 .. n : i # 0 => F[i] = <<>>}
<1>1. /\ \A i \in 1 .. n : F[i] = Joined(F, parts, i)
      /\ FlattenSeq(parts) = IF n = 0 THEN parts ELSE F[n]
  BY JoiningIs
<1>2. n \in Nat /\ \A i \in 1 .. n : parts[i] = <<>>
  OBVIOUS
<1> HIDE DEF F, n
<1>3. <<>> \o <<>> = <<>>
  OBVIOUS
<1>4. ASSUME NEW i \in 1 .. n, i - 1 \in T
      PROVE  i \in T
  <2>1. i # 1 => F[i - 1] = <<>>
    BY <1>2, <1>4
  <2>2. F[i] = <<>>
    BY <1>1, <1>2, <1>3, <2>1 DEF Joined
  <2> QED BY <2>2
<1>5. \A i \in 0 .. n : i \in T
  <2>1. 0 \in T
    BY <1>2
  <2> HIDE DEF T
  <2> QED BY <1>2, <1>4, <2>1, UpTo
<1>6. n # 0 => F[n] = <<>>
  BY <1>2, <1>5
<1>7. n = 0 => parts = <<>>
  BY DEF n
<1> QED BY <1>1, <1>6, <1>7

Parts(k, q) == [n \in 1 .. Len(q) |-> k[q[n]]]

\* k takes the members of D to members of T.
Maps(k, D, T) == \A d \in D : k[d] \in T

\* What k makes of each element, joined.
Whole(k, q) == FlattenSeq(Parts(k, q))

LEMMA PartsTyped ==
  ASSUME NEW D, NEW T, NEW k, Maps(k, D, T), NEW q \in Seq(D)
  PROVE  Parts(k, q) \in Seq(T) /\ Len(Parts(k, q)) = Len(q)
<1>1. Len(q) \in Nat /\ \A n \in 1 .. Len(q) : q[n] \in D
  BY LenProperties, ElementOfSeq
<1>2. \A n \in 1 .. Len(q) : k[q[n]] \in T
  BY <1>1 DEF Maps
<1> QED BY <1>1, <1>2 DEF Parts

LEMMA PartsAppend ==
  ASSUME NEW D, NEW T, NEW k, Maps(k, D, T), NEW q \in Seq(D), NEW e \in D
  PROVE  Parts(k, Append(q, e)) = Append(Parts(k, q), k[e])
<1> DEFINE r == Append(q, e)
           a == Parts(k, r)
           p == Parts(k, q)
           b == Append(p, k[e])
<1>1. /\ r \in Seq(D) /\ Len(q) \in Nat /\ Len(r) = Len(q) + 1 /\ r[Len(q) + 1] = e
      /\ \A n \in 1 .. Len(q) : r[n] = q[n]
  BY AppendProperties, LenProperties
<1>2. /\ \A n \in 1 .. Len(r) : a[n] = k[r[n]]
      /\ \A n \in 1 .. Len(q) : p[n] = k[q[n]]
  BY DEF Parts
<1> HIDE DEF r, a, p
<1>3. p \in Seq(T) /\ Len(p) = Len(q) /\ a \in Seq(T) /\ Len(a) = Len(q) + 1 /\ k[e] \in T
  <2>4. k[e] \in T
    BY DEF Maps
  <2>1. Parts(k, q) \in Seq(T) /\ Len(Parts(k, q)) = Len(q)
    BY PartsTyped
  <2>2. Parts(k, r) \in Seq(T) /\ Len(Parts(k, r)) = Len(r)
    BY <1>1, PartsTyped
  <2>3. Len(a) = Len(q) + 1
    BY <1>1, <2>2 DEF a
  <2> QED BY <2>1, <2>2, <2>3, <2>4 DEF a, p
<1>4. /\ b \in Seq(T) /\ Len(b) = Len(q) + 1 /\ b[Len(q) + 1] = k[e]
      /\ \A n \in 1 .. Len(q) : b[n] = p[n]
  BY <1>3, AppendProperties
<1> HIDE DEF b
<1>5. \A n \in 1 .. Len(q) + 1 : n \in 1 .. Len(q) \/ n = Len(q) + 1
  BY <1>1
<1>6. \A n \in 1 .. Len(q) : a[n] = b[n]
  <2> TAKE n \in 1 .. Len(q)
  <2>1. n \in 1 .. Len(r)
    BY <1>1
  <2>2. a[n] = k[q[n]]
    BY <1>1, <1>2, <2>1
  <2> QED BY <1>2, <1>4, <2>2
<1>7. a[Len(q) + 1] = b[Len(q) + 1]
  <2>1. Len(q) + 1 \in 1 .. Len(r)
    BY <1>1
  <2> QED BY <1>1, <1>2, <1>4, <2>1
<1>8. a = b
  <2>1. \A n \in 1 .. Len(a) : a[n] = b[n]
    BY <1>3, <1>5, <1>6, <1>7
  <2> QED BY <1>3, <1>4, <2>1, SeqEqual
<1> QED BY <1>8 DEF a, b, r, p

LEMMA PartsTail ==
  ASSUME NEW D, NEW T, NEW k, Maps(k, D, T), NEW q \in Seq(D), q # <<>>
  PROVE  /\ Parts(k, q) # <<>>
         /\ Head(Parts(k, q)) = k[Head(q)]
         /\ Tail(Parts(k, q)) = Parts(k, Tail(q))
<1> DEFINE r == Tail(q)
           a == Parts(k, q)
           b == Tail(a)
           c == Parts(k, r)
           m == Len(q) - 1
<1>1. /\ r \in Seq(D) /\ m \in Nat /\ Len(q) = m + 1 /\ Len(r) = m
      /\ Head(q) = q[1] /\ \A n \in 1 .. m : r[n] = q[n + 1]
  BY HeadTailProperties, LenProperties, EmptySeq
<1>2. /\ \A n \in 1 .. Len(q) : a[n] = k[q[n]]
      /\ \A n \in 1 .. Len(r) : c[n] = k[r[n]]
  BY DEF Parts
<1> HIDE DEF r, a, c, m
<1>3. /\ a \in Seq(T) /\ Len(a) = m + 1 /\ c \in Seq(T) /\ Len(c) = m
  <2>1. Parts(k, q) \in Seq(T) /\ Len(Parts(k, q)) = Len(q)
    BY PartsTyped
  <2>2. Parts(k, r) \in Seq(T) /\ Len(Parts(k, r)) = Len(r)
    BY <1>1, PartsTyped
  <2>3. Len(a) = m + 1 /\ Len(c) = m
    BY <1>1, <2>1, <2>2 DEF a, c
  <2> QED BY <2>1, <2>2, <2>3 DEF a, c
<1>4. a # <<>>
  BY <1>1, <1>3
<1>5. b \in Seq(T) /\ Len(b) = m /\ Head(a) = a[1] /\ \A n \in 1 .. m : b[n] = a[n + 1]
  <2>1. (m + 1) - 1 = m
    BY <1>1
  <2> QED BY <1>3, <1>4, <2>1, HeadTailProperties
<1> HIDE DEF b
<1>6. \A n \in 1 .. m : b[n] = c[n]
  <2> TAKE n \in 1 .. m
  <2>1. n \in 1 .. Len(r) /\ n + 1 \in 1 .. Len(q)
    BY <1>1
  <2>2. b[n] = k[q[n + 1]]
    BY <1>2, <1>5, <2>1
  <2>3. c[n] = k[q[n + 1]]
    BY <1>1, <1>2, <2>1
  <2> QED BY <2>2, <2>3
<1>7. b = c
  BY <1>3, <1>5, <1>6, SeqEqual
<1>8. Head(a) = k[Head(q)]
  <2>1. 1 \in 1 .. Len(q)
    BY <1>1
  <2> QED BY <1>1, <1>2, <1>5, <2>1
<1> QED BY <1>4, <1>7, <1>8 DEF a, b, c, r

LEMMA WholeParts ==
  ASSUME NEW D, NEW S, NEW k, Maps(k, D, Seq(S)), NEW q \in Seq(D)
  PROVE  Parts(k, q) \in Seq(Seq(S))
<1> DEFINE T == Seq(S)
<1>1. Maps(k, D, T)
  OBVIOUS
<1> HIDE DEF T
<1>2. Parts(k, q) \in Seq(T)
  BY <1>1, PartsTyped
<1> QED BY <1>2 DEF T

LEMMA WholeTyped ==
  ASSUME NEW D, NEW S, NEW k, Maps(k, D, Seq(S)), NEW q \in Seq(D)
  PROVE  Whole(k, q) \in Seq(S)
BY WholeParts, FlatTyped DEF Whole

LEMMA WholeAppend ==
  ASSUME NEW D, NEW S, NEW k, Maps(k, D, Seq(S)), NEW q \in Seq(D), NEW e \in D
  PROVE  Whole(k, Append(q, e)) = Cat(Whole(k, q), k[e])
<1>1. Parts(k, Append(q, e)) = Append(Parts(k, q), k[e])
  <2> DEFINE T == Seq(S)
  <2>1. Maps(k, D, T)
    OBVIOUS
  <2> HIDE DEF T
  <2> QED BY <2>1, PartsAppend
<1>2. Parts(k, q) \in Seq(Seq(S)) /\ k[e] \in Seq(S)
  BY WholeParts DEF Maps
<1>3. FlattenSeq(Append(Parts(k, q), k[e])) = FlattenSeq(Parts(k, q)) \o k[e]
  BY <1>2, FlatAppend
<1> QED BY <1>1, <1>3, Zenon DEF Whole, Cat

LEMMA WholeHead ==
  ASSUME NEW D, NEW S, NEW k, Maps(k, D, Seq(S)), NEW q \in Seq(D), q # <<>>
  PROVE  Whole(k, q) = Cat(k[Head(q)], Whole(k, Tail(q)))
<1>1. /\ Parts(k, q) # <<>> /\ Head(Parts(k, q)) = k[Head(q)]
      /\ Tail(Parts(k, q)) = Parts(k, Tail(q))
  <2> DEFINE T == Seq(S)
  <2>1. Maps(k, D, T)
    OBVIOUS
  <2> HIDE DEF T
  <2>2. Parts(k, q) # <<>>
    BY <2>1, PartsTail
  <2>3. Head(Parts(k, q)) = k[Head(q)]
    BY <2>1, PartsTail
  <2>4. Tail(Parts(k, q)) = Parts(k, Tail(q))
    BY <2>1, PartsTail
  <2> QED BY <2>2, <2>3, <2>4
<1>2. Parts(k, q) \in Seq(Seq(S))
  BY WholeParts
<1>3. FlattenSeq(Parts(k, q)) = Head(Parts(k, q)) \o FlattenSeq(Tail(Parts(k, q)))
  BY <1>1, <1>2, FlatHead
<1> QED BY <1>1, <1>3, Zenon DEF Whole, Cat

LEMMA WholeNone ==
  ASSUME NEW k
  PROVE  Whole(k, <<>>) = <<>>
<1>1. Parts(k, <<>>) = <<>>
  BY DEF Parts
<1> QED BY <1>1, FlatNone DEF Whole

-----------------------------------------------------------------------------
(* The default profile: every key there and back.                           *)

\* What the table reads it writes back as the code it was read from, though
\* Windows lists one of its keys twice.
LEMMA ThereAndBack ==
  ASSUME NEW p \in DOMAIN int_to_keycode, NEW c \in DOMAIN int_to_keycode[p].forward
  PROVE  int_to_keycode[p].backward[int_to_keycode[p].forward[c]] = c
<1>1. \A codes : \A d \in DOMAIN OneToOne(codes).forward :
        OneToOne(codes).backward[OneToOne(codes).forward[d]] = d
  BY DEF OneToOne
<1>2. CASE p = "linux"
  BY <1>1, <1>2 DEF int_to_keycode, LinuxKeys
<1>3. CASE p = "mac"
  BY <1>1, <1>3 DEF int_to_keycode, MacKeys
<1>4. CASE p = "win"
  <2> DEFINE codes == KeyCode \ (HighFunctionKeys \cup {"Power", "NumpadEnter"} \cup Language)
             map   == OneToOne(codes)
             twice == Insert(map, "Enter", "NumpadEnter")
  <2>1. int_to_keycode[p] = twice
    BY <1>4 DEF int_to_keycode, WinKeys
  <2>2. "NumpadEnter" \notin codes
    OBVIOUS
  <2> HIDE DEF codes
  <2>3. /\ twice.forward = [k \in codes \cup {"Enter"} |-> IF k = "Enter" THEN "NumpadEnter" ELSE k]
        /\ twice.backward = [k \in codes \cup {"NumpadEnter"} |-> IF k = "NumpadEnter" THEN "Enter" ELSE k]
    BY DEF Insert, Overwrite, OneToOne
  <2> HIDE DEF twice
  <2>4. c \in codes \cup {"Enter"}
    BY <2>1, <2>3
  <2>5. CASE c = "Enter"
    BY <2>1, <2>3, <2>4, <2>5
  <2>6. CASE c # "Enter"
    BY <2>1, <2>2, <2>3, <2>4, <2>6
  <2> QED BY <2>5, <2>6
<1> QED BY <1>2, <1>3, <1>4 DEF int_to_keycode

MappedStrokes == [key : Mapped, press : BOOLEAN]

\* What a daemon sends for the keys it knows, and with the focus.
Keystrokes == {KeyEvent(table.forward[code], press) : code \in Mapped, press \in BOOLEAN}

FromKeyboard == {Focus} \cup Keystrokes

LEMMA KeystrokeIs ==
  ASSUME platform \in Platforms, NEW code \in Mapped, NEW press \in BOOLEAN,
         NEW ev, ev = KeyEvent(table.forward[code], press)
  PROVE  /\ ev \in KeyEvents /\ ev \in Keystrokes /\ ev \notin {Focus, None} \cup Scripts
         /\ RawKey(ev) = code /\ (ev.type = "Press") = press
         /\ KeyStroke(ev) = <<Stroke(code, press)>>
         /\ Stroke(code, press) \in MappedStrokes
<1>1. platform \in DOMAIN int_to_keycode /\ code \in DOMAIN int_to_keycode[platform].forward
  BY PathAssumption DEF Mapped, table
<1>2. ev \in KeyEvents
  BY <1>1, PathAssumption DEF table
<1>3. ev \notin {Focus, None} \cup Scripts
  BY <1>2, PathAssumption, EventsAssumption
<1>4. ev.code = table.forward[code] /\ (ev.type = "Press") = press
  BY DEF KeyEvent
<1>5. RawKey(ev) = code
  BY <1>1, <1>4, ThereAndBack DEF RawKey, table
<1>6. KeyStroke(ev) = <<Stroke(code, press)>>
  BY <1>3, <1>4, <1>5 DEF KeyStroke, OneIf
<1>7. Stroke(code, press) \in MappedStrokes
  BY DEF Stroke, MappedStrokes
<1> QED BY <1>2, <1>3, <1>4, <1>5, <1>6, <1>7 DEF Keystrokes

\* An input is one stroke or none.
LEMMA StrokeOrNone ==
  ASSUME platform \in Platforms, NEW ev \in FromKeyboard \cup {None}
  PROVE  /\ KeyStroke(ev) \in Seq(MappedStrokes)
         /\ ev \notin Keystrokes => KeyStroke(ev) = <<>>
         /\ ev \in Keystrokes =>
              /\ ev \in KeyEvents /\ ev \notin Scripts
              /\ KeyStroke(ev) = <<Stroke(RawKey(ev), ev.type = "Press")>>
              /\ RawKey(ev) \in Mapped
<1>1. CASE ev \in Keystrokes
  <2>1. PICK code \in Mapped, press \in BOOLEAN : ev = KeyEvent(table.forward[code], press)
    BY <1>1 DEF Keystrokes
  <2>2. /\ RawKey(ev) = code /\ (ev.type = "Press") = press /\ ev \in KeyEvents
        /\ ev \notin Scripts /\ KeyStroke(ev) = <<Stroke(code, press)>>
        /\ Stroke(code, press) \in MappedStrokes
    BY <2>1, KeystrokeIs
  <2>3. KeyStroke(ev) \in Seq(MappedStrokes)
    BY <2>2
  <2> QED BY <1>1, <2>1, <2>2, <2>3
<1>2. CASE ev \notin Keystrokes
  <2>1. KeyStroke(ev) = <<>>
    BY <1>2 DEF FromKeyboard, KeyStroke, OneIf
  <2> QED BY <1>2, <2>1
<1> QED BY <1>1, <1>2

Inputs == FromKeyboard \cup {None}

StrokeOf == [ev \in Inputs |-> KeyStroke(ev)]

LEMMA StrokesAre ==
  ASSUME platform \in Platforms
  PROVE  /\ Maps(StrokeOf, Inputs, Seq(MappedStrokes))
         /\ \A q \in Seq(Inputs) : AsStrokes(q) = Whole(StrokeOf, q)
<1>1. \A ev \in Inputs : StrokeOf[ev] = KeyStroke(ev)
  BY DEF StrokeOf
<1>2. Maps(StrokeOf, Inputs, Seq(MappedStrokes))
  BY <1>1, StrokeOrNone DEF Maps, Inputs
<1>3. ASSUME NEW q \in Seq(Inputs)
      PROVE  AsStrokes(q) = Whole(StrokeOf, q)
  <2>1. \A n \in 1 .. Len(q) : StrokeOf[q[n]] = KeyStroke(q[n])
    BY <1>1, ElementOfSeq
  <2>2. [n \in 1 .. Len(q) |-> KeyStroke(q[n])] = [n \in 1 .. Len(q) |-> StrokeOf[q[n]]]
    BY <2>1, Zenon
  <2> QED BY <2>2, Zenon DEF AsStrokes, Whole, Parts
<1> QED BY <1>2, <1>3

LEMMA StrokesOfList ==
  ASSUME platform \in Platforms, NEW q \in Seq(Inputs)
  PROVE  /\ AsStrokes(q) \in Seq(MappedStrokes)
         /\ q # <<>> => AsStrokes(q) = Cat(KeyStroke(Head(q)), AsStrokes(Tail(q)))
         /\ \A ev \in Inputs : AsStrokes(Append(q, ev)) = Cat(AsStrokes(q), KeyStroke(ev))
<1>1. Maps(StrokeOf, Inputs, Seq(MappedStrokes)) /\ AsStrokes(q) = Whole(StrokeOf, q)
  BY StrokesAre
<1>2. AsStrokes(q) \in Seq(MappedStrokes)
  BY <1>1, WholeTyped
<1>3. ASSUME q # <<>>
      PROVE  AsStrokes(q) = Cat(KeyStroke(Head(q)), AsStrokes(Tail(q)))
  <2>1. Head(q) \in Inputs /\ Tail(q) \in Seq(Inputs)
    BY <1>3, HeadTailProperties
  <2>2. StrokeOf[Head(q)] = KeyStroke(Head(q))
    BY <2>1 DEF StrokeOf
  <2>3. AsStrokes(Tail(q)) = Whole(StrokeOf, Tail(q))
    BY <2>1, StrokesAre
  <2>4. Whole(StrokeOf, q) = Cat(StrokeOf[Head(q)], Whole(StrokeOf, Tail(q)))
    BY <1>1, <1>3, WholeHead
  <2> QED BY <1>1, <2>2, <2>3, <2>4
<1>4. ASSUME NEW ev \in Inputs
      PROVE  AsStrokes(Append(q, ev)) = Cat(AsStrokes(q), KeyStroke(ev))
  <2>1. Append(q, ev) \in Seq(Inputs)
    BY AppendProperties
  <2>2. AsStrokes(Append(q, ev)) = Whole(StrokeOf, Append(q, ev))
    BY <2>1, StrokesAre
  <2>3. StrokeOf[ev] = KeyStroke(ev)
    BY DEF StrokeOf
  <2>4. Whole(StrokeOf, Append(q, ev)) = Cat(Whole(StrokeOf, q), StrokeOf[ev])
    BY <1>1, WholeAppend
  <2> QED BY <1>1, <2>2, <2>3, <2>4
<1> QED BY <1>2, <1>3, <1>4

LEMMA StrokesOfFew ==
  ASSUME platform \in Platforms
  PROVE  AsStrokes(<<>>) = <<>> /\ \A ev \in Inputs : AsStrokes(<<ev>>) = KeyStroke(ev)
<1>1. AsStrokes(<<>>) = <<>>
  <2>1. <<>> \in Seq(Inputs)
    OBVIOUS
  <2>2. AsStrokes(<<>>) = Whole(StrokeOf, <<>>)
    BY <2>1, StrokesAre
  <2> QED BY <2>2, WholeNone
<1>2. ASSUME NEW ev \in Inputs
      PROVE  AsStrokes(<<ev>>) = KeyStroke(ev)
  <2>1. <<ev>> \in Seq(Inputs) /\ <<ev>> # <<>> /\ Head(<<ev>>) = ev /\ Tail(<<ev>>) = <<>>
    OBVIOUS
  <2>2. AsStrokes(<<ev>>) = Cat(KeyStroke(ev), <<>>)
    BY <1>1, <2>1, StrokesOfList
  <2>3. KeyStroke(ev) \in Seq(MappedStrokes)
    BY StrokeOrNone DEF Inputs
  <2> QED BY <2>2, <2>3, CatTyped
<1> QED BY <1>1, <1>2

-----------------------------------------------------------------------------
(* The events of the system.                                                *)

RawCodes == TypedCodes \cup {table.backward[k] : k \in DOMAIN table.backward}

SourceEvents == [code : RawCodes, press : BOOLEAN, sys : BOOLEAN, injected : BOOLEAN]

SourceStrokeOf(injected) == [e \in SourceEvents |-> SourceStroke(e, injected)]

LEMMA SourceStrokesAre ==
  ASSUME NEW injected
  PROVE  /\ Maps(SourceStrokeOf(injected), SourceEvents, Seq(MappedStrokes))
         /\ \A q \in Seq(SourceEvents) : FromSource(q, injected) = Whole(SourceStrokeOf(injected), q)
<1>1. \A e \in SourceEvents : SourceStrokeOf(injected)[e] = SourceStroke(e, injected)
  BY DEF SourceStrokeOf
<1>2. \A e \in SourceEvents : SourceStroke(e, injected) \in Seq(MappedStrokes)
  <2> TAKE e \in SourceEvents
  <2>1. CASE SourceStroke(e, injected) = <<>>
    BY <2>1
  <2>2. CASE e.code \in Mapped /\ SourceStroke(e, injected) = <<Stroke(e.code, e.press)>>
    <3>1. Stroke(e.code, e.press) \in MappedStrokes
      BY <2>2 DEF Stroke, MappedStrokes, SourceEvents
    <3> QED BY <2>2, <3>1
  <2> QED BY <2>1, <2>2 DEF SourceStroke, OneIf
<1>3. Maps(SourceStrokeOf(injected), SourceEvents, Seq(MappedStrokes))
  BY <1>1, <1>2 DEF Maps
<1>4. ASSUME NEW q \in Seq(SourceEvents)
      PROVE  FromSource(q, injected) = Whole(SourceStrokeOf(injected), q)
  <2>1. \A n \in 1 .. Len(q) : SourceStrokeOf(injected)[q[n]] = SourceStroke(q[n], injected)
    BY <1>1, ElementOfSeq
  <2>2. [n \in 1 .. Len(q) |-> SourceStroke(q[n], injected)]
          = [n \in 1 .. Len(q) |-> SourceStrokeOf(injected)[q[n]]]
    BY <2>1, Zenon
  <2> QED BY <2>2, Zenon DEF FromSource, Whole, Parts
<1> QED BY <1>3, <1>4

LEMMA StrokesOfSource ==
  ASSUME NEW injected, NEW q \in Seq(SourceEvents)
  PROVE  /\ FromSource(q, injected) \in Seq(MappedStrokes)
         /\ q # <<>> => FromSource(q, injected)
                          = Cat(SourceStroke(Head(q), injected), FromSource(Tail(q), injected))
         /\ \A e \in SourceEvents :
              FromSource(Append(q, e), injected)
                = Cat(FromSource(q, injected), SourceStroke(e, injected))
<1> DEFINE k == SourceStrokeOf(injected)
<1>1. /\ Maps(k, SourceEvents, Seq(MappedStrokes))
      /\ \A r \in Seq(SourceEvents) : FromSource(r, injected) = Whole(k, r)
      /\ \A e \in SourceEvents : k[e] = SourceStroke(e, injected)
  BY SourceStrokesAre DEF SourceStrokeOf
<1> HIDE DEF k
<1>2. FromSource(q, injected) \in Seq(MappedStrokes)
  BY <1>1, WholeTyped
<1>3. ASSUME q # <<>>
      PROVE  FromSource(q, injected)
               = Cat(SourceStroke(Head(q), injected), FromSource(Tail(q), injected))
  <2>1. Head(q) \in SourceEvents /\ Tail(q) \in Seq(SourceEvents)
    BY <1>3, HeadTailProperties
  <2>2. Whole(k, q) = Cat(k[Head(q)], Whole(k, Tail(q)))
    BY <1>1, <1>3, WholeHead
  <2> QED BY <1>1, <2>1, <2>2
<1>4. ASSUME NEW e \in SourceEvents
      PROVE  FromSource(Append(q, e), injected)
               = Cat(FromSource(q, injected), SourceStroke(e, injected))
  <2>1. Append(q, e) \in Seq(SourceEvents)
    BY AppendProperties
  <2>2. Whole(k, Append(q, e)) = Cat(Whole(k, q), k[e])
    BY <1>1, WholeAppend
  <2> QED BY <1>1, <2>1, <2>2
<1> QED BY <1>2, <1>3, <1>4

\* Nothing is injected on Linux and macOS.
LEMMA NoneInjected ==
  ASSUME NEW q \in Seq(SourceEvents), \A n \in 1 .. Len(q) : ~q[n].injected
  PROVE  FromSource(q, TRUE) = <<>>
<1> DEFINE parts == [n \in 1 .. Len(q) |-> SourceStroke(q[n], TRUE)]
<1>1. \A n \in 1 .. Len(q) : parts[n] = <<>>
  BY DEF SourceStroke, OneIf
<1>2. Len(q) \in Nat /\ Len(parts) = Len(q)
  BY LenProperties
<1>3. Len(q) = 0 => parts = <<>>
  BY <1>2
<1>4. FlattenSeq(parts) = <<>>
  <2> HIDE DEF parts
  <2> QED BY <1>1, <1>2, <1>3, FlatNothing
<1> QED BY <1>4 DEF FromSource

-----------------------------------------------------------------------------
(* What is on its way comes from the keyboard.                              *)

WayInv ==
  /\ platform \in Platforms /\ ~stopped /\ ~closed /\ KeyInTurn
  /\ queue \in Seq(Inputs) /\ key_opt \in Inputs
  /\ source \in Seq(SourceEvents)
  /\ platform # "win" => \A n \in 1 .. Len(source) : ~source[n].injected /\ ~source[n].sys

WaySets == <<Inputs, SourceEvents, Keystrokes>>

LEMMA WayUnchanged ==
  ASSUME platform' = platform
  PROVE  WaySets' = WaySets
<1>1. table' = table /\ Mapped' = Mapped
  BY DEF table, Mapped
<1>5. Keystrokes' = Keystrokes
  BY <1>1 DEF Keystrokes
<1>2. Inputs' = Inputs
  BY <1>5, Zenon DEF Inputs, FromKeyboard
<1>3. RawCodes' = RawCodes
  BY <1>1, Zenon DEF RawCodes
<1>4. SourceEvents' = SourceEvents
  BY <1>3, Zenon DEF SourceEvents
<1> QED BY <1>2, <1>4, <1>5, Zenon DEF WaySets

\* The keys of a batch can be written when the batch does not throw.
LEMMA KeysTyped ==
  ASSUME NEW batch \in Seq(OutputEvents), ~Throws(batch)
  PROVE  KeysOf(batch) \in Seq({ev \in OutputEvents : ev \notin Scripts /\ ~Unsendable(ev)})
<1> DEFINE S == {ev \in OutputEvents : ev \notin Scripts /\ ~Unsendable(ev)}
           parts == [n \in 1 .. Len(batch) |-> OneIf(batch[n] \notin Scripts, batch[n])]
<1>1. Len(batch) \in Nat /\ \A n \in 1 .. Len(batch) : batch[n] \in OutputEvents
  BY LenProperties, ElementOfSeq
<1>2. ASSUME NEW n \in 1 .. Len(batch)
      PROVE  OneIf(batch[n] \notin Scripts, batch[n]) \in Seq(S)
  <2>1. batch[n] \notin Scripts => batch[n] \in S
    BY <1>1 DEF Throws
  <2> HIDE DEF S
  <2> QED BY <2>1 DEF OneIf
<1>3. parts \in Seq(Seq(S))
  <2> HIDE DEF S
  <2> QED BY <1>1, <1>2, SeqDef
<1> HIDE DEF S
<1>4. FlattenSeq(parts) \in Seq(S)
  <2> HIDE DEF parts
  <2> QED BY <1>3, FlatTyped
<1> QED BY <1>4 DEF KeysOf, S

\* What send_outputs leaves on its way to the daemon.
LEMMA SentOnItsWay ==
  ASSUME WayInv, NEW batch \in Seq(OutputEvents), SendOutputs(batch)
  PROVE  /\ source' \in Seq(SourceEvents)
         /\ platform # "win" => source' = source
<1>1. CASE WriteEach(batch) \/ WriteToNobody(batch)
  BY <1>1 DEF WriteEach, WriteToNobody, WayInv
<1>2. CASE SendInput(batch) /\ Throws(batch)
  BY <1>2 DEF SendInput, WayInv
<1>3. CASE SendInput(batch) /\ ~Throws(batch)
  <2> DEFINE S == {ev \in OutputEvents : ev \notin Scripts /\ ~Unsendable(ev)}
             event(ev) == [code |-> RawKey(ev), sys |-> FALSE,
                           press |-> ev.type = "Press", injected |-> TRUE]
             keys == KeysOf(batch)
             more == [n \in 1 .. Len(keys) |-> event(keys[n])]
  <2>1. ASSUME NEW ev \in S PROVE event(ev) \in SourceEvents
    <3>1. ev \in KeyEvents
      BY PathAssumption
    <3>2. ev.code \in DOMAIN table.backward
      BY <3>1 DEF Unsendable, ContainsBackward
    <3> QED BY <3>2 DEF SourceEvents, RawCodes, RawKey
  <2>2. keys \in Seq(S)
    BY <1>3, KeysTyped
  <2> HIDE DEF S, keys
  <2>3. Len(keys) \in Nat /\ \A n \in 1 .. Len(keys) : keys[n] \in S
    BY <2>2, LenProperties, ElementOfSeq
  <2>4. \A n \in 1 .. Len(keys) : event(keys[n]) \in SourceEvents
    BY <2>1, <2>3
  <2> HIDE DEF event
  <2>5. more \in Seq(SourceEvents)
    BY <2>3, <2>4, SeqDef
  <2>6. source' = source \o more /\ platform = "win"
    BY <1>3 DEF SendInput, keys, event
  <2> HIDE DEF more
  <2> QED BY <2>5, <2>6, ConcatProperties DEF WayInv
<1> QED BY <1>1, <1>2, <1>3 DEF SendOutputs

LEMMA InitWay == PathInit => WayInv
BY PathAssumption, EmptySeq DEF PathInit, Init, WayInv, KeyInTurn, Inputs

\* The event of a key.
LEMMA TypedEvent ==
  ASSUME WayInv, NEW key \in PhysicalKeys[platform], NEW press \in BOOLEAN, TypeKey(key, press)
  PROVE  \E e \in SourceEvents :
           /\ source' = Append(source, e) /\ ~e.injected
           /\ e.code = key.code /\ e.code \in TypedCodes /\ e.press = press
           /\ platform # "win" => ~e.sys
<1>1. key.code \in TypedCodes
  BY DEF TypedCodes, WayInv
<1>2. PICK sys \in BOOLEAN :
        /\ sys => platform = "win"
        /\ source' = Append(source, [code |-> key.code, press |-> press, sys |-> sys,
                                     injected |-> FALSE])
  BY DEF TypeKey
<1> DEFINE e == [code |-> key.code, press |-> press, sys |-> sys, injected |-> FALSE]
<1>3. e \in SourceEvents
  BY <1>1, <1>2 DEF SourceEvents, RawCodes
<1> QED BY <1>1, <1>2, <1>3

LEMMA NextWay ==
  ASSUME WayInv, TypeOK', ActivationsInTurn, PathNext
  PROVE  WayInv'
<1>1. [Next]_vars /\ platform' = platform
  BY PathStep DEF WayInv
<1>2. KeyInTurn'
  BY <1>1, NextKeyInTurn DEF WayInv
<1>3. Inputs' = Inputs /\ SourceEvents' = SourceEvents
  BY <1>1, WayUnchanged DEF WaySets
<1> DEFINE Clean(s) == platform # "win" => \A n \in 1 .. Len(s) : ~s[n].injected /\ ~s[n].sys
           Goal == /\ ~stopped' /\ ~closed'
                   /\ queue' \in Seq(Inputs) /\ key_opt' \in Inputs
                   /\ source' \in Seq(SourceEvents) /\ Clean(source')
<1> SUFFICES Goal
  BY <1>1, <1>2, <1>3 DEF WayInv
<1>w. /\ ~stopped /\ ~closed /\ platform \in Platforms
      /\ queue \in Seq(Inputs) /\ key_opt \in Inputs
      /\ source \in Seq(SourceEvents) /\ Clean(source)
  BY DEF WayInv
<1> HIDE DEF Clean
<1>4. CASE User
  <2>1. PICK key \in PhysicalKeys[platform], press \in BOOLEAN : TypeKey(key, press)
    BY <1>4 DEF User
  <2>2. PICK e \in SourceEvents :
          /\ source' = Append(source, e) /\ ~e.injected
          /\ platform # "win" => ~e.sys
    BY <2>1, TypedEvent
  <2>3. source' \in Seq(SourceEvents)
    BY <1>w, <2>2, AppendProperties
  <2>4. Clean(source')
    <3>1. /\ Len(source') = Len(source) + 1 /\ Len(source) \in Nat
          /\ source'[Len(source) + 1] = e
          /\ \A n \in 1 .. Len(source) : source'[n] = source[n]
      BY <1>w, <2>2, AppendProperties, LenProperties
    <3>2. \A n \in 1 .. Len(source') : n \in 1 .. Len(source) \/ n = Len(source) + 1
      BY <3>1
    <3> QED BY <1>w, <2>2, <3>1, <3>2 DEF Clean
  <2>5. UNCHANGED vars
    BY <2>1 DEF TypeKey
  <2> QED BY <1>w, <2>3, <2>4, <2>5 DEF vars, channel, control, thread
<1>5. CASE ReadKey
  <2> DEFINE event == Head(source)
  <2>1. source # <<>> /\ source' = Tail(source)
    BY <1>5 DEF ReadKey
  <2>2. source' \in Seq(SourceEvents) /\ event \in SourceEvents
    BY <1>w, <2>1, HeadTailProperties
  <2>3. Clean(source')
    <3>1. /\ Len(source') = Len(source) - 1 /\ Len(source) \in Nat
          /\ \A n \in 1 .. Len(source) - 1 : source'[n] = source[n + 1]
      BY <1>w, <2>1, HeadTailProperties, LenProperties
    <3>2. \A n \in 1 .. Len(source') : n + 1 \in 1 .. Len(source)
      BY <3>1
    <3>3. \A n \in 1 .. Len(source') : source'[n] = source[n + 1]
      BY <3>1
    <3> QED BY <1>w, <3>2, <3>3 DEF Clean
  <2>4. CASE Known(event) /\ ToMapper(event)
    <3> DEFINE ev == KeyEvent(table.forward[event.code], event.press)
    <3>1. event.code \in Mapped /\ event.press \in BOOLEAN
      BY <2>2, <2>4 DEF Known, ContainsForward, Mapped, SourceEvents
    <3>2. ev \in Inputs
      BY <3>1, <1>w, KeystrokeIs DEF Inputs, FromKeyboard
    <3>3. SendKey(ev)
      BY <2>4 DEF ToMapper
    <3> HIDE DEF ev
    <3>4. queue' = Append(queue, ev) /\ UNCHANGED <<closed, control, thread>>
      BY <3>3 DEF SendKey
    <3>5. queue' \in Seq(Inputs)
      BY <1>w, <3>2, <3>4, AppendProperties
    <3> QED BY <1>w, <2>2, <2>3, <3>4, <3>5 DEF control, thread
  <2>5. CASE UNCHANGED vars
    BY <1>w, <2>2, <2>3, <2>5 DEF vars, channel, control, thread
  <2> QED
    BY <1>5, <2>4, <2>5 DEF ReadKey, LinuxRead, HookProc, HandleInputEvent, Known, Unknown
<1>6. CASE MapperTurn
  <2>1. MapperStep /\ SendOutputs(sent')
    BY <1>6 DEF MapperTurn
  <2>2. sent' \in Seq(OutputEvents)
    BY DEF TypeOK
  <2>3. source' \in Seq(SourceEvents) /\ (platform # "win" => source' = source)
    BY <2>1, <2>2, SentOnItsWay
  <2>4. Clean(source')
    BY <1>w, <2>3 DEF Clean
  <2>5. UNCHANGED <<closed, control>> /\ queue' \in {queue, Tail(queue)}
        /\ key_opt' \in {key_opt, None, Head(queue)}
        /\ ((queue' # queue \/ key_opt' \notin {key_opt, None}) => queue # <<>>)
    BY <2>1 DEF MapperStep, LoopTest, WaitKey, CheckTimer, ProcessKey, CheckQueuedEvents,
       QueueOutput, QueueWait, SwapLayer, DeferInput, TranslateBasic, OutputBind, RedoInput,
       Return, Throw, channel, thread
  <2>6. queue # <<>> => Head(queue) \in Inputs /\ Tail(queue) \in Seq(Inputs)
    BY <1>w, HeadTailProperties
  <2>7. None \in Inputs
    BY DEF Inputs
  <2>8. queue' \in Seq(Inputs)
    BY <1>w, <2>5, <2>6
  <2>9. key_opt' \in Inputs
    BY <1>w, <2>5, <2>6, <2>7
  <2>10. ~stopped' /\ ~closed'
    BY <1>w, <2>5 DEF control
  <2> QED BY <2>3, <2>4, <2>8, <2>9, <2>10
<1>7. CASE Wait
  BY <1>7, <1>w DEF Wait, path, system, Tick, channel, control, thread
<1>8. CASE FocusChange
  <2>1. SendKey(Focus) /\ UNCHANGED system
    BY <1>8 DEF FocusChange, ToOtherApplication
  <2>2. queue' = Append(queue, Focus) /\ UNCHANGED <<closed, control, thread, source>>
    BY <2>1 DEF SendKey, system
  <2>3. Focus \in Inputs
    BY DEF Inputs, FromKeyboard
  <2>4. queue' \in Seq(Inputs)
    BY <1>w, <2>2, <2>3, AppendProperties
  <2> QED BY <1>w, <2>2, <2>4 DEF control, thread
<1>9. CASE DanglingFocusChange \/ StartClient
  BY <1>9, <1>w DEF DanglingFocusChange, StartClient, ToOtherApplication, vars, channel,
     control, thread, system
<1>10. CASE MainCall
  BY <1>10, <1>w DEF MainCall, SetProfile, Pause, Resume, channel, control, thread, system
<1> QED
  BY <1>4, <1>5, <1>6, <1>7, <1>8, <1>9, <1>10 DEF PathNext

-----------------------------------------------------------------------------
(* The mapper under the default profile: one input at a time.               *)

Begun(ev) == [prev |-> ev, outputs |-> <<Basic(None)>>, redo |-> <<>>, binds |-> <<>>, delay |-> 0]

Over(ev) == [prev |-> ev, outputs |-> <<>>, redo |-> <<>>, binds |-> <<>>, delay |-> 0]

DueNow(ev) == [left |-> 0, ev |-> ev]

UnderPlain == installed = Build[Plain] /\ ~disturbed /\ ended = None

PlainShape ==
  /\ cur_layer_idx = 1 /\ cur_state_idx = HOME_STATE_IDX /\ current_timer = None
  /\ pc \in {"check", "wait", "lock", "key", "flush"}
  /\ pc # "flush" => stack = <<>> /\ queued_events = <<>>
  /\ \/ stack = <<>>
     \/ \E ev \in FromKeyboard : \/ stack = <<Begun(ev)>> /\ queued_events = <<>>
                                 \/ stack = <<Over(ev)>>
  /\ queued_events = <<>> \/ \E ev \in Keystrokes : queued_events = <<DueNow(ev)>>

PlainInv == UnderPlain => PlainShape

\* The input the thread has in hand.
Carried == IF queued_events # <<>> THEN queued_events[1].ev
           ELSE IF stack # <<>> /\ Top.outputs # <<>> THEN Top.prev
           ELSE key_opt

\* A transition that is begun, and one that is over.
LEMMA Singles ==
  ASSUME NEW ev
  PROVE  /\ <<Begun(ev)>> # <<>> /\ Head(<<Begun(ev)>>) = Begun(ev) /\ Tail(<<Begun(ev)>>) = <<>>
         /\ <<Over(ev)>> # <<>> /\ Head(<<Over(ev)>>) = Over(ev) /\ Tail(<<Over(ev)>>) = <<>>
         /\ Begun(ev).outputs # <<>> /\ Head(Begun(ev).outputs) = Basic(None)
         /\ Begun(ev).binds = <<>> /\ Begun(ev).redo = <<>> /\ Begun(ev).prev = ev
         /\ [Begun(ev) EXCEPT !.outputs = Tail(@), !.delay = 0] = Over(ev)
         /\ Over(ev).outputs = <<>> /\ Over(ev).binds = <<>> /\ Over(ev).redo = <<>>
         /\ <<DueNow(ev)>> # <<>> /\ <<DueNow(ev)>>[1].ev = ev
         /\ Append(<<>>, DueNow(ev)) = <<DueNow(ev)>>
<1>1. Tail(<<Basic(None)>>) = <<>> /\ Head(<<Basic(None)>>) = Basic(None)
  OBVIOUS
<1>2. /\ <<Begun(ev)>> # <<>> /\ Head(<<Begun(ev)>>) = Begun(ev) /\ Tail(<<Begun(ev)>>) = <<>>
      /\ <<Over(ev)>> # <<>> /\ Head(<<Over(ev)>>) = Over(ev) /\ Tail(<<Over(ev)>>) = <<>>
  OBVIOUS
<1>3. /\ Begun(ev).outputs = <<Basic(None)>> /\ Begun(ev).binds = <<>> /\ Begun(ev).redo = <<>>
      /\ Begun(ev).prev = ev
      /\ Over(ev).outputs = <<>> /\ Over(ev).binds = <<>> /\ Over(ev).redo = <<>>
  BY DEF Begun, Over
<1>4. [Begun(ev) EXCEPT !.outputs = Tail(@), !.delay = 0] = Over(ev)
  <2> DEFINE outputs == <<Basic(None)>>
             after == [Begun(ev) EXCEPT !.outputs = Tail(@), !.delay = 0]
  <2>1. Begun(ev) \in [prev : {ev}, outputs : {outputs}, redo : {<<>>}, binds : {<<>>}, delay : {0}]
    BY DEF Begun
  <2>2. Tail(outputs) = <<>>
    BY <1>1
  <2> HIDE DEF outputs
  <2>3. after \in [prev : {ev}, outputs : {<<>>}, redo : {<<>>}, binds : {<<>>}, delay : {0}]
    BY <2>1, <2>2
  <2> HIDE DEF after
  <2>4. after = Over(ev)
    BY <2>3 DEF Over
  <2> QED BY <2>4 DEF after
<1>5. <<DueNow(ev)>> # <<>> /\ <<DueNow(ev)>>[1].ev = ev /\ Append(<<>>, DueNow(ev)) = <<DueNow(ev)>>
  BY DEF DueNow
<1> QED BY <1>1, <1>2, <1>3, <1>4, <1>5

LEMMA PlainMachine ==
  ASSUME UnderPlain, PlainShape
  PROVE  /\ InRange /\ CurState = HomeState /\ Len(Layers) = 1 /\ cur_layer_idx \in 1 .. Len(Layers)
         /\ Layers[cur_layer_idx].basic = NoEdges /\ DOMAIN HomeState.edges = {} /\ ~TimerExpired
         /\ \A ev : ev \notin DOMAIN NoEdges
<1>1. Layers = Build[Plain].layers /\ cur_layer_idx = 1 /\ cur_state_idx = 1
  BY DEF UnderPlain, PlainShape, Layers, HOME_STATE_IDX
<1>2. Layers[1].basic = NoEdges /\ Layers[1].states = <<HomeState>> /\ Len(Layers) = 1
  BY <1>1, PlainAssumption
<1>3. Len(<<HomeState>>) = 1 /\ <<HomeState>>[1] = HomeState
  OBVIOUS
<1>4. InRange /\ CurState = HomeState
  BY <1>1, <1>2, <1>3 DEF InRange, CurState
<1>5. ~TimerExpired
  <2>1. None # 0
    BY EventsAssumption
  <2> QED BY <2>1 DEF TimerExpired, PlainShape
<1>6. DOMAIN HomeState.edges = {} /\ \A ev : ev \notin DOMAIN NoEdges
  BY DEF HomeState, State, NoEdges
<1> QED BY <1>1, <1>2, <1>4, <1>5, <1>6

\* check_queued_events with one event that is due, and with none.
LEMMA FlushOne ==
  ASSUME NEW ev
  PROVE  /\ Emitted(<<DueNow(ev)>>) = <<ev>> /\ Kept(<<DueNow(ev)>>) = <<>>
         /\ Emitted(<<>>) = <<>> /\ Kept(<<>>) = <<>>
<1> DEFINE q == <<DueNow(ev)>>
<1>1. Len(q) = 1 /\ q[1] = DueNow(ev)
  OBVIOUS
<1>2. Delayed(q) = {} /\ Cardinality(Delayed(q)) = 0
  <2>1. Delayed(q) = {}
    BY <1>1 DEF Delayed, DueNow
  <2> QED BY <2>1, FS_EmptySet
<1>3. Delayed(<<>>) = {} /\ Cardinality(Delayed(<<>>)) = 0
  BY NothingDelayed DEF Delayed
<1>4. PartitionOrder(q)[1] = 1
  <2>1. 1 .. 0 = {}
    OBVIOUS
  <2> HIDE DEF q
  <2> QED BY <1>1, <1>2, <2>1 DEF PartitionOrder
<1>5. Emitted(q) = <<ev>>
  <2>1. \A n \in 1 .. 1 : 0 + n = 1
    OBVIOUS
  <2>2. [n \in 1 .. 1 |-> q[PartitionOrder(q)[0 + n]].ev] = <<ev>>
    <3>1. q[PartitionOrder(q)[1]].ev = ev
      BY <1>1, <1>4 DEF DueNow
    <3> HIDE DEF q
    <3>2. \A n \in 1 .. 1 : q[PartitionOrder(q)[0 + n]].ev = ev
      BY <3>1
    <3> QED BY <3>2
  <2> HIDE DEF q
  <2> QED BY <1>1, <1>2, <2>2 DEF Emitted
<1>6. Kept(q) = <<>>
  <2> HIDE DEF q
  <2> QED BY <1>2 DEF Kept
<1>7. Emitted(<<>>) = <<>> /\ Kept(<<>>) = <<>>
  BY <1>3, KeptEmpty DEF Emitted
<1> QED BY <1>5, <1>6, <1>7

\* A turn of the thread under the default profile: what it has in hand goes
\* on, comes from the queue, or leaves for the desktop.
Goes(out) ==
  \/ sent' = <<>> /\ Carried' = Carried /\ queue' = queue
  \/ sent' = <<>> /\ Carried = None /\ queue # <<>> /\ Carried' = Head(queue) /\ queue' = Tail(queue)
  \/ sent' = <<>> /\ Carried = Focus /\ Carried' = None /\ queue' = queue
  \/ out \in Keystrokes /\ sent' = <<out>> /\ Carried = out /\ Carried' = None /\ queue' = queue

PlainNext ==
  /\ cur_layer_idx' = 1 /\ cur_state_idx' = HOME_STATE_IDX /\ current_timer' = None
  /\ pc' \in {"check", "wait", "lock", "key", "flush"}
  /\ pc' # "flush" => stack' = <<>> /\ queued_events' = <<>>
  /\ \/ stack' = <<>>
     \/ \E ev \in FromKeyboard : \/ stack' = <<Begun(ev)>> /\ queued_events' = <<>>
                                 \/ stack' = <<Over(ev)>>
  /\ queued_events' = <<>> \/ \E ev \in Keystrokes : queued_events' = <<DueNow(ev)>>

\* The keys of the keyboard among its events.
LEMMA InputIsKey ==
  ASSUME platform \in Platforms, NEW ev \in Inputs
  PROVE  /\ ev \in KeyEvents <=> ev \in Keystrokes
         /\ ev \notin KeyEvents => ev \in {Focus, None}
         /\ ev # None => ev \in FromKeyboard
<1>1. Focus \notin KeyEvents /\ None \notin KeyEvents
  BY PathAssumption, EventsAssumption
<1>2. ev \in Keystrokes => ev \in KeyEvents
  BY StrokeOrNone DEF Inputs
<1> QED BY <1>1, <1>2 DEF Inputs, FromKeyboard

LEMMA PlainLoop ==
  ASSUME WayInv, UnderPlain, PlainShape,
         LoopTest \/ WaitKey \/ CheckTimer \/ ProcessKey \/ CheckQueuedEvents
  PROVE  PlainNext /\ \E out : Goes(out)
<1> USE DEF channel, machine, control, thread, PlainShape
<1>1. CASE LoopTest
  BY <1>1 DEF LoopTest, WayInv, PlainNext, Goes, Carried
<1>2. CASE WaitKey
  <2>1. key_opt = None /\ stack = <<>> /\ queued_events = <<>> /\ ~closed
    BY <1>2 DEF WaitKey, WayInv, KeyInTurn
  <2>2. stack' = <<>> /\ queued_events' = <<>>
    BY <1>2, <2>1 DEF WaitKey
  <2>3. Carried = None /\ Carried' = key_opt'
    BY <2>1, <2>2 DEF Carried
  <2> QED BY <1>2, <2>1, <2>2, <2>3 DEF WaitKey, PlainNext, Goes
<1>3. CASE CheckTimer
  <2>1. ~TimerExpired
    BY PlainMachine
  <2>2. UNCHANGED <<stack, queued_events, key_opt>>
    BY <1>3, <2>1 DEF CheckTimer
  <2>3. Carried' = Carried
    BY <2>2 DEF Carried, Top
  <2> QED BY <1>3, <2>1, <2>2, <2>3 DEF CheckTimer, PlainNext, Goes
<1>4. CASE ProcessKey
  <2>1. stack = <<>> /\ queued_events = <<>> /\ queued_events' = <<>> /\ key_opt' = None
        /\ Carried = key_opt /\ pc' = "flush" /\ queue' = queue
    BY <1>4 DEF ProcessKey, Carried
  <2>2. CASE key_opt = None /\ sent' = <<>> /\ UNCHANGED <<machine, stack>>
    BY <2>1, <2>2 DEF PlainNext, Goes, Carried
  <2>3. CASE key_opt # None /\ paused /\ ForwardRaw(key_opt)
    <3>1. stack' = <<>> /\ UNCHANGED machine /\ Carried' = None
      BY <2>1, <2>3 DEF ForwardRaw, Carried
    <3>2. CASE key_opt \in KeyEvents
      <4>1. key_opt \in Keystrokes /\ sent' = <<key_opt>>
        BY <2>3, <3>2, InputIsKey DEF WayInv, ForwardRaw
      <4>2. Goes(key_opt)
        BY <2>1, <3>1, <4>1 DEF Goes
      <4> QED BY <2>1, <3>1, <4>2 DEF PlainNext
    <3>3. CASE key_opt \notin KeyEvents
      <4>1. key_opt = Focus /\ sent' = <<>>
        BY <2>3, <3>3, InputIsKey DEF WayInv, ForwardRaw
      <4>2. Goes(key_opt)
        BY <2>1, <3>1, <4>1 DEF Goes
      <4> QED BY <2>1, <3>1, <4>2 DEF PlainNext
    <3> QED BY <3>2, <3>3
  <2>4. CASE key_opt # None /\ ~paused /\ TakeTransition(key_opt, stack)
    <3>1. key_opt \in FromKeyboard
      BY <2>4, InputIsKey DEF WayInv
    <3>2. CurState.edges = NoEdges /\ CurState.fallback = Transition(None, <<Basic(None)>>, HOME_STATE_IDX)
      BY PlainMachine DEF HomeState, State
    <3>3. ApplyTransition(Transition(None, <<Basic(None)>>, HOME_STATE_IDX), key_opt, <<>>) /\ sent' = <<>>
      BY <2>1, <2>4, <3>2, PlainMachine DEF TakeTransition
    <3>4. stack' = <<Begun(key_opt)>> \o <<>> /\ current_timer' = None
          /\ cur_state_idx' = HOME_STATE_IDX /\ cur_layer_idx' = 1
      <4>1. HOME_STATE_IDX # Indeterminate
        BY DEF HOME_STATE_IDX, Indeterminate
      <4> QED BY <3>3, <4>1 DEF ApplyTransition, Transition, Targets, Begun
    <3>5. stack' = <<Begun(key_opt)>>
      BY <3>4
    <3>6. Carried' = key_opt
      <4>1. stack' # <<>> /\ Top' = Begun(key_opt) /\ Begun(key_opt).outputs # <<>>
            /\ Begun(key_opt).prev = key_opt
        BY <3>5, Singles DEF Top
      <4> QED BY <2>1, <4>1 DEF Carried
    <3> QED BY <2>1, <3>1, <3>3, <3>4, <3>5, <3>6 DEF PlainNext, Goes
  <2> QED BY <1>4, <2>2, <2>3, <2>4 DEF ProcessKey
<1>5. CASE CheckQueuedEvents
  <2>1. pc = "flush" /\ stack = <<>> /\ stack' = <<>> /\ key_opt = None /\ key_opt' = None
        /\ pc' = "check" /\ queue' = queue /\ UNCHANGED machine
    BY <1>5 DEF CheckQueuedEvents, WayInv, KeyInTurn
  <2>2. CASE queued_events = <<>>
    <3>1. sent' = <<>> /\ queued_events' = <<>>
      BY <1>5, <2>2, FlushOne DEF CheckQueuedEvents
    <3> QED BY <2>1, <2>2, <3>1 DEF PlainNext, Goes, Carried
  <2>3. ASSUME NEW ev \in Keystrokes, queued_events = <<DueNow(ev)>>
        PROVE  PlainNext /\ Goes(ev)
    <3>1. sent' = <<ev>> /\ queued_events' = <<>>
      BY <1>5, <2>3, FlushOne DEF CheckQueuedEvents
    <3>2. Carried = ev /\ Carried' = None
      BY <2>1, <2>3, <3>1, Singles DEF Carried
    <3> QED BY <2>1, <3>1, <3>2 DEF PlainNext, Goes
  <2> QED BY <2>2, <2>3
<1> QED BY <1>1, <1>2, <1>3, <1>4, <1>5

LEMMA PlainActivation ==
  ASSUME WayInv, UnderPlain, PlainShape,
         \/ QueueOutput \/ QueueWait \/ SwapLayer
         \/ DeferInput \/ TranslateBasic \/ OutputBind \/ RedoInput \/ Return
         \/ Throw
  PROVE  PlainNext /\ \E out : Goes(out)
<1> USE DEF channel, machine, control, thread
<1>1. InRange /\ cur_layer_idx \in 1 .. Len(Layers) /\ Layers[cur_layer_idx].basic = NoEdges
      /\ \A ev : ev \notin DOMAIN NoEdges
  BY PlainMachine
<1>2. ~Throw
  BY <1>1 DEF Throw, PlainShape
<1>3. stack # <<>> /\ pc = "flush" /\ key_opt = None
  BY <1>2 DEF QueueOutput, QueueWait, SwapLayer, DeferInput, TranslateBasic, OutputBind,
     RedoInput, Return, NextOutput, OutputsDone, InActivation, PlainShape, WayInv, KeyInTurn
<1>4. PICK ev \in FromKeyboard : \/ stack = <<Begun(ev)>> /\ queued_events = <<>>
                                 \/ stack = <<Over(ev)>>
  BY <1>3 DEF PlainShape
<1>5. CASE stack = <<Begun(ev)>> /\ queued_events = <<>>
  <2>1. /\ Top = Begun(ev) /\ Top.binds = <<>> /\ Top.outputs # <<>> /\ Top.prev = ev
        /\ Head(Top.outputs) = Basic(None) /\ Tail(stack) = <<>>
        /\ Rest = Over(ev)
    <3>1. Top = Begun(ev) /\ Tail(stack) = <<>>
      BY <1>5, Zenon, Singles DEF Top
    <3>2. Rest = Over(ev)
      BY <3>1, Zenon, Singles DEF Rest
    <3>3. /\ Begun(ev).binds = <<>> /\ Begun(ev).outputs # <<>> /\ Begun(ev).prev = ev
          /\ Head(Begun(ev).outputs) = Basic(None)
      BY Singles
    <3> QED BY <3>1, <3>2, <3>3
  <2>2. Head(Top.outputs).kind = "basic" /\ EventOf(Head(Top.outputs)) = ev
    BY <2>1 DEF Basic, EventOf
  <2>3. TranslateBasic
    BY <1>2, <2>1, <2>2 DEF QueueOutput, QueueWait, SwapLayer, DeferInput, OutputBind,
       RedoInput, Return, NextOutput, OutputsDone
  <2>4. ev # None /\ ev \in Inputs
    BY PathAssumption, EventsAssumption, KeystrokeIs DEF FromKeyboard, Keystrokes, Inputs, WayInv
  <2>5. /\ Replace(Rest)
        /\ queued_events' = IF ev \in KeyEvents THEN Append(queued_events, [left |-> 0, ev |-> ev])
                                                ELSE queued_events
        /\ sent' = <<>> /\ UNCHANGED <<channel, machine, control, pc, timeout, key_opt>>
    BY <1>1, <2>2, <2>3, <2>4 DEF TranslateBasic
  <2>6. stack' = <<Over(ev)>>
    <3>1. stack' = <<Over(ev)>> \o <<>>
      BY <2>1, <2>5 DEF Replace
    <3> QED BY <3>1
  <2>7. Carried = ev
    BY <1>3, <1>5, <2>1 DEF Carried
  <2>8. Top' = Over(ev) /\ Top'.outputs = <<>>
    <3>1. Top' = Over(ev)
      BY <2>6, Zenon, Singles DEF Top
    <3>2. Over(ev).outputs = <<>>
      BY Singles
    <3> QED BY <3>1, <3>2
  <2>9. CASE ev \in KeyEvents
    <3>1. ev \in Keystrokes
      BY <2>4, <2>9, InputIsKey DEF WayInv
    <3>2. queued_events' = <<DueNow(ev)>>
      BY <1>5, <2>5, <2>9 DEF DueNow
    <3>3. Carried' = ev
      BY <3>2, Singles DEF Carried
    <3> QED BY <1>3, <2>5, <2>6, <2>7, <3>1, <3>2, <3>3 DEF PlainNext, PlainShape, Goes
  <2>10. CASE ev \notin KeyEvents
    <3>1. ev = Focus /\ queued_events' = <<>>
      BY <1>5, <2>4, <2>5, <2>10, InputIsKey DEF WayInv
    <3>2. Carried' = None
      BY <1>3, <2>5, <2>8, <3>1 DEF Carried
    <3> QED BY <1>3, <2>5, <2>6, <2>7, <3>1, <3>2 DEF PlainNext, PlainShape, Goes
  <2> QED BY <2>9, <2>10
<1>6. CASE stack = <<Over(ev)>>
  <2>1. /\ Top = Over(ev) /\ Top.binds = <<>> /\ Top.outputs = <<>> /\ Top.redo = <<>>
        /\ Tail(stack) = <<>>
    <3>1. Top = Over(ev) /\ Tail(stack) = <<>>
      BY <1>6, Zenon, Singles DEF Top
    <3>2. Over(ev).outputs = <<>> /\ Over(ev).binds = <<>> /\ Over(ev).redo = <<>>
      BY Singles
    <3> QED BY <3>1, <3>2
  <2>2. Return
    BY <1>2, <2>1 DEF QueueOutput, QueueWait, SwapLayer, DeferInput, TranslateBasic, OutputBind,
       RedoInput, NextOutput
  <2>3. /\ stack' = <<>> /\ sent' = <<>>
        /\ UNCHANGED <<channel, machine, queued_events, control, pc, timeout, key_opt>>
    BY <2>1, <2>2 DEF Return
  <2>4. Carried' = Carried
    BY <2>1, <2>3 DEF Carried
  <2> QED BY <1>3, <2>3, <2>4 DEF PlainNext, PlainShape, Goes
<1> QED BY <1>4, <1>5, <1>6

LEMMA PlainTurn ==
  ASSUME WayInv, UnderPlain, PlainShape, MapperStep
  PROVE  PlainNext /\ \E out : Goes(out)
BY PlainLoop, PlainActivation DEF MapperStep

LEMMA ShapePrimed ==
  ASSUME platform' = platform, PlainNext
  PROVE  PlainShape'
<1>1. Keystrokes' = Keystrokes
  BY WayUnchanged DEF WaySets
<1>2. FromKeyboard' = FromKeyboard
  BY <1>1, Zenon DEF FromKeyboard
<1> QED BY <1>1, <1>2, Zenon DEF PlainNext, PlainShape, Begun, Over, DueNow

LEMMA ShapeStays ==
  ASSUME platform' = platform, PlainShape,
         UNCHANGED <<cur_layer_idx, cur_state_idx, current_timer, pc, stack, queued_events>>
  PROVE  PlainShape' /\ (key_opt' = key_opt => Carried' = Carried)
<1>1. PlainNext
  BY DEF PlainNext, PlainShape
<1>2. key_opt' = key_opt => Carried' = Carried
  BY DEF Carried, Top
<1> QED BY <1>1, <1>2, ShapePrimed

LEMMA InitPlain == PathInit => PlainInv
<1> SUFFICES ASSUME PathInit, UnderPlain PROVE PlainShape
  BY DEF PlainInv
<1>1. cur_layer_idx = 1
  BY PlainAssumption DEF PathInit, Init, UnderPlain
<1> QED BY <1>1 DEF PathInit, Init, PlainShape

\* Under the default profile no time is waited for.
LEMMA PlainNeverTicks ==
  ASSUME PlainShape
  PROVE  ~Tick
<1>1. \A n \in 1 .. Len(queued_events) : ~(queued_events[n].left > 0)
  <2>1. CASE queued_events = <<>>
    BY <2>1
  <2>2. ASSUME NEW ev \in Keystrokes, queued_events = <<DueNow(ev)>>
        PROVE  \A n \in 1 .. Len(queued_events) : ~(queued_events[n].left > 0)
    <3>1. Len(<<DueNow(ev)>>) = 1 /\ <<DueNow(ev)>>[1] = DueNow(ev) /\ DueNow(ev).left = 0
      BY DEF DueNow
    <3>2. \A n \in 1 .. 1 : n = 1
      OBVIOUS
    <3> QED BY <2>2, <3>1, <3>2
  <2> QED BY <2>1, <2>2 DEF PlainShape
<1> QED BY <1>1 DEF PlainShape, Tick

\* A call of the main thread finds nothing in hand but an input.
LEMMA PlainCall ==
  ASSUME WayInv, PlainInv, ActivationsInTurn, MainCall, UnderPlain'
  PROVE  /\ PlainNext
         /\ UNCHANGED <<queue, key_opt, system>>
         /\ UnderPlain => queued_events = <<>> /\ stack = <<>>
<1>1. /\ ended = None /\ ~disturbed
      /\ \/ held = {} /\ Quiet
         \/ {installed, installed'} = {Build[Plain]}
  BY DEF MainCall, UnderPlain, Running
<1>2. pc \notin {"key", "flush"}
  BY DEF MainCall, SetProfile, Pause, Resume, MainThread, HoldsMutex
<1>3. /\ queued_events = <<>> /\ stack = <<>> /\ pc \in {"check", "wait", "lock"}
      /\ UnderPlain => PlainShape
  <2>1. CASE UnderPlain
    BY <1>2, <2>1 DEF PlainInv, PlainShape
  <2>2. CASE ~UnderPlain
    <3>1. installed # Build[Plain]
      BY <1>1, <2>2 DEF UnderPlain
    <3>2. {installed, installed'} # {Build[Plain]}
      BY <3>1
    <3>3. Quiet
      BY <1>1, <3>2
    <3>4. stack = <<>>
      BY <3>3 DEF Quiet, ActivationsInTurn
    <3> QED BY <2>2, <3>3, <3>4 DEF Quiet
  <2> QED BY <2>1, <2>2
<1>4. ASSUME NEW p \in Profiles, SetProfile(p)
      PROVE  PlainNext
  <2>1. /\ installed' = Build[Plain] /\ Build[p] = Build[Plain]
        /\ cur_layer_idx' = 1 /\ cur_state_idx' = HOME_STATE_IDX /\ current_timer' = None
    BY <1>4, PlainAssumption DEF SetProfile, SetLayerInner, UnderPlain
  <2>2. Build[p].default_layer \in 1 .. Len(Build[p].layers)
    BY <2>1, PlainAssumption
  <2>3. UNCHANGED <<pc, stack, queued_events>>
    BY <1>4, <2>2 DEF SetProfile
  <2> QED BY <1>3, <2>1, <2>3 DEF PlainNext
<1>5. ASSUME Pause \/ Resume
      PROVE  PlainNext
  <2>1. installed' = installed
    BY <1>5 DEF Pause, Resume, machine
  <2>2. UnderPlain
    BY <1>1, <2>1 DEF UnderPlain
  <2>3. /\ UNCHANGED <<cur_layer_idx, cur_state_idx, pc, stack>>
        /\ queued_events' \in {queued_events, <<>>}
        /\ current_timer' \in {current_timer, None}
    BY <1>5 DEF Pause, Resume, machine, thread
  <2>4. cur_layer_idx = 1 /\ cur_state_idx = HOME_STATE_IDX /\ current_timer = None
    BY <1>3, <2>2 DEF PlainShape
  <2>5. queued_events' = <<>> /\ stack' = <<>> /\ current_timer' = None
    BY <1>3, <2>3, <2>4
  <2>6. cur_layer_idx' = 1 /\ cur_state_idx' = HOME_STATE_IDX /\ pc' = pc
    BY <2>3, <2>4
  <2> QED BY <1>3, <2>5, <2>6 DEF PlainNext
<1>6. UNCHANGED <<queue, key_opt, system>>
  BY DEF MainCall, SetProfile, Pause, Resume, channel, thread
<1> QED BY <1>3, <1>4, <1>5, <1>6 DEF MainCall

LEMMA TurnKeepsProfile ==
  ASSUME MapperTurn
  PROVE  installed' = installed /\ disturbed' = disturbed /\ ended = None /\ MapperStep
BY DEF MapperTurn, Running, MapperStep, LoopTest, WaitKey, CheckTimer, ProcessKey,
   CheckQueuedEvents, QueueOutput, QueueWait, SwapLayer, SetLayerInner, DeferInput,
   TranslateBasic, OutputBind, RedoInput, TakeTransition, ForwardRaw, ApplyTransition, Return,
   Throw, machine

LEMMA AroundKeeps ==
  ASSUME \/ User \/ ReadKey \/ FocusChange \/ DanglingFocusChange \/ StartClient
  PROVE  /\ UNCHANGED <<installed, cur_layer_idx, cur_state_idx, current_timer, pc, stack,
                        queued_events, key_opt>>
         /\ ended = None /\ (disturbed => disturbed')
<1>1. CASE User \/ DanglingFocusChange \/ StartClient
  BY <1>1 DEF User, TypeKey, DanglingFocusChange, StartClient, ToOtherApplication, Running, vars,
     machine, thread
<1>2. CASE FocusChange
  BY <1>2 DEF FocusChange, ToOtherApplication, SendKey, Running, machine, thread
<1>3. CASE ReadKey
  <2>1. ToMapper(Head(source)) => UNCHANGED <<machine, queued_events, thread>>
    BY DEF ToMapper, SendKey
  <2>2. UNCHANGED <<machine, queued_events, thread>>
    BY <1>3, <2>1 DEF ReadKey, LinuxRead, HookProc, HandleInputEvent, vars
  <2>3. ended = None
    BY <1>3 DEF ReadKey, Running
  <2>4. disturbed => disturbed'
    BY <1>3 DEF ReadKey, LinuxRead, HookProc, HandleInputEvent
  <2> QED BY <2>2, <2>3, <2>4 DEF machine, thread
<1> QED BY <1>1, <1>2, <1>3

LEMMA NextPlain ==
  ASSUME WayInv, PlainInv, ActivationsInTurn, PathNext, UnderPlain'
  PROVE  PlainShape'
<1>1. platform' = platform
  BY PathStep DEF WayInv
<1>2. CASE MapperTurn
  <2>1. UnderPlain /\ MapperStep
    BY <1>2, TurnKeepsProfile DEF UnderPlain
  <2> QED BY <1>1, <2>1, PlainTurn, ShapePrimed DEF PlainInv
<1>3. CASE MainCall
  BY <1>1, <1>3, PlainCall, ShapePrimed
<1>4. CASE User \/ ReadKey \/ FocusChange \/ DanglingFocusChange \/ StartClient
  <2>1. UnderPlain
    BY <1>4, AroundKeeps DEF UnderPlain
  <2> QED BY <1>1, <1>4, <2>1, AroundKeeps, ShapeStays DEF PlainInv
<1>5. CASE Wait
  <2>1. UnderPlain /\ Tick
    BY <1>5 DEF Wait, path, Tick, UnderPlain
  <2> QED BY <2>1, PlainNeverTicks DEF PlainInv
<1> QED BY <1>2, <1>3, <1>4, <1>5 DEF PathNext

-----------------------------------------------------------------------------
(* The strokes on their way, from the desktop back to the keyboard.         *)

Way(events, inHand, inputs) ==
  Cat(FromSource(events, TRUE),
      Cat(KeyStroke(inHand), Cat(AsStrokes(inputs), FromSource(events, FALSE))))

LEMMA WayTyped ==
  ASSUME platform \in Platforms, NEW s \in Seq(SourceEvents), NEW c \in Inputs, NEW q \in Seq(Inputs)
  PROVE  /\ FromSource(s, TRUE) \in Seq(MappedStrokes) /\ FromSource(s, FALSE) \in Seq(MappedStrokes)
         /\ KeyStroke(c) \in Seq(MappedStrokes) /\ AsStrokes(q) \in Seq(MappedStrokes)
         /\ Way(s, c, q) \in Seq(MappedStrokes)
<1>1. /\ FromSource(s, TRUE) \in Seq(MappedStrokes) /\ FromSource(s, FALSE) \in Seq(MappedStrokes)
      /\ KeyStroke(c) \in Seq(MappedStrokes) /\ AsStrokes(q) \in Seq(MappedStrokes)
  BY StrokesOfSource, StrokesOfList, StrokeOrNone DEF Inputs
<1> QED BY <1>1, CatTyped DEF Way

Six(a, b, c, d, e, f) == a \o b \o c \o d \o e \o f

\* Five joins from the left, with one of three parts in the middle.
LEMMA Regroup ==
  ASSUME NEW S, NEW a \in Seq(S), NEW x \in Seq(S), NEW e \in Seq(S), NEW f \in Seq(S)
  PROVE  /\ Six(a, x, <<>>, <<>>, e, f) = Cat(a, Cat(x, Cat(e, f)))
         /\ Six(a, <<>>, x, <<>>, e, f) = Cat(a, Cat(x, Cat(e, f)))
         /\ Six(a, <<>>, <<>>, x, e, f) = Cat(a, Cat(x, Cat(e, f)))
<1>1. Cat(a, x) \in Seq(S) /\ Cat(e, f) \in Seq(S)
  BY CatTyped
<1>2. Cat(a, <<>>) = a /\ Cat(Cat(a, x), <<>>) = Cat(a, x)
  BY <1>1, CatTyped
<1>3. Cat(Cat(Cat(a, x), e), f) = Cat(a, Cat(x, Cat(e, f)))
  BY <1>1, CatAssociative
<1> QED BY <1>2, <1>3, Zenon DEF Cat, Six

\* The lists in hand as one input.
LEMMA InHand ==
  ASSUME WayInv, PlainShape
  PROVE  /\ Carried \in Inputs
         /\ \/ /\ AsStrokes(Due) = KeyStroke(Carried)
               /\ AsStrokes(InTurn) = <<>> /\ AsStrokes(<<key_opt>>) = <<>>
            \/ /\ AsStrokes(InTurn) = KeyStroke(Carried)
               /\ AsStrokes(Due) = <<>> /\ AsStrokes(<<key_opt>>) = <<>>
            \/ /\ AsStrokes(<<key_opt>>) = KeyStroke(Carried)
               /\ AsStrokes(Due) = <<>> /\ AsStrokes(InTurn) = <<>>
<1>p. platform \in Platforms /\ key_opt \in Inputs /\ None \in Inputs /\ KeyStroke(None) = <<>>
  BY DEF WayInv, Inputs, KeyStroke, OneIf
<1>f. AsStrokes(<<>>) = <<>> /\ \A ev \in Inputs : AsStrokes(<<ev>>) = KeyStroke(ev)
  BY <1>p, StrokesOfFew
<1>k. pc = "flush" => key_opt = None
  BY DEF WayInv, KeyInTurn
<1>e. queued_events = <<>> => Due = <<>>
  BY DEF Due
<1>o. \A ev : stack = <<Over(ev)>> => InTurn = <<>>
  <2> TAKE ev
  <2>1. stack = <<Over(ev)>> => Top = Over(ev)
    BY Zenon, Singles DEF Top
  <2>2. Over(ev).outputs = <<>>
    BY Singles
  <2> QED BY <2>1, <2>2 DEF InTurn
<1>1. ASSUME NEW ev \in Keystrokes, queued_events = <<DueNow(ev)>>
      PROVE  Carried = ev /\ Due = <<ev>> /\ InTurn = <<>> /\ key_opt = None /\ ev \in Inputs
  <2>1. queued_events # <<>> /\ Len(queued_events) = 1 /\ queued_events[1] = DueNow(ev)
        /\ DueNow(ev).ev = ev
    BY <1>1 DEF DueNow
  <2>2. Carried = ev
    BY <2>1 DEF Carried
  <2>3. Due = <<ev>>
    <3>1. \A n \in 1 .. 1 : queued_events[n].ev = ev
      BY <2>1
    <3>2. [n \in 1 .. 1 |-> queued_events[n].ev] = <<ev>>
      BY <3>1
    <3> QED BY <2>1, <3>2 DEF Due
  <2>4. pc = "flush"
    BY <2>1 DEF PlainShape
  <2>5. InTurn = <<>>
    <3>1. stack = <<>> \/ \E i \in FromKeyboard : stack = <<Over(i)>>
      BY <2>1 DEF PlainShape
    <3>2. stack = <<>> => InTurn = <<>>
      BY DEF InTurn
    <3> QED BY <1>o, <3>1, <3>2
  <2> QED BY <1>k, <2>2, <2>3, <2>4, <2>5 DEF Inputs, FromKeyboard
<1>2. ASSUME NEW ev \in FromKeyboard, stack = <<Begun(ev)>>, queued_events = <<>>
      PROVE  Carried = ev /\ InTurn = <<ev>> /\ key_opt = None /\ ev \in Inputs
  <2>1. stack # <<>> /\ Top = Begun(ev)
    BY <1>2, Zenon, Singles DEF Top
  <2>2. Begun(ev).outputs # <<>> /\ Begun(ev).prev = ev
    BY Singles
  <2>3. pc = "flush"
    BY <2>1 DEF PlainShape
  <2> QED BY <1>k, <1>2, <2>1, <2>2, <2>3 DEF Carried, InTurn, Inputs
<1>3. ASSUME queued_events = <<>>, stack = <<>> \/ \E ev \in FromKeyboard : stack = <<Over(ev)>>
      PROVE  Carried = key_opt /\ InTurn = <<>>
  <2>1. InTurn = <<>>
    BY <1>o, <1>3 DEF InTurn
  <2>2. ASSUME NEW ev, stack = <<Over(ev)>> PROVE Top.outputs = <<>>
    <3>1. Top = Over(ev)
      BY <2>2, Zenon, Singles DEF Top
    <3>2. Over(ev).outputs = <<>>
      BY Singles
    <3> QED BY <3>1, <3>2
  <2>3. Carried = key_opt
    BY <1>3, <2>2 DEF Carried
  <2> QED BY <2>1, <2>3
<1>4. CASE \E ev \in Keystrokes : queued_events = <<DueNow(ev)>>
  BY <1>1, <1>4, <1>f, <1>p
<1>5. CASE queued_events = <<>>
  <2>1. CASE \E ev \in FromKeyboard : stack = <<Begun(ev)>>
    BY <1>2, <1>5, <2>1, <1>e, <1>f, <1>p
  <2>2. CASE stack = <<>> \/ \E ev \in FromKeyboard : stack = <<Over(ev)>>
    BY <1>3, <1>5, <2>2, <1>e, <1>f, <1>p
  <2> QED BY <1>5, <2>1, <2>2 DEF PlainShape
<1> QED BY <1>4, <1>5 DEF PlainShape

LEMMA WayIs == WayInv /\ PlainShape => OnItsWay = Way(source, Carried, queue) /\ Carried \in Inputs
<1> SUFFICES ASSUME WayInv, PlainShape
             PROVE  OnItsWay = Way(source, Carried, queue) /\ Carried \in Inputs
  OBVIOUS
<1> DEFINE a == FromSource(source, TRUE)
           x == KeyStroke(Carried)
           e == AsStrokes(queue)
           f == FromSource(source, FALSE)
<1>1. Carried \in Inputs
  BY InHand
<1>2. a \in Seq(MappedStrokes) /\ x \in Seq(MappedStrokes) /\ e \in Seq(MappedStrokes)
      /\ f \in Seq(MappedStrokes)
  BY <1>1, WayTyped DEF WayInv
<1>3. /\ Six(a, x, <<>>, <<>>, e, f) = Way(source, Carried, queue)
      /\ Six(a, <<>>, x, <<>>, e, f) = Way(source, Carried, queue)
      /\ Six(a, <<>>, <<>>, x, e, f) = Way(source, Carried, queue)
  <2>1. Way(source, Carried, queue) = Cat(a, Cat(x, Cat(e, f)))
    BY Zenon DEF Way
  <2> DEFINE S == MappedStrokes
  <2> HIDE DEF a, x, e, f, S
  <2>2. a \in Seq(S) /\ x \in Seq(S) /\ e \in Seq(S) /\ f \in Seq(S)
    BY <1>2, Zenon DEF S
  <2> QED BY <2>1, <2>2, Regroup
<1>4. OnItsWay = Way(source, Carried, queue)
  <2>4. OnItsWay = Six(a, AsStrokes(Due), AsStrokes(InTurn), AsStrokes(<<key_opt>>), e, f)
    BY Zenon DEF OnItsWay, Six
  <2>1. CASE /\ AsStrokes(Due) = x /\ AsStrokes(InTurn) = <<>> /\ AsStrokes(<<key_opt>>) = <<>>
    BY <1>3, <2>4, <2>1, Zenon
  <2>2. CASE /\ AsStrokes(InTurn) = x /\ AsStrokes(Due) = <<>> /\ AsStrokes(<<key_opt>>) = <<>>
    BY <1>3, <2>4, <2>2, Zenon
  <2>3. CASE /\ AsStrokes(<<key_opt>>) = x /\ AsStrokes(Due) = <<>> /\ AsStrokes(InTurn) = <<>>
    BY <1>3, <2>4, <2>3, Zenon
  <2> QED BY <2>1, <2>2, <2>3, InHand, Zenon
<1> QED BY <1>1, <1>4

LEMMA WayPrimed ==
  ASSUME platform' = platform, WayInv', PlainShape'
  PROVE  OnItsWay' = Way(source', Carried', queue') /\ Carried' \in Inputs
<1>1. table' = table /\ Mapped' = Mapped
  BY DEF table, Mapped
<1>2. AsStrokes(queue)' = AsStrokes(queue')
  BY <1>1, Zenon DEF AsStrokes, KeyStroke, RawKey
<1>3. FromSource(source, TRUE)' = FromSource(source', TRUE)
  BY <1>1, Zenon DEF FromSource, SourceStroke
<1>4. FromSource(source, FALSE)' = FromSource(source', FALSE)
  BY <1>1, Zenon DEF FromSource, SourceStroke
<1>5. KeyStroke(Carried)' = KeyStroke(Carried')
  BY <1>1, Zenon DEF KeyStroke, RawKey
<1>6. (OnItsWay = Way(source, Carried, queue) /\ Carried \in Inputs)'
  <2>1. (WayInv /\ PlainShape => OnItsWay = Way(source, Carried, queue) /\ Carried \in Inputs)'
    BY WayIs, PTL
  <2> QED BY <2>1
<1>7. Way(source, Carried, queue)' = Way(source', Carried', queue')
  BY <1>2, <1>3, <1>4, <1>5, Zenon DEF Way
<1>8. Inputs' = Inputs
  BY WayUnchanged DEF WaySets
<1> QED BY <1>6, <1>7, <1>8

\* A key that is typed goes to the end.
LEMMA WayGrows ==
  ASSUME platform \in Platforms, NEW s \in Seq(SourceEvents), NEW c \in Inputs, NEW q \in Seq(Inputs),
         NEW e \in SourceEvents, ~e.injected
  PROVE  Way(Append(s, e), c, q) = Cat(Way(s, c, q), SourceStroke(e, FALSE))
<1> DEFINE S == MappedStrokes
           a == FromSource(s, TRUE)
           x == KeyStroke(c)
           i == AsStrokes(q)
           f == FromSource(s, FALSE)
           n == SourceStroke(e, FALSE)
<1>1. a \in Seq(S) /\ x \in Seq(S) /\ i \in Seq(S) /\ f \in Seq(S)
  BY WayTyped
<1>2. n \in Seq(S)
  BY SourceStrokesAre DEF Maps, SourceStrokeOf
<1>3. SourceStroke(e, TRUE) = <<>>
  BY DEF SourceStroke, OneIf
<1>4. FromSource(Append(s, e), TRUE) = Cat(a, <<>>) /\ FromSource(Append(s, e), FALSE) = Cat(f, n)
  BY <1>3, StrokesOfSource
<1>5. Way(Append(s, e), c, q) = Cat(a, Cat(x, Cat(i, Cat(f, n))))
      /\ Way(s, c, q) = Cat(a, Cat(x, Cat(i, f)))
  <2>1. FromSource(Append(s, e), TRUE) = a
    BY <1>1, <1>4, CatTyped
  <2> QED BY <1>4, <2>1, Zenon DEF Way
<1> HIDE DEF S, a, x, i, f, n
<1>6. Cat(i, f) \in Seq(S) /\ Cat(x, Cat(i, f)) \in Seq(S)
  BY <1>1, CatTyped
<1>7. /\ Cat(i, Cat(f, n)) = Cat(Cat(i, f), n)
      /\ Cat(x, Cat(Cat(i, f), n)) = Cat(Cat(x, Cat(i, f)), n)
      /\ Cat(a, Cat(Cat(x, Cat(i, f)), n)) = Cat(Cat(a, Cat(x, Cat(i, f))), n)
  BY <1>1, <1>2, <1>6, CatAssociative
<1> QED BY <1>5, <1>7, Zenon DEF n

\* A key the mapper gets moves from the one list to the other.
LEMMA WayPasses ==
  ASSUME platform \in Platforms, NEW s \in Seq(SourceEvents), s # <<>>, NEW c \in Inputs,
         NEW q \in Seq(Inputs), NEW ev \in Inputs, ~Head(s).injected,
         SourceStroke(Head(s), FALSE) = KeyStroke(ev)
  PROVE  Way(Tail(s), c, Append(q, ev)) = Way(s, c, q)
<1> DEFINE S == MappedStrokes
           i == AsStrokes(q)
           g == FromSource(Tail(s), FALSE)
           n == KeyStroke(ev)
<1>1. Tail(s) \in Seq(SourceEvents) /\ Head(s) \in SourceEvents
  BY HeadTailProperties
<1>2. i \in Seq(S) /\ g \in Seq(S) /\ n \in Seq(S) /\ FromSource(Tail(s), TRUE) \in Seq(S)
  BY <1>1, WayTyped
<1>3. SourceStroke(Head(s), TRUE) = <<>>
  BY DEF SourceStroke, OneIf
<1>4. FromSource(s, TRUE) = FromSource(Tail(s), TRUE) /\ FromSource(s, FALSE) = Cat(n, g)
  <2>1. FromSource(s, TRUE) = Cat(<<>>, FromSource(Tail(s), TRUE))
    BY <1>3, StrokesOfSource
  <2>2. FromSource(s, FALSE) = Cat(n, g)
    BY StrokesOfSource
  <2> QED BY <1>2, <2>1, <2>2, CatTyped
<1>5. AsStrokes(Append(q, ev)) = Cat(i, n)
  BY StrokesOfList
<1>6. Cat(Cat(i, n), g) = Cat(i, Cat(n, g))
  <2> HIDE DEF i, n, g, S
  <2> QED BY <1>2, CatAssociative
<1> QED BY <1>4, <1>5, <1>6, Zenon DEF Way

\* An event the mapper does not get is the first on its way, or none.
LEMMA WayLeaves ==
  ASSUME platform \in Platforms, NEW s \in Seq(SourceEvents), s # <<>>, NEW c \in Inputs,
         NEW q \in Seq(Inputs), SourceStroke(Head(s), FALSE) = <<>>
  PROVE  Way(s, c, q) = Cat(SourceStroke(Head(s), TRUE), Way(Tail(s), c, q))
<1> DEFINE S == MappedStrokes
           n == SourceStroke(Head(s), TRUE)
           a == FromSource(Tail(s), TRUE)
           g == FromSource(Tail(s), FALSE)
           r == Cat(KeyStroke(c), Cat(AsStrokes(q), g))
<1>1. Tail(s) \in Seq(SourceEvents) /\ Head(s) \in SourceEvents
  BY HeadTailProperties
<1>2. a \in Seq(S) /\ g \in Seq(S) /\ KeyStroke(c) \in Seq(S) /\ AsStrokes(q) \in Seq(S)
  BY <1>1, WayTyped
<1>3. r \in Seq(S)
  BY <1>2, CatTyped
<1>4. n \in Seq(S)
  BY <1>1, SourceStrokesAre DEF Maps, SourceStrokeOf
<1>5. FromSource(s, TRUE) = Cat(n, a) /\ FromSource(s, FALSE) = g
  BY <1>1, <1>2, StrokesOfSource, CatTyped
<1>6. Way(s, c, q) = Cat(Cat(n, a), r) /\ Way(Tail(s), c, q) = Cat(a, r)
  BY <1>5, Zenon DEF Way
<1>7. Cat(Cat(n, a), r) = Cat(n, Cat(a, r))
  <2> HIDE DEF n, a, r, S
  <2> QED BY <1>2, <1>3, <1>4, CatAssociative
<1> QED BY <1>6, <1>7, Zenon

\* The thread takes the first input.
LEMMA WayTakes ==
  ASSUME platform \in Platforms, NEW s \in Seq(SourceEvents), NEW q \in Seq(Inputs), q # <<>>
  PROVE  Way(s, Head(q), Tail(q)) = Way(s, None, q)
<1> DEFINE S == MappedStrokes
           h == KeyStroke(Head(q))
           i == AsStrokes(Tail(q))
           f == FromSource(s, FALSE)
<1>1. Head(q) \in Inputs /\ Tail(q) \in Seq(Inputs) /\ None \in Inputs
  BY HeadTailProperties DEF Inputs
<1>2. h \in Seq(S) /\ i \in Seq(S) /\ f \in Seq(S)
  BY <1>1, WayTyped
<1>3. KeyStroke(None) = <<>>
  BY DEF KeyStroke, OneIf
<1>4. AsStrokes(q) = Cat(h, i)
  BY StrokesOfList
<1>5. Cat(h, Cat(i, f)) = Cat(Cat(h, i), f) /\ Cat(<<>>, Cat(Cat(h, i), f)) = Cat(Cat(h, i), f)
  <2> HIDE DEF h, i, f, S
  <2>1. Cat(h, i) \in Seq(S) /\ Cat(Cat(h, i), f) \in Seq(S)
    BY <1>2, CatTyped
  <2> QED BY <1>2, <2>1, CatAssociative, CatTyped
<1> QED BY <1>3, <1>4, <1>5, Zenon DEF Way

\* What leaves the thread is the first on its way, or goes back to the daemon.
LEMMA WaySends ==
  ASSUME platform \in Platforms, NEW s \in Seq(SourceEvents), NEW c \in Inputs, NEW q \in Seq(Inputs)
  PROVE  /\ FromSource(s, TRUE) = <<>> => Way(s, c, q) = Cat(KeyStroke(c), Way(s, None, q))
         /\ \A e \in SourceEvents :
              SourceStroke(e, TRUE) = KeyStroke(c) /\ SourceStroke(e, FALSE) = <<>>
                => Way(Append(s, e), None, q) = Way(s, c, q)
<1> DEFINE S == MappedStrokes
           a == FromSource(s, TRUE)
           x == KeyStroke(c)
           r == Cat(AsStrokes(q), FromSource(s, FALSE))
<1>1. a \in Seq(S) /\ x \in Seq(S) /\ AsStrokes(q) \in Seq(S) /\ FromSource(s, FALSE) \in Seq(S)
  BY WayTyped
<1>2. r \in Seq(S)
  BY <1>1, CatTyped
<1>3. KeyStroke(None) = <<>>
  BY DEF KeyStroke, OneIf
<1>4. Way(s, c, q) = Cat(a, Cat(x, r)) /\ Way(s, None, q) = Cat(a, Cat(<<>>, r))
  BY <1>3, Zenon DEF Way
<1>5. Cat(<<>>, r) = r /\ Cat(<<>>, Cat(x, r)) = Cat(x, r) /\ Cat(x, r) \in Seq(S)
      /\ Cat(Cat(a, x), r) = Cat(a, Cat(x, r))
  <2> HIDE DEF a, x, r, S
  <2>1. Cat(x, r) \in Seq(S)
    BY <1>1, <1>2, CatTyped
  <2> QED BY <1>1, <1>2, <2>1, CatTyped, CatAssociative
<1>6. ASSUME a = <<>> PROVE Way(s, c, q) = Cat(x, Way(s, None, q))
  BY <1>4, <1>5, <1>6, Zenon
<1>7. ASSUME NEW e \in SourceEvents, SourceStroke(e, TRUE) = x, SourceStroke(e, FALSE) = <<>>
      PROVE  Way(Append(s, e), None, q) = Way(s, c, q)
  <2>1. FromSource(Append(s, e), TRUE) = Cat(a, x)
        /\ FromSource(Append(s, e), FALSE) = Cat(FromSource(s, FALSE), <<>>)
    BY <1>7, StrokesOfSource
  <2>2. FromSource(Append(s, e), FALSE) = FromSource(s, FALSE)
    BY <1>1, <2>1, CatTyped
  <2>3. Way(Append(s, e), None, q) = Cat(Cat(a, x), Cat(<<>>, r))
    BY <1>3, <2>1, <2>2, Zenon DEF Way
  <2> QED BY <1>4, <1>5, <2>3, Zenon
<1> QED BY <1>6, <1>7

\* The focus is no stroke.
LEMMA WayIgnoresFocus ==
  ASSUME platform \in Platforms, NEW s \in Seq(SourceEvents), NEW c \in Inputs, NEW q \in Seq(Inputs)
  PROVE  /\ Way(s, Focus, q) = Way(s, None, q)
         /\ Way(s, c, Append(q, Focus)) = Way(s, c, q)
<1>1. KeyStroke(Focus) = <<>> /\ KeyStroke(None) = <<>> /\ Focus \in Inputs
  BY DEF KeyStroke, OneIf, Inputs, FromKeyboard
<1>2. AsStrokes(Append(q, Focus)) = Cat(AsStrokes(q), <<>>)
  BY <1>1, StrokesOfList
<1>3. AsStrokes(Append(q, Focus)) = AsStrokes(q)
  <2>1. AsStrokes(q) \in Seq(MappedStrokes)
    BY WayTyped
  <2> QED BY <1>2, <2>1, CatTyped
<1> QED BY <1>1, <1>3, Zenon DEF Way

-----------------------------------------------------------------------------
(* A batch of one key, and the empty batch.                                 *)

After(f, keys, n) ==
  IF n = 0 THEN desktop ELSE Switch(f[n - 1], RawKey(keys[n]), keys[n].type = "Press")

LEMMA WrittenIs ==
  ASSUME NEW keys, NEW g, g = [n \in 0 .. Len(keys) |-> After(g, keys, n)]
  PROVE  \E f : f = [n \in 0 .. Len(keys) |-> After(f, keys, n)] /\ Written(keys) = f[Len(keys)]
<1> DEFINE f == CHOOSE f : f = [n \in 0 .. Len(keys) |-> After(f, keys, n)]
<1>1. f = [n \in 0 .. Len(keys) |-> After(f, keys, n)]
  BY Zenon
<1>2. Written(keys) = f[Len(keys)]
  BY Zenon DEF Written, After
<1> QED BY <1>1, <1>2, Zenon

LEMMA WrittenFew ==
  ASSUME NEW ev
  PROVE  /\ Written(<<>>) = desktop
         /\ Written(<<ev>>) = Switch(desktop, RawKey(ev), ev.type = "Press")
<1>1. Written(<<>>) = desktop
  <2> DEFINE g == [n \in 0 .. 0 |-> desktop]
  <2>1. Len(<<>>) = 0 /\ g = [n \in 0 .. 0 |-> After(g, <<>>, n)]
    BY DEF After
  <2> HIDE DEF g
  <2>2. PICK f : f = [n \in 0 .. Len(<<>>) |-> After(f, <<>>, n)] /\ Written(<<>>) = f[Len(<<>>)]
    BY <2>1, WrittenIs
  <2>3. f[0] = After(f, <<>>, 0)
    BY <2>1, <2>2
  <2> QED BY <2>1, <2>2, <2>3 DEF After
<1>2. Written(<<ev>>) = Switch(desktop, RawKey(ev), ev.type = "Press")
  <2> DEFINE keys == <<ev>>
             last == Switch(desktop, RawKey(ev), ev.type = "Press")
             g == [n \in 0 .. 1 |-> IF n = 0 THEN desktop ELSE last]
  <2>1. Len(keys) = 1 /\ keys[1] = ev
    OBVIOUS
  <2> HIDE DEF keys
  <2>2. g[0] = desktop /\ g[1] = last /\ \A n \in 0 .. 1 : n = 0 \/ n = 1
    OBVIOUS
  <2>3. \A n \in 0 .. 1 : g[n] = After(g, keys, n)
    <3>1. g[0] = After(g, keys, 0)
      BY <2>2 DEF After
    <3>2. g[1] = After(g, keys, 1)
      <4>1. g[1 - 1] = desktop
        BY <2>2
      <4> QED BY <2>1, <2>2, <4>1 DEF After
    <3> QED BY <2>2, <3>1, <3>2
  <2>4. g = [n \in 0 .. 1 |-> g[n]]
    OBVIOUS
  <2> HIDE DEF g, last
  <2>5. g = [n \in 0 .. Len(keys) |-> After(g, keys, n)]
    BY <2>1, <2>3, <2>4
  <2>6. PICK f : f = [n \in 0 .. Len(keys) |-> After(f, keys, n)] /\ Written(keys) = f[Len(keys)]
    BY <2>5, WrittenIs
  <2>7. f[0] = After(f, keys, 0) /\ f[1] = After(f, keys, 1)
    BY <2>1, <2>6
  <2>8. f[0] = desktop
    BY <2>7 DEF After
  <2>9. f[1 - 1] = desktop
    BY <2>8
  <2>10. f[1] = last
    BY <2>1, <2>7, <2>9 DEF After, last
  <2> QED BY <2>1, <2>6, <2>10 DEF keys, last
<1> QED BY <1>1, <1>2

LEMMA SendableFew ==
  ASSUME NEW ev, ev \notin Scripts, ~Unsendable(ev)
  PROVE  /\ KeysOf(<<>>) = <<>> /\ Sendable(<<>>) = <<>>
         /\ KeysOf(<<ev>>) = <<ev>> /\ Sendable(<<ev>>) = <<ev>>
<1>1. KeysOf(<<>>) = <<>>
  <2>1. [n \in 1 .. Len(<<>>) |-> OneIf(<<>>[n] \notin Scripts, <<>>[n])] = <<>>
    OBVIOUS
  <2> QED BY <2>1, FlatNone, Zenon DEF KeysOf
<1>2. KeysOf(<<ev>>) = <<ev>>
  <2> DEFINE batch == <<ev>>
  <2>1. Len(batch) = 1 /\ batch[1] = ev
    OBVIOUS
  <2> HIDE DEF batch
  <2>2. \A n \in 1 .. 1 : OneIf(batch[n] \notin Scripts, batch[n]) = <<ev>>
    BY <2>1 DEF OneIf
  <2>3. [n \in 1 .. 1 |-> OneIf(batch[n] \notin Scripts, batch[n])] = <<<<ev>>>>
    <3> DEFINE one == <<ev>>
    <3> HIDE DEF one
    <3>1. [n \in 1 .. 1 |-> OneIf(batch[n] \notin Scripts, batch[n])] = [n \in 1 .. 1 |-> one]
      BY <2>2 DEF one
    <3>2. [n \in 1 .. 1 |-> one] = <<one>>
      OBVIOUS
    <3> QED BY <3>1, <3>2 DEF one
  <2>4. KeysOf(batch) = FlattenSeq(<<<<ev>>>>)
    BY <2>1, <2>3 DEF KeysOf
  <2> QED BY <2>4, FlatOne DEF batch
<1>3. Sendable(<<>>) = <<>>
  <2>1. {n \in 1 .. Len(<<>>) : Unsendable(<<>>[n])} = {}
    OBVIOUS
  <2> QED BY <1>1, <2>1, Zenon DEF Sendable
<1>4. Sendable(<<ev>>) = <<ev>>
  <2>1. {n \in 1 .. Len(<<ev>>) : Unsendable(<<ev>>[n])} = {}
    <3>1. \A n \in 1 .. Len(<<ev>>) : <<ev>>[n] = ev
      OBVIOUS
    <3> QED BY <3>1
  <2> QED BY <1>2, <2>1, Zenon DEF Sendable
<1> QED BY <1>1, <1>2, <1>3, <1>4

LEMMA SendNone ==
  ASSUME WayInv, SendOutputs(<<>>)
  PROVE  UNCHANGED <<source, desktop>>
<1>1. KeysOf(<<>>) = <<>> /\ Sendable(<<>>) = <<>>
  <2>1. None \notin Scripts /\ ~Unsendable(None)
    BY PathAssumption, EventsAssumption DEF Unsendable
  <2> QED BY <2>1, SendableFew
<1>2. CASE WriteEach(<<>>)
  BY <1>1, <1>2, WrittenFew DEF WriteEach
<1>3. CASE WriteToNobody(<<>>)
  BY <1>1, <1>3 DEF WriteToNobody
<1>4. CASE SendInput(<<>>)
  <2>1. source \in Seq(SourceEvents)
    BY DEF WayInv
  <2>2. UNCHANGED desktop
    BY <1>4 DEF SendInput
  <2>3. source' = source \/ source' = source \o <<>>
    <3> DEFINE back(n) == [code |-> RawKey(KeysOf(<<>>)[n]), sys |-> FALSE,
                           press |-> KeysOf(<<>>)[n].type = "Press", injected |-> TRUE]
    <3>1. source' = source \/ source' = source \o [n \in 1 .. Len(KeysOf(<<>>)) |-> back(n)]
      BY <1>4 DEF SendInput
    <3> HIDE DEF back
    <3>2. [n \in 1 .. Len(KeysOf(<<>>)) |-> back(n)] = <<>>
      BY <1>1
    <3> QED BY <3>1, <3>2
  <2>4. source' = source
    BY <2>1, <2>3, ConcatEmptySeq
  <2> QED BY <2>2, <2>4
<1> QED BY <1>2, <1>3, <1>4 DEF SendOutputs

BackFrom(ev) == [code |-> RawKey(ev), sys |-> FALSE, press |-> ev.type = "Press", injected |-> TRUE]

LEMMA KeystrokeWritable ==
  ASSUME platform \in Platforms, NEW ev \in Keystrokes
  PROVE  ev \notin Scripts /\ ~Unsendable(ev)
<1>1. PICK code \in Mapped, press \in BOOLEAN : ev = KeyEvent(table.forward[code], press)
  BY DEF Keystrokes
<1>2. ev \notin Scripts
  BY <1>1, KeystrokeIs
<1>3. table.forward[code] \in DOMAIN table.backward
  BY <1>1, TablesRoundTrip, PathAssumption DEF table, Mapped
<1>4. ev.code = table.forward[code]
  BY <1>1 DEF KeyEvent
<1> QED BY <1>2, <1>3, <1>4 DEF Unsendable, ContainsBackward

LEMMA SendOne ==
  ASSUME WayInv, NEW ev \in Keystrokes, SendOutputs(<<ev>>), ended' = None
  PROVE  \/ /\ platform # "win" /\ source' = source
            /\ desktop' = Switch(desktop, RawKey(ev), ev.type = "Press")
         \/ desktop' = desktop /\ source' = Append(source, BackFrom(ev))
<1>1. ev \notin Scripts /\ ~Unsendable(ev)
  BY KeystrokeWritable DEF WayInv
<1>2. KeysOf(<<ev>>) = <<ev>> /\ Sendable(<<ev>>) = <<ev>>
  BY <1>1, SendableFew
<1>3. CASE WriteEach(<<ev>>)
  BY <1>2, <1>3, WrittenFew DEF WriteEach
<1>4. ~WriteToNobody(<<ev>>)
  BY PathAssumption DEF WriteToNobody
<1>5. CASE SendInput(<<ev>>)
  <2> DEFINE keys == <<ev>>
             back(n) == [code |-> RawKey(keys[n]), sys |-> FALSE,
                         press |-> keys[n].type = "Press", injected |-> TRUE]
  <2>1. Len(keys) = 1 /\ \A n \in 1 .. 1 : keys[n] = ev
    OBVIOUS
  <2>2. ~Throws(keys)
    BY <1>1, <2>1 DEF Throws
  <2>3. source' = source \o [n \in 1 .. Len(keys) |-> back(n)] /\ desktop' = desktop
    BY <1>2, <1>5, <2>2 DEF SendInput
  <2>4. \A n \in 1 .. 1 : back(n) = BackFrom(ev)
    BY <2>1 DEF BackFrom
  <2> HIDE DEF back, keys
  <2>5. [n \in 1 .. Len(keys) |-> back(n)] = <<BackFrom(ev)>>
    <3> DEFINE one == BackFrom(ev)
    <3> HIDE DEF one
    <3>1. [n \in 1 .. Len(keys) |-> back(n)] = [n \in 1 .. 1 |-> one]
      BY <2>1, <2>4 DEF one
    <3>2. [n \in 1 .. 1 |-> one] = <<one>>
      OBVIOUS
    <3> QED BY <3>1, <3>2 DEF one
  <2>6. source \o <<BackFrom(ev)>> = Append(source, BackFrom(ev))
    <3> DEFINE one == BackFrom(ev)
    <3> HIDE DEF one
    <3>1. source \o <<one>> = Append(source, one)
      <4>1. source \in Seq(SourceEvents)
        BY DEF WayInv
      <4> QED BY <4>1
    <3> QED BY <3>1 DEF one
  <2> QED BY <2>3, <2>5, <2>6
<1> QED BY <1>3, <1>4, <1>5 DEF SendOutputs

-----------------------------------------------------------------------------
(* The steps of the abstract keyboard.                                      *)

\* A step of the program, not of the user.
Drains == Fifo!Strike \/ UNCHANGED Fifo!page

LEMMA FifoIdle ==
  ASSUME OnItsWay' = OnItsWay, (desktop \cap Mapped)' = desktop \cap Mapped
  PROVE  Drains
BY DEF Drains, Fifo!page

LEMMA FifoType ==
  ASSUME NEW code \in TypedCodes, NEW press \in BOOLEAN,
         OnItsWay' = Append(OnItsWay, Stroke(code, press)),
         (desktop \cap Mapped)' = desktop \cap Mapped
  PROVE  Fifo!Stroke
<1>1. Stroke(code, press) \in Fifo!Strokes
  BY DEF Stroke, Fifo!Strokes
<1>2. Fifo!Type(Stroke(code, press))
  BY DEF Fifo!Type
<1> QED BY <1>1, <1>2 DEF Fifo!Stroke

LEMMA FifoStrike ==
  ASSUME NEW code \in Mapped, NEW press \in BOOLEAN, Mapped' = Mapped,
         OnItsWay # <<>>, Head(OnItsWay) = Stroke(code, press), OnItsWay' = Tail(OnItsWay),
         desktop' = Switch(desktop, code, press)
  PROVE  Drains
<1>1. Stroke(code, press).key = code /\ Stroke(code, press).press = press
  BY DEF Stroke
<1>2. (desktop \cap Mapped)' = Fifo!Pressed(desktop \cap Mapped, Stroke(code, press))
  BY <1>1 DEF Switch, Fifo!Pressed
<1>3. Fifo!Strike
  BY <1>2 DEF Fifo!Strike
<1> QED BY <1>3 DEF Drains

\* One stroke at an end of a list.
LEMMA EndOfWay ==
  ASSUME NEW S, NEW w \in Seq(S), NEW stroke \in S
  PROVE  /\ Cat(w, <<stroke>>) = Append(w, stroke)
         /\ Cat(<<stroke>>, w) # <<>> /\ Head(Cat(<<stroke>>, w)) = stroke
         /\ Tail(Cat(<<stroke>>, w)) = w
<1>1. w \o <<stroke>> = Append(w, stroke)
  OBVIOUS
<1>2. <<stroke>> \in Seq(S) /\ Len(<<stroke>>) = 1 /\ <<stroke>>[1] = stroke
  OBVIOUS
<1>3. <<stroke>> \o w # <<>> /\ Head(<<stroke>> \o w) = stroke /\ Tail(<<stroke>> \o w) = w
  BY HeadTailAppend, ConcatProperties
<1> QED BY <1>1, <1>3 DEF Cat

\* The way before and after a step, in terms of what the step changed.
StepOf(from, to) ==
  /\ OnItsWay = from /\ OnItsWay' = to
  /\ from \in Seq(MappedStrokes) /\ to \in Seq(MappedStrokes)
  /\ Mapped' = Mapped

LEMMA PlainStepIs ==
  ASSUME WayInv, WayInv', PlainInv, PlainInv', UnderPlain, UnderPlain', PathNext
  PROVE  StepOf(Way(source, Carried, queue), Way(source', Carried', queue'))
<1>1. platform' = platform /\ platform \in Platforms
  BY PathStep DEF WayInv
<1>2. PlainShape /\ PlainShape'
  BY DEF PlainInv
<1>3. OnItsWay = Way(source, Carried, queue) /\ Carried \in Inputs
  BY <1>2, WayIs
<1>4. OnItsWay' = Way(source', Carried', queue') /\ Carried' \in Inputs
  BY <1>1, <1>2, WayPrimed
<1>5. Mapped' = Mapped
  BY <1>1 DEF Mapped, table
<1>6. Inputs' = Inputs /\ SourceEvents' = SourceEvents
  BY <1>1, WayUnchanged DEF WaySets
<1>7. queue \in Seq(Inputs) /\ source \in Seq(SourceEvents)
  BY DEF WayInv
<1>8. queue' \in Seq(Inputs) /\ source' \in Seq(SourceEvents)
  BY <1>6 DEF WayInv
<1> QED BY <1>1, <1>3, <1>4, <1>5, <1>7, <1>8, WayTyped DEF StepOf

LEMMA IdleWay ==
  ASSUME NEW w, StepOf(w, w), UNCHANGED desktop
  PROVE  Drains
BY FifoIdle DEF StepOf

LEMMA StruckWay ==
  ASSUME NEW w, NEW rest, StepOf(w, rest), NEW code \in Mapped, NEW press \in BOOLEAN,
         w = Cat(<<Stroke(code, press)>>, rest), desktop' = Switch(desktop, code, press)
  PROVE  Drains
<1>1. rest \in Seq(MappedStrokes) /\ Stroke(code, press) \in MappedStrokes
  BY DEF StepOf, Stroke, MappedStrokes
<1>2. w # <<>> /\ Head(w) = Stroke(code, press) /\ Tail(w) = rest
  BY <1>1, EndOfWay
<1> QED BY <1>2, FifoStrike DEF StepOf

LEMMA TypedWay ==
  ASSUME NEW w, NEW code \in TypedCodes \cap Mapped, NEW press \in BOOLEAN,
         StepOf(w, Cat(w, <<Stroke(code, press)>>)), UNCHANGED desktop
  PROVE  Fifo!Stroke
<1>1. w \in Seq(MappedStrokes) /\ Stroke(code, press) \in MappedStrokes
  BY DEF StepOf, Stroke, MappedStrokes
<1>2. Cat(w, <<Stroke(code, press)>>) = Append(w, Stroke(code, press))
  BY <1>1, EndOfWay
<1> QED BY <1>2, FifoType DEF StepOf

-----------------------------------------------------------------------------
(* Every step under the default profile is one of them.                     *)

PlainStep == StepOf(Way(source, Carried, queue), Way(source', Carried', queue'))

PlainBefore ==
  /\ WayInv /\ PlainShape /\ PlainStep /\ Carried \in Inputs /\ ~disturbed'

LEMMA BeforeTyped ==
  ASSUME PlainBefore
  PROVE  /\ platform \in Platforms /\ source \in Seq(SourceEvents) /\ queue \in Seq(Inputs)
         /\ Carried \in Inputs
BY DEF PlainBefore, WayInv

\* The stroke of an event, or none.
LEMMA SourceStrokeIs ==
  ASSUME NEW e \in SourceEvents, NEW injected \in BOOLEAN
  PROVE  /\ e.press \in BOOLEAN
         /\ (e.injected # injected \/ e.code \notin Mapped) => SourceStroke(e, injected) = <<>>
         /\ (e.injected = injected /\ e.code \in Mapped /\ (injected \/ ~e.sys \/ e.press))
              => SourceStroke(e, injected) = <<Stroke(e.code, e.press)>>
         /\ \/ SourceStroke(e, injected) = <<>>
            \/ e.code \in Mapped /\ SourceStroke(e, injected) = <<Stroke(e.code, e.press)>>
<1>1. e.press \in BOOLEAN
  BY DEF SourceEvents
<1> QED BY <1>1 DEF SourceStroke, OneIf

\* What the user does goes to the end of the way, unless no daemon sees it.
LEMMA UserGrows ==
  ASSUME PlainBefore, Carried' = Carried,
         NEW key \in PhysicalKeys[platform], NEW press \in BOOLEAN, TypeKey(key, press)
  PROVE  \E e \in SourceEvents :
           /\ source' = Append(source, e) /\ ~e.injected
           /\ e.code = key.code /\ e.code \in TypedCodes /\ e.press = press
           /\ StepOf(Way(source, Carried, queue),
                     Cat(Way(source, Carried, queue), SourceStroke(e, FALSE)))
           /\ UNCHANGED desktop
<1> DEFINE w == Way(source, Carried, queue)
<1>1. PICK e \in SourceEvents :
        /\ source' = Append(source, e) /\ ~e.injected
        /\ e.code = key.code /\ e.code \in TypedCodes /\ e.press = press
  BY TypedEvent DEF PlainBefore
<1>2. queue' = queue /\ desktop' = desktop
  BY DEF TypeKey, vars, channel
<1>3. Way(source', Carried', queue') = Cat(w, SourceStroke(e, FALSE))
  <2>1. Way(Append(source, e), Carried, queue) = Cat(w, SourceStroke(e, FALSE))
    BY <1>1, WayGrows, BeforeTyped
  <2> QED BY <1>1, <1>2, <2>1, Zenon
<1>4. StepOf(w, Cat(w, SourceStroke(e, FALSE)))
  BY <1>3, Zenon DEF PlainBefore, PlainStep
<1> QED BY <1>1, <1>2, <1>4

LEMMA UserTypes ==
  ASSUME PlainBefore, Carried' = Carried, User
  PROVE  Fifo!Stroke
<1> DEFINE w == Way(source, Carried, queue)
<1>1. PICK key \in PhysicalKeys[platform], press \in BOOLEAN : TypeKey(key, press)
  BY DEF User
<1>2. PICK e \in SourceEvents :
        e.code \in TypedCodes /\ StepOf(w, Cat(w, SourceStroke(e, FALSE))) /\ UNCHANGED desktop
  BY <1>1, UserGrows
<1>3. e.press \in BOOLEAN
  BY SourceStrokeIs
<1> HIDE DEF w
<1>4. CASE SourceStroke(e, FALSE) = <<>>
  <2>1. w \in Seq(MappedStrokes)
    BY <1>2 DEF StepOf
  <2>2. Cat(w, SourceStroke(e, FALSE)) = w
    BY <1>4, <2>1, CatTyped
  <2> QED BY <1>2, <2>2, IdleWay DEF Drains, Fifo!Stroke
<1>5. CASE e.code \in Mapped /\ SourceStroke(e, FALSE) = <<Stroke(e.code, e.press)>>
  <2>1. e.code \in TypedCodes \cap Mapped
    BY <1>2, <1>5
  <2> QED BY <1>2, <1>3, <1>5, <2>1, TypedWay
<1> QED BY <1>4, <1>5, SourceStrokeIs

LEMMA DaemonReads ==
  ASSUME PlainBefore, Carried' = Carried, ReadKey
  PROVE  Drains
<1> DEFINE h == Head(source)
           w == Way(source, Carried, queue)
<1>1. source # <<>> /\ source' = Tail(source)
  BY DEF ReadKey
<1>2. h \in SourceEvents /\ h.press \in BOOLEAN
  BY <1>1, BeforeTyped, HeadTailProperties, SourceStrokeIs
<1>3. platform # "win" => ~h.injected /\ ~h.sys
  <2>1. h = source[1] /\ 1 \in 1 .. Len(source)
    BY <1>1, BeforeTyped, HeadTailProperties, LenProperties
  <2> QED BY <2>1 DEF PlainBefore, WayInv
<1>4. CASE ToMapper(h) /\ Known(h) /\ ~h.injected /\ (~h.sys \/ h.press) /\ desktop' = desktop
  <2> DEFINE ev == KeyEvent(table.forward[h.code], h.press)
  <2>1. h.code \in Mapped
    BY <1>4 DEF Known, ContainsForward, Mapped
  <2>2. ev \in Inputs /\ KeyStroke(ev) = <<Stroke(h.code, h.press)>>
    <3>1. ev \in Keystrokes /\ KeyStroke(ev) = <<Stroke(h.code, h.press)>>
      BY <1>2, <2>1, BeforeTyped, KeystrokeIs
    <3> QED BY <3>1 DEF Inputs, FromKeyboard
  <2>3. SourceStroke(h, FALSE) = <<Stroke(h.code, h.press)>>
    <3>1. h.injected = FALSE
      BY <1>2, <1>4 DEF SourceEvents
    <3>2. h.sys = FALSE \/ h.press = TRUE
      BY <1>2, <1>4 DEF SourceEvents
    <3> QED BY <1>2, <2>1, <3>1, <3>2, SourceStrokeIs
  <2>4. queue' = Append(queue, ev)
    BY <1>4 DEF ToMapper, SendKey
  <2> HIDE DEF ev
  <2>5. Way(Tail(source), Carried, Append(queue, ev)) = w
    <3>1. platform \in Platforms /\ source \in Seq(SourceEvents) /\ queue \in Seq(Inputs)
          /\ Carried \in Inputs
      BY BeforeTyped
    <3>2. ev \in Inputs /\ ~h.injected /\ SourceStroke(h, FALSE) = KeyStroke(ev)
      BY <1>4, <2>2, <2>3
    <3> QED BY <1>1, <3>1, <3>2, WayPasses
  <2>6. StepOf(w, w)
    BY <1>1, <2>4, <2>5, Zenon DEF PlainBefore, PlainStep
  <2>7. UNCHANGED desktop
    BY <1>4
  <2> HIDE DEF w, h
  <2> QED BY <2>6, <2>7, IdleWay
<1>5. CASE /\ UNCHANGED vars
           /\ \/ h.code \notin Mapped /\ (desktop' = desktop \/ PassOn(h))
              \/ h.code \in Mapped /\ h.injected /\ PassOn(h)
  <2>1. queue' = queue
    BY <1>5 DEF vars, channel
  <2>2. w = Cat(SourceStroke(h, TRUE), Way(Tail(source), Carried, queue))
    <3>1. SourceStroke(h, FALSE) = <<>>
      BY <1>2, <1>5, SourceStrokeIs
    <3> QED BY <1>1, <3>1, BeforeTyped, WayLeaves
  <2> DEFINE rest == Way(Tail(source), Carried, queue)
  <2>3. StepOf(w, rest)
    BY <1>1, <2>1, Zenon DEF PlainBefore, PlainStep
  <2> HIDE DEF w, rest
  <2>4. rest \in Seq(MappedStrokes) /\ Mapped' = Mapped
    BY <2>3 DEF StepOf
  <2>5. CASE h.code \notin Mapped /\ (desktop' = desktop \/ PassOn(h))
    <3>1. SourceStroke(h, TRUE) = <<>>
      BY <1>2, <2>5, SourceStrokeIs
    <3>2. w = rest
      BY <2>2, <2>4, <3>1, CatTyped DEF rest
    <3>3. (desktop \cap Mapped)' = desktop \cap Mapped
      BY <2>4, <2>5 DEF PassOn, Switch
    <3> QED BY <2>3, <3>2, <3>3, FifoIdle DEF StepOf
  <2>6. CASE h.code \in Mapped /\ h.injected /\ PassOn(h)
    <3>1. SourceStroke(h, TRUE) = <<Stroke(h.code, h.press)>>
      BY <1>2, <2>6, SourceStrokeIs DEF SourceEvents
    <3>2. w = Cat(<<Stroke(h.code, h.press)>>, rest)
      BY <2>2, <3>1 DEF rest
    <3>3. desktop' = Switch(desktop, h.code, h.press)
      BY <2>6 DEF PassOn
    <3> QED BY <1>2, <2>3, <2>6, <3>2, <3>3, StruckWay
  <2> QED BY <1>5, <2>5, <2>6
<1>6. CASE LinuxRead(h)
  BY <1>3, <1>4, <1>5, <1>6 DEF LinuxRead, Known, Unknown, ContainsForward, Mapped
<1>7. CASE HandleInputEvent(h)
  BY <1>3, <1>4, <1>5, <1>7 DEF HandleInputEvent, Known, Unknown, ContainsForward, Mapped
<1>8. CASE HookProc(h)
  <2>1. CASE ~Unknown(h) /\ ~h.injected /\ ~(h.sys /\ ~h.press) /\ ToMapper(h) /\ desktop' = desktop
    BY <1>4, <2>1 DEF Known, Unknown
  <2>2. CASE /\ UNCHANGED vars /\ PassOn(h)
             /\ disturbed' = (disturbed \/ (~(h.injected \/ Unknown(h)) /\ (h.sys /\ ~h.press)))
             /\ h.injected \/ Unknown(h) \/ (h.sys /\ ~h.press)
    <3>1. h.injected \/ Unknown(h)
      BY <2>2 DEF PlainBefore
    <3> QED BY <1>5, <2>2, <3>1 DEF Unknown, ContainsForward, Mapped
  <2> QED BY <1>8, <2>1, <2>2 DEF HookProc
<1> QED BY <1>6, <1>7, <1>8 DEF ReadKey

LEMMA MapperMoves ==
  ASSUME PlainBefore, UnderPlain, MapperTurn, ended' = None
  PROVE  Drains
<1> DEFINE w == Way(source, Carried, queue)
           to == Way(source', Carried', queue')
<1>1. PICK out : Goes(out)
  BY PlainTurn DEF PlainBefore, MapperTurn
<1>2. SendOutputs(sent') /\ StepOf(w, to)
  BY Zenon DEF MapperTurn, PlainBefore, PlainStep
<1>3. CASE sent' = <<>>
  <2>1. SendOutputs(<<>>)
    BY <1>2, <1>3
  <2>2. UNCHANGED <<source, desktop>>
    BY <2>1, SendNone DEF PlainBefore
  <2>3. to = w
    <3>1. CASE Carried' = Carried /\ queue' = queue
      BY <2>2, <3>1, Zenon
    <3>2. CASE Carried = None /\ queue # <<>> /\ Carried' = Head(queue) /\ queue' = Tail(queue)
      <4>1. Way(source, Head(queue), Tail(queue)) = Way(source, None, queue)
        BY <3>2, BeforeTyped, WayTakes
      <4> QED BY <2>2, <3>2, <4>1, Zenon
    <3>3. CASE Carried = Focus /\ Carried' = None /\ queue' = queue
      <4>1. Way(source, Focus, queue) = Way(source, None, queue)
        BY BeforeTyped, WayIgnoresFocus
      <4> QED BY <2>2, <3>3, <4>1, Zenon
    <3>4. <<out>> # <<>>
      OBVIOUS
    <3> QED BY <1>1, <1>3, <3>1, <3>2, <3>3, <3>4 DEF Goes
  <2> QED BY <1>2, <2>2, <2>3, IdleWay
<1>4. CASE sent' # <<>>
  <2>1. out \in Keystrokes /\ sent' = <<out>> /\ Carried = out /\ Carried' = None /\ queue' = queue
    BY <1>1, <1>4 DEF Goes
  <2>2. SendOutputs(<<out>>)
    BY <1>2, <2>1
  <2> DEFINE code == RawKey(out)
             press == out.type = "Press"
  <2>3. code \in Mapped /\ KeyStroke(out) = <<Stroke(code, press)>>
    <3>1. out \in Inputs
      BY <2>1 DEF Inputs, FromKeyboard
    <3> QED BY <2>1, <3>1, BeforeTyped, StrokeOrNone DEF Inputs
  <2>4. press \in BOOLEAN
    OBVIOUS
  <2>5. CASE /\ platform # "win" /\ source' = source
             /\ desktop' = Switch(desktop, RawKey(out), out.type = "Press")
    <3>1. FromSource(source, TRUE) = <<>>
      <4>1. \A n \in 1 .. Len(source) : ~source[n].injected
        BY <2>5 DEF PlainBefore, WayInv
      <4> QED BY <4>1, BeforeTyped, NoneInjected
    <3>2. w = Cat(KeyStroke(Carried), Way(source, None, queue))
      BY <3>1, BeforeTyped, WaySends
    <3>3. to = Way(source, None, queue)
      BY <2>1, <2>5, Zenon
    <3>4. w = Cat(<<Stroke(code, press)>>, to)
      BY <2>1, <2>3, <3>2, <3>3, Zenon
    <3> HIDE DEF w, to, code, press
    <3>5. desktop' = Switch(desktop, code, press)
      BY <2>5, Zenon DEF code, press
    <3> QED BY <1>2, <2>3, <2>4, <3>4, <3>5, StruckWay
  <2>6. CASE desktop' = desktop /\ source' = Append(source, BackFrom(out))
    <3> DEFINE e == BackFrom(out)
    <3>1. e \in SourceEvents
      <4>1. code \in RawCodes
        <5>1. out \notin Scripts /\ ~Unsendable(out) /\ out \in KeyEvents
          <6>1. out \in FromKeyboard \cup {None}
            BY <2>1 DEF FromKeyboard
          <6> QED BY <2>1, <6>1, BeforeTyped, KeystrokeWritable, StrokeOrNone
        <5> QED BY <5>1 DEF Unsendable, ContainsBackward, RawCodes, RawKey
      <4> QED BY <4>1 DEF BackFrom, SourceEvents
    <3>2. e.injected = TRUE /\ e.code = code /\ e.press = press
      BY DEF BackFrom
    <3>3. SourceStroke(e, TRUE) = KeyStroke(Carried) /\ SourceStroke(e, FALSE) = <<>>
      <4> HIDE DEF e, code, press
      <4>1. SourceStroke(e, TRUE) = <<Stroke(code, press)>> /\ SourceStroke(e, FALSE) = <<>>
        BY <2>3, <3>1, <3>2, SourceStrokeIs
      <4> QED BY <2>1, <2>3, <4>1
    <3> HIDE DEF e
    <3>4. Way(Append(source, e), None, queue) = Way(source, Carried, queue)
      BY <3>1, <3>3, BeforeTyped, WaySends
    <3>5. to = w
      BY <2>1, <2>6, <3>4, Zenon DEF e
    <3> QED BY <1>2, <2>6, <3>5, IdleWay
  <2> QED BY <2>1, <2>2, <2>5, <2>6, SendOne DEF PlainBefore
<1> QED BY <1>3, <1>4

LEMMA OthersLeaveIt ==
  ASSUME PlainBefore, PlainInv, ActivationsInTurn, UnderPlain, UnderPlain',
         FocusChange \/ DanglingFocusChange \/ StartClient \/ MainCall \/ Wait
  PROVE  Drains
<1> DEFINE w == Way(source, Carried, queue)
<1>1. CASE FocusChange
  <2>1. Carried' = Carried
    BY <1>1, AroundKeeps DEF Carried, Top
  <2>2. SendKey(Focus) /\ UNCHANGED system
    BY <1>1 DEF FocusChange, ToOtherApplication
  <2>3. queue' = Append(queue, Focus) /\ UNCHANGED <<source, desktop>>
    BY <2>2 DEF SendKey, system
  <2>4. Way(source, Carried, Append(queue, Focus)) = w
    BY BeforeTyped, WayIgnoresFocus
  <2>5. StepOf(w, w)
    BY <2>1, <2>3, <2>4, Zenon DEF PlainBefore, PlainStep
  <2> QED BY <2>3, <2>5, IdleWay
<1>2. ASSUME Carried' = Carried, UNCHANGED <<queue, system>>
      PROVE  Drains
  <2>1. UNCHANGED <<source, desktop>>
    BY <1>2 DEF system
  <2>2. StepOf(w, w)
    BY <1>2, <2>1, Zenon DEF PlainBefore, PlainStep
  <2> QED BY <2>1, <2>2, IdleWay
<1>3. CASE DanglingFocusChange \/ StartClient
  <2>1. Carried' = Carried
    BY <1>3, AroundKeeps DEF Carried, Top
  <2>2. UNCHANGED <<queue, system>>
    BY <1>3 DEF DanglingFocusChange, StartClient, ToOtherApplication, vars, channel
  <2> QED BY <1>2, <2>1, <2>2
<1>4. CASE MainCall
  <2>1. /\ UNCHANGED <<queue, key_opt, system>>
        /\ queued_events = <<>> /\ stack = <<>>
    BY <1>4, PlainCall DEF PlainBefore
  <2>2. queued_events' \in {queued_events, <<>>} /\ stack' = stack
    BY <1>4 DEF MainCall, SetProfile, Pause, Resume, thread
  <2>3. Carried' = Carried
    BY <2>1, <2>2 DEF Carried
  <2> QED BY <1>2, <2>1, <2>3
<1>5. ~Wait
  BY PlainNeverTicks DEF Wait, PlainBefore
<1> QED BY <1>1, <1>3, <1>4, <1>5

\* What the proof of PassThrough needs of a state.
PassInv == TypeOK /\ ActivationsInTurn /\ WayInv /\ PlainInv

LEMMA NextPass ==
  ASSUME PassInv, TableInv', PathNext
  PROVE  WayInv' /\ PlainInv'
<1>1. WayInv'
  BY NextWay DEF PassInv, TableInv
<1>2. PlainInv'
  BY NextPlain DEF PlainInv, PassInv
<1> QED BY <1>1, <1>2

PassStep == {installed, installed'} = {Build[Plain]} /\ ~disturbed' /\ ended' = None => Fifo!Stroke

LEMMA EveryStepPasses ==
  ASSUME PassInv, WayInv', PlainInv', PathNext
  PROVE  PassStep
<1> SUFFICES ASSUME {installed, installed'} = {Build[Plain]}, ~disturbed', ended' = None
             PROVE  Fifo!Stroke
  BY DEF PassStep
<1>1. installed = Build[Plain] /\ installed' = Build[Plain]
  OBVIOUS
<1>2. ended = None /\ ~disturbed
  <2>1. CASE User \/ ReadKey \/ FocusChange \/ DanglingFocusChange \/ StartClient
    BY <2>1, AroundKeeps
  <2>2. CASE MapperTurn
    BY <2>2, TurnKeepsProfile
  <2>3. CASE MainCall
    BY <2>3 DEF MainCall, Running
  <2>4. CASE Wait
    BY <2>4 DEF Wait, path, Running
  <2> QED BY <2>1, <2>2, <2>3, <2>4 DEF PathNext
<1>3. UnderPlain /\ UnderPlain'
  BY <1>1, <1>2 DEF UnderPlain
<1>4. PlainBefore
  <2>1. PlainStep
    BY <1>3, PlainStepIs DEF PassInv, PlainStep
  <2>2. PlainShape
    BY <1>3 DEF PassInv, PlainInv
  <2>3. Carried \in Inputs
    BY <2>2, WayIs DEF PassInv
  <2> QED BY <2>1, <2>2, <2>3 DEF PlainBefore, PassInv
<1>5. CASE User \/ ReadKey
  <2>1. Carried' = Carried
    BY <1>5, AroundKeeps DEF Carried, Top
  <2> QED BY <1>4, <1>5, <2>1, UserTypes, DaemonReads DEF Drains, Fifo!Stroke
<1>6. CASE MapperTurn
  BY <1>3, <1>4, <1>6, MapperMoves DEF Drains, Fifo!Stroke
<1>7. CASE FocusChange \/ DanglingFocusChange \/ StartClient \/ MainCall \/ Wait
  BY <1>3, <1>4, <1>7, OthersLeaveIt DEF PassInv, Drains, Fifo!Stroke
<1> QED BY <1>5, <1>6, <1>7 DEF PathNext

LEMMA PassUnchanged ==
  ASSUME PassInv, UNCHANGED pathVars
  PROVE  WayInv' /\ PlainInv'
<1>1. UNCHANGED vars /\ UNCHANGED path
  BY DEF pathVars
<1>2. platform' = platform /\ source' = source /\ disturbed' = disturbed /\ ended' = ended
  BY <1>1 DEF path, system
<1>3. /\ queue' = queue /\ closed' = closed /\ stopped' = stopped /\ pc' = pc /\ key_opt' = key_opt
      /\ UNCHANGED <<installed, cur_layer_idx, cur_state_idx, current_timer, pc, stack, queued_events>>
  BY <1>1 DEF vars, channel, control, thread, machine
<1>4. Inputs' = Inputs /\ SourceEvents' = SourceEvents
  BY <1>2, WayUnchanged DEF WaySets
<1>5. WayInv'
  BY <1>2, <1>3, <1>4 DEF PassInv, WayInv, KeyInTurn
<1>6. PlainInv'
  <2>1. UnderPlain' => PlainShape
    BY <1>2, <1>3 DEF PassInv, PlainInv, UnderPlain
  <2>2. PlainShape => PlainShape'
    BY <1>2, <1>3, ShapeStays
  <2> QED BY <2>1, <2>2 DEF PlainInv
<1> QED BY <1>5, <1>6

\* Under the default profile, paused or not, the program is the keyboard: on
\* every platform and in every order of the threads no stroke is lost, doubled
\* or overtaken between the device and the desktop
\* (linux/src/daemon.cpp:88-157, win/src/daemon.cpp:72-188,
\* mac/src/daemon.cpp:79-208, mapper.cpp:122-249).  The thread has at most one
\* input in hand, what is injected comes before it and what is queued after.
THEOREM DefaultIsTheKeyboard == PathSpec => PassThrough
<1>1. PathSpec => []TableInv
  BY PathIsMapper, TablesAlways, PTL
<1>2. PathSpec => PathInit /\ [][PathNext]_pathVars
  BY PTL DEF PathSpec
<1>3. PathInit => WayInv /\ PlainInv
  BY InitWay, InitPlain
<1>4. WayInv /\ PlainInv /\ TableInv /\ TableInv' /\ [PathNext]_pathVars => WayInv' /\ PlainInv'
  <2> SUFFICES ASSUME WayInv, PlainInv, TableInv, TableInv', [PathNext]_pathVars
               PROVE  WayInv' /\ PlainInv'
    OBVIOUS
  <2>1. PassInv
    BY DEF PassInv, TableInv
  <2> QED BY <2>1, NextPass, PassUnchanged
<1>5. WayInv /\ PlainInv /\ TableInv /\ WayInv' /\ PlainInv' /\ [PathNext]_pathVars => [PassStep]_pathVars
  <2> SUFFICES ASSUME WayInv, PlainInv, TableInv, WayInv', PlainInv', PathNext
               PROVE  PassStep
    OBVIOUS
  <2>1. PassInv
    BY DEF PassInv, TableInv
  <2> QED BY <2>1, EveryStepPasses
<1>6. PathSpec => [][PassStep]_pathVars
  BY <1>1, <1>2, <1>3, <1>4, <1>5, PTL
<1> QED BY <1>6, PTL DEF PassThrough, PassStep

-----------------------------------------------------------------------------
(* Nothing sticks on it: what the desktop will hold once everything on its  *)
(* way is through are keys the user holds.                                  *)

\* What the user holds, as the codes the desktop counts.
HeldCodes == {key.code : key \in held}

\* After the strokes, from the keys down before them, is this one down?
StaysDown(strokes, keys, code) ==
  \/ code \in keys /\ \A n \in 1 .. Len(strokes) : strokes[n].key # code
  \/ \E n \in 1 .. Len(strokes) :
       /\ strokes[n].key = code /\ strokes[n].press
       /\ \A m \in n + 1 .. Len(strokes) : strokes[m].key # code

Struck(keys, stroke) ==
  IF stroke.press THEN keys \cup {stroke.key} ELSE keys \ {stroke.key}

\* One stroke more: the last one on its key decides.
LEMMA LaterStroke ==
  ASSUME NEW S, NEW w \in Seq(S), NEW stroke \in S, NEW keys, NEW code,
         StaysDown(Append(w, stroke), keys, code)
  PROVE  IF stroke.key = code THEN stroke.press ELSE StaysDown(w, keys, code)
<1> DEFINE v == Append(w, stroke)
           L == Len(w)
<1>1. /\ L \in Nat /\ Len(v) = L + 1 /\ v[L + 1] = stroke
      /\ \A n \in 1 .. L : v[n] = w[n]
  BY AppendProperties, LenProperties
<1>2. \/ code \in keys /\ \A n \in 1 .. Len(v) : v[n].key # code
      \/ \E n \in 1 .. Len(v) : /\ v[n].key = code /\ v[n].press
                                /\ \A m \in n + 1 .. Len(v) : v[m].key # code
  BY Zenon DEF StaysDown
<1> HIDE DEF v, L
<1>3. CASE code \in keys /\ \A n \in 1 .. Len(v) : v[n].key # code
  <2>1. \A n \in 1 .. L : n \in 1 .. Len(v)
    BY <1>1
  <2>2. stroke.key # code
    <3>1. L + 1 \in 1 .. Len(v)
      BY <1>1
    <3> QED BY <1>1, <1>3, <3>1
  <2>3. \A n \in 1 .. L : w[n].key # code
    BY <1>1, <1>3, <2>1
  <2> QED BY <1>3, <2>2, <2>3 DEF StaysDown, L
<1>4. ASSUME NEW n \in 1 .. Len(v), v[n].key = code, v[n].press,
             \A m \in n + 1 .. Len(v) : v[m].key # code
      PROVE  IF stroke.key = code THEN stroke.press ELSE StaysDown(w, keys, code)
  <2>1. CASE n = L + 1
    BY <1>1, <1>4, <2>1
  <2>2. CASE n # L + 1
    <3>1. n \in 1 .. L /\ L + 1 \in n + 1 .. Len(v)
      BY <1>1, <2>2
    <3>2. stroke.key # code
      BY <1>1, <1>4, <3>1
    <3>3. w[n].key = code /\ w[n].press
      BY <1>1, <1>4, <3>1
    <3>4. \A m \in n + 1 .. L : w[m].key # code
      <4>1. \A m \in n + 1 .. L : m \in n + 1 .. Len(v) /\ m \in 1 .. L
        BY <1>1, <3>1
      <4> QED BY <1>1, <1>4, <4>1
    <3> QED BY <3>1, <3>2, <3>3, <3>4 DEF StaysDown, L
  <2> QED BY <2>1, <2>2
<1> QED BY <1>2, <1>3, <1>4

\* The first stroke reaches the desktop.
LEMMA FirstStroke ==
  ASSUME NEW S, NEW w \in Seq(S), w # <<>>, NEW keys, NEW code,
         StaysDown(Tail(w), Struck(keys, Head(w)), code)
  PROVE  StaysDown(w, keys, code)
<1> DEFINE v == Tail(w)
           L == Len(w)
           h == Head(w)
           after == Struck(keys, h)
<1>1. /\ L \in Nat /\ L >= 1 /\ Len(v) = L - 1 /\ w[1] = h
      /\ \A n \in 1 .. L - 1 : v[n] = w[n + 1]
  BY HeadTailProperties, LenProperties, EmptySeq
<1>2. \/ code \in after /\ \A n \in 1 .. Len(v) : v[n].key # code
      \/ \E n \in 1 .. Len(v) : /\ v[n].key = code /\ v[n].press
                                /\ \A m \in n + 1 .. Len(v) : v[m].key # code
  BY Zenon DEF StaysDown
<1>3. \A n \in 2 .. L : n - 1 \in 1 .. Len(v) /\ v[n - 1] = w[n]
  BY <1>1
<1>4. code \in after => IF h.key = code THEN h.press ELSE code \in keys
  BY DEF Struck
<1> HIDE DEF v, L, h, after
<1>5. CASE code \in after /\ \A n \in 1 .. Len(v) : v[n].key # code
  <2>1. \A n \in 2 .. L : w[n].key # code
    BY <1>3, <1>5
  <2>2. CASE h.key = code
    <3>1. 1 \in 1 .. L /\ w[1].key = code /\ w[1].press /\ \A m \in 1 + 1 .. L : w[m].key # code
      BY <1>1, <1>4, <1>5, <2>1, <2>2
    <3> QED BY <3>1 DEF StaysDown, L
  <2>3. CASE h.key # code
    <3>1. \A n \in 1 .. L : n = 1 \/ n \in 2 .. L
      BY <1>1
    <3>2. \A n \in 1 .. L : w[n].key # code
      BY <1>1, <2>1, <2>3, <3>1
    <3> QED BY <1>4, <1>5, <2>3, <3>2 DEF StaysDown, L
  <2> QED BY <2>2, <2>3
<1>6. ASSUME NEW n \in 1 .. Len(v), v[n].key = code, v[n].press,
             \A m \in n + 1 .. Len(v) : v[m].key # code
      PROVE  StaysDown(w, keys, code)
  <2>1. n + 1 \in 1 .. L /\ w[n + 1].key = code /\ w[n + 1].press
    BY <1>1, <1>6
  <2>2. \A m \in (n + 1) + 1 .. L : w[m].key # code
    <3>1. \A m \in (n + 1) + 1 .. L : m \in 2 .. L /\ m - 1 \in n + 1 .. Len(v)
      BY <1>1, <2>1
    <3> QED BY <1>3, <1>6, <3>1
  <2> QED BY <2>1, <2>2 DEF StaysDown, L
<1> QED BY <1>2, <1>5, <1>6

\* The events of the system as strokes, whatever the table makes of them.
Raw(events) == [n \in 1 .. Len(events) |-> Stroke(events[n].code, events[n].press)]

RawStrokes == [key : RawCodes, press : BOOLEAN]

LEMMA RawTyped ==
  ASSUME NEW s \in Seq(SourceEvents)
  PROVE  /\ Raw(s) \in Seq(RawStrokes) /\ Len(Raw(s)) = Len(s) /\ Len(s) \in Nat
         /\ \A n \in 1 .. Len(s) : Raw(s)[n] = Stroke(s[n].code, s[n].press)
<1> DEFINE L == Len(s)
           at(e) == Stroke(e.code, e.press)
<1>1. L \in Nat /\ \A n \in 1 .. L : s[n] \in SourceEvents
  BY LenProperties, ElementOfSeq
<1>2. \A e \in SourceEvents : at(e) \in RawStrokes
  BY DEF SourceEvents, RawStrokes, Stroke
<1>3. Raw(s) = [n \in 1 .. L |-> at(s[n])]
  BY DEF Raw
<1> HIDE DEF at
<1> QED BY <1>1, <1>2, <1>3 DEF at

LEMMA RawIs ==
  ASSUME NEW s \in Seq(SourceEvents)
  PROVE  /\ \A e \in SourceEvents : Raw(Append(s, e)) = Append(Raw(s), Stroke(e.code, e.press))
         /\ s # <<>> => /\ Raw(s) # <<>> /\ Head(Raw(s)) = Stroke(Head(s).code, Head(s).press)
                        /\ Tail(Raw(s)) = Raw(Tail(s))
<1> DEFINE r == Raw(s)
           L == Len(s)
           at(e) == Stroke(e.code, e.press)
<1>1. r \in Seq(RawStrokes) /\ Len(r) = L /\ L \in Nat /\ \A n \in 1 .. L : r[n] = at(s[n])
  BY RawTyped
<1>2. \A e \in SourceEvents : at(e) \in RawStrokes
  BY DEF SourceEvents, RawStrokes, Stroke
<1>3. \A t \in Seq(SourceEvents) :
        /\ Raw(t) \in Seq(RawStrokes) /\ Len(Raw(t)) = Len(t)
        /\ \A n \in 1 .. Len(t) : Raw(t)[n] = at(t[n])
  BY RawTyped
<1> HIDE DEF at, r
<1>4. ASSUME NEW e \in SourceEvents
      PROVE  Raw(Append(s, e)) = Append(r, at(e))
  <2> DEFINE t == Append(s, e)
             u == Append(r, at(e))
  <2>1. /\ t \in Seq(SourceEvents) /\ Len(t) = L + 1 /\ t[L + 1] = e
        /\ \A n \in 1 .. L : t[n] = s[n]
    BY AppendProperties
  <2>2. /\ u \in Seq(RawStrokes) /\ Len(u) = L + 1 /\ u[L + 1] = at(e)
        /\ \A n \in 1 .. L : u[n] = r[n]
    <3>1. at(e) \in RawStrokes
      BY <1>2
    <3> QED BY <1>1, <3>1, AppendProperties
  <2> HIDE DEF t, u
  <2>3. \A n \in 1 .. L + 1 : n \in 1 .. L \/ n = L + 1
    BY <1>1
  <2>4. /\ Raw(t) \in Seq(RawStrokes) /\ Len(Raw(t)) = L + 1
        /\ \A n \in 1 .. L + 1 : Raw(t)[n] = at(t[n])
    BY <1>3, <2>1
  <2>5. \A n \in 1 .. L + 1 : Raw(t)[n] = u[n]
    BY <1>1, <2>1, <2>2, <2>3, <2>4
  <2>6. Raw(t) = u
    BY <2>2, <2>4, <2>5, SeqEqual
  <2> QED BY <2>6 DEF t, u
<1>5. ASSUME s # <<>>
      PROVE  r # <<>> /\ Head(r) = at(Head(s)) /\ Tail(r) = Raw(Tail(s))
  <2> DEFINE t == Tail(s)
             u == Tail(r)
  <2>1. /\ L >= 1 /\ Head(s) = s[1] /\ t \in Seq(SourceEvents) /\ Len(t) = L - 1
        /\ \A n \in 1 .. L - 1 : t[n] = s[n + 1]
    BY <1>1, <1>5, HeadTailProperties, EmptySeq
  <2>2. r # <<>> /\ Head(r) = r[1] /\ 1 \in 1 .. L
    BY <1>1, <2>1
  <2>3. /\ u \in Seq(RawStrokes) /\ Len(u) = L - 1
        /\ \A n \in 1 .. L - 1 : u[n] = r[n + 1]
    BY <1>1, <2>2, HeadTailProperties
  <2> HIDE DEF t, u
  <2>4. \A n \in 1 .. L - 1 : n + 1 \in 1 .. L
    BY <1>1
  <2>5. /\ Raw(t) \in Seq(RawStrokes) /\ Len(Raw(t)) = L - 1
        /\ \A n \in 1 .. L - 1 : Raw(t)[n] = at(t[n])
    BY <1>3, <2>1
  <2>6. \A n \in 1 .. L - 1 : Raw(t)[n] = u[n]
    BY <1>1, <2>1, <2>3, <2>4, <2>5
  <2>7. Raw(t) = u
    BY <2>3, <2>5, <2>6, SeqEqual
  <2> QED BY <1>1, <2>1, <2>2, <2>7 DEF t, u
<1> QED BY <1>4, <1>5 DEF at, r

-----------------------------------------------------------------------------
(* What the steps of the program do to the system.                          *)

\* A release the system hands on although its press went to the mapper.
Overtakes(e) == e.code \in Mapped /\ ~e.injected /\ e.sys /\ ~e.press

NoneOvertakes == \A n \in 1 .. Len(source) : ~Overtakes(source[n])

\* An event is read: it goes on, to the mapper, or nowhere.
LEMMA ReadMoves ==
  ASSUME PlainBefore, ReadKey
  PROVE  /\ source # <<>> /\ source' = Tail(source) /\ held' = held
         /\ ~Overtakes(Head(source))
         /\ \/ PassOn(Head(source)) /\ platform # "mac"
            \/ desktop' = desktop /\ (Head(source).code \in Mapped \/ platform = "mac")
<1> DEFINE h == Head(source)
<1>1. source # <<>> /\ source' = Tail(source) /\ held' = held
  BY DEF ReadKey
<1>2. platform # "win" => ~h.sys
  <2>1. h = source[1] /\ 1 \in 1 .. Len(source)
    BY <1>1, BeforeTyped, HeadTailProperties, LenProperties
  <2> QED BY <2>1 DEF PlainBefore, WayInv
<1>3. h.code \in Mapped => Known(h) /\ ~Unknown(h)
  BY DEF Known, Unknown, ContainsForward, Mapped
<1>4. Known(h) => h.code \in Mapped
  BY DEF Known, ContainsForward, Mapped
<1> HIDE DEF h
<1>5. CASE LinuxRead(h)
  BY <1>1, <1>2, <1>4, <1>5 DEF LinuxRead, Overtakes, h
<1>6. CASE HandleInputEvent(h)
  BY <1>1, <1>2, <1>4, <1>6 DEF HandleInputEvent, Overtakes, h
<1>7. CASE HookProc(h)
  <2>1. ASSUME Overtakes(h)
        PROVE  FALSE
    <3>1. ~h.injected /\ ~Unknown(h) /\ h.sys /\ ~h.press
      BY <1>3, <2>1 DEF Overtakes
    <3>2. disturbed'
      BY <1>7, <3>1, Zenon DEF HookProc
    <3> QED BY <3>2 DEF PlainBefore
  <2>2. \/ PassOn(h)
        \/ desktop' = desktop /\ ~Unknown(h)
    BY <1>7, Zenon DEF HookProc
  <2>3. platform = "win"
    BY <1>7, Zenon DEF HookProc
  <2>4. ~Unknown(h) => h.code \in Mapped
    BY DEF Unknown, ContainsForward, Mapped
  <2> QED BY <1>1, <2>1, <2>2, <2>3, <2>4 DEF h
<1> QED BY <1>5, <1>6, <1>7 DEF ReadKey, h

\* What a step of the mapper sends is a key of the table.
LEMMA TurnMoves ==
  ASSUME PlainBefore, UnderPlain, MapperTurn, ended' = None
  PROVE  /\ held' = held
         /\ \/ UNCHANGED <<source, desktop>>
            \/ \E code \in Mapped, press \in BOOLEAN :
                 UNCHANGED source /\ desktop' = Switch(desktop, code, press)
            \/ \E e \in SourceEvents :
                 e.code \in Mapped /\ e.injected /\ source' = Append(source, e) /\ UNCHANGED desktop
<1>1. PICK out : Goes(out)
  BY PlainTurn DEF PlainBefore, MapperTurn
<1>2. SendOutputs(sent') /\ held' = held
  BY Zenon DEF MapperTurn
<1>3. CASE sent' = <<>>
  <2>1. SendOutputs(<<>>)
    BY <1>2, <1>3
  <2> QED BY <1>2, <2>1, SendNone DEF PlainBefore
<1>4. CASE sent' # <<>>
  <2>1. out \in Keystrokes /\ sent' = <<out>>
    BY <1>1, <1>4 DEF Goes
  <2>2. SendOutputs(<<out>>)
    BY <1>2, <2>1
  <2>3. /\ RawKey(out) \in Mapped /\ RawKey(out) \in RawCodes
        /\ (out.type = "Press") \in BOOLEAN
    <3>1. out \in FromKeyboard \cup {None}
      BY <2>1 DEF FromKeyboard
    <3>2. RawKey(out) \in Mapped /\ out \in KeyEvents /\ ~Unsendable(out)
      BY <2>1, <3>1, BeforeTyped, KeystrokeWritable, StrokeOrNone
    <3> QED BY <3>2 DEF Unsendable, ContainsBackward, RawCodes, RawKey
  <2>4. BackFrom(out) \in SourceEvents /\ BackFrom(out).code \in Mapped /\ BackFrom(out).injected
    BY <2>3 DEF BackFrom, SourceEvents
  <2> QED BY <1>2, <2>1, <2>2, <2>3, <2>4, SendOne DEF PlainBefore
<1> QED BY <1>3, <1>4

LEMMA OthersMove ==
  ASSUME PlainBefore, FocusChange \/ DanglingFocusChange \/ StartClient \/ MainCall \/ Wait
  PROVE  UNCHANGED <<held, source, desktop>>
BY DEF FocusChange, DanglingFocusChange, StartClient, MainCall, Wait, ToOtherApplication, path,
   system

-----------------------------------------------------------------------------
(* The keys of the table, and the others.                                   *)

\* A key of the table that will be down is held, unless a system release is
\* about to overtake its press.
MappedKept ==
  NoneOvertakes =>
    \A code \in Mapped : StaysDown(OnItsWay, desktop \cap Mapped, code) => code \in HeldCodes

\* So is any other key; on macOS none of them ever reaches the desktop.
OthersKept ==
  /\ \A code : code \notin Mapped /\ StaysDown(Raw(source), desktop, code) => code \in HeldCodes
  /\ platform = "mac" => desktop \subseteq Mapped

\* One key down or up changes its own code only.
LEMMA HeldMoves ==
  ASSUME NEW key, NEW press \in BOOLEAN, held' = Switch(held, key, press), NEW code
  PROVE  /\ press /\ code = key.code => code \in HeldCodes'
         /\ code \in HeldCodes /\ code # key.code => code \in HeldCodes'
<1>1. ASSUME press, code = key.code
      PROVE  code \in HeldCodes'
  BY <1>1 DEF HeldCodes, Switch
<1>2. ASSUME code \in HeldCodes, code # key.code
      PROVE  code \in HeldCodes'
  <2>1. PICK other \in held : other.code = code
    BY <1>2 DEF HeldCodes
  <2>2. other \in held'
    BY <1>2, <2>1 DEF Switch
  <2> QED BY <2>1, <2>2 DEF HeldCodes
<1> QED BY <1>1, <1>2

\* The user types: what will be down then is held, or was held before and is.
LEMMA UserKeeps ==
  ASSUME PlainBefore, Carried' = Carried, User, MappedKept, OthersKept
  PROVE  MappedKept' /\ OthersKept'
<1> DEFINE w == Way(source, Carried, queue)
<1>1. PICK key \in PhysicalKeys[platform], press \in BOOLEAN : TypeKey(key, press)
  BY DEF User
<1>2. PICK e \in SourceEvents :
        /\ source' = Append(source, e) /\ ~e.injected
        /\ e.code = key.code /\ e.press = press
        /\ StepOf(w, Cat(w, SourceStroke(e, FALSE)))
        /\ UNCHANGED desktop
  BY <1>1, UserGrows
<1>3. held' = Switch(held, key, press) /\ platform' = platform
  BY <1>1 DEF TypeKey
<1>4. /\ Mapped' = Mapped /\ OnItsWay = w /\ w \in Seq(MappedStrokes)
      /\ OnItsWay' = Cat(w, SourceStroke(e, FALSE))
  BY <1>2 DEF StepOf
<1>5. source \in Seq(SourceEvents)
  BY BeforeTyped
<1> HIDE DEF w
<1>6. ASSUME NoneOvertakes'
      PROVE  NoneOvertakes /\ ~Overtakes(e)
  <2>1. /\ Len(source') = Len(source) + 1 /\ Len(source) \in Nat /\ source'[Len(source) + 1] = e
        /\ \A n \in 1 .. Len(source) : source'[n] = source[n]
    BY <1>2, <1>5, AppendProperties, LenProperties
  <2>2. \A n \in 1 .. Len(source') : ~Overtakes(source'[n])
    BY <1>4, <1>6 DEF NoneOvertakes, Overtakes
  <2>3. Len(source) + 1 \in 1 .. Len(source') /\ \A n \in 1 .. Len(source) : n \in 1 .. Len(source')
    BY <2>1
  <2> QED BY <2>1, <2>2, <2>3 DEF NoneOvertakes
<1>7. ASSUME NoneOvertakes', NEW code \in Mapped,
             StaysDown(OnItsWay', desktop \cap Mapped, code)
      PROVE  code \in HeldCodes'
  <2>1. \A c \in Mapped : StaysDown(w, desktop \cap Mapped, c) => c \in HeldCodes
    BY <1>4, <1>6, <1>7 DEF MappedKept
  <2>2. CASE e.code \in Mapped
    <3>1. SourceStroke(e, FALSE) = <<Stroke(e.code, e.press)>> /\ e.press \in BOOLEAN
      <4>1. ~e.sys \/ e.press
        BY <1>2, <1>6, <1>7, <2>2 DEF Overtakes
      <4>2. e.injected = FALSE
        BY <1>2 DEF SourceEvents
      <4> QED BY <2>2, <4>1, <4>2, SourceStrokeIs
    <3> DEFINE stroke == Stroke(e.code, e.press)
    <3>2. stroke \in MappedStrokes /\ stroke.key = e.code /\ stroke.press = e.press
      BY <2>2, <3>1 DEF Stroke, MappedStrokes
    <3> HIDE DEF stroke
    <3>3. OnItsWay' = Append(w, stroke)
      BY <1>4, <3>1, <3>2, EndOfWay DEF stroke
    <3>4. StaysDown(Append(w, stroke), desktop \cap Mapped, code)
      BY <1>7, <3>3
    <3>5. IF stroke.key = code THEN stroke.press ELSE StaysDown(w, desktop \cap Mapped, code)
      BY <1>4, <3>2, <3>4, LaterStroke
    <3> QED BY <1>2, <1>3, <2>1, <3>2, <3>5, HeldMoves
  <2>3. CASE e.code \notin Mapped
    <3>1. SourceStroke(e, FALSE) = <<>>
      BY <2>3, SourceStrokeIs
    <3>2. OnItsWay' = w
      BY <1>4, <3>1, CatTyped
    <3> QED BY <1>2, <1>3, <1>7, <2>1, <2>3, <3>2, HeldMoves
  <2> QED BY <2>2, <2>3
<1>8. ASSUME NEW code, code \notin Mapped, StaysDown(Raw(source'), desktop, code)
      PROVE  code \in HeldCodes'
  <2> DEFINE r == Raw(source)
             stroke == Stroke(e.code, e.press)
  <2>1. r \in Seq(RawStrokes) /\ Raw(source') = Append(r, stroke)
    BY <1>2, <1>5, RawIs, RawTyped
  <2>2. stroke \in RawStrokes /\ stroke.key = e.code /\ stroke.press = e.press
    BY DEF Stroke, RawStrokes, SourceEvents
  <2> HIDE DEF r, stroke
  <2>3. StaysDown(Append(r, stroke), desktop, code)
    BY <1>8, <2>1
  <2>4. IF stroke.key = code THEN stroke.press ELSE StaysDown(r, desktop, code)
    BY <2>1, <2>2, <2>3, LaterStroke
  <2>5. StaysDown(r, desktop, code) => code \in HeldCodes
    BY <1>8 DEF OthersKept, r
  <2> QED BY <1>2, <1>3, <2>2, <2>4, <2>5, HeldMoves
<1>9. MappedKept'
  BY <1>2, <1>4, <1>7 DEF MappedKept
<1>10. OthersKept'
  BY <1>2, <1>3, <1>4, <1>8 DEF OthersKept, Raw
<1> QED BY <1>9, <1>10

\* A step of the program takes nothing from what the user holds, and brings
\* what is on its way nearer to the desktop.
ProgramMoves ==
  /\ held' = held
  /\ \/ UNCHANGED <<source, desktop>>
     \/ /\ source # <<>> /\ source' = Tail(source) /\ ~Overtakes(Head(source))
        /\ \/ PassOn(Head(source)) /\ platform # "mac"
           \/ desktop' = desktop /\ (Head(source).code \in Mapped \/ platform = "mac")
     \/ \E code \in Mapped, press \in BOOLEAN :
          UNCHANGED source /\ desktop' = Switch(desktop, code, press)
     \/ \E e \in SourceEvents :
          e.code \in Mapped /\ e.injected /\ source' = Append(source, e) /\ UNCHANGED desktop

\* A stroke reaches the desktop, and what will be down in the end is the same.
LEMMA MappedStays ==
  ASSUME PlainBefore, ProgramMoves, Drains, MappedKept
  PROVE  MappedKept'
<1> DEFINE w == OnItsWay
<1>1. /\ Mapped' = Mapped /\ w \in Seq(MappedStrokes)
  BY DEF PlainBefore, PlainStep, StepOf
<1>2. HeldCodes' = HeldCodes
  BY DEF HeldCodes, ProgramMoves
<1>3. source \in Seq(SourceEvents)
  BY BeforeTyped
<1>4. ASSUME NoneOvertakes'
      PROVE  NoneOvertakes
  <2>0. \A n \in 1 .. Len(source') : ~Overtakes(source'[n])
    BY <1>1, <1>4 DEF NoneOvertakes, Overtakes
  <2>1. CASE source' = source
    BY <2>0, <2>1 DEF NoneOvertakes
  <2>2. CASE source # <<>> /\ source' = Tail(source) /\ ~Overtakes(Head(source))
    <3>1. /\ Len(source') = Len(source) - 1 /\ Len(source) \in Nat /\ Head(source) = source[1]
          /\ \A n \in 1 .. Len(source) - 1 : source'[n] = source[n + 1]
      BY <1>3, <2>2, HeadTailProperties, LenProperties
    <3>2. ASSUME NEW n \in 1 .. Len(source) PROVE ~Overtakes(source[n])
      <4>1. CASE n = 1
        BY <2>2, <3>1, <4>1
      <4>2. CASE n # 1
        <5>1. n - 1 \in 1 .. Len(source') /\ (n - 1) + 1 = n
          BY <3>1, <4>2
        <5> QED BY <2>0, <3>1, <5>1
      <4> QED BY <4>1, <4>2
    <3> QED BY <3>2 DEF NoneOvertakes
  <2>3. ASSUME NEW e \in SourceEvents, source' = Append(source, e)
        PROVE  NoneOvertakes
    <3>1. /\ Len(source') = Len(source) + 1 /\ Len(source) \in Nat
          /\ \A n \in 1 .. Len(source) : source'[n] = source[n]
      BY <1>3, <2>3, AppendProperties, LenProperties
    <3>2. \A n \in 1 .. Len(source) : n \in 1 .. Len(source')
      BY <3>1
    <3> QED BY <2>0, <3>1, <3>2 DEF NoneOvertakes
  <2> QED BY <2>1, <2>2, <2>3 DEF ProgramMoves
<1>5. ASSUME NoneOvertakes', NEW code \in Mapped,
             StaysDown(OnItsWay', (desktop \cap Mapped)', code)
      PROVE  code \in HeldCodes
  <2>1. StaysDown(w, desktop \cap Mapped, code) => code \in HeldCodes
    BY <1>4, <1>5 DEF MappedKept
  <2>2. CASE UNCHANGED Fifo!page
    BY <1>5, <2>1, <2>2 DEF Fifo!page
  <2>3. CASE Fifo!Strike
    <3> DEFINE keys == desktop \cap Mapped
    <3>1. w # <<>> /\ OnItsWay' = Tail(w) /\ (desktop \cap Mapped)' = Struck(keys, Head(w))
      BY <2>3 DEF Fifo!Strike, Fifo!Pressed, Struck
    <3> HIDE DEF w, keys
    <3>2. StaysDown(Tail(w), Struck(keys, Head(w)), code)
      BY <1>5, <3>1
    <3>3. StaysDown(w, keys, code)
      BY <1>1, <3>1, <3>2, FirstStroke
    <3> QED BY <2>1, <3>3 DEF keys
  <2> QED BY <2>2, <2>3 DEF Drains
<1> QED BY <1>1, <1>2, <1>5 DEF MappedKept

\* The other keys go past the mapper, in the order of the system's events.
LEMMA OthersStay ==
  ASSUME PlainBefore, ProgramMoves, platform' = platform, OthersKept
  PROVE  OthersKept'
<1> DEFINE r == Raw(source)
<1>1. Mapped' = Mapped /\ Raw(source)' = Raw(source')
  BY DEF PlainBefore, PlainStep, StepOf, Raw
<1>2. HeldCodes' = HeldCodes
  BY DEF HeldCodes, ProgramMoves
<1>3. source \in Seq(SourceEvents) /\ r \in Seq(RawStrokes)
  BY BeforeTyped, RawTyped
<1>4. /\ \A code : code \notin Mapped /\ StaysDown(r, desktop, code) => code \in HeldCodes
      /\ platform = "mac" => desktop \subseteq Mapped
  BY DEF OthersKept
<1>7. \A stroke, keys : Struck(keys, stroke) = Switch(keys, stroke.key, stroke.press)
  BY DEF Struck, Switch
<1>5. ASSUME NEW code, code \notin Mapped, StaysDown(Raw(source'), desktop', code)
      PROVE  StaysDown(r, desktop, code)
  <2>1. CASE UNCHANGED <<source, desktop>>
    BY <1>5, <2>1
  <2>2. CASE source # <<>> /\ source' = Tail(source)
    <3> DEFINE h == Head(source)
    <3>1. /\ r # <<>> /\ Head(r) = Stroke(h.code, h.press) /\ Tail(r) = Raw(source')
      BY <1>3, <2>2, RawIs
    <3>2. Head(r).key = h.code /\ Head(r).press = h.press
      BY <3>1 DEF Stroke
    <3>3. CASE PassOn(h)
      <4>1. desktop' = Struck(desktop, Head(r))
        BY <1>7, <3>2, <3>3 DEF PassOn
      <4> HIDE DEF r
      <4>2. StaysDown(Tail(r), Struck(desktop, Head(r)), code)
        BY <1>5, <3>1, <4>1
      <4> QED BY <1>3, <3>1, <4>2, FirstStroke
    <3>4. CASE desktop' = desktop /\ (h.code \in Mapped \/ platform = "mac")
      <4>1. h.code = code => code \notin desktop
        BY <1>4, <1>5, <3>4
      <4> HIDE DEF r, h
      <4>2. StaysDown(Tail(r), Struck(desktop, Head(r)), code)
        <5>1. StaysDown(Tail(r), desktop, code)
          BY <1>5, <3>1, <3>4
        <5>2. code \in desktop => code \in Struck(desktop, Head(r))
          BY <3>2, <4>1 DEF Struck
        <5> QED BY <5>1, <5>2 DEF StaysDown
      <4> QED BY <1>3, <3>1, <4>2, FirstStroke
    <3>5. \/ PassOn(h)
          \/ desktop' = desktop /\ (h.code \in Mapped \/ platform = "mac")
          \/ UNCHANGED <<source, desktop>>
      <4>1. Tail(source) = source => FALSE
        BY <1>3, <2>2, HeadTailProperties, LenProperties
      <4>2. \A e \in SourceEvents : Tail(source) # Append(source, e)
        BY <1>3, <2>2, HeadTailProperties, AppendProperties, LenProperties
      <4> QED BY <2>2, <4>1, <4>2 DEF ProgramMoves
    <3> QED BY <2>1, <3>3, <3>4, <3>5
  <2>3. ASSUME NEW c \in Mapped, NEW press \in BOOLEAN,
               source' = source, desktop' = Switch(desktop, c, press)
        PROVE  StaysDown(r, desktop, code)
    <3>1. code \in desktop' => code \in desktop
      BY <1>5, <2>3 DEF Switch
    <3>2. StaysDown(r, desktop', code)
      BY <1>5, <2>3
    <3> HIDE DEF r
    <3> QED BY <3>1, <3>2 DEF StaysDown
  <2>4. ASSUME NEW e \in SourceEvents, e.code \in Mapped, source' = Append(source, e),
               desktop' = desktop
        PROVE  StaysDown(r, desktop, code)
    <3> DEFINE stroke == Stroke(e.code, e.press)
    <3>1. Raw(source') = Append(r, stroke)
      BY <1>3, <2>4, RawIs
    <3>2. stroke \in RawStrokes /\ stroke.key = e.code
      BY DEF Stroke, RawStrokes, SourceEvents
    <3> HIDE DEF r, stroke
    <3>3. StaysDown(Append(r, stroke), desktop, code) /\ stroke.key # code
      BY <1>5, <2>4, <3>1, <3>2
    <3>4. IF stroke.key = code THEN stroke.press ELSE StaysDown(r, desktop, code)
      BY <1>3, <3>2, <3>3, LaterStroke
    <3> QED BY <3>3, <3>4
  <2> QED BY <2>1, <2>2, <2>3, <2>4 DEF ProgramMoves
<1>6. platform = "mac" => desktop' \subseteq Mapped
  BY <1>4 DEF ProgramMoves, Switch
<1> QED BY <1>1, <1>2, <1>4, <1>5, <1>6 DEF OthersKept

\* What the proof of DefaultNeverSticks adds to WayInv and PlainInv.
DeskInv == UnderPlain => MappedKept /\ OthersKept

\* Every step keeps both.
LEMMA NextDesk ==
  ASSUME PassInv, WayInv', PlainInv', PathNext, DeskInv,
         installed = Build[Plain], UnderPlain'
  PROVE  MappedKept' /\ OthersKept'
<1>1. ended = None /\ ~disturbed /\ ~disturbed' /\ ended' = None
  <2>1. CASE User \/ ReadKey \/ FocusChange \/ DanglingFocusChange \/ StartClient
    BY <2>1, AroundKeeps DEF UnderPlain
  <2>2. CASE MapperTurn
    BY <2>2, TurnKeepsProfile DEF UnderPlain
  <2>3. CASE MainCall
    BY <2>3 DEF MainCall, Running, UnderPlain
  <2>4. CASE Wait
    BY <2>4 DEF Wait, path, Running, UnderPlain
  <2> QED BY <2>1, <2>2, <2>3, <2>4 DEF PathNext
<1>2. UnderPlain /\ MappedKept /\ OthersKept
  BY <1>1 DEF UnderPlain, DeskInv
<1>3. PlainBefore
  <2>1. PlainStep
    BY <1>2, PlainStepIs DEF PassInv, PlainStep
  <2>2. PlainShape
    BY <1>2 DEF PassInv, PlainInv
  <2>3. Carried \in Inputs
    BY <2>2, WayIs DEF PassInv
  <2> QED BY <1>1, <2>1, <2>2, <2>3 DEF PlainBefore, PassInv
<1>4. platform' = platform
  BY PathStep DEF PassInv, WayInv
<1>5. ASSUME ProgramMoves, Drains
      PROVE  MappedKept' /\ OthersKept'
  BY <1>2, <1>3, <1>4, <1>5, MappedStays, OthersStay
<1>6. CASE User
  <2>1. Carried' = Carried
    BY <1>6, AroundKeeps DEF Carried, Top
  <2> QED BY <1>2, <1>3, <1>6, <2>1, UserKeeps
<1>7. CASE ReadKey
  <2>1. Carried' = Carried
    BY <1>7, AroundKeeps DEF Carried, Top
  <2>2. ProgramMoves
    BY <1>3, <1>7, ReadMoves DEF ProgramMoves
  <2> QED BY <1>3, <1>5, <1>7, <2>1, <2>2, DaemonReads
<1>8. CASE MapperTurn
  <2>1. ProgramMoves
    BY <1>1, <1>2, <1>3, <1>8, TurnMoves DEF ProgramMoves
  <2> QED BY <1>1, <1>2, <1>3, <1>5, <1>8, <2>1, MapperMoves
<1>9. CASE FocusChange \/ DanglingFocusChange \/ StartClient \/ MainCall \/ Wait
  <2>1. ProgramMoves
    BY <1>3, <1>9, OthersMove DEF ProgramMoves
  <2>2. Drains
    BY <1>2, <1>3, <1>9, OthersLeaveIt DEF PassInv
  <2> QED BY <1>5, <2>1, <2>2
<1> QED BY <1>6, <1>7, <1>8, <1>9 DEF PathNext

\* With nothing queued at the mapper, in its hands or in the system, nothing
\* is on its way.
LEMMA NothingOnItsWay ==
  ASSUME WayInv, PlainShape, source = <<>>, queue = <<>>, pc \in {"check", "wait"}
  PROVE  OnItsWay = <<>>
<1>1. stack = <<>> /\ queued_events = <<>> /\ key_opt = None
  BY DEF PlainShape, WayInv, KeyInTurn
<1>2. Carried = None
  BY <1>1 DEF Carried
<1>3. OnItsWay = Way(<<>>, None, <<>>)
  BY <1>2, WayIs
<1>4. \A injected : FromSource(<<>>, injected) = <<>>
  BY FlatNone DEF FromSource
<1>5. AsStrokes(<<>>) = <<>>
  BY StrokesOfFew DEF WayInv
<1>6. KeyStroke(None) = <<>>
  BY DEF KeyStroke, OneIf
<1>7. Cat(<<>>, <<>>) = <<>>
  BY EmptySeq, CatTyped
<1> QED BY <1>3, <1>4, <1>5, <1>6, <1>7 DEF Way

\* What is down when no stroke follows stays down.
LEMMA NoStroke ==
  /\ Raw(<<>>) = <<>>
  /\ \A keys, code : StaysDown(<<>>, keys, code) <=> code \in keys
<1>1. Len(<<>>) = 0 /\ \A n : n \notin 1 .. 0
  OBVIOUS
<1>2. \A keys, code : StaysDown(<<>>, keys, code) <=> code \in keys
  BY <1>1 DEF StaysDown
<1>3. Raw(<<>>) = <<>>
  BY <1>1 DEF Raw
<1> QED BY <1>2, <1>3

\* At rest nothing follows, so what the desktop holds is what the user holds.
LEMMA CleanAtRest ==
  ASSUME WayInv, PlainInv, DeskInv, installed = Build[Plain]
  PROVE  RestsClear
<1> SUFFICES ASSUME Quiet, Running, held = {}, ~disturbed
             PROVE  desktop = {}
  BY DEF RestsClear
<1>1. PlainShape /\ MappedKept /\ OthersKept
  BY DEF PlainInv, DeskInv, UnderPlain, Running
<1>2. source = <<>> /\ OnItsWay = <<>>
  BY <1>1, NothingOnItsWay DEF Quiet
<1>3. NoneOvertakes
  BY <1>2 DEF NoneOvertakes
<1>4. HeldCodes = {}
  BY DEF HeldCodes
<1>5. ASSUME NEW code \in desktop
      PROVE  FALSE
  <2>1. CASE code \in Mapped
    <3>1. StaysDown(OnItsWay, desktop \cap Mapped, code)
      BY <1>2, <1>5, <2>1, NoStroke
    <3> QED BY <1>1, <1>3, <1>4, <2>1, <3>1 DEF MappedKept
  <2>2. CASE code \notin Mapped
    <3>1. StaysDown(Raw(source), desktop, code)
      BY <1>2, <1>5, NoStroke
    <3> QED BY <1>1, <1>4, <2>2, <3>1 DEF OthersKept
  <2> QED BY <2>1, <2>2
<1> QED BY <1>5

LEMMA DeskUnchanged ==
  ASSUME DeskInv, UNCHANGED pathVars
  PROVE  DeskInv'
<1>1. UNCHANGED vars /\ UNCHANGED path
  BY DEF pathVars
<1>2. /\ UNCHANGED <<platform, source, disturbed, ended, held, desktop>>
      /\ UNCHANGED <<queue, key_opt, installed, stack, queued_events>>
  BY <1>1 DEF path, system, vars, channel, control, thread, machine
<1>3. UnderPlain' = UnderPlain /\ HeldCodes' = HeldCodes /\ NoneOvertakes' = NoneOvertakes
  BY <1>2 DEF UnderPlain, HeldCodes, NoneOvertakes, Overtakes, Mapped, table
<1>4. OnItsWay' = OnItsWay /\ Mapped' = Mapped
  BY <1>2 DEF OnItsWay, FromSource, SourceStroke, AsStrokes, KeyStroke, Due, InTurn,
              Top, Mapped, table, RawKey
<1>5. MappedKept' = MappedKept
  BY <1>2, <1>3, <1>4 DEF MappedKept
<1>6. OthersKept' = OthersKept
  BY <1>2, <1>3, <1>4 DEF OthersKept, Raw
<1> QED BY <1>3, <1>5, <1>6 DEF DeskInv

\* At the start nothing is down, and nothing on its way.
LEMMA InitDesk ==
  ASSUME PathInit
  PROVE  DeskInv
<1> SUFFICES ASSUME UnderPlain
             PROVE  MappedKept /\ OthersKept
  BY DEF DeskInv
<1>1. WayInv /\ PlainShape
  BY InitWay, InitPlain DEF PlainInv
<1>2. source = <<>> /\ desktop = {} /\ queue = <<>> /\ pc = "check"
  BY DEF PathInit, Init
<1>3. OnItsWay = <<>>
  BY <1>1, <1>2, NothingOnItsWay
<1> QED BY <1>2, <1>3, NoStroke DEF MappedKept, OthersKept

\* While only the default profile is installed, no key sticks on any keyboard:
\* once nothing is on its way and the user holds no key, the desktop holds
\* none, reordered or not, in every order of the threads, with keys the tables
\* know and keys they do not (linux/src/daemon.cpp:88-157,
\* win/src/daemon.cpp:72-188, mac/src/daemon.cpp:79-208).
THEOREM DefaultNeverSticks ==
  PathSpec /\ [](installed = Build[Plain]) => []RestsClear /\ []NothingStuck
<1>1. PathSpec => []TableInv
  BY PathIsMapper, TablesAlways, PTL
<1>2. PathSpec => PathInit /\ [][PathNext]_pathVars
  BY PTL DEF PathSpec
<1>3. PathInit => WayInv /\ PlainInv /\ DeskInv
  BY InitWay, InitPlain, InitDesk
<1>4. /\ WayInv /\ PlainInv /\ DeskInv /\ TableInv /\ TableInv' /\ installed = Build[Plain]
      /\ [PathNext]_pathVars
      => WayInv' /\ PlainInv' /\ DeskInv'
  <2> SUFFICES ASSUME WayInv, PlainInv, DeskInv, TableInv, TableInv', installed = Build[Plain],
                      [PathNext]_pathVars
               PROVE  WayInv' /\ PlainInv' /\ DeskInv'
    OBVIOUS
  <2>1. PassInv
    BY DEF PassInv, TableInv
  <2>2. WayInv' /\ PlainInv'
    BY <2>1, NextPass, PassUnchanged
  <2>3. CASE PathNext
    <3>1. ASSUME UnderPlain' PROVE MappedKept' /\ OthersKept'
      BY <2>1, <2>2, <2>3, <3>1, NextDesk
    <3> QED BY <2>2, <3>1 DEF DeskInv
  <2>4. CASE UNCHANGED pathVars
    BY <2>2, <2>4, DeskUnchanged
  <2> QED BY <2>2, <2>3, <2>4
<1>5. WayInv /\ PlainInv /\ DeskInv /\ installed = Build[Plain] => RestsClear /\ NothingStuck
  BY CleanAtRest DEF NothingStuck
<1> QED BY <1>1, <1>2, <1>3, <1>4, <1>5, PTL
=============================================================================
