-------------------------------- MODULE Mapper --------------------------------
(***************************************************************************)
(* The mapper thread (common/src/mapper.cpp) with the key channel it reads *)
(* (common/src/key_channel.cpp), the main thread's calls on it (profiles,  *)
(* pause, stop) and the clock.                                             *)
(*                                                                         *)
(* A step of the mapper is one turn of one of its loops: the loop of       *)
(* start(), the loop over a transition's outputs, the loop over a list of  *)
(* binds, the loop over the inputs to redo.  apply_transition and          *)
(* process_input call each other; `stack' holds their activations.         *)
(*                                                                         *)
(* Times are kept as the time left, so that the clock needs no bound.      *)
(***************************************************************************)
EXTENDS MapperTables

CONSTANTS
  KeyEvents,      \* the inputs that are key events (the others: app focus)
  Profiles,       \* profiles the user may load (for which set_profile returns)
  Build,          \* Build[p]: what set_profile makes of profile p, see ProfileBuild
  MaxQueue,       \* bound: keys waiting in the channel
  MaxPending      \* bound: outputs waiting to be emitted when a key arrives

ASSUME EventsAssumption  == /\ KeyEvents \subseteq InputEvents
                            /\ KeyEvents \subseteq OutputEvents
                            /\ None \notin InputEvents \cup OutputEvents \cup Profiles \cup Nat
ASSUME BuildAssumption   == \A p \in Profiles : IsBuild(Build[p])
ASSUME BoundAssumption   == MaxQueue \in Nat /\ MaxPending \in Nat

-----------------------------------------------------------------------------
VARIABLES
  queue,          \* KeyQueueState::queue
  closed,         \* KeyQueueState::closed
  installed,      \* what the last accepted profile was built into
  cur_layer_idx,
  cur_state_idx,
  current_timer,  \* time left, None when the optional is empty
  queued_events,  \* outputs not yet emitted, each with the time left
  paused,
  stopped,
  pc,             \* where the mapper thread is
  timeout,        \* start()'s local: how long the next wait may last
  key_opt,        \* start()'s local: what the last wait returned
  stack,          \* activations of apply_transition, innermost first
  sent            \* the batch this step handed to Daemon::send_outputs

channel == <<queue, closed>>
machine == <<installed, cur_layer_idx, cur_state_idx, current_timer>>
control == <<paused, stopped>>
thread  == <<pc, timeout, key_opt, stack>>
vars == <<channel, machine, queued_events, control, thread, sent>>

\* "check" .. "flush" are points of the loop of start(), "done" its end;
\* "crashed": an exception left the thread, which ends the process.
Points == {"check", "wait", "lock", "key", "flush", "done", "crashed"}

\* The mapper holds mtx from the lock in start() to the end of the turn.
HoldsMutex == pc \in {"key", "flush"}

Layers == installed.layers

\* The vectors before any profile was accepted.
NothingInstalled == [accepted |-> FALSE, default_layer |-> 1, layers |-> <<>>]

\* states.at(cur_layer_idx).at(cur_state_idx) finds something.
InRange == /\ cur_layer_idx \in 1 .. Len(Layers)
           /\ cur_state_idx \in 1 .. Len(Layers[cur_layer_idx].states)

CurState == Layers[cur_layer_idx].states[cur_state_idx]

Init ==
  /\ queue = <<>> /\ closed = FALSE
  /\ \E p \in Profiles :
       installed = IF Build[p].accepted THEN Build[p] ELSE NothingInstalled
  /\ cur_layer_idx = installed.default_layer
  /\ cur_state_idx = HOME_STATE_IDX
  /\ current_timer = None
  /\ queued_events = <<>>
  /\ paused = FALSE /\ stopped = FALSE
  /\ pc = "check" /\ timeout = "none" /\ key_opt = None /\ stack = <<>>
  /\ sent = <<>>

-----------------------------------------------------------------------------
(* The main thread.  Each of these holds mtx, so none runs during a turn of *)
(* the mapper; none comes after stop().                                     *)

MainThread == ~HoldsMutex /\ pc # "crashed" /\ ~stopped

\* Mutants: the timer, and the state index, survive the change of layer.
SetLayerKeepsTimer(new_layer) ==
  cur_layer_idx' = new_layer /\ cur_state_idx' = HOME_STATE_IDX /\ UNCHANGED current_timer

SetLayerKeepsState(new_layer) ==
  cur_layer_idx' = new_layer /\ current_timer' = None /\ UNCHANGED cur_state_idx

\* set_layer_inner, under mtx.  The callback reads profile.layers[new_layer],
\* which is undefined behaviour past the end: the program dies there or goes
\* on with a layer that does not exist.
SetLayerInner(new_layer) ==
  /\ cur_layer_idx' = new_layer
  /\ cur_state_idx' = HOME_STATE_IDX
  /\ current_timer' = None

\* Mutant: the new tables under the old indices.
SetTablesOnly(p) ==
  /\ MainThread /\ Build[p].accepted
  /\ installed' = Build[p]
  /\ sent' = <<>>
  /\ UNCHANGED <<channel, cur_layer_idx, cur_state_idx, current_timer, queued_events, control,
                 thread>>

\* A profile that is rejected changes nothing.
SetProfile(p) ==
  /\ MainThread
  /\ Build[p].accepted
  /\ installed' = Build[p]
  /\ SetLayerInner(Build[p].default_layer)
  /\ \/ UNCHANGED pc
     \/ Build[p].default_layer \notin 1 .. Len(Build[p].layers) /\ pc' = "crashed"
  /\ sent' = <<>>
  /\ UNCHANGED <<channel, queued_events, control, timeout, key_opt, stack>>

SetLayer(new_layer) ==
  /\ MainThread
  /\ new_layer \in 1 .. Len(Layers)
  /\ SetLayerInner(new_layer)
  /\ sent' = <<>>
  /\ UNCHANGED <<channel, installed, queued_events, control, thread>>

\* Mutant: the timer goes on.
PauseKeepsTimer ==
  /\ MainThread
  /\ paused' = TRUE
  /\ queued_events' = <<>>
  /\ sent' = <<>>
  /\ UNCHANGED <<channel, machine, stopped, thread>>

Pause ==
  /\ MainThread
  /\ paused' = TRUE
  /\ queued_events' = <<>>
  /\ current_timer' = None
  /\ sent' = <<>>
  /\ UNCHANGED <<channel, installed, cur_layer_idx, cur_state_idx, stopped, thread>>

Resume ==
  /\ MainThread
  /\ paused' = FALSE
  /\ sent' = <<>>
  /\ UNCHANGED <<channel, machine, queued_events, stopped, thread>>

\* stop() does not take mtx: the flag first, then the channel.
Stop ==
  /\ pc # "crashed" /\ ~stopped
  /\ stopped' = TRUE
  /\ sent' = <<>>
  /\ UNCHANGED <<channel, machine, queued_events, paused, thread>>

Close ==
  /\ pc # "crashed" /\ stopped /\ ~closed
  /\ closed' = TRUE
  /\ sent' = <<>>
  /\ UNCHANGED <<queue, machine, queued_events, control, thread>>

-----------------------------------------------------------------------------
(* The daemon and the clock. *)

SendKey(ev) ==
  /\ pc # "crashed"
  /\ Len(queue) < MaxQueue /\ Len(queued_events) < MaxPending
  /\ queue' = Append(queue, ev)
  /\ sent' = <<>>
  /\ UNCHANGED <<closed, machine, queued_events, control, thread>>

Later(left) == IF left = 0 THEN 0 ELSE left - 1

Tick ==
  /\ pc # "crashed"
  /\ \/ current_timer \notin {None, 0}
     \/ \E n \in 1 .. Len(queued_events) : queued_events[n].left > 0
  /\ current_timer' = IF current_timer = None THEN None ELSE Later(current_timer)
  /\ queued_events' = [n \in 1 .. Len(queued_events) |->
                         [queued_events[n] EXCEPT !.left = Later(@)]]
  /\ sent' = <<>>
  /\ UNCHANGED <<channel, installed, cur_layer_idx, cur_state_idx, control, thread>>

-----------------------------------------------------------------------------
(* The mapper thread: the loop of start(). *)

\* Nobody requests an interruption of this thread (main.cpp:47-52).
LoopTest ==
  /\ pc = "check"
  /\ pc' = IF stopped THEN "done" ELSE "wait"
  /\ sent' = <<>>
  /\ UNCHANGED <<channel, machine, queued_events, control, timeout, key_opt, stack>>

\* Mutant: the predicate of the wait does not look at `closed'.
WaitForKeyOnly ==
  /\ pc = "wait"
  /\ \/ queue # <<>> /\ key_opt' = Head(queue) /\ queue' = Tail(queue)
     \/ queue = <<>> /\ timeout # "none" /\ key_opt' = None /\ UNCHANGED queue
  /\ pc' = "lock"
  /\ sent' = <<>>
  /\ UNCHANGED <<closed, machine, queued_events, control, timeout, stack>>

\* wait_key: a closed channel gives nothing even when keys are left in it; an
\* empty one gives nothing once the wait times out, which it does only when
\* it was given a timeout.
WaitKey ==
  /\ pc = "wait"
  /\ \/ closed /\ key_opt' = None /\ UNCHANGED queue
     \/ ~closed /\ queue # <<>> /\ key_opt' = Head(queue) /\ queue' = Tail(queue)
     \/ ~closed /\ queue = <<>> /\ timeout # "none" /\ key_opt' = None /\ UNCHANGED queue
  /\ pc' = "lock"
  /\ sent' = <<>>
  /\ UNCHANGED <<closed, machine, queued_events, control, timeout, stack>>

\* A size_t nobody initialized may hold the index of any state, or none.
Targets(t) == IF t.new_state = Indeterminate
                THEN 1 .. Len(Layers[cur_layer_idx].states) + 1
                ELSE {t.new_state}

\* Mutant: a transition without a timer leaves the old one.
ApplyKeepsTimer(t, prev_event, rest) ==
  /\ cur_state_idx' \in Targets(t)
  /\ current_timer' = IF t.timer_ms = None THEN current_timer ELSE t.timer_ms
  /\ stack' = <<[prev |-> prev_event, outputs |-> t.outputs, redo |-> <<>>,
                 binds |-> <<>>, delay |-> 0]>> \o rest
  /\ UNCHANGED <<installed, cur_layer_idx>>

\* The first statements of apply_transition, called from activations `rest';
\* its two loops are the actions on the activation pushed here.
ApplyTransition(t, prev_event, rest) ==
  /\ cur_state_idx' \in Targets(t)
  /\ current_timer' = t.timer_ms
  /\ stack' = <<[prev |-> prev_event, outputs |-> t.outputs, redo |-> <<>>,
                 binds |-> <<>>, delay |-> 0]>> \o rest
  /\ UNCHANGED <<installed, cur_layer_idx>>

TimerExpired == current_timer = 0 /\ CurState.timer # None

\* The lock, the lookup of the current state, the timer.
CheckTimer ==
  /\ pc = "lock" /\ InRange
  /\ pc' = "key"
  /\ \/ TimerExpired /\ ApplyTransition(CurState.timer, None, stack)
     \/ ~TimerExpired /\ UNCHANGED <<machine, stack>>
  /\ sent' = <<>>
  /\ UNCHANGED <<channel, queued_events, control, timeout, key_opt>>

\* process_input when the mapper is not paused.
TakeTransition(ev, rest) ==
  /\ InRange
  /\ ApplyTransition(IF ev \in DOMAIN CurState.edges THEN CurState.edges[ev]
                                                     ELSE CurState.fallback, ev, rest)
  /\ sent' = <<>>

\* process_input when it is: a key event goes to the daemon as it came.
ForwardRaw(ev) ==
  /\ sent' = IF ev \in KeyEvents THEN <<ev>> ELSE <<>>
  /\ UNCHANGED <<machine, stack>>

ProcessKey ==
  /\ pc = "key" /\ stack = <<>>
  /\ pc' = "flush" /\ key_opt' = None
  /\ \/ key_opt = None /\ sent' = <<>> /\ UNCHANGED <<machine, stack>>
     \/ key_opt # None /\ paused /\ ForwardRaw(key_opt)
     \/ key_opt # None /\ ~paused /\ TakeTransition(key_opt, stack)
  /\ UNCHANGED <<channel, queued_events, control, timeout>>

\* check_queued_events leaves the delayed events in the vector and emits the
\* others, but std::partition keeps the order of neither: the first due event
\* from the left and the first delayed one from the right change places, and
\* so on until they meet.
Delayed(q) == {n \in 1 .. Len(q) : q[n].left > 0}

PartitionOrder(q) ==
  LET mid     == Cardinality(Delayed(q))
      due     == 1 .. mid \ Delayed(q)              \* due, among the first mid
      delayed == Delayed(q) \ 1 .. mid              \* delayed, after them
      Meet(i, j) == /\ i \in due /\ j \in delayed
                    /\ Cardinality({x \in due : x <= i}) = Cardinality({y \in delayed : y >= j})
  IN  [n \in 1 .. Len(q) |->
         IF \E m \in 1 .. Len(q) : Meet(n, m) \/ Meet(m, n)
           THEN CHOOSE m \in 1 .. Len(q) : Meet(n, m) \/ Meet(m, n)
           ELSE n]

EmittedButLast(q) ==          \* mutant: `it + 1 != end()'
  [n \in 1 .. Len(q) - Cardinality(Delayed(q)) - 1 |->
     q[PartitionOrder(q)[Cardinality(Delayed(q)) + n]].ev]

Emitted(q) == [n \in 1 .. Len(q) - Cardinality(Delayed(q)) |->
                 q[PartitionOrder(q)[Cardinality(Delayed(q)) + n]].ev]

KeptAll(q) == q               \* mutant: no resize

Kept(q) == [n \in 1 .. Cardinality(Delayed(q)) |-> q[PartitionOrder(q)[n]]]

\* Mutant: the next wait is short for a timer only.
FlushThenSleepLong ==
  /\ pc = "flush" /\ stack = <<>>
  /\ sent' = Emitted(queued_events)
  /\ queued_events' = Kept(queued_events)
  /\ timeout' = IF current_timer # None THEN "short" ELSE "long"
  /\ pc' = "check"
  /\ UNCHANGED <<channel, machine, control, key_opt, stack>>

\* check_queued_events, the timeout of the next wait, the unlock.
CheckQueuedEvents ==
  /\ pc = "flush" /\ stack = <<>>
  /\ sent' = Emitted(queued_events)
  /\ queued_events' = Kept(queued_events)
  /\ timeout' = IF current_timer # None \/ queued_events' # <<>> THEN "short" ELSE "long"
  /\ pc' = "check"
  /\ UNCHANGED <<channel, machine, control, key_opt, stack>>

-----------------------------------------------------------------------------
(* The mapper thread: the loops of apply_transition and queue_binds. *)

Top == Head(stack)

InActivation == pc \in {"key", "flush"} /\ stack # <<>>

Replace(activation) == stack' = <<activation>> \o Tail(stack)

\* queue_binds, one bind.  A wait delays the outputs after it in the list.
QueueOutput ==
  /\ InActivation /\ Top.binds # <<>> /\ Head(Top.binds).kind = "out"
  /\ queued_events' = Append(queued_events, [left |-> Top.delay, ev |-> Head(Top.binds).ev])
  /\ Replace([Top EXCEPT !.binds = Tail(@)])
  /\ sent' = <<>>
  /\ UNCHANGED <<channel, machine, control, pc, timeout, key_opt>>

QueueWait ==
  /\ InActivation /\ Top.binds # <<>> /\ Head(Top.binds).kind = "wait"
  /\ Replace([Top EXCEPT !.binds = Tail(@), !.delay = @ + Head(Top.binds).ms])
  /\ sent' = <<>>
  /\ UNCHANGED <<channel, machine, queued_events, control, pc, timeout, key_opt>>

SwapLayer ==
  /\ InActivation /\ Top.binds # <<>> /\ Head(Top.binds).kind = "layer"
  /\ SetLayerInner(Head(Top.binds).to)
  /\ \/ UNCHANGED pc
     \/ Head(Top.binds).to \notin 1 .. Len(Layers) /\ pc' = "crashed"
  /\ Replace([Top EXCEPT !.binds = Tail(@)])
  /\ sent' = <<>>
  /\ UNCHANGED <<channel, installed, queued_events, control, timeout, key_opt>>

NextOutput == InActivation /\ Top.binds = <<>> /\ Top.outputs # <<>>

\* The event a BasicTranlation or ProccessInput stands for.
EventOf(output) == IF output.ev # None THEN output.ev ELSE Top.prev

Rest == [Top EXCEPT !.outputs = Tail(@), !.delay = 0]

DeferInput ==
  /\ NextOutput /\ Head(Top.outputs).kind = "process"
  /\ Replace(IF EventOf(Head(Top.outputs)) = None THEN Rest
             ELSE [Rest EXCEPT !.redo = Append(@, EventOf(Head(Top.outputs)))])
  /\ sent' = <<>>
  /\ UNCHANGED <<channel, machine, queued_events, control, pc, timeout, key_opt>>

\* A mapped event queues its binds, an unmapped key event queues itself, an
\* unmapped focus change is dropped.
TranslateBasic ==
  /\ NextOutput /\ Head(Top.outputs).kind = "basic"
  /\ LET ev == EventOf(Head(Top.outputs))
         layer == Layers[cur_layer_idx]
     IN  \/ /\ ev = None
            /\ Replace(Rest) /\ UNCHANGED queued_events
         \/ /\ ev # None /\ cur_layer_idx \in 1 .. Len(Layers) /\ ev \in DOMAIN layer.basic
            /\ Replace([Rest EXCEPT !.binds = layer.basic[ev]]) /\ UNCHANGED queued_events
         \/ /\ ev # None /\ cur_layer_idx \in 1 .. Len(Layers) /\ ev \notin DOMAIN layer.basic
            /\ Replace(Rest)
            /\ queued_events' = IF ev \in KeyEvents
                                  THEN Append(queued_events, [left |-> 0, ev |-> ev])
                                  ELSE queued_events
  /\ sent' = <<>>
  /\ UNCHANGED <<channel, machine, control, pc, timeout, key_opt>>

\* Each bind of a sequence is a list of its own for queue_binds.
OutputBind ==
  /\ NextOutput /\ Head(Top.outputs).kind \in {"out", "layer", "wait"}
  /\ Replace([Rest EXCEPT !.binds = <<Head(Top.outputs)>>])
  /\ sent' = <<>>
  /\ UNCHANGED <<channel, machine, queued_events, control, pc, timeout, key_opt>>

OutputsDone == InActivation /\ Top.binds = <<>> /\ Top.outputs = <<>>

\* process_input for a deferred input.  It cannot find the mapper paused: a
\* paused mapper has no activation (PausedQuiescent) and pause() needs mtx.
RedoInput ==
  /\ OutputsDone /\ Top.redo # <<>>
  /\ TakeTransition(Head(Top.redo), <<[Top EXCEPT !.redo = Tail(@)]>> \o Tail(stack))
  /\ UNCHANGED <<channel, queued_events, control, pc, timeout, key_opt>>

Return ==
  /\ OutputsDone /\ Top.redo = <<>>
  /\ stack' = Tail(stack)
  /\ sent' = <<>>
  /\ UNCHANGED <<channel, machine, queued_events, control, pc, timeout, key_opt>>

\* An at() with an index out of range throws, and nothing on the thread
\* catches: in start(), in process_input, in the lookup of a basic mapping.
Throw ==
  /\ \/ pc = "lock" /\ ~InRange
     \/ pc = "key" /\ stack = <<>> /\ key_opt # None /\ ~paused /\ ~InRange
     \/ OutputsDone /\ Top.redo # <<>> /\ ~InRange
     \/ /\ NextOutput /\ Head(Top.outputs).kind = "basic"
        /\ EventOf(Head(Top.outputs)) # None /\ cur_layer_idx \notin 1 .. Len(Layers)
  /\ pc' = "crashed"
  /\ sent' = <<>>
  /\ UNCHANGED <<channel, machine, queued_events, control, timeout, key_opt, stack>>

-----------------------------------------------------------------------------
MapperStep ==
  \/ LoopTest \/ WaitKey \/ CheckTimer \/ ProcessKey \/ CheckQueuedEvents
  \/ QueueOutput \/ QueueWait \/ SwapLayer
  \/ DeferInput \/ TranslateBasic \/ OutputBind \/ RedoInput \/ Return
  \/ Throw

MainStep ==
  \/ \E p \in Profiles : SetProfile(p)
  \/ \E l \in 1 .. Len(Layers) : SetLayer(l)
  \/ Pause \/ Resume \/ Stop \/ Close

Next == MapperStep \/ MainStep \/ (\E ev \in InputEvents : SendKey(ev)) \/ Tick

Spec == Init /\ [][Next]_vars

-----------------------------------------------------------------------------
(* What the thread may rely on between its steps. *)

Activations ==
  [prev : InputEvents \cup {None}, outputs : Seq(StateMachineOutputs),
   redo : Seq(InputEvents), binds : Seq(Binds), delay : Nat]

TypeOK ==
  /\ queue \in Seq(InputEvents) /\ closed \in BOOLEAN
  /\ IsBuild(installed)
  /\ cur_layer_idx \in Nat /\ cur_state_idx \in Nat
  /\ current_timer \in Nat \cup {None}
  /\ queued_events \in Seq([left : Nat, ev : OutputEvents])
  /\ paused \in BOOLEAN /\ stopped \in BOOLEAN
  /\ pc \in Points /\ timeout \in {"none", "short", "long"}
  /\ key_opt \in InputEvents \cup {None}
  /\ stack \in Seq(Activations)
  /\ sent \in Seq(OutputEvents)

\* A paused mapper is quiet: no timer runs, no remapped output waits and no
\* transition is half done, so that everything that happens until resume() is
\* keys going through as they came (mapper.cpp:200-215, 255-263).
PausedQuiescent ==
  paused => current_timer = None /\ queued_events = <<>> /\ stack = <<>>

\* The thread sleeps long, or for ever, only when nothing is due to happen
\* without a key: no call of another thread leaves a timer or a delayed
\* output behind a long wait (mapper.cpp:123, 148-152).
NoOversleep ==
  (pc \in {"check", "wait"} /\ timeout # "short")
    => current_timer = None /\ queued_events = <<>>

\* A running timer always finds a timer transition to take, whatever layer or
\* profile change came in between (mapper.cpp:129-133): an expired timer
\* without one would make the thread poll for ever.
TimerHasTransition ==
  current_timer # None => InRange /\ CurState.timer # None

\* While a well-formed profile is installed both indices are in range,
\* whatever profile was installed before (an ill-formed one included) and
\* wherever the thread is: the indices and the tables change together.
IndexInRange == WellFormed(installed) => InRange

\* The thread dies only under a profile that is ill-formed, or with none.
NoCrash == WellFormed(installed) => pc # "crashed"

\* Replaying a broken sequence nests no deeper than a machine of the profile
\* has states (mapper.cpp:165-224: apply_transition and process_input call
\* each other).  It may end in another layer than it began in.
ReplayDepth ==
  stack # <<>> => \E l \in 1 .. Len(Layers) : Len(stack) <= Len(Layers[l].states)
=============================================================================
