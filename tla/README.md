# A TLA+ development of the Clickr keybinder

Clickr takes the keyboard away from the desktop, runs every key through a
mapper that the user programs with a profile (single keys, sequences of keys
with waits, layers, scripts), and types the result on a virtual keyboard. This
directory holds TLA+ modules translated from its C++ sources, the TLC
configurations that check them on small instances, and TLAPS proofs about them.
Line numbers refer to the sources in `src/`.

1. [The system](#1-the-system)
2. [The modules](#2-the-modules)
3. [How model and code correspond](#3-how-model-and-code-correspond)
4. [The runs](#4-the-runs)
5. [Fairness](#5-fairness)
6. [The proofs](#6-the-proofs)
7. [Where code and documents part](#7-where-code-and-documents-part)
8. [What is not modelled](#8-what-is-not-modelled)
9. [Plan](#9-plan)

## 1. The system

Three threads share one process: the **main thread** (Qt's event loop: tray,
local server, timers), the **daemon thread** (reads the keyboard) and the
**mapper thread** (decides what to type). macOS adds a focus listener's thread.

| component | source | state | operations |
|---|---|---|---|
| state machine generator | `common/src/state_machine.cpp` | states with edges, fallback, timer; metadata per state | `generate_states` |
| mapper | `common/src/mapper.cpp` | tables of the profile, current layer and state, timer, queued outputs, `paused`, `stopped` | `start` (loop), `set_profile`, `set_layer`, `pause`, `resume`, `stop` |
| key channel | `common/src/key_channel.cpp` | queue, `closed`, mutex, condition variable | `send_key`, `wait_key`, `close` |
| Linux daemon | `linux/src/daemon.cpp` | descriptors, grab, `is_running` | constructor, `start`, `send_outputs`, `cleanup` |
| Linux device manager | `linux/src/device_manager.cpp` | config file, lists of candidates | `retrieve_eventX`, `record_eventX`, `detect_keyboard`, its fallback |
| macOS, Windows daemons | `mac/`, `win/` | run loop or hook, focus listener | `start`, callbacks, `send_outputs` |
| key codes, key maps | `common/include/key_code.h`, `bi_map.h`, `key_code.cpp`, `*/src/key_map.cpp` | a bidirectional table per platform, and one of names | `insert`, `find_forward`, `find_backward` |
| profile parser | `common/src/read_profile.cpp` | none | the `from_json` of every part of a profile |
| start and end | `common/src/main.cpp`, `unix/`, `win/src/signal_handler.cpp` | threads, locals of `main` | `main`, `cleanShutdown`, signals |
| local server, tray | `common/src/local_server.cpp`, `tray.cpp` | buffer per connection, label of the menu | `read_data`, the menu's actions |
| profile store | `common/src/read_profile.cpp` | the file of the latest profile | `from_json`, `saveLatestJsonProfile`, `load_latest` |
| key counts, settings | `common/src/key_counter.cpp`, `settings.cpp` | counts, `dirty`, a flag, two files | `increment`, `clear`, `save`, `load`, `load_from_json` |
| logger, script runner, indicator | `common/`, `unix/`, `win/` | files, child processes, windows | see section 8 |

How they interact:

- The daemon thread calls `KeySender::send_key`; the mapper thread waits in
  `KeyReceiver::wait_key`, with a timeout when a timer runs or outputs are due.
- The mapper thread calls `Daemon::send_outputs`, which writes to the device the
  daemon thread writes to as well.
- The main thread calls `set_profile`, `pause`, `resume` under the mapper's
  mutex, and `stop` without it, while the mapper is anywhere in its loop.
- A client's lines arrive at `ClientConnection::read_data`, which calls the
  mapper, the settings and the counts, and writes the profile to disk on the way.
- What the daemon injects comes back to it on Windows through its own hook, on
  the main thread, among the user's keys.
- Settings announce a change to a slot of `main` that clears the counts the
  mapper thread adds to.
- At the end `cleanShutdown`, or the slot on `aboutToQuit` after a signal, waits
  for threads, and `main` destroys what they use.

What makes each of them correct, and what is hard about it:

- *Generator.* Sequences share states; a sequence that is accepted must be
  typable afterwards, one that is abandoned must give back what was typed,
  a timer that is armed must lead somewhere. The loop moves its index inside its
  body, reads a variable nobody assigned, and leaves a target uninitialised.
- *Mapper.* Tables, indices and timer must agree through profile changes, layer
  swaps, pauses and replays in any order; nothing pending may sleep behind a
  long wait; a delayed output is emitted once and when due; `stop` ends the thread.
- *Key channel.* No wake-up is lost, keys stay in order, close releases a wait.
- *Daemon.* What it passes on is what the keyboard does, although the user types
  while the keyboard is taken; frames are closed; cleanup returns everything.
- *The whole way of a key.* Three threads and the system hand a key on; unmapped
  keys take a shorter way than mapped ones, injected ones come round again. A key
  that went down must come up, in order, and no key may end the process.
- *Device manager.* The device that was pressed is the one that is used and the
  one that is remembered; the question ends.
- *Start and end.* Nothing is destroyed under a thread; the end comes.
- *Local server.* Lines in any pieces, from several clients: each answered once,
  in order, with its effect.
- *Profile store, counts.* What is on disk after any crash is what was accepted
  last, or nothing; nothing is counted twice.

`PROJECT.json` lists the components, the hazards line by line with the
properties that cover them, and the source lines of every definition.

## 2. The modules

| module | what it is |
|---|---|
| `StateMachine` | data of `state_machine.h`, and the generator as operators (recursive functions) |
| `StateMachineGen`, `GeneratorProofs` | the generator as a state machine over every layer a user can write; its properties; proofs, about what `ProfileBuild` makes of a profile too |
| `MapperTables` | the tables `set_profile` hands to the mapper, and when they are well-formed and can be replayed |
| `ProfileBuild` | `set_profile`: a profile's tables, or its refusal |
| `ProfileParser` | `read_profile.cpp`: a JSON value becomes a profile, or is refused |
| `JsonDocuments` | documents written the way users write them, for the runs |
| `KeyTables` | key codes, their names, the three platforms' tables, `BiMap` |
| `Mapper` | mapper thread, main thread's calls, clock; safety invariants |
| `Outbox` | abstract: what the mapper promises about delayed outputs |
| `MapperPromises` | `Mapper` implements `Outbox`; liveness |
| `MapperProofs` | proofs about `Mapper` and the refinement of `Outbox` |
| `KeyQueue` | abstract: what the mapper relies on the channel for |
| `KeyChannel`, `KeyChannelProofs` | the channel, mutex and condition variable included; implements `KeyQueue`; proofs |
| `Lifecycle`, `LifecycleProofs` | from the event loop to the end of the process, all platforms; proofs |
| `LinuxDaemon` | taking the keyboard, the loop, the two writers, cleanup |
| `KeyPath` | `Mapper` between the three daemons and their systems: keyboard, hook or device, tables, desktop |
| `Typewriter` | abstract: a keyboard whose strokes reach the desktop in order |
| `KeyPathProofs` | `KeyPath` keeps to `Mapper`, and under the default profile to `Typewriter`; proofs |
| `DeviceManager` | the daemon's constructor: config file, udev, the question to the user |
| `LinuxDaemonProofs` | proofs about `DeviceManager` and `LinuxDaemon` |
| `ProfileStore` | the file of the latest profile over crashes and restarts |
| `KeyCounts`, `KeyCountsProofs` | counter and settings over crashes and restarts; proofs |
| `RequestServer` | abstract: what the server promises its clients |
| `ClientConnection` | `read_data` byte by byte, the tray; implements `RequestServer` |
| `LocalServerProofs` | proofs about `ClientConnection` and `ProfileStore` |
| `MC*` | values for the constants; `MCMapper` writes profiles as a user does and compiles them with `ProfileBuild`; `MCMapperLog` adds two history variables |

How they fit together: `StateMachine` is used by `StateMachineGen` (every
layer), by `ProfileBuild`, and through it by `MCMapper`, so that the machines
`Mapper` is checked on are those the generator makes. What the two sides agree
on is in `MapperTables`: `Mapper` assumes of a profile's tables
(`BuildAssumption`) what `GeneratorProofs` proves of every profile that is
compiled (`CompiledIsBuild`). `Mapper` models the channel as the queue that
`KeyChannel` is shown to implement. `Lifecycle` takes from `Mapper` that `stop`
ends its thread and from `LinuxDaemon` that one more round does.
`ClientConnection` takes from `ProfileStore` that a profile can be loaded,
refused, malformed or fatal. `ProfileParser` reads documents into what
`ProfileBuild` compiles: `MCProfileStore` computes the fate of its documents
with the two, and `MCKeyPath` the machines that `KeyPath` runs. `KeyPath`
EXTENDS `Mapper`: each of its steps that touches the mapper is an action of
`Mapper`, with what the daemon and the system do in the same step; it stands
between the start and the end that `Lifecycle` models.

## 3. How model and code correspond

**Generator.** `Step` is one iteration of the loop over a sequence
(`state_machine.cpp:155-317`): the look-ahead that consumes a wait
(`Consumed`), sharing an edge (`Shareable`), a new edge and state (`AddEdge`,
`HalfTyped`), the wait (`AddTimer` with its four outcomes). States are numbered
from 1. Three facts of the code are kept as they are: `normailze_sequences`
merges no waits, because its lambdas for waits take a non-const reference and
the generic one is chosen for a const trigger; `states.at(next_state_idx)` at
line 268 reads an unassigned index after the last trigger (`ThrowOutOfRange` is
the other outcome); the fallback of a state made by a minimum wait in the middle
of a sequence keeps an uninitialised target (`Indeterminate`). Events and binds
are opaque.

**Mapper.** A step is one turn of one of the thread's loops. `pc` walks
`check` (test of `stopped`) → `wait` (`wait_key`) → `lock` (lookup, timer) →
`key` (`process_input`) → `flush` (`check_queued_events`, next timeout).
`apply_transition` and `process_input` call each other; `stack` holds the
activations with the outputs, binds and inputs to redo each has left. The mutex
is held from `key` to the end of `flush`, so main's calls are enabled outside.
Time is kept as time left and `Tick` lowers it; the code's millisecond waits are
small numbers. `PartitionOrder` is what libstdc++'s `std::partition` does.
An exception that leaves the thread is `pc = "crashed"`. An uninitialised
target may be any state or none (`Targets`). `set_layer` is modelled although
nothing calls it. `pause` keeps `cur_state_idx`, so that a sequence half typed
before it goes on after `resume`; `sent` is what one step handed to the daemon.

**Key channel.** A step is what a thread does between two operations on the
mutex or the condition variable. `Notify` wakes one waiter, `WaitSpurious`
wakes for nothing.

**Lifecycle.** `main` walks through `cleanShutdown`, `aboutToQuit` and the
destruction of the locals in reverse order; `platform` is chosen at the start.
The daemon threads of macOS and Windows sit in run loops of the system that
hear neither `requestInterruption` nor `quit`. `WaitGivenUp` is the five seconds.

**Linux daemon.** The kernel is what the code relies on: the input core passes
on changes only, to everyone who has opened the device unless one has grabbed
it. `ReleaseKey` is one turn of the loop at line 67, so that keys go up and down
between its turns. A key is written in two steps (event, SYN_REPORT) by the
daemon's thread and by the mapper's. The script branch of `send_outputs` leads
to the script runner and is left out; so is libevdev's SYN_DROPPED.

**Device manager.** A step handles one device. Whatever `open`, libevdev and
`is_full_keyboard` say is the device's `kind`; devices can be pulled out at any
time. A pass of the listening loop takes everything that waits on a device up to
a press of the space bar. Presses per device are bounded, which makes "the loop
reads faster than a user types" explicit.

**Key path.** `source` holds what the system will hand to the daemon: on Linux
the events of the grabbed device, on Windows the calls of the low-level hook,
injected events among them, on macOS the values of the seized devices. `ReadKey`
is one event (`LinuxRead`, `HookProc`, `HandleInputEvent`); `MapperTurn` is a step
of `Mapper` with the `send_outputs` of the batch it hands over: one key after the
other on Linux and macOS, until `find_backward` throws; all at once after the loop
on Windows (`SendInput`). `desktop` is what the system holds for pressed. `sys`
tells `WM_SYSKEYUP` from `WM_KEYUP` while Alt is down for the desktop; either may
come for Alt's own release. `client` is the virtual keyboard of macOS, which
`start` makes after it started the listener; `ended` names what ended the process.
`OnItsWay` is what has been typed and not yet written: the strokes in the system, in the
channel and in the mapper's hands, in the order they will come out; `Written` is what a
step wrote. Two history variables tell what may leave a key down (section 7).
`disturbed`: a profile, pause or resume during a stroke, or a release that came as
`WM_SYSKEYUP`. `reordered`: the mapper took two events of one key out of order, in
a flush (`FlushOutOfOrder`: what `std::partition` made of those that are due, or of
those that are not) or by translating one before an older one is given back
(`TranslateOutOfOrder`). No guard reads either. The empty mouse inputs `resize` puts before the keys on Windows
do nothing and are left out.

**Key tables.** A raw code is written as the key it is listed with first, so a
table is the set of keys it has, as a map onto itself; `insert` overwrites in each
direction separately, which matters for `VK_RETURN`, listed twice.

**Profile parser.** A JSON value is tagged with its type. Every complaint is a
`std::invalid_argument` that leaves `from_json`, so a document reads
(`ProfileReads`) or it does not, and `from_json` says what it reads as. A cast of
a negative number to `size_t` is a constant of its own (`NegativeAsSize`).

**Profile store.** `from_json` parses, then opens (and thereby empties) the
file, then writes it, and only then does `set_profile` judge the profile. A
profile's `Fate` says whether it is malformed, refused, fatal or good.

**Key counts.** A step is what a thread does under one lock: reading the
setting and counting are two. `pressed` counts the presses seen with the setting
on. A crash may cut off the file that is being written. A key repeat reaches the
mapper as a press and counts as one.

**Connections.** A line is two bytes and its line ending; `ReadData` takes any
number of the bytes that have arrived; `HandleLine` is one turn of the loop. A
line that loads a fatal profile throws something that is not
`std::invalid_argument`, which ends the process.

## 4. The runs

Ten runs pass and two refute a statement of the repository. Every property of a
passing run is broken by a mutant of the code, written next to the definition it
replaces and named in `PROJECT.json`.
Types are proved for the mapper, the connections, the profile store and the key
counts (most of them inside an inductive invariant); in the other modules `TypeOK` says what the variables
are and no run is spent on it.

| run | distinct states | shows |
|---|---|---|
| `generator` | 477 842 | the machine of any layer in the bounds is closed, its timers fire, its loops pass home, an accepted sequence can be typed, an abandoned one gives its keys back |
| `gen_normalized` | (refutes) | two waits in a row throw instead of being merged or refused |
| `mapper` | 123 507 | under well-formed, ill-formed and refused profiles: `PausedQuiescent`, `NoOversleep`, `TimerHasTransition`, `IndexInRange`, `NoCrash`, `ReplayDepth` (no replay nests deeper than a machine of the profile has states); `Mapper` implements `Outbox`; `stop` ends the thread, timers resolve, outputs are emitted |
| `mapper_replay` | (refutes) | a broken sequence gives its keys back in another order |
| `key_channel` | 3 688 | no lost wake-up; the channel implements `KeyQueue` |
| `lifecycle` | 1 092 | what is joined before what is destroyed, on three platforms; on Linux the end comes |
| `linux_daemon` | 363 689 | keys passed on follow the keyboard; what the desktop may be left with; frames closed; cleanup |
| `device_manager` | 81 586 | the device asked for is the one pressed, and remembered; the question ends |
| `key_counts` | 26 988 | no press counted twice over crashes, at most one straggler after a clear |
| `profile_store` | 7 519 | JSON documents of every fate: the file holds the latest one that could be read, restarts come up |
| `key_path` | 365 306 | on three platforms: a key sticks only for the causes named in section 7, only an absent key kills the process, the default profile is the identity in order, everything typed gets through |
| `client_connection` | 40 920 | `ClientConnection` implements `RequestServer`; no whole line waits |

Bounds, and why they are enough:

- `generator`: two inputs, two durations, three behaviours, sequences of up to
  three triggers; two sequences of any such length, and a third one when the
  first two have four triggers or fewer between them. Sharing is decided from one
  state and one trigger, so two sequences of three triggers (a shared state, a
  wait on it, a way out of it) meet every branch, and the third sequence meets a
  machine that two others share. The space of `Step`'s branches is covered.
- `mapper`: two keys, one focus change, profiles with waits on both sides,
  layers that swap each other, a layer that does not exist, an uninitialised
  target, a refused profile; two keys in the channel and two or three outputs
  pending (`MaxQueue`, `MaxPending`), outputs that have to wait one tick or none
  (`Delays`). Three outputs pending are enough for
  `std::partition` to reorder them.
  A replay may swap layers on its way, so `ReplayDepth` asks for one machine of the
  profile that has as many states as the stack has activations. The run asks it of
  the ill-formed profile too, which is not `Replayable` (section 6): there the condition of
  the theorem is not needed.
- `key_channel`: two senders (macOS has two), two queued keys.
- `lifecycle`: the model is finite but for the signals; a second signal is the
  one that finds the notifier disabled or the loop ended.
- `linux_daemon`: a key the mapper knows and one it does not, four changes of
  the keyboard (`MaxTyped`): down and up of each around the grab.
- `key_path`: four events (`MaxEvents`), at most one of them a profile change, pause
  or resume (`MaxCalls`), two keys in the channel and three outputs pending. Keyboards
  of two or three keys hold one of each kind: a key that is mapped, one that is
  combined, one the table lacks (Linux), Alt and the key listed twice (Windows), two
  keys with one code (macOS). Four events are the whole strokes of two keys in any
  order, so that a key the table lacks overtakes one that is mapped, and a sequence
  of three presses is broken by the release of its first or second key; or a press,
  another key or a repeat, and a release, around a call at any point. A second call
  would only undo the first. The user types the next event once the daemon has taken
  the last (`MaxAhead` is 0): until then an event waits in the system behind the
  others, where nothing can happen to it; typing ahead fills the channel. Profiles:
  the default, one that remaps to a key and to a key two tables lack, and one
  with two presses and a wait combined, three presses combined and two strokes with
  a wait between them.
- `device_manager`: two devices of any kind, two presses on each: two keyboards
  pressed at once, and one space bar behind another key.
- `key_counts`: two keys, three presses of each: one on disk, one in memory, one
  in the mapper's hands. `profile_store`: a document of each fate (the
  fatal ones are a default layer that does not exist, the second document of
  `profile_parsing.cpp`, and a sequence that begins with a wait) and a second
  good one, two failed saves and two crashes. `client_connection`: two clients
  with two lines and one, all splits of their bytes.

`CHECK_DEADLOCK FALSE` stands where the system may stop: the generator returns,
the mapper and the process end, the user stops typing (`linux_daemon`), a client
has said everything.

## 5. Fairness

- `MapperPromises`: the thread is scheduled (`MapperStep`; its waits have
  timeouts but for the first), time passes (`Tick`), a `stop` that was begun
  closes the channel. No key has to come.
- `KeyChannel`: a thread inside `send_key`, `wait_key` or `close` goes on. Strong
  fairness for taking the mutex and for a timeout, since spurious wake-ups may
  disable them again and again. Nothing makes a key or a close come.
- `Lifecycle`: every thread is scheduled; the mapper's wait ends of itself only
  once the channel is closed. On macOS nothing makes the user change the
  application, which the focus listener's `fgets` waits for.
- `DeviceManager`: the main thread runs and thirty seconds pass; nobody has to
  press anything.
- `KeyPath`: the system calls the daemon back when it has an event, the mapper's
  thread is scheduled, time passes, `start` goes on to make the client. Nobody has
  to type.
- `ProfileStore`: the process is started again whenever it has ended, a call
  goes on to its end.
- `ClientConnection`: weak fairness for a handler that runs, strong fairness for
  each socket with something to read, as the event loop visits its sockets in
  turn; weak fairness would allow one client to keep the thread for ever.

## 6. The proofs

All proofs are for every value of the constants: any keys, profiles, documents,
devices and bounds. They rest on the named assumptions of the modules, which TLC
evaluates in the runs: that a profile's build is what `set_profile` makes or a
refusal (`BuildAssumption`), that the default profile has one layer with nothing in
it (`PlainAssumption`, `read_profile.cpp:330`), that binds are a list
(`BindsAssumption`), and the like. Some theorems have hypotheses of their own:

- `NoneIsNoTransition` says that `std::nullopt` is not a transition; it ranges over
  all values, so TLC cannot evaluate it, and it holds of any model value.
- `DurationsAreNumbers` and `IsProfile` say what the parser's types say: waits are
  counted in milliseconds, a profile is a default layer and a list of layers.
- `Delays = Nat` in `MapperImplementsOutbox` says that a list of binds may delay an
  output by any time; a run has the delays its profiles can add up to.
- `[](installed = Build[Plain])` in `DefaultNeverSticks`: the user loads no profile
  but the default one. What a profile that remaps leaves down depends on its binds.

Of these assumptions `BuildAssumption` is the strong one. Its part about accepted
profiles is `CompiledIsBuild`, for every profile that can be written; what remains is
that nothing is installed but what `set_profile` has compiled.

**Generator** (`GeneratorProofs`): layers of any number of sequences of any length.

- **`GeneratorCloses`**, **`GeneratorArmsOnlyTimers`**, **`GeneratorLoopsPassHome`**:
  from `GenInv`. Its parts are `Wired` (edges, timers and fallbacks lead to states
  there are, edges and timers to later ones or home) and `ArmedBut` (an edge that arms
  a timer leads to a state that has one; inside a step, to a state that is about to
  get one). One lemma for each way in
  which a state changes, one for each branch of the loop.
- **`GeneratorWiresAll`**: `WalkInv` says that the loop, in the middle of a sequence,
  stands in the state that typing its triggers so far leads to, and that what was
  accepted before stays typable. The latter is a lemma about growth: a machine grows
  only in places a walk through it does not see. What a walk does for every length is
  shown by a least counterexample.
- **`GeneratorReplays`**: a witness `P` gives each state the inputs on the way to it
  (`Traced`); under `FallbackReplaysPath`'s condition on the layer a state is reached
  in one way, and the outputs of its fallback are that way.

- **`CompiledIsBuild`**: what `set_profile` compiles from any profile has the types
  `Mapper` relies on, an armed timer included. `Built` is the invariant, after each
  sequence, of the recursive functions themselves, without the state machine around
  them: `Sound`, the closedness and timers from above, and `Typed`, that every edge,
  fallback and timer holds outputs of the profile or of the generator, and leads to a
  place that `Homes` allows. `GenerateBuilds` concludes it for a whole layer, by a
  least counterexample.
- **`CompiledIsWellFormed`**: with a default layer and layer swaps that exist, and
  minimum waits only at the end of sequences, no bind leaves the tables and no
  fallback keeps the target nobody assigned (`Homes` is then the home state alone).
  Neither is checked by the code; the conditions are those it would have to check.
- **`CompiledIsReplayable`**: under `Tidy` (minimum waits last, and no sequence that
  ends in an input has inputs that properly begin another's) a fallback gives
  back less than was typed to reach it. `Rooted` has a witness `P`, the inputs on the
  way to each state, whose lengths are the ranks: an edge adds one input at most, an edge
  that ends a sequence gives nothing back, and a fallback processes again all but
  the first.

**Mapper** (`MapperProofs`).

- **`MapperTypes`**: `TypeOK`. The lemmas say what each piece of a turn does to
  the types (`PushTyped`, `KeptTyped`, `EmittedTyped`: the partition neither
  loses a place nor invents one).
- **`PausedMapperIsQuiet`** and **`NeverOversleeps`**: neither is inductive. A
  half-done transition would queue outputs after a pause; what forbids it is
  `ActivationsInTurn`: an activation exists only inside a turn, which holds the
  mutex that `pause` needs.
- **`RunningTimerIsArmed`**: with `TypeOK`, which carries what the generator
  guarantees of a transition that arms a timer. A change of layer clears the
  timer together with the state.
- **`IndicesFitTables`** and **`WellFormedNeverCrashes`**: under a well-formed
  profile both indices are in range and no exception ends the thread, whatever
  profile was there before. The strengthening `TablesFit` adds that every
  half-done transition on the stack came from the tables now installed and
  names layers they have.
- **`ReplaysAreShallow`**: `ReplayDepth` whenever the profile installed is
  `Replayable`. The depth alone is not inductive, since an activation still holds
  inputs to redo, each of which may open another. `Shallow` gives every activation a
  debt, the inputs it and those under it have yet to process: depth, debt and the rank of
  the current state stay within the machine the replay began in. A fallback falls
  below the rank it leaves, so it opens less than it closes; a swap of layers goes to a
  home state, whose rank is zero.
- **`MapperImplementsOutbox`**: every step of `Mapper` is a step of `Outbox` or leaves
  it alone, where the outbox counts, for each output and delay, how many wait. The
  partition of a flush is a permutation, so it changes no count; a step queues, emits
  or drops one output, a tick lowers all delays at once.

**Channel, life cycle, Linux daemon.**

- **`NoWakeupLost`**, **`ChannelIsQueue`**: with its types `NoLostWakeup` is
  inductive: the queue fills and the channel closes only in a step that leaves
  its thread about to notify. The second is the safety part of `IsKeyQueue`, one
  step of a thread at a time.
- **`TrayExitIsSafe`**, **`MapperStopsLast`**: `JoinedInOrder` says, for each
  point of `cleanShutdown`, which threads have been waited for, and that a
  thread that ended stays ended.
- **`SignalIsHeard`**, **`ListenerEndsFirst`**: `WaitedFor` adds that main returns
  with a daemon thread that has ended or that it gave up on, and that a focus
  listener exists only once that thread has started.
- **`GrabLeavesNoKeyHeld`**, **`EveryFrameCloses`**, **`LoopIsCleanedUp`**:
  `TakenInOrder`. Until the grab the desktop holds what the input core does, and of
  the keys the loop has already released only those pressed since are down.
- **`NoKeyIsLeftDown`**: `PassedInOrder` compares what the keyboard has with what was
  passed on plus what waits on the device (`Seen`, a fold over the waiting events);
  lemmas say what one more event at either end does to the fold.
- **`QuestionIsAnswered`**: `AskedInOrder` adds what waits on the devices: nothing
  outside the question, and a press of the space bar only where the user pressed one.
- **`ChoiceIsRemembered`**: inductive as it stands, for every way into `ready`.

**Store, counts, connections.**

- **`LatestFound`**, **`AlwaysReadable`**, **`OnlyGoodInstalled`**: `SaveInv` says
  what is known between `from_json` and `set_profile`: the document at hand is the
  one parsed last, the file is being written, or holds that document.
- **`NeverCountedTwice`**: `CountInv`, the invariant itself with its types and
  `DownHoldsNone`: a process that is down holds no key, without which a start
  would add to what the file says. **`OneStragglerAtMost`** adds `ClearedInv`: who
  the one key is.
- **`EveryLineIsTreated`**, **`ConnectionsAreServer`**: `LinesFramed` says that the
  bytes in the buffer and those still on the wire are together the encodings of the
  lines that have no answer yet. The line end the handler finds is thus the end of the
  first of these lines, and `RequestServer` sees it taken; `OthersTreated` says that
  only the buffer the handler is at holds a line end.

**The whole way** (`KeyPathProofs`).

- **`PathIsMapper`**: every step of `KeyPath` is a step of `Mapper` or leaves it
  alone; the only thing to show is that what a daemon makes of a key it knows is an
  input of the mapper. `Mapper`'s own theorems then hold between a keyboard and a
  desktop (**`PathKeepsTables`**).
- **`KeysKillByProfileOnly`**: `OnlyAbsentKeysKill` for every keyboard and profile.
  `TablesRoundTrip` says that what a table reads it can write (`insert` overwrites,
  but what it overwrote stays listed the other way); `KillInv` that under a profile
  that names no absent key everything on its way, in the channel, on the stack of
  half-done transitions and among the delayed outputs, can be written. It needs
  `KeyInTurn`: a profile loaded while nothing is on its way finds the thread
  without an input in its hands.
- **`DefaultIsTheKeyboard`**: `PassThrough`, that under the default profile a step of
  `KeyPath` is a step of `Typewriter`. `WayInv` says that whatever is on its way is a
  key of the table or a change of focus, and that nothing is injected off Windows;
  `PlainInv` that under the default profile the thread has at most one input in its
  hands (`Carried`), in one of the four shapes a turn gives it. `OnItsWay` is then
  what is injected, that input, the channel and the keyboard's own events, in this
  order (`Way`), and each action leaves it, adds to its end or strikes its head.
  `ThereAndBack`: what a table writes for what it reads is the key itself.
- **`DefaultNeverSticks`**: `RestsClear`, which is `NothingStuck` without the premise
  about `reordered`, and so `NothingStuck`, while only the default profile is
  installed, paused or not, from `DefaultIsTheKeyboard` and `DeskInv`. `RestsClear`
  speaks of the moments when nothing is on its way; `DeskInv` of all others. It
  lets whatever is on its way reach the desktop in thought (`StaysDown`) and says that
  only keys the user holds are then down: over `OnItsWay` for the keys of the
  table (`MappedKept`), over the system's own events for the rest, which pass the mapper
  by (`OthersKept`). A step that strikes the head of `OnItsWay` takes from one what it adds
  to the other (`FirstStroke`); a key the user presses or releases is the last word on
  its code (`LaterStroke`). `MappedKept` is suspended while a release as `WM_SYSKEYUP`
  is in the system, because it will overtake its press and set `disturbed`.

Only model-checked:

- Everything about liveness (`StopEnds`, `TimersResolve`, `OutputsEmitted`,
  `ExitCompletes`, `DetectEnds`, `RestartsComeUp`, `PathDrains`) and the fair parts of
  the refinements of `Outbox`, `KeyQueue` and `RequestServer`: they need ENABLED, which
  the prover does not have. Their steps are proved.
- `NothingStuck` under profiles that remap: checked of the two profiles of `key_path`
  and of no others. That every press of a profile has its release does not make it
  true of a profile. The mapper must not take the events of a key out of order
  (`reordered`), which it does under both of the constructs of the second profile
  that section 7 names; the press and the release of a stroke must be read in the
  same layer; and neither a mapping nor a sequence may swallow a release whose press
  went through.

## 7. Where code and documents part

Two runs end in a counterexample.

- `gen_normalized`: a comment (`state_machine.cpp:32-34`) says subsequent waits
  become one and an invalid profile gives `nullopt`. Two waits in a row, or a wait
  first, reach `trigger_to_input(trigger).value()` (line 170) and throw. The
  exception is not the one `read_data` catches, so loading such a profile ends
  the process.
- `mapper_replay`: a test (`sequence_mapper_tests.cpp:173-174`) expects the keys
  of a broken sequence as they were typed. `apply_transition` redoes inputs after
  all outputs of the transition, so that the event that broke a sequence of three
  overtakes the second one typed.

While modelling, these were met as well. The properties of the passing runs are
stated so as to be true of them:

- The machine `add_sequence` builds holds what it never assigned: after the last
  trigger `next_state_idx` is whatever the memory held (`state_machine.cpp:188, 268`), and
  so is the target of a fallback that only a timer leads to (line 303).
  `EverySequenceWired` is about sequences whose last trigger is an input; `Closed`
  leaves such fallbacks out, and `NoCrash` and `IndexInRange` are about profiles
  without them (`WellFormed`), and without a layer number past the end
  (`mapper.cpp:91`). `CompiledIsWellFormed` says which profiles have neither.
- A sequence sharing an edge made without a wait gives the state behind it a
  timer that the edge does not arm (`state_machine.cpp:209`); a second "hold" on
  the same state is accepted and its binds are dropped (line 280); a sequence that
  extends an accepted one is accepted and can never be typed (line 189).
  `FallbackReplaysPath` is therefore stated for layers where no sequence begins
  another and `EverySequenceWired` for sequences that end in an input.
- Such accepted pairs can replay into each other and recurse (`mapper.cpp:196`);
  `ReplaysAreShallow` is about profiles without them (`Replayable`), and `Tidy` says
  which profiles those are.
- Outputs that fall due together are reordered by `std::partition`
  (`mapper.cpp:234`); `Outbox` promises no order within a flush. With a wait in a list
  of binds this leaves keys down: of "press B, release B, wait, press C, release C"
  the two of B are due and the two of C are not, and the swaps that bring the
  first two behind the others turn both pairs round. B goes up, then down; once the
  wait is over C does the same. Without `~reordered`, that is for `RestsClear`, TLC
  finds the trace in `key_path` with two events, on Linux: Enter is pressed and
  released and the desktop holds B and C for good.
- The order `mapper_replay` shows leaves a key down as well. Under a
  default sequence that begins with Enter, A, the user types Enter, A and releases A:
  the release breaks the sequence and is translated before the press of A, which
  waits to be given back (`mapper.cpp:195-197`), so that A goes up, then down. TLC finds
  this trace for `RestsClear` with four events once the binds with the wait are taken out
  of the profile. `NothingStuck` excludes both ways by `reordered` and says that there
  is no other under the profiles of the run.
- `pause` and `stop` drop queued releases of keys already pressed, and a closed channel
  what is left in it (`key_channel.cpp:37`); `KeyQueue` allows it.
- After SIGTERM the mapper thread is neither stopped nor joined
  (`signal_handler.cpp:48-58`): `TrayExitJoins` has no counterpart for signals,
  `SignalJoinsDaemon` is what holds. On Windows and macOS the tray's exit waits
  for ever for the daemon thread (`main.cpp:42`): `ExitCompletes` is about Linux.
- A start that fails after the grab leaves the keyboard grabbed, because
  `is_running` is set last (`daemon.cpp:79-86`); `CleanupAfterLoop` is about
  starts that reached the loop. A key pressed between its release and the grab
  stays down for the desktop (`OnlyLateKeysHeld`). Two writers may share a frame
  (`daemon.cpp:168-176`); `FramesAreClosed` is what holds.
- A device that libevdev does not take stays open (`device_manager.cpp:282`).
- A profile that `set_profile` refuses or dies of is on disk already
  (`read_profile.cpp:355`) and is found by every later start: `RestartsComeUp`
  assumes the file holds none. A client whose profile is refused is told "ok"
  (`local_server.cpp:97`).
- `save` forgets a file it could not open, and clearing counts that are not dirty
  does not touch the file (`key_counter.cpp:73-87`): the old counts come back with
  the next start.
- A client's pause does not change the tray's label (`tray.cpp:21`), so that the
  next click may do nothing. `send_key` always returns true, so the branch for
  unmapped keys at `daemon.cpp:112-122` is dead. Negative numbers in a
  profile are cast to `size_t` (`read_profile.cpp:347`), and a remapping with neither
  `trigger` nor `triggers` is passed over without a word (line 322).
- A profile change, pause or resume while a key is held: its release is read by
  other tables than its press was, and what the press wrote stays down. `disturbed`
  excludes it from `NothingStuck` and `PassThrough`.
- Windows: `WM_SYSKEYUP` is not in the hook's switch (`win/src/daemon.cpp:163-184`):
  while Alt is down a release overtakes its own press, and the key stays down.
  Enter is listed twice (`win/src/key_map.cpp:74, 125`, "Shared Enter mapping for
  Numpad"): it arrives as `NumpadEnter`, and a profile that maps `Enter` never sees
  it. `inputs.resize` puts two empty mouse inputs per key before the keys (line 76).
- macOS: the listener starts before the client exists (`mac/src/daemon.cpp:80, 110`),
  so a focus change at the start may post a report through a null pointer; its
  lambda holds a reference to a parameter of the constructor (line 23), so what it
  sends may get lost or end the process. The usage page is not looked at (line 179):
  the mute button, whose code on its page is left Alt's on the keyboard's, is read
  as left Alt.
- A key that a profile may name but the platform's table lacks (F13 to F24 on Linux
  and Windows, media keys on macOS) ends the process when it is to be written
  (`find_backward` at `linux/src/daemon.cpp:148`, `win/src/daemon.cpp:85`,
  `mac/src/daemon.cpp:163`).

## 8. What is not modelled

- *Logger*: formatting and rotation of files nothing reads back. A model would have
  one thing to say, that `MAX_BACKUP_FILES` backups are kept, and it does not hold:
  every thread that logs may roll over, two of them list the backups before either
  renames (`logger.cpp:41-75`), and a rename within the same second is refused.
- *Script runner and temporary files*: a script is an output like any other. On
  Windows a script's file is cached by its text only (`win/src/script_runner.cpp:75`),
  so that its extension is the one of the interpreter that came first.
- In the daemons of macOS and Windows: a device that cannot be seized, keyboards
  that come and go, a hook that cannot be installed, events other programs inject.
- *Indicator, tests, learning programs*: windows, statements about the mapper, and experiments.
- In modelled parts: the lock file that keeps a second instance out, fuzzy
  matching of application names (an opaque event), `processed_events_count` (a
  counter for the tests), listening and the socket's permissions, connection
  objects that stay after their client has gone, a crash while the device
  manager's config file is rewritten.

## 9. Plan

Written so far, in this order: generator, profile tables, mapper, outbox and
proofs; channel; life cycle; Linux daemon; counts; profile store; connections;
device manager; key tables, profile parser, the whole way of a key and its proofs;
proofs about the generator, the outbox, the keyboard's takeover, the device manager,
the connections and the default profile; proofs about what a profile is compiled to,
about replays and about keys that stick.

Next, the most important first:

1. `NothingStuck` for profiles that remap: the condition of section 6 on a profile's
   binds, layers and sequences, proved to be enough the way `Replayable` is, and
   checked of what `ProfileBuild` compiles.
2. `Lifecycle` refined to the real mapper thread; a crash while the device manager
   writes its file; devices that come and go.
