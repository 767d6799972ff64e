------------------------------- MODULE KeyPath -------------------------------
(***************************************************************************)
(* The whole way of a key: from the keyboard through the platform's daemon *)
(* (linux/src/daemon.cpp, win/src/daemon.cpp, mac/src/daemon.cpp), the     *)
(* channel and the mapper to the desktop, while the main thread loads      *)
(* profiles, pauses and resumes.                                           *)
(*                                                                         *)
(* Mapper is the mapper's thread, the channel and the calls on them; here  *)
(* are the daemon on both ends and the three systems around it.  It begins *)
(* when the daemon has the keyboard and ends before the exit does.         *)
(***************************************************************************)
EXTENDS Mapper, KeyTables, SequencesExt

CONSTANTS
  Platforms,      \* subset of {"linux", "win", "mac"}
  PhysicalKeys,   \* PhysicalKeys[platform]: keys of the user's keyboard
  Focus,          \* the input for a change of the application
  Scripts,        \* the outputs that are scripts
  Plain,          \* Profile::default_profile()
  MaxEvents,      \* bound: events of the keyboard, changes of focus and calls
  MaxCalls,       \* bound: profile changes, pauses and resumes among them
  MaxAhead        \* bound: events on their way to the daemon when one more is typed

ASSUME PathAssumption ==
  /\ Platforms \subseteq DOMAIN int_to_keycode
  /\ DOMAIN PhysicalKeys = Platforms
  /\ Focus \in InputEvents \ KeyEvents /\ Scripts = OutputEvents \ KeyEvents
  /\ Plain \in Profiles
  /\ \A p \in Platforms : \A code \in DOMAIN int_to_keycode[p].forward : \A press \in BOOLEAN :
       KeyEvent(int_to_keycode[p].forward[code], press) \in KeyEvents
  /\ MaxEvents \in Nat /\ MaxCalls \in Nat /\ MaxAhead \in Nat
  /\ None \notin {"key", "client", "reference"}

\* One layer, nothing in it (read_profile.cpp:330): the state a machine begins with.
ASSUME PlainAssumption ==
  LET layer == Build[Plain].layers[1]
  IN  /\ Build[Plain].default_layer = 1 /\ Len(Build[Plain].layers) = 1
      /\ layer.basic = NoEdges /\ layer.states = <<HomeState>>

VARIABLES
  platform,
  held,           \* physical keys that are down
  source,         \* events on their way to the daemon, the injected ones included
  desktop,        \* raw codes the desktop holds for pressed
  client,         \* macOS: the client of the virtual keyboard exists
  ended,          \* what ended the process, None while it runs
  typed, calls,
  disturbed,      \* history: something happened that may leave a key down
  reordered       \* history: the mapper took two events of one key out of order

system == <<held, source, desktop>>
counts == <<typed, calls>>
path == <<platform, system, client, ended, counts, disturbed, reordered>>
pathVars == <<vars, path>>

table == int_to_keycode[platform]

Running == ended = None

EventsLeft == typed + calls < MaxEvents

PathInit ==
  /\ Init
  /\ platform \in Platforms
  /\ held = {} /\ source = <<>> /\ desktop = {}
  /\ client = (platform # "mac") /\ ended = None
  /\ typed = 0 /\ calls = 0
  /\ disturbed = FALSE /\ reordered = FALSE

\* Nothing is on its way and no timer runs.
Quiet ==
  /\ source = <<>> /\ queue = <<>>
  /\ pc \in {"check", "wait"} /\ queued_events = <<>> /\ current_timer = None

OneIf(condition, element) == IF condition THEN <<element>> ELSE <<>>

Switch(codes, code, press) == IF press THEN codes \cup {code} ELSE codes \ {code}

-----------------------------------------------------------------------------
(* The user, and the system up to the daemon.                               *)

\* Down, up, and down again while it is down: a repeat.  On Windows the
\* message is WM_SYSKEYDOWN or WM_SYSKEYUP while Alt is down for the desktop;
\* Alt's own release is one or the other.
TypeKey(key, press) ==
  /\ Running /\ EventsLeft /\ Len(source) <= MaxAhead
  /\ press \/ key \in held
  /\ held' = Switch(held, key, press)
  /\ \E sys \in BOOLEAN :
       /\ sys => platform = "win" /\ "LeftAlt" \in desktop
       /\ ~sys => \/ platform # "win" \/ "LeftAlt" \notin desktop
                  \/ key.code = "LeftAlt" /\ ~press
       /\ source' = Append(source, [code |-> key.code, press |-> press, sys |-> sys,
                                    injected |-> FALSE])
  /\ typed' = typed + 1
  /\ UNCHANGED <<vars, platform, desktop, client, ended, calls, disturbed, reordered>>

-----------------------------------------------------------------------------
(* The daemon, towards the mapper.                                          *)

\* The system goes on to the desktop with the event.
PassOn(event) == desktop' = Switch(desktop, event.code, event.press)

Unknown(event) == ~ContainsForward(table, event.code)

Known(event) == ContainsForward(table, event.code)

ToMapper(event) == SendKey(KeyEvent(table.forward[event.code], event.press))

\* The loop of start() on Linux; a repeat is one more press.  Keys the table
\* does not have go to the virtual keyboard at once.
LinuxRead(event) ==
  /\ platform = "linux"
  /\ \/ Known(event) /\ ToMapper(event) /\ UNCHANGED desktop
     \/ Unknown(event) /\ PassOn(event) /\ UNCHANGED vars
  /\ UNCHANGED disturbed

\* Mutant: no look at the flag and the tag of an injected event.
HookReadsItsOwn(event) ==
  /\ platform = "win"
  /\ \/ Known(event) /\ ToMapper(event) /\ UNCHANGED <<desktop, disturbed>>
     \/ Unknown(event) /\ PassOn(event) /\ UNCHANGED <<vars, disturbed>>

\* Mutant: CallNextHookEx for a key the mapper got.
HookLetsThrough(event) ==
  /\ platform = "win"
  /\ PassOn(event)
  /\ \/ ~event.injected /\ Known(event) /\ ToMapper(event)
     \/ (event.injected \/ Unknown(event)) /\ UNCHANGED vars
  /\ UNCHANGED disturbed

\* Windows, in the message loop of the main thread.  Injected events and keys
\* the table does not have are let through, and so is WM_SYSKEYUP, which the
\* switch does not name; send_key always returns true.
HookProc(event) ==
  LET Ignored == event.injected \/ Unknown(event)
      SysKeyUp == event.sys /\ ~event.press
  IN  /\ platform = "win"
      /\ \/ ~Ignored /\ ~SysKeyUp /\ ToMapper(event) /\ UNCHANGED <<desktop, disturbed>>
         \/ /\ Ignored \/ SysKeyUp
            /\ PassOn(event) /\ UNCHANGED vars
            /\ disturbed' = (disturbed \/ (~Ignored /\ SysKeyUp))

\* macOS, in the run loop that start() enters once the client exists.  The
\* page of the usage is not looked at; a code the table does not have is
\* dropped, and the device is seized.
HandleInputEvent(event) ==
  /\ platform = "mac" /\ client
  /\ \/ Known(event) /\ ToMapper(event)
     \/ Unknown(event) /\ UNCHANGED vars
  /\ UNCHANGED <<desktop, disturbed>>

ReadKey ==
  /\ Running /\ source # <<>>
  /\ LinuxRead(Head(source)) \/ HookProc(Head(source)) \/ HandleInputEvent(Head(source))
  /\ source' = Tail(source)
  /\ UNCHANGED <<platform, held, client, ended, counts, reordered>>

-----------------------------------------------------------------------------
(* The daemon, from the mapper: send_outputs, in a step of the mapper's     *)
(* thread.                                                                  *)

\* find_backward throws, and nothing on the thread catches.
Unsendable(ev) == ev \in KeyEvents /\ ~ContainsBackward(table, ev.code)

KeysOf(batch) ==
  FlattenSeq([n \in 1 .. Len(batch) |-> OneIf(batch[n] \notin Scripts, batch[n])])

\* The keys before the first that find_backward throws for.
Sendable(batch) ==
  LET keys == KeysOf(batch)
      lost == {n \in 1 .. Len(keys) : Unsendable(keys[n])}
  IN  IF lost = {} THEN keys ELSE SubSeq(keys, 1, Min(lost) - 1)

Throws(batch) == \E n \in 1 .. Len(batch) : Unsendable(batch[n])

RawKey(ev) == table.backward[ev.code]

\* Mutant: the report keeps the keys that are released.
ReportNeverErases(batch) ==
  /\ platform # "win" /\ client
  /\ desktop' = desktop \cup {RawKey(ev) : ev \in {ev \in ToSet(Sendable(batch)) : ev.type = "Press"}}
  /\ ended' = IF Throws(batch) THEN "key" ELSE None
  /\ UNCHANGED source

\* What the desktop holds after the keys, one after the other.
Written(keys) ==
  LET after[n \in 0 .. Len(keys)] ==
        IF n = 0 THEN desktop
        ELSE Switch(after[n - 1], RawKey(keys[n]), keys[n].type = "Press")
  IN  after[Len(keys)]

\* Linux and macOS: one key after the other.
WriteEach(batch) ==
  /\ platform = "linux" \/ (platform = "mac" /\ (client \/ KeysOf(batch) = <<>>))
  /\ desktop' = Written(Sendable(batch))
  /\ ended' = IF Throws(batch) THEN "key" ELSE None
  /\ UNCHANGED source

\* macOS before start() has made the client: the report goes through a null
\* pointer.
WriteToNobody(batch) ==
  /\ platform = "mac" /\ ~client /\ KeysOf(batch) # <<>>
  /\ ended' = "client"
  /\ UNCHANGED <<source, desktop>>

\* Windows: all of them in one SendInput, after the loop that may throw.  The
\* array begins with as many empty mouse inputs twice over, which do nothing.
SendInput(batch) ==
  /\ platform = "win"
  /\ \/ /\ ~Throws(batch)
        /\ source' = source \o [n \in 1 .. Len(KeysOf(batch)) |->
                                  [code |-> RawKey(KeysOf(batch)[n]), sys |-> FALSE,
                                   press |-> KeysOf(batch)[n].type = "Press", injected |-> TRUE]]
        /\ UNCHANGED ended
     \/ Throws(batch) /\ ended' = "key" /\ UNCHANGED source
  /\ UNCHANGED desktop

SendOutputs(batch) == WriteEach(batch) \/ WriteToNobody(batch) \/ SendInput(batch)

\* Two events of one key, a press and its release say.
SameKey(one, other) == {one, other} \subseteq KeyEvents /\ one.code = other.code

\* check_queued_events hands over what is due of a key, or leaves behind what
\* is not, in another order than it was queued in.
FlushOutOfOrder ==
  /\ pc = "flush" /\ stack = <<>>
  /\ \E n \in 1 .. Len(queued_events) :
       LET OfItsKey(out) == SameKey(out.ev, queued_events[n].ev)
           Ready == SelectSeq(queued_events, LAMBDA out : OfItsKey(out) /\ out.left = 0)
           Early == SelectSeq(queued_events, LAMBDA out : OfItsKey(out) /\ out.left > 0)
       IN  \/ [m \in DOMAIN Ready |-> Ready[m].ev]
                 # SelectSeq(sent', LAMBDA ev : SameKey(ev, queued_events[n].ev))
           \/ Early # SelectSeq(queued_events', OfItsKey)

\* apply_transition translates an event while an older one of its key waits
\* to be given back.
TranslateOutOfOrder ==
  /\ NextOutput /\ Head(Top.outputs).kind = "basic"
  /\ \E older \in ToSet(Top.redo) : SameKey(older, EventOf(Head(Top.outputs)))

MapperTurn ==
  /\ Running /\ MapperStep
  /\ SendOutputs(sent')
  /\ reordered' = (reordered \/ FlushOutOfOrder \/ TranslateOutOfOrder)
  /\ UNCHANGED <<platform, held, client, counts, disturbed>>

Wait == Running /\ Tick /\ UNCHANGED path

-----------------------------------------------------------------------------
(* The rest of the daemon, and the main thread.                             *)

ToOtherApplication(cause) ==
  /\ EventsLeft /\ typed' = typed + 1 /\ ended' = cause
  /\ UNCHANGED <<platform, system, client, calls, disturbed, reordered>>

\* WinEventProc on Windows, the listener's thread on macOS; Linux has neither.
FocusChange ==
  /\ Running /\ platform # "linux"
  /\ SendKey(Focus) /\ ToOtherApplication(None)

\* The listener calls a lambda that holds a reference to a parameter of the
\* constructor, long gone: what it sends may get lost or end the process.
DanglingFocusChange ==
  /\ Running /\ platform = "mac"
  /\ UNCHANGED vars
  /\ \E cause \in {None, "reference"} : ToOtherApplication(cause)

\* start() makes the client after it started the listener.
StartClient ==
  /\ Running /\ platform = "mac" /\ ~client
  /\ client' = TRUE
  /\ UNCHANGED <<vars, platform, system, ended, counts, disturbed, reordered>>

\* A call leaves no key behind when nothing is held and nothing on its way,
\* and none between two calls under the default profile.
MainCall ==
  /\ Running /\ EventsLeft /\ calls < MaxCalls /\ calls' = calls + 1
  /\ (\E p \in Profiles : SetProfile(p)) \/ Pause \/ Resume
  /\ disturbed' = (disturbed \/ ~(\/ held = {} /\ Quiet
                                  \/ {installed, installed'} = {Build[Plain]}))
  /\ UNCHANGED <<platform, system, client, ended, typed, reordered>>

User == \E key \in PhysicalKeys[platform], press \in BOOLEAN : TypeKey(key, press)

PathNext == User \/ ReadKey \/ MapperTurn \/ Wait \/ FocusChange \/ DanglingFocusChange
              \/ StartClient \/ MainCall

\* The system calls the daemon back, the threads are scheduled, time passes.
PathFairness == WF_pathVars(ReadKey) /\ WF_pathVars(MapperTurn) /\ WF_pathVars(Wait)
                  /\ WF_pathVars(StartClient)

PathSpec == PathInit /\ [][PathNext]_pathVars /\ PathFairness

-----------------------------------------------------------------------------
(* What the user may rely on.                                               *)

\* Nothing is on its way and no key is down: none is for the desktop either.
RestsClear == Quiet /\ Running /\ held = {} /\ ~disturbed => desktop = {}

\* Under the profiles loaded here, which answer every press with a release in
\* the same layer and swallow no release of a key they let down, a key is left
\* down only after a call between a press and its release, after a release that
\* Windows lets through (disturbed), or after the mapper took the events of one
\* key out of order (reordered): std::partition does with binds that hold a
\* wait, and so does a broken sequence of three presses with the release that
\* breaks it (mapper.cpp:195-197, 234).  Nothing else does, in no order of the
\* threads, on no platform and with no key that the tables lack and that
\* overtakes the others (win/src/daemon.cpp:132-188,
\* linux/src/daemon.cpp:88-157, mac/src/daemon.cpp:152-197).
NothingStuck == ~reordered => RestsClear

\* The profile names a key that the platform's table cannot write.
Names(outputs) ==
  \E n \in 1 .. Len(outputs) : /\ outputs[n].kind \in {"out", "basic", "process"}
                               /\ Unsendable(outputs[n].ev)

StateLacksKey(state) ==
  \/ \E ev \in DOMAIN state.edges : Names(state.edges[ev].outputs)
  \/ Names(state.fallback.outputs)
  \/ state.timer # None /\ Names(state.timer.outputs)

LacksKey(b) ==
  \E l \in 1 .. Len(b.layers) :
    \/ \E ev \in DOMAIN b.layers[l].basic : Names(b.layers[l].basic[ev])
    \/ \E s \in 1 .. Len(b.layers[l].states) : StateLacksKey(b.layers[l].states[s])

\* The process dies of a key its table cannot write only under a profile that
\* names such a key: what the tables read they can write
\* (linux/src/daemon.cpp:148, win/src/daemon.cpp:85, mac/src/daemon.cpp:163).
OnlyAbsentKeysKill == ended = "key" /\ ~disturbed => LacksKey(installed)

\* The events of a list as strokes of the abstract keyboard.
Mapped == DOMAIN table.forward

Stroke(code, press) == [key |-> code, press |-> press]

KeyStroke(ev) ==
  OneIf(ev \notin {Focus, None} \cup Scripts, Stroke(RawKey(ev), ev.type = "Press"))

AsStrokes(events) == FlattenSeq([n \in 1 .. Len(events) |-> KeyStroke(events[n])])

SourceStroke(event, injected) ==
  OneIf(/\ event.injected = injected /\ event.code \in Mapped
        /\ ~(event.sys /\ ~event.press /\ ~injected),
        Stroke(event.code, event.press))

FromSource(events, injected) ==
  FlattenSeq([n \in 1 .. Len(events) |-> SourceStroke(events[n], injected)])

InTurn == IF stack = <<>> \/ Top.outputs = <<>> THEN <<>> ELSE <<Top.prev>>

Due == [n \in 1 .. Len(queued_events) |-> queued_events[n].ev]

\* Every stroke that was typed and that the desktop has not seen, the oldest
\* first: from the injected events back to the device.
OnItsWay ==
  FromSource(source, TRUE) \o AsStrokes(Due) \o AsStrokes(InTurn) \o AsStrokes(<<key_opt>>)
    \o AsStrokes(queue) \o FromSource(source, FALSE)

TypedCodes == {key.code : key \in UNION {PhysicalKeys[p] : p \in Platforms}}

Fifo == INSTANCE Typewriter WITH
  Keys <- TypedCodes, pending <- OnItsWay, down <- desktop \cap Mapped

\* Under the default profile, paused or not, the program is the keyboard: no
\* stroke is lost, doubled or overtaken between the device and the desktop,
\* whatever thread runs when.
PassThrough ==
  [][ {installed, installed'} = {Build[Plain]} /\ ~disturbed' /\ ended' = None
        => Fifo!Stroke ]_pathVars

\* What was typed is through in the end: no thread waits for another for ever.
PathDrains == []<>(Quiet \/ ~Running)
=============================================================================
