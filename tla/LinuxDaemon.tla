----------------------------- MODULE LinuxDaemon -----------------------------
(***************************************************************************)
(* The daemon of Linux (linux/src/daemon.cpp): how start() takes the       *)
(* keyboard from the desktop, its loop, the mapper's writes to the same    *)
(* virtual device, and cleanup().  The user types all the while.           *)
(*                                                                         *)
(* Of the kernel, what the code relies on: the input core passes on only   *)
(* changes of a key; a device passes them to everyone who has opened it    *)
(* until someone grabs it; closing it ends a grab.                         *)
(***************************************************************************)
EXTENDS Integers, Sequences

CONSTANTS
  Keys,           \* keys of the keyboard
  Mapped,         \* those int_to_keycode has (the others are forwarded)
  MaxTyped        \* bound: changes of the keyboard

ASSUME KeysAssumption == Mapped \subseteq Keys /\ MaxTyped \in Nat

VARIABLES
  \* the kernel
  down,           \* keys the input core holds for pressed
  desktop,        \* ... and keys the desktop does, on this keyboard
  grabbed,
  buffer,         \* events waiting behind keyb_fd
  frame,          \* key events on the virtual device since the last SYN_REPORT
  typed,          \* changes so far
  \* the Daemon
  pc,             \* where the daemon thread is
  keyb_fd, keyb, uinput_fd,     \* what is open
  is_running,
  release_i,      \* keys the loop before the grab has released
  interrupted,
  termination_condition,
  destroyed,      \* ~Daemon has run
  \* what the events passed on say is pressed
  mapper_down,    \* to the mapper
  virtual_down,   \* on the virtual keyboard, by the daemon
  mapper_half,    \* the mapper has written a key and not yet the SYN_REPORT
  late            \* history: keys pressed between their release and the grab

kernel == <<down, desktop, grabbed, buffer, typed>>
handles == <<keyb_fd, keyb, uinput_fd, is_running>>
loop == <<pc, release_i, termination_condition>>
control == <<interrupted, destroyed, late>>
passed == <<mapper_down, virtual_down>>
vars == <<kernel, frame, handles, loop, control, passed, mapper_half>>

Init ==
  /\ \E held \in SUBSET Keys : down = held /\ desktop = held
  /\ grabbed = FALSE /\ buffer = <<>> /\ frame = 0 /\ typed = 0
  /\ pc = "open" /\ keyb_fd = "closed" /\ keyb = "null" /\ uinput_fd = "closed"
  /\ is_running = FALSE /\ release_i = {} /\ termination_condition = FALSE
  /\ interrupted = FALSE /\ destroyed = FALSE /\ late = {}
  /\ mapper_down = {} /\ virtual_down = {} /\ mapper_half = FALSE

\* A set of pressed keys after one event, and after several: of each key the
\* last one decides.
After(pressed, event) == IF event.value = 0 THEN pressed \ {event.key}
                                            ELSE pressed \cup {event.key}
Of(key, events) == {n \in DOMAIN events : events[n].key = key}
PressedLast(key, events) ==
  \E n \in Of(key, events) : events[n].value # 0 /\ \A m \in Of(key, events) : m <= n
AfterAll(pressed, events) ==
  {key \in Keys : IF Of(key, events) = {} THEN key \in pressed ELSE PressedLast(key, events)}

\* An event of the input core.
Emit(event) ==
  /\ down' = After(down, event)
  /\ desktop' = IF grabbed THEN desktop ELSE After(desktop, event)
  /\ buffer' = IF keyb_fd = "open" THEN Append(buffer, event) ELSE buffer

-----------------------------------------------------------------------------
(* The user.  Letting go of a key the core holds for released is no event. *)

Type(key, value) ==
  /\ typed < MaxTyped
  /\ value = 1 <=> key \notin down
  /\ Emit([key |-> key, value |-> value])
  /\ typed' = typed + 1
  /\ late' = IF value = 1 /\ pc = "release" /\ key \in release_i THEN late \cup {key} ELSE late
  /\ UNCHANGED <<grabbed, frame, handles, loop, interrupted, destroyed, passed, mapper_half>>

-----------------------------------------------------------------------------
(* start(), up to the loop.  What was opened before a failure stays open.  *)

Fail(point) ==
  /\ pc = point
  /\ pc' = "done"
  /\ UNCHANGED <<kernel, frame, handles, release_i, termination_condition, control, passed,
                 mapper_half>>

Open ==
  /\ pc = "open"
  /\ pc' = "libevdev" /\ keyb_fd' = "open"
  /\ UNCHANGED <<kernel, frame, keyb, uinput_fd, is_running, release_i, termination_condition,
                 control, passed, mapper_half>>

NewFromFd ==
  /\ pc = "libevdev"
  /\ pc' = "release" /\ keyb' = "open"
  /\ UNCHANGED <<kernel, frame, keyb_fd, uinput_fd, is_running, release_i,
                 termination_condition, control, passed, mapper_half>>

\* Mutant: the keys are not released.
ReleaseNothing ==
  /\ pc = "release" /\ release_i' = Keys
  /\ UNCHANGED <<kernel, frame, handles, pc, termination_condition, control, passed, mapper_half>>

\* send_key(i, 0, keyb_fd): written to the keyboard itself, one key after
\* another.
ReleaseKey ==
  /\ pc = "release"
  /\ \E key \in Keys \ release_i :
       /\ release_i' = release_i \cup {key}
       /\ IF key \in down THEN Emit([key |-> key, value |-> 0])
                          ELSE UNCHANGED <<down, desktop, buffer>>
  /\ UNCHANGED <<grabbed, typed, frame, handles, pc, termination_condition, control, passed,
                 mapper_half>>

Grab ==
  /\ pc = "release" /\ release_i = Keys
  /\ pc' = "uinput" /\ grabbed' = TRUE
  /\ UNCHANGED <<down, desktop, buffer, typed, frame, handles, release_i,
                 termination_condition, control, passed, mapper_half>>

\* Mutant: the flag is forgotten.
SetupUnmarked ==
  /\ pc = "uinput"
  /\ pc' = "loop" /\ uinput_fd' = "open"
  /\ UNCHANGED <<kernel, frame, keyb_fd, keyb, is_running, release_i, termination_condition,
                 control, passed, mapper_half>>

SetupUinput ==
  /\ pc = "uinput"
  /\ pc' = "loop" /\ uinput_fd' = "open" /\ is_running' = TRUE
  /\ UNCHANGED <<kernel, frame, keyb_fd, keyb, release_i, termination_condition, control,
                 passed, mapper_half>>

-----------------------------------------------------------------------------
(* The loop. *)

TestInterruption ==
  /\ pc = "loop"
  /\ pc' = "drain" /\ termination_condition' = interrupted
  /\ UNCHANGED <<kernel, frame, handles, release_i, control, passed, mapper_half>>

\* A key the mapper knows: a repeat is one more press.
SendToMapper ==
  /\ pc = "drain" /\ buffer # <<>> /\ Head(buffer).key \in Mapped
  /\ buffer' = Tail(buffer)
  /\ mapper_down' = After(mapper_down, Head(buffer))
  /\ pc' = "syn"
  /\ UNCHANGED <<down, desktop, grabbed, typed, frame, handles, release_i,
                 termination_condition, control, virtual_down, mapper_half>>

\* One it does not know goes to the virtual device, in two writes.
Forward ==
  /\ pc = "drain" /\ buffer # <<>> /\ Head(buffer).key \notin Mapped
  /\ buffer' = Tail(buffer)
  /\ virtual_down' = After(virtual_down, Head(buffer))
  /\ frame' = frame + 1
  /\ pc' = "half"
  /\ UNCHANGED <<down, desktop, grabbed, typed, handles, release_i, termination_condition,
                 control, mapper_down, mapper_half>>

\* Mutant: the event of the mapper is left to the next SYN_REPORT.
ForwardNoSyn ==
  /\ pc = "half"
  /\ pc' = "syn"
  /\ UNCHANGED <<kernel, frame, handles, release_i, termination_condition, control, passed,
                 mapper_half>>

ForwardSyn ==
  /\ pc = "half"
  /\ frame' = 0 /\ pc' = "syn"
  /\ UNCHANGED <<kernel, handles, release_i, termination_condition, control, passed, mapper_half>>

\* The keyboard's own SYN_REPORT after the key is forwarded as well.
PassSyn ==
  /\ pc = "syn"
  /\ frame' = 0 /\ pc' = "drain"
  /\ UNCHANGED <<kernel, handles, release_i, termination_condition, control, passed, mapper_half>>

Drained ==
  /\ pc = "drain" /\ buffer = <<>>
  /\ pc' = IF termination_condition THEN "done" ELSE "loop"
  /\ UNCHANGED <<kernel, frame, handles, release_i, termination_condition, control, passed,
                 mapper_half>>

-----------------------------------------------------------------------------
(* The mapper thread in send_outputs, the main thread. *)

MapperWrites ==
  /\ uinput_fd = "open" /\ ~mapper_half
  /\ frame' = frame + 1 /\ mapper_half' = TRUE
  /\ UNCHANGED <<kernel, handles, loop, control, passed>>

MapperSyn ==
  /\ mapper_half
  /\ frame' = 0 /\ mapper_half' = FALSE
  /\ UNCHANGED <<kernel, handles, loop, control, passed>>

RequestInterruption ==
  /\ ~interrupted
  /\ interrupted' = TRUE
  /\ UNCHANGED <<kernel, frame, handles, loop, destroyed, late, passed, mapper_half>>

\* ~Daemon, when the thread has ended (Lifecycle says when it has).
Cleanup ==
  /\ pc = "done" /\ ~destroyed /\ ~mapper_half
  /\ destroyed' = TRUE
  /\ IF is_running
       THEN /\ grabbed' = FALSE /\ is_running' = FALSE
            /\ keyb_fd' = "closed" /\ keyb' = "null" /\ uinput_fd' = "closed"
       ELSE UNCHANGED <<grabbed, handles>>
  /\ UNCHANGED <<down, desktop, buffer, typed, frame, loop, interrupted, late, passed,
                 mapper_half>>

-----------------------------------------------------------------------------
Start == \/ Open \/ NewFromFd \/ ReleaseKey \/ Grab \/ SetupUinput
         \/ Fail("open") \/ Fail("libevdev") \/ (release_i = Keys /\ Fail("release"))
         \/ Fail("uinput")

Loop == \/ TestInterruption \/ SendToMapper \/ Forward \/ ForwardSyn \/ PassSyn \/ Drained

Next == \/ \E key \in Keys, value \in {0, 1, 2} : Type(key, value)
        \/ Start \/ Loop \/ MapperWrites \/ MapperSyn \/ RequestInterruption \/ Cleanup

Spec == Init /\ [][Next]_vars

-----------------------------------------------------------------------------
Events == [key : Keys, value : {0, 1, 2}]

\* The types of the variables.
TypeOK ==
  /\ down \in SUBSET Keys /\ desktop \in SUBSET Keys /\ grabbed \in BOOLEAN
  /\ buffer \in Seq(Events) /\ frame \in 0 .. 2 /\ typed \in 0 .. MaxTyped
  /\ pc \in {"open", "libevdev", "release", "uinput", "loop", "drain", "half", "syn", "done"}
  /\ keyb_fd \in {"open", "closed"} /\ keyb \in {"open", "null"}
  /\ uinput_fd \in {"open", "closed"} /\ is_running \in BOOLEAN
  /\ release_i \in SUBSET Keys /\ termination_condition \in BOOLEAN
  /\ interrupted \in BOOLEAN /\ destroyed \in BOOLEAN
  /\ mapper_down \in SUBSET Mapped /\ virtual_down \in SUBSET (Keys \ Mapped)
  /\ mapper_half \in BOOLEAN /\ late \in SUBSET Keys

InLoop == pc \in {"loop", "drain", "half", "syn"}

\* While the loop runs the keys passed on, to the mapper and to the virtual
\* keyboard, are those of the keyboard up to what is still in the buffer: no
\* key is pressed for ever on one of them, also when it was held before the
\* daemon started or went down and up between open and grab
\* (daemon.cpp:53-74, 93-127).
PassedOnFollowsKeyboard == InLoop => AfterAll(mapper_down \cup virtual_down, buffer) = down

\* "Release all keys before grab": the desktop is left holding no key that was
\* down before, only one pressed in the moment between its own release and the
\* grab (daemon.cpp:66-75).
OnlyLateKeysHeld == grabbed => desktop \subseteq late

\* With two threads writing to the virtual device, a key event never waits
\* there for somebody else's SYN_REPORT (daemon.cpp:160-177).
FramesAreClosed == frame > 0 => pc = "half" \/ mapper_half

\* If start() reached its loop, cleanup() gives everything back
\* (daemon.cpp:27-48).
CleanupAfterLoop ==
  [][destroyed' /\ ~destroyed /\ uinput_fd = "open"
       => ~grabbed' /\ keyb_fd' = "closed" /\ keyb' = "null" /\ uinput_fd' = "closed"]_vars
=============================================================================
