---------------------------- MODULE DeviceManager ----------------------------
(***************************************************************************)
(* Which device is the keyboard: the constructor of the Linux daemon       *)
(* (linux/src/daemon.cpp) with the config file, udev's list and the        *)
(* question to the user it falls back to (linux/src/device_manager.cpp),   *)
(* over restarts of the program and devices that are pulled out.           *)
(*                                                                         *)
(* Everything runs on the main thread; a step handles one device.  The     *)
(* user and time run beside it.  The answer of is_full_keyboard, of open   *)
(* and of libevdev is what the device is:                                  *)
(*   "keyboard"    a full keyboard;                                        *)
(*   "other"       a device with other keys;                               *)
(*   "no_evdev"    libevdev_new_from_fd fails on it;                       *)
(*   "unreadable"  it cannot be opened, or is not there.                   *)
(***************************************************************************)
EXTENDS Naturals, Sequences, FiniteSets

CONSTANTS
  Devices,        \* the entries eventX of /dev/input
  NoDevice,       \* the empty path
  MaxEvents       \* bound: presses waiting on a device

ASSUME DevicesAssumption ==
  NoDevice \notin Devices /\ IsFiniteSet(Devices) /\ MaxEvents \in Nat

Kinds == {"keyboard", "other", "no_evdev", "unreadable"}

VARIABLES
  kind, udev,     \* the devices, and those udev marks as keyboards
  config,         \* the path in config.json, NoDevice without one
  step,             \* where the constructor is
  left,           \* the devices a loop has still to go through
  candidates,     \* keyboard_candidates
  paths, devs,    \* possible_keyb_paths, and devices (with fds)
  fds,            \* the file descriptors that are open
  i, found,       \* the listening loop
  keyb_path,      \* the path that is returned
  events,         \* the presses waiting on each open device
  elapsed,        \* timeout_seconds have passed
  asked, pressed, \* history: the user was asked, and pressed space on these
  failed          \* history: the config file was not read or written

world == <<kind, udev>>
lists == <<left, candidates, paths, devs, fds>>
listening == <<i, found, elapsed>>
history == <<asked, pressed, failed>>
detectVars == <<world, config, step, lists, listening, keyb_path, events, history>>

Quiet == [d \in Devices |-> <<>>]

DetectInit ==
  /\ kind \in [Devices -> Kinds] /\ udev \in SUBSET Devices
  /\ config = NoDevice /\ step = "retrieve"
  /\ left = {} /\ candidates = {} /\ paths = <<>> /\ devs = <<>> /\ fds = {}
  /\ i = 0 /\ found = FALSE /\ elapsed = FALSE
  /\ keyb_path = NoDevice /\ events = Quiet
  /\ asked = FALSE /\ pressed = {} /\ failed = FALSE

At(from, to) == step = from /\ step' = to

Chosen(d, next) == keyb_path' = d /\ step' = next

-----------------------------------------------------------------------------
(* The constructor. *)

\* retrieve_eventX; a file that cannot be opened is one without a keyboard.
Retrieve ==
  /\ step = "retrieve"
  /\ \/ config # NoDevice /\ Chosen(config, "ready") /\ UNCHANGED failed
     \/ config = NoDevice /\ step' = "enumerate" /\ UNCHANGED <<keyb_path, failed>>
     \/ config # NoDevice /\ step' = "enumerate" /\ failed' = TRUE /\ UNCHANGED keyb_path
  /\ UNCHANGED <<world, config, lists, listening, events, asked, pressed>>

\* record_eventX, which may find the file unreadable or unwritable.
Record(to) ==
  /\ step' = to
  /\ \/ config' = keyb_path /\ UNCHANGED failed
     \/ failed' = TRUE /\ UNCHANGED config

\* Mutant: what was detected is not recorded.
RecordNothing ==
  /\ At("record_again", "ready")
  /\ UNCHANGED <<world, config, lists, listening, keyb_path, events, history>>

RecordAgain ==
  /\ step = "record_again" /\ Record("ready")
  /\ UNCHANGED <<world, lists, listening, keyb_path, events, asked, pressed>>

-----------------------------------------------------------------------------
(* detect_keyboard *)

Enumerate ==
  /\ step = "enumerate"
  /\ \/ step' = "fallback" /\ UNCHANGED <<keyb_path, left>>
     \/ Cardinality(udev) = 0 /\ step' = "fallback" /\ UNCHANGED <<keyb_path, left>>
     \/ Cardinality(udev) = 1 /\ (\E d \in udev : Chosen(d, "record_again")) /\ UNCHANGED left
     \/ Cardinality(udev) > 1 /\ step' = "refine" /\ left' = udev /\ UNCHANGED keyb_path
  /\ candidates' = {}
  /\ UNCHANGED <<world, config, paths, devs, fds, listening, events, history>>

\* A candidate is opened, looked at and closed.
Refine(d) ==
  /\ step = "refine" /\ d \in left
  /\ left' = left \ {d}
  /\ candidates' = candidates \cup ({d} \cap {x \in Devices : kind[x] = "keyboard"})
  /\ UNCHANGED <<world, config, step, paths, devs, fds, listening, keyb_path, events, history>>

RefineDone ==
  /\ step = "refine" /\ left = {}
  /\ \/ Cardinality(candidates) # 1 /\ step' = "fallback" /\ UNCHANGED keyb_path
     \/ Cardinality(candidates) = 1 /\ \E d \in candidates : Chosen(d, "record_again")
  /\ UNCHANGED <<world, config, lists, listening, events, history>>

-----------------------------------------------------------------------------
(* detect_keyboard_fallback *)

OpenDir ==
  /\ step = "fallback"
  /\ \/ step' = "record_again" /\ UNCHANGED <<left, asked>>
     \/ step' = "scan" /\ left' = Devices /\ asked' = TRUE
  /\ UNCHANGED <<world, config, candidates, paths, devs, fds, listening, keyb_path, events,
                 pressed, failed>>

\* Mutant: the path is remembered before the device is looked at.
ScanPathFirst(d) ==
  /\ step = "scan" /\ d \in left
  /\ left' = left \ {d}
  /\ paths' = Append(paths, d)
  /\ \/ kind[d] = "keyboard" /\ devs' = Append(devs, d) /\ fds' = fds \cup {d}
     \/ kind[d] # "keyboard" /\ UNCHANGED <<devs, fds>>
  /\ UNCHANGED <<world, config, step, candidates, listening, keyb_path, events, history>>

\* An entry of the directory.  A device that libevdev does not take stays open.
Scan(d) ==
  /\ step = "scan" /\ d \in left
  /\ left' = left \ {d}
  /\ \/ /\ kind[d] = "keyboard"
        /\ paths' = Append(paths, d) /\ devs' = Append(devs, d) /\ fds' = fds \cup {d}
     \/ /\ kind[d] = "no_evdev"
        /\ fds' = fds \cup {d} /\ UNCHANGED <<paths, devs>>
     \/ /\ kind[d] \in {"other", "unreadable"}
        /\ UNCHANGED <<paths, devs, fds>>
  /\ UNCHANGED <<world, config, step, candidates, listening, keyb_path, events, history>>

ScanDone ==
  /\ At("scan", "listen") /\ left = {}
  /\ i' = 1 /\ found' = FALSE /\ elapsed' = FALSE
  /\ UNCHANGED <<world, config, lists, keyb_path, events, history>>

\* What waits on a device up to a press of the space bar is read.
Spaces(d) == {n \in DOMAIN events[d] : events[d][n] = "space"}

Poll ==
  /\ step = "listen" /\ i \in DOMAIN devs
  /\ i' = i + 1
  /\ \/ /\ Spaces(devs[i]) = {}
        /\ events' = [events EXCEPT ![devs[i]] = <<>>]
        /\ UNCHANGED <<keyb_path, found>>
     \/ \E n \in Spaces(devs[i]) :
          /\ \A m \in Spaces(devs[i]) : n <= m
          /\ events' = [events EXCEPT ![devs[i]] = SubSeq(@, n + 1, Len(@))]
          /\ keyb_path' = paths[i] /\ found' = TRUE
  /\ UNCHANGED <<world, config, step, lists, elapsed, history>>

\* Mutant: it does not look at the clock.
PassWithoutClock ==
  /\ step = "listen" /\ i \notin DOMAIN devs
  /\ \/ found /\ step' = "record" /\ UNCHANGED i
     \/ ~found /\ i' = 1 /\ UNCHANGED step
  /\ UNCHANGED <<world, config, lists, found, elapsed, keyb_path, events, history>>

\* After a pass over the devices.
PassDone ==
  /\ step = "listen" /\ i \notin DOMAIN devs
  /\ \/ (found \/ elapsed) /\ step' = "record" /\ UNCHANGED i
     \/ ~found /\ ~elapsed /\ i' = 1 /\ UNCHANGED step
  /\ UNCHANGED <<world, config, lists, found, elapsed, keyb_path, events, history>>

RecordDetected ==
  /\ step = "record" /\ Record("cleanup")
  /\ UNCHANGED <<world, lists, listening, keyb_path, events, asked, pressed>>

CleanUp ==
  /\ At("cleanup", "record_again")
  /\ fds' = fds \ {devs[n] : n \in DOMAIN devs}
  /\ events' = Quiet /\ paths' = <<>> /\ devs' = <<>>
  /\ UNCHANGED <<world, config, left, candidates, listening, keyb_path, history>>

-----------------------------------------------------------------------------
(* The world. *)

\* A press reaches whoever has the device open.
Press(d, key) ==
  /\ step \in {"scan", "listen"} /\ kind[d] = "keyboard" /\ d \in fds
  /\ Len(events[d]) < MaxEvents
  /\ events' = [events EXCEPT ![d] = Append(@, key)]
  /\ pressed' = IF key = "space" THEN pressed \cup {d} ELSE pressed
  /\ UNCHANGED <<world, config, step, lists, listening, keyb_path, asked, failed>>

TimeIsUp ==
  /\ step = "listen" /\ ~elapsed
  /\ elapsed' = TRUE
  /\ UNCHANGED <<world, config, step, lists, i, found, keyb_path, events, history>>

Unplug(d) ==
  /\ kind[d] # "unreadable"
  /\ kind' = [kind EXCEPT ![d] = "unreadable"]
  /\ udev' = udev \ {d}
  /\ events' = [events EXCEPT ![d] = <<>>]
  /\ UNCHANGED <<config, step, lists, listening, keyb_path, history>>

\* The program ends, and with it what it had open, and is started again.
Restart ==
  /\ At("ready", "retrieve")
  /\ keyb_path' = NoDevice /\ fds' = {}
  /\ asked' = FALSE /\ pressed' = {} /\ failed' = FALSE
  /\ UNCHANGED <<world, config, left, candidates, paths, devs, listening, events>>

-----------------------------------------------------------------------------
Constructor ==
  \/ Retrieve \/ Enumerate \/ RefineDone \/ OpenDir \/ ScanDone
  \/ Poll \/ PassDone \/ RecordDetected \/ CleanUp \/ RecordAgain
  \/ \E d \in Devices : Refine(d) \/ Scan(d)

DetectNext ==
  \/ Constructor \/ TimeIsUp \/ Restart
  \/ \E d \in Devices : Unplug(d) \/ Press(d, "space") \/ Press(d, "letter")

\* The main thread runs, and 30 seconds pass.
DetectSpec ==
  DetectInit /\ [][DetectNext]_detectVars /\ WF_detectVars(Constructor) /\ WF_detectVars(TimeIsUp)

-----------------------------------------------------------------------------
\* The types of the variables.
DetectTypeOK ==
  /\ kind \in [Devices -> Kinds] /\ udev \in SUBSET Devices
  /\ config \in Devices \cup {NoDevice} /\ keyb_path \in Devices \cup {NoDevice}
  /\ step \in {"retrieve", "enumerate", "refine", "fallback", "scan", "listen", "record",
             "cleanup", "record_again", "ready"}
  /\ left \in SUBSET Devices /\ candidates \in SUBSET Devices /\ fds \in SUBSET Devices
  /\ paths \in Seq(Devices) /\ devs \in Seq(Devices)
  /\ i \in Nat /\ found \in BOOLEAN /\ elapsed \in BOOLEAN
  /\ events \in [Devices -> Seq({"space", "letter"})]
  /\ asked \in BOOLEAN /\ pressed \in SUBSET Devices /\ failed \in BOOLEAN

\* The user who is asked decides: a device that comes out of the question is
\* one the space bar was pressed on while the program had it open, whatever the
\* devices' order and however many of them failed to open
\* (device_manager.cpp:265-347).
AskedIsPressed ==
  asked /\ keyb_path # NoDevice => keyb_path \in pressed

\* What the daemon uses is what the next start will use, unless the file could
\* not be read or written: a question that was answered is not asked again, one
\* that timed out is (daemon.cpp:9-17, device_manager.cpp:52-116).
ConfigAgrees == step = "ready" /\ ~failed => config = keyb_path

\* "Times out after so long to prevent users from getting stuck": the
\* constructor ends, whatever the user does or does not press
\* (device_manager.cpp:332-359).
DetectEnds == step = "retrieve" ~> step = "ready"
=============================================================================
