------------------------------ MODULE Lifecycle ------------------------------
(***************************************************************************)
(* From the event loop to the end of the process: main and cleanShutdown   *)
(* (common/src/main.cpp), the signal handler (unix/, win/) and, as far as  *)
(* ending goes, the daemon thread of each platform, the mapper thread and  *)
(* the focus listener of macOS.                                            *)
(*                                                                         *)
(* The objects the threads work on are locals of main: they are destroyed, *)
(* the mapper first, when main returns, whether a thread still runs or not.*)
(***************************************************************************)
EXTENDS Naturals

CONSTANTS
  Platforms,      \* among "linux", "mac" and "windows"
  MaxSignals      \* bound: bytes in the signal pipe

ASSUME PlatformAssumption == Platforms \subseteq {"linux", "mac", "windows"} /\ MaxSignals \in Nat

VARIABLES
  platform,       \* what the program was built for
  main,           \* where the main thread is
  asked,          \* history: who asked for the end, "nobody", "tray" or "signal"
  gave_up,        \* history: the wait for the daemon thread timed out
  pipe,           \* bytes in the signal pipe
  interrupted,    \* daemon_thread->requestInterruption() was called
  daemon,         \* where the daemon thread is
  mapper,         \* where the mapper thread is
  stopped, closed,\* Mapper::stopped and its channel's closed
  focus,          \* the focus listener's thread (macOS)
  stopFlag,       \* AppFocusListener::stopFlag
  alive           \* locals of main that exist

shutdown == <<asked, gave_up, pipe, interrupted>>
mapping  == <<mapper, stopped, closed>>
focusing == <<focus, stopFlag>>
vars == <<platform, main, shutdown, daemon, mapping, focusing, alive>>

Locals == {"server", "mapper", "daemon", "settings"}

Unix == platform \in {"linux", "mac"}

\* main has created the threads and enters a.exec().
Init ==
  /\ platform \in Platforms
  /\ main = "exec" /\ asked = "nobody" /\ gave_up = FALSE /\ pipe = 0
  /\ interrupted = FALSE /\ daemon = "starting"
  /\ mapper = "test" /\ stopped = FALSE /\ closed = FALSE
  /\ focus = "none" /\ stopFlag = FALSE
  /\ alive = Locals

Running == main # "exited"

-----------------------------------------------------------------------------
(* Ways to ask for the end. *)

\* Tray::shutdown runs cleanShutdown in the event loop.  quit() on the daemon
\* thread means nothing: it has no event loop.
TrayExit ==
  /\ main = "exec"
  /\ main' = "join_daemon" /\ asked' = "tray" /\ interrupted' = TRUE
  /\ UNCHANGED <<platform, gave_up, pipe, daemon, mapping, focusing, alive>>

\* SIGINT or SIGTERM, at any time, in any thread.  Windows has no handler.
handle_sig ==
  /\ Unix /\ Running /\ pipe < MaxSignals
  /\ pipe' = pipe + 1
  /\ UNCHANGED <<platform, main, asked, gave_up, interrupted, daemon, mapping, focusing, alive>>

\* The notifier, in the event loop only: QCoreApplication::quit().
NotifierActivated ==
  /\ main = "exec" /\ pipe > 0
  /\ pipe' = pipe - 1
  /\ main' = "about_to_quit" /\ asked' = "signal"
  /\ UNCHANGED <<platform, gave_up, interrupted, daemon, mapping, focusing, alive>>

-----------------------------------------------------------------------------
(* cleanShutdown. *)

\* Mutant: the daemon thread is interrupted, not waited for.
JoinNobody ==
  /\ main = "join_daemon"
  /\ main' = "stop_mapper"
  /\ UNCHANGED <<platform, shutdown, daemon, mapping, focusing, alive>>

JoinDaemon ==
  /\ main = "join_daemon" /\ daemon = "done"
  /\ main' = "stop_mapper"
  /\ UNCHANGED <<platform, shutdown, daemon, mapping, focusing, alive>>

\* Mutant: the mapper's loop is asked through the thread, not the mapper.
StopUnheard ==
  /\ main = "stop_mapper"
  /\ main' = "close_channel"
  /\ UNCHANGED <<platform, shutdown, daemon, mapping, focusing, alive>>

StopMapper ==
  /\ main = "stop_mapper"
  /\ main' = "close_channel" /\ stopped' = TRUE
  /\ UNCHANGED <<platform, shutdown, daemon, mapper, closed, focusing, alive>>

\* Mutant: the mapper thread is not waited for.
CloseAndLeave ==
  /\ main = "close_channel"
  /\ main' = "about_to_quit" /\ closed' = TRUE
  /\ UNCHANGED <<platform, shutdown, daemon, mapper, stopped, focusing, alive>>

CloseChannel ==
  /\ main = "close_channel"
  /\ main' = "join_mapper" /\ closed' = TRUE
  /\ UNCHANGED <<platform, shutdown, daemon, mapper, stopped, focusing, alive>>

JoinMapper ==
  /\ main = "join_mapper" /\ mapper = "done"
  /\ main' = "about_to_quit"
  /\ UNCHANGED <<platform, shutdown, daemon, mapping, focusing, alive>>

-----------------------------------------------------------------------------
(* The event loop has ended. *)

\* The signal handler's slot on aboutToQuit: interrupt, wait five seconds.
AboutToQuit ==
  /\ main = "about_to_quit"
  /\ IF Unix THEN main' = "wait_daemon" /\ interrupted' = TRUE
             ELSE main' = "return" /\ UNCHANGED interrupted
  /\ UNCHANGED <<platform, asked, gave_up, pipe, daemon, mapping, focusing, alive>>

\* Mutant: the five seconds are not waited.
InterruptOnly ==
  /\ main = "wait_daemon"
  /\ main' = "return"
  /\ UNCHANGED <<platform, shutdown, daemon, mapping, focusing, alive>>

DaemonWaited ==
  /\ main = "wait_daemon" /\ daemon = "done"
  /\ main' = "return"
  /\ UNCHANGED <<platform, shutdown, daemon, mapping, focusing, alive>>

\* A warning speaks of termination; nothing terminates the thread.
WaitGivenUp ==
  /\ main = "wait_daemon" /\ daemon # "done"
  /\ main' = "return" /\ gave_up' = TRUE
  /\ UNCHANGED <<platform, asked, pipe, interrupted, daemon, mapping, focusing, alive>>

\* a.exec() returns, main's locals go in reverse order; ~Daemon on macOS joins
\* the focus listener.
Destroy(local, before) ==
  /\ main = "return" /\ local \in alive /\ before \cap alive = {}
  /\ alive' = alive \ {local}
  /\ UNCHANGED <<platform, main, shutdown, daemon, mapping, focus>>

DestroyServer == Destroy("server", {}) /\ UNCHANGED stopFlag
DestroyMapper == Destroy("mapper", {"server"}) /\ UNCHANGED stopFlag

StopListener ==
  /\ main = "return" /\ alive \cap {"server", "mapper"} = {} /\ ~stopFlag
  /\ platform = "mac"
  /\ stopFlag' = TRUE
  /\ UNCHANGED <<platform, main, shutdown, daemon, mapping, focus, alive>>

\* Mutant: the listener's thread is told to stop, not joined.
DestroyUnjoined ==
  /\ platform = "mac" => stopFlag
  /\ Destroy("daemon", {"server", "mapper"}) /\ UNCHANGED stopFlag

DestroyDaemon ==
  /\ platform = "mac" => stopFlag /\ focus # "reading"
  /\ Destroy("daemon", {"server", "mapper"}) /\ UNCHANGED stopFlag

DestroySettings == Destroy("settings", {"server", "mapper", "daemon"}) /\ UNCHANGED stopFlag

Exit ==
  /\ main = "return" /\ alive = {}
  /\ main' = "exited"
  /\ UNCHANGED <<platform, shutdown, daemon, mapping, focusing, alive>>

-----------------------------------------------------------------------------
(* The other threads, until the process ends. *)

\* start() opens, seizes or hooks the keyboard; the focus listener of macOS
\* is its first statement.
DaemonStarts ==
  /\ Running /\ daemon = "starting"
  /\ daemon' = "loop"
  /\ focus' = IF platform = "mac" THEN "reading" ELSE focus
  /\ UNCHANGED <<platform, main, shutdown, mapping, stopFlag, alive>>

\* Linux: a device that cannot be opened, grabbed or created; macOS: a run
\* loop without a keyboard to watch; Windows: GetMessage fails.
DaemonFails ==
  /\ Running /\ daemon = "starting"
  /\ daemon' = "done"
  /\ focus' = IF platform = "mac" THEN "reading" ELSE focus
  /\ UNCHANGED <<platform, main, shutdown, mapping, stopFlag, alive>>

\* Only the loop of Linux looks at the interruption; it drains the device
\* once more before it ends.
LastRound ==
  /\ Running /\ platform = "linux" /\ daemon = "loop" /\ interrupted
  /\ daemon' = "last_round"
  /\ UNCHANGED <<platform, main, shutdown, mapping, focusing, alive>>

DaemonEnds ==
  /\ Running /\ daemon = "last_round"
  /\ daemon' = "done"
  /\ UNCHANGED <<platform, main, shutdown, mapping, focusing, alive>>

\* client->connect_failed calls exit().
ConnectFails ==
  /\ Running /\ platform = "mac" /\ daemon = "loop"
  /\ main' = "exited"
  /\ UNCHANGED <<platform, shutdown, daemon, mapping, focusing, alive>>

\* fgets returns with a line, that is when the user changes the application.
FocusChanges ==
  /\ Running /\ focus = "reading"
  /\ focus' = IF stopFlag THEN "done" ELSE "reading"
  /\ UNCHANGED <<platform, main, shutdown, daemon, mapping, stopFlag, alive>>

MapperTest ==
  /\ Running /\ mapper = "test"
  /\ mapper' = IF stopped THEN "done" ELSE "wait"
  /\ UNCHANGED <<platform, main, shutdown, daemon, stopped, closed, focusing, alive>>

\* A key, a timeout or the end of the channel.
MapperWakes ==
  /\ Running /\ mapper = "wait"
  /\ mapper' = "turn"
  /\ UNCHANGED <<platform, main, shutdown, daemon, stopped, closed, focusing, alive>>

MapperTurn ==
  /\ Running /\ mapper = "turn"
  /\ mapper' = "test"
  /\ UNCHANGED <<platform, main, shutdown, daemon, stopped, closed, focusing, alive>>

-----------------------------------------------------------------------------
Main == \/ JoinDaemon \/ StopMapper \/ CloseChannel \/ JoinMapper
        \/ AboutToQuit \/ DaemonWaited \/ WaitGivenUp
        \/ DestroyServer \/ DestroyMapper \/ StopListener \/ DestroyDaemon
        \/ DestroySettings \/ Exit

Daemon == DaemonStarts \/ DaemonFails \/ LastRound \/ DaemonEnds

MapperThread == MapperTest \/ MapperWakes \/ MapperTurn

Next == \/ TrayExit \/ handle_sig \/ NotifierActivated \/ Main
        \/ Daemon \/ ConnectFails \/ FocusChanges \/ MapperThread

Spec == Init /\ [][Next]_vars

\* Every thread is scheduled, the event loop runs its notifier.  A wait that
\* ends by a key alone would not be fair: the mapper's has been given a
\* timeout once the first turn is over, and close() ends the first (Mapper).
Fairness ==
  /\ WF_vars(Main) /\ WF_vars(NotifierActivated) /\ WF_vars(Daemon)
  /\ WF_vars(MapperTest \/ MapperTurn \/ (closed /\ MapperWakes))

FairSpec == Spec /\ Fairness

-----------------------------------------------------------------------------
\* The types of the variables.
TypeOK ==
  /\ platform \in Platforms
  /\ main \in {"exec", "join_daemon", "stop_mapper", "close_channel", "join_mapper",
               "about_to_quit", "wait_daemon", "return", "exited"}
  /\ asked \in {"nobody", "tray", "signal"} /\ gave_up \in BOOLEAN
  /\ pipe \in 0 .. MaxSignals /\ interrupted \in BOOLEAN
  /\ daemon \in {"starting", "loop", "last_round", "done"}
  /\ mapper \in {"test", "wait", "turn", "done"}
  /\ stopped \in BOOLEAN /\ closed \in BOOLEAN
  /\ focus \in {"none", "reading", "done"} /\ stopFlag \in BOOLEAN
  /\ alive \subseteq Locals

\* The mapper thread uses the mapper, the daemon, the settings and the key
\* counts; the daemon thread its daemon.
MapperOutlivesItsThread == Running /\ mapper # "done" => {"mapper", "daemon", "settings"} \subseteq alive
DaemonOutlivesItsThread == Running /\ daemon # "done" => "daemon" \in alive

\* An exit from the tray destroys nothing a thread still uses, whatever
\* signals arrive while it waits (main.cpp:35-58, 149).
TrayExitJoins == asked = "tray" => MapperOutlivesItsThread /\ DaemonOutlivesItsThread

\* After a signal the daemon is destroyed under its thread only if the thread
\* was given up on (signal_handler.cpp:48-58).
SignalJoinsDaemon == asked = "signal" /\ ~gave_up => DaemonOutlivesItsThread

\* On macOS the focus listener's thread ends before the daemon it calls, on
\* every way out that has waited for the daemon thread to start it
\* (mac/src/daemon.cpp:77, 147-150, app_focus_listener.cpp:15-20).
ListenerJoined == Running /\ ~gave_up /\ focus = "reading" => "daemon" \in alive

\* No key taken from the keyboard finds the mapper told to stop: by the time
\* it is, the daemon thread has ended (main.cpp:38-54).
DaemonStopsFirst == stopped \/ closed => daemon = "done"

\* On Linux who asks for the end gets it, whatever threads are in their loops,
\* their waits or their last turns (main.cpp:35-58, signal_handler.cpp:37-58).
\* The daemon threads of macOS and Windows hear neither of the two requests.
ExitCompletes == platform = "linux" /\ asked # "nobody" ~> main = "exited"
=============================================================================
