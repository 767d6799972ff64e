--------------------------- MODULE LifecycleProofs ---------------------------
(***************************************************************************)
(* An exit from the tray is safe on every platform: what the threads use   *)
(* is destroyed only after they have ended, and the mapper is stopped only *)
(* after the daemon.  After a signal, and for the listener of macOS, the   *)
(* same holds of the daemon unless main gave up on it.  The invariants say *)
(* what main has already waited for at each point of cleanShutdown, and    *)
(* that nothing undoes a thread's end.                                     *)
(***************************************************************************)
EXTENDS Lifecycle, TLAPS

\* Points of cleanShutdown, and those after the daemon thread was joined.
Joining == {"stop_mapper", "close_channel", "join_mapper"}
Leaving == {"about_to_quit", "wait_daemon", "return", "exited"}

JoinedInOrder ==
  /\ main = "exec" => asked = "nobody"
  /\ main \in {"join_daemon"} \cup Joining => asked = "tray"
  /\ (asked = "tray" /\ main # "exited" /\ main # "join_daemon") => daemon = "done"
  /\ (asked = "tray" /\ main \in Leaving /\ main # "exited") => mapper = "done"
  /\ stopped \/ closed => asked = "tray" /\ daemon = "done"
  /\ main \notin {"return", "exited"} => alive = Locals

LEMMA JoinedInit == Init => JoinedInOrder
BY DEF Init, JoinedInOrder, Joining, Leaving

LEMMA JoinedStep == JoinedInOrder /\ [Next]_vars => JoinedInOrder'
<1> SUFFICES ASSUME JoinedInOrder, [Next]_vars PROVE JoinedInOrder'
  OBVIOUS
<1> USE DEF JoinedInOrder, Joining, Leaving, shutdown, mapping, focusing
<1>1. CASE TrayExit
  BY <1>1 DEF TrayExit
<1>2. CASE handle_sig
  BY <1>2 DEF handle_sig, Running
<1>3. CASE NotifierActivated
  BY <1>3 DEF NotifierActivated
<1>4. CASE Main
  <2>1. CASE JoinDaemon \/ JoinMapper
    BY <2>1 DEF JoinDaemon, JoinMapper
  <2>2. CASE StopMapper \/ CloseChannel
    BY <2>2 DEF StopMapper, CloseChannel
  <2>3. CASE AboutToQuit
    BY <2>3 DEF AboutToQuit
  <2>4. CASE DaemonWaited \/ WaitGivenUp
    BY <2>4 DEF DaemonWaited, WaitGivenUp
  <2>5. CASE DestroyServer \/ DestroyMapper \/ DestroyDaemon \/ DestroySettings
    BY <2>5 DEF DestroyServer, DestroyMapper, DestroyDaemon, DestroySettings, Destroy
  <2>6. CASE StopListener \/ Exit
    BY <2>6 DEF StopListener, Exit
  <2> QED
    BY <1>4, <2>1, <2>2, <2>3, <2>4, <2>5, <2>6 DEF Main
<1>5. CASE Daemon
  BY <1>5 DEF Daemon, DaemonStarts, DaemonFails, LastRound, DaemonEnds, Running
<1>6. CASE ConnectFails \/ FocusChanges
  BY <1>6 DEF ConnectFails, FocusChanges, Running
<1>7. CASE MapperThread
  BY <1>7 DEF MapperThread, MapperTest, MapperWakes, MapperTurn, Running
<1>8. CASE UNCHANGED vars
  BY <1>8 DEF vars
<1> QED
  BY <1>1, <1>2, <1>3, <1>4, <1>5, <1>6, <1>7, <1>8 DEF Next

LEMMA JoinedAlways == Spec => []JoinedInOrder
BY JoinedInit, JoinedStep, PTL DEF Spec

\* An exit from the tray destroys nothing that a running thread still uses,
\* on any platform and whatever signals arrive (main.cpp:35-58, 149).
THEOREM TrayExitIsSafe == Spec => []TrayExitJoins
<1>1. JoinedInOrder => TrayExitJoins
  BY DEF JoinedInOrder, TrayExitJoins, MapperOutlivesItsThread, DaemonOutlivesItsThread,
         Running, Joining, Leaving, Locals
<1> QED
  BY <1>1, JoinedAlways, PTL

\* The mapper is told to stop, and its channel closed, only when the daemon
\* thread has ended (main.cpp:38-54, mapper.cpp:250-253).
THEOREM MapperStopsLast == Spec => []DaemonStopsFirst
<1>1. JoinedInOrder => DaemonStopsFirst
  BY DEF JoinedInOrder, DaemonStopsFirst
<1> QED
  BY <1>1, JoinedAlways, PTL

-----------------------------------------------------------------------------
(* The waits for the daemon thread and for the focus listener. *)

\* Main returns with a daemon thread that has ended, or that it gave up on;
\* the listener exists on macOS alone and is joined before its daemon goes.
WaitedFor ==
  /\ platform \in {"linux", "mac", "windows"}
  /\ pipe \in Nat /\ (pipe > 0 => Unix)
  /\ asked \in {"nobody", "tray", "signal"}
  /\ asked = "nobody" => main \in {"exec", "exited"}
  /\ asked = "signal" => Unix
  /\ asked = "signal" => main \in Leaving
  /\ (asked = "signal" /\ main = "return" /\ ~gave_up) => daemon = "done"
  /\ focus = "reading" => platform = "mac" /\ daemon # "starting"
  /\ (focus = "reading" /\ main = "return" /\ ~gave_up) => "daemon" \in alive

LEMMA WaitedInit == Init => WaitedFor
BY PlatformAssumption DEF Init, WaitedFor, Unix, Leaving

LEMMA WaitedStep == JoinedInOrder /\ WaitedFor /\ [Next]_vars => WaitedFor'
<1> SUFFICES ASSUME JoinedInOrder, WaitedFor, [Next]_vars PROVE WaitedFor'
  OBVIOUS
<1> USE DEF WaitedFor, Unix, Leaving, shutdown, mapping, focusing
<1>1. CASE TrayExit
  BY <1>1 DEF TrayExit
<1>2. CASE handle_sig
  BY <1>2 DEF handle_sig, Running
<1>3. CASE NotifierActivated
  BY <1>3 DEF NotifierActivated
<1>4. CASE Main
  <2>1. CASE JoinDaemon \/ JoinMapper
    BY <2>1 DEF JoinDaemon, JoinMapper, JoinedInOrder, Joining
  <2>2. CASE StopMapper \/ CloseChannel
    BY <2>2 DEF StopMapper, CloseChannel, JoinedInOrder, Joining
  <2>3. CASE AboutToQuit
    BY <2>3 DEF AboutToQuit, JoinedInOrder, Joining, Locals
  <2>4. CASE DaemonWaited \/ WaitGivenUp
    BY <2>4 DEF DaemonWaited, WaitGivenUp, JoinedInOrder, Joining, Locals
  <2>5. CASE DestroyServer \/ DestroyMapper \/ DestroySettings
    BY <2>5 DEF DestroyServer, DestroyMapper, DestroySettings, Destroy
  <2>6. CASE DestroyDaemon
    BY <2>6 DEF DestroyDaemon, Destroy
  <2>7. CASE StopListener \/ Exit
    BY <2>7 DEF StopListener, Exit
  <2> QED
    BY <1>4, <2>1, <2>2, <2>3, <2>4, <2>5, <2>6, <2>7 DEF Main
<1>5. CASE Daemon
  BY <1>5 DEF Daemon, DaemonStarts, DaemonFails, LastRound, DaemonEnds, Running,
     JoinedInOrder, Joining
<1>6. CASE ConnectFails \/ FocusChanges
  BY <1>6 DEF ConnectFails, FocusChanges, Running
<1>7. CASE MapperThread
  BY <1>7 DEF MapperThread, MapperTest, MapperWakes, MapperTurn, Running
<1>8. CASE UNCHANGED vars
  BY <1>8 DEF vars
<1> QED
  BY <1>1, <1>2, <1>3, <1>4, <1>5, <1>6, <1>7, <1>8 DEF Next

LEMMA WaitedAlways == Spec => [](JoinedInOrder /\ WaitedFor)
BY JoinedInit, JoinedStep, WaitedInit, WaitedStep, PTL DEF Spec

\* After a signal the daemon is destroyed under its thread only if main gave
\* up on the thread after five seconds (signal_handler.cpp:48-58).
THEOREM SignalIsHeard == Spec => []SignalJoinsDaemon
<1>1. JoinedInOrder /\ WaitedFor => SignalJoinsDaemon
  BY DEF JoinedInOrder, WaitedFor, SignalJoinsDaemon, DaemonOutlivesItsThread, Running,
         Leaving, Locals
<1> QED
  BY <1>1, WaitedAlways, PTL

\* The focus listener's thread never outlives the daemon it calls, unless main
\* gave up on the thread that starts it (mac/src/daemon.cpp:77, 147-150).
THEOREM ListenerEndsFirst == Spec => []ListenerJoined
<1>1. JoinedInOrder /\ WaitedFor => ListenerJoined
  BY DEF JoinedInOrder, WaitedFor, ListenerJoined, Running, Locals
<1> QED
  BY <1>1, WaitedAlways, PTL
=============================================================================
