\* All platforms, both ways out.
CONSTANTS
  Platforms = {"linux", "mac", "windows"}
  MaxSignals = 2
SPECIFICATION FairSpec
INVARIANTS
  TrayExitJoins
  SignalJoinsDaemon
  ListenerJoined
  DaemonStopsFirst
PROPERTY
  ExitCompletes
\* The process ends, or waits for ever for the daemon thread.
CHECK_DEADLOCK FALSE
