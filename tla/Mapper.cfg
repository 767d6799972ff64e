\* Safety, the outbox and what eventually happens, under well-formed profiles,
\* a broken one and one that is refused.
CONSTANTS
  None = None
  a = a
  b = b
  f = f
  x = x
  y = y
  timed = timed
  replay = replay
  broken = broken
  unusable = unusable
  InputEvents <- MCInputs
  KeyEvents <- MCKeys
  OutputEvents <- MCOutputs
  Profiles = {timed, broken, replay, unusable}
  Build <- MCBuild
  MaxQueue = 2
  MaxPending = 3
  Delays = {0, 1}
SPECIFICATION FairSpec
INVARIANTS
  PausedQuiescent
  NoOversleep
  TimerHasTransition
  IndexInRange
  NoCrash
  ReplayDepth
PROPERTIES
  KeepsOutbox
  StopEnds
  TimersResolve
  OutputsEmitted
CHECK_DEADLOCK FALSE
