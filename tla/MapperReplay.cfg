\* Breaking a sequence of three keys at the third.
CONSTANTS
  None = None
  a = a
  b = b
  c = c
  f = f
  x = x
  y = y
  timed = timed
  replay = replay
  broken = broken
  unusable = unusable
  triple = triple
  InputEvents <- LogInputs
  KeyEvents <- LogInputs
  OutputEvents <- LogOutputs
  Profiles = {triple}
  Build <- LogBuild
  MaxQueue = 1
  MaxPending = 4
  MaxTyped = 3
  Delays = {0, 1}
SPECIFICATION LogSpec
INVARIANT
  GivenBackInOrder
CHECK_DEADLOCK FALSE
