\* A wait where an input is due.
CONSTANTS
  None = None
  a = a
  b = b
  out1 = out1
  out2 = out2
  out3 = out3
  InputEvents <- MCInputs
  Durations = {1}
  Behaviors = {"default"}
  BindsOf <- MCBindsOf
  MaxTriggers = 3
  MaxInAll <- MCMaxInAll
SPECIFICATION Spec
INVARIANTS
  WaitsAreNormalized
CHECK_DEADLOCK FALSE
