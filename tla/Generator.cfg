\* Layers of up to three sequences in every behavior, waits anywhere.
CONSTANTS
  None = None
  a = a
  b = b
  out1 = out1
  out2 = out2
  out3 = out3
  InputEvents <- MCInputs
  Durations = {1, 2}
  Behaviors = {"capture", "release", "default"}
  BindsOf <- MCBindsOf
  MaxTriggers = 3
  MaxInAll <- MCMaxInAll
SPECIFICATION Spec
INVARIANTS
  EverySequenceWired
  FallbackReplaysPath
  Closed
  ArmedTimersFire
  LoopsPassHome
CHECK_DEADLOCK FALSE
