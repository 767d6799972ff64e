\* Three keyboards, from the key to the desktop, while profiles change.
CONSTANTS
  None = None
  NegativeAsSize = 99
  plain = plain
  remap = remap
  sequence = sequence
  InputEvents <- MCInputs
  KeyEvents <- MCKeyEvents
  OutputEvents <- MCOutputs
  Profiles = {plain, remap, sequence}
  Build <- MCBuild
  MaxQueue = 2
  MaxPending = 3
  Platforms = {"linux", "win", "mac"}
  PhysicalKeys <- MCKeys
  Focus <- MCFocus
  Scripts <- MCScripts
  Plain = plain
  MaxEvents = 4
  MaxCalls = 1
  MaxAhead = 0
SPECIFICATION PathSpec
INVARIANTS
  NothingStuck
  OnlyAbsentKeysKill
PROPERTIES
  PassThrough
  PathDrains
CHECK_DEADLOCK FALSE
