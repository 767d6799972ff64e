\* Two keys, one of them unknown to the mapper.
CONSTANTS
  a = a
  media = media
  Keys = {a, media}
  Mapped = {a}
  MaxTyped = 4
SPECIFICATION Spec
INVARIANTS
  PassedOnFollowsKeyboard
  OnlyLateKeysHeld
  FramesAreClosed
PROPERTY
  CleanupAfterLoop
\* The user stops typing.
CHECK_DEADLOCK FALSE
