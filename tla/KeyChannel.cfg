\* Two sending threads, room for two keys.
CONSTANTS
  None = None
  a = a
  b = b
  hid = hid
  focus = focus
  InputEvents = {a, b}
  Senders = {hid, focus}
  MaxQueue = 2
SPECIFICATION FairSpec
INVARIANTS
  NoLostWakeup
PROPERTY
  IsKeyQueue
