\* Two devices of any kind, two presses waiting on each.
CONSTANTS
  event0 = event0
  event1 = event1
  Devices = {event0, event1}
  NoDevice = NoDevice
  MaxEvents = 2
SPECIFICATION DetectSpec
INVARIANTS
  AskedIsPressed
  ConfigAgrees
PROPERTIES
  DetectEnds
