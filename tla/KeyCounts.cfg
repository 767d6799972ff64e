\* Two keys, at most 3 presses of each.
CONSTANTS
  k = k
  l = l
  None = None
  Keys = {k, l}
  MaxPresses = 3
SPECIFICATION Spec
INVARIANTS
  NeverOvercounts
  AtMostOneStraggler
