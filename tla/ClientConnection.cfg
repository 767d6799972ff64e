\* Two connections, of two lines and of one.
CONSTANTS
  c1 = c1
  c2 = c2
  Clients = {c1, c2}
  Says <- MCSays
  EndsWithCR = {c2}
  MaxLines <- MCMaxLines
  None = None
SPECIFICATION Spec
\* The process may end.
CHECK_DEADLOCK FALSE
INVARIANTS
  NoLineLeftBehind
PROPERTIES
  KeepsPromise
