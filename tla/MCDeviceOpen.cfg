SPECIFICATION Spec
CONSTANTS
  Processes = {p1, p2, p3}
  NoOne = noOne
  NoWc = {p3}
  OfdSupported = TRUE
INVARIANTS Exclusive ClosedIsUnlocked
