SPECIFICATION RamSpec
CONSTANTS
  Boards = {b1, b2}
  Controllers = {c1, c2, c3, c4}
  Nobody = nobody
  MaxAcqCores = 4
  RamPerCore = 3
  MaxCalls = 6
SYMMETRY MCSymmetry
INVARIANTS RangesOwn
CHECK_DEADLOCK FALSE
