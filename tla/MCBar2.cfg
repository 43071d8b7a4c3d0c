SPECIFICATION Spec
CONSTANTS
  Threads = {t1, t2}
  NoThread = none
  Requests <- MCRequests
  PageSize = 16
  Window = 16
  Sse = TRUE
  Line = 8
  Vector = 4
  Block = 8
  Nothing = nothing
INVARIANTS CopyRight AlikeIsAligned
PROPERTIES ReturnsWhole
