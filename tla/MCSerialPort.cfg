SPECIFICATION Spec
CONSTANTS
  Processes = {p1, p2}
  Addr = {0, 1, 2, 3}
  Val = {0, 1}
  Contents <- MCContents
  Calls <- MCCalls
  MaxBlock = 2
  MaxPending = 1
  NoCall = noCall
INVARIANTS CompletedIsTrue NothingOnTheWay
PROPERTIES CallsEnd
