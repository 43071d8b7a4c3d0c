SPECIFICATION Spec
CONSTANTS
  Threads = {t1, t2}
  NoThread = none
  Addr = {0, 1, 2, 3}
  Val = {0, 1}
  PageSize = 2
  Calls <- MCCalls
  NoCall = noCall
  NoReply = noReply
  Done = done
INVARIANTS AccessHitsWord VectorIntact
PROPERTIES HolderReleases BusSpec
