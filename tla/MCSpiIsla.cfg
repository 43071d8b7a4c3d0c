SPECIFICATION Spec
CONSTANTS
  B = 4
  Slaves = {0, 1}
  Channels = {0, 1, 2}
  Addrs = {1, 2}
  Values = {0, 3}
  Kinds = {"isla_set"}
INVARIANT IslaWrites
