SPECIFICATION MCSpec
CONSTANTS
  Subjects = {"spi", "ad9510", "sdb", "filter", "fifo"}
  B = 4
  Slaves = {0, 1}
  Channels = {0, 1, 2}
  Addrs = {1, 2}
  Values = {0, 3}
  Kinds = {"get", "set", "ad9510_get", "ad9510_set"}
  Defaults <- MCDefaults
  Dividers <- MCDividers
  Registers <- MCRegisters
  Unwritten = 0
  Fragile <- MCFragile
  MaxLosses = 2
  Boards <- MCBoards
  Positions = {0, 1, 2}
  Users = {"u1", "u2"}
  Filters <- MCFilters
  NUM_CHANNELS = 2
  NUM_BIQUADS = 2
  COEFFS_PER_BIQUAD = 2
  UNUSED_PER_BIQUAD = 1
  ChSize = 7
  Depth = 2
  MaxRecords = 5
INVARIANT AccessDone
INVARIANT TrueIsHeld
INVARIANT DividersWhole
INVARIANT BiquadsWhole
INVARIANT RecordsInOrder
PROPERTY AccessReturns
PROPERTY RecordsShown
PROPERTY SearchRight
