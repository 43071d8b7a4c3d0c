SPECIFICATION MCSpec
CONSTANTS
  Configs = {zero, c1, c2}
  Zero = zero
  Startup = startup
  Attempts = 2
  \* The Si570's 4850 to 5670 MHz at a hundredth.
  HsDivOpts <- MCHsDivOpts
  N1Min = 2
  N1Max = 12
  N1Step = 2
  FdcoMin = 48
  FdcoMax = 57
  RfreqFactor = 2
  Freqs = {0, 1, 2, 3, 4, 5, 6, 7, 8, 9, 10, 11, 12, 13, 14, 15, 16}
  Fxtals = {7, 19, 22}
INVARIANT NotWrittenWhileBusy
INVARIANT CommandsAsked
INVARIANT BestOfTried
PROPERTY AppliedWhenTrue
PROPERTY CallsReturn
CHECK_DEADLOCK FALSE
