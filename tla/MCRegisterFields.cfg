SPECIFICATION MCSpec
CONSTANTS
  W = 6
  SignWidths = {2, 3, 6}
  Scale = 5
  Registers <- MCRegisters
  Fields <- MCFields
  Layout <- MCLayout
  Commands = {"reset", "sleep_adcs"}
  ClearedRegs = {"adc_ctl"}
  Inputs <- MCInputs
  Initial <- AllOnesOrZeros
  Elements <- FirstAndLast
  MaxWrites = 2
PROPERTY RefusalsRight
PROPERTY BankSpec
INVARIANTS LayoutRight NamedArrives StatusShown
CHECK_DEADLOCK FALSE
