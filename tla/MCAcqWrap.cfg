SPECIFICATION Spec
CONSTANTS
  Channels = {"small", "large", "odd"}
  SampleSize <- MCSampleSize
  Payload = 2
  RamSize = 8
  Word = 16
  Configs <- MCConfigs
  MaxMade = 9
  Old = old
  Foreign = foreign
  None = none
PROPERTY ResultIsWanted
