SPECIFICATION Spec
CONSTANTS
  Controllers = {c1, c2}
  Fields = {"len", "rst"}
  Commands = {"rst"}
  Values = {0, 1, 2}
  TooLarge = toolarge
  Unset = unset
  Classes <- MCClasses
INVARIANT TypeOK
PROPERTY CommandsOnce
PROPERTY OnlySetChanges
PROPERTY ThrewUnwritten
