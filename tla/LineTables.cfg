\* Three units, with the bases their indices need and any tables of lines.
CONSTANTS
  Strings <- MCStrings
  Split = FALSE
  MaxUnits = 3
SPECIFICATION LineSpec
INVARIANTS
  StringsOfUnit
  BaseAddrOfUnit
  LookupsOfUnit
  LinesTypeOK
  FilesOfUnit
  NamesThroughBase
CHECK_DEADLOCK FALSE
