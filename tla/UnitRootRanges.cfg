\* Range lists of two units.
CONSTANTS
  Strings <- MCStrings
  Split = FALSE
  MaxUnits = 2
SPECIFICATION Spec
INVARIANTS
  RangesOfUnit
CHECK_DEADLOCK FALSE
