\* Two units, indices without a base.
CONSTANTS
  Strings <- MCStrings
  Split = TRUE
  MaxUnits = 2
SPECIFICATION Spec
INVARIANTS
  DelayedOfUnit
CHECK_DEADLOCK FALSE
