\* Three units, with and without -k.
CONSTANTS
  a = a
  Kinds = {"structure_type", "class_type", "typedef2", "subroutine"}
  Names = {a}
  MaxRank = 1
  MaxTypes = 2
  MaxUnits = 3
SPECIFICATION Spec
INVARIANTS
  PrintedAgainRicher
  ReplacedWasPrinted
  PrintedInOneUnit
  RichestPrinted
CHECK_DEADLOCK FALSE
