\* Functions with parameters, blocks, local variables and local types; two units.
CONSTANTS
  MaxDies = 5
  MaxUnits = 2
  Options = {"f", "V", "L", "n"}
  Sources <- FunctionSources
SPECIFICATION Spec
INVARIANTS
  WalkTypeOK
  WalkInStep
  LocalsOfTheirFunction
  LocalsKept
  NamesOfTheirDie
CHECK_DEADLOCK FALSE
