\* C++ classes in namespaces, and data types; two units.
CONSTANTS
  MaxDies = 5
  MaxUnits = 2
  Options = {"f", "V", "L", "n"}
  Sources <- TypeSources
SPECIFICATION Spec
INVARIANTS
  WalkInStep
  NamespacesFollowPath
  PartsOfTheirParent
  PartsKept
CHECK_DEADLOCK FALSE
