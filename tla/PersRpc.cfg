\* Two clients at once, a crash and a restart.
CONSTANTS
  s1 = s1
  s2 = s2
  sym = sym
  lit = lit
  Sessions = {s1, s2}
  Names <- MCNames
  c_str <- MCCStr
  MaxId = 2
  MaxRefs = 1
  MaxCalls = 5
  MaxStarts = 2
SYMMETRY Symmetry
SPECIFICATION SystemSpec
INVARIANTS
  BodyReplaced
  ProcessedMarked
  ClientIdsCurrent
CHECK_DEADLOCK FALSE
