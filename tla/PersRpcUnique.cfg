\* Two clients that use the same literal.
CONSTANTS
  s1 = s1
  s2 = s2
  sym = sym
  lit = lit
  Sessions = {s1, s2}
  Names <- MCNames
  c_str <- MCCStr
  MaxId = 3
  MaxRefs = 1
  MaxCalls = 4
  MaxStarts = 1
SPECIFICATION SystemSpec
INVARIANTS
  UniqueNames
CHECK_DEADLOCK FALSE
