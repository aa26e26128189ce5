\* Safety: two clients, a crash and a restart.
CONSTANTS
  s1 = s1
  s2 = s2
  sym = sym
  lit = lit
  Sessions = {s1, s2}
  Names <- MCNames
  c_str <- MCCStr
  MaxId = 3
  MaxRefs = 1
  MaxCalls = 4
  MaxStarts = 2
SYMMETRY Symmetry
SPECIFICATION Spec
INVARIANTS
  TypeOK
  OneNamePerId
  OneIdPerCString
  CacheBacked
  RefsBacked
CHECK_DEADLOCK FALSE
