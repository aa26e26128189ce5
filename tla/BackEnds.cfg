\* sqlite: two compilers, one after the other or at once; kills and later builds.
\* text: compilers one after the other, any of them killed.
CONSTANTS
  p1 = p1
  p2 = p2
  sym = sym
  fun = fun
  Procs = {p1, p2}
  Names <- MCNames
  c_str <- MCCStr
  ErrorText = ErrorText
  MaxId = 3
  MaxCalls = 5
  MaxStarts = 3
  Funcs = {f, g}
  Blocks = {2, 3}
  Nobody = Nobody
  Nowhere = Nowhere
  MaxSteps = 7
SYMMETRY Symmetry
SPECIFICATION BackEndsSpec
INVARIANTS
  CacheTrue
  RowsAsRecorded
  LinesAsFound
PROPERTIES
  ImplementsRegistry
CHECK_DEADLOCK FALSE
