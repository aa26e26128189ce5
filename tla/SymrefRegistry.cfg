\* Refinement and liveness: two clients, names without a NUL, a crash and a restart.
CONSTANTS
  s1 = s1
  s2 = s2
  sym = sym
  fun = fun
  Sessions = {s1, s2}
  Names <- MCNames
  c_str <- MCCStr
  MaxId = 2
  MaxRefs = 0
  MaxCalls = 4
  MaxStarts = 2
SPECIFICATION FairSpec
PROPERTIES
  QueueDrains
  QuitWithWork
  ImplementsRegistry
CHECK_DEADLOCK FALSE
