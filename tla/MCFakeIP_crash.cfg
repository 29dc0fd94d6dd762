\* Process deaths; no symmetry, for liveness and refinement.
CONSTANTS
  p1 = p1
  p2 = p2
  a = a
  b = b
  c = c
  shm = shm
  file = file
  Garbled = Garbled
  None = None
  Procs = {p1, p2}
  Domains = {a, b}
  Tables = {shm}
  NetworkSize = 4
  Capacity = 2
  MaxAllocs = 2
  MaxTick = 1
  MaxCrashes = 1
SPECIFICATION FairSpec
CHECK_DEADLOCK FALSE
INVARIANT NothingInvented
PROPERTIES
  ImplementsDirectory
  OperationsEnd
