\* Two processes, a shm and a file store, a ring of two slots that wraps, a pool of two addresses that recycles.
CONSTANTS
  p1 = p1
  p2 = p2
  a = a
  b = b
  c = c
  shm = shm
  file = file
  Garbled = Garbled
  None = None
  Procs = {p1, p2}
  Domains = {a, b, c}
  Tables = {shm, file}
  NetworkSize = 4
  Capacity = 2
  MaxAllocs = 3
  MaxTick = 2
  MaxCrashes = 0
SPECIFICATION Spec
CHECK_DEADLOCK FALSE
SYMMETRY Symmetry
INVARIANTS
  TypeOK
  MapsAgree
  OwnAddressResolves
  NewestPutWins
PROPERTY OldestRecycled
