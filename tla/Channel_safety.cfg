CONSTANTS
  Threads = {t1, t2, t3}
  Items = {a, b}
  Capacities = {0, 1, 2, 3}
  INITIAL_CHUNK_SIZE = 2
  MAX_CHUNK_SIZE = 4
  MaxWrites = 9
  UncheckedWrites = FALSE
SPECIFICATION Spec
SYMMETRY MCSymmetry
INVARIANTS TypeOK NextItemThere NoLostWakeup HoldersKeepItAlive
PROPERTIES ImplementsFifo
CHECK_DEADLOCK FALSE
