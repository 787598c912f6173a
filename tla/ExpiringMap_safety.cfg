CONSTANTS
  Timers = {f1, x1, x2}
  Funcs = {f1}
  Keys = {k1, k2}
  Timeouts = {1, 2}
  MaxTime = 3
  MaxDepth = 3
  UpdatesEarlier = FALSE
SPECIFICATION MapSpec
SYMMETRY MCSymmetry
INVARIANTS EntriesMatchTimers EntriesExpire
PROPERTIES NotExpiredEarly
