CONSTANTS
  Timers = {x1, x2}
  Funcs = {}
  Keys = {k1, k2}
  Timeouts = {1, 2}
  MaxTime = 3
  MaxDepth = 1
  UpdatesEarlier = TRUE
SPECIFICATION MapSpec
INVARIANT DueTimersFire
