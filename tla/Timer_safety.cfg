CONSTANTS
  Timers = {x1, x2, x3, x4}
  MaxTime = 3
  MaxDepth = 3
  UpdatesEarlier = FALSE
SPECIFICATION Spec
SYMMETRY MCSymmetry
INVARIANTS HeapOrdered RefsMatch DueTimersFire
