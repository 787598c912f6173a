CONSTANTS
  Threads = {t1, t2}
  Paths = {p1}
  MaxElems = 3
SPECIFICATION FairSpec
INVARIANTS InfoAlive OwnWritesKept
PROPERTIES NotTruncatedWhileOpen ManagerTerminates
CHECK_DEADLOCK FALSE
