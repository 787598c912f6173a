CONSTANTS
  Objs = {o1, o2, o3}
  NumFields = 2
  Globals = {g1}
SPECIFICATION Spec
SYMMETRY MCSymmetry
INVARIANTS CountsExact NoDanglingReference UnreferencedIsPending
