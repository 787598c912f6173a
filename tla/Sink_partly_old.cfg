CONSTANTS
  Parsers = {p1}
  MaxSeq = 4
  Versions = {v1}
  InitialSeqs = {}
  Disciplined = FALSE
SPECIFICATION Spec
INVARIANT NoSilentHole
