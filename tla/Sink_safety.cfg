CONSTANTS
  Parsers = {p1, p2}
  MaxSeq = 4
  Versions = {v1, v2}
  InitialSeqs = {1}
  Disciplined = TRUE
SPECIFICATION Spec
SYMMETRY MCSymmetry
INVARIANTS TypeOK StreamInOrder NoSilentHole NextDataDelivered
PROPERTIES BufferedDataStays
