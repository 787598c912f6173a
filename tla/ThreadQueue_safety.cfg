CONSTANTS
  w1 = w1
  w2 = w2
  Writers = {w1, w2}
  BatchSize = 2
  MaxBatches = 2
  MaxElems = 3
  Timeouts <- MCTimeouts
  Updaters = {w1}
SPECIFICATION FairSpec
INVARIANTS TypeOK InOrder DoneMeansDrained NullMeansDrained CapacityRespected PipelineExact
PROPERTIES ImplementsFifo UpdatedElemsArrive TerminationReachesReader
