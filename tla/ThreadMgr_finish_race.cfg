CONSTANTS
  NumWorkers = 2
  Vids = {1, 2}
  WorkerOf <- MCWorkerOf
  Features = {}
  Requests = {"FINISH"}
  MaxJobs = 2
  MaxYields = 0
  MaxTimers = 0
  MaxTime = 0
SPECIFICATION FairSpec
PROPERTY FinishWaitsForIdle
