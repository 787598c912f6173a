CONSTANTS
  NumWorkers = 2
  Vids = {1, 2}
  WorkerOf <- MCWorkerOf
  Features = {"timer", "throw", "block"}
  Requests = {"STOP"}
  MaxJobs = 2
  MaxYields = 2
  MaxTimers = 1
  MaxTime = 1
SPECIFICATION Spec
INVARIANTS JobsAccountedFor StoppedMeansDrained
