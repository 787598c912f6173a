CONSTANTS
  NumWorkers = 2
  Vids = {1, 2}
  WorkerOf <- MCWorkerOf
  Features = {"yield", "block", "throw"}
  Requests = {"FINISH", "STOP", "KILL"}
  MaxJobs = 2
  MaxYields = 1
  MaxTimers = 0
  MaxTime = 0
SPECIFICATION FairSpec
INVARIANTS JobsAccountedFor StoppedMeansDrained DeleteFindsJobs ScheduledOrder
PROPERTIES ShutdownCompletes WorkerJobsRun
