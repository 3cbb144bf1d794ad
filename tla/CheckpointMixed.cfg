\* save_optimizer may be turned off between two runs.
CONSTANTS
  MaxStep = 1
  MaxRuns = 3
  SavePeriod = 1
  KeepTopK = 1
  Metrics = {1}
  ConfigChanges = TRUE
SPECIFICATION Spec
INVARIANT OptimizerAsSaved
CHECK_DEADLOCK FALSE
