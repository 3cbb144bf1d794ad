\* The job is started three times and may die between any two file operations.
CONSTANTS
  MaxStep = 4
  MaxRuns = 3
  SavePeriod = 2
  KeepTopK = 1
  Metrics = {1}
  ConfigChanges = FALSE
SPECIFICATION Spec
INVARIANTS
  LatestIsWhole
  StepIsNew
  LossBounded
  SpaceBounded
  TopIsWhole
PROPERTY
  ImplementsShelf
CHECK_DEADLOCK FALSE
