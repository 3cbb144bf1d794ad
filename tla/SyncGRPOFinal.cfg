\* Batches of two prompts, one of which may be enough; one epoch of three batches,
\* no deadline, nothing dies and nothing fails.
CONSTANTS
  MustSaveBy = 100
  Durations = {1}
  PromptsPerStep = 2
  BatchSize = 2
  EpochLen = 3
  MaxEpochs = 1
  MaxSteps = 4
  DynamicSampling = TRUE
  MaxGenBatches = 2
  ValPeriod = 2
  ValAtStart = FALSE
  ValAtEnd = TRUE
  SavePeriod = 2
  OffloadForLogprob = FALSE
  MaxRestarts = 0
  MaxFaults = 0
SPECIFICATION Spec
INVARIANT FinalCheckpointValidated
CHECK_DEADLOCK FALSE
