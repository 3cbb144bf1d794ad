\* Dynamic sampling from batches of two prompts, one of which may be enough; two
\* epochs of three batches, a deadline, a restart and a fault of the engine.
CONSTANTS
  MustSaveBy = 7
  Durations = {1, 2}
  PromptsPerStep = 2
  BatchSize = 2
  EpochLen = 3
  MaxEpochs = 2
  MaxSteps = 4
  DynamicSampling = TRUE
  MaxGenBatches = 1
  ValPeriod = 2
  ValAtStart = TRUE
  ValAtEnd = TRUE
  SavePeriod = 2
  OffloadForLogprob = FALSE
  MaxRestarts = 2
  MaxFaults = 1
SPECIFICATION Spec
INVARIANTS
  TypeOK
  OnPolicy
  GpuExclusive
  Accounted
  DeadlineKept
PROPERTIES
  StepsAreFresh
CHECK_DEADLOCK FALSE
