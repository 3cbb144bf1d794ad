\* max_trajectory_age_steps = 1, refits that wait, validation at the start;
\* no failures, so that only the order of events is in the way of progress.
CONSTANTS
  NumPrompts = 2
  MaxAge = 1
  MaxSize = 4
  Workers = {w1, w2}
  StartStep = 0
  MaxSteps = 2
  NumBatches = 3
  InFlight = FALSE
  MaxFailures = 0
  ValAtStart = TRUE
  ValPeriod = 0
  ValAtEnd = FALSE
  Deadline = FALSE
SPECIFICATION FairSpec
PROPERTIES
  RefitStarts
  ReservedTargetTrained
CHECK_DEADLOCK FALSE
