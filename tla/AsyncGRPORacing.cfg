\* Without in-flight weight updates a refit meets a running generation.
CONSTANTS
  NumPrompts = 1
  MaxAge = 1
  MaxSize = 2
  Workers = {w1}
  StartStep = 0
  MaxSteps = 3
  NumBatches = 4
  InFlight = FALSE
  MaxFailures = 0
  ValAtStart = FALSE
  ValPeriod = 0
  ValAtEnd = FALSE
  Deadline = FALSE
SPECIFICATION Spec
INVARIANTS
  RefitExcludesGeneration
CHECK_DEADLOCK FALSE
