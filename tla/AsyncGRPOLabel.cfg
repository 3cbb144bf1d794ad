\* Collection starts before the first refit.
CONSTANTS
  NumPrompts = 1
  MaxAge = 1
  MaxSize = 2
  Workers = {w1}
  StartStep = 0
  MaxSteps = 3
  NumBatches = 4
  InFlight = FALSE
  MaxFailures = 0
  ValAtStart = FALSE
  ValPeriod = 0
  ValAtEnd = FALSE
  Deadline = FALSE
SPECIFICATION Spec
INVARIANTS
  LabelNamesLoadedWeights
CHECK_DEADLOCK FALSE
