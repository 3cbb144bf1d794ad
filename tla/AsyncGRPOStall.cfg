\* A weight update lost while the collection thread goes to sleep skips a target.
CONSTANTS
  NumPrompts = 1
  MaxAge = 1
  MaxSize = 2
  Workers = {w1}
  StartStep = 0
  MaxSteps = 3
  NumBatches = 6
  InFlight = FALSE
  MaxFailures = 0
  ValAtStart = FALSE
  ValPeriod = 0
  ValAtEnd = FALSE
  Deadline = FALSE
SPECIFICATION FairSpec
PROPERTIES
  StepsComplete
CHECK_DEADLOCK FALSE
