\* One prompt per step: a target reserved twice leaves a group that ages out of
\* the window.
CONSTANTS
  NumPrompts = 1
  MaxAge = 1
  MaxSize = 2
  Workers = {w1}
  StartStep = 0
  MaxSteps = 3
  NumBatches = 4
  InFlight = FALSE
  MaxFailures = 0
  ValAtStart = FALSE
  ValPeriod = 0
  ValAtEnd = FALSE
  Deadline = FALSE
SPECIFICATION Spec
INVARIANTS
  StaleGroupsAreDiscarded
CHECK_DEADLOCK FALSE
