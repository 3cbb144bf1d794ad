\* max_trajectory_age_steps = 2 and in-flight weight updates, resumed at step 1,
\* validating after every second step and at the end; a deadline may end the run.
CONSTANTS
  NumPrompts = 1
  MaxAge = 2
  MaxSize = 4
  Workers = {w1, w2}
  StartStep = 1
  MaxSteps = 4
  NumBatches = 4
  InFlight = TRUE
  MaxFailures = 1
  ValAtStart = FALSE
  ValPeriod = 2
  ValAtEnd = TRUE
  Deadline = TRUE
SPECIFICATION Spec
SYMMETRY Symmetry
INVARIANTS
  AgeWindow
CHECK_DEADLOCK FALSE
