\* max_trajectory_age_steps = 1, no in-flight weight updates (the default):
\* the refit waits for the pending generations.
CONSTANTS
  NumPrompts = 2
  MaxAge = 1
  MaxSize = 4
  Workers = {w1, w2}
  StartStep = 0
  MaxSteps = 3
  NumBatches = 4
  InFlight = FALSE
  MaxFailures = 1
  ValAtStart = FALSE
  ValPeriod = 0
  ValAtEnd = FALSE
  Deadline = FALSE
SPECIFICATION Spec
SYMMETRY Symmetry
INVARIANTS
  AgeWindow
  LeftoverMeansDuplicate
  BackPressureMeansDuplicate
  ReservationHasWork
  LagsBehindShutGate
  RacingGenerationsBounded
CHECK_DEADLOCK FALSE
