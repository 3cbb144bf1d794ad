------------------------------ MODULE Deadline ------------------------------
(***************************************************************************)
(* The deadline of a training run, checkpointing.checkpoint_must_save_by:  *)
(* TimeoutChecker of nemo_rl/utils/timer.py.  The loop that owns a checker *)
(* marks the end of each iteration and asks at once whether it is time for *)
(* the last checkpoint; the answer anticipates one more iteration of       *)
(* average length.  Times are whole units since the checker was made.      *)
(***************************************************************************)
EXTENDS Integers

CONSTANTS
  MustSaveBy,  \* last_save_time, in units of time
  Durations    \* how long a rollout may take

ASSUME DeadlineAssumption ==
  /\ MustSaveBy \in Nat \ {0}
  /\ Durations \subseteq Nat \ {0}

VARIABLES
  clock,       \* time.time() - start_time
  marked,      \* the clock at the last mark_iteration: sum(iteration_times)
  iterations,  \* len(iteration_times)
  lastSaved,   \* last_saved
  steady       \* history: each iteration took no longer than those before it
               \* took on average, and the first one less than the whole time

deadlineVars == <<clock, marked, iterations, lastSaved, steady>>

DeadlineTypeOK ==
  /\ clock \in Nat /\ marked \in 0..clock
  /\ iterations \in Nat
  /\ lastSaved \in BOOLEAN /\ steady \in BOOLEAN

\* A new checker; start_iterations follows at once.
DeadlineInit ==
  /\ clock = 0 /\ marked = 0 /\ iterations = 0
  /\ lastSaved = FALSE /\ steady = TRUE

NewChecker ==
  /\ clock' = 0 /\ marked' = 0 /\ iterations' = 0
  /\ lastSaved' = FALSE /\ steady' = TRUE

Elapse(d) ==
  /\ clock' = clock + d
  /\ UNCHANGED <<marked, iterations, lastSaved, steady>>

\* Mutant: the next iteration is not anticipated.
DueNow(n, sum) == clock >= MustSaveBy

\* What check_save answers when n iterations have taken `sum' in all: the time that
\* has passed and one more average iteration reach the deadline.
Due(n, sum) ==
  \/ n > 0 /\ clock * n + sum >= MustSaveBy * n
  \/ clock >= MustSaveBy

CheckSave == ~lastSaved /\ Due(iterations + 1, clock)

\* The last iteration took no longer than the ones before it on average.
WithinAverage ==
  IF iterations = 0 THEN clock < MustSaveBy
                    ELSE (clock - marked) * iterations <= marked

\* mark_iteration, then check_save, which answers TRUE once.
MarkAndCheck ==
  /\ marked' = clock
  /\ iterations' = iterations + 1
  /\ lastSaved' = (lastSaved \/ CheckSave)
  /\ steady' = (steady /\ WithinAverage)
  /\ UNCHANGED clock
=============================================================================
