----------------------------- MODULE Checkpoint -----------------------------
(***************************************************************************)
(* Saving and resuming: the checkpoint manager                             *)
(* (nemo_rl/utils/checkpoint.py), the block of the training loops that     *)
(* saves with it and the setup that resumes from it                        *)
(* (nemo_rl/algorithms/grpo.py; the other loops are alike).                *)
(*                                                                         *)
(* A checkpoint is built file by file in tmp_step_N, renamed to step_N,    *)
(* and then older ones are removed file by file.  The job may die between  *)
(* any two operations on files and be started again.                       *)
(***************************************************************************)
EXTENDS Integers, FiniteSets

CONSTANTS
  MaxStep,        \* bound: the last step that is trained
  MaxRuns,        \* bound: how often the job is started
  SavePeriod,     \* save_period
  KeepTopK,       \* keep_top_k
  Metrics,        \* values of metric_name; 0 stands for a missing one
  ConfigChanges   \* save_optimizer may differ from one run to the next

ASSUME CheckpointAssumption ==
  /\ MaxStep \in Nat
  /\ MaxRuns \in Nat
  /\ SavePeriod \in Nat \ {0}
  /\ KeepTopK \in Nat
  /\ Metrics \subseteq Nat
  /\ ConfigChanges \in BOOLEAN

Steps == 1 .. MaxStep
Runs == 1 .. MaxRuns

\* What a checkpoint directory holds: training_info.json, policy/weights,
\* policy/optimizer and train_dataloader.pt, in the order they are written.
Files == {"training_info", "weights", "optimizer", "train_dataloader"}

\* The content of a file: the number of the run that wrote it, or one of
Absent == 0
Torn == -1    \* opened for writing, and not completely written
Contents == Runs \cup {Absent, Torn}

Empty == [f \in Files |-> Absent]

VARIABLES
  pc,             \* where the training loop is; "down": no process runs
  file,           \* the file of the checkpoint that is written next
  run,            \* how often the job was started
  trained,        \* total_steps
  stopping,       \* the run ends after this checkpoint: last step or deadline
  saveOptimizer,  \* save_optimizer, read when the run starts
  doomed,         \* checkpoints that remove_old_checkpoints still has to remove
  tmpDir,         \* tmpDir[s]: the files in tmp_step_<s>
  stepDirs,       \* the steps s for which step_<s> exists
  stepDir,        \* stepDir[s]: the files in step_<s>
  metric,         \* metric[s]: the metric in the training info of step s
  saved           \* history: the steps of the checkpoints ever finalized

memory == <<pc, file, run, trained, stopping, saveOptimizer, doomed>>
disk == <<tmpDir, stepDirs, stepDir, metric, saved>>
vars == <<memory, disk>>

TypeOK ==
  /\ pc \in {"down", "training", "open", "write", "rename", "list", "remove"}
  /\ file \in Files
  /\ run \in 0 .. MaxRuns
  /\ trained \in 0 .. MaxStep
  /\ stopping \in BOOLEAN
  /\ saveOptimizer \in BOOLEAN
  /\ doomed \subseteq Steps
  /\ tmpDir \in [Steps -> [Files -> Contents]]
  /\ stepDirs \subseteq Steps
  /\ stepDir \in [Steps -> [Files -> Contents]]
  /\ metric \in [Steps -> Metrics \cup {0}]
  /\ saved \subseteq Steps

Init ==
  /\ pc = "down"
  /\ file = "training_info"
  /\ run = 0
  /\ trained = 0
  /\ stopping = FALSE
  /\ saveOptimizer \in BOOLEAN
  /\ doomed = {}
  /\ tmpDir = [s \in Steps |-> Empty]
  /\ stepDirs = {}
  /\ stepDir = [s \in Steps |-> Empty]
  /\ metric = [s \in Steps |-> 0]
  /\ saved = {}

-----------------------------------------------------------------------------
(* Starting the job, training, dying *)

\* Mutant: the earliest checkpoint is found.
EarliestStep ==
  IF stepDirs = {} THEN 0 ELSE CHOOSE s \in stepDirs : \A t \in stepDirs : s <= t

\* get_latest_checkpoint_path: the highest step for which a directory exists,
\* whatever the directory holds.
LatestStep ==
  IF stepDirs = {} THEN 0 ELSE CHOOSE s \in stepDirs : \A t \in stepDirs : t <= s

\* setup: resume from the latest checkpoint, or from the beginning.
Start ==
  /\ pc = "down"
  /\ run < MaxRuns
  /\ pc' = "training"
  /\ run' = run + 1
  /\ trained' = LatestStep
  /\ \/ ConfigChanges /\ saveOptimizer' \in BOOLEAN
     \/ UNCHANGED saveOptimizer
  /\ UNCHANGED <<file, stopping, doomed, disk>>

\* Mutant: both the period and the end of the run are needed to save.
SavesAtPeriodicEnd(s, last) == last /\ s % SavePeriod = 0

\* should_save_by_step or should_save_by_timeout
Saves(s, last) == last \/ s % SavePeriod = 0

\* A training step; it may turn out to be the last of the run, because of
\* max_num_steps, max_num_epochs or the deadline of checkpoint_must_save_by.
Train(last) ==
  /\ pc = "training"
  /\ trained < MaxStep
  /\ trained' = trained + 1
  /\ IF Saves(trained + 1, last)
     THEN pc' = "open" /\ file' = "training_info" /\ stopping' = last
     ELSE UNCHANGED <<pc, file, stopping>>
  /\ UNCHANGED <<run, saveOptimizer, doomed, disk>>

\* The process ends, and all it had in memory is gone.
Stop ==
  /\ pc' = "down"
  /\ file' = "training_info"
  /\ trained' = 0
  /\ stopping' = FALSE
  /\ doomed' = {}
  /\ UNCHANGED <<run, saveOptimizer, disk>>

\* The job is killed, or an exception ends it, at any point.
Crash == pc # "down" /\ Stop

-----------------------------------------------------------------------------
(* init_tmp_checkpoint, policy.save_checkpoint and torch.save: the files of *)
(* tmp_step_N.  What an earlier attempt left there is written over.         *)

Open(m) ==
  /\ pc = "open"
  /\ pc' = "write"
  /\ tmpDir' = [tmpDir EXCEPT ![trained][file] = Torn]
  /\ metric' = IF file = "training_info" THEN [metric EXCEPT ![trained] = m] ELSE metric
  /\ UNCHANGED <<file, run, trained, stopping, saveOptimizer, doomed, stepDirs, stepDir, saved>>

\* The file that is written after the present one; "none" after the last.
NextFile ==
  CASE file = "training_info" -> "weights"
    [] file = "weights" /\ saveOptimizer -> "optimizer"
    [] file = "weights" /\ ~saveOptimizer -> "train_dataloader"
    [] file = "optimizer" -> "train_dataloader"
    [] file = "train_dataloader" -> "none"

Write ==
  /\ pc = "write"
  /\ tmpDir' = [tmpDir EXCEPT ![trained][file] = run]
  /\ IF NextFile = "none"
     THEN pc' = "rename" /\ UNCHANGED file
     ELSE pc' = "open" /\ file' = NextFile
  /\ UNCHANGED <<run, trained, stopping, saveOptimizer, doomed, stepDirs, stepDir, metric, saved>>

-----------------------------------------------------------------------------
(* finalize_checkpoint.  The branch for a step_N that exists already is    *)
(* not modelled: StepIsNew shows that the loops never take it.             *)

Rename ==
  /\ pc = "rename"
  /\ trained \notin stepDirs
  /\ pc' = "list"
  /\ stepDirs' = stepDirs \cup {trained}
  /\ stepDir' = [stepDir EXCEPT ![trained] = tmpDir[trained]]
  /\ tmpDir' = [tmpDir EXCEPT ![trained] = Empty]
  /\ saved' = saved \cup {trained}
  /\ UNCHANGED <<file, run, trained, stopping, saveOptimizer, doomed, metric>>

-----------------------------------------------------------------------------
(* remove_old_checkpoints *)

\* _load_checkpoint_history: directories without training info are skipped.
History == {s \in stepDirs : stepDir[s]["training_info"] # Absent}

\* Mutant: the worst metric sorts first.
SortsAscending(s, t) ==
  \/ metric[s] < metric[t]
  \/ metric[s] = metric[t] /\ s > t

\* The order in which checkpoint_history is sorted.
SortsBefore(s, t) ==
  \/ metric[s] > metric[t]
  \/ metric[s] = metric[t] /\ s > t

\* Mutant: exclude_latest is not heeded.
OutsideTopKWithLatest ==
  {s \in History : Cardinality({t \in History : SortsBefore(t, s)}) >= KeepTopK}

\* Mutant: one checkpoint more than keep_top_k is kept.
OutsideTopKAndOne ==
  {s \in History : /\ Cardinality({t \in History : SortsBefore(t, s)}) > KeepTopK
                   /\ \E t \in History : s < t}

\* checkpoint_history[keep_top_k:] but for the latest step of the history.
OutsideTopK ==
  {s \in History : /\ Cardinality({t \in History : SortsBefore(t, s)}) >= KeepTopK
                   /\ \E t \in History : s < t}

List ==
  /\ pc = "list"
  /\ pc' = "remove"
  /\ doomed' = OutsideTopK
  /\ UNCHANGED <<file, run, trained, stopping, saveOptimizer, disk>>

\* The checkpoint whose removal is under way.
Removing(s) == s \in doomed /\ \A t \in doomed : t = s \/ SortsBefore(s, t)

\* rmtree removes the files in any order; weights is a directory itself, which may
\* be left with some of its files.
RemoveFile(s, f) ==
  /\ pc = "remove"
  /\ Removing(s)
  /\ stepDir[s][f] # Absent
  /\ \/ stepDir' = [stepDir EXCEPT ![s][f] = Absent]
     \/ /\ f = "weights"
        /\ stepDir[s][f] # Torn
        /\ stepDir' = [stepDir EXCEPT ![s][f] = Torn]
  /\ UNCHANGED <<memory, tmpDir, stepDirs, metric, saved>>

RemoveDir(s) ==
  /\ pc = "remove"
  /\ Removing(s)
  /\ stepDir[s] = Empty
  /\ stepDirs' = stepDirs \ {s}
  /\ doomed' = doomed \ {s}
  /\ UNCHANGED <<pc, file, run, trained, stopping, saveOptimizer, tmpDir, stepDir, metric, saved>>

\* The save is over: the run goes on, or it ends as it had to.
Saved ==
  /\ pc = "remove"
  /\ doomed = {}
  /\ ~stopping
  /\ pc' = "training"
  /\ UNCHANGED <<file, run, trained, stopping, saveOptimizer, doomed, disk>>

End ==
  /\ pc = "remove"
  /\ doomed = {}
  /\ stopping
  /\ Stop

-----------------------------------------------------------------------------
Next ==
  \/ Start
  \/ \E last \in BOOLEAN : Train(last)
  \/ \E m \in Metrics \cup {0} : Open(m)
  \/ Write
  \/ Rename
  \/ List
  \/ \E s \in Steps, f \in Files : RemoveFile(s, f)
  \/ \E s \in Steps : RemoveDir(s)
  \/ Saved
  \/ End
  \/ Crash

Spec == Init /\ [][Next]_vars

-----------------------------------------------------------------------------
(* Properties *)

\* The directory holds all that run r saves, and nothing of another run.
WrittenBy(r, dir) ==
  \A f \in Files : dir[f] = IF f = "optimizer" /\ ~saveOptimizer THEN Absent ELSE r

Whole(dir) == \E r \in Runs : WrittenBy(r, dir)

\* Whenever the job dies, the directory that the next run resumes from (the
\* highest step, chosen by its name alone) is whole, and all its files come from
\* one run: no half-written or half-removed checkpoint is ever resumed.
LatestIsWhole == stepDirs # {} => Whole(stepDir[LatestStep])

\* finalize_checkpoint never finds a step_N of the step it saves: no loop
\* relies on the pair of renames between which step_N would be missing.
StepIsNew == pc = "rename" => trained \notin stepDirs

\* A job that dies loses less than SavePeriod steps of training, or SavePeriod
\* while the checkpoint is being saved.
LossBounded ==
  pc # "down" => trained - LatestStep < SavePeriod + (IF pc = "training" THEN 0 ELSE 1)

\* A save that completes leaves KeepTopK checkpoints and the latest, however many
\* removals were interrupted before it; beyond them at most one directory for each
\* earlier run, without training info, which no removal will ever find.
SpaceBounded ==
  pc = "remove" /\ doomed = {} =>
    /\ Cardinality(History) <= KeepTopK + 1
    /\ Cardinality(stepDirs \ History) < run

\* The directories implement the shelf of snapshots.
MetricOfSaved == [s \in Steps |-> IF s \in saved THEN metric[s] ELSE 0]

WholeDirs == {s \in stepDirs : Whole(stepDir[s])}

Shelf == INSTANCE SnapshotShelf WITH shelf <- WholeDirs, metric <- MetricOfSaved

\* Renaming puts a snapshot on the shelf at once, the first file removed takes it
\* off; crashes and partial removals do not show, and what is removed ranks
\* after KeepTopK of all the checkpoints ever saved.
ImplementsShelf == Shelf!ShelfSpec

\* The KeepTopK best of all checkpoints ever saved are there and whole, whatever
\* removals were interrupted: the ranking of what is left never costs a better one.
TopIsWhole == Shelf!TopOnShelf

\* get_resume_paths says (checkpoint.py:124) that there is no optimizer path when
\* the optimizer state was not saved: an optimizer that is resumed was saved with
\* the weights.  False when save_optimizer is turned off after a crash.
OptimizerAsSaved ==
  stepDirs # {} =>
    stepDir[LatestStep]["optimizer"] \in {Absent, stepDir[LatestStep]["weights"]}
=============================================================================
