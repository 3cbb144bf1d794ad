------------------------------ MODULE SyncGRPO ------------------------------
(***************************************************************************)
(* The synchronous GRPO loop: grpo_train of nemo_rl/algorithms/grpo.py     *)
(* with dynamic_sampling, refits between a policy and a colocated engine,  *)
(* validation, the save of a checkpoint, the deadline, and a process that  *)
(* dies and is started again from the last checkpoint.                     *)
(*                                                                         *)
(* A prompt is a pair of an epoch and a place in that epoch's order.  The  *)
(* samples of a prompt stand or fall together: their rewards' standard     *)
(* deviation is zero or it is not.  Checkpoint.tla shows what happens      *)
(* between the file operations of a save; here a save is one step.         *)
(***************************************************************************)
EXTENDS Deadline, FiniteSets

CONSTANTS
  PromptsPerStep,      \* grpo.num_prompts_per_step
  BatchSize,           \* prompts of a dataloader batch: times batch_multiplier
  EpochLen,            \* len(wrapped_dataloader)
  MaxEpochs, MaxSteps, \* grpo.max_num_epochs, grpo.max_num_steps
  DynamicSampling,     \* grpo.use_dynamic_sampling
  MaxGenBatches,       \* grpo.dynamic_sampling_max_gen_batches
  ValPeriod, ValAtStart, ValAtEnd,
  SavePeriod,          \* checkpointing.save_period; checkpointing is enabled
  OffloadForLogprob,   \* policy.offload_optimizer_for_logprob
  MaxRestarts,         \* bound: how often the process is started again
  MaxFaults            \* bound: how often putting the engine to sleep fails

ASSUME SyncAssumption ==
  /\ PromptsPerStep \in Nat \ {0} /\ BatchSize \in Nat \ {0}
  /\ EpochLen \in Nat \ {0}
  /\ MaxEpochs \in Nat /\ MaxSteps \in Nat
  /\ DynamicSampling \in BOOLEAN /\ MaxGenBatches \in Nat \ {0}
  /\ DynamicSampling \/ BatchSize = PromptsPerStep
  /\ ValPeriod \in Nat /\ ValAtStart \in BOOLEAN /\ ValAtEnd \in BOOLEAN
  /\ SavePeriod \in Nat \ {0}
  /\ OffloadForLogprob \in BOOLEAN
  /\ MaxRestarts \in Nat /\ MaxFaults \in Nat

VARIABLES
  pc,        \* what the driver does next
  goal,      \* what the engine is being prepared for
  epoch, cur, steps,  \* current_epoch, current_step, total_steps
  pos,       \* batches the dataloader has handed out in this epoch
  cache,     \* batch_cache: prompts with a non-zero deviation
  gens,      \* dynamic_sampling_num_gen_batches
  selected,  \* prompts of the step being made
  stale,     \* POLICY_GENERATION_STALE
  val,       \* val_metrics is not None
  byTimeout, \* should_save_by_timeout
  version,   \* optimizer steps in the policy's weights
  engine,    \* the version of the engine's weights, -1 for dummy ones
  gpu,       \* what of the policy is on the GPU
  awake,     \* what of the engine is on the GPU
  saved,     \* the last checkpoint
  trained,   \* history: prompts that the policy's weights were trained on
  passed,    \* history: prompts filtered out, discarded or left in a cache
  restarts, faults

loopVars   == <<pc, goal, epoch, cur, steps, pos>>
sampleVars == <<cache, gens, selected>>
memoryVars == <<stale, version, engine, gpu, awake>>
runVars    == <<val, byTimeout, saved>>
history    == <<trained, passed>>
bounds     == <<restarts, faults>>
vars == <<loopVars, sampleVars, memoryVars, runVars, history, bounds, deadlineVars>>

Policy  == {"model", "optimizer"}
Engine  == {"weights", "kv_cache"}
Ended   == {"done", "failed"}
Places  == {"start", "epoch", "batch", "offload", "wakeWeights", "transfer",
            "settle", "wakeCache", "wakeAll", "rollout", "filter", "logprobs",
            "training", "trained", "validation", "finish", "save", "next"} \cup Ended

Prompts == (0..MaxEpochs) \X (1..EpochLen * BatchSize)
Batch(e, b) == {<<e, n>> : n \in ((b - 1) * BatchSize + 1)..(b * BatchSize)}


\* What the dataloader has handed out since the beginning, b batches into e.
HandedOut(e, b) ==
  {p \in Prompts : p[1] < e \/ (p[1] = e /\ p[2] <= b * BatchSize)}

NoCheckpoint ==
  [steps |-> 0, cur |-> 0, epoch |-> 0, pos |-> 0,
   val |-> FALSE, trained |-> {}, passed |-> {}]

Init ==
  /\ pc = "start" /\ goal = "rollout"
  /\ epoch = 0 /\ cur = 0 /\ steps = 0 /\ pos = 0
  /\ cache = {} /\ gens = 0 /\ selected = {}
  /\ stale = TRUE /\ version = 0 /\ engine = -1
  /\ gpu = Policy /\ awake = {}
  /\ val = FALSE /\ byTimeout = FALSE /\ saved = NoCheckpoint
  /\ trained = {} /\ passed = {}
  /\ restarts = 0 /\ faults = 0
  /\ DeadlineInit

-----------------------------------------------------------------------------
(* Readying the engine: a refit when its weights are stale, else a wake-up *)

\* Where the driver goes to make the engine ready for g.
Ready(g) ==
  /\ goal' = g
  /\ pc' = IF stale THEN "offload" ELSE "settle"

Step(from, to) == pc = from /\ pc' = to

\* refit_policy_generation: policy.offload_before_refit.
OffloadBeforeRefit ==
  /\ Step("offload", "wakeWeights")
  /\ gpu' = gpu \ {"optimizer"}
  /\ UNCHANGED <<goal, epoch, cur, steps, pos, stale, version, engine, awake>>
  /\ UNCHANGED <<sampleVars, runVars, history, bounds, deadlineVars>>

\* prepare_for_generation and finish_generation turn every exception into a
\* FALSE that the loop does not look at: the engine may stay as it was.
Bring(parts) ==
  \/ awake' = parts /\ UNCHANGED faults
  \/ faults < MaxFaults /\ faults' = faults + 1 /\ UNCHANGED awake

\* prepare_for_generation(tags=["weights"]).
WakeWeights ==
  /\ Step("wakeWeights", "transfer")
  /\ Bring(awake \cup {"weights"})
  /\ UNCHANGED <<goal, epoch, cur, steps, pos, stale, version, engine, gpu>>
  /\ UNCHANGED <<sampleVars, runVars, history, restarts, deadlineVars>>

\* The weights are streamed and both sides waited for (see WeightStream.tla).
\* An engine that sleeps cannot take them: the refit raises.
Transfer ==
  /\ Step("transfer", IF "weights" \in awake THEN "settle" ELSE "failed")
  /\ engine' = IF "weights" \in awake THEN version ELSE engine
  /\ UNCHANGED <<goal, epoch, cur, steps, pos, stale, version, gpu, awake>>
  /\ UNCHANGED <<sampleVars, runVars, history, bounds, deadlineVars>>

\* Mutant: only the model is moved away.
OffloadModelOnly ==
  /\ Step("settle", IF stale THEN "wakeCache" ELSE "wakeAll")
  /\ gpu' = gpu \ {"model"}
  /\ UNCHANGED <<goal, epoch, cur, steps, pos, stale, version, engine, awake>>
  /\ UNCHANGED <<sampleVars, runVars, history, bounds, deadlineVars>>

\* policy.offload_after_refit, after a refit or instead of one.
OffloadAfterRefit ==
  /\ Step("settle", IF stale THEN "wakeCache" ELSE "wakeAll")
  /\ gpu' = {}
  /\ UNCHANGED <<goal, epoch, cur, steps, pos, stale, version, engine, awake>>
  /\ UNCHANGED <<sampleVars, runVars, history, bounds, deadlineVars>>

\* prepare_for_generation: the cache after a refit, everything without one.
Wake ==
  /\ \/ pc = "wakeCache" /\ Bring(awake \cup {"kv_cache"})
     \/ pc = "wakeAll" /\ Bring(Engine)
  /\ stale' = FALSE
  /\ pc' = goal
  /\ UNCHANGED <<goal, epoch, cur, steps, pos, version, engine, gpu>>
  /\ UNCHANGED <<sampleVars, runVars, history, restarts, deadlineVars>>

-----------------------------------------------------------------------------
(* The loop *)

\* Validation before the first step of an epoch.
Start ==
  /\ pc = "start"
  /\ IF ValAtStart /\ cur = 0 THEN Ready("validation")
                              ELSE pc' = "epoch" /\ UNCHANGED goal
  /\ UNCHANGED <<epoch, cur, steps, pos, sampleVars, memoryVars>>
  /\ UNCHANGED <<runVars, history, bounds, deadlineVars>>

BeginEpoch ==
  /\ pc = "epoch" /\ epoch < MaxEpochs /\ steps < MaxSteps
  /\ cache' = {} /\ gens' = 0
  /\ pc' = "batch"
  /\ passed' = passed \cup cache
  /\ UNCHANGED <<goal, epoch, cur, steps, pos, selected, trained>>
  /\ UNCHANGED <<memoryVars, runVars, bounds, deadlineVars>>

EndRun ==
  /\ pc = "epoch" /\ (epoch >= MaxEpochs \/ steps >= MaxSteps)
  /\ pc' = "done"
  /\ UNCHANGED <<goal, epoch, cur, steps, pos, sampleVars, memoryVars>>
  /\ UNCHANGED <<runVars, history, bounds, deadlineVars>>

NextBatch ==
  /\ pc = "batch" /\ pos < EpochLen
  /\ pos' = pos + 1
  /\ val' = FALSE
  /\ Ready("rollout")
  /\ UNCHANGED <<epoch, cur, steps, sampleVars, memoryVars, byTimeout, saved>>
  /\ UNCHANGED <<history, bounds, deadlineVars>>

\* The dataloader is exhausted; it starts again with the next epoch.
EndEpoch ==
  /\ pc = "batch" /\ pos = EpochLen
  /\ epoch' = epoch + 1 /\ cur' = 0 /\ pos' = 0
  /\ pc' = "epoch"
  /\ UNCHANGED <<goal, steps, sampleVars, memoryVars, runVars, history>>
  /\ UNCHANGED <<bounds, deadlineVars>>

\* A rollout of the whole batch, which takes time; then the engine sleeps.  An
\* engine that was not woken cannot generate.
Rollout(d) ==
  /\ Step("rollout", IF awake = Engine THEN "filter" ELSE "failed")
  /\ gens' = gens + 1
  /\ Elapse(d)
  /\ Bring({})
  /\ UNCHANGED <<goal, epoch, cur, steps, pos, cache, selected>>
  /\ UNCHANGED <<stale, version, engine, gpu, runVars, history, restarts>>

-----------------------------------------------------------------------------
(* dynamic_sampling *)

\* The prompts of the batch whose rewards differ, the cached ones before them.
Filtered(kept) == cache \cup kept

\* slice(0, train_prompts_size): the first prompts, in the order they came.
IsFirst(s, prompts) ==
  /\ Cardinality(s) = PromptsPerStep
  /\ \A p \in s, q \in prompts \ s : p[2] < q[2]

Enough(kept) == Cardinality(Filtered(kept)) >= PromptsPerStep

Complete(kept) ==
  /\ Enough(kept)
  /\ cache' = Filtered(kept)
  /\ selected' \in {s \in SUBSET Filtered(kept) : IsFirst(s, Filtered(kept))}
  /\ passed' = passed \cup (Batch(epoch, pos) \ kept)
  /\ pc' = "logprobs"

\* Too few: keep them and take another batch.
Incomplete(kept) ==
  /\ ~Enough(kept) /\ gens <= MaxGenBatches
  /\ cache' = Filtered(kept)
  /\ passed' = passed \cup (Batch(epoch, pos) \ kept)
  /\ pc' = "batch"
  /\ UNCHANGED selected

\* Too few after too many batches: ValueError.
Exhausted(kept) ==
  /\ ~Enough(kept) /\ gens > MaxGenBatches
  /\ pc' = "failed"
  /\ UNCHANGED <<cache, selected, passed>>

Whole ==
  /\ selected' = Batch(epoch, pos)
  /\ pc' = "logprobs"
  /\ UNCHANGED <<cache, passed>>

Filter ==
  /\ pc = "filter"
  /\ IF DynamicSampling
     THEN \E kept \in SUBSET Batch(epoch, pos) :
            Complete(kept) \/ Incomplete(kept) \/ Exhausted(kept)
     ELSE Whole
  /\ UNCHANGED <<goal, epoch, cur, steps, pos, gens, memoryVars, runVars>>
  /\ UNCHANGED <<trained, bounds, deadlineVars>>

-----------------------------------------------------------------------------
(* Training, validation, checkpoint *)

\* prepare_for_lp_inference and the log-probabilities.
Logprobs ==
  /\ Step("logprobs", "training")
  /\ gpu' = (gpu \cup {"model"}) \ (IF OffloadForLogprob THEN {"optimizer"} ELSE {})
  /\ UNCHANGED <<goal, epoch, cur, steps, pos, stale, version, engine, awake>>
  /\ UNCHANGED <<sampleVars, runVars, history, bounds, deadlineVars>>

\* Mutant: the flag is not raised when the weights change.
TrainStaysFresh ==
  /\ Step("training", "trained")
  /\ gpu' = Policy
  /\ version' = version + 1
  /\ trained' = trained \cup selected
  /\ UNCHANGED <<goal, epoch, cur, steps, pos, stale, engine, awake, passed>>
  /\ UNCHANGED <<sampleVars, runVars, bounds, deadlineVars>>

\* prepare_for_training and policy.train.
Train ==
  /\ Step("training", "trained")
  /\ gpu' = Policy
  /\ stale' = TRUE
  /\ version' = version + 1
  /\ trained' = trained \cup selected
  /\ UNCHANGED <<goal, epoch, cur, steps, pos, engine, awake, passed>>
  /\ UNCHANGED <<sampleVars, runVars, bounds, deadlineVars>>

IsLastStep ==
  \/ steps + 1 >= MaxSteps
  \/ epoch + 1 = MaxEpochs /\ cur + 1 = EpochLen

ValidationDue ==
  \/ ValPeriod > 0 /\ (steps + 1) % ValPeriod = 0
  \/ ValAtEnd /\ IsLastStep

AfterTraining ==
  /\ pc = "trained"
  /\ IF ValidationDue THEN Ready("validation")
                      ELSE pc' = "finish" /\ UNCHANGED goal
  /\ UNCHANGED <<epoch, cur, steps, pos, sampleVars, memoryVars>>
  /\ UNCHANGED <<runVars, history, bounds, deadlineVars>>

\* At the start (no step is being made) the metrics are only logged.
Validate ==
  /\ Step("validation", IF awake # Engine THEN "failed"
                        ELSE IF selected = {} THEN "epoch" ELSE "finish")
  /\ val' = (selected # {})
  /\ Bring({})
  /\ UNCHANGED <<goal, epoch, cur, steps, pos, stale, version, engine, gpu>>
  /\ UNCHANGED <<sampleVars, byTimeout, saved, history, restarts, deadlineVars>>

\* The deadline is asked on every step, also on those saved anyway.
Finish ==
  /\ pc = "finish"
  /\ MarkAndCheck
  /\ byTimeout' = CheckSave
  /\ pc' = IF IsLastStep \/ (steps + 1) % SavePeriod = 0 \/ CheckSave
           THEN "save" ELSE "next"
  /\ UNCHANGED <<goal, epoch, cur, steps, pos, sampleVars, memoryVars>>
  /\ UNCHANGED <<val, saved, history, bounds>>

\* Mutant: the dataloader's state is saved as of the batch before.
SaveOneBehind ==
  /\ Step("save", "next")
  /\ gpu' = Policy
  /\ saved' = [steps |-> steps + 1, cur |-> cur + 1, epoch |-> epoch, pos |-> pos - 1,
               val |-> val, trained |-> trained,
               passed |-> passed \cup (cache \ selected)]
  /\ UNCHANGED <<goal, epoch, cur, steps, pos, stale, version, engine, awake>>
  /\ UNCHANGED <<sampleVars, val, byTimeout, history, bounds, deadlineVars>>

Save ==
  /\ Step("save", "next")
  /\ gpu' = Policy
  /\ saved' = [steps |-> steps + 1, cur |-> cur + 1, epoch |-> epoch, pos |-> pos,
               val |-> val, trained |-> trained,
               passed |-> passed \cup (cache \ selected)]
  /\ UNCHANGED <<goal, epoch, cur, steps, pos, stale, version, engine, awake>>
  /\ UNCHANGED <<sampleVars, val, byTimeout, history, bounds, deadlineVars>>

\* Mutant: the cache is not reset after a step.
NextStepKeepsCache ==
  /\ pc = "next"
  /\ gens' = 0 /\ selected' = {}
  /\ passed' = passed \cup (cache \ selected)
  /\ cur' = cur + 1 /\ steps' = steps + 1
  /\ pc' = IF byTimeout \/ steps + 1 >= MaxSteps THEN "done" ELSE "batch"
  /\ UNCHANGED <<goal, epoch, pos, memoryVars, runVars, trained, bounds, deadlineVars>>
  /\ UNCHANGED cache

\* Mutant: the number of batches is not reset after a step.
NextStepKeepsCount ==
  /\ pc = "next"
  /\ cache' = {} /\ selected' = {}
  /\ passed' = passed \cup (cache \ selected)
  /\ cur' = cur + 1 /\ steps' = steps + 1
  /\ pc' = IF byTimeout \/ steps + 1 >= MaxSteps THEN "done" ELSE "batch"
  /\ UNCHANGED <<goal, epoch, pos, memoryVars, runVars, trained, bounds, deadlineVars>>
  /\ UNCHANGED gens

NextStep ==
  /\ pc = "next"
  /\ cache' = {} /\ gens' = 0 /\ selected' = {}
  /\ passed' = passed \cup (cache \ selected)
  /\ cur' = cur + 1 /\ steps' = steps + 1
  /\ pc' = IF byTimeout \/ steps + 1 >= MaxSteps THEN "done" ELSE "batch"
  /\ UNCHANGED <<goal, epoch, pos, memoryVars, runVars, trained, bounds, deadlineVars>>

-----------------------------------------------------------------------------

\* The process dies, or has ended, and is started again: setup loads the latest
\* checkpoint, its weights and the dataloader's state.
Restart ==
  /\ restarts < MaxRestarts
  /\ restarts' = restarts + 1
  /\ pc' = "start" /\ goal' = "rollout"
  /\ epoch' = saved.epoch /\ cur' = saved.cur /\ steps' = saved.steps
  /\ pos' = saved.pos
  /\ cache' = {} /\ gens' = 0 /\ selected' = {}
  /\ stale' = TRUE /\ version' = saved.steps /\ engine' = -1
  /\ gpu' = Policy /\ awake' = {}
  /\ val' = FALSE /\ byTimeout' = FALSE
  /\ trained' = saved.trained /\ passed' = saved.passed
  /\ NewChecker
  /\ UNCHANGED <<saved, faults>>

Driver ==
  \/ Start \/ BeginEpoch \/ EndRun \/ NextBatch \/ EndEpoch
  \/ OffloadBeforeRefit \/ WakeWeights \/ Transfer \/ OffloadAfterRefit \/ Wake
  \/ \E d \in Durations : Rollout(d)
  \/ Filter \/ Logprobs \/ Train \/ AfterTraining \/ Validate
  \/ Finish \/ Save \/ NextStep

Next == Driver \/ Restart

Spec == Init /\ [][Next]_vars

-----------------------------------------------------------------------------
(* Properties *)

LoopType ==
  /\ pc \in Places /\ goal \in {"rollout", "validation"}
  /\ epoch \in 0..MaxEpochs /\ steps \in 0..MaxSteps
  /\ pos \in 0..EpochLen /\ cur \in 0..pos

SampleType ==
  /\ gens \in 0..(MaxGenBatches + 1)
  /\ cache \subseteq Prompts /\ selected \subseteq Prompts
  /\ trained \subseteq Prompts /\ passed \subseteq Prompts

MemoryType ==
  /\ version \in 0..(steps + 1) /\ engine \in -1..version
  /\ gpu \subseteq Policy /\ awake \subseteq Engine /\ stale \in BOOLEAN

RunType ==
  /\ val \in BOOLEAN /\ byTimeout \in BOOLEAN
  /\ restarts \in 0..MaxRestarts /\ faults \in 0..MaxFaults

SavedType ==
  saved \in [steps : 0..MaxSteps, cur : 0..EpochLen, epoch : 0..MaxEpochs,
             pos : 0..EpochLen, val : BOOLEAN,
             trained : SUBSET Prompts, passed : SUBSET Prompts]

TypeOK ==
  LoopType /\ SampleType /\ MemoryType /\ RunType /\ SavedType /\ DeadlineTypeOK

\* Rollouts and validations use the weights of the policy as it is: the flag
\* that decides on a refit is kept right over validations, incomplete batches,
\* saves and restarts.
OnPolicy == pc \in {"rollout", "validation"} => engine = version

\* While nothing failed, training and generation never hold the GPU together:
\* the optimizer is there only while the engine sleeps, the engine's cache only
\* while all of the policy is away.
GpuExclusive ==
  faults = 0 =>
    /\ "optimizer" \in gpu => awake = {}
    /\ "kv_cache" \in awake => gpu = {}

\* Whatever dies when: each prompt handed out was trained on, or passed over, or
\* is in the cache, and only one of these.  The weights, the dataloader's state
\* and the counters of a checkpoint belong together.
Accounted ==
  pc = "batch" =>
    /\ trained \cup passed \cup cache = HandedOut(epoch, pos)
    /\ trained \cap passed = {} /\ trained \cap cache = {} /\ passed \cap cache = {}

\* An optimizer step is made on exactly the prompts of one step, and the
\* policy's weights never saw any of them.
StepsAreFresh ==
  [][version' > version =>
       /\ trained' = trained \cup selected
       /\ trained \cap selected = {}
       /\ Cardinality(selected) = PromptsPerStep]_vars

\* A run stopped for its deadline has just saved, and has begun to save before
\* the deadline if no iteration was longer than the ones before it on average.
DeadlineKept ==
  pc = "done" /\ byTimeout =>
    /\ saved.steps = steps /\ saved.trained = trained
    /\ steady => clock < MustSaveBy

-----------------------------------------------------------------------------
(* What the comments say and the code does not do *)

\* grpo.py:146-147: val_at_end "ensures the final checkpoint has validation
\* metrics".
FinalCheckpointValidated ==
  pc = "done" /\ ~byTimeout /\ ValAtEnd /\ steps > 0 =>
    saved.steps = steps /\ saved.val

\* docs/guides/dapo.md:58: at most dynamic_sampling_max_gen_batches batches are
\* used for a step.
BatchesWithinMax == gens <= MaxGenBatches
=============================================================================
