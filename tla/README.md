# A formal model of NeMo RL

This directory holds TLA+ models of parts of NeMo RL, TLC configurations that check
them on small instances, and theorems about them that TLAPS checks for all instances.
Paths are relative to the repository; `async_utils.py` and `grpo.py` stand for
`nemo_rl/algorithms/async_utils.py` and `nemo_rl/algorithms/grpo.py`, `checkpoint.py` for
`nemo_rl/utils/checkpoint.py`.

    tlc -config AsyncGRPOWait.cfg AsyncGRPOMC.tla     # model-check a configuration
    tlc -config Checkpoint.cfg Checkpoint.tla
    tlc -config WeightStream.cfg WeightStream.tla
    tlc -config SyncGRPO.cfg SyncGRPO.tla
    tlc -config WeightBroadcast.cfg WeightBroadcast.tla
    tlc -config DataDispatch.cfg DataDispatch.tla
    tlc -config Rollouts.cfg Rollouts.tla
    tlapm AsyncGRPOProofs.tla                         # check the proofs
    tlapm CheckpointProofs.tla
    tlapm WeightStreamProofs.tla
    tlapm SyncGRPOProofs.tla
    tlapm WeightBroadcastProofs.tla
    tlapm RolloutsProofs.tla
    tlapm ReplayBufferProofs.tla
    tlapm DataDispatchProofs.tla

`PROJECT.json` lists the components, the runs, the source lines behind each definition,
the hazards of the code and the theorems.

## 1. The system

NeMo RL trains language models by reinforcement learning. A *training loop* (the driver)
owns the step counter; a *policy* holds the weights being trained; a *generation engine*
holds a copy of them and produces rollouts; *refits* carry the weights from the one to the
other; a *checkpoint manager* keeps snapshots from which a run resumes.

| Component | State it keeps | Operations | Talks to | What is hard |
|---|---|---|---|---|
| Replay buffer (`async_utils.py` `ReplayBuffer`) | three parallel lists, last target pushed | push, sample, clear, queries | collector's workers, training loop | positions of three lists kept in step; the window's arithmetic |
| Trajectory collector (`async_utils.py` `AsyncTrajectoryCollector`) | weight version, reserved targets, three events, in-flight threads, permits | one collection thread, a thread per prompt, remote calls | buffer, engine, training loop | threads sharing state under different locks; stale reads; threads not started yet |
| Asynchronous loop (`grpo.py` `async_grpo_train`) | step, weight version | sample, train, refit, validate, save | all of the above, by remote calls, some of them not awaited | order of messages; waiting for each other |
| Synchronous loop (`grpo.py` `grpo_train`, `dynamic_sampling`) | step, epoch, batch cache, staleness flag | generate, filter, train, validate, save | policy, engine, checkpoint manager | cache and counters across batches and epochs; resume |
| Checkpoint manager (`nemo_rl/utils/checkpoint.py`) | directories | create, finalize, remove, find the latest or best | loops, file system | crashes between file operations |
| Deadline (`nemo_rl/utils/timer.py` `TimeoutChecker`) | past iteration times | mark, check | loops | anticipating the next iteration |
| Weight streaming (`nemo_rl/models/policy/utils.py`, `.../vllm/vllm_backend.py`) | two buffers, sockets | pack, send, load, acknowledge | policy worker, engine worker | a buffer overwritten while it is read; a peer that fails |
| Packed broadcast (`nemo_rl/utils/packed_tensor.py`) | buffers in turn | cut, broadcast, unpack | one producer, many consumers | both sides cut the parameter list alone |
| Sequence packing (`nemo_rl/data/packing/`) | none | pack sequences into bins | policy workers | capacity, equal bin counts |
| Batches and shards (`nemo_rl/distributed/batched_data_dict.py`, `named_sharding.py`) | none | shard, reorder, slice | worker groups | order restored after balancing |
| Worker groups, virtual cluster (`nemo_rl/distributed/`) | actors, placement groups | dispatch, collect, place | Ray | retries, partial placement |
| Rollouts (`nemo_rl/experience/rollouts.py`) | per-sample conversation | generate, step the environment | engine, environments | turns of a batch ending at different times; two drivers that should agree |
| SFT, DPO, RM, distillation loops | step, epoch | train, validate, save | policy, checkpoint manager | as the synchronous loop |
| Policy workers, losses, advantages, environments, data sets, logging, launchers | | | | numerical code, I/O and wrappers of external systems |

What makes each of them correct:

- *buffer*: what is sampled is meant for the step and was made by recent weights; the lists
  agree; nothing is lost or returned twice;
- *collector and loop*: each step gets exactly its groups; labels tell the truth about the
  weights; refits and generation exclude each other when they should; nobody waits for ever;
- *checkpoints*: after a crash at any point the latest checkpoint is complete;
- *weight transfer*: every parameter arrives once, whole; a failure on one side is noticed
  by the other;
- *packing and sharding*: every sample lands in exactly one place and comes back in order.

## 2. What is modelled

### The modules

| Module | Models | Extends |
|---|---|---|
| `TrajectoryStore` | the buffer as its clients see it: a set of groups with versions, targets and arrival numbers | |
| `ReplayBuffer` | the buffer as it is written: three lists, selection by position, pops | refines `TrajectoryStore` |
| `ReplayBufferProofs` | theorems | `ReplayBuffer` |
| `TrajectoryCollector` | the collector's threads and remote calls | `TrajectoryStore` |
| `AsyncGRPO` | the training loop, composed with the collector and the store | `TrajectoryCollector` |
| `AsyncGRPOMC` | the symmetry of the workers, for TLC | `AsyncGRPO` |
| `AsyncGRPOProofs` | theorems | `AsyncGRPO` |
| `SnapshotShelf` | what the checkpoint manager promises: whole snapshots on a shelf | |
| `Checkpoint` | saving, pruning, dying and resuming, file by file | refines `SnapshotShelf` |
| `CheckpointProofs` | theorems | `Checkpoint` |
| `WeightStream` | a colocated refit: sender, receiver, GPU copies, driver | |
| `WeightStreamProofs` | theorems | `WeightStream` |
| `Deadline` | `TimeoutChecker`: when the last checkpoint is due | |
| `SyncGRPO` | the synchronous loop: colocated engine, dynamic sampling, validation, saves, restarts | `Deadline` |
| `SyncGRPOProofs` | theorems | `SyncGRPO` |
| `WeightBroadcast` | a refit of engines on GPUs of their own: packed broadcasts among all ranks | |
| `WeightBroadcastProofs` | theorems | `WeightBroadcast` |
| `SequencePacking` | the four packers and the adjustment of the number of bins | |
| `DataDispatch` | a batch on its way to the ranks and back | `SequencePacking` |
| `DataDispatchProofs` | theorems, of the packers too | `DataDispatch` |
| `Rollouts` | the conversations of a batch with its environments, in both drivers | |
| `RolloutsProofs` | theorems | `Rollouts` |

### The replay buffer

`ReplayBuffer` is a Ray actor with a lock around every method, so each call is one step.
`TrajectoryStore` replaces the lists by a set of records; `n`, the arrival number, is the
order of the lists. `Push`, `Full` are `push_with_wait_signal`; `SampleRaises`,
`SampleReady`, `Sample` are the three outcomes of `sample` (ValueError, k groups, and None
when neither holds); `Clear` is `clear`, which training never calls. Module `ReplayBuffer` keeps the three lists,
selects positions as the list comprehensions do and pops them from the last to the first.
Its refinement mapping zips the lists: `ImplementsStore` says that every call is a call of
the store, `AnswersAsPromised` that it returns what the store's state promises.

### The collector

| Variable | Code |
|---|---|
| `cpc`, `local`, `batches` | where the collection thread is, its locals, the dataloader's position |
| `version`, `warned` | `current_weight_version`, `_last_limit_warning_version` |
| `generating` | `_generating_targets`, under `_generation_check_lock` |
| `manualCleared`, `refitCleared`, `limitCleared` | the three `threading.Event`s |
| `running`, `inflight` | `self.running`, `_inflight_threads` under `_threads_lock` |
| `worker` | one entry per permit of `_inflight_sema`: the thread that holds it |
| `mailbox`, `apc` | remote calls not yet taken up; where the actor's thread is |
| `failures` | a bound, not code: rollouts that raised |
| `made`, `dup` | history: targets ever reserved, and reserved more than once |

A step touches shared state once: one call of the buffer, one section under a lock, one
test or change of an event. So the read of the buffer's last target (`BatchLast`) and the
reservation under the lock (`Reserve`) are two steps, as are the decision to pause
(`LimitCheck`, `LimitPause`), the clearing of the event (`LimitClear`) and the wait
(`LimitTest`), the gate (`PromptGate`), the registration of a thread (`Register`) and its
start (`Start`). An `Event.wait` is a place (`...Wait`) that the step setting the event
moves the thread out of: Python's `wait` returns once notified, even if the event is
cleared again at once. Ray runs the actor's calls one at a time in the order one caller
sent them; each is one step, except `set_weight_version` (the write, then the gate) and
`prepare_for_refit` (the gate, then a poll of the pending threads).

A worker is one of `Cardinality(Workers)` = `num_prompts_per_step *
max_trajectory_age_steps` permits. Its rollout is one step that ends or raises; then it
pushes, backing off while the buffer is full, and the first prompt's worker releases the
target; every worker's `finally` clause discards the target's reservation.

### The training loop

`FirstRefit` ... `FinishStep` are `async_grpo_train` in order. `ray.get` of
`prepare_for_refit` is the place "preparing"; `set_weight_version`, `resume_after_refit`,
`pause` and `resume` are sent and not awaited. `engine` is the version of the weights in the
generation engine, -1 before the first refit: the engine starts with dummy weights. A run
ends at `max_num_steps`, at the deadline of `checkpoint_must_save_by` (any step, when
`Deadline` is set), by an exception in the loop (`SampleAborts`, `LoopFails`) or in the
first refit; both actors are killed or dropped then, so nothing moves afterwards (`Live`).

Left out: rewards, advantages, losses and logging (no effect on control), the saving of
checkpoints, KV-cache invalidation in `resume_after_refit` (no effect on this state),
`max_trajectory_age_steps = 0` (the assumptions require 1), a policy that generates for
itself (`NEED_REFIT` false: the asynchronous loop refuses colocated generation).

### Checkpoints

`Checkpoint` is the checkpoint manager together with the block of the training loops that
saves with it and the setup that resumes from it. Its state is memory, which a process
that ends loses, and the disk, which stays:

| Variable | Code |
|---|---|
| `pc`, `file` | the operation on files that is next, and its file |
| `trained`, `stopping` | `total_steps`; the save is the run's last act |
| `saveOptimizer` | `save_optimizer` of the run's configuration |
| `doomed` | what `remove_old_checkpoints` has still to remove of its sorted list |
| `tmpDir`, `stepDirs`, `stepDir` | the directories `tmp_step_N` and `step_N` |
| `metric` | the metric in the training info of a step |
| `run`, `saved` | history: which run this is, which checkpoints were ever finalized |

A file is absent, torn, or complete, and then carries the run that wrote it. One step is one
operation on files: opening a file (`Open`), completing it (`Write`), the rename, reading the
list of checkpoints (`List`), removing one file (`RemoveFile`, in any order, as `rmtree`
does), removing the emptied directory (`RemoveDir`). `Crash` is possible between any two of
them, `Start` begins the next run from the directory with the highest number, whatever is in
it, as `get_latest_checkpoint_path` does. `Train` decides to save as `should_save_by_step` and
`should_save_by_timeout` do; a step may turn out to be the last of its run.

Abstractions: four files stand for the checkpoint; the tokenizer and `config.yaml` are
left out, the weights (and the optimizer) are one item that may be torn. The model's metrics
are higher-is-better, the other setting is the same with the order reversed; a missing metric
ranks last, as 0. `keep_top_k: None` is a `KeepTopK` no smaller than `MaxStep`. A death is that
of the process: what was written stays written, so the missing `fsync` of a power failure does
not show. `policy.save_checkpoint` returns when the files are written; the Automodel
checkpointer's `is_async` is a library outside the repository. The branch of
`finalize_checkpoint` for an existing `step_N` is left out because `StepIsNew`, checked in
every state before the rename, says it is never taken.

`SnapshotShelf` has two operations: `Save` puts a later snapshot on the shelf, `Leave` takes one
off that ranks after `KeepTopK` of all ever saved while a later one stays. In the refinement
the shelf is the set of whole directories: a rename is a `Save`, the first file removed a
`Leave`, everything else, crashes included, a stutter.

### Weight streaming

`WeightStream` is a refit of an engine that shares its GPUs with the policy: one policy worker,
the engine worker on the same GPU, and `refit_policy_generation`, which waits for both.

| Variable | Code |
|---|---|
| `spc`, `next`, `first`, `used`, `current`, `awaitRecv` | locals of `stream_weights_via_ipc_zmq_impl`: the generator's position, `param_names`, `used_bytes`, `current_buffer`, `await_recv` |
| `buffer`, `copying` | the two buffers, byte by byte; `copy_(non_blocking=True)` calls that are queued |
| `request`, `reply` | the message, or the ACK, that is under way between the REQ and the REP socket |
| `rpc`, `group`, `key`, `offset`, `views` | locals of `update_weights_via_ipc_zmq` |
| `loading`, `model` | copies that `load_weights` queued; the version of each parameter in the engine |
| `outcome`, `refit` | `update_success`; which refit this is, and the version of the weights |
| `size`, `place` | sizes of the parameters; history: where each was packed |

The CPU does not wait for the GPU: `Pack` and `LoadWeights` queue copies, `CopyIn` and `CopyOut`
do them later, one at a time and in any order (weaker than the order of one stream, so that the
properties do not lean on it), until `synchronize()` finds none left. One step of the sender or
receiver is what it does between two of its waits, or one turn of its loop. A byte records the
parameter and refit it comes from, so a buffer overwritten too early, an offset that is off, or a
copy too late show as a parameter that is not whole (`model[p] = -1`). Either side may fail: the
generator raises or a parameter is too large (`SenderFails`), anything in the receiver raises
(`ReceiverFails`, which answers nothing), a wait of two minutes ends (`SenderTimeout`, possible
while the answer is still under way). After a failed refit the run ends.

Left out: the workers of one refit depend on each other (parameters are all-gathered as they are
generated), which a single pair cannot show; the conversions of FP8, draft and transposed weights inside
`load_weights`; the HTTP path of SGLang. `finally` deletes the sender's buffers: PyTorch counts
the references that another process holds through an IPC handle, so their memory is not modelled
as reused.

### The synchronous loop

`SyncGRPO` is `grpo_train` with `dynamic_sampling`, `refit_policy_generation` for an engine on the
policy's GPUs, and the `setup` that resumes. One process runs it; what interleaves with it is its
death.

| Variable | Code |
|---|---|
| `epoch`, `cur`, `steps`, `pos` | `current_epoch`, `current_step`, `total_steps`; the position of the dataloader |
| `cache`, `gens`, `selected` | `batch_cache`, `dynamic_sampling_num_gen_batches`, the prompts of the step |
| `stale` | `POLICY_GENERATION_STALE` |
| `version`, `engine` | optimizer steps in the policy's weights and in the engine's |
| `gpu`, `awake` | what of the policy and of the engine is on the GPU |
| `val`, `byTimeout`, `saved` | `val_metrics is not None`, `should_save_by_timeout`, the last checkpoint |
| `clock`, `marked`, `iterations`, `lastSaved` | `TimeoutChecker` (module `Deadline`) |
| `trained`, `passed`, `steady` | history: prompts trained on, prompts passed over, whether iterations grew |

A prompt is a pair of an epoch and a place in its order; the samples of a prompt stand or fall
together, since dynamic sampling looks at the standard deviation of their rewards. `Ready` is the
choice between a refit and a wake-up, which the code repeats before each rollout and each
validation; `OffloadBeforeRefit`, `WakeWeights`, `Transfer`, `OffloadAfterRefit` and `Wake` are the
steps of it. `Bring` is a call of `prepare_for_generation` or `finish_generation`: both turn any
exception into a FALSE nobody looks at, so the engine may stay as it was; a refit or a rollout with
a sleeping engine then raises. `Complete`, `Incomplete` and `Exhausted` are the outcomes of
`dynamic_sampling`. `Restart` is possible at every moment and takes everything from the last
checkpoint; a save is one step, since `Checkpoint` shows that resuming finds it whole.

Time passes in rollouts, which take one of the `Durations`; the checker computes with sums instead
of averages, so that integers suffice (`Due`).

Left out: an engine that is not colocated (its refit is `WeightBroadcast`), FP8 scales, several
dataloaders, and checkpointing switched off.

### Packed broadcast

`WeightBroadcast` has the policy's workers and the ranks of all engines as members of one NCCL group.
Each cuts the list of parameters into groups on its own: `target[m]` is what
`get_target_packed_tensor_size` returned on m's GPU. A member queues its broadcasts in order
(`Pack`, `groups`), on the stream of the buffer whose turn it is, once that stream is empty
(`Synchronized`); `Deliver` is the next broadcast, which needs everybody; `Load` a rank's copies out
of a group, queued on the same stream. A rank that cannot load answers FALSE (`PackFails`); of an
engine's ranks the driver looks at one (`First`), so a failure may be swallowed, and the next refit's
broadcasts are then matched with others'. After a failed refit the run ends.

Left out: sending in the workers other than the policy's rank 0 is joining the broadcasts; the
generation of parameters (all-gathers) is assumed to end.

### Packing and dispatch

`SequencePacking` runs a packer on the padded lengths of one chunk of a batch, one action per turn
of the code's loops: `Fit` for the concatenative and first-fit packers (`NextUp` is their order,
any order after the shuffle), `OpenLarge` to `Spread` for the five phases of the modified one,
`Adjust` for `_adjust_bin_count`. The model's sorting is that of Python: stable, and by index where
the code sorts pairs. Its bins were compared with those of the Python packers: all 15,552
combinations of packer, lengths and ranks of the run give the same bins (the shuffled one: one of
the orders).

`DataDispatch` is what `Policy.train`, `Policy.get_logprobs` and `VllmGeneration.generate` do with
the rows of a batch: `shard_by_batch_size` (`Enter` to `ShardBins`, or `ShardRanges`), the call of the
workers (`Dispatch`), the workers' loop over global batches and microbatches (`Forward`,
`NextGlobalBatch`), or the engines' generation (`Generate`), and the results in the caller's order
(`Collect`). `packed` is `all_chunk_bin_assignments`; `shard` the rows of each shard; `micro` the
`micro_batch_indices`; `order` the `batch_sorted_indices`; `seen` what each rank computed. A call
that an assertion or a ValueError stops is "refused".

Forward passes of the ranks go together, as their collectives make them. Dummy microbatches are part
of `Forward` although `SameRounds` says there are none. Rows are numbers; the tensors, padding
values and token budgets below a row are left out. Context parallelism replicates rows as tensor
parallelism does and has no constant of its own.

### Rollouts

`Rollouts` is `run_multi_turn_rollout` (`Batched`) or `run_async_multi_turn_rollout` (`Async`), chosen
at the start (`driver`). In the trainers and in the collector a rollout is one step that ends or
raises; this module is what happens inside.

| Variable | Code |
|---|---|
| `log`, `len`, `reward`, `info`, `stops` | per sample: `message_log`, its tokens, `total_reward`, `extra_env_info`, stop strings |
| `turns`, `truncated`, `terminated` | `sample_turn_counts` or `turn_count`, `sample_truncated`, `sample_terminated` |
| `active`, `row` | `active_indices`, the position in a loop over it; in the async driver the coroutines that run |
| `answers`, `cut` | `env_output`, `truncation_mask`, both by position in `active_indices` |
| `failed`, `over` | history: the engine raised for the sample; the turn in which the environment said it is over |

A message or a reward is the sample and turn it belongs to, so that feedback that goes astray shows;
a text is a number of tokens. `CalculateRewards` groups the rows by task in the order of their first
appearance, collects answers group by group and sorts them back (`IndicesOrder`,
`SortedIndices`). `Generate` and `Observe` take one row at a time, as the loops do; `Compact` shrinks
the arrays. `SampleTurn` is a whole turn of a coroutine: between the engine's response and the next
request nothing is awaited, `calculate_rewards` blocks the event loop. An exception of the engine
ends one sample in the async driver (`GenerationFails`) and the rollout in the other (`Raise`).

The drivers differ where the code does: a response at `max_new_tokens` ends the conversation in the
async one only; stop strings that an environment does not repeat are forgotten in the batched one
and kept in the other.

Left out: several components of a reward (as one), metrics, multimodal fields, and
`run_async_nemo_gym_rollout`, which leaves the conversation to an external service.

## 3. Properties

Every property is stated with its comment in the module; the important ones:

- `AgeWindow`: every group not trained on yet has `tgt <= ver + MaxAge` and `ver <=`
  the policy's and the engine's version. Labels pass through a thread's locals, across
  refits, through workers and the buffer.
- `LeftoverMeansDuplicate`: a group outlives its step only if its target was reserved
  twice. Together with `AgeWindow` it says that the buffer's ValueError, which ends the run,
  comes from a double reservation and nothing else.
- `BackPressureMeansDuplicate`: the buffer's size (`late_arrival_slack = 2`) is enough: a
  push meets a full buffer only after a double reservation.
- `ReservationHasWork`: a reserved target has the collection thread or a live worker.
- `LagsBehindShutGate`: the collector lags the trainer by at most one version, and only
  behind a shut refit gate: the order of the two unawaited calls matters.
- `RacingGenerationsBounded`: generations that a refit meets although it waited are at most
  `MaxAge`.
- `RefitStarts`, `ReservedTargetTrained`: progress of the refit and of a step whose target
  was reserved.
- `ImplementsStore`, `AnswersAsPromised`: the lists do what the store promises.
- `LatestIsWhole`: wherever the job died, the directory that is resumed from is complete and
  its files come from one run, although it is chosen by its name alone, half-removed
  directories are around, and a new attempt writes into the directory of the last one.
- `TopIsWhole`: the `KeepTopK` best checkpoints ever saved are whole, although every pruning
  ranks only what earlier ones, some of them interrupted, left.
- `SpaceBounded`: what survives a completed save is bounded: `KeepTopK + 1` checkpoints and,
  for each earlier run, at most one directory that lost its training info in an
  interrupted removal. Such a directory is never removed: no later pruning sees it.
- `LossBounded`: how many steps a crash may cost.
- `StepIsNew`: no loop saves a step twice, so the pair of renames is not relied upon.
- `ImplementsShelf`: all of it together is the shelf of snapshots.
- `BuffersExclusive`, `LoadsWhatWasPacked`: a buffer is not filled while the engine reads it or
  is about to, and each parameter arrives whole and in this refit's version: two queues of copies,
  two buffers and one answer that lags by a group keep their order.
- `OffsetsAgree`: both sides, adding up aligned sizes on their own, end at the same offset.
- `RequestsInTurn`: the sender never sends while a message is unanswered, as a REQ socket demands.
- `DoneMeansLoaded`: a refit counts as done only if the last parameter arrived and the engine
  worker finished what follows the last answer.
- `RefitEnds` (streaming): a refit ends although the other side may be gone.
- `BroadcastsEnd`: a refit by broadcasts ends unless a rank fails to load: nobody waits for a
  broadcast that another member never makes.
- `OnPolicy`: rollouts and validations use the policy's weights, although a flag decides on refits
  that is set and reset in four places and on restarts, and errors of the engine are ignored.
- `GpuExclusive`: the order of offloads and wake-ups never has policy and engine on the GPU together.
- `Accounted`: after deaths at any point the checkpoint's weights, counters and dataloader position
  belong together: no prompt handed out is trained on twice or lost.
- `StepsAreFresh`: a step has exactly its number of prompts, none seen before: cache, counter and
  slice of dynamic sampling over batches and epochs.
- `DeadlineKept`: a run stopped for its deadline has saved its last step, in time unless iterations
  grew.
- `GroupsAgree`: cut by each member alone, and with groups delivered later than queued, the k-th
  broadcast means the same parameters of the same refit to all, until a failure is swallowed.
- `TailBounded`: the consumer returns with copies still queued; they are at most one group per buffer.
- `EachRowOnce`: loops that pop from one list and append to another neither lose nor double a row
  (`EachInOneBin`), and offsets within bins, chunks and shards agree (`SeenInItsBatch`, `AllSeen`).
- `NoTwoBinsMerge`: packing is not wasteful: two bins never fit in one.
- `RanksInStep`: ranks do equally many microbatches, none empty, none too large, and
  `_adjust_bin_count` never raises the error that calls itself a bug. Megatron's schedule has no
  dummy microbatches and relies on it.
- `RowsComeBack`: results are in the caller's order, whatever was sorted, packed or dealt.
- `OwnConversation`: rewards, observations, metadata and stop strings reach the sample whose response
  earned them, once a turn, through grouping, sorting and arrays that shrink.
- `RoomToGenerate`: after the first turn nobody speaks into a full context, and none overflows.
- `EndsForAReason`: an episode ends when the environment says so and not later, or was cut off by a
  limit or the engine; a full context is always on record as truncated.

## 4. Runs

| Run | Instance | Shows |
|---|---|---|
| `async_wait` | 2 prompts, window 1, 2 workers, 4 batches, 3 steps, at most 1 failure | the safety properties, with refits that wait |
| `async_in_flight` | 1 prompt, window 2, 2 workers, 4 batches, steps 1 to 4, at most 1 failure, validation, deadline | labels, with in-flight updates and a resumed run |
| `async_live` | 2 prompts, window 1, 3 batches, 2 steps, no failure, first validation, fairness | the two liveness properties |
| `replay_buffer` | 3 places, 4 pushes, versions 0 to 2 | refinement and answers |
| `checkpoint` | 4 steps, 3 runs, save_period 2, keep_top_k 1, metric missing or 1 | the properties of checkpoints and the refinement |
| `weight_stream` | 4 parameters of 1, 3, 5 or 7 bytes, alignment 2, buffers of 7 bytes, 2 refits, fairness | the properties of weight streaming |
| `sync_grpo` | steps of 2 prompts from batches of 2, 2 epochs of 3 batches, 4 steps, validation and save every 2, deadline 7, 2 restarts, 1 fault | the properties of the synchronous loop |
| `weight_broadcast` | 1 trainer, 2 ranks of 1 engine, 3 parameters of 1 or 2 bytes, targets 1 or 3, 2 buffers, 2 refits, 1 fault, fairness | the properties of the broadcast |
| `data_dispatch` | 4 rows of 3 to 39 tokens, bins of 38, padding to 2, global batches of 2 or 4, 2 to 4 shards, all packers | the properties of packing and dispatch |
| `rollouts` | 3 samples of 2 tasks, 3 turns, context of 4 tokens, responses of 1 or 2, observations of 0 or 1 | the properties of rollouts |
| `refit_meets_generation` | 1 prompt, window 1 | a refit meets a rollout (a violation) |
| `missed_target_stalls` | 1 prompt, window 1, 6 batches, fairness | training polls for ever (a violation) |

*Bounds.* Two prompts are the least for which a batch has a first and another prompt (the
first one's worker releases the target); two workers let one run ahead of the other; window 2
gives a choice of targets. Three steps let a group survive its step, age and be met by
`sample`; four batches are one more than the steps, so that a double reservation has a batch
to spend. One failure reaches every exception path; failures are independent of each other.
In the buffer, four pushes into three places fill it, and refill it after a sample. Constants
are small because the collector alone has some 20 places interleaved with the workers';
the safety runs visit about a million and two million states. The proofs cover the rest
for the properties they state.

For checkpoints: with four steps, each of which may be a run's last, up to four checkpoints
are saved, so that the best, the latest and one to remove differ and removals follow each
other; three runs allow a crash, a crash while repairing what it left, and a resume; period 2
has steps that are not saved; a metric and its absence give ties and both orders. The proofs
cover other values.

For weight streaming: four parameters make up to four groups, so that both buffers are used
again; a half of 7 bytes is not a multiple of the alignment, so that 3 + 3 bytes do not fit although
they are fewer, and a parameter of 7 is too large; all 256 combinations of sizes are initial states.
The second refit meets sockets and buffers as the first left them. The proofs cover the rest.

For the synchronous loop: a batch may yield 0, 1 or 2 prompts for a step of 2, so a step takes one to
three batches and a cache crosses the end of an epoch; a maximum of 1 batch is exceeded; two restarts
allow a death after a resume; the deadline falls within the run. For the broadcast: targets of 1 and
3 make one to three groups, so that buffers are used again, and all combinations of targets are
initial states; the rank that is not looked at may fail. For packing: of 38 tokens, 19 padded to 20
is just more than half (large), 18 is medium, 8 and 9 (padded to 10) are small, 3 (padded to 4) is
tiny, 39 is too long; four shards make more bins than sequences need, three do not divide the batch.

For rollouts: three samples of two tasks give every order of groups that needs sorting; three turns
shrink the arrays twice; a context of 4 tokens is filled exactly, overfilled and left with
room; a prompt of 4 fills it from the start.

Four more configurations are kept beside the runs: `AsyncGRPOStale.cfg`, `AsyncGRPOLabel.cfg` (module
`AsyncGRPOMC`), `CheckpointMixed.cfg` (module `Checkpoint`) and `SyncGRPOFinal.cfg` (module `SyncGRPO`)
have TLC show the disagreements 1, 3, 5 and 6 of section 5; each ends with a violation.

*Symmetry.* `async_wait` and `async_in_flight` use the workers' symmetry: they are permits,
told apart by nothing. The run with temporal properties does not.

*Deadlock* is checked in `data_dispatch`, where a call may rest only when it was answered or refused.
It is not checked elsewhere: the system really stops. A run ends ("done", "aborted"), and a
collector whose batches are used up leaves a trainer polling, which is a stuttering step of
the model; a job that is not started again stays down; a rollout returns or raises. `RefitStarts` and `ReservedTargetTrained` are the statements about being stuck.

*Fairness.* `WF` of the collection thread, of each worker thread, of the actor's thread and
of the training loop, each on its own: they are operating-system threads of three Ray
processes. A rollout, a training step and a weight transfer are assumed to end. Nothing is
assumed about relative speed, which is what the violations turn on. No strong fairness is
needed: a semaphore permit is waited for by one thread only, the collection thread, and a
worker that polls a full buffer is blocked by the training loop alone.

For weight streaming: `WF` of the sender, the receiver, the GPU and the driver. The sender's
timeout is part of its fairness, so it gives up on a receiver that is gone; `SenderFails` is not,
except for a parameter that is too large, and nothing makes the receiver fail. Generating a
parameter is assumed to end.

For the broadcast: `WF` of each member, of the devices and of the driver; nothing makes a load fail.

*Exemptions.* `GroupsAgree` and `BroadcastsEnd` assume GPUs alike: on different ones the
target sizes differ and so may the groups. `RefitStarts` exempts runs with a double reservation: with a full buffer the
training loop waits for the pending generations, they wait for room and nobody makes room.
`ReservedTargetTrained` exempts a collector whose dataloader ended, which makes workers drop
their groups (`while self.running`).

## 5. Where code and documents differ

1. *Stale groups end the run* (`AsyncGRPOStale.cfg`). The guide says they are discarded. `sample`
   raises, and the training loop's `except` turns that into a silent end. The way there is
   the read of the last target before `_generation_check_lock` is taken.
2. *A refit that waits may still meet a generation* (`refit_meets_generation`): the prompt was
   past the gate and its thread not started, and `is_alive()` is False for such a thread.
3. *The first groups may come from an engine without weights* (`AsyncGRPOLabel.cfg`):
   collection starts before the first refit.
4. *A missed target stalls training for ever* (`missed_target_stalls`): a weight update that
   comes while the collection thread goes to sleep is lost.
5. *An optimizer that was not saved* (`CheckpointMixed.cfg`). `get_resume_paths` promises no
   optimizer path when the optimizer was not saved. A run that dies while it saves the
   optimizer leaves it in `tmp_step_N`; if `save_optimizer` is then turned off, the next run
   writes into this directory and finalizes it with the leftover.
6. *The last checkpoint is not made* (`SyncGRPOFinal.cfg`). `val_at_end` promises that the final
   checkpoint has validation metrics. The last step is recognised by `current_step + 1 ==
   len(wrapped_dataloader)`; with dynamic sampling a step takes several batches and
   the epoch ends at a smaller step, so the run may end without validating or saving.
7. *One batch too many* (no run). `dynamic_sampling_max_gen_batches` is documented as the maximum of
   batches of a step. The test is `<=`: the error is raised one batch later.
8. *A refit that succeeds although a rank failed* (no run). "Check if update is successful"
   looks at the first result of each engine; another rank's FALSE goes unseen, and the group it
   did not join meets the broadcasts of the next refit.
9. *Dummy microbatches that never are* (no run). A comment explains them by unequal counts of the
   ranks, which `RanksInStep` excludes since the packer makes a multiple of the ranks.
10. *Natural ends that are cuts* (no run). `terminateds` is documented as episodes that ended
   naturally. The batched rollout adds the samples whose observation was cut off, so its
   `natural_termination_rate` counts them (`Rollouts.NaturalMeansTerminated` is false).

## 6. Proofs

`AsyncGRPOProofs` proves, for every number of prompts, window, worker set, start step,
batches, failures and steps allowed by the assumptions `MaxSizeAssumption`,
`CollectorAssumption` and `TrainerAssumption`:

| Theorem | Property | Argument |
|---|---|---|
| `TypeCorrect` | `TypeOK` | inductive as it stands; one lemma per process |
| `SyncInvariant`, `GateShutWhileLagging` | `LagsBehindShutGate` | needs the mailbox: while the collector lags, `set_weight_version` is the first call in it; a refit begins only with the mailbox empty and the gate shut; that because `prepare_for_refit` is the last call sent before the loop waits (`SyncInv`) |
| `AgeInvariant`, `LabelsWithinWindow` | `AgeWindow` | the version the thread read never exceeds the collector's, nor that the trainer's (from `SyncInv`); reading it again only brings a label closer to its target (`AgeInv`) |
| `OnlyLeftoversAreTooOld` | | ValueError is raised only for a group whose step is over: what is in the buffer for the current or a later step lies in the window |
| `ReservationsHaveWork` | `ReservationHasWork` | a registered worker that is not started is the one the collection thread is about to start, for the target it reserved (`ReservationInv`) |

The second half of `AsyncGRPOProofs` counts groups and generations, under the same assumptions and from
the invariants above:

| Theorem | Property | Argument |
|---|---|---|
| `CountInvariant` | | the inductive invariant `CountInv`: a target reserved once has at most as many groups, stored or carried, as the collection thread has created workers for it; a step that samples takes `NumPrompts` groups, which is all of them, and none can follow |
| `LeftoversAreDuplicates` | `LeftoverMeansDuplicate` | part of `CountInv`: of a step that has sampled, a target reserved once has no group left |
| `ErrorsAreDuplicates` | | what `sample` raises for is such a leftover |
| `BackPressureIsDuplicate` | `BackPressureMeansDuplicate` | the stored groups, ranked by target and by number, inject into the targets of the window times the ranks, less the place of the worker that pushes; so they are fewer than `MaxSize` |
| `MissedInvariant` | | `prepare_for_refit` is the last call before a refit (`DrainInv`); each refit misses at most one worker, the one whose prompt was past the gate, and its target is within the window of that refit: so at most `weightVersion + MaxAge - t` missed workers have a target from `t` on, and one more during a refit that has missed its own (`OnePerRefit`) |
| `RacingIsBounded` | `RacingGenerationsBounded` | `OnePerRefit` for `t = weightVersion + 1`: with no double reservation a step that has sampled has no group left (`CountInv`), so every generation under way during the refit is one with a later target |

`CheckpointProofs` proves, for every number of steps and runs, period, `keep_top_k` and set of
metrics allowed by `CheckpointAssumption`, and for jobs that do not change `save_optimizer`
from one run to the next (`~ConfigChanges`, without which `LatestIsWhole` is false as
`CheckpointMixed.cfg` shows):

| Theorem | Property | Argument |
|---|---|---|
| `IInvariant` | | the inductive invariant `IInv`: the files written so far are this run's (`Building`, `BuiltWhole`); no optimizer is around that is not to be saved (`NoForeignOptimizer`); the highest directory is whole (`Newest`) and not ahead of the run (`Ahead`); what is doomed is older than it and outside the top of all ever saved (`DoomedInv`); nothing ever saved is later than all that is left (`SavedInv`) |
| `TypeCorrect` | `TypeOK` | part of `IInv` |
| `ResumesFromWhole` | `LatestIsWhole` | `Newest`, and the highest step is unique |
| `FinalizeFindsNoStep` | `StepIsNew` | `Ahead` |
| `BestAreKept` | `TopIsWhole` | part of `IInv`; what ranks after `KeepTopK` of those left ranks after `KeepTopK` of all (`OutsideTopKOfAll`), and a new checkpoint only moves others down (`TopAfterRename`), both by cardinalities |
| `LossIsBounded` | `LossBounded` | in training, the latest checkpoint is no further back than the remainder of the step by the period (`LossInv`) |
| `FilesImplementShelf` | `ImplementsShelf` | every action, under `IInv`, is a step of the shelf or leaves it alone |
| `SpaceIsBounded` | `SpaceBounded` | `SpaceInv`: of the directories being removed at most one has lost its training info, and each run that died left at most that one |

`WeightStreamProofs` proves, for every number and size of parameters, alignment, buffer size and
number of refits allowed by `StreamAssumption`:

| Theorem | Property | Argument |
|---|---|---|
| `IInvariant` | | the inductive invariant `IInv`: the sender's group is laid out without overlap, copied or to be copied (`Packing`); a group that was sent lies whole in the buffer the sender does not use until the engine is done with it (`SentGroups`); one request, group in hand or answer at a time (`Turns`), which follows from where the two sides are (`Stages`); views lie where parameters were packed (`Viewing`); what is in the engine grows group by group (`Loaded`) |
| `TypeCorrect` | `TypeOK` | part of `IInv`; an offset stays in its buffer because it is a place where the sender packed |
| `NoBufferOverwritten` | `BuffersExclusive` | copies go into the current buffer, what the engine holds is the other |
| `ParametersArriveWhole` | `LoadsWhatWasPacked` | a copy out of a group in hand reads what `SentGroups` says |
| `AssertionHolds` | `OffsetsAgree` | `Viewing` at the end of a group |
| `SocketsTakeTurns` | `RequestsInTurn` | `Turns` |
| `DoneIsDone` | `DoneMeansLoaded` | `Loaded` after COMPLETE |

`SyncGRPOProofs` proves, for all epochs, prompts, batches, periods, deadlines and durations allowed
by `SyncAssumption` and `DeadlineAssumption`:

| Theorem | Property | Argument |
|---|---|---|
| `TypeCorrect` | `TypeOK` | part of `TInv`, which adds what the counters and the cache may hold |
| `RolloutsAreOnPolicy` | `OnPolicy` | an invariant that says at each point of the loop what the flag promises of the engine's version |
| `GpuIsExclusive` | `GpuExclusive` | what is on the GPU at each point between two calls |
| `PromptsAreAccounted` | `Accounted` | `Books`: prompts trained on, passed over, cached and handed out balance, in the state and in the checkpoint |
| `StepsUseFreshPrompts` | `StepsAreFresh` | from `Books`: the selected prompts are none of those trained on |
| `DeadlineIsKept` | `DeadlineKept` | sums of iterations, and that a due deadline is followed by a save before the run ends |

`WeightBroadcastProofs` proves, for every number and size of parameters, members and target sizes
allowed by `BroadcastAssumption`:

| Theorem | Property | Argument |
|---|---|---|
| `TypeCorrect` | `TypeOK` | inductive as it stands |
| `TailIsBounded` | `TailBounded` | a member packs only into a buffer whose queue is empty |
| `MembersAgree` | `GroupsAgree` | on equal GPUs all cut at the same places: the k-th group is a function of k as long as nobody failed |

`RolloutsProofs` proves, for batches of any size and any tasks, lengths and limits allowed by
`RolloutAssumption`, of both drivers:

| Theorem | Property | Argument |
|---|---|---|
| `RewardsStayInPlace` | | what grouping by task takes apart, the stable sort by row puts together: the sorted places are a permutation (`StableSortSorts`), and at each place the arrays of the turn belong to the sample that stands there |
| `ConversationsStayApart` | `OwnConversation` | from the same inductive invariant `IInv`, which says at each place of the driver where each active sample stands in the arrays |
| `ThereIsRoomToGenerate` | `RoomToGenerate` | `IInv`: a conversation never outgrows the limit, and one that reached it is not kept active |
| `EpisodesEndForAReason` | `EndsForAReason` | `IInv`: what is on record of a sample that left the active ones (`Left`) or whose coroutine ended (`Ended`) |

`ReplayBufferProofs` proves, for every size, window, set of versions and number of pushes allowed by
`BufferAssumption`:

| Theorem | Property | Argument |
|---|---|---|
| `BufferInvariant` | | the inductive invariant `BufferInv`: the lists have one length and the arrival numbers ascend |
| `BufferTypeCorrect` | `BufferTypeOK` | part of `BufferInv` |
| `ListsImplementStore` | `ImplementsStore` | popping positions from the last to the first leaves the others in their order (`PoppedKeepsTheRest`, by induction on the number popped: what precedes the next position has not moved); the selected positions hold the earliest groups (`EarliestMeans`) |
| `AnswersAreRight` | `AnswersAsPromised` | the same, for what the call returns |

`DataDispatchProofs` proves, for every capacity, batch, set of lengths and numbers of ranks allowed by
`PackingAssumption` and `DispatchAssumption`, of all four packers and the adjustment of their bins,
the three ways of sharding, the workers' loops and the results:

| Theorem | Property | Argument |
|---|---|---|
| `CallInvariant` | | the inductive invariant `CallInv`: a packer that runs has the chunk's lengths, and `PackInv` says what it has in hand: waiting sequences, bins and spare ones together hold each sequence once (`Sound`) |
| `PackersFillTheBins` | `NoTwoBinsMerge` | a packer opens a bin only for a sequence for which the others have no room. The modified packer opens bins in four phases: sequences above half the capacity get one each; what is left over after the pairs fits no bin already filled (`NoRoom`); its spare bins are ranked by what they hold and each two of them exceed the capacity (`Ranked`), which the search for the place of a bin needs in turn (`StaysRanked`) |
| `ThereIsABinToTakeFrom` | `NeverABug` | the adjustment takes sequences from bins of two or more; were there none, there would be as many bins as sequences, and the call asks for no more than that |
| `NoSequenceIsLost` | `EachInOneBin` | part of `CallInv`: moving a sequence from one bin to another keeps the bins apart and what they hold |
| `RanksMeet` | `SameRounds` | the bins a packer makes are a multiple of the shards (`WantedIsMultiple`), and dealing them in turn gives each shard as many: `k -> (k - 1) * shards + s` is a bijection with the bins of shard `s` (`DealtEvenly`) |
| `CallsRowsInvariant` | | the inductive invariant `WholeCall` of a call, below |
| `RowsAreWorkedOnOnce` | `EachRowOnce` | what a rank has seen is a beginning of its shard, the shards have no row in common and hold them all |
| `RanksStayInStep` | `RanksInStep` | with `RanksMeet` and `ThereIsABinToTakeFrom`, the last part of `Layout`: the rows of a microbatch fit |
| `EveryRowComesBack` | `RowsComeBack` | the first workers of the shards are the multiples of the tensor size below the size of one pipeline stage (`FirstWorkers`), so the results are taken shard after shard (`ResultsInTurn`); laid end to end like the shards, they are in `batch_sorted_indices`' order, which has each row once, and sorting by it undoes it (`Reordered`) |

`WholeCall` adds to `CallInv` and the equal rounds what `shard_by_batch_size` promises the workers, `Layout`:
the shards part the rows of the batch; each is made of one piece per global batch, where `get_batch`
looks for it (`InTurn`); the microbatches of a piece follow each other without a gap from its first row
to its last (`Covers`); and each fits (`InTokens`). All three ways of sharding are proved to lay the
rows out like that, so the workers need one argument:

- bins (`BinLayout`): each row is in one bin of its chunk and each bin is dealt to one shard; the
  running totals of the lengths of the bins are the ends of their rows (`ConsecutiveCovers`);
- ranges (`RangeLayout`, `UnevenLayout`): each place of a chunk is in the range of one shard
  (`PlacesDiffer`, `SomePlace`), the last shards may be empty when generating, and the rows at those
  places are all of them in another order: ranks in a strict order are a bijection (`InOrderLists`),
  and so are the strides (`StridesDiffer`);
- dynamic microbatches (`DynamicCovers`): `PlacesTo` is kept by each turn of the loop (`AddPlaceKeeps`),
  and says that the microbatches so far cover the places so far and that `widest` is enough for the
  last one.

`InStep` then counts: a rank at microbatch `mb` of global batch `gb` has seen the batches before and
`mb` microbatches of this one, and one more microbatch takes it to the next count (`OneRound`).

Induction is over sets of naturals: a set that holds 0 and with `n` also `n + 1` holds all of them
(`NaturalInduction`, from the well-founded order of finite sets, since the library's induction
theorems take an operator). With it a fold of the community modules is unrolled step by step
(`RemovedOneByOne`).

Sequences laid end to end (`FlattenSeq`) are reasoned about through `Flat`, which says where each one
begins; slices of a sequence through `Sliced`; recursive functions and folds are unrolled once
(`PlacedInTurn`, `DynamicMicroIs`, `UpToAdds`).

Only model-checked: liveness (`RefitStarts`, `ReservedTargetTrained`, and `RefitEnds`,
`BroadcastsEnd`), which is beyond the prover. Every other property of the passing runs is proved.

## 7. Not modelled, and what is left

What could follow, in this order:

1. Placement with retries (`nemo_rl/distributed/virtual_cluster.py`).
2. The SFT, DPO, RM and distillation loops. They have the synchronous loop's checkpoint and
   deadline logic, without its engine and its dynamic sampling.
3. A composition of the loops with the files of `Checkpoint` instead of the atomic save.

Not modelled, because their content is not a matter of states and steps:

- losses and advantages: floating-point formulas;
- policy workers, model patches, parallel plans, conversions of weights: tensor code whose
  control is the calls modelled here (refit, offload, train, save);
- several reward components and the external service of NeMo Gym;
- environments, rewards and data sets: parsing, prompts and external verifiers;
- logging and the GPU monitor: output;
- Kubernetes and Slurm launchers: wrappers of external systems.

These make up most of the repository's lines, so the models cover a small share of its text. What
they cover is the part where processes, threads, devices and crashes meet.
