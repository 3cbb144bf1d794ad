------------------------- MODULE TrajectoryCollector -------------------------
(***************************************************************************)
(* The trajectory collector of asynchronous GRPO                           *)
(* (nemo_rl/algorithms/async_utils.py, class AsyncTrajectoryCollector).    *)
(*                                                                         *)
(* Three kinds of thread share the state of this Ray actor:                *)
(*   - the collection thread runs _collection_loop: it takes a batch of    *)
(*     prompts, waits at three gates, reserves a target weight version and *)
(*     starts one worker thread for each prompt;                           *)
(*   - a worker thread runs _run_prompt_group_worker: it rolls its prompt  *)
(*     out and pushes the group to the buffer;                             *)
(*   - the actor's own thread runs the remote calls of the training loop,  *)
(*     one at a time, in the order they were sent.                         *)
(*                                                                         *)
(* A step is a piece of code that reads or writes shared state once: a     *)
(* call of the buffer, a section under a lock, a test of an event.         *)
(* self.running becomes false only when the collection thread ends, so the *)
(* tests of it inside that thread never fail and are left out.             *)
(***************************************************************************)
EXTENDS TrajectoryStore, Sequences

CONSTANTS
  NumPrompts,  \* num_prompts_per_step: the prompts of a batch
  MaxAge,      \* max_trajectory_age_steps
  StartStep,   \* start_step: the step the run starts or resumes from
  NumBatches,  \* batches in the dataloader, which is iterated once
  Workers,     \* one worker for each permit of _inflight_sema
  InFlight,    \* async_engine and in_flight_weight_updates
  MaxFailures  \* bound: how many rollouts may raise; 0 also keeps the trainer from it

ASSUME CollectorAssumption ==
  /\ NumPrompts \in Nat \ {0}
  /\ MaxAge \in Nat \ {0}
  /\ StartStep \in Nat
  /\ NumBatches \in Nat
  /\ InFlight \in BOOLEAN
  /\ MaxFailures \in Nat

VARIABLES
  cpc,         \* where the collection thread is
  local,       \* its locals: generation version, last target read, target, prompt
  batches,     \* batches taken from the dataloader
  version,     \* current_weight_version
  warned,      \* _last_limit_warning_version, -1 for None
  generating,  \* _generating_targets: the reserved targets
  manualCleared, refitCleared, limitCleared,  \* the events of the three gates
  running,     \* self.running
  inflight,    \* _inflight_threads
  worker,      \* the worker threads: place, generation version, target, prompt
  mailbox,     \* the remote calls of the training loop not yet taken up
  apc,         \* where the actor's thread is
  failures,    \* rollouts that raised
  made, dup    \* history: targets reserved so far, targets reserved once more

threadVars == <<cpc, local, batches, warned, made, dup>>
gateVars == <<manualCleared, refitCleared, limitCleared>>
actorVars == <<version, mailbox, apc>>
collectorVars ==
  <<threadVars, gateVars, actorVars, generating, running, inflight, worker, failures>>

\* Places of the collection thread; the ...Wait places are blocked in Event.wait.
ThreadPlaces ==
  {"fetch", "manualWait", "refit", "refitWait", "limit", "limitLast", "limitCheck",
   "limitPause", "limitClear", "limitTest", "limitWait", "batch", "batchLast", "reserve", "gate", "gateWait",
   "reread", "acquire", "start", "stopped"}

\* The places between a reservation and the last prompt's worker.
Spawning == {"gate", "gateWait", "reread", "acquire", "start"}

WorkerPlaces ==
  {"free", "registered", "rollout", "push", "backoff", "release", "finally"}

\* A thread is alive from its start to the end of its finally clause.
Alive(w) == worker[w].pc \notin {"free", "registered"}

Idle == [pc |-> "free", ver |-> StartStep, tgt |-> StartStep, idx |-> 0]
NoBatch == [ver |-> StartStep, last |-> -1, tgt |-> StartStep, idx |-> 0]

Call(kind, ver) == [kind |-> kind, ver |-> ver]
CallKinds == {"set_weight_version", "prepare_for_refit", "resume_after_refit",
              "pause", "resume"}

Message == [kind : CallKinds, ver : Nat]
LocalState == [ver : Nat, last : Nat \cup {-1}, tgt : Nat, idx : 0 .. NumPrompts - 1]
WorkerState == [pc : WorkerPlaces, ver : Nat, tgt : Nat, idx : 0 .. NumPrompts - 1]

CollectorTypeOK ==
  /\ cpc \in ThreadPlaces
  /\ local \in LocalState
  /\ batches \in 0 .. NumBatches
  /\ version \in Nat
  /\ warned \in Nat \cup {-1}
  /\ generating \subseteq Nat
  /\ manualCleared \in BOOLEAN /\ refitCleared \in BOOLEAN /\ limitCleared \in BOOLEAN
  /\ running \in BOOLEAN
  /\ inflight \subseteq Workers
  /\ worker \in [Workers -> WorkerState]
  /\ mailbox \in Seq(Message)
  /\ apc \in {"idle", "wake", "draining"}
  /\ failures \in 0 .. MaxFailures
  /\ made \subseteq Nat /\ dup \subseteq made

\* The state after start_collection, with its thread started.
CollectorInit ==
  /\ cpc = "fetch" /\ local = NoBatch /\ batches = 0
  /\ version = StartStep
  /\ warned = -1
  /\ generating = {}
  /\ manualCleared = TRUE /\ refitCleared = TRUE /\ limitCleared = TRUE
  /\ running = TRUE
  /\ inflight = {}
  /\ worker = [w \in Workers |-> Idle]
  /\ mailbox = <<Call("set_weight_version", StartStep)>>
  /\ apc = "idle"
  /\ failures = 0
  /\ made = {} /\ dup = {}

-----------------------------------------------------------------------------
(* The collection thread, up to the choice of a target *)

At(here, there) == cpc = here /\ cpc' = there

\* Nothing but the thread's own state changes.
ThreadOnly ==
  UNCHANGED <<gateVars, actorVars, generating, running, inflight, worker, failures,
              storeVars>>

\* Take the next batch and test the manual pause.
Fetch ==
  /\ cpc = "fetch"
  /\ batches < NumBatches
  /\ batches' = batches + 1
  /\ cpc' = IF manualCleared THEN "refit" ELSE "manualWait"
  /\ ThreadOnly /\ UNCHANGED <<local, warned, made, dup>>

\* The dataloader is exhausted: the loop ends and its finally clause runs.
StopCollection ==
  /\ At("fetch", "stopped")
  /\ batches = NumBatches
  /\ running' = FALSE
  /\ UNCHANGED <<local, batches, warned, made, dup, gateVars, actorVars, generating,
                 inflight, worker, failures, storeVars>>

RefitGate ==
  /\ cpc = "refit"
  /\ cpc' = IF refitCleared THEN "limit" ELSE "refitWait"
  /\ ThreadOnly /\ UNCHANGED <<local, batches, warned, made, dup>>

\* Mutant: a window one version too long.
TargetWeightsTooFar(v) == v + 1 .. v + MaxAge + 1

\* _calculate_target_weights
TargetWeights(v) == IF v = StartStep THEN v .. v + MaxAge ELSE v + 1 .. v + MaxAge

\* The targets that generation version v may still be used for.
OpenTargets(v, last) == {t \in TargetWeights(v) : t > last /\ t \notin generating}

\* _should_pause_for_generation_limits reads the version, asks the buffer for
\* its last target, and looks for an open target under _generation_check_lock.
LimitVersion ==
  /\ At("limit", "limitLast")
  /\ local' = [local EXCEPT !.ver = version]
  /\ ThreadOnly /\ UNCHANGED <<batches, warned, made, dup>>

LimitLast ==
  /\ At("limitLast", "limitCheck")
  /\ local' = [local EXCEPT !.last = lastTarget]
  /\ ThreadOnly /\ UNCHANGED <<batches, warned, made, dup>>

LimitCheck ==
  /\ cpc = "limitCheck"
  /\ cpc' = IF OpenTargets(local.ver, local.last) = {} THEN "limitPause" ELSE "batch"
  /\ local' = NoBatch
  /\ ThreadOnly /\ UNCHANGED <<batches, warned, made, dup>>

\* Once for each weight version the event is cleared; then it is waited for.
LimitPause ==
  /\ cpc = "limitPause"
  /\ warned' = version
  /\ cpc' = IF warned # version THEN "limitClear" ELSE "limitTest"
  /\ ThreadOnly /\ UNCHANGED <<local, batches, made, dup>>

LimitClear ==
  /\ At("limitClear", "limitTest")
  /\ limitCleared' = FALSE
  /\ UNCHANGED <<local, batches, warned, made, dup, manualCleared, refitCleared, actorVars, generating,
                 running, inflight, worker, failures, storeVars>>

LimitTest ==
  /\ cpc = "limitTest"
  /\ cpc' = IF limitCleared THEN "batch" ELSE "limitWait"
  /\ ThreadOnly /\ UNCHANGED <<local, batches, warned, made, dup>>

-----------------------------------------------------------------------------
(* _process_batch *)

BatchVersion ==
  /\ At("batch", "batchLast")
  /\ local' = [local EXCEPT !.ver = version]
  /\ ThreadOnly /\ UNCHANGED <<batches, warned, made, dup>>

\* _get_next_target_for_generation calls the buffer before it takes the lock.
BatchLast ==
  /\ At("batchLast", "reserve")
  /\ local' = [local EXCEPT !.last = lastTarget]
  /\ ThreadOnly /\ UNCHANGED <<batches, warned, made, dup>>

\* Under the lock: the least open target is reserved for the whole batch.
Reserve ==
  /\ At("reserve", "gate")
  /\ \E t \in OpenTargets(local.ver, local.last) :
       /\ \A u \in OpenTargets(local.ver, local.last) : t <= u
       /\ generating' = generating \cup {t}
       /\ local' = [local EXCEPT !.last = -1, !.tgt = t, !.idx = 0]
       /\ made' = made \cup {t}
       /\ dup' = dup \cup (made \cap {t})
  /\ UNCHANGED <<batches, warned, gateVars, actorVars, running, inflight, worker,
                 failures, storeVars>>

\* No target is open: the batch is dropped.
DropBatch ==
  /\ At("reserve", "fetch")
  /\ OpenTargets(local.ver, local.last) = {}
  /\ local' = NoBatch
  /\ ThreadOnly /\ UNCHANGED <<batches, warned, made, dup>>

\* Before each prompt: the refit gate; a thread that waited reads the version again.
PromptGate ==
  /\ cpc = "gate"
  /\ cpc' = IF refitCleared THEN "acquire" ELSE "gateWait"
  /\ ThreadOnly /\ UNCHANGED <<local, batches, warned, made, dup>>

RereadVersion ==
  /\ At("reread", "acquire")
  /\ local' = [local EXCEPT !.ver = version]
  /\ ThreadOnly /\ UNCHANGED <<batches, warned, made, dup>>

\* Take a permit, create the worker and add it to _inflight_threads.
Register(w) ==
  /\ At("acquire", "start")
  /\ worker[w].pc = "free"
  /\ worker' = [worker EXCEPT ![w] = [pc |-> "registered", ver |-> local.ver,
                                      tgt |-> local.tgt, idx |-> local.idx]]
  /\ inflight' = inflight \cup {w}
  /\ UNCHANGED <<local, batches, warned, made, dup, gateVars, actorVars, generating,
                 running, failures, storeVars>>

NotStarted == {w \in inflight : ~Alive(w)}

\* Mutant: the loop over the prompts stops before the last one.
StartSkipsLast(w) ==
  /\ At("start", "fetch")
  /\ worker[w].pc = "registered"
  /\ worker' = [worker EXCEPT ![w].pc = "rollout"]
  /\ local' = NoBatch
  /\ UNCHANGED <<batches, warned, made, dup, gateVars, actorVars, generating, running,
                 inflight, failures, storeVars>>

\* worker.start(); after the last prompt, _cleanup_finished_threads.
Start(w) ==
  /\ cpc = "start"
  /\ worker[w].pc = "registered"
  /\ worker' = [worker EXCEPT ![w].pc = "rollout"]
  /\ IF local.idx + 1 < NumPrompts
       THEN /\ cpc' = "gate"
            /\ local' = [local EXCEPT !.idx = @ + 1]
            /\ UNCHANGED inflight
       ELSE /\ cpc' = "fetch"
            /\ local' = NoBatch
            /\ inflight' = inflight \ (NotStarted \ {w})
  /\ UNCHANGED <<batches, warned, made, dup, gateVars, actorVars, generating, running,
                 failures, storeVars>>

-----------------------------------------------------------------------------
(* The worker threads: _run_prompt_group_worker *)

Go(w, here, there) ==
  /\ worker[w].pc = here
  /\ worker' = [worker EXCEPT ![w].pc = there]
  /\ UNCHANGED <<threadVars, gateVars, actorVars, running>>

\* The rollout ends, then the push loop tests self.running.
FinishRollout(w) ==
  /\ Go(w, "rollout", IF running THEN "push" ELSE "finally")
  /\ UNCHANGED <<generating, inflight, failures, storeVars>>

\* The rollout raises; the except clause only prints.
FailRollout(w) ==
  /\ Go(w, "rollout", "finally")
  /\ failures < MaxFailures
  /\ failures' = failures + 1
  /\ UNCHANGED <<generating, inflight, storeVars>>

\* push_with_wait_signal returns "success".
PushGroup(w) ==
  /\ Go(w, "push", IF worker[w].idx = 0 THEN "release" ELSE "finally")
  /\ Push(worker[w].ver, worker[w].tgt)
  /\ UNCHANGED <<generating, inflight, failures>>

\* It returns "full": sleep, then test self.running and try again.
PushFull(w) ==
  /\ Full
  /\ Go(w, "push", "backoff")
  /\ UNCHANGED <<generating, inflight, failures, storeVars>>

Retry(w) ==
  /\ Go(w, "backoff", IF running THEN "push" ELSE "finally")
  /\ UNCHANGED <<generating, inflight, failures, storeVars>>

\* The first prompt's group is in the buffer: its worker releases the target.
ReleaseTarget(w) ==
  /\ Go(w, "release", "finally")
  /\ generating' = generating \ {worker[w].tgt}
  /\ UNCHANGED <<inflight, failures, storeVars>>

\* Mutant: without the emergency cleanup of the reservation.
FinallyKeepsReservation(w) ==
  /\ worker[w].pc = "finally"
  /\ inflight' = inflight \ {w}
  /\ worker' = [worker EXCEPT ![w] = Idle]
  /\ UNCHANGED <<threadVars, gateVars, actorVars, generating, running, failures,
                 storeVars>>

\* The finally clause, of every worker: release the target if it is reserved,
\* leave _inflight_threads, give the permit back.
Finally(w) ==
  /\ worker[w].pc = "finally"
  /\ generating' = generating \ {worker[w].tgt}
  /\ inflight' = inflight \ {w}
  /\ worker' = [worker EXCEPT ![w] = Idle]
  /\ UNCHANGED <<threadVars, gateVars, actorVars, running, failures, storeVars>>

-----------------------------------------------------------------------------
(* The actor's thread: the remote calls of the training loop *)

TakeUp(kind) ==
  /\ apc = "idle"
  /\ mailbox # <<>>
  /\ Head(mailbox).kind = kind
  /\ mailbox' = Tail(mailbox)

\* set_weight_version writes the version, then opens the limit gate if it is shut.
SetWeightVersion ==
  /\ TakeUp("set_weight_version")
  /\ version' = Head(mailbox).ver
  /\ apc' = "wake"
  /\ UNCHANGED <<threadVars, gateVars, generating, running, inflight, worker, failures,
                 storeVars>>

OpenLimitGate ==
  /\ apc = "wake" /\ apc' = "idle"
  /\ limitCleared' = TRUE
  /\ cpc' = IF cpc = "limitWait" THEN "batch" ELSE cpc
  /\ UNCHANGED <<local, batches, warned, made, dup, manualCleared, refitCleared, version,
                 mailbox, generating, running, inflight, worker, failures, storeVars>>

Pause ==
  /\ TakeUp("pause")
  /\ manualCleared' = FALSE
  /\ UNCHANGED <<threadVars, refitCleared, limitCleared, version, apc, generating,
                 running, inflight, worker, failures, storeVars>>

Resume ==
  /\ TakeUp("resume")
  /\ manualCleared' = TRUE
  /\ cpc' = IF cpc = "manualWait" THEN "refit" ELSE cpc
  /\ UNCHANGED <<local, batches, warned, made, dup, refitCleared, limitCleared, version,
                 apc, generating, running, inflight, worker, failures, storeVars>>

\* Mutant: in-flight updates taken for granted.
PrepareWithoutWait ==
  /\ TakeUp("prepare_for_refit")
  /\ refitCleared' = FALSE
  /\ UNCHANGED <<threadVars, manualCleared, limitCleared, version, apc, generating,
                 running, inflight, worker, failures, storeVars>>

\* prepare_for_refit shuts the refit gate; without in-flight weight updates it
\* then waits for the pending generations.
PrepareForRefit ==
  /\ TakeUp("prepare_for_refit")
  /\ refitCleared' = FALSE
  /\ apc' = IF InFlight THEN "idle" ELSE "draining"
  /\ UNCHANGED <<threadVars, manualCleared, limitCleared, version, generating, running,
                 inflight, worker, failures, storeVars>>

\* One turn of wait_for_pending_generations: a thread that is not alive is forgotten.
PollPending ==
  /\ apc = "draining"
  /\ inflight' = inflight \ NotStarted
  /\ apc' = IF inflight' = {} THEN "idle" ELSE "draining"
  /\ UNCHANGED <<threadVars, gateVars, version, mailbox, generating, running, worker,
                 failures, storeVars>>

ResumeAfterRefit ==
  /\ TakeUp("resume_after_refit")
  /\ refitCleared' = TRUE
  /\ cpc' = CASE cpc = "refitWait" -> "limit"
              [] cpc = "gateWait" -> "reread"
              [] OTHER -> cpc
  /\ UNCHANGED <<local, batches, warned, made, dup, manualCleared, limitCleared, version,
                 apc, generating, running, inflight, worker, failures, storeVars>>

\* ray.get on the last call sent has returned.
CallsDone == mailbox = <<>> /\ apc = "idle"

-----------------------------------------------------------------------------
CollectionThread ==
  \/ Fetch \/ StopCollection \/ RefitGate
  \/ LimitVersion \/ LimitLast \/ LimitCheck
  \/ LimitPause \/ LimitClear \/ LimitTest
  \/ BatchVersion \/ BatchLast \/ Reserve \/ DropBatch
  \/ PromptGate \/ RereadVersion
  \/ \E w \in Workers : Register(w) \/ Start(w)

WorkerThread(w) ==
  \/ FinishRollout(w) \/ FailRollout(w)
  \/ PushGroup(w) \/ PushFull(w) \/ Retry(w) \/ ReleaseTarget(w)
  \/ Finally(w)

ActorThread ==
  \/ SetWeightVersion \/ OpenLimitGate
  \/ Pause \/ Resume
  \/ PrepareForRefit \/ PollPending \/ ResumeAfterRefit
=============================================================================
