------------------------------ MODULE AsyncGRPO ------------------------------
(***************************************************************************)
(* Asynchronous GRPO: the training loop of async_grpo_train                *)
(* (nemo_rl/algorithms/grpo.py), the trajectory collector and the replay   *)
(* buffer, three processes joined by remote calls.                         *)
(*                                                                         *)
(* A training step is: sample the groups meant for the current weight      *)
(* version, train, ask the collector to prepare for the refit and wait for *)
(* the answer, refit the generation engine, then, without waiting, tell    *)
(* the collector the new version and let it resume.                        *)
(***************************************************************************)
EXTENDS TrajectoryCollector

CONSTANTS
  MaxSteps,    \* max_num_steps
  ValAtStart,  \* val_at_start
  ValPeriod,   \* val_period: validate after every ValPeriod-th step, 0 for never
  ValAtEnd,    \* val_at_end
  Deadline     \* checkpoint_must_save_by is set: the run may end after any step

ASSUME TrainerAssumption ==
  /\ MaxSteps \in Nat
  /\ StartStep < MaxSteps
  /\ ValAtStart \in BOOLEAN
  /\ ValPeriod \in Nat
  /\ ValAtEnd \in BOOLEAN
  /\ Deadline \in BOOLEAN
  /\ MaxSize = NumPrompts * MaxAge * 2
  /\ IsFiniteSet(Workers)
  /\ Cardinality(Workers) = NumPrompts * MaxAge

VARIABLES
  tpc,            \* where the training loop is
  step,           \* training steps done
  weightVersion,  \* weight_version
  engine          \* the version of the weights in the generation engine, -1 for none

trainerVars == <<tpc, step, weightVersion, engine>>
vars == <<storeVars, collectorVars, trainerVars>>

Ended == {"done", "aborted"}

TrainerPlaces ==
  {"boot", "firstValidation", "fill", "sample", "train", "preparing", "refit",
   "validate", "finish"} \cup Ended

TypeOK ==
  /\ StoreTypeOK
  /\ CollectorTypeOK
  /\ tpc \in TrainerPlaces
  /\ step \in Nat
  /\ weightVersion \in Nat
  /\ engine \in Nat \cup {-1}

Init ==
  /\ StoreInit
  /\ CollectorInit
  /\ tpc = "boot"
  /\ step = StartStep
  /\ weightVersion = StartStep
  /\ engine = -1

-----------------------------------------------------------------------------
(* async_grpo_train *)

Turn(here, there) == tpc = here /\ tpc' = there

\* A remote call that the loop does not wait for.
Send(calls) == mailbox' = mailbox \o calls

NoCall == UNCHANGED mailbox

OthersUnchanged ==
  UNCHANGED <<threadVars, gateVars, version, apc, generating, running, inflight, worker,
              failures>>

\* The first refit; the collector has been running since before it.
FirstRefit ==
  LET validate == ValAtStart /\ step = 0
  IN  /\ Turn("boot", IF validate THEN "firstValidation" ELSE "fill")
      /\ engine' = weightVersion
      /\ Send(IF validate THEN <<Call("pause", 0)>> ELSE <<>>)
      /\ UNCHANGED <<step, weightVersion, storeVars>>
      /\ OthersUnchanged

\* It raises: async_grpo_train returns, before its try statement.
FirstRefitFails ==
  /\ failures < MaxFailures
  /\ Turn("boot", "aborted")
  /\ NoCall
  /\ UNCHANGED <<step, weightVersion, engine, storeVars>>
  /\ OthersUnchanged

EndFirstValidation ==
  /\ Turn("firstValidation", "fill")
  /\ Send(<<Call("resume", 0)>>)
  /\ UNCHANGED <<step, weightVersion, engine, storeVars>>
  /\ OthersUnchanged

\* Polls replay_buffer.size until one step's worth of groups is there.
BufferFilled ==
  /\ Turn("fill", "sample")
  /\ Cardinality(stored) >= NumPrompts
  /\ NoCall
  /\ UNCHANGED <<step, weightVersion, engine, storeVars>>
  /\ OthersUnchanged

\* The buffer has the groups; while it has not, the loop sleeps and asks again.
TakeSample ==
  /\ Turn("sample", "train")
  /\ Sample(weightVersion, MaxAge, NumPrompts)
  /\ NoCall
  /\ UNCHANGED <<step, weightVersion, engine>>
  /\ OthersUnchanged

\* sample raises ValueError: the except clause of the loop prints it, and the
\* finally clause kills the collector and the buffer.
SampleAborts ==
  /\ Turn("sample", "aborted")
  /\ SampleRaises(weightVersion, MaxAge)
  /\ NoCall
  /\ UNCHANGED <<step, weightVersion, engine, storeVars>>
  /\ OthersUnchanged

Train ==
  /\ Turn("train", "preparing")
  /\ Send(<<Call("prepare_for_refit", 0)>>)
  /\ UNCHANGED <<step, weightVersion, engine, storeVars>>
  /\ OthersUnchanged

BeginRefit ==
  /\ Turn("preparing", "refit")
  /\ CallsDone
  /\ NoCall
  /\ UNCHANGED <<step, weightVersion, engine, storeVars>>
  /\ OthersUnchanged

IsLastStep == step + 1 = MaxSteps
Validates ==
  \/ ValPeriod > 0 /\ (step + 1) % ValPeriod = 0
  \/ ValAtEnd /\ IsLastStep

\* Mutant: collection is resumed before it is told the new version.
EndRefitResumesFirst ==
  /\ Turn("refit", "finish")
  /\ engine' = weightVersion + 1
  /\ weightVersion' = weightVersion + 1
  /\ Send(<<Call("resume_after_refit", 0), Call("set_weight_version", weightVersion + 1)>>)
  /\ UNCHANGED <<step, storeVars>>
  /\ OthersUnchanged

EndRefit ==
  /\ Turn("refit", IF Validates THEN "validate" ELSE "finish")
  /\ engine' = weightVersion + 1
  /\ weightVersion' = weightVersion + 1
  /\ Send(<<Call("set_weight_version", weightVersion + 1), Call("resume_after_refit", 0)>>
            \o (IF Validates THEN <<Call("pause", 0)>> ELSE <<>>))
  /\ UNCHANGED <<step, storeVars>>
  /\ OthersUnchanged

EndValidation ==
  /\ Turn("validate", "finish")
  /\ Send(<<Call("resume", 0)>>)
  /\ UNCHANGED <<step, weightVersion, engine, storeVars>>
  /\ OthersUnchanged

\* The step is done; the last one, or one past the deadline, ends the run.
FinishStep ==
  /\ tpc = "finish"
  /\ step' = step + 1
  /\ \/ tpc' = "done" /\ (IsLastStep \/ Deadline)
     \/ tpc' = "sample" /\ ~IsLastStep
  /\ NoCall
  /\ UNCHANGED <<weightVersion, engine, storeVars>>
  /\ OthersUnchanged

\* Training, the refit or the validation raises inside the loop.
LoopFails ==
  /\ failures < MaxFailures
  /\ tpc \in {"train", "refit", "validate", "finish"}
  /\ tpc' = "aborted"
  /\ NoCall
  /\ UNCHANGED <<step, weightVersion, engine, storeVars>>
  /\ OthersUnchanged

Trainer ==
  \/ FirstRefit \/ FirstRefitFails \/ EndFirstValidation \/ BufferFilled
  \/ TakeSample \/ SampleAborts
  \/ Train \/ BeginRefit \/ EndRefit \/ EndValidation \/ FinishStep
  \/ LoopFails

-----------------------------------------------------------------------------
\* The loop kills both actors when it ends: nothing moves after that.
Live == tpc \notin Ended

CollectorStep ==
  /\ \/ CollectionThread
     \/ ActorThread
     \/ \E w \in Workers : WorkerThread(w)
  /\ UNCHANGED trainerVars

Next == Live /\ (CollectorStep \/ Trainer)

Spec == Init /\ [][Next]_vars

\* Every thread gets its turn, and what it waits for (a rollout, a training
\* step, a weight transfer) ends: the operating system and Ray schedule them
\* independently.  Nothing is said of how fast one is against another.
Fairness ==
  /\ WF_vars(Live /\ CollectionThread /\ UNCHANGED trainerVars)
  /\ WF_vars(Live /\ ActorThread /\ UNCHANGED trainerVars)
  /\ WF_vars(Live /\ Trainer)
  /\ \A w \in Workers : WF_vars(Live /\ WorkerThread(w) /\ UNCHANGED trainerVars)

FairSpec == Spec /\ Fairness

-----------------------------------------------------------------------------
(* Properties *)

Busy == {w \in Workers : worker[w].pc # "free"}

\* The groups not trained on yet: in a worker's hands or in the buffer.
Carrying ==
  {w \in Workers : worker[w].pc \in {"registered", "rollout", "push", "backoff"}}
Carried == stored \cup {worker[w] : w \in Carrying}

\* A group's label never runs ahead of the policy, and lies at most MaxAge
\* versions before its target: sampled at its target, it is in the age window.
\* Three threads and a mailbox hand labels on, some stale when they are used.
AgeWindow ==
  \A g \in Carried :
    /\ g.tgt <= g.ver + MaxAge
    /\ g.ver <= weightVersion
    /\ engine # -1 => g.ver <= engine

\* A group outlives the step it was meant for only if its target was reserved
\* twice.  Such a group ages out of the window, and sample then raises: this
\* is the one way the buffer's ValueError ends a run.
LeftoverMeansDuplicate ==
  \A g \in Carried : g.tgt < weightVersion => g.tgt \in dup

\* A push meets a full buffer only after a target was reserved twice: the
\* buffer holds every group that the generation limits allow.
BackPressureMeansDuplicate ==
  dup = {} => \A w \in Workers : worker[w].pc # "backoff"

\* A reserved target is being worked on: the collection thread is starting its
\* workers, or one of them is alive.  A leaked reservation starves its step.
ReservationHasWork ==
  \A t \in generating :
    \/ cpc \in Spawning /\ local.tgt = t
    \/ \E w \in Busy : worker[w].tgt = t

\* The collector's version is the trainer's or the one before, and while it
\* lags the refit gate is shut: no prompt passes it between a refit and the
\* version that the refit brought.
LagsBehindShutGate ==
  \/ version = weightVersion
  \/ version = weightVersion - 1 /\ ~refitCleared

\* Without in-flight weight updates a refit may still meet running generations:
\* each refit can miss one, whose prompt was past the gate when the gate was
\* shut and whose thread was not started when the pending ones were counted, and
\* a missed thread is forgotten for good.  It has ended before its target is
\* trained, so no more than MaxAge of them are about, unless a target was
\* reserved twice.
RacingGenerationsBounded ==
  ~InFlight /\ tpc = "refit" /\ dup = {} =>
    Cardinality({w \in Workers : worker[w].pc = "rollout"}) <= MaxAge

\* prepare_for_refit waits for the pending generations of a collector that may
\* still be starting some, and these may wait for room in the buffer: it ends,
\* unless a target was reserved twice.  (Then all three can wait for each other:
\* the training loop for the refit, the refit for a worker, the worker for the
\* training loop to empty the buffer.)
RefitStarts == tpc = "preparing" ~> (tpc # "preparing" \/ dup # {})

\* A step whose target was reserved is trained, unless the run ends first, or
\* the collection thread runs out of batches and the workers drop their groups.
ReservedTargetTrained ==
  (tpc = "sample" /\ weightVersion \in made) ~> (tpc # "sample" \/ ~running)

-----------------------------------------------------------------------------
(* What the documentation and the comments say and the code does not do *)

\* docs/guides/async-grpo.md: a trajectory out of the age window is discarded;
\* the code raises and the run ends.
StaleGroupsAreDiscarded == ~SampleRaises(weightVersion, MaxAge)

\* async_utils.py:536: "For non-async engines, waits for all pending
\* generations to complete before refit."
RefitExcludesGeneration ==
  ~InFlight /\ tpc = "refit" => \A w \in Workers : worker[w].pc # "rollout"

\* docs/guides/async-grpo.md:107: the generation weight version names "the
\* policy weights used to generate a trajectory".
LabelNamesLoadedWeights ==
  \A w \in Workers : worker[w].pc = "rollout" => worker[w].ver <= engine

\* async_utils.py:111: an insufficient buffer stalls training "until the
\* remaining trajectories are generated": they are, while there are batches.
StepsComplete == tpc = "sample" ~> (tpc # "sample" \/ ~running)
=============================================================================
