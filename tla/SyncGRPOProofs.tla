--------------------------- MODULE SyncGRPOProofs ---------------------------
(***************************************************************************)
(* Theorems about SyncGRPO: types, the weights that rollouts use, who      *)
(* holds the GPU, what becomes of each prompt, and the deadline.           *)
(***************************************************************************)
EXTENDS SyncGRPO, TLAPS, FiniteSetTheorems

\* Where the engine is being made ready.
Readying == {"offload", "wakeWeights", "transfer", "settle", "wakeCache", "wakeAll"}

\* A batch is out of the dataloader and not filtered yet.
Fetching == (goal = "rollout" /\ pc \in Readying) \/ pc \in {"rollout", "filter"}

\* A step's prompts are selected, and the weights not yet trained on them.
Making == pc \in {"logprobs", "training"}

\* The weights were trained in this step.
Made ==
  \/ pc \in {"trained", "finish", "save", "next"}
  \/ pc \in Readying \cup {"validation"} /\ goal = "validation" /\ selected # {}

\* Validation before the first step.
Before ==
  \/ pc = "start"
  \/ pc \in Readying \cup {"validation"} /\ goal = "validation" /\ selected = {}

-----------------------------------------------------------------------------
(* Arithmetic of batches *)

LEMMA Products ==
  ASSUME NEW i \in Nat, NEW j \in Nat, i <= j
  PROVE  /\ i * BatchSize \in Nat /\ j * BatchSize \in Nat
         /\ i * BatchSize <= j * BatchSize
         /\ (i + 1) * BatchSize = i * BatchSize + BatchSize
  BY SyncAssumption

LEMMA BatchFacts ==
  ASSUME NEW e \in 0..MaxEpochs, NEW b \in 1..EpochLen
  PROVE  /\ Batch(e, b) \subseteq Prompts
         /\ Batch(e, b) # {}
         /\ HandedOut(e, b) = HandedOut(e, b - 1) \cup Batch(e, b)
         /\ HandedOut(e, b - 1) \cap Batch(e, b) = {}
<1> DEFINE lo == (b - 1) * BatchSize
<1> DEFINE hi == b * BatchSize
<1> DEFINE top == EpochLen * BatchSize
<1>1. lo \in Nat /\ hi = lo + BatchSize /\ hi <= top /\ top \in Nat
  <2>1. b - 1 \in Nat /\ b - 1 <= EpochLen /\ b \in Nat /\ b <= EpochLen /\ EpochLen \in Nat
    BY SyncAssumption
  <2> QED BY <2>1, Products
<1> HIDE DEF lo, hi, top
<1>2. Batch(e, b) = {<<e, n>> : n \in (lo + 1)..hi}
  BY DEF Batch, lo, hi
<1>3. Prompts = (0..MaxEpochs) \X (1..top)
  BY DEF Prompts, top
<1>4. Batch(e, b) \subseteq Prompts
  BY <1>1, <1>2, <1>3
<1>5. <<e, lo + 1>> \in Batch(e, b)
  BY <1>1, <1>2, SyncAssumption
<1>6. HandedOut(e, b) = {p \in Prompts : p[1] < e \/ (p[1] = e /\ p[2] <= hi)}
  BY DEF HandedOut, hi
<1>7. HandedOut(e, b - 1) = {p \in Prompts : p[1] < e \/ (p[1] = e /\ p[2] <= lo)}
  BY DEF HandedOut, lo
<1>8. ASSUME NEW p \in Prompts
      PROVE  p \in Batch(e, b) <=> p[1] = e /\ lo < p[2] /\ p[2] <= hi
  <2>1. p = <<p[1], p[2]>> /\ p[2] \in 1..top
    BY <1>3
  <2> QED BY <2>1, <1>1, <1>2
<1>9. ASSUME NEW p \in Prompts
      PROVE  p[1] \in Nat /\ p[2] \in Nat
  BY <1>3, <1>1, SyncAssumption
<1>10. HandedOut(e, b) = HandedOut(e, b - 1) \cup Batch(e, b)
  <2>1. ASSUME NEW p \in Prompts
        PROVE  p \in HandedOut(e, b) <=> p \in HandedOut(e, b - 1) \/ p \in Batch(e, b)
    <3> DEFINE x == p[1]
    <3> DEFINE y == p[2]
    <3>1. /\ p \in HandedOut(e, b) <=> x < e \/ (x = e /\ y <= hi)
          /\ p \in HandedOut(e, b - 1) <=> x < e \/ (x = e /\ y <= lo)
          /\ p \in Batch(e, b) <=> x = e /\ lo < y /\ y <= hi
      BY <1>6, <1>7, <1>8
    <3>2. x \in Nat /\ y \in Nat /\ e \in Nat
      BY <1>9, SyncAssumption
    <3> HIDE DEF x, y
    <3> QED BY <1>1, <3>1, <3>2, SyncAssumption
  <2>2. HandedOut(e, b) \subseteq Prompts /\ HandedOut(e, b - 1) \subseteq Prompts
    BY DEF HandedOut
  <2> QED BY <1>4, <2>1, <2>2
<1>11. HandedOut(e, b - 1) \cap Batch(e, b) = {}
  BY <1>1, <1>7, <1>8, <1>9
<1> QED BY <1>4, <1>5, <1>10, <1>11

LEMMA BatchCardinality ==
  ASSUME NEW e \in 0..MaxEpochs, NEW b \in 1..EpochLen
  PROVE  Cardinality(Batch(e, b)) = BatchSize
<1> DEFINE lo == (b - 1) * BatchSize
<1> DEFINE hi == b * BatchSize
<1>1. lo \in Nat /\ hi = lo + BatchSize /\ BatchSize \in Nat \ {0}
  <2>1. b - 1 \in Nat
    BY SyncAssumption
  <2> QED BY <2>1, Products, SyncAssumption
<1> HIDE DEF lo, hi
<1> DEFINE places == (lo + 1)..hi
<1> DEFINE f == [n \in places |-> <<e, n>>]
<1>2. Batch(e, b) = {<<e, n>> : n \in places}
  BY DEF Batch, lo, hi
<1>3. IsFiniteSet(places) /\ Cardinality(places) = BatchSize
  BY <1>1, FS_Interval
<1>4. f \in Bijection(places, Batch(e, b))
  BY <1>2 DEF Bijection, Injection, Surjection, IsInjective
<1> QED BY <1>3, <1>4, FS_Bijection DEF ExistsBijection

LEMMA NextEpochHandsOut ==
  ASSUME NEW e \in 0..MaxEpochs
  PROVE  HandedOut(e + 1, 0) = HandedOut(e, EpochLen)
<1> DEFINE top == EpochLen * BatchSize
<1>1. top \in Nat /\ 0 * BatchSize = 0
  BY SyncAssumption
<1> HIDE DEF top
<1>2. Prompts = (0..MaxEpochs) \X (1..top)
  BY DEF Prompts, top
<1>3. ASSUME NEW p \in Prompts
      PROVE  p[1] \in Nat /\ p[2] \in 1..top
  BY <1>2, SyncAssumption
<1>4. HandedOut(e + 1, 0) = {p \in Prompts : p[1] < e + 1 \/ (p[1] = e + 1 /\ p[2] <= 0)}
  BY <1>1 DEF HandedOut
<1>5. HandedOut(e, EpochLen) = {p \in Prompts : p[1] < e \/ (p[1] = e /\ p[2] <= top)}
  BY DEF HandedOut, top
<1> QED BY <1>1, <1>3, <1>4, <1>5

LEMMA FirstNotEmpty ==
  ASSUME NEW s, NEW prompts, IsFirst(s, prompts)
  PROVE  s # {}
  BY FS_EmptySet, SyncAssumption DEF IsFirst
-----------------------------------------------------------------------------
(* Counters and types *)

Counters ==
  /\ pc \in {"rollout", "validation"} => goal = pc
  /\ pc \notin Ended => (selected # {} <=> (Making \/ Made))
  /\ pc = "batch" \/ Fetching \/ Making \/ Made => epoch < MaxEpochs /\ steps < MaxSteps
  /\ Fetching \/ Making \/ Made => cur < pos
  /\ Made => version = steps + 1
  /\ ~Made /\ pc \notin Ended => version = steps
  /\ pc = "batch" \/ (Fetching /\ pc # "filter") => gens <= MaxGenBatches
  /\ ~DynamicSampling /\ (pc = "batch" \/ (Fetching /\ pc # "filter")) => gens = 0

SavedCounters == saved.cur <= saved.pos

TInv == TypeOK /\ Counters /\ SavedCounters

LEMMA TypeInit == Init => TInv
<1> SUFFICES ASSUME Init PROVE TInv
  OBVIOUS
<1> USE SyncAssumption, DeadlineAssumption DEF Init, DeadlineInit, NoCheckpoint
<1>1. TypeOK
  <2>1. LoopType /\ SampleType
    BY DEF LoopType, SampleType, Places, Ended
  <2>2. MemoryType
    BY DEF MemoryType, Policy, Engine
  <2>3. RunType /\ DeadlineTypeOK
    <3>1. val \in BOOLEAN /\ byTimeout \in BOOLEAN /\ lastSaved \in BOOLEAN /\ steady \in BOOLEAN
      OBVIOUS
    <3>2. restarts \in 0..MaxRestarts /\ faults \in 0..MaxFaults
      OBVIOUS
    <3> QED BY <3>1, <3>2 DEF RunType, DeadlineTypeOK
  <2>4. SavedType
    BY DEF SavedType
  <2> QED BY <2>1, <2>2, <2>3, <2>4 DEF TypeOK
<1>2. Counters
  BY DEF Counters, Places, Ended, Fetching, Making, Made, Readying
<1> QED BY <1>1, <1>2 DEF TInv, SavedCounters

LEMMA TypeStep == TInv /\ [Next]_vars => TInv'
<1> SUFFICES ASSUME TInv, [Next]_vars PROVE TInv'
  OBVIOUS
<1> USE SyncAssumption, DeadlineAssumption
<1> USE DEF TInv, TypeOK, LoopType, SampleType, MemoryType, RunType, SavedType,
            Counters, SavedCounters, DeadlineTypeOK, Places, Ended, Policy, Engine,
            Fetching, Making, Made, Readying, loopVars, sampleVars, memoryVars, runVars,
            history, bounds, deadlineVars
<1>1. CASE Start
  BY <1>1 DEF Start, Ready
<1>2. CASE BeginEpoch
  BY <1>2 DEF BeginEpoch
<1>3. CASE EndRun
  BY <1>3 DEF EndRun
<1>4. CASE NextBatch
  <2>1. TypeOK'
    <3>1. LoopType'
      BY <1>4 DEF NextBatch, Ready
    <3>2. SampleType'
      BY <1>4 DEF NextBatch, Ready
    <3>3. MemoryType'
      BY <1>4 DEF NextBatch, Ready
    <3>4. RunType'
      BY <1>4 DEF NextBatch, Ready
    <3>5. SavedType'
      BY <1>4 DEF NextBatch, Ready
    <3>6. DeadlineTypeOK'
      BY <1>4 DEF NextBatch, Ready
    <3> QED BY <3>1, <3>2, <3>3, <3>4, <3>5, <3>6 DEF TypeOK
  <2>2. Counters'
    BY <1>4 DEF NextBatch, Ready
  <2>3. SavedCounters'
    BY <1>4 DEF NextBatch, Ready
  <2> QED BY <2>1, <2>2, <2>3
<1>5. CASE EndEpoch
  BY <1>5 DEF EndEpoch
<1>6. CASE OffloadBeforeRefit
  BY <1>6 DEF OffloadBeforeRefit, Step
<1>7. CASE WakeWeights
  <2>1. TypeOK'
    <3>1. LoopType'
      BY <1>7 DEF WakeWeights, Step, Bring
    <3>2. SampleType'
      BY <1>7 DEF WakeWeights, Step, Bring
    <3>3. MemoryType'
      BY <1>7 DEF WakeWeights, Step, Bring
    <3>4. RunType'
      BY <1>7 DEF WakeWeights, Step, Bring
    <3>5. SavedType'
      BY <1>7 DEF WakeWeights, Step, Bring
    <3>6. DeadlineTypeOK'
      BY <1>7 DEF WakeWeights, Step, Bring
    <3> QED BY <3>1, <3>2, <3>3, <3>4, <3>5, <3>6 DEF TypeOK
  <2>2. Counters'
    BY <1>7 DEF WakeWeights, Step, Bring
  <2>3. SavedCounters'
    BY <1>7 DEF WakeWeights, Step, Bring
  <2> QED BY <2>1, <2>2, <2>3
<1>8. CASE Transfer
  BY <1>8 DEF Transfer, Step
<1>9. CASE OffloadAfterRefit
  BY <1>9 DEF OffloadAfterRefit, Step
<1>10. CASE Wake
  <2>1. TypeOK'
    <3>1. LoopType'
      BY <1>10 DEF Wake, Bring
    <3>2. SampleType'
      BY <1>10 DEF Wake, Bring
    <3>3. MemoryType'
      BY <1>10 DEF Wake, Bring
    <3>4. RunType'
      BY <1>10 DEF Wake, Bring
    <3>5. SavedType'
      BY <1>10 DEF Wake, Bring
    <3>6. DeadlineTypeOK'
      BY <1>10 DEF Wake, Bring
    <3> QED BY <3>1, <3>2, <3>3, <3>4, <3>5, <3>6 DEF TypeOK
  <2>2. Counters'
    BY <1>10 DEF Wake, Bring
  <2>3. SavedCounters'
    BY <1>10 DEF Wake, Bring
  <2> QED BY <2>1, <2>2, <2>3
<1>11. CASE Filter
  <2>1. /\ pc = "filter" /\ pos \in 1..EpochLen /\ epoch \in 0..MaxEpochs
        /\ UNCHANGED <<goal, epoch, cur, steps, pos, gens>>
        /\ UNCHANGED <<stale, version, engine, gpu, awake, val, byTimeout, saved>>
        /\ UNCHANGED <<trained, restarts, faults, clock, marked, iterations, lastSaved, steady>>
    BY <1>11 DEF Filter
  <2>2. Batch(epoch, pos) \subseteq Prompts /\ Batch(epoch, pos) # {}
    BY <2>1, BatchFacts
  <2>3. CASE \E kept \in SUBSET Batch(epoch, pos) : Complete(kept)
    <3>1. PICK kept \in SUBSET Batch(epoch, pos) : Complete(kept)
      BY <2>3
    <3>2. Filtered(kept) \subseteq Prompts
      BY <2>2 DEF Filtered
    <3>3. selected' \subseteq Prompts /\ selected' # {}
      BY <3>1, <3>2, FirstNotEmpty DEF Complete
    <3>4. cache' \subseteq Prompts /\ passed' \subseteq Prompts /\ pc' = "logprobs"
      BY <2>2, <3>1, <3>2 DEF Complete
    <3> QED BY <2>1, <3>3, <3>4
  <2>4. CASE DynamicSampling /\
             \E kept \in SUBSET Batch(epoch, pos) : Incomplete(kept) \/ Exhausted(kept)
    <3>1. PICK kept \in SUBSET Batch(epoch, pos) : Incomplete(kept) \/ Exhausted(kept)
      BY <2>4
    <3>2. /\ cache' \subseteq Prompts /\ passed' \subseteq Prompts /\ selected' = selected
          /\ \/ pc' = "batch" /\ gens <= MaxGenBatches
             \/ pc' = "failed"
      BY <2>2, <3>1 DEF Incomplete, Exhausted, Filtered
    <3>3. TypeOK'
      BY <2>1, <3>2
    <3> QED BY <2>1, <2>4, <3>2, <3>3
  <2>5. CASE Whole
    BY <2>1, <2>2, <2>5 DEF Whole
  <2> QED BY <1>11, <2>3, <2>4, <2>5 DEF Filter
<1>12. CASE Logprobs
  BY <1>12 DEF Logprobs, Step
<1>13. CASE Train
  BY <1>13 DEF Train, Step
<1>14. CASE AfterTraining
  BY <1>14 DEF AfterTraining, Ready
<1>15. CASE Validate
  <2>1. TypeOK'
    <3>1. LoopType'
      BY <1>15 DEF Validate, Step, Bring
    <3>2. SampleType'
      BY <1>15 DEF Validate, Step, Bring
    <3>3. MemoryType'
      BY <1>15 DEF Validate, Step, Bring
    <3>4. RunType'
      BY <1>15 DEF Validate, Step, Bring
    <3>5. SavedType'
      BY <1>15 DEF Validate, Step, Bring
    <3>6. DeadlineTypeOK'
      BY <1>15 DEF Validate, Step, Bring
    <3> QED BY <3>1, <3>2, <3>3, <3>4, <3>5, <3>6 DEF TypeOK
  <2>2. Counters'
    BY <1>15 DEF Validate, Step, Bring
  <2>3. SavedCounters'
    BY <1>15 DEF Validate, Step, Bring
  <2> QED BY <2>1, <2>2, <2>3
<1>16. CASE Finish
  BY <1>16 DEF Finish, MarkAndCheck, CheckSave
<1>17. CASE Save
  BY <1>17 DEF Save, Step
<1>18. CASE NextStep
  BY <1>18 DEF NextStep
<1>19. CASE Restart
  <2>0. /\ saved.steps \in 0..MaxSteps /\ saved.epoch \in 0..MaxEpochs
        /\ saved.pos \in 0..EpochLen /\ saved.cur \in 0..EpochLen
        /\ saved.trained \subseteq Prompts /\ saved.passed \subseteq Prompts
        /\ saved.cur <= saved.pos
    OBVIOUS
  <2>1. TypeOK'
    <3>1. LoopType'
      <4>1. /\ pc' = "start" /\ goal' = "rollout" /\ epoch' = saved.epoch
            /\ steps' = saved.steps /\ pos' = saved.pos /\ cur' = saved.cur
        BY <1>19 DEF Restart
      <4> QED BY <2>0, <4>1
    <3>2. SampleType'
      BY <1>19, <2>0 DEF Restart, NewChecker
    <3>3. MemoryType'
      <4>1. /\ version' = saved.steps /\ steps' = saved.steps /\ engine' = -1
            /\ gpu' = Policy /\ awake' = {} /\ stale' = TRUE
        BY <1>19 DEF Restart
      <4>2. stale' \in BOOLEAN
        BY <4>1
      <4>3. version' \in 0..(steps' + 1) /\ engine' \in -1..version'
        BY <2>0, <4>1
      <4> QED BY <4>1, <4>2, <4>3
    <3>4. RunType'
      <4>1. val' \in BOOLEAN /\ byTimeout' \in BOOLEAN
        BY <1>19 DEF Restart
      <4>2. restarts' \in 0..MaxRestarts /\ faults' \in 0..MaxFaults
        BY <1>19 DEF Restart
      <4> QED BY <4>1, <4>2
    <3>5. SavedType'
      BY <1>19, <2>0 DEF Restart, NewChecker
    <3>6. DeadlineTypeOK'
      <4>1. lastSaved' \in BOOLEAN /\ steady' \in BOOLEAN
        BY <1>19 DEF Restart, NewChecker
      <4>2. clock' \in Nat /\ marked' \in 0..clock' /\ iterations' \in Nat
        BY <1>19 DEF Restart, NewChecker
      <4> QED BY <4>1, <4>2
    <3> QED BY <3>1, <3>2, <3>3, <3>4, <3>5, <3>6 DEF TypeOK
  <2>2. Counters'
    BY <1>19, <2>0 DEF Restart, NewChecker
  <2>3. SavedCounters'
    BY <1>19, <2>0 DEF Restart, NewChecker
  <2> QED BY <2>1, <2>2, <2>3
<1>20. ASSUME NEW d \in Durations, Rollout(d) PROVE TInv'
  <2>1. TypeOK'
    <3>1. LoopType'
      BY <1>20 DEF Rollout, Step, Elapse, Bring
    <3>2. SampleType'
      BY <1>20 DEF Rollout, Step, Elapse, Bring
    <3>3. MemoryType'
      BY <1>20 DEF Rollout, Step, Elapse, Bring
    <3>4. RunType'
      BY <1>20 DEF Rollout, Step, Elapse, Bring
    <3>5. SavedType'
      BY <1>20 DEF Rollout, Step, Elapse, Bring
    <3>6. DeadlineTypeOK'
      BY <1>20 DEF Rollout, Step, Elapse, Bring
    <3> QED BY <3>1, <3>2, <3>3, <3>4, <3>5, <3>6 DEF TypeOK
  <2>2. Counters'
    BY <1>20 DEF Rollout, Step, Elapse, Bring
  <2>3. SavedCounters'
    BY <1>20 DEF Rollout, Step, Elapse, Bring
  <2> QED BY <2>1, <2>2, <2>3
<1>21. CASE UNCHANGED vars
  BY <1>21 DEF vars
<1> QED
  BY <1>1, <1>2, <1>3, <1>4, <1>5, <1>6, <1>7, <1>8, <1>9, <1>10, <1>11, <1>12, <1>13, <1>14,
     <1>15, <1>16, <1>17, <1>18, <1>19, <1>20, <1>21
     DEF Next, Driver

THEOREM TypeInvariant == Spec => []TInv
  BY TypeInit, TypeStep, PTL DEF Spec

\* The counters stay within the run's bounds, a step's number of generated
\* batches included, and every variable keeps its type.
THEOREM TypeCorrect == Spec => []TypeOK
  BY TypeInvariant, PTL DEF TInv

-----------------------------------------------------------------------------
(* The weights that rollouts use *)

Fresh ==
  /\ ~stale => engine = version
  /\ pc \in {"offload", "wakeWeights", "transfer", "wakeCache"} => stale
  /\ pc \in {"wakeAll", "rollout", "validation", "filter", "logprobs"} => ~stale
  /\ pc \in {"settle", "wakeCache"} => engine = version

LEMMA FreshStep == TInv /\ Fresh /\ [Next]_vars => Fresh'
<1> SUFFICES ASSUME TInv, Fresh, [Next]_vars PROVE Fresh'
  OBVIOUS
<1> USE DEF Fresh, TInv, TypeOK, LoopType, MemoryType
<1>1. CASE Start \/ BeginEpoch \/ EndRun \/ NextBatch \/ EndEpoch \/ AfterTraining
  BY <1>1 DEF Start, BeginEpoch, EndRun, NextBatch, EndEpoch, AfterTraining, Ready,
              memoryVars
<1>2. CASE OffloadBeforeRefit \/ WakeWeights \/ Transfer \/ OffloadAfterRefit
  BY <1>2 DEF OffloadBeforeRefit, WakeWeights, Transfer, OffloadAfterRefit, Step
<1>3. CASE Wake
  BY <1>3 DEF Wake
<1>4. CASE \E d \in Durations : Rollout(d)
  BY <1>4 DEF Rollout, Step
<1>5. CASE Filter
  BY <1>5 DEF Filter, Complete, Incomplete, Exhausted, Whole, memoryVars
<1>6. CASE Logprobs \/ Train \/ Validate \/ Finish \/ Save \/ NextStep
  BY <1>6 DEF Logprobs, Train, Validate, Finish, Save, NextStep, Step, memoryVars
<1>7. CASE Restart
  BY <1>7 DEF Restart
<1>8. CASE UNCHANGED vars
  BY <1>8 DEF vars, loopVars, memoryVars
<1> QED BY <1>1, <1>2, <1>3, <1>4, <1>5, <1>6, <1>7, <1>8 DEF Next, Driver

\* Rollouts and validations use the weights of the policy as it is.
THEOREM RolloutsAreOnPolicy == Spec => []OnPolicy
<1>1. Init => Fresh
  BY DEF Init, Fresh
<1>2. Fresh => OnPolicy
  BY DEF Fresh, OnPolicy
<1> QED BY <1>1, <1>2, FreshStep, TypeInvariant, PTL DEF Spec

-----------------------------------------------------------------------------
(* Who holds the GPU *)

\* Places where the engine sleeps, if it never failed to.
Resting == {"start", "epoch", "batch", "filter", "logprobs", "training", "trained",
            "finish", "save", "next", "offload", "wakeWeights", "wakeAll"}

Apart ==
  faults = 0 =>
    /\ pc \in Resting => awake = {}
    /\ pc \in {"transfer", "wakeCache"} => awake = {"weights"}
    /\ pc = "settle" => awake = IF stale THEN {"weights"} ELSE {}
    /\ pc \in {"wakeWeights", "transfer"} => "optimizer" \notin gpu
    /\ pc = "settle" /\ stale => "optimizer" \notin gpu
    /\ pc \in {"wakeCache", "wakeAll", "rollout", "validation"} => gpu = {}
    /\ awake # {} => "optimizer" \notin gpu
    /\ "kv_cache" \in awake => gpu = {}

LEMMA NoFaultNow == TInv /\ [Next]_vars /\ faults' = 0 => faults = 0
<1> SUFFICES ASSUME TInv, [Next]_vars PROVE faults' = faults \/ faults' = faults + 1
  BY SyncAssumption DEF TInv, TypeOK, RunType
<1>1. CASE \/ Start \/ BeginEpoch \/ EndRun \/ NextBatch \/ EndEpoch \/ AfterTraining
           \/ OffloadBeforeRefit \/ Transfer \/ OffloadAfterRefit
  BY <1>1 DEF Start, BeginEpoch, EndRun, NextBatch, EndEpoch, AfterTraining,
              OffloadBeforeRefit, Transfer, OffloadAfterRefit, bounds
<1>2. CASE Filter \/ Logprobs \/ Train \/ Finish \/ Save \/ NextStep \/ Restart
  BY <1>2 DEF Filter, Logprobs, Train, Finish, Save, NextStep, Restart, bounds
<1>3. CASE WakeWeights \/ Wake \/ Validate \/ \E d \in Durations : Rollout(d)
  BY <1>3 DEF WakeWeights, Wake, Validate, Rollout, Bring
<1>4. CASE UNCHANGED vars
  BY <1>4 DEF vars, bounds
<1> QED BY <1>1, <1>2, <1>3, <1>4 DEF Next, Driver

LEMMA ApartStep == TInv /\ Fresh /\ Apart /\ [Next]_vars => Apart'
<1> SUFFICES ASSUME TInv, Fresh, Apart, [Next]_vars PROVE Apart'
  OBVIOUS
<1> SUFFICES ASSUME faults = 0 PROVE Apart'
  BY NoFaultNow DEF Apart
<1> USE DEF Apart, Resting
<1>1. CASE Start \/ BeginEpoch \/ EndRun \/ NextBatch \/ EndEpoch \/ AfterTraining
  BY <1>1 DEF Start, BeginEpoch, EndRun, NextBatch, EndEpoch, AfterTraining, Ready,
              memoryVars, Ended
<1>2. CASE OffloadBeforeRefit
  BY <1>2 DEF OffloadBeforeRefit, Step
<1>3. CASE WakeWeights
  BY <1>3 DEF WakeWeights, Step, Bring, Fresh
<1>4. CASE Transfer
  BY <1>4 DEF Transfer, Step, Fresh
<1>5. CASE OffloadAfterRefit
  BY <1>5 DEF OffloadAfterRefit, Step, Fresh
<1>6. CASE Wake
  BY <1>6 DEF Wake, Bring, TInv, TypeOK, LoopType, Engine
<1>7. CASE \E d \in Durations : Rollout(d)
  BY <1>7 DEF Rollout, Step, Bring
<1>8. CASE Filter
  BY <1>8 DEF Filter, Complete, Incomplete, Exhausted, Whole, memoryVars
<1>9. CASE Logprobs \/ Train \/ Finish \/ Save \/ NextStep
  BY <1>9 DEF Logprobs, Train, Finish, Save, NextStep, Step, memoryVars, Policy
<1>10. CASE Validate
  BY <1>10 DEF Validate, Step, Bring
<1>11. CASE Restart
  BY <1>11 DEF Restart
<1>12. CASE UNCHANGED vars
  BY <1>12 DEF vars, loopVars, memoryVars
<1> QED BY <1>1, <1>2, <1>3, <1>4, <1>5, <1>6, <1>7, <1>8, <1>9, <1>10, <1>11, <1>12
        DEF Next, Driver

\* While nothing failed, training and generation never hold the GPU together.
THEOREM GpuIsExclusive == Spec => []GpuExclusive
<1>1. Init => Fresh /\ Apart
  BY DEF Init, Fresh, Apart, Resting
<1>2. Apart => GpuExclusive
  BY DEF Apart, GpuExclusive
<1> QED BY <1>1, <1>2, FreshStep, ApartStep, TypeInvariant, PTL DEF Spec

-----------------------------------------------------------------------------
(* What becomes of each prompt *)

Split(a, b, c, whole) ==
  /\ a \cup b \cup c = whole
  /\ a \cap b = {} /\ a \cap c = {} /\ b \cap c = {}

\* The three accounts, at each place of the loop and in the checkpoint.
Books ==
  /\ Split(saved.trained, saved.passed, {}, HandedOut(saved.epoch, saved.pos))
  /\ Before \/ pc \in {"epoch", "batch"} =>
       Split(trained, passed, cache, HandedOut(epoch, pos))
  /\ Fetching => Split(trained, passed, cache, HandedOut(epoch, pos - 1))
  /\ Making => Split(trained, passed, cache \cup selected, HandedOut(epoch, pos))
  /\ Made => Split(trained, passed, cache \ selected, HandedOut(epoch, pos))
  /\ Making \/ Made => Cardinality(selected) = PromptsPerStep
  /\ saved.steps <= version

LEMMA BooksInit == Init => Books
<1> SUFFICES ASSUME Init PROVE Books
  OBVIOUS
<1>1. HandedOut(0, 0) = {}
  <2>1. Prompts = (0..MaxEpochs) \X (1..EpochLen * BatchSize) /\ 0 * BatchSize = 0
        /\ EpochLen * BatchSize \in Nat
    BY SyncAssumption DEF Prompts
  <2>2. ASSUME NEW p \in Prompts PROVE p[1] \in Nat /\ p[2] \in Nat \ {0}
    BY <2>1, SyncAssumption
  <2> QED BY <2>1, <2>2 DEF HandedOut
<1> QED BY <1>1 DEF Init, Books, NoCheckpoint, Split, Before, Fetching, Making, Made, Readying

LEMMA BooksStep == TInv /\ Books /\ [Next]_vars => Books'
<1> SUFFICES ASSUME TInv, Books, [Next]_vars PROVE Books'
  OBVIOUS
<1> USE DEF Books, Split, Before, Fetching, Making, Made, Readying
<1>0. /\ epoch \in 0..MaxEpochs /\ pos \in 0..EpochLen /\ EpochLen \in Nat
      /\ version \in Nat /\ steps \in Nat /\ saved.steps \in Nat
  BY SyncAssumption DEF TInv, TypeOK, LoopType, MemoryType, SavedType
<1>1. CASE Start \/ EndRun \/ AfterTraining
  BY <1>1 DEF Start, EndRun, AfterTraining, Ready, sampleVars, memoryVars, runVars, history,
     Ended, TInv, Counters
<1>2. CASE BeginEpoch
  BY <1>2 DEF BeginEpoch, memoryVars, runVars
<1>3. CASE NextBatch
  <2>1. pos' - 1 = pos
    BY <1>0, <1>3 DEF NextBatch
  <2> QED BY <1>3, <2>1 DEF NextBatch, Ready, sampleVars, memoryVars, history, TInv, Counters, Ended
<1>4. CASE EndEpoch
  BY <1>0, <1>4, NextEpochHandsOut DEF EndEpoch, sampleVars, memoryVars, runVars, history
<1>5. CASE OffloadBeforeRefit \/ WakeWeights \/ Transfer \/ OffloadAfterRefit \/ Wake
  BY <1>5 DEF OffloadBeforeRefit, WakeWeights, Transfer, OffloadAfterRefit, Wake, Step,
     sampleVars, runVars, history, TInv, TypeOK, LoopType
<1>6. CASE \E d \in Durations : Rollout(d)
  BY <1>6 DEF Rollout, Step, runVars, history
<1>7. CASE Filter
  <2>1. /\ pc = "filter" /\ pos \in 1..EpochLen /\ Fetching
        /\ UNCHANGED <<goal, epoch, pos, saved, trained, version>>
    BY <1>0, <1>7 DEF Filter, TInv, Counters, TypeOK, LoopType, memoryVars, runVars
  <2>2. /\ HandedOut(epoch, pos) = HandedOut(epoch, pos - 1) \cup Batch(epoch, pos)
        /\ HandedOut(epoch, pos - 1) \cap Batch(epoch, pos) = {}
    BY <1>0, <2>1, BatchFacts
  <2>3. Split(trained, passed, cache, HandedOut(epoch, pos - 1))
    BY <2>1
  <2>4. CASE \E kept \in SUBSET Batch(epoch, pos) : Complete(kept)
    <3>1. PICK kept \in SUBSET Batch(epoch, pos) : Complete(kept)
      BY <2>4
    <3>2. /\ selected' \subseteq cache' /\ Cardinality(selected') = PromptsPerStep
          /\ cache' = cache \cup kept /\ pc' = "logprobs"
          /\ passed' = passed \cup (Batch(epoch, pos) \ kept)
      BY <3>1 DEF Complete, Filtered, IsFirst
    <3>3. Split(trained, passed', cache', HandedOut(epoch, pos))
      BY <2>2, <2>3, <3>1, <3>2
    <3> QED BY <2>1, <3>2, <3>3
  <2>5. CASE \E kept \in SUBSET Batch(epoch, pos) : Incomplete(kept) \/ Exhausted(kept)
    <3>1. PICK kept \in SUBSET Batch(epoch, pos) : Incomplete(kept) \/ Exhausted(kept)
      BY <2>5
    <3> QED BY <2>1, <2>2, <2>3, <3>1 DEF Incomplete, Exhausted, Filtered, Ended
  <2>6. CASE ~DynamicSampling /\ Whole
    <3>1. Cardinality(Batch(epoch, pos)) = PromptsPerStep
      BY <1>0, <2>1, <2>6, BatchCardinality, SyncAssumption
    <3> QED BY <2>1, <2>2, <2>3, <2>6, <3>1 DEF Whole
  <2> QED BY <1>7, <2>4, <2>5, <2>6 DEF Filter
<1>8. CASE Logprobs \/ Finish \/ Validate
  BY <1>8 DEF Logprobs, Finish, Validate, Step, sampleVars, runVars, history, memoryVars,
     TInv, Counters, Ended
<1>9. CASE Train
  BY <1>0, <1>9 DEF Train, Step, sampleVars, runVars
<1>10. CASE Save
  BY <1>0, <1>10 DEF Save, Step, sampleVars, history, TInv, Counters
<1>11. CASE NextStep
  BY <1>11 DEF NextStep, memoryVars, runVars
<1>12. CASE Restart
  BY <1>0, <1>12 DEF Restart
<1>13. CASE UNCHANGED vars
  BY <1>13 DEF vars, loopVars, memoryVars, sampleVars, runVars, history
<1> QED BY <1>1, <1>2, <1>3, <1>4, <1>5, <1>6, <1>7, <1>8, <1>9, <1>10, <1>11, <1>12, <1>13
        DEF Next, Driver

THEOREM BooksBalance == Spec => []Books
  BY BooksInit, BooksStep, TypeInvariant, PTL DEF Spec

\* Each prompt handed out is in exactly one account, whatever dies when.
THEOREM PromptsAreAccounted == Spec => []Accounted
<1>1. Books => Accounted
  BY DEF Books, Split, Accounted
<1> QED BY <1>1, BooksBalance, PTL

\* An optimizer step is made on one step's prompts, new ones to the weights.
THEOREM StepsUseFreshPrompts == Spec => StepsAreFresh
<1> DEFINE A == version' > version =>
                  /\ trained' = trained \cup selected
                  /\ trained \cap selected = {}
                  /\ Cardinality(selected) = PromptsPerStep
<1>1. TInv /\ Books /\ [Next]_vars => [A]_vars
  <2> SUFFICES ASSUME TInv, Books, Next, version' > version PROVE A
    OBVIOUS
  <2>1. version \in Nat /\ saved.steps \in Nat /\ saved.steps <= version
    BY SyncAssumption DEF TInv, TypeOK, LoopType, MemoryType, SavedType, Books
  <2>2. Train
    BY <2>1 DEF Next, Driver, Start, BeginEpoch, EndRun, NextBatch, EndEpoch, AfterTraining,
       OffloadBeforeRefit, WakeWeights, Transfer, OffloadAfterRefit, Wake, Rollout, Filter,
       Logprobs, Validate, Finish, Save, NextStep, Restart, memoryVars
  <2> QED BY <2>2 DEF Train, Step, Books, Split, Making
<1> QED BY <1>1, BooksBalance, TypeInvariant, PTL DEF Spec, StepsAreFresh

-----------------------------------------------------------------------------
(* The deadline *)

\* If the average so far, anticipated, is within the deadline, and the next
\* iteration is no longer than that average, then it ends within the deadline.
LEMMA AverageKeepsDeadline ==
  ASSUME NEW n \in Nat \ {0}, NEW sum \in Nat, NEW now \in Nat, NEW limit \in Nat,
         (n + 1) * sum < limit * n,
         (now - sum) * n <= sum
  PROVE  now < limit
<1> SUFFICES ASSUME limit <= now PROVE FALSE
  OBVIOUS
<1> DEFINE nn == now * n
<1> DEFINE ln == limit * n
<1> DEFINE sn == sum * n
<1>1. nn \in Nat /\ ln \in Nat /\ sn \in Nat
  OBVIOUS
<1>2. ln <= nn
  <2>1. PICK k \in Nat : now = limit + k
    <3>1. now - limit \in Nat /\ now = limit + (now - limit)
      OBVIOUS
    <3> QED BY <3>1
  <2>2. nn = ln + k * n /\ k * n \in Nat
    BY <2>1
  <2> QED BY <1>1, <2>2
<1>3. (n + 1) * sum = sn + sum /\ (now - sum) * n = nn - sn
  OBVIOUS
<1> HIDE DEF nn, ln, sn
<1> QED BY <1>1, <1>2, <1>3

Clocked ==
  /\ pc \notin Ended /\ ~lastSaved /\ iterations > 0 =>
       (iterations + 1) * marked < MustSaveBy * iterations
  /\ byTimeout => lastSaved /\ pc \in {"save", "next", "done"}
  /\ lastSaved /\ pc \notin Ended => byTimeout
  /\ byTimeout /\ steady => clock < MustSaveBy
  /\ pc = "next" /\ byTimeout => saved.steps = steps + 1 /\ saved.trained = trained
  /\ pc = "done" /\ byTimeout => saved.steps = steps /\ saved.trained = trained

LEMMA ClockedStep == TInv /\ Clocked /\ [Next]_vars => Clocked'
<1> SUFFICES ASSUME TInv, Clocked, [Next]_vars PROVE Clocked'
  OBVIOUS
<1>0. /\ clock \in Nat /\ marked \in 0..clock /\ iterations \in Nat /\ steps \in Nat
      /\ lastSaved \in BOOLEAN /\ steady \in BOOLEAN /\ byTimeout \in BOOLEAN
      /\ pc \in Places /\ goal \in {"rollout", "validation"}
  BY SyncAssumption DEF TInv, TypeOK, LoopType, RunType, DeadlineTypeOK
<1> USE DEF Clocked, Ended
<1>1. CASE Start \/ BeginEpoch \/ EndRun \/ NextBatch \/ EndEpoch \/ AfterTraining
  BY <1>1 DEF Start, BeginEpoch, EndRun, NextBatch, EndEpoch, AfterTraining, Ready,
     runVars, deadlineVars
<1>2. CASE OffloadBeforeRefit \/ WakeWeights \/ Transfer \/ OffloadAfterRefit \/ Wake
  BY <1>0, <1>2 DEF OffloadBeforeRefit, WakeWeights, Transfer, OffloadAfterRefit, Wake,
     Step, runVars, deadlineVars
<1>3. CASE \E d \in Durations : Rollout(d)
  BY <1>3 DEF Rollout, Step, Elapse, runVars
<1>4. CASE Filter
  BY <1>4 DEF Filter, Complete, Incomplete, Exhausted, Whole, runVars, deadlineVars
<1>5. CASE Logprobs \/ Train \/ Validate
  BY <1>5 DEF Logprobs, Train, Validate, Step, runVars, deadlineVars
<1>6. CASE Finish
  <2>1. /\ ~byTimeout /\ ~lastSaved /\ pc' \in {"save", "next"} /\ byTimeout' = CheckSave
        /\ marked' = clock /\ iterations' = iterations + 1 /\ clock' = clock
        /\ lastSaved' = (lastSaved \/ CheckSave) /\ steady' = (steady /\ WithinAverage)
        /\ byTimeout' => pc' = "save"
    BY <1>6 DEF Finish, MarkAndCheck, CheckSave
  <2>2. CASE CheckSave
    <3>1. steady' => clock < MustSaveBy
      <4> SUFFICES ASSUME WithinAverage, iterations > 0 PROVE clock < MustSaveBy
        BY <1>0, <2>1 DEF WithinAverage
      <4>1. (clock - marked) * iterations <= marked
        BY DEF WithinAverage
      <4>2. (iterations + 1) * marked < MustSaveBy * iterations
        BY <1>6, <2>1 DEF Finish
      <4> QED BY <1>0, <4>1, <4>2, AverageKeepsDeadline, DeadlineAssumption
    <3> QED BY <2>1, <2>2, <3>1
  <2>3. CASE ~CheckSave
    <3>1. (iterations + 1) + 1 > 0 /\ iterations + 1 > 0
      BY <1>0
    <3>2. ~(clock * (iterations + 1) + clock >= MustSaveBy * (iterations + 1))
      BY <2>1, <2>3, <3>1 DEF CheckSave, Due
    <3>3. clock * (iterations + 1) + clock = ((iterations + 1) + 1) * clock
      BY <1>0
    <3>4. /\ MustSaveBy * (iterations + 1) \in Nat
          /\ clock * (iterations + 1) + clock \in Nat
      BY <1>0, DeadlineAssumption
    <3>5. ((iterations + 1) + 1) * clock < MustSaveBy * (iterations + 1)
      BY <3>2, <3>3, <3>4
    <3> QED BY <2>1, <2>3, <3>5
  <2> QED BY <2>2, <2>3
<1>7. CASE Save
  BY <1>7 DEF Save, Step, deadlineVars, history
<1>8. CASE NextStep
  BY <1>8 DEF NextStep, runVars, deadlineVars
<1>9. CASE Restart
  BY <1>9 DEF Restart, NewChecker
<1>10. CASE UNCHANGED vars
  BY <1>10 DEF vars, loopVars, runVars, history, deadlineVars
<1> QED BY <1>1, <1>2, <1>3, <1>4, <1>5, <1>6, <1>7, <1>8, <1>9, <1>10 DEF Next, Driver

\* A run stopped for its deadline has just saved, and in time.
THEOREM DeadlineIsKept == Spec => []DeadlineKept
<1>1. Init => Clocked
  BY DEF Init, DeadlineInit, Clocked
<1>2. Clocked => DeadlineKept
  BY DEF Clocked, DeadlineKept
<1> QED BY <1>1, <1>2, ClockedStep, TypeInvariant, PTL DEF Spec
=============================================================================
