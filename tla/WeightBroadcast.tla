-------------------------- MODULE WeightBroadcast --------------------------
(***************************************************************************)
(* The refit of an engine on GPUs of its own: the policy's rank 0          *)
(* broadcasts the parameters in packed groups, and every other member of   *)
(* the NCCL group receives them (nemo_rl/utils/packed_tensor.py,           *)
(* nemo_rl/models/generation/vllm/vllm_backend.py and vllm_worker.py, and  *)
(* the last branch of refit_policy_generation, nemo_rl/algorithms/grpo.py).*)
(*                                                                         *)
(* Every member cuts the list of parameters into groups by itself.  A      *)
(* broadcast is queued on the stream of its group's buffer and happens     *)
(* when all members have queued it; the members' broadcasts are matched in *)
(* the order in which each of them queued its own.                         *)
(***************************************************************************)
EXTENDS Integers, Sequences, FiniteSets

CONSTANTS
  NParams,     \* number of parameters
  Sizes,       \* how many bytes a parameter may have
  Trainers,    \* policy workers
  Source,      \* the one with rank 0
  Ranks,       \* workers of the engines
  First,       \* the worker of each engine whose result is looked at
  Targets,     \* target packed sizes that the GPUs' memories may lead to
  NumBuffers,  \* NRL_REFIT_NUM_BUFFERS
  MaxRefits,   \* bound: number of refits
  MaxFaults    \* bound: how often loading weights raises

Members == Trainers \cup Ranks
Params == 1..NParams

ASSUME BroadcastAssumption ==
  /\ NParams \in Nat \ {0}
  /\ Sizes \subseteq Nat /\ Targets \subseteq Nat
  /\ Source \in Trainers /\ First \subseteq Ranks /\ Trainers \cap Ranks = {}
  /\ NumBuffers \in Nat \ {0}
  /\ MaxRefits \in Nat /\ MaxFaults \in Nat

VARIABLES
  size,      \* size[p]: bytes of parameter p; it never changes
  target,    \* target[m]: get_target_packed_tensor_size() at m; it never changes
  refit,     \* number of the refit
  driver,    \* of refit_policy_generation: "idle", "waiting", "ok" or "raised"
  pc,        \* pc[m]: "pack", "returned" or "failed"
  at,        \* at[m]: parameters that m's iterator has yielded
  groups,    \* groups[m]: the groups that m queued a broadcast for, of all refits
  base,      \* base[m]: how many of them are of earlier refits
  delivered, \* broadcasts that have happened
  loading,   \* loading[r]: groups that r has yet to copy into its model
  swallowed, \* ranks that failed in a refit that succeeded
  faults

fixed == <<size, target>>
vars == <<fixed, refit, driver, pc, at, groups, base, delivered, loading, swallowed, faults>>

Group == [refit : 0..MaxRefits, first : Params, last : Params]

TypeOK ==
  /\ size \in [Params -> Sizes] /\ target \in [Members -> Targets]
  /\ refit \in 0..MaxRefits
  /\ driver \in {"idle", "waiting", "ok", "raised"}
  /\ pc \in [Members -> {"pack", "returned", "failed"}]
  /\ at \in [Members -> 0..NParams]
  /\ groups \in [Members -> Seq(Group)]
  /\ base \in [Members -> Nat]
  /\ delivered \in Nat
  /\ loading \in [Ranks -> SUBSET Nat]
  /\ swallowed \subseteq Ranks
  /\ faults \in 0..MaxFaults

\* Bytes of the parameters up to the nth.
Total == LET total[n \in 0..NParams] == IF n = 0 THEN 0 ELSE total[n - 1] + size[n]
         IN  total

Bytes(first, last) == Total[last] - Total[first - 1]

Init ==
  /\ size \in [Params -> Sizes] /\ target \in [Members -> Targets]
  /\ refit = 0 /\ driver = "idle"
  /\ pc = [m \in Members |-> "returned"]
  /\ at = [m \in Members |-> 0]
  /\ groups = [m \in Members |-> <<>>]
  /\ base = [m \in Members |-> 0]
  /\ delivered = 0
  /\ loading = [r \in Ranks |-> {}]
  /\ swallowed = {} /\ faults = 0

-----------------------------------------------------------------------------
(* Members *)

\* Mutant: the trainers' groups are full when they reach the target.
ReachesInTrainers(m, done, last) ==
  IF m \in Trainers THEN Bytes(done + 1, last) >= target[m]
                    ELSE Bytes(done + 1, last) > target[m]

\* The group of the parameters after `done' up to `last' is full.
Exceeds(m, done, last) == Bytes(done + 1, last) > target[m]

\* Packing goes on until the group is full or the parameters end.
IsCut(m, done, last) ==
  /\ done < last
  /\ \A p \in Params : done < p /\ p < last => ~Exceeds(m, done, p)
  /\ Exceeds(m, done, last) \/ last = NParams

\* Mutant: the stream of the buffer is not waited for.
NeverWaits(m) == TRUE

\* The stream of the buffer whose turn it is has nothing left to do: the last
\* group in that buffer was broadcast and, by a rank, loaded.
Synchronized(m) ==
  LET old == Len(groups[m]) + 1 - NumBuffers
  IN  old > base[m] => old <= delivered /\ (m \in Ranks => old \notin loading[m])

\* The parameters up to `last' are packed, or room is made for them, and their
\* broadcast is queued.
Queue(m, last) ==
  /\ pc[m] = "pack" /\ at[m] < NParams
  /\ Synchronized(m)
  /\ at' = [at EXCEPT ![m] = last]
  /\ groups' = [groups EXCEPT ![m] =
                  Append(@, [refit |-> refit, first |-> at[m] + 1, last |-> last])]
  /\ UNCHANGED <<fixed, refit, driver, base, delivered, swallowed>>

\* A rank also queues the copies out of the group.
QueueLoads(m) ==
  loading' = IF m \in Ranks THEN [loading EXCEPT ![m] = @ \cup {Len(groups[m]) + 1}]
                            ELSE loading

\* Mutant: the trainers do not send what remains when the parameters end.
PackForgetsRest(m) ==
  \E last \in Params :
    /\ IsCut(m, at[m], last)
    /\ Queue(m, last)
    /\ pc' = [pc EXCEPT ![m] =
               IF Exceeds(m, at[m], last) /\ ~(m \in Trainers /\ last >= NParams - 1)
               THEN "pack" ELSE "returned"]
    /\ QueueLoads(m)
    /\ UNCHANGED faults

\* A group; one that is not full is the last.
Pack(m) ==
  \E last \in Params :
    /\ IsCut(m, at[m], last)
    /\ Queue(m, last)
    /\ pc' = [pc EXCEPT ![m] = IF Exceeds(m, at[m], last) THEN "pack" ELSE "returned"]
    /\ QueueLoads(m)
    /\ UNCHANGED faults

\* A rank cannot load a group that it received: it answers FALSE and receives no
\* more of this refit.
PackFails(r) ==
  /\ faults < MaxFaults /\ faults' = faults + 1
  /\ \E last \in Params : IsCut(r, at[r], last) /\ Queue(r, last)
  /\ pc' = [pc EXCEPT ![r] = "failed"]
  /\ UNCHANGED loading

\* The last group was full: one more turn, with nothing to send.
Stop(m) ==
  /\ pc[m] = "pack" /\ at[m] = NParams
  /\ Synchronized(m)
  /\ pc' = [pc EXCEPT ![m] = "returned"]
  /\ UNCHANGED <<fixed, refit, driver, at, groups, base, delivered, loading>>
  /\ UNCHANGED <<swallowed, faults>>

-----------------------------------------------------------------------------
(* Devices *)

SizeOf(m, k) == Bytes(groups[m][k].first, groups[m][k].last)

\* A broadcast happens when everybody has queued it, with the same size.
Deliver ==
  /\ \A m \in Members : delivered < Len(groups[m])
  /\ \A m \in Members : SizeOf(m, delivered + 1) = SizeOf(Source, delivered + 1)
  /\ delivered' = delivered + 1
  /\ UNCHANGED <<fixed, refit, driver, pc, at, groups, base, loading, swallowed, faults>>

\* The copies of a group are done; those of different buffers in any order.
Load(r) ==
  /\ \E k \in loading[r] :
       /\ k <= delivered
       /\ loading' = [loading EXCEPT ![r] = @ \ {k}]
  /\ UNCHANGED <<fixed, refit, driver, pc, at, groups, base, delivered, swallowed, faults>>

-----------------------------------------------------------------------------
(* refit_policy_generation *)

StartRefit ==
  /\ driver \in {"idle", "ok"} /\ refit < MaxRefits
  /\ refit' = refit + 1
  /\ driver' = "waiting"
  /\ pc' = [m \in Members |-> "pack"]
  /\ at' = [m \in Members |-> 0]
  /\ base' = [m \in Members |-> Len(groups[m])]
  /\ UNCHANGED <<fixed, groups, delivered, loading, swallowed, faults>>

EverybodyReturned == \A m \in Members : pc[m] # "pack"

\* Both lists of futures are waited for; of an engine's results the first counts.
Wait ==
  /\ driver = "waiting" /\ EverybodyReturned
  /\ IF \A r \in First : pc[r] = "returned"
     THEN /\ driver' = "ok"
          /\ swallowed' = swallowed \cup {r \in Ranks : pc[r] = "failed"}
     ELSE driver' = "raised" /\ UNCHANGED swallowed
  /\ UNCHANGED <<fixed, refit, pc, at, groups, base, delivered, loading, faults>>

Next ==
  \/ StartRefit \/ Wait \/ Deliver
  \/ \E m \in Members : Pack(m) \/ Stop(m)
  \/ \E r \in Ranks : PackFails(r) \/ Load(r)

\* Processes and devices go on as long as they can; loading need not fail.
Fairness ==
  /\ WF_vars(Wait) /\ WF_vars(Deliver)
  /\ \A m \in Members : WF_vars(Pack(m)) /\ WF_vars(Stop(m))
  /\ \A r \in Ranks : WF_vars(Load(r))

Spec == Init /\ [][Next]_vars /\ Fairness

-----------------------------------------------------------------------------
(* Properties *)

\* All GPUs have the same target size.
Uniform == \A m, n \in Members : target[m] = target[n]

\* A broadcast means the same to everybody: the same parameters of the same
\* refit, as long as nobody's failure was swallowed and all GPUs are alike.
GroupsAgree ==
  Uniform /\ swallowed = {} =>
    \A m, n \in Members : \A k \in 1..Len(groups[m]) \cap 1..Len(groups[n]) :
      groups[m][k] = groups[n][k]

\* When a refit has succeeded, what a rank that did not fail may still have to
\* load are the last groups, one in each buffer: generation that starts at once
\* can meet these parameters' old weights, and no others.
TailBounded ==
  driver = "ok" =>
    \A r \in Ranks : pc[r] = "returned" =>
      \A k \in 1..Len(groups[r]) :
        k > base[r] /\ k <= Len(groups[r]) - NumBuffers =>
          k <= delivered /\ k \notin loading[r]

\* A refit among GPUs that are alike ends unless a rank fails to load a group:
\* nobody waits for a broadcast that another member does not make.
BroadcastsEnd ==
  driver = "waiting" /\ Uniform ~> driver # "waiting" \/ faults > 0

-----------------------------------------------------------------------------
(* What a comment says and the code does not do *)

\* grpo.py:1179: "check if update is successful".
SuccessMeansAllRanks == driver = "ok" => \A r \in Ranks : pc[r] = "returned"
=============================================================================
