---------------------------- MODULE ReplayBuffer ----------------------------
(***************************************************************************)
(* The replay buffer as the code keeps it (nemo_rl/algorithms/             *)
(* async_utils.py, class ReplayBuffer): three parallel lists, from which   *)
(* sample selects positions and pops them one by one.  A trajectory is     *)
(* known by its arrival number.                                            *)
(*                                                                         *)
(* The buffer is a Ray actor with a lock around every method: a call is    *)
(* one step.  The calls are any that a client could make, not only those   *)
(* of async_grpo_train.                                                    *)
(***************************************************************************)
EXTENDS Integers, SequencesExt

CONSTANTS
  MaxSize,    \* max_size
  MaxAge,     \* max_age_steps of every sample call
  Versions,   \* the weight versions, and sizes of a sample, that calls name
  MaxPushes   \* bound: how many groups are pushed

ASSUME BufferAssumption ==
  /\ MaxSize \in Nat \ {0}
  /\ MaxAge \in Nat
  /\ Versions \subseteq Nat
  /\ MaxPushes \in Nat

VARIABLES
  trajectories, trajectory_versions, target_weight_versions,
  last_target,  \* last_target_weight_already_generated
  pushed,       \* history: the next arrival number
  answer        \* what the last call was and what it returned

lists == <<trajectories, trajectory_versions, target_weight_versions>>
bufferVars == <<lists, last_target, pushed, answer>>

NoArgs == [current |-> 0, k |-> 0]
Answer(op, args, kind, groups) ==
  [op |-> op, args |-> args, kind |-> kind, groups |-> groups]

BufferTypeOK ==
  /\ trajectories \in Seq(Nat) /\ Len(trajectories) <= MaxSize
  /\ trajectory_versions \in Seq(Versions)
  /\ target_weight_versions \in Seq(Versions)
  /\ last_target \in Versions \cup {-1}
  /\ pushed \in 0 .. MaxPushes
  /\ answer.kind \in {"success", "full", "none", "raised", "groups"}

Init ==
  /\ trajectories = <<>>
  /\ trajectory_versions = <<>>
  /\ target_weight_versions = <<>>
  /\ last_target = -1
  /\ pushed = 0
  /\ answer = Answer("clear", NoArgs, "success", <<>>)

-----------------------------------------------------------------------------
(* push_with_wait_signal *)

PushFull ==
  /\ Len(trajectories) >= MaxSize
  /\ answer' = Answer("push", NoArgs, "full", <<>>)
  /\ UNCHANGED <<lists, last_target, pushed>>

\* Mutant: one group past max_size is let in.
PushPastMaxSize(ver, tgt) ==
  /\ Len(trajectories) <= MaxSize
  /\ pushed < MaxPushes
  /\ trajectories' = Append(trajectories, pushed)
  /\ trajectory_versions' = Append(trajectory_versions, ver)
  /\ target_weight_versions' = Append(target_weight_versions, tgt)
  /\ last_target' = IF tgt > last_target THEN tgt ELSE last_target
  /\ pushed' = pushed + 1
  /\ answer' = Answer("push", NoArgs, "success", <<>>)

PushGroup(ver, tgt) ==
  /\ Len(trajectories) < MaxSize
  /\ pushed < MaxPushes
  /\ trajectories' = Append(trajectories, pushed)
  /\ trajectory_versions' = Append(trajectory_versions, ver)
  /\ target_weight_versions' = Append(target_weight_versions, tgt)
  /\ last_target' = IF tgt > last_target THEN tgt ELSE last_target
  /\ pushed' = pushed + 1
  /\ answer' = Answer("push", NoArgs, "success", <<>>)

-----------------------------------------------------------------------------
(* sample *)

MinValid(current) == IF current - MaxAge > 0 THEN current - MaxAge ELSE 0

Old(current) == {i \in DOMAIN trajectories : trajectory_versions[i] < MinValid(current)}

ValidIndices(current) ==
  {i \in DOMAIN trajectories : /\ MinValid(current) <= trajectory_versions[i]
                               /\ trajectory_versions[i] <= current}

\* The positions of S in ascending order, as the list comprehensions produce
\* them: at r + 1 the one that has r before it.
Ascending(S) ==
  [r \in 1 .. Cardinality(S) |->
     CHOOSE i \in S : Cardinality({j \in S : j < i}) = r - 1]

IntendedIndices(current) ==
  Ascending({i \in ValidIndices(current) : target_weight_versions[i] = current})

SampleNone(current, k) ==
  /\ \/ trajectories = <<>>
     \/ /\ Old(current) = {}
        /\ \/ ValidIndices(current) = {}
           \/ Cardinality(ValidIndices(current)) < k
           \/ Len(IntendedIndices(current)) < k
  /\ answer' = Answer("sample", [current |-> current, k |-> k], "none", <<>>)
  /\ UNCHANGED <<lists, last_target, pushed>>

SampleRaises(current, k) ==
  /\ Old(current) # {}
  /\ answer' = Answer("sample", [current |-> current, k |-> k], "raised", <<>>)
  /\ UNCHANGED <<lists, last_target, pushed>>

\* Mutant: the positions are popped in ascending order.
PoppedAscending(list, positions) == FoldLeft(RemoveAt, list, positions)

\* The positions are popped from the last to the first.
Popped(list, positions) == FoldLeft(RemoveAt, list, Reverse(positions))

\* Mutant: the latest k of the intended groups are taken.
LatestSelected(current, k) ==
  LET intended == IntendedIndices(current)
  IN  SubSeq(intended, Len(intended) - k + 1, Len(intended))

Selected(current, k) == SubSeq(IntendedIndices(current), 1, k)

SampleGroups(current, k) ==
  LET selected == Selected(current, k)
  IN  /\ Old(current) = {}
      /\ Cardinality(ValidIndices(current)) >= k
      /\ Len(IntendedIndices(current)) >= k
      /\ trajectories' = Popped(trajectories, selected)
      /\ trajectory_versions' = Popped(trajectory_versions, selected)
      /\ target_weight_versions' = Popped(target_weight_versions, selected)
      /\ answer' = Answer("sample", [current |-> current, k |-> k], "groups",
                          [i \in 1 .. k |-> trajectories[selected[i]]])
      /\ UNCHANGED <<last_target, pushed>>

-----------------------------------------------------------------------------
\* clear empties the lists; last_target_weight_already_generated stays.
Clear ==
  /\ trajectories' = <<>>
  /\ trajectory_versions' = <<>>
  /\ target_weight_versions' = <<>>
  /\ answer' = Answer("clear", NoArgs, "success", <<>>)
  /\ UNCHANGED <<last_target, pushed>>

Next ==
  \/ PushFull
  \/ \E ver, tgt \in Versions : PushGroup(ver, tgt)
  \/ \E current \in Versions, k \in Versions \ {0} :
       SampleNone(current, k) \/ SampleRaises(current, k) \/ SampleGroups(current, k)
  \/ Clear

Spec == Init /\ [][Next]_bufferVars

-----------------------------------------------------------------------------
(* The lists implement the store *)

\* A trajectory with the versions found at its position of the other lists.
Zipped ==
  {[n |-> trajectories[i], ver |-> trajectory_versions[i],
    tgt |-> target_weight_versions[i]] : i \in DOMAIN trajectories}

Store == INSTANCE TrajectoryStore WITH stored <- Zipped, lastTarget <- last_target

\* Every call on the lists is a call on the store, or changes nothing: the
\* three lists never get out of step, whatever is pushed, popped and cleared.
ImplementsStore ==
  Store!StoreInit /\ [][Store!StoreNext(Versions \cup {MaxAge})]_<<Zipped, pushed, last_target>>

\* What a call returns agrees with the store it was made on: "full" only when
\* full; ValueError only for a group out of the window; None only while too few
\* groups are meant for the step; else the k earliest of those, in their order
\* of arrival, and these are the ones that leave.
AnswerAgrees ==
  LET a == answer' IN
  /\ a.op = "push" => (a.kind = "full" <=> Store!Full)
  /\ a.op = "sample" =>
       LET take == Store!Earliest(Store!Intended(a.args.current, MaxAge), a.args.k) IN
       /\ a.kind = "raised" <=> Store!SampleRaises(a.args.current, MaxAge)
       /\ a.kind = "groups" <=> Store!SampleReady(a.args.current, MaxAge, a.args.k)
       /\ a.kind = "groups" =>
            /\ Range(a.groups) = {g.n : g \in take}
            /\ \A i, j \in 1 .. a.args.k : i < j => a.groups[i] < a.groups[j]
            /\ Range(a.groups) = Range(trajectories) \ Range(trajectories')

AnswersAsPromised == [][AnswerAgrees]_bufferVars
=============================================================================
