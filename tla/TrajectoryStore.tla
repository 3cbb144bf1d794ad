--------------------------- MODULE TrajectoryStore ---------------------------
(***************************************************************************)
(* What the replay buffer of asynchronous GRPO promises its two clients,   *)
(* the rollout workers that push prompt groups and the training loop that  *)
(* samples them (nemo_rl/algorithms/async_utils.py, class ReplayBuffer).   *)
(*                                                                         *)
(* The buffer is a Ray actor: its methods run one at a time, so each is    *)
(* one step.  The three parallel lists of the code are here one set of     *)
(* records; a record's arrival number n is its place in the lists.  Module *)
(* ReplayBuffer keeps the lists and is checked to implement this one.      *)
(***************************************************************************)
EXTENDS Integers, FiniteSets

CONSTANT MaxSize   \* max_size: the number of prompt groups the buffer holds

ASSUME MaxSizeAssumption == MaxSize \in Nat \ {0}

VARIABLES
  stored,      \* the prompt groups in the buffer
  pushed,      \* how many groups were ever accepted: the next arrival number
  lastTarget   \* last_target_weight_already_generated

storeVars == <<stored, pushed, lastTarget>>

\* A prompt group: arrival number, generation weight version, target version.
Group == [n : Nat, ver : Nat, tgt : Nat]

StoreTypeOK ==
  /\ stored \subseteq Group
  /\ pushed \in Nat
  /\ lastTarget \in Nat \cup {-1}

StoreInit ==
  /\ stored = {}
  /\ pushed = 0
  /\ lastTarget = -1

-----------------------------------------------------------------------------
(* push_with_wait_signal *)

\* Mutant: the buffer is sized without late_arrival_slack.
FullWithoutSlack == Cardinality(stored) * 2 >= MaxSize

Full == Cardinality(stored) >= MaxSize

Push(ver, tgt) ==
  /\ ~Full
  /\ stored' = stored \cup {[n |-> pushed, ver |-> ver, tgt |-> tgt]}
  /\ pushed' = pushed + 1
  /\ lastTarget' = IF tgt > lastTarget THEN tgt ELSE lastTarget

-----------------------------------------------------------------------------
(* sample(num_prompt_groups, current_weight_version, max_age_steps) *)

MinValidVersion(current, age) == IF current > age THEN current - age ELSE 0

TooOld(current, age) ==
  {g \in stored : g.ver < MinValidVersion(current, age)}

\* The groups of the age window that are meant for the current step.
Intended(current, age) ==
  {g \in stored : /\ MinValidVersion(current, age) <= g.ver
                  /\ g.ver <= current
                  /\ g.tgt = current}

\* Mutant: one group too few is taken.
EarliestButOne(S, k) == {g \in S : Cardinality({h \in S : h.n < g.n}) < k - 1}

\* The k groups of S that arrived first.
Earliest(S, k) == {g \in S : Cardinality({h \in S : h.n < g.n}) < k}

\* The call raises ValueError: a group of the buffer fell out of the window.
SampleRaises(current, age) == TooOld(current, age) # {}

\* The call returns k groups; when neither this nor SampleRaises holds it
\* returns None and leaves the buffer alone.
SampleReady(current, age, k) ==
  /\ ~SampleRaises(current, age)
  /\ Cardinality(Intended(current, age)) >= k

\* Mutant: the groups returned stay in the buffer.
SampleKeepsGroups(current, age, k) ==
  /\ SampleReady(current, age, k)
  /\ UNCHANGED storeVars

Sample(current, age, k) ==
  /\ SampleReady(current, age, k)
  /\ stored' = stored \ Earliest(Intended(current, age), k)
  /\ UNCHANGED <<pushed, lastTarget>>

Clear ==
  /\ stored' = {}
  /\ UNCHANGED <<pushed, lastTarget>>

-----------------------------------------------------------------------------
(* The buffer under clients that push and sample any versions of V *)

StoreNext(V) ==
  \/ \E ver, tgt \in V : Push(ver, tgt)
  \/ \E current, age, k \in V : Sample(current, age, k)
  \/ Clear
=============================================================================
