------------------------------ MODULE Rollouts ------------------------------
(***************************************************************************)
(* The conversations of a batch with its environments, turn by turn, as    *)
(* nemo_rl/experience/rollouts.py drives them: run_multi_turn_rollout      *)
(* takes all samples that are not done through a turn together, first all  *)
(* the responses, then all the feedback, in arrays that shrink from turn   *)
(* to turn; run_async_multi_turn_rollout gives each sample a coroutine.    *)
(*                                                                         *)
(* A message is who spoke, for which sample and in which turn; texts are   *)
(* numbers of tokens.  total_reward is the sequence of the rewards in it,  *)
(* each named by the sample and the turn that earned it.                   *)
(***************************************************************************)
EXTENDS Integers, FiniteSets, SequencesExt, TLC

CONSTANTS
  BatchSize,      \* samples in the batch
  Tasks,          \* names of tasks, each with its environment
  MaxSeqLen,      \* max_seq_len, which is also the engine's max_model_len
  MaxNewTokens,   \* the engine's max_new_tokens
  MaxTurns,       \* max_rollout_turns
  PromptLens,     \* tokens a prompt may have
  ObsLens         \* tokens an observation may have

Samples == 1 .. BatchSize

\* The data processors cut longer prompts; one of them leaves max_seq_length tokens
\* of a prompt of one message.
ASSUME RolloutAssumption ==
  /\ BatchSize \in Nat \ {0} /\ MaxTurns \in Nat \ {0} /\ MaxNewTokens \in Nat \ {0}
  /\ MaxSeqLen \in Nat
  /\ PromptLens \subseteq 1 .. MaxSeqLen
  /\ ObsLens \subseteq Nat

VARIABLES
  driver,     \* the function that runs: "batched" or "async"
  task,       \* task_name
  log,        \* message_log, without the prompt
  len,        \* tokens of prompt and messages
  reward,     \* total_reward
  info,       \* extra_env_info
  stops,      \* stop strings for the next turn
  turns,      \* turns taken
  truncated,  \* sample_truncated, truncated
  terminated, \* sample_terminated, terminated
  failed,     \* an exception of the engine ended the sample
  over,       \* (history) the turn in which the environment ended the episode, or 0
  place,      \* where the driver is
  turn,       \* of the batched loop
  row,        \* in a loop over the active samples, the next one
  active,     \* active_indices; the samples whose coroutine runs
  answers,    \* env_output
  cut         \* truncation_mask

samples == <<log, len, reward, info, stops, turns, truncated, terminated, failed, over>>
vars == <<driver, task, samples, place, turn, row, active, answers, cut>>

Said(role, s, k) == [role |-> role, of |-> s, turn |-> k]
From(s, k) == [of |-> s, turn |-> k]
None == From(0, 0)

------------------------------------------------------------------------------
(* The feedback of the environments *)

\* A stable sort: the numbers that have a key, by ascending key.
StableSort(key) ==
  CHOOSE s \in [1 .. Cardinality(DOMAIN key) -> DOMAIN key] :
    \A p, q \in DOMAIN s : p < q =>
      key[s[p]] < key[s[q]] \/ (key[s[p]] = key[s[q]] /\ s[p] < s[q])

\* The row that made the group of row i's task in task_groups: the first of the task.
GroupOf(names, i) == Min({j \in DOMAIN names : names[j] = names[i]})

\* all_indices_order: the rows in the order their results are collected, group by
\* group as the groups were made.
IndicesOrder(names) == StableSort([i \in DOMAIN names |-> GroupOf(names, i)])

\* Mutant: the results stay in the order they were collected.
UnsortedIndices(order) == [k \in DOMAIN order |-> k]

\* The places of the collected results, in the order of their rows.
SortedIndices(order) == StableSort(order)

\* calculate_rewards: step[i] is what the environment answers to row i.
CalculateRewards(names, step) ==
  LET order     == IndicesOrder(names)
      collected == [k \in DOMAIN order |-> step[order[k]]]
      sorted    == SortedIndices(order)
  IN  [i \in DOMAIN names |-> collected[sorted[i]]]

\* What an environment may say besides: the episode is over; there are metadata
\* and stop strings for the next turn, or neither.
Verdicts == [over : BOOLEAN, next : BOOLEAN]

\* It answers the response that ends the conversation it is sent.
Answer(messages, says) ==
  [to |-> From(Last(messages).of, Last(messages).turn), says |-> says]

------------------------------------------------------------------------------
(* The responses of the engine *)

\* How many tokens, and whether the limit ended it (finish_reason "length").  An
\* engine that is sent a full context raises.
Responses(input) ==
  LET allowed == IF MaxNewTokens < MaxSeqLen - input THEN MaxNewTokens ELSE MaxSeqLen - input
  IN  {r \in [tokens : 1 .. allowed, capped : BOOLEAN] : r.capped => r.tokens = allowed}

\* The async worker answers at once when there is no room.
ResponsesAsync(input) ==
  IF input >= MaxSeqLen THEN {[tokens |-> 0, capped |-> FALSE]} ELSE Responses(input)

\* Mutant: an observation may fill the context.
OverflowsPast(length, obs) == length + obs > MaxSeqLen

\* The observation does not fit, or leaves no room for a response.
Overflows(length, obs) == length + obs >= MaxSeqLen

\* What is appended of it.  The batched rollout asserts length <= MaxSeqLen.
Kept(length, obs) ==
  IF ~Overflows(length, obs) THEN obs
  ELSE IF length < MaxSeqLen THEN MaxSeqLen - length ELSE 0

------------------------------------------------------------------------------
(* run_multi_turn_rollout *)

At(from, to) == driver = "batched" /\ place = from /\ place' = to

\* for i, global_idx in enumerate(active_indices)
NextRow(from, to) ==
  /\ driver = "batched" /\ place = from
  /\ IF row < Len(active) THEN row' = row + 1 /\ place' = place ELSE row' = 1 /\ place' = to

\* The head of the loop.
StartTurn ==
  /\ At("turn", "generate")
  /\ turn < MaxTurns /\ active # <<>>
  /\ turn' = turn + 1
  /\ UNCHANGED <<driver, task, samples, row, active, answers, cut>>

EndTurns ==
  /\ At("turn", "returned")
  /\ turn = MaxTurns \/ active = <<>>
  /\ UNCHANGED <<driver, task, samples, turn, row, active, answers, cut>>

\* generate_responses appends the responses; their truncation is recorded.
Generate ==
  /\ NextRow("generate", "reward")
  /\ LET s == active[row]
     IN  \E r \in Responses(len[s]) :
           /\ log' = [log EXCEPT ![s] = Append(@, Said("assistant", s, turn))]
           /\ len' = [len EXCEPT ![s] = @ + r.tokens]
           /\ truncated' = [truncated EXCEPT ![s] = @ \/ r.capped]
  /\ UNCHANGED <<driver, task, reward, info, stops, turns, terminated, failed, over, turn,
                 active, answers, cut>>

\* calculate_rewards; total_rewards[active_indices] += rewards.
Reward ==
  /\ At("reward", "observe")
  /\ \E says \in [DOMAIN active -> Verdicts] :
       answers' = CalculateRewards([i \in DOMAIN active |-> task[active[i]]],
                                   [i \in DOMAIN active |-> Answer(log[active[i]], says[i])])
  /\ reward' = [s \in Samples |->
       IF Contains(active, s)
         THEN Append(reward[s], answers'[CHOOSE i \in DOMAIN active : active[i] = s].to)
         ELSE reward[s]]
  /\ cut' = <<>>
  /\ UNCHANGED <<driver, task, log, len, info, stops, turns, truncated, terminated, failed,
                 over, turn, row, active>>

\* The observation is appended, cut if need be.
Observe ==
  /\ NextRow("observe", "compact")
  /\ LET s == active[row]
         a == answers[row]
     IN  \E obs \in ObsLens :
           /\ log' = [log EXCEPT ![s] = Append(@, Said("environment", a.to.of, a.to.turn))]
           /\ len' = [len EXCEPT ![s] = @ + Kept(@, obs)]
           /\ truncated' = [truncated EXCEPT ![s] = @ \/ Overflows(len[s], obs)]
           /\ cut' = Append(cut, Overflows(len[s], obs))
           /\ turns' = [turns EXCEPT ![s] = @ + 1]
           /\ over' = [over EXCEPT ![s] = IF a.says.over THEN turn ELSE @]
  /\ UNCHANGED <<driver, task, reward, info, stops, terminated, failed, turn, active, answers>>

\* Mutant: the environment's word is ignored.
DoneWhenCut(i) == cut[i]

Done(i) == cut[i] \/ answers[i].says.over

\* active_indices_local_next
Continuing == StableSort([i \in {j \in DOMAIN active : ~Done(j)} |-> i])

\* Mutant: the places in the new active set are used in the old one.
ToldByNewPlace(s) ==
  answers[CHOOSE i \in DOMAIN Continuing : active[Continuing[i]] = s]

\* What the environment said to the sample s, for the rows that continue.
Told(s) == answers[CHOOSE i \in ToSet(Continuing) : active[i] = s]

Compact ==
  /\ At("compact", "turn")
  /\ terminated' = [s \in Samples |->
       terminated[s] \/ \E i \in DOMAIN active : active[i] = s /\ Done(i)]
  /\ active' = [k \in DOMAIN Continuing |-> active[Continuing[k]]]
  /\ stops' = [s \in Samples |->
       IF ~Contains(active', s) THEN stops[s]
       ELSE IF Told(s).says.next THEN Told(s).to ELSE None]
  /\ info' = [s \in Samples |->
       IF Contains(active', s) /\ Told(s).says.next THEN Told(s).to ELSE info[s]]
  /\ answers' = <<>> /\ cut' = <<>>
  /\ UNCHANGED <<driver, task, log, len, reward, turns, truncated, failed, over, turn, row>>

\* The engine or an environment raises, and so does the rollout.
Raise ==
  /\ driver = "batched"
  /\ (place = "generate" /\ row = 1) \/ place = "reward"
  /\ place' = "raised"
  /\ UNCHANGED <<driver, task, samples, turn, row, active, answers, cut>>

Batched == StartTurn \/ EndTurns \/ Generate \/ Reward \/ Observe \/ Compact \/ Raise

------------------------------------------------------------------------------
(* run_async_multi_turn_rollout *)

batchVars == <<turn, row, answers, cut>>

\* The head of the loop of run_sample_multi_turn_rollout, after the turn.
GoesOn(s) == ~terminated'[s] /\ ~truncated'[s] /\ turns'[s] < MaxTurns

\* A sample whose coroutine waits for the engine gets its response and, without
\* another await, its feedback: calculate_rewards blocks the event loop.
SampleTurn(s) ==
  /\ driver = "async" /\ place = "gather" /\ Contains(active, s)
  /\ \E r \in ResponsesAsync(len[s]), says \in Verdicts, obs \in ObsLens :
       LET said   == Append(log[s], Said("assistant", s, turns[s] + 1))
           a      == CalculateRewards(<<task[s]>>, <<Answer(said, says)>>)[1]
           length == len[s] + r.tokens
       IN  /\ log' = [log EXCEPT ![s] = Append(said, Said("environment", a.to.of, a.to.turn))]
           /\ len' = [len EXCEPT ![s] = length + Kept(length, obs)]
           /\ reward' = [reward EXCEPT ![s] = Append(@, a.to)]
           /\ turns' = [turns EXCEPT ![s] = @ + 1]
           /\ terminated' = [terminated EXCEPT ![s] = says.over]
           /\ over' = [over EXCEPT ![s] = IF says.over THEN turns'[s] ELSE @]
           /\ truncated' = [truncated EXCEPT ![s] = r.capped \/ Overflows(length, obs)]
           /\ LET told == says.next /\ ~terminated'[s] /\ ~truncated'[s]
              IN  /\ stops' = [stops EXCEPT ![s] = IF told THEN a.to ELSE @]
                  /\ info' = [info EXCEPT ![s] = IF told THEN a.to ELSE @]
           /\ active' = IF GoesOn(s) THEN active ELSE RemoveFirst(active, s)
  /\ UNCHANGED <<driver, task, failed, place, batchVars>>

\* An exception of the engine, a timeout among others, is printed and ends the
\* sample as it is; its turn has been counted.
GenerationFails(s) ==
  /\ driver = "async" /\ place = "gather" /\ Contains(active, s)
  /\ failed' = [failed EXCEPT ![s] = TRUE]
  /\ turns' = [turns EXCEPT ![s] = @ + 1]
  /\ active' = RemoveFirst(active, s)
  /\ UNCHANGED <<driver, task, log, len, reward, info, stops, truncated, terminated, over,
                 place, batchVars>>

\* One of an environment ends the rollout of all.
EnvironmentFails ==
  /\ driver = "async" /\ place = "gather" /\ active # <<>>
  /\ place' = "raised"
  /\ UNCHANGED <<driver, task, samples, active, batchVars>>

\* asyncio.gather has all results.
Gathered ==
  /\ driver = "async" /\ place = "gather" /\ active = <<>>
  /\ place' = "returned"
  /\ UNCHANGED <<driver, task, samples, active, batchVars>>

Async ==
  \/ \E s \in Samples : SampleTurn(s) \/ GenerationFails(s)
  \/ EnvironmentFails \/ Gathered

------------------------------------------------------------------------------
Init ==
  /\ driver \in {"batched", "async"}
  /\ task \in [Samples -> Tasks]
  /\ log = [s \in Samples |-> <<>>]
  /\ len \in [Samples -> PromptLens]
  /\ reward = [s \in Samples |-> <<>>]
  /\ info = [s \in Samples |-> From(s, 0)]
  /\ stops = [s \in Samples |-> From(s, 0)]
  /\ turns = [s \in Samples |-> 0]
  /\ truncated = [s \in Samples |-> FALSE]
  /\ terminated = [s \in Samples |-> FALSE]
  /\ failed = [s \in Samples |-> FALSE]
  /\ over = [s \in Samples |-> 0]
  /\ place = IF driver = "batched" THEN "turn" ELSE "gather"
  /\ turn = 0 /\ row = 1
  /\ active = [s \in Samples |-> s]
  /\ answers = <<>> /\ cut = <<>>

Next == Batched \/ Async

Spec == Init /\ [][Next]_vars

Symmetry == Permutations(Tasks)

------------------------------------------------------------------------------
(* Properties *)

Between == place \in {"turn", "gather", "returned"}

\* Turns a sample went through: the one in which the engine failed is counted
\* in turns, and left no trace.
Answered(s) == IF failed[s] THEN turns[s] - 1 ELSE turns[s]

\* Rewards, observations, metadata and stop strings reach the sample whose
\* response earned them, one reward and two messages for each turn, through the
\* grouping by task, the sorting back, and the arrays that shrink as samples end.
OwnConversation ==
  \A s \in Samples :
    /\ \A k \in DOMAIN log[s] :
         log[s][k] = Said(IF k % 2 = 1 THEN "assistant" ELSE "environment", s, (k + 1) \div 2)
    /\ \A k \in DOMAIN reward[s] : reward[s][k] = From(s, k)
    /\ info[s] \in {From(s, k) : k \in 0 .. turns[s]}
    /\ stops[s] \in {From(s, k) : k \in 0 .. turns[s]} \cup {None}
    /\ Between => Len(reward[s]) = Answered(s) /\ Len(log[s]) = 2 * Answered(s)

\* After the first turn a sample that is to speak has room for a token, and none
\* ever outgrows max_seq_len: the engine is not sent a full context, for which the
\* rollout of all samples would raise, and the assertion on tokens_left_for_obs
\* holds.
RoomToGenerate ==
  \A s \in Samples :
    /\ len[s] <= MaxSeqLen
    /\ Contains(active, s) /\ place \in {"turn", "gather"} /\ turns[s] > 0 =>
         len[s] < MaxSeqLen

\* An episode ends when the environment says so and never later; one that ends
\* otherwise was cut off by a limit or by the engine, and of a sample that fills
\* its context that is on record: overlong filtering relies on it.
EndsForAReason ==
  \A s \in Samples :
    /\ over[s] \in {0, turns[s]} \/ failed[s]
    /\ place = "returned" /\ over[s] = 0 =>
         failed[s] \/ truncated[s] \/ turns[s] = MaxTurns
    /\ Between /\ len[s] = MaxSeqLen /\ Answered(s) > 0 => truncated[s]

\* calculate_rewards documents terminateds as episodes that ended naturally, and
\* natural_termination_rate is the mean of terminated.  Not so in the batched
\* rollout, which counts the samples that were cut off as well.
NaturalMeansTerminated ==
  place = "returned" => \A s \in Samples : terminated[s] => over[s] # 0

\* A response at the limit of new tokens ends a conversation in the async rollout.
\* Not so in the batched one, where it only flags the sample.
CappedMeansEnded ==
  place \in {"turn", "gather"} => \A s \in Samples : truncated[s] => ~Contains(active, s)
=============================================================================
