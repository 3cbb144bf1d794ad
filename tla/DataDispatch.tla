---------------------------- MODULE DataDispatch ----------------------------
(***************************************************************************)
(* How a batch reaches the data-parallel ranks and its answers come back:  *)
(* BatchedDataDict.shard_by_batch_size and reorder_data, the calls of      *)
(* Policy (train, get_logprobs) and of the generation (generate), the      *)
(* worker group that picks the results, and the loop over global batches   *)
(* and microbatches of the DTensor worker.                                 *)
(***************************************************************************)
EXTENDS SequencePacking

CONSTANTS
  Rows,          \* rows of the batch
  Lengths,       \* lengths of a row in tokens
  BatchSizes,    \* train_global_batch_size
  ShardCounts,   \* data-parallel sizes
  MicroBatch,    \* rows of a microbatch without packing
  Pipeline,      \* pipeline-parallel size
  Tensor         \* tensor-parallel size

ASSUME DispatchAssumption ==
  /\ {Rows, MicroBatch, Pipeline, Tensor} \subseteq Nat \ {0}
  /\ Lengths \subseteq Nat \ {0}
  /\ BatchSizes \subseteq Nat \ {0} /\ ShardCounts \subseteq Nat \ {0}

VARIABLES
  call,      \* the call: op, batching, batch size and shards
  length,    \* input_lengths of the rows
  pc,        \* where the call is
  packed,    \* all_chunk_bin_assignments
  shard,     \* the rows of each shard, in order
  micro,     \* micro_batch_indices: per shard and chunk, <<from, to>> pairs
  order,     \* batch_sorted_indices
  gb,        \* global batch the workers are at
  mb,        \* microbatches of it they did
  seen,      \* what each rank computed: pairs of a global batch and a row
  answer     \* the rows the caller gets its results for, in order

callVars == <<call, length>>
shardVars == <<shard, micro, order>>
workVars == <<gb, mb, seen>>
vars == <<callVars, pc, packed, shardVars, workVars, answer, packVars>>

Shards == 1..call.shards
Uneven == call.op = "generate"            \* allow_uneven_shards

\* batch_size is None but for training.
Batch == IF call.op = "train" THEN call.batch ELSE Rows
Chunks == Rows \div Batch
ChunkOf(row) == (row - 1) \div Batch + 1

ShardSize == IF Uneven THEN (Batch + call.shards - 1) \div call.shards
                       ELSE Batch \div call.shards

Init ==
  /\ call \in [op : {"train", "get_logprobs"}, batching : {"packing", "dynamic", "plain"},
               batch : BatchSizes, shards : ShardCounts]
       \cup [op : {"generate"}, batching : {"plain"}, batch : BatchSizes, shards : ShardCounts]
  /\ length \in [1..Rows -> Lengths]
  /\ pc = "called"
  /\ packed = <<>>
  /\ shard = <<>> /\ micro = <<>> /\ order = <<>>
  /\ gb = 0 /\ mb = 0 /\ seen = <<>>
  /\ answer = <<>>
  /\ PackingInit
  /\ call.batching # "packing" => packer = "concatenative"
  /\ call.op # "train" => call.batch = Max(BatchSizes)

-----------------------------------------------------------------------------
(* The assertions, and the packing of each chunk *)

WellShaped ==
  /\ Rows % Batch = 0
  /\ Uneven \/ Batch % call.shards = 0

ChunkSizes(c) == [k \in 1..Batch |-> Padded(length[(c - 1) * Batch + k])]

Enter ==
  /\ pc = "called"
  /\ pc' = IF ~WellShaped THEN "refused"
           ELSE IF call.batching = "packing" THEN "packing" ELSE "sharding"
  /\ IF pc' = "packing" THEN StartPacking(ChunkSizes(1)) ELSE UNCHANGED packVars
  /\ UNCHANGED <<callVars, packed, shardVars, workVars, answer>>

Pack ==
  /\ pc = "packing"
  /\ PackingStep(call.shards)
  /\ UNCHANGED <<callVars, pc, packed, shardVars, workVars, answer>>

ChunkPacked ==
  /\ pc = "packing" /\ phase = "packed"
  /\ packed' = Append(packed, bins)
  /\ IF Len(packed') < Chunks
     THEN StartPacking(ChunkSizes(Len(packed') + 1)) /\ UNCHANGED pc
     ELSE pc' = "sharding" /\ UNCHANGED packVars
  /\ UNCHANGED <<callVars, shardVars, workVars, answer>>

PackingFails ==
  /\ pc = "packing" /\ phase \in {"refused", "bug"}
  /\ pc' = "refused"
  /\ UNCHANGED <<callVars, packed, shardVars, workVars, answer, packVars>>

-----------------------------------------------------------------------------
(* Shards from bins *)

\* Mutant: the chunk's first row is not added to the numbers in the bin.
LocalRows(c, bin) == bin

GlobalRows(c, bin) == [k \in DOMAIN bin |-> bin[k] + (c - 1) * Batch]

\* The bins of a chunk that a shard gets: bins are dealt in turn.
Dealt(c, s) ==
  LET mine == {b \in DOMAIN packed[c] : (b - 1) % call.shards = s - 1} IN
  [k \in 1..Cardinality(mine) |-> GlobalRows(c, packed[c][(k - 1) * call.shards + s])]

\* A running total.
UpTo(counts, k) == FoldLeft(LAMBDA sum, j : sum + counts[j], 0, [j \in 1..k |-> j])

\* The rows of consecutive microbatches, counted from the chunk's first row.
Consecutive(sizes) == [k \in DOMAIN sizes |-> <<UpTo(sizes, k - 1), UpTo(sizes, k)>>]

ShardBins ==
  LET dealt == [s \in Shards |-> [c \in 1..Chunks |-> Dealt(c, s)]]
      rows  == [s \in Shards |-> FlattenSeq([c \in 1..Chunks |-> FlattenSeq(dealt[s][c])])] IN
  /\ pc = "sharding" /\ call.batching = "packing"
  /\ shard' = rows
  /\ micro' = [s \in Shards |-> [c \in 1..Chunks |->
                 Consecutive([k \in DOMAIN dealt[s][c] |-> Len(dealt[s][c][k])])]]
  /\ order' = FlattenSeq(rows)
  /\ pc' = "dispatch"
  /\ UNCHANGED <<callVars, packed, workVars, answer, packVars>>

-----------------------------------------------------------------------------
(* Shards from ranges of rows, sorted first when batching is dynamic *)

\* The members of a set by the number of those before them.
InOrder(S, before) ==
  [k \in 1..Cardinality(S) |->
     CHOOSE x \in S : Cardinality({y \in S : <<y, x>> \in before}) = k - 1]

\* Ties are in the order of the rows: Python's sort is stable.
SortedChunk(c) ==
  LET rows == {(c - 1) * Batch + k : k \in 1..Batch} IN
  InOrder(rows, {p \in rows \X rows :
                   \/ length[p[1]] < length[p[2]]
                   \/ length[p[1]] = length[p[2]] /\ p[1] < p[2]})

\* The sorted rows of a chunk, dealt to the shards in turn.
Strided(c) ==
  [k \in 1..Batch |->
     SortedChunk(c)[((k - 1) % ShardSize) * call.shards + (k - 1) \div ShardSize + 1]]

DataOrder == IF call.batching = "dynamic" THEN FlattenSeq([c \in 1..Chunks |-> Strided(c)])
             ELSE [k \in 1..Rows |-> k]

RangeOf(c, s) ==
  LET from == (c - 1) * Batch + (s - 1) * ShardSize
      to   == (c - 1) * Batch + s * ShardSize
  IN  IF Uneven THEN <<Min({from, Rows}), Min({to, Rows})>> ELSE <<from, to>>

ShardRows(s) ==
  FlattenSeq([c \in 1..Chunks |-> SubSeq(DataOrder, RangeOf(c, s)[1] + 1, RangeOf(c, s)[2])])

\* The length the rows at one place of every shard are padded to.
PaddedAt(c, k) ==
  LET rows  == {ShardRows(s)[(c - 1) * ShardSize + k] : s \in Shards}
      width == Max({length[row] : row \in 1..Rows})
  IN  Min({Padded(Max({length[row] : row \in rows})), width})

\* Places are added to the last microbatch as long as its rows, all padded to
\* the longest of every shard, stay within the tokens of a microbatch.
AddPlace(acc, c, k) ==
  LET last   == acc.mbs[Len(acc.mbs)]
      widest == Max({acc.widest, PaddedAt(c, k)})
  IN  IF (last[2] - last[1] + 1) * widest <= Capacity
      THEN [mbs |-> [acc.mbs EXCEPT ![Len(acc.mbs)] = <<last[1], last[2] + 1>>], widest |-> widest]
      ELSE [mbs |-> Append(acc.mbs, <<k - 1, k>>), widest |-> PaddedAt(c, k)]

DynamicMicro(c) ==
  LET after[k \in 0..ShardSize] ==
        IF k = 0 THEN [mbs |-> <<<<0, 0>>>>, widest |-> 0] ELSE AddPlace(after[k - 1], c, k)
  IN  after[ShardSize].mbs

\* The rows a worker takes at a time: all at once when it generates, else
\* train_micro_batch_size rows of each global batch.
PlainMicro(s) ==
  IF Uneven THEN <<<<0, Len(ShardRows(s))>>>>
  ELSE [k \in 1..(ShardSize \div MicroBatch) |-> <<(k - 1) * MicroBatch, k * MicroBatch>>]

RowsFit ==
  IF call.batching = "dynamic"
  THEN \A c \in 1..Chunks, k \in 1..ShardSize : PaddedAt(c, k) <= Capacity
  ELSE Uneven \/ ShardSize % MicroBatch = 0

ShardRanges ==
  /\ pc = "sharding" /\ call.batching # "packing"
  /\ IF ~RowsFit
     THEN pc' = "refused" /\ UNCHANGED shardVars
     ELSE /\ shard' = [s \in Shards |-> ShardRows(s)]
          /\ micro' = [s \in Shards |-> [c \in 1..Chunks |->
                         IF call.batching = "dynamic" THEN DynamicMicro(c) ELSE PlainMicro(s)]]
          /\ order' = DataOrder
          /\ pc' = "dispatch"
  /\ UNCHANGED <<callVars, packed, workVars, answer, packVars>>

-----------------------------------------------------------------------------
(* The workers *)

\* run_all_workers_sharded_data: every worker gets the shard of its
\* coordinate on the data axis.
Dispatch ==
  /\ pc = "dispatch"
  /\ seen' = [s \in Shards |-> <<>>]
  /\ gb' = 1 /\ mb' = 0
  /\ pc' = "running"
  /\ UNCHANGED <<callVars, packed, shardVars, answer, packVars>>

\* get_batch: the shard's part of a global batch.
PartBefore(s, g) == IF call.batching = "packing"
  THEN UpTo([c \in 1..Chunks |-> Last(micro[s][c])[2]], g - 1)    \* elem_counts_per_gb
  ELSE (g - 1) * ShardSize

MicroRows(s, g, k) ==
  LET start == PartBefore(s, g) IN
  SubSeq(shard[s], start + micro[s][g][k][1] + 1, start + micro[s][g][k][2])

\* A rank with fewer microbatches than another repeats some of its own, and
\* what it computes in them is dropped.
Rounds == Max({Len(micro[s][gb]) : s \in Shards})

\* The forward passes of the ranks meet in collectives.
Forward ==
  /\ pc = "running" /\ ~Uneven /\ mb < Rounds
  /\ seen' = [s \in Shards |->
                IF mb + 1 > Len(micro[s][gb]) THEN seen[s]
                ELSE LET rows == MicroRows(s, gb, mb + 1) IN
                     seen[s] \o [k \in DOMAIN rows |-> <<gb, rows[k]>>]]
  /\ mb' = mb + 1
  /\ UNCHANGED <<callVars, pc, packed, shardVars, gb, answer, packVars>>

\* An engine generates for its shard, which may be empty, without the others.
Generate(s) ==
  /\ pc = "running" /\ Uneven
  /\ s \in Shards /\ Len(seen[s]) < Len(shard[s])
  /\ seen' = [seen EXCEPT ![s] = [k \in DOMAIN shard[s] |-> <<gb, shard[s][k]>>]]
  /\ UNCHANGED <<callVars, pc, packed, shardVars, gb, mb, answer, packVars>>

\* All ranks are through the global batch: an optimizer step when training.
NextGlobalBatch ==
  /\ pc = "running" /\ ~Uneven /\ mb = Rounds
  /\ IF gb < Chunks THEN gb' = gb + 1 /\ mb' = 0 /\ UNCHANGED pc
                    ELSE pc' = "collect" /\ UNCHANGED <<gb, mb>>
  /\ UNCHANGED <<callVars, packed, shardVars, seen, answer, packVars>>

AllGenerated ==
  /\ pc = "running" /\ Uneven
  /\ \A s \in Shards : Len(seen[s]) = Len(shard[s])
  /\ pc' = "collect"
  /\ UNCHANGED <<callVars, packed, shardVars, workVars, answer, packVars>>

\* Workers are laid out by pipeline, data and tensor coordinate; results are
\* taken from those at 0 of the replicated axes, in the workers' order.
DataCoord(w) == (w \div Tensor) % call.shards
Replica(w) == w \div (call.shards * Tensor) # 0 \/ w % Tensor # 0

ReturnFrom ==
  LET firsts == {w \in 0..(Pipeline * call.shards * Tensor - 1) : ~Replica(w)} IN
  InOrder(firsts, {p \in firsts \X firsts : p[1] < p[2]})

Results == FlattenSeq([k \in DOMAIN ReturnFrom |-> seen[DataCoord(ReturnFrom[k]) + 1]])

\* Mutant: the results are put where the batch order says, not back.
ReorderAgain(results) == [k \in DOMAIN results |-> results[order[k]]]

\* reorder_data: sort the results by the row each was computed for.
Reorder(results) ==
  [i \in DOMAIN results |-> results[CHOOSE k \in DOMAIN order : order[k] = i]]

Collect ==
  /\ pc = "collect"
  /\ answer' = IF call.batching = "plain" \/ call.op = "train" THEN Results ELSE Reorder(Results)
  /\ pc' = "answered"
  /\ UNCHANGED <<callVars, packed, shardVars, workVars, packVars>>

Rest == pc \in {"answered", "refused"} /\ UNCHANGED vars

Next ==
  \/ Enter \/ Pack \/ ChunkPacked \/ PackingFails
  \/ ShardBins \/ ShardRanges
  \/ Dispatch \/ Forward \/ (\E s \in Shards : Generate(s))
  \/ NextGlobalBatch \/ AllGenerated
  \/ Collect \/ Rest

Spec == Init /\ [][Next]_vars

-----------------------------------------------------------------------------
(* Properties *)

Times(i, seqs) ==
  Cardinality(UNION {{b} \X {k \in DOMAIN seqs[b] : seqs[b][k] = i} : b \in DOMAIN seqs})

\* While a chunk is packed, each of its sequences waits or is in one bin, at
\* one place of it (the loops of algorithms.py that pop from one list and append
\* to another).
EachInOneBin ==
  pc = "packing" =>
    \A i \in DOMAIN size :
      Times(i, bins) + Times(i, spare) = IF i \in waiting THEN 0 ELSE 1

\* A global batch never sees a row of another one, or a row twice (the offsets
\* of shard_by_batch_size and get_batch).
SeenInItsBatch ==
  \A s \in DOMAIN seen : \A k \in DOMAIN seen[s] :
    LET row == seen[s][k][2] IN
    /\ seen[s][k][1] = ChunkOf(row)
    /\ \A t \in DOMAIN seen : \A l \in DOMAIN seen[t] :
         seen[t][l][2] = row => s = t /\ k = l

\* Every row was seen when the call ends.
AllSeen ==
  pc = "answered" =>
    \A row \in 1..Rows : \E s \in Shards : \E k \in DOMAIN seen[s] : seen[s][k][2] = row

\* A row is worked on once, on its whole way from the batch to the ranks.
EachRowOnce == EachInOneBin /\ SeenInItsBatch /\ AllSeen

\* Before bins are spread over the shards, no two of them would fit in one
\* (two neighbours, for the concatenative packer): fewer microbatches than
\* half the capacity wastes (first fit, and the sorted list of phase 5, in
\* which only the least full bin is tried).
NoTwoBinsMerge ==
  pc = "packing" /\ (full = <<>> \/ Len(bins) = Len(full)) =>
    \A b, c \in DOMAIN bins :
      b < c /\ (packer = "concatenative" => c = b + 1) => Load(bins[b]) + Load(bins[c]) > Capacity

\* Spreading the bins never runs out of bins to take from: the ValueError of
\* _adjust_bin_count that asks to be reported as a bug is not raised.
NeverABug == phase # "bug"

\* Data-parallel ranks go through the same number of microbatches of every
\* global batch: Megatron's schedule takes each rank's own number, and the
\* repeated microbatches of the DTensor worker are not needed.
SameRounds ==
  \A s, t \in DOMAIN micro : \A c \in 1..Chunks : Len(micro[s][c]) = Len(micro[t][c])

\* No microbatch is empty and none has more than the tokens of a microbatch.
MicrobatchesFit ==
  call.batching # "plain" =>
    \A s \in DOMAIN micro : \A c \in 1..Chunks :
      /\ micro[s][c] # <<>>
      /\ \A k \in DOMAIN micro[s][c] :
           LET rows == MicroRows(s, c, k) IN
           /\ rows # <<>>
           /\ Tokens(length, rows) <= Capacity

\* What the collectives of the ranks need of the packer and of the shards
\* (pack, _adjust_bin_count and the bins dealt by shard_by_batch_size).
RanksInStep == NeverABug /\ SameRounds /\ MicrobatchesFit

\* The caller gets the result of row i at place i, whatever the ranks worked
\* on and in which order (reorder_data of get_logprobs, the order of the
\* results of run_all_workers_sharded_data).
RowsComeBack ==
  pc = "answered" /\ call.op # "train" =>
    /\ Len(answer) = Rows
    /\ \A i \in 1..Rows : answer[i][2] = i

TypeOK ==
  /\ pc \in {"called", "packing", "sharding", "dispatch", "running", "collect",
             "answered", "refused"}
  /\ phase \in {"idle", "fit", "large", "medium", "small", "greedy", "spread",
                "adjust", "packed", "refused", "bug"}
  /\ waiting \subseteq DOMAIN size
  /\ gb \in 0..Chunks /\ mb \in 0..Rows

=============================================================================
