-------------------------- MODULE SequencePacking --------------------------
(***************************************************************************)
(* The sequence packers of nemo_rl/data/packing/algorithms.py: sequences   *)
(* of one chunk of a batch are put in bins of at most Capacity tokens, one *)
(* bin per microbatch, and the bins are then spread over more bins until   *)
(* their number is a multiple of the data-parallel ranks.                  *)
(*                                                                         *)
(* One action is one turn of a loop of the code.  A module that packs      *)
(* calls StartPacking, lets PackingStep run and reads bins.                *)
(***************************************************************************)
EXTENDS Integers, Sequences, FiniteSets, FiniteSetsExt, SequencesExt

CONSTANTS
  Capacity,     \* tokens of a microbatch: max_tokens_per_microbatch
  Multiple      \* sequences are padded to a multiple of this many tokens

ASSUME PackingAssumption == Capacity \in Nat \ {0} /\ Multiple \in Nat \ {0}

VARIABLES
  packer,       \* the algorithm
  size,         \* padded length of each sequence of the chunk
  waiting,      \* sequences in no bin yet
  bins,         \* the bins, each a sequence of sequences' numbers
  spare,        \* ffd_bins of the modified packer, least full first
  phase,        \* where the packer is
  at,           \* the bin the modified packer looks at
  full          \* sequences of each bin when the bins began to be spread

packVars == <<packer, size, waiting, bins, spare, phase, at, full>>

FirstFit == {"first_fit_decreasing", "first_fit_shuffle"}
Packers == FirstFit \cup {"concatenative", "modified_first_fit_decreasing"}

Padded(length) == ((length + Multiple - 1) \div Multiple) * Multiple

Tokens(lengths, bin) == FoldLeft(LAMBDA tokens, i : tokens + lengths[i], 0, bin)

Load(bin) == Tokens(size, bin)

Room(bin, i) == Load(bin) + size[i] <= Capacity

\* The classes of the modified packer.
Large(i) == 2 * size[i] > Capacity
Medium(i) == ~Large(i) /\ 3 * size[i] > Capacity
Small(i) == ~Large(i) /\ ~Medium(i) /\ 6 * size[i] > Capacity

\* Sorting is stable: among equals the first of the chunk comes first.
LongestOf(S) == {i \in S : \A j \in S : size[j] <= size[i]}
Longest(S) == Min(LongestOf(S))
LastLongest(S) == Max(LongestOf(S))
Shortest(S) == Min({i \in S : \A j \in S : size[i] <= size[j]})

-----------------------------------------------------------------------------
PackingInit ==
  /\ packer \in Packers
  /\ size = <<>>
  /\ waiting = {}
  /\ bins = <<>>
  /\ spare = <<>>
  /\ phase = "idle"
  /\ at = 0
  /\ full = <<>>

\* All but the first-fit packers look at every length before they begin.
StartPacking(sizes) ==
  /\ size' = sizes
  /\ waiting' = DOMAIN sizes
  /\ bins' = <<>>
  /\ spare' = <<>>
  /\ at' = 0
  /\ full' = <<>>
  /\ phase' = IF packer \notin FirstFit /\ \E i \in DOMAIN sizes : sizes[i] > Capacity
              THEN "refused"
              ELSE IF packer = "modified_first_fit_decreasing" THEN "large" ELSE "fit"
  /\ UNCHANGED packer

-----------------------------------------------------------------------------
(* Concatenative, first fit decreasing, first fit shuffle *)

\* The sequence whose turn it is: in the chunk's order, the longest one
\* (the last of the chunk among equals) or, after a shuffle, any.
NextUp ==
  CASE packer = "concatenative"        -> {Min(waiting)}
    [] packer = "first_fit_decreasing" -> {LastLongest(waiting)}
    [] OTHER                           -> waiting

\* Mutant: a sequence goes to the newest bin or to one of its own.
OpenNewest == DOMAIN bins \cap {Len(bins)}

\* The bins a sequence may still be added to.
Open == IF packer = "concatenative" THEN DOMAIN bins \cap {Len(bins)} ELSE DOMAIN bins

PutInBin(i) ==
  LET fits == {b \in Open : Room(bins[b], i)} IN
  bins' = IF fits = {} THEN Append(bins, <<i>>)
          ELSE [bins EXCEPT ![Min(fits)] = Append(@, i)]

Fit ==
  /\ phase = "fit"
  /\ waiting # {}
  /\ \E i \in NextUp :
       IF size[i] > Capacity
       THEN phase' = "refused" /\ UNCHANGED <<waiting, bins>>
       ELSE PutInBin(i) /\ waiting' = waiting \ {i} /\ UNCHANGED phase
  /\ UNCHANGED <<packer, size, spare, at, full>>

FitEnds ==
  /\ phase = "fit"
  /\ waiting = {}
  /\ phase' = "adjust"
  /\ full' = [b \in DOMAIN bins |-> Len(bins[b])]
  /\ UNCHANGED <<packer, size, waiting, bins, spare, at>>

-----------------------------------------------------------------------------
(* Modified first fit decreasing *)

\* Add the sequences to the bin the packer looks at.
AddTo(b, is) ==
  /\ bins' = [bins EXCEPT ![b] = @ \o is]
  /\ waiting' = waiting \ Range(is)

KeepBins == UNCHANGED <<waiting, bins>>

\* Phase 1: a bin for each large sequence.
OpenLarge ==
  LET large == {i \in waiting : Large(i)} IN
  /\ phase = "large"
  /\ IF large # {}
     THEN /\ bins' = Append(bins, <<Longest(large)>>)
          /\ waiting' = waiting \ {Longest(large)}
          /\ UNCHANGED <<phase, at>>
     ELSE phase' = "medium" /\ at' = 1 /\ KeepBins
  /\ UNCHANGED <<packer, size, spare, full>>

\* Phase 2: the longest medium sequence that fits in each of these bins.
AddMedium ==
  LET fits == {i \in waiting : Medium(i) /\ Room(bins[at], i)} IN
  /\ phase = "medium"
  /\ IF at > Len(bins)
     THEN phase' = "small" /\ at' = Len(bins) /\ KeepBins
     ELSE /\ IF fits = {} THEN KeepBins ELSE AddTo(at, <<Longest(fits)>>)
          /\ at' = at + 1
          /\ UNCHANGED phase
  /\ UNCHANGED <<packer, size, spare, full>>

\* Two of the small sequences fit in the bin: the shortest and the longest
\* that fits beside it.
SmallPair(bin) ==
  LET small  == {i \in waiting : Small(i)}
      first  == Shortest(small)
      others == small \ {first}
  IN  IF \/ \E k \in DOMAIN bin : Medium(bin[k])
         \/ Cardinality(small) < 2
         \/ Load(bin) + size[first] + size[Shortest(others)] > Capacity
      THEN <<>>
      ELSE <<first, LastLongest({i \in others : Room(Append(bin, first), i)})>>

\* Phase 3, from the last bin to the first.
AddSmallPair ==
  /\ phase = "small"
  /\ IF at = 0
     THEN phase' = "greedy" /\ at' = 1 /\ KeepBins
     ELSE AddTo(at, SmallPair(bins[at])) /\ at' = at - 1 /\ UNCHANGED phase
  /\ UNCHANGED <<packer, size, spare, full>>

\* Phase 4: each bin takes the longest sequence that fits, as long as one does.
FillGreedily ==
  LET fits == {i \in waiting : Room(bins[at], i)} IN
  /\ phase = "greedy"
  /\ IF at > Len(bins) \/ waiting = {}
     THEN phase' = "spread" /\ spare' = <<<<>>>> /\ KeepBins /\ UNCHANGED at
     ELSE /\ IF fits = {} THEN at' = at + 1 /\ KeepBins
                          ELSE AddTo(at, <<Longest(fits)>>) /\ UNCHANGED at
          /\ UNCHANGED <<phase, spare>>
  /\ UNCHANGED <<packer, size, full>>

\* Mutant: the bin goes to the end of the list.
Unsorted(others, bin) == Append(others, bin)

\* The bins sorted by load, the new one after those of its own load (bisect).
Sorted(others, bin) ==
  InsertAt(others, Cardinality({k \in DOMAIN others : Load(others[k]) <= Load(bin)}) + 1, bin)

\* Phase 5: what is left, longest first, in the least full of the new bins.
Spread ==
  /\ phase = "spread"
  /\ waiting # {}
  /\ LET i == Longest(waiting) IN
     /\ spare' = IF Room(Head(spare), i)
                 THEN Sorted(Tail(spare), Append(Head(spare), i))
                 ELSE Sorted(spare, <<i>>)
     /\ waiting' = waiting \ {i}
  /\ UNCHANGED <<packer, size, bins, phase, at, full>>

\* The last line leaves out empty bins.
NonEmpty(all) ==
  FoldLeft(LAMBDA kept, bin : IF bin = <<>> THEN kept ELSE Append(kept, bin), <<>>, all)

SpreadEnds ==
  /\ phase = "spread"
  /\ waiting = {}
  /\ bins' = NonEmpty(bins \o spare)
  /\ spare' = <<>>
  /\ phase' = "adjust"
  /\ full' = [b \in DOMAIN bins' |-> Len(bins'[b])]
  /\ UNCHANGED <<packer, size, waiting, at>>

-----------------------------------------------------------------------------
(* The number of bins: _adjust_bin_count, with min_bin_count and           *)
(* bin_count_multiple both the number of shards                            *)

\* Mutant: there are at least as many bins as shards, but no multiple.
BinsWantedAtLeast(shards) == IF Len(full) < shards THEN shards ELSE Len(full)

BinsWanted(shards) ==
  LET least == IF Len(full) < shards THEN shards ELSE Len(full)
      over  == least % shards
  IN  IF over = 0 THEN least ELSE least + shards - over

\* The bins sequences are taken from, in the order fixed at the start: most
\* sequences first and, among equals, the last bin first.
Before(b, c) == full[b] > full[c] \/ (full[b] = full[c] /\ b >= c)

\* The loop never comes back to a bin: it left it with one sequence.
Givers == {b \in DOMAIN full : Len(bins[b]) > 1}

Adjust(shards) ==
  /\ phase = "adjust"
  /\ IF Len(bins) = BinsWanted(shards)
     THEN phase' = "packed" /\ UNCHANGED bins
     ELSE IF Cardinality(DOMAIN size) < BinsWanted(shards)
     THEN phase' = "refused" /\ UNCHANGED bins
     ELSE IF Givers = {}
     THEN phase' = "bug" /\ UNCHANGED bins
     ELSE LET b == CHOOSE b \in Givers : \A c \in Givers : Before(b, c) IN
          /\ bins' = Append([bins EXCEPT ![b] = Front(@)], <<Last(bins[b])>>)
          /\ UNCHANGED phase
  /\ UNCHANGED <<packer, size, waiting, spare, at, full>>

PackingStep(shards) ==
  \/ Fit \/ FitEnds
  \/ OpenLarge \/ AddMedium \/ AddSmallPair \/ FillGreedily \/ Spread \/ SpreadEnds
  \/ Adjust(shards)

=============================================================================
