-------------------------- MODULE CheckpointProofs --------------------------
(***************************************************************************)
(* Theorems about Checkpoint, for every number of steps and runs, period,  *)
(* number of checkpoints kept and set of metrics.                          *)
(***************************************************************************)
EXTENDS Checkpoint, FiniteSetTheorems, TLAPS

-----------------------------------------------------------------------------
(* Types *)

LEMMA NextFileType == TypeOK => NextFile \in Files \cup {"none"}
  BY DEF TypeOK, NextFile, Files

LEMMA LatestType ==
  ASSUME stepDirs \subseteq Steps,
         stepDirs = {} \/ \E s \in stepDirs : \A t \in stepDirs : t <= s
  PROVE  /\ stepDirs = {} => LatestStep = 0
         /\ stepDirs # {} => /\ LatestStep \in stepDirs
                             /\ \A t \in stepDirs : t <= LatestStep
  BY DEF LatestStep

-----------------------------------------------------------------------------
(* The inductive invariant, for runs that do not change save_optimizer *)

\* The files of the checkpoint under way that are written already.
Written ==
  /\ file # "training_info" => tmpDir[trained]["training_info"] = run
  /\ file \in {"optimizer", "train_dataloader"} => tmpDir[trained]["weights"] = run
  /\ file = "optimizer" => saveOptimizer
  /\ file = "train_dataloader" /\ saveOptimizer => tmpDir[trained]["optimizer"] = run

\* Nobody ever saves an optimizer that is not to be saved.
NoForeignOptimizer ==
  ~saveOptimizer => \A s \in Steps : /\ tmpDir[s]["optimizer"] = Absent
                                     /\ stepDir[s]["optimizer"] = Absent

Building ==
  pc \in {"open", "write", "rename"} => trained \in Steps /\ Written

BuiltWhole == pc = "rename" => WrittenBy(run, tmpDir[trained])

\* The directory with the highest step is whole.
Newest ==
  stepDirs = {} \/ \E m \in stepDirs : (\A s \in stepDirs : s <= m) /\ Whole(stepDir[m])

\* No directory is ahead of the run.
Ahead ==
  /\ pc \in {"open", "write", "rename"} => \A s \in stepDirs : s < trained
  /\ pc \in {"training", "list", "remove"} => \A s \in stepDirs : s <= trained
  /\ pc \in {"list", "remove"} => trained \in stepDirs
  /\ pc # "down" => run \in Runs

\* What is removed is older than the checkpoint just saved, and ranks after
\* KeepTopK of those ever saved.
DoomedInv ==
  /\ pc # "remove" => doomed = {}
  /\ \A s \in doomed : s \in stepDirs /\ s < trained /\ s \notin Shelf!Top(saved)

SavedInv ==
  /\ stepDirs \subseteq saved
  /\ \A s \in saved : \E t \in stepDirs : s <= t

IInv ==
  /\ TypeOK
  /\ Building
  /\ BuiltWhole
  /\ NoForeignOptimizer
  /\ Newest
  /\ Ahead
  /\ DoomedInv
  /\ SavedInv
  /\ TopIsWhole

-----------------------------------------------------------------------------
(* Facts about directories and ranks *)

LEMMA RunTypes == Runs \subseteq Nat \ {0} /\ Steps \subseteq Nat \ {0}
  BY CheckpointAssumption DEF Runs, Steps

\* A directory that lacks a file that its run wrote is not whole.
LEMMA LackingIsNotWhole ==
  ASSUME NEW dir, Whole(dir), NEW f \in Files, dir[f] # Absent,
         NEW left, left[f] \in {Absent, Torn}
  PROVE  ~Whole(left)
<1>1. PICK r \in Runs : WrittenBy(r, dir)
  BY DEF Whole
<1>2. ~(f = "optimizer" /\ ~saveOptimizer)
  BY <1>1 DEF WrittenBy
<1>3. \A q \in Runs : q # left[f]
  BY RunTypes DEF Absent, Torn
<1> QED BY <1>2, <1>3 DEF Whole, WrittenBy

LEMMA WholeHasInfo ==
  ASSUME NEW dir, Whole(dir)
  PROVE  dir["training_info"] # Absent
  BY RunTypes DEF Whole, WrittenBy, Files, Absent

LEMMA EmptyIsNotWhole == ~Whole(Empty)
  BY WholeHasInfo DEF Empty, Files

\* The module of the shelf has its own copy of Cardinality.
LEMMA SameCardinality == ASSUME NEW S PROVE Shelf!Cardinality(S) = Cardinality(S)
  BY DEF Shelf!Cardinality, Cardinality

LEMMA SavedIsFinite ==
  ASSUME TypeOK
  PROVE  IsFiniteSet(saved)
<1>1. IsFiniteSet(Steps)
  BY FS_Interval, CheckpointAssumption DEF Steps
<1> QED BY <1>1, FS_Subset DEF TypeOK

\* What ranks after KeepTopK of the checkpoints left ranks after KeepTopK of all.
LEMMA OutsideTopKOfAll ==
  ASSUME TypeOK, SavedInv, NEW s \in OutsideTopK
  PROVE  s \notin Shelf!Top(saved)
<1> DEFINE left == {t \in History : SortsBefore(t, s)}
<1> DEFINE all == {t \in saved : Shelf!RanksBefore(t, s)}
<1>1. IsFiniteSet(all)
  BY SavedIsFinite, FS_Subset, all \subseteq saved
<1>2. s \in saved /\ History \subseteq saved
  BY DEF OutsideTopK, History, SavedInv
<1>3. \A t \in saved : MetricOfSaved[t] = metric[t]
  BY DEF MetricOfSaved, TypeOK
<1>4. left \subseteq all
  BY <1>2, <1>3 DEF SortsBefore, Shelf!RanksBefore
<1>5. Cardinality(left) <= Cardinality(all) /\ IsFiniteSet(left)
  BY <1>1, <1>4, FS_Subset
<1>6. Cardinality(left) \in Nat /\ Cardinality(all) \in Nat
  BY <1>1, <1>5, FS_CardinalityType
<1>7. Cardinality(left) >= KeepTopK
  BY DEF OutsideTopK
<1>8. ~(Cardinality(all) < KeepTopK)
  BY <1>5, <1>6, <1>7, CheckpointAssumption
<1> QED BY <1>8, SameCardinality DEF Shelf!Top

-----------------------------------------------------------------------------
(* The invariant is inductive: one lemma per action *)

LEMMA MetricStays ==
  ASSUME UNCHANGED <<metric, saved>>
  PROVE  UNCHANGED MetricOfSaved
  BY DEF MetricOfSaved

\* What is on the disk matters to the invariant as long as it stays.
LEMMA DiskStays ==
  ASSUME UNCHANGED <<stepDirs, stepDir, MetricOfSaved, saved, saveOptimizer>>
  PROVE  /\ \A dir : Whole(dir)' <=> Whole(dir)
         /\ WholeDirs' = WholeDirs
         /\ Newest => Newest'
         /\ SavedInv => SavedInv'
         /\ Shelf!Top(saved)' = Shelf!Top(saved)
         /\ TopIsWhole => TopIsWhole'
<1>1. \A dir : Whole(dir)' <=> Whole(dir)
  BY DEF Whole, WrittenBy
<1>2. Newest => Newest'
  BY <1>1 DEF Newest
<1>3. SavedInv => SavedInv'
  BY DEF SavedInv
<1>4. Shelf!Top(saved)' = Shelf!Top(saved)
  BY DEF Shelf!Top, Shelf!RanksBefore
<1>5. TopIsWhole => TopIsWhole'
  BY <1>1, <1>4 DEF TopIsWhole, Shelf!TopOnShelf, WholeDirs
<1>6. WholeDirs' = WholeDirs
  BY <1>1 DEF WholeDirs
<1> QED BY <1>1, <1>2, <1>3, <1>4, <1>5, <1>6

LEMMA InitI == Init => IInv
<1> SUFFICES ASSUME Init PROVE IInv
  OBVIOUS
<1> USE RunTypes, CheckpointAssumption DEF Init
<1>1. Empty \in [Files -> Contents]
  BY DEF Empty, Contents
<1>2. TypeOK
  <2>1. stopping \in BOOLEAN /\ saveOptimizer \in BOOLEAN
    OBVIOUS
  <2>2. tmpDir \in [Steps -> [Files -> Contents]] /\ stepDir \in [Steps -> [Files -> Contents]]
    BY <1>1
  <2>3. metric \in [Steps -> Metrics \cup {0}]
    OBVIOUS
  <2>4. run \in 0 .. MaxRuns /\ trained \in 0 .. MaxStep /\ file \in Files
    BY DEF Files
  <2> QED BY <2>1, <2>2, <2>3, <2>4 DEF TypeOK
<1>3. Building /\ BuiltWhole /\ Newest /\ Ahead /\ SavedInv
  BY DEF Building, BuiltWhole, Newest, Ahead, SavedInv
<1>4. NoForeignOptimizer
  BY DEF NoForeignOptimizer, Empty, Files
<1>5. Shelf!Top(saved) = {}
  BY DEF Shelf!Top
<1>6. DoomedInv /\ TopIsWhole
  BY <1>5 DEF DoomedInv, TopIsWhole, Shelf!TopOnShelf, WholeDirs
<1> QED BY <1>2, <1>3, <1>4, <1>6 DEF IInv

LEMMA StartKeepsIInv ==
  ASSUME IInv, Start, ~ConfigChanges
  PROVE  IInv'
<1> USE DEF IInv, Start, disk
<1>1. stepDirs = {} \/ \E s \in stepDirs : \A t \in stepDirs : t <= s
  BY DEF Newest
<1>2. LatestStep \in 0 .. MaxStep /\ \A t \in stepDirs : t <= LatestStep
  <2>1. stepDirs \subseteq Steps /\ 0 \in 0 .. MaxStep
    BY CheckpointAssumption DEF TypeOK
  <2>2. stepDirs = {} \/ LatestStep \in Steps
    BY <1>1, <2>1, LatestType
  <2> QED BY <1>1, <2>1, <2>2, LatestType DEF Steps
<1>3. TypeOK'
  BY <1>2, CheckpointAssumption DEF TypeOK
<1>4. Building' /\ BuiltWhole' /\ DoomedInv'
  BY DEF Building, BuiltWhole, DoomedInv
<1>5. NoForeignOptimizer'
  BY DEF NoForeignOptimizer
<1>6. Ahead'
  BY <1>2, CheckpointAssumption DEF Ahead, TypeOK, Runs
<1>7. Newest' /\ SavedInv' /\ TopIsWhole'
  BY DiskStays, MetricStays
<1> QED BY <1>3, <1>4, <1>5, <1>6, <1>7

LEMMA TrainKeepsIInv ==
  ASSUME IInv, NEW last \in BOOLEAN, Train(last)
  PROVE  IInv'
<1> USE DEF IInv, Train, disk
<1>1. trained' \in Steps /\ trained' = trained + 1
  BY CheckpointAssumption DEF TypeOK, Steps
<1>2. TypeOK'
  BY <1>1, CheckpointAssumption DEF TypeOK, Files, Steps
<1>3. Building' /\ BuiltWhole'
  BY <1>1 DEF Building, BuiltWhole, Written
<1>4. NoForeignOptimizer' /\ DoomedInv'
  BY DEF NoForeignOptimizer, DoomedInv
<1>5. Ahead'
  BY <1>1 DEF Ahead, TypeOK, Steps
<1>6. Newest' /\ SavedInv' /\ TopIsWhole'
  BY DiskStays, MetricStays
<1> QED BY <1>2, <1>3, <1>4, <1>5, <1>6

LEMMA StopKeepsIInv ==
  ASSUME IInv, Stop
  PROVE  IInv'
<1> USE DEF IInv, Stop, disk
<1>1. TypeOK'
  <2>1. stopping' \in BOOLEAN /\ saveOptimizer' \in BOOLEAN
    BY DEF TypeOK
  <2>2. trained' \in 0 .. MaxStep /\ file' \in Files /\ run' \in 0 .. MaxRuns
    BY CheckpointAssumption DEF TypeOK, Files
  <2> QED BY <2>1, <2>2 DEF TypeOK
<1>2. Building' /\ BuiltWhole' /\ Ahead' /\ DoomedInv'
  BY DEF Building, BuiltWhole, Ahead, DoomedInv
<1>3. NoForeignOptimizer'
  BY DEF NoForeignOptimizer
<1>4. Newest' /\ SavedInv' /\ TopIsWhole'
  BY DiskStays, MetricStays
<1> QED BY <1>1, <1>2, <1>3, <1>4

LEMMA OpenKeepsIInv ==
  ASSUME IInv, NEW m \in Metrics \cup {0}, Open(m)
  PROVE  IInv' /\ UNCHANGED MetricOfSaved
<1> USE DEF IInv, Open
<1>1. trained \in Steps /\ trained \notin saved
  BY RunTypes DEF Building, Ahead, SavedInv, TypeOK
<1>2. UNCHANGED MetricOfSaved
  BY <1>1 DEF MetricOfSaved, TypeOK
<1>3. TypeOK'
  <2>1. tmpDir' \in [Steps -> [Files -> Contents]]
    BY <1>1 DEF TypeOK, Contents
  <2>2. metric' \in [Steps -> Metrics \cup {0}]
    BY <1>1 DEF TypeOK
  <2> QED BY <2>1, <2>2 DEF TypeOK
<1>4. \A f \in Files \ {file} : tmpDir'[trained][f] = tmpDir[trained][f]
  BY <1>1 DEF TypeOK
<1>5. Building'
  BY <1>1, <1>4 DEF Building, Written, Files, TypeOK
<1>6. NoForeignOptimizer'
  <2>1. ~saveOptimizer => file # "optimizer"
    BY DEF Building, Written
  <2> QED BY <1>1, <2>1 DEF NoForeignOptimizer, TypeOK, Files
<1>7. BuiltWhole' /\ Ahead' /\ DoomedInv'
  BY DEF BuiltWhole, Ahead, DoomedInv
<1>8. Newest' /\ SavedInv' /\ TopIsWhole'
  BY <1>2, DiskStays
<1> QED BY <1>2, <1>3, <1>5, <1>6, <1>7, <1>8

LEMMA WriteKeepsIInv ==
  ASSUME IInv, Write
  PROVE  IInv'
<1> USE DEF IInv, Write
<1>1. trained \in Steps /\ run \in Runs /\ file \in Files
  BY DEF Building, Ahead, TypeOK
<1>2. tmpDir'[trained][file] = run
  BY <1>1 DEF TypeOK
<1>3. \A f \in Files \ {file} : tmpDir'[trained][f] = tmpDir[trained][f]
  BY <1>1 DEF TypeOK
<1>4. TypeOK'
  <2>1. tmpDir' \in [Steps -> [Files -> Contents]]
    BY <1>1 DEF TypeOK, Contents
  <2>2. pc' \in {"rename", "open"} /\ file' \in Files
    BY NextFileType, <1>1
  <2> QED BY <2>1, <2>2 DEF TypeOK
<1>5. Written'
  BY <1>1, <1>2, <1>3 DEF Written, Building, NextFile, Files
<1>6. Building'
  BY <1>1, <1>5 DEF Building
<1>7. ~saveOptimizer => file # "optimizer"
  BY DEF Building, Written
<1>8. NoForeignOptimizer'
  BY <1>1, <1>7 DEF NoForeignOptimizer, TypeOK, Files
<1>9. BuiltWhole'
  <2> SUFFICES ASSUME pc' = "rename", NEW f \in Files
               PROVE  tmpDir'[trained][f] =
                        IF f = "optimizer" /\ ~saveOptimizer THEN Absent ELSE run
    BY DEF BuiltWhole, WrittenBy
  <2>1. file = "train_dataloader"
    BY <1>1 DEF NextFile, Files
  <2>2. CASE f = file
    BY <2>1, <2>2, <1>2
  <2>3. CASE f # file /\ f # "optimizer"
    BY <2>1, <2>3, <1>3 DEF Building, Written, Files
  <2>4. CASE f = "optimizer"
    BY <2>1, <2>4, <1>1, <1>3 DEF Building, Written, NoForeignOptimizer
  <2> QED BY <2>2, <2>3, <2>4
<1>10. Ahead' /\ DoomedInv'
  BY NextFileType, <1>1 DEF Ahead, DoomedInv
<1>11. Newest' /\ SavedInv' /\ TopIsWhole'
  BY DiskStays, MetricStays
<1> QED BY <1>4, <1>6, <1>8, <1>9, <1>10, <1>11

\* A new checkpoint only moves others down.
LEMMA TopAfterRename ==
  ASSUME IInv, Rename
  PROVE  Shelf!Top(saved)' \subseteq Shelf!Top(saved) \cup {trained}
<1> USE DEF IInv, Rename
<1> SUFFICES ASSUME NEW s \in saved, s \in Shelf!Top(saved)'
             PROVE  s \in Shelf!Top(saved)
  BY DEF Shelf!Top
<1> DEFINE before == {t \in saved : Shelf!RanksBefore(t, s)}
<1> DEFINE after == {t \in saved' : Shelf!RanksBefore(t, s)'}
<1>1. \A t \in saved : MetricOfSaved'[t] = MetricOfSaved[t]
  BY DEF MetricOfSaved, TypeOK
<1>2. before \subseteq after
  BY <1>1 DEF Shelf!RanksBefore
<1>3. IsFiniteSet(after)
  <2>1. IsFiniteSet(saved')
    BY SavedIsFinite, FS_AddElement
  <2> QED BY <2>1, FS_Subset, after \subseteq saved'
<1>4. IsFiniteSet(before) /\ Cardinality(before) <= Cardinality(after)
  BY <1>2, <1>3, FS_Subset
<1>5. Cardinality(before) \in Nat /\ Cardinality(after) \in Nat
  BY <1>3, <1>4, FS_CardinalityType
<1>6. Cardinality(after) < KeepTopK
  BY SameCardinality DEF Shelf!Top
<1>7. Cardinality(before) < KeepTopK
  BY <1>4, <1>5, <1>6, CheckpointAssumption
<1> QED BY <1>7, SameCardinality DEF Shelf!Top

LEMMA RenameKeepsIInv ==
  ASSUME IInv, Rename
  PROVE  IInv'
<1> USE DEF IInv, Rename
<1>1. trained \in Steps /\ run \in Runs
  BY DEF Building, Ahead
<1>2. /\ stepDir'[trained] = tmpDir[trained]
      /\ \A s \in Steps \ {trained} : stepDir'[s] = stepDir[s]
  BY <1>1 DEF TypeOK
<1>3. \A dir : Whole(dir)' <=> Whole(dir)
  BY DEF Whole, WrittenBy
<1>4. Whole(stepDir'[trained])
  BY <1>1, <1>2 DEF BuiltWhole, Whole
<1>5. \A s \in stepDirs : s < trained
  BY DEF Ahead
<1>6. TypeOK'
  <2>1. Empty \in [Files -> Contents]
    BY DEF Empty, Contents
  <2>2. tmpDir' \in [Steps -> [Files -> Contents]] /\ stepDir' \in [Steps -> [Files -> Contents]]
    BY <1>1, <2>1 DEF TypeOK
  <2> QED BY <1>1, <2>2 DEF TypeOK
<1>7. Building' /\ BuiltWhole'
  BY DEF Building, BuiltWhole
<1>8. NoForeignOptimizer'
  <2>1. Empty["optimizer"] = Absent
    BY DEF Empty, Files
  <2> QED BY <1>1, <2>1 DEF NoForeignOptimizer, TypeOK
<1>9. Newest'
  <2>1. \A s \in stepDirs' : s <= trained
    BY <1>1, <1>5 DEF TypeOK, Steps
  <2> QED BY <1>3, <1>4, <2>1 DEF Newest
<1>10. Ahead'
  BY <1>1, <1>5 DEF Ahead, TypeOK, Steps
<1>11. DoomedInv'
  BY DEF DoomedInv
<1>12. SavedInv'
  <2>1. trained <= trained
    BY <1>1 DEF Steps
  <2> QED BY <2>1 DEF SavedInv
<1>13. TopIsWhole'
  <2>1. \A s \in Shelf!Top(saved) : s \in stepDirs /\ Whole(stepDir[s])
    BY DEF TopIsWhole, Shelf!TopOnShelf, WholeDirs
  <2>2. \A s \in Shelf!Top(saved) : s \in stepDirs' /\ Whole(stepDir'[s])
    BY <1>2, <1>5, <2>1 DEF TypeOK
  <2>3. \A s \in Shelf!Top(saved)' : s \in stepDirs' /\ Whole(stepDir[s])'
    BY <1>3, <1>4, <2>2, TopAfterRename
  <2> QED BY <2>3 DEF TopIsWhole, Shelf!TopOnShelf, WholeDirs
<1> QED BY <1>6, <1>7, <1>8, <1>9, <1>10, <1>11, <1>12, <1>13

LEMMA ListKeepsIInv ==
  ASSUME IInv, List
  PROVE  IInv'
<1> USE DEF IInv, List, disk
<1>1. Newest' /\ SavedInv' /\ TopIsWhole' /\ Shelf!Top(saved)' = Shelf!Top(saved)
  BY DiskStays, MetricStays
<1>2. \A s \in OutsideTopK : s \in stepDirs /\ s < trained
  BY DEF OutsideTopK, History, Ahead, TypeOK, Steps
<1>3. TypeOK'
  BY <1>2 DEF TypeOK
<1>4. DoomedInv'
  BY <1>1, <1>2, OutsideTopKOfAll DEF DoomedInv
<1>5. Building' /\ BuiltWhole' /\ NoForeignOptimizer' /\ Ahead'
  BY DEF Building, BuiltWhole, NoForeignOptimizer, Ahead
<1> QED BY <1>1, <1>3, <1>4, <1>5

LEMMA SavedKeepsIInv ==
  ASSUME IInv, Saved
  PROVE  IInv'
<1> USE DEF IInv, Saved, disk
<1>1. Newest' /\ SavedInv' /\ TopIsWhole'
  BY DiskStays, MetricStays
<1>2. TypeOK' /\ DoomedInv'
  BY DEF TypeOK, DoomedInv
<1>3. Building' /\ BuiltWhole' /\ NoForeignOptimizer' /\ Ahead'
  BY DEF Building, BuiltWhole, NoForeignOptimizer, Ahead
<1> QED BY <1>1, <1>2, <1>3

\* What a step of a removal touches.
LEMMA RemovedFile ==
  ASSUME IInv, NEW s \in Steps, NEW f \in Files, RemoveFile(s, f)
  PROVE  /\ s \in stepDirs /\ s < trained /\ trained \in stepDirs
         /\ s \notin Shelf!Top(saved)
         /\ stepDir'[s][f] \in {Absent, Torn}
         /\ \A g \in Files \ {f} : stepDir'[s][g] = stepDir[s][g]
         /\ \A t \in Steps \ {s} : stepDir'[t] = stepDir[t]
<1> USE DEF IInv, RemoveFile
<1>1. s \in stepDirs /\ s < trained /\ trained \in stepDirs /\ s \notin Shelf!Top(saved)
  BY DEF Removing, DoomedInv, Ahead
<1>2. /\ stepDir'[s][f] \in {Absent, Torn}
      /\ \A g \in Files \ {f} : stepDir'[s][g] = stepDir[s][g]
      /\ \A t \in Steps \ {s} : stepDir'[t] = stepDir[t]
  BY DEF TypeOK
<1> QED BY <1>1, <1>2

LEMMA RemoveFileKeepsIInv ==
  ASSUME IInv, NEW s \in Steps, NEW f \in Files, RemoveFile(s, f)
  PROVE  IInv'
<1> USE DEF IInv, RemoveFile, memory
<1>1. UNCHANGED MetricOfSaved
  BY MetricStays
<1>2. Shelf!Top(saved)' = Shelf!Top(saved)
  BY <1>1 DEF Shelf!Top, Shelf!RanksBefore
<1>3. \A dir : Whole(dir)' <=> Whole(dir)
  BY DEF Whole, WrittenBy
<1>4. TypeOK'
  <2>1. stepDir' \in [Steps -> [Files -> Contents]]
    BY DEF TypeOK, Contents
  <2> QED BY <2>1 DEF TypeOK
<1>5. Building' /\ BuiltWhole'
  BY DEF Building, BuiltWhole
<1>6. NoForeignOptimizer'
  <2> SUFFICES ASSUME ~saveOptimizer, NEW t \in Steps
               PROVE  stepDir'[t]["optimizer"] = Absent
    BY DEF NoForeignOptimizer
  <2>1. f # "optimizer"
    BY DEF NoForeignOptimizer
  <2>2. stepDir'[t]["optimizer"] = stepDir[t]["optimizer"]
    BY <2>1, RemovedFile DEF Files
  <2> QED BY <2>2 DEF NoForeignOptimizer
<1>7. Newest'
  <2>1. PICK m \in stepDirs : (\A t \in stepDirs : t <= m) /\ Whole(stepDir[m])
    BY RemovedFile DEF Newest
  <2>2. m \in Steps \ {s}
    BY <2>1, RemovedFile DEF TypeOK, Steps
  <2>3. Whole(stepDir[m])'
    BY <1>3, <2>1, <2>2, RemovedFile
  <2> QED BY <2>1, <2>3 DEF Newest
<1>8. Ahead' /\ SavedInv'
  BY DEF Ahead, SavedInv
<1>9. DoomedInv'
  BY <1>2 DEF DoomedInv
<1>10. TopIsWhole'
  <2>1. \A t \in Shelf!Top(saved) : t \in stepDirs /\ Whole(stepDir[t]) /\ t # s
    BY RemovedFile DEF TopIsWhole, Shelf!TopOnShelf, WholeDirs
  <2>2. \A t \in Shelf!Top(saved) : t \in stepDirs' /\ Whole(stepDir[t])'
    BY <1>3, <2>1, RemovedFile DEF TypeOK
  <2> QED BY <1>2, <2>2 DEF TopIsWhole, Shelf!TopOnShelf, WholeDirs
<1> QED BY <1>4, <1>5, <1>6, <1>7, <1>8, <1>9, <1>10

LEMMA RemoveDirKeepsIInv ==
  ASSUME IInv, NEW s \in Steps, RemoveDir(s)
  PROVE  IInv' /\ UNCHANGED WholeDirs
<1> USE DEF IInv, RemoveDir
<1>1. s \in stepDirs /\ s < trained /\ trained \in stepDirs /\ s \notin Shelf!Top(saved)
  BY DEF Removing, DoomedInv, Ahead
<1>2. UNCHANGED MetricOfSaved
  BY MetricStays
<1>3. Shelf!Top(saved)' = Shelf!Top(saved)
  BY <1>2 DEF Shelf!Top, Shelf!RanksBefore
<1>4. \A dir : Whole(dir)' <=> Whole(dir)
  BY DEF Whole, WrittenBy
<1>5. UNCHANGED WholeDirs
  BY <1>4, EmptyIsNotWhole DEF WholeDirs
<1>6. TypeOK'
  BY DEF TypeOK
<1>7. Building' /\ BuiltWhole' /\ NoForeignOptimizer'
  BY DEF Building, BuiltWhole, NoForeignOptimizer
<1>8. Newest'
  BY <1>1, <1>4, EmptyIsNotWhole DEF Newest
<1>9. Ahead'
  BY <1>1 DEF Ahead, TypeOK, Steps
<1>10. DoomedInv'
  BY <1>3 DEF DoomedInv
<1>11. SavedInv'
  <2> SUFFICES ASSUME NEW u \in saved PROVE \E t \in stepDirs' : u <= t
    BY DEF SavedInv
  <2>1. PICK t \in stepDirs : u <= t
    BY DEF SavedInv
  <2>2. CASE t # s
    BY <2>1, <2>2
  <2>3. CASE t = s
    <3>1. u <= trained
      BY <1>1, <2>1, <2>3 DEF TypeOK, Steps
    <3>2. trained \in stepDirs'
      BY <1>1 DEF TypeOK, Steps
    <3> QED BY <3>1, <3>2
  <2> QED BY <2>2, <2>3
<1>12. TopIsWhole'
  BY <1>3, <1>5 DEF TopIsWhole, Shelf!TopOnShelf
<1> QED BY <1>5, <1>6, <1>7, <1>8, <1>9, <1>10, <1>11, <1>12

LEMMA NextKeepsIInv ==
  ASSUME ~ConfigChanges, IInv, [Next]_vars
  PROVE  IInv'
<1>1. CASE UNCHANGED vars
  <2> USE <1>1 DEF IInv, vars, memory, disk
  <2>1. Newest' /\ SavedInv' /\ TopIsWhole' /\ Shelf!Top(saved)' = Shelf!Top(saved)
    BY DiskStays, MetricStays
  <2>2. TypeOK' /\ DoomedInv'
    BY <2>1 DEF TypeOK, DoomedInv
  <2>3. \A r, dir : WrittenBy(r, dir)' <=> WrittenBy(r, dir)
    BY DEF WrittenBy
  <2>4. Building' /\ BuiltWhole'
    BY <2>3 DEF Building, Written, BuiltWhole
  <2>5. NoForeignOptimizer' /\ Ahead'
    BY DEF NoForeignOptimizer, Ahead
  <2> QED BY <2>1, <2>2, <2>4, <2>5
<1>2. CASE Start
  BY <1>2, StartKeepsIInv
<1>3. ASSUME NEW last \in BOOLEAN, Train(last) PROVE IInv'
  BY <1>3, TrainKeepsIInv
<1>4. ASSUME NEW m \in Metrics \cup {0}, Open(m) PROVE IInv'
  BY <1>4, OpenKeepsIInv
<1>5. CASE Write
  BY <1>5, WriteKeepsIInv
<1>6. CASE Rename
  BY <1>6, RenameKeepsIInv
<1>7. CASE List
  BY <1>7, ListKeepsIInv
<1>8. ASSUME NEW s \in Steps, NEW f \in Files, RemoveFile(s, f) PROVE IInv'
  BY <1>8, RemoveFileKeepsIInv
<1>9. ASSUME NEW s \in Steps, RemoveDir(s) PROVE IInv'
  BY <1>9, RemoveDirKeepsIInv
<1>10. CASE Saved
  BY <1>10, SavedKeepsIInv
<1>11. CASE End \/ Crash
  BY <1>11, StopKeepsIInv DEF End, Crash
<1> QED
  BY <1>1, <1>2, <1>3, <1>4, <1>5, <1>6, <1>7, <1>8, <1>9, <1>10, <1>11 DEF Next

\* In every reachable state the directories, the checkpoint under way, the ranking
\* and the checkpoints to be removed are as IInv says, wherever the job died before.
THEOREM IInvariant ==
  ASSUME ~ConfigChanges
  PROVE  Spec => []IInv
<1>1. IInv /\ [Next]_vars => IInv'
  BY NextKeepsIInv
<1> QED BY <1>1, InitI, PTL DEF Spec

\* Every variable has its type, as long as save_optimizer does not change.
THEOREM TypeCorrect ==
  ASSUME ~ConfigChanges
  PROVE  Spec => []TypeOK
<1>1. IInv => TypeOK
  BY DEF IInv
<1> QED BY <1>1, IInvariant, PTL

LEMMA LatestOfInvariant ==
  ASSUME IInv
  PROVE  /\ stepDirs = {} => LatestStep = 0
         /\ stepDirs # {} => /\ LatestStep \in stepDirs
                             /\ \A t \in stepDirs : t <= LatestStep
  BY LatestType DEF IInv, TypeOK, Newest

\* Whenever the job dies, the checkpoint that get_latest_checkpoint_path finds is
\* whole and comes from one run.
THEOREM ResumesFromWhole ==
  ASSUME ~ConfigChanges
  PROVE  Spec => []LatestIsWhole
<1>1. IInv => LatestIsWhole
  <2> SUFFICES ASSUME IInv, stepDirs # {} PROVE Whole(stepDir[LatestStep])
    BY DEF LatestIsWhole
  <2>1. PICK m \in stepDirs : (\A s \in stepDirs : s <= m) /\ Whole(stepDir[m])
    BY DEF IInv, Newest
  <2>2. LatestStep \in stepDirs /\ m <= LatestStep /\ LatestStep <= m
    BY <2>1, LatestOfInvariant
  <2>3. LatestStep = m
    BY <2>2, RunTypes DEF IInv, TypeOK
  <2> QED BY <2>1, <2>3
<1> QED BY <1>1, IInvariant, PTL

\* finalize_checkpoint never meets a directory of the step it finalizes.
THEOREM FinalizeFindsNoStep ==
  ASSUME ~ConfigChanges
  PROVE  Spec => []StepIsNew
<1>1. IInv => StepIsNew
  BY RunTypes DEF IInv, StepIsNew, Ahead, Building, TypeOK
<1> QED BY <1>1, IInvariant, PTL

\* The KeepTopK best of all checkpoints ever saved are never lost.
THEOREM BestAreKept ==
  ASSUME ~ConfigChanges
  PROVE  Spec => []TopIsWhole
<1>1. IInv => TopIsWhole
  BY DEF IInv
<1> QED BY <1>1, IInvariant, PTL

-----------------------------------------------------------------------------
(* How much training a crash may cost *)

LEMMA Division ==
  ASSUME NEW n \in Nat, NEW p \in Nat, p > 0
  PROVE  /\ n % p \in 0 .. (p - 1)
         /\ \E q \in Nat : n = p * q + (n % p)
  BY SMTT(60)

LEMMA Remainder ==
  ASSUME NEW q \in Int, NEW p \in Nat, p > 0, NEW r \in 0 .. (p - 1)
  PROVE  (p * q + r) % p = r
  BY SMTT(60)

\* A step that is not a multiple of p is one further from the last multiple.
LEMMA NextRemainder ==
  ASSUME NEW n \in Nat, NEW p \in Nat, p > 0, (n + 1) % p # 0
  PROVE  (n + 1) % p = (n % p) + 1
<1>1. PICK q \in Nat : n = p * q + (n % p)
  BY Division
<1>2. n % p \in 0 .. (p - 1)
  BY Division
<1>3. CASE n % p = p - 1
  <2>1. n + 1 = p * (q + 1) + 0
    BY <1>1, <1>3, SMTT(30)
  <2>2. (p * (q + 1) + 0) % p = 0
    BY Remainder
  <2> QED BY <2>1, <2>2
<1>4. CASE n % p # p - 1
  <2>1. (n % p) + 1 \in 0 .. (p - 1)
    BY <1>2, <1>4
  <2>2. (p * q + ((n % p) + 1)) % p = (n % p) + 1
    BY <2>1, Remainder
  <2>3. n + 1 = p * q + ((n % p) + 1)
    BY <1>1, <1>2, SMTT(30)
  <2> QED BY <2>2, <2>3
<1> QED BY <1>3, <1>4

\* The latest checkpoint is not older than the last multiple of save_period.
LossInv ==
  /\ pc = "training" => trained - LatestStep <= trained % SavePeriod
  /\ pc \in {"open", "write", "rename"} => trained - LatestStep <= SavePeriod

LEMMA LatestIsTrained ==
  ASSUME IInv, pc \in {"list", "remove"}
  PROVE  LatestStep = trained
<1>1. trained \in stepDirs /\ \A s \in stepDirs : s <= trained
  BY DEF IInv, Ahead
<1>2. LatestStep \in stepDirs /\ trained <= LatestStep /\ LatestStep <= trained
  BY <1>1, LatestOfInvariant
<1> QED BY <1>2, RunTypes DEF IInv, TypeOK

LEMMA LatestInRange ==
  ASSUME IInv
  PROVE  LatestStep \in Nat /\ trained \in Nat
<1>1. LatestStep \in Steps \cup {0}
  BY LatestOfInvariant DEF IInv, TypeOK
<1> QED BY <1>1, RunTypes, CheckpointAssumption DEF IInv, TypeOK

LEMMA NextKeepsLossInv ==
  ASSUME IInv, LossInv, [Next]_vars
  PROVE  LossInv'
<1> USE DEF LossInv
<1>1. SavePeriod \in Nat /\ SavePeriod > 0
  BY CheckpointAssumption
<1>2. LatestStep \in Nat /\ trained \in Nat /\ trained % SavePeriod \in 0 .. (SavePeriod - 1)
  BY <1>1, LatestInRange, Division
<1>3. stepDirs' = stepDirs => LatestStep' = LatestStep
  BY DEF LatestStep
<1>4. CASE UNCHANGED vars
  BY <1>3, <1>4 DEF vars, memory, disk
<1>5. CASE Start
  <2>1. trained' = LatestStep /\ LatestStep' = LatestStep /\ pc' = "training"
    BY <1>3, <1>5 DEF Start, disk
  <2>2. LatestStep % SavePeriod >= 0
    BY <1>1, <1>2, Division
  <2> QED BY <1>2, <2>1, <2>2
<1>6. ASSUME NEW last \in BOOLEAN, Train(last) PROVE LossInv'
  <2>1. /\ pc = "training" /\ trained' = trained + 1 /\ LatestStep' = LatestStep
        /\ pc' \in {"open", "training"}
        /\ pc' = "training" => (trained + 1) % SavePeriod # 0
    BY <1>3, <1>6 DEF Train, Saves, disk
  <2>2. CASE pc' = "open"
    BY <1>1, <1>2, <2>1, <2>2
  <2>3. CASE pc' = "training"
    <3>1. (trained + 1) % SavePeriod = (trained % SavePeriod) + 1
      BY <1>1, <1>2, <2>1, <2>3, NextRemainder
    <3>2. trained' - LatestStep' <= (trained + 1) % SavePeriod
      BY <1>1, <1>2, <2>1, <3>1
    <3>3. trained' - LatestStep' <= trained' % SavePeriod
      BY <2>1, <3>2
    <3> QED BY <2>3, <3>3
  <2> QED BY <2>1, <2>2, <2>3
<1>7. ASSUME NEW m \in Metrics \cup {0}, Open(m) PROVE LossInv'
  BY <1>3, <1>7 DEF Open
<1>8. CASE Write
  BY <1>3, <1>8 DEF Write
<1>9. CASE Rename \/ List \/ End \/ Crash
  BY <1>9 DEF Rename, List, End, Crash, Stop
<1>10. ASSUME NEW s \in Steps, NEW f \in Files, RemoveFile(s, f) PROVE LossInv'
  BY <1>10 DEF RemoveFile, memory
<1>11. ASSUME NEW s \in Steps, RemoveDir(s) PROVE LossInv'
  BY <1>11 DEF RemoveDir
<1>12. CASE Saved
  <2>1. LatestStep' = trained /\ trained' = trained /\ pc' = "training"
    BY <1>3, <1>12, LatestIsTrained DEF Saved, disk
  <2> QED BY <1>2, <2>1
<1> QED
  BY <1>4, <1>5, <1>6, <1>7, <1>8, <1>9, <1>10, <1>11, <1>12 DEF Next

\* A job that dies loses less than SavePeriod steps, or SavePeriod while it saves.
THEOREM LossIsBounded ==
  ASSUME ~ConfigChanges
  PROVE  Spec => []LossBounded
<1>1. Init => LossInv
  BY DEF Init, LossInv
<1>2. IInv /\ LossInv /\ [Next]_vars => LossInv'
  BY NextKeepsLossInv
<1>3. IInv /\ LossInv => LossBounded
  <2> SUFFICES ASSUME IInv, LossInv, pc # "down"
               PROVE  trained - LatestStep < SavePeriod + (IF pc = "training" THEN 0 ELSE 1)
    BY DEF LossBounded
  <2>1. SavePeriod \in Nat /\ SavePeriod > 0
    BY CheckpointAssumption
  <2>2. LatestStep \in Nat /\ trained \in Nat /\ trained % SavePeriod \in 0 .. (SavePeriod - 1)
    BY <2>1, LatestInRange, Division
  <2>3. CASE pc = "training"
    BY <2>1, <2>2, <2>3 DEF LossInv
  <2>4. CASE pc \in {"open", "write", "rename"}
    BY <2>1, <2>2, <2>4 DEF LossInv
  <2>5. CASE pc \in {"list", "remove"}
    BY <2>1, <2>2, <2>5, LatestIsTrained
  <2> QED BY <2>3, <2>4, <2>5 DEF IInv, TypeOK
<1> QED BY <1>1, <1>2, <1>3, IInvariant, PTL DEF Spec

-----------------------------------------------------------------------------
(* How much space the checkpoints take *)

\* Directories without training info, which no removal will look at again.
Strays == stepDirs \ History

\* At most one directory that is being removed has lost its training info, and
\* each run that died left at most that one.
SpaceInv ==
  /\ pc = "remove" => Cardinality(History \ doomed) <= KeepTopK + 1
  /\ pc = "down" => Cardinality(Strays) <= run
  /\ pc # "down" => Cardinality(Strays \ doomed) < run
  /\ \A s \in Strays \cap doomed : Removing(s)

\* The ranking of checkpoints is a strict total order of the steps.
LEMMA RankingIsStrict ==
  ASSUME TypeOK
  PROVE  /\ \A s \in Steps : ~SortsBefore(s, s)
         /\ \A s, t \in Steps : s # t => (SortsBefore(s, t) <=> ~SortsBefore(t, s))
         /\ \A s, t, u \in Steps : SortsBefore(s, t) /\ SortsBefore(t, u) => SortsBefore(s, u)
<1>1. \A s \in Steps : metric[s] \in Nat /\ s \in Nat
  <2>1. Metrics \cup {0} \subseteq Nat
    BY CheckpointAssumption
  <2>2. \A s \in Steps : metric[s] \in Metrics \cup {0}
    BY DEF TypeOK
  <2> QED BY <2>1, <2>2, RunTypes
<1> QED BY <1>1 DEF SortsBefore

LEMMA StepSetsAreFinite ==
  ASSUME NEW S \in SUBSET Steps
  PROVE  IsFiniteSet(S) /\ Cardinality(S) \in Nat
<1>1. IsFiniteSet(Steps)
  BY FS_Interval, CheckpointAssumption DEF Steps
<1>2. IsFiniteSet(S)
  BY <1>1, FS_Subset
<1> QED BY <1>2, FS_CardinalityType

\* No two checkpoints have the same number of better ones, so at most k have less
\* than k.
LEMMA FewAreInTop ==
  ASSUME TypeOK, NEW H \in SUBSET Steps, NEW k \in Nat
  PROVE  Cardinality({s \in H : Cardinality({t \in H : SortsBefore(t, s)}) < k}) <= k
<1> DEFINE better(s) == {t \in H : SortsBefore(t, s)}
           top == {s \in H : Cardinality(better(s)) < k}
           rank == [s \in top |-> Cardinality(better(s))]
<1>1. \A s \in H : better(s) \in SUBSET Steps
  OBVIOUS
<1>2. \A s \in H : IsFiniteSet(better(s)) /\ Cardinality(better(s)) \in Nat
  <2> HIDE DEF better
  <2> QED BY <1>1, StepSetsAreFinite
<1>3. ASSUME NEW s \in H, NEW t \in H, SortsBefore(s, t)
      PROVE  Cardinality(better(s)) # Cardinality(better(t))
  <2>1. better(s) \subseteq better(t) /\ s \in better(t) /\ s \notin better(s)
    BY <1>3, RankingIsStrict
  <2>2. better(s) # better(t)
    BY <2>1
  <2> HIDE DEF better
  <2> QED BY <1>2, <2>1, <2>2, FS_Subset
<1>4. rank \in [top -> 0 .. (k - 1)]
  <2> HIDE DEF better
  <2> QED BY <1>2
<1>5. ASSUME NEW s \in top, NEW t \in top, rank[s] = rank[t] PROVE s = t
  <2>1. Cardinality(better(s)) = Cardinality(better(t))
    BY <1>5
  <2>2. ~SortsBefore(s, t) /\ ~SortsBefore(t, s)
    <3> HIDE DEF better
    <3> QED BY <1>3, <2>1
  <2> QED BY <2>2, RankingIsStrict
<1> HIDE DEF top, rank
<1>6. rank \in Injection(top, 0 .. (k - 1))
  BY <1>4, <1>5 DEF Injection, IsInjective
<1>7. IsFiniteSet(0 .. (k - 1)) /\ Cardinality(0 .. (k - 1)) = k
  BY FS_Interval
<1>8. Cardinality(top) <= Cardinality(0 .. (k - 1))
  BY <1>6, <1>7, FS_Injection
<1> QED BY <1>7, <1>8 DEF top

\* What remove_old_checkpoints lists leaves keep_top_k checkpoints and the latest.
LEMMA FewAreKept ==
  ASSUME IInv
  PROVE  Cardinality(History \ OutsideTopK) <= KeepTopK + 1
<1> DEFINE top == {s \in History : Cardinality({t \in History : SortsBefore(t, s)}) < KeepTopK}
           latest == {s \in History : \A t \in History : t <= s}
<1>1. History \in SUBSET Steps /\ top \in SUBSET Steps /\ latest \in SUBSET Steps
  BY DEF IInv, TypeOK, History
<1>2. History \ OutsideTopK \subseteq top \cup latest
  <2> SUFFICES ASSUME NEW s \in History, s \notin top, s \notin latest PROVE s \in OutsideTopK
    OBVIOUS
  <2>1. Cardinality({t \in History : SortsBefore(t, s)}) \in Nat
    <3>1. {t \in History : SortsBefore(t, s)} \in SUBSET Steps
      BY <1>1
    <3> QED BY <3>1, StepSetsAreFinite
  <2>2. \E t \in History : s < t
    BY <1>1, RunTypes
  <2> QED BY <2>1, <2>2, CheckpointAssumption DEF OutsideTopK
<1>3. IsFiniteSet(top) /\ Cardinality(top) \in Nat /\ Cardinality(top) <= KeepTopK
  BY <1>1, StepSetsAreFinite, FewAreInTop, CheckpointAssumption DEF IInv
<1>4. IsFiniteSet(latest) /\ Cardinality(latest) \in Nat /\ Cardinality(latest) <= 1
  <2>1. latest = {} \/ \E s : latest = {s}
    <3>1. \A s, t \in latest : s = t
      BY <1>1, RunTypes
    <3> QED BY <3>1
  <2> HIDE DEF latest
  <2>2. Cardinality(latest) \in {0, 1}
    BY <2>1, FS_EmptySet, FS_Singleton
  <2> QED BY <1>1, <2>2, StepSetsAreFinite
<1> HIDE DEF top, latest
<1>5. /\ IsFiniteSet(top \cup latest)
      /\ Cardinality(top \cup latest) = Cardinality(top) + Cardinality(latest)
                                          - Cardinality(top \cap latest)
  BY <1>3, <1>4, FS_Union
<1>6. Cardinality(top \cap latest) \in Nat
  <2>1. top \cap latest \in SUBSET Steps
    BY <1>1
  <2> QED BY <2>1, StepSetsAreFinite
<1>7. Cardinality(History \ OutsideTopK) <= Cardinality(top \cup latest)
  BY <1>2, <1>5, FS_Subset
<1>8. Cardinality(History \ OutsideTopK) \in Nat
  <2>1. History \ OutsideTopK \in SUBSET Steps
    BY <1>1
  <2> QED BY <2>1, StepSetsAreFinite
<1> QED BY <1>3, <1>4, <1>5, <1>6, <1>7, <1>8, CheckpointAssumption

\* A removal that is cut short adds one stray directory.
LEMMA OneMoreStray ==
  ASSUME IInv, SpaceInv
  PROVE  /\ Cardinality(Strays) \in Nat
         /\ pc # "down" => Cardinality(Strays) <= run
<1>1. Strays \in SUBSET Steps /\ Strays \ doomed \in SUBSET Steps /\ doomed \in SUBSET Steps
  BY DEF Strays, IInv, TypeOK
<1>2. IsFiniteSet(Strays) /\ Cardinality(Strays) \in Nat
  BY <1>1, StepSetsAreFinite
<1>3. IsFiniteSet(Strays \ doomed) /\ Cardinality(Strays \ doomed) \in Nat
  BY <1>1, StepSetsAreFinite
<1>4. \A s, t \in Strays \cap doomed : s = t
  BY <1>1, RankingIsStrict DEF SpaceInv, Removing, IInv
<1>5. Strays = Strays \ doomed \/ \E s \in Strays : Strays = (Strays \ doomed) \cup {s}
  BY <1>4
<1>6. Cardinality(Strays) <= Cardinality(Strays \ doomed) + 1
  <2>1. CASE Strays = Strays \ doomed
    <3>1. Cardinality(Strays) = Cardinality(Strays \ doomed)
      BY <2>1
    <3> QED BY <1>2, <1>3, <3>1
  <2>2. ASSUME NEW s \in Strays, Strays = (Strays \ doomed) \cup {s}
        PROVE  Cardinality(Strays) <= Cardinality(Strays \ doomed) + 1
    <3> DEFINE left == Strays \ doomed
    <3>1. IsFiniteSet(left) /\ Cardinality(left) \in Nat /\ Strays = left \cup {s}
      BY <1>3, <2>2
    <3> HIDE DEF left
    <3>2. Cardinality(left \cup {s}) <= Cardinality(left) + 1
      BY <3>1, FS_AddElement
    <3> QED BY <3>1, <3>2 DEF left
  <2> QED BY <1>5, <2>1, <2>2
<1> QED BY <1>2, <1>3, <1>6 DEF SpaceInv, IInv, TypeOK

LEMMA NextKeepsSpaceInv ==
  ASSUME IInv, SpaceInv, [Next]_vars
  PROVE  SpaceInv'
<1>1. /\ UNCHANGED <<stepDirs, stepDir>> => UNCHANGED <<History, Strays>>
      /\ \A s : UNCHANGED <<doomed, metric>> => (Removing(s)' <=> Removing(s))
  BY DEF History, Strays, Removing, SortsBefore
<1>2. Cardinality(Strays) \in Nat /\ (pc # "down" => Cardinality(Strays) <= run) /\ run \in Nat
  BY OneMoreStray, CheckpointAssumption DEF IInv, TypeOK
<1>3. pc # "remove" => doomed = {}
  BY DEF IInv, DoomedInv
<1>4. CASE UNCHANGED vars
  BY <1>1, <1>4 DEF vars, memory, disk, SpaceInv
<1>5. CASE Start
  <2>1. /\ Strays' = Strays /\ doomed = {} /\ doomed' = {} /\ run' = run + 1
        /\ pc = "down" /\ pc' = "training"
    BY <1>1, <1>3, <1>5 DEF Start, disk
  <2> QED BY <1>2, <2>1 DEF SpaceInv
<1>6. ASSUME NEW last \in BOOLEAN, Train(last) PROVE SpaceInv'
  BY <1>1, <1>3, <1>6 DEF Train, disk, SpaceInv
<1>7. ASSUME NEW m \in Metrics \cup {0}, Open(m) PROVE SpaceInv'
  BY <1>1, <1>3, <1>7 DEF Open, SpaceInv
<1>8. CASE Write
  BY <1>1, <1>3, <1>8 DEF Write, SpaceInv
<1>9. CASE Rename
  <2>1. trained \in Steps /\ run \in Runs
    BY <1>9 DEF Rename, IInv, Building, Ahead
  <2>2. tmpDir[trained]["training_info"] # Absent
    BY <1>9, <2>1, WholeHasInfo DEF Rename, IInv, BuiltWhole, Whole
  <2>3. Strays' = Strays
    BY <1>9, <2>1, <2>2 DEF Rename, Strays, History, IInv, TypeOK
  <2> QED BY <1>3, <1>9, <2>3 DEF Rename, SpaceInv
<1>10. CASE List
  <2>1. /\ UNCHANGED <<History, Strays, run>> /\ doomed' = OutsideTopK /\ doomed = {}
        /\ pc = "list" /\ pc' = "remove"
    BY <1>1, <1>3, <1>10 DEF List, disk
  <2>2. OutsideTopK \subseteq History
    BY DEF OutsideTopK
  <2>3. Strays \cap OutsideTopK = {} /\ Strays \ OutsideTopK = Strays \ doomed
    BY <2>1, <2>2 DEF Strays
  <2> QED BY <2>1, <2>3, FewAreKept DEF SpaceInv
<1>11. ASSUME NEW s \in Steps, NEW f \in Files, RemoveFile(s, f) PROVE SpaceInv'
  <2>1. /\ UNCHANGED <<pc, run, doomed, metric, stepDirs>> /\ pc = "remove" /\ Removing(s)
        /\ s \in doomed
    BY <1>11 DEF RemoveFile, memory, Removing
  <2>2. \A t \in Steps \ {s} : stepDir'[t] = stepDir[t]
    BY <1>11, RemovedFile
  <2>3. History' \ {s} = History \ {s} /\ Strays' \ {s} = Strays \ {s}
    BY <2>1, <2>2 DEF History, Strays, IInv, TypeOK
  <2>4. History' \ doomed = History \ doomed /\ Strays' \ doomed = Strays \ doomed
    BY <2>1, <2>3
  <2>5. \A t \in Strays' \cap doomed : t = s \/ t \in Strays \cap doomed
    BY <2>3
  <2> QED BY <1>1, <2>1, <2>4, <2>5 DEF SpaceInv
<1>12. ASSUME NEW s \in Steps, RemoveDir(s) PROVE SpaceInv'
  <2>1. /\ UNCHANGED <<pc, run, metric, stepDir>> /\ pc = "remove" /\ Removing(s)
        /\ s \in doomed /\ s \in stepDirs /\ stepDirs' = stepDirs \ {s} /\ doomed' = doomed \ {s}
        /\ stepDir[s] = Empty
    BY <1>12 DEF RemoveDir, Removing, IInv, DoomedInv
  <2>2. s \notin History /\ s \in Strays
    BY <2>1 DEF History, Strays, Empty, Files
  <2>3. History' = History /\ Strays' = Strays \ {s}
    BY <2>1, <2>2 DEF History, Strays
  <2>4. History' \ doomed' = History \ doomed /\ Strays' \ doomed' = Strays \ doomed
    BY <2>1, <2>2, <2>3
  <2>5. Strays' \cap doomed' = {}
    <3>1. \A t \in Strays \cap doomed : t = s
      BY <2>1, RankingIsStrict DEF SpaceInv, Removing, IInv, TypeOK
    <3> QED BY <2>1, <2>3, <3>1
  <2> QED BY <2>1, <2>4, <2>5 DEF SpaceInv
<1>13. CASE Saved
  BY <1>1, <1>13 DEF Saved, disk, SpaceInv
<1>14. CASE End \/ Crash
  <2>1. /\ Strays' = Strays /\ doomed' = {} /\ pc' = "down" /\ run' = run /\ pc # "down"
    BY <1>1, <1>14 DEF End, Crash, Stop, disk
  <2> QED BY <1>2, <2>1 DEF SpaceInv
<1> QED
  BY <1>4, <1>5, <1>6, <1>7, <1>8, <1>9, <1>10, <1>11, <1>12, <1>13, <1>14 DEF Next

\* A save that completes leaves keep_top_k checkpoints and the latest, and besides
\* them at most one directory without training info for each earlier run.
THEOREM SpaceIsBounded ==
  ASSUME ~ConfigChanges
  PROVE  Spec => []SpaceBounded
<1>1. Init => SpaceInv
  <2> SUFFICES ASSUME Init PROVE SpaceInv
    OBVIOUS
  <2>1. Strays = {} /\ pc = "down" /\ run = 0 /\ doomed = {}
    BY DEF Init, Strays
  <2> QED BY <2>1, FS_EmptySet DEF SpaceInv
<1>2. IInv /\ SpaceInv /\ [Next]_vars => SpaceInv'
  BY NextKeepsSpaceInv
<1>3. SpaceInv => SpaceBounded
  BY DEF SpaceInv, SpaceBounded, Strays
<1> QED BY <1>1, <1>2, <1>3, IInvariant, PTL DEF Spec

-----------------------------------------------------------------------------
(* The directories implement the shelf *)

\* A rename puts the checkpoint on the shelf.
LEMMA RenameSaves ==
  ASSUME IInv, Rename
  PROVE  Shelf!Save(trained, metric[trained])
<1> USE DEF IInv, Rename
<1>1. trained \in Steps /\ run \in Runs
  BY DEF Building, Ahead
<1>2. \A s \in stepDirs : s < trained
  BY DEF Ahead
<1>3. \A t \in saved : t < trained
  BY <1>1, <1>2 DEF SavedInv, TypeOK, Steps
<1>4. \A dir : Whole(dir)' <=> Whole(dir)
  BY DEF Whole, WrittenBy
<1>5. WholeDirs' = WholeDirs \cup {trained}
  <2>1. Whole(stepDir[trained])'
    BY <1>1, <1>4 DEF BuiltWhole, Whole, TypeOK
  <2>2. \A s \in stepDirs : stepDir'[s] = stepDir[s]
    BY <1>2 DEF TypeOK
  <2> QED BY <1>4, <2>1, <2>2 DEF WholeDirs
<1>6. MetricOfSaved' = [MetricOfSaved EXCEPT ![trained] = metric[trained]]
  BY <1>1 DEF MetricOfSaved
<1> QED BY <1>3, <1>5, <1>6 DEF Shelf!Save

\* The first file that is removed takes the checkpoint off the shelf, and the
\* shelf had every right to let it go.
LEMMA RemoveFileLeaves ==
  ASSUME IInv, NEW s \in Steps, NEW f \in Files, RemoveFile(s, f)
  PROVE  Shelf!Leave(s) \/ UNCHANGED Shelf!shelfVars
<1> USE DEF IInv, RemoveFile, memory
<1>1. UNCHANGED <<MetricOfSaved, saved>>
  BY MetricStays
<1>2. \A dir : Whole(dir)' <=> Whole(dir)
  BY DEF Whole, WrittenBy
<1>3. \A t \in stepDirs \ {s} : Whole(stepDir[t])' <=> Whole(stepDir[t])
  BY <1>2, RemovedFile DEF TypeOK
<1>4. CASE Whole(stepDir[s])
  <2>1. ~Whole(stepDir[s])'
    <3>1. ~Whole(stepDir'[s])
      BY <1>4, LackingIsNotWhole, RemovedFile
    <3> QED BY <1>2, <3>1
  <2>2. WholeDirs' = WholeDirs \ {s}
    BY <1>3, <2>1 DEF WholeDirs
  <2>3. Whole(stepDir[trained])
    <3>1. PICK m \in stepDirs : (\A t \in stepDirs : t <= m) /\ Whole(stepDir[m])
      BY RemovedFile DEF Newest
    <3>2. m = trained
      BY <3>1, RunTypes, RemovedFile DEF Ahead, TypeOK
    <3> QED BY <3>1, <3>2
  <2>4. s \in WholeDirs \ Shelf!Top(saved) /\ trained \in WholeDirs /\ s < trained
    BY <1>4, <2>3, RemovedFile DEF WholeDirs
  <2> QED BY <1>1, <2>2, <2>4 DEF Shelf!Leave
<1>5. CASE ~Whole(stepDir[s])
  <2>1. ~Whole(stepDir'[s])
    <3> SUFFICES ASSUME Whole(stepDir'[s]) PROVE FALSE
      OBVIOUS
    <3>1. PICK r \in Runs : WrittenBy(r, stepDir'[s])
      BY DEF Whole
    <3>2. stepDir'[s][f] = Absent /\ f = "optimizer" /\ ~saveOptimizer
      BY <3>1, RunTypes, RemovedFile DEF WrittenBy, Absent, Torn
    <3> QED BY <3>2 DEF NoForeignOptimizer
  <2>2. ~Whole(stepDir[s])'
    BY <1>2, <2>1
  <2>3. WholeDirs' = WholeDirs
    BY <1>3, <1>5, <2>2 DEF WholeDirs
  <2> QED BY <1>1, <2>3 DEF Shelf!shelfVars
<1> QED BY <1>4, <1>5

LEMMA NextOnShelf ==
  ASSUME ~ConfigChanges, IInv, [Next]_vars
  PROVE  [Shelf!ShelfNext]_(Shelf!shelfVars)
<1> USE DEF Shelf!shelfVars
<1>1. CASE UNCHANGED vars
  BY <1>1, DiskStays, MetricStays DEF vars, memory, disk
<1>2. CASE Start
  BY <1>2, DiskStays, MetricStays DEF Start, disk
<1>3. ASSUME NEW last \in BOOLEAN, Train(last) PROVE UNCHANGED Shelf!shelfVars
  BY <1>3, DiskStays, MetricStays DEF Train, disk
<1>4. ASSUME NEW m \in Metrics \cup {0}, Open(m) PROVE UNCHANGED Shelf!shelfVars
  BY <1>4, DiskStays, OpenKeepsIInv DEF Open
<1>5. CASE Write
  BY <1>5, DiskStays, MetricStays DEF Write
<1>6. CASE Rename
  <2>1. trained \in Shelf!Steps /\ metric[trained] \in Metrics \cup {0}
    BY <1>6 DEF Rename, IInv, Building, TypeOK, Steps, Shelf!Steps
  <2> QED BY <1>6, <2>1, RenameSaves DEF Shelf!ShelfNext
<1>7. CASE List
  BY <1>7, DiskStays, MetricStays DEF List, disk
<1>8. ASSUME NEW s \in Steps, NEW f \in Files, RemoveFile(s, f)
      PROVE  [Shelf!ShelfNext]_(Shelf!shelfVars)
  BY <1>8, RemoveFileLeaves DEF Shelf!ShelfNext, Steps, Shelf!Steps
<1>9. ASSUME NEW s \in Steps, RemoveDir(s) PROVE UNCHANGED Shelf!shelfVars
  BY <1>9, RemoveDirKeepsIInv, MetricStays DEF RemoveDir
<1>10. CASE Saved
  BY <1>10, DiskStays, MetricStays DEF Saved, disk
<1>11. CASE End \/ Crash
  BY <1>11, DiskStays, MetricStays DEF End, Crash, Stop, disk
<1> QED
  BY <1>1, <1>2, <1>3, <1>4, <1>5, <1>6, <1>7, <1>8, <1>9, <1>10, <1>11 DEF Next

\* Saving, removing, dying and resuming, file by file, do what the shelf promises:
\* snapshots appear whole, and leave only while better ones and a later one stay.
THEOREM FilesImplementShelf ==
  ASSUME ~ConfigChanges
  PROVE  Spec => ImplementsShelf
<1>1. Init => Shelf!ShelfInit
  BY DEF Init, Shelf!ShelfInit, WholeDirs, MetricOfSaved, Steps, Shelf!Steps
<1>2. IInv /\ [Next]_vars => [Shelf!ShelfNext]_(Shelf!shelfVars)
  BY NextOnShelf
<1> QED BY <1>1, <1>2, IInvariant, PTL DEF Spec, ImplementsShelf, Shelf!ShelfSpec
=============================================================================
