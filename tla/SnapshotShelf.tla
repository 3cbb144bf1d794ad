---------------------------- MODULE SnapshotShelf ----------------------------
(***************************************************************************)
(* What the checkpoint manager promises the training loops                 *)
(* (nemo_rl/utils/checkpoint.py, class CheckpointManager): a shelf of      *)
(* whole snapshots, one per saved step.  A snapshot appears at once and    *)
(* with a later step than any before it; it may leave only while a later   *)
(* one is on the shelf and KeepTopK snapshots ever saved rank before it.   *)
(* Crashes do not show.  Module Checkpoint does all this with directories  *)
(* and files and is shown to implement this one.                           *)
(***************************************************************************)
EXTENDS Integers, FiniteSets

CONSTANTS
  MaxStep,    \* bound: the last step that is trained
  KeepTopK,   \* keep_top_k; MaxStep or more keeps all, as None does
  Metrics     \* values of metric_name, higher is better; 0 when it is missing

Steps == 1 .. MaxStep

VARIABLES
  shelf,   \* the steps of the snapshots on the shelf
  saved,   \* the steps of all snapshots ever saved
  metric   \* metric[s]: the metric in the training info of step s

shelfVars == <<shelf, saved, metric>>

\* The better metric ranks first; of equal ones the later step.
RanksBefore(s, t) ==
  \/ metric[s] > metric[t]
  \/ metric[s] = metric[t] /\ s > t

\* The K snapshots of S that rank first.
Top(S) == {s \in S : Cardinality({t \in S : RanksBefore(t, s)}) < KeepTopK}

ShelfInit ==
  /\ shelf = {}
  /\ saved = {}
  /\ metric = [s \in Steps |-> 0]

Save(s, m) ==
  /\ \A t \in saved : t < s
  /\ shelf' = shelf \cup {s}
  /\ saved' = saved \cup {s}
  /\ metric' = [metric EXCEPT ![s] = m]

Leave(s) ==
  /\ s \in shelf \ Top(saved)
  /\ \E t \in shelf : s < t
  /\ shelf' = shelf \ {s}
  /\ UNCHANGED <<saved, metric>>

ShelfNext ==
  \/ \E s \in Steps, m \in Metrics \cup {0} : Save(s, m)
  \/ \E s \in Steps : Leave(s)

ShelfSpec == ShelfInit /\ [][ShelfNext]_shelfVars

-----------------------------------------------------------------------------
\* The shelf holds the latest snapshot ever saved: a run resumes where the
\* last one saved, whatever was removed in between.
LatestOnShelf ==
  \A s \in saved : (\A t \in saved : t <= s) => s \in shelf

\* The shelf holds the K snapshots that rank first among all ever saved,
\* although every removal ranks only those that are left.
TopOnShelf == Top(saved) \subseteq shelf
=============================================================================
