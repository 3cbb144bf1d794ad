----------------------------- MODULE AsyncGRPOMC -----------------------------
(***************************************************************************)
(* Small instances of AsyncGRPO for TLC.                                   *)
(***************************************************************************)
EXTENDS AsyncGRPO, TLC

\* Workers are alike: they differ only in what they are given to do.
\* (Not used with the temporal properties.)
Symmetry == Permutations(Workers)
=============================================================================
