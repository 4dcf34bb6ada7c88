----------------------------- MODULE MCRelayer -----------------------------
(* Instances of Relayer for TLC.                                             *)
EXTENDS Relayer, TLC

CONSTANTS cron, dispatch    \* the scheduled run and one started by hand

\* No property names a run.
RunSymmetry == Permutations(Runs)
=============================================================================
