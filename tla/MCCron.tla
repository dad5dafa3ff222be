------------------------------- MODULE MCCron -------------------------------
(* Cron for TLC.                                                            *)
EXTENDS Cron, TLC

\* Calls and runs are alike; the properties are about single states.
Symmetry == Permutations(Calls) \cup Permutations(Runs)
=============================================================================
