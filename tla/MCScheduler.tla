----------------------------- MODULE MCScheduler -----------------------------
(* Instances of Scheduler for TLC.                                         *)
EXTENDS Scheduler, TLC

MCLowLimits == {1}
MCHighLimits == {2}
MCExpenses == {{"expenses"}}
MCTwoTypes == {{"expenses", "resources"}}
Symmetry == Permutations(Runs) \cup Permutations(Clients)
==============================================================================
