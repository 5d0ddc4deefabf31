---------------------------- MODULE MCManagedRuns -----------------------------
(* Small instance of ManagedRuns: the runs of one service in one session. *)
EXTENDS ManagedRuns, TLC

CONSTANT web
MCServiceOf == [k \in Keys |-> web]

ThreadSymmetry == Permutations(Threads) \cup Permutations(ClaimIds)
\* No manager instance is told from another either, where no property is about one.
SafetySymmetry == ThreadSymmetry \cup Permutations(Instances)
================================================================================
