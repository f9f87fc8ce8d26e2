------------------------ MODULE MCReconciliationJobs ------------------------
(* Small instances of ReconciliationJobs. *)
EXTENDS ReconciliationJobs, TLC

Symmetry == Permutations(Passes) \cup Permutations(Tokens)
=============================================================================
