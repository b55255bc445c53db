---------------------------- MODULE WorkerPoolMC ----------------------------
(* Instances of the pool: which processes are workers, which relayers. *)
EXTENDS WorkerPool, TLC

\* Workers and relayers that behave alike.
Symmetry == Permutations(Job) \cup Permutations(Worker)
=============================================================================
