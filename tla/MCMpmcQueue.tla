---------------------------- MODULE MCMpmcQueue -----------------------------
(* MpmcQueue with the symmetry of its threads and values, for the safety runs. *)
EXTENDS MpmcQueue, TLC

Symmetry == Permutations(Producers) \cup Permutations(Consumers) \cup Permutations(Values)
=============================================================================
