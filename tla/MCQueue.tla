------------------------------ MODULE MCQueue ------------------------------
(* Instances of MPMCQueue for TLC.                                         *)
EXTENDS MPMCQueue, TLC

\* Threads and values are interchangeable.
Symmetry == Permutations(Threads) \cup Permutations(Values)

=============================================================================
