------------------------------- MODULE MCSpsc ------------------------------
(* Instances of SPSCQueue for TLC.                                         *)
EXTENDS SPSCQueue, TLC

\* Values are interchangeable.
Symmetry == Permutations(Values)

=============================================================================
