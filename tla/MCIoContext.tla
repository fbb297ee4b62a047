---------------------------- MODULE MCIoContext ----------------------------
EXTENDS IoContext, TLC

Symmetry == Permutations(Roots) \cup Permutations(Fds)
=============================================================================
