---------------------------- MODULE MCKacheClient ----------------------------
EXTENDS KacheClient, TLC

\* Neither threads nor connections are told apart, and no liveness property is
\* checked.
Symmetry == Permutations(Threads) \cup Permutations(Conns)
=============================================================================
