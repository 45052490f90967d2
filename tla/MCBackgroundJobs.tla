-------------------------- MODULE MCBackgroundJobs --------------------------
EXTENDS BackgroundJobs, TLC
Symmetry == Permutations(Jobs) \cup Permutations(Requests) \cup Permutations(Modes)
=============================================================================
