------------------------- MODULE MCTemporaryAccess -------------------------
EXTENDS TemporaryAccess, TLC
Symmetry == Permutations(Commands) \cup Permutations(Admins)
=============================================================================
