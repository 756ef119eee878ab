--------------------------- MODULE MCConfigCommit ---------------------------
EXTENDS ConfigCommit, TLC

Symmetry == Permutations(Starts) \cup Permutations(Commands)
=============================================================================
