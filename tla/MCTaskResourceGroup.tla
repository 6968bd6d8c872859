------------------------ MODULE MCTaskResourceGroup ------------------------
\* TaskResourceGroup for TLC: the parties are interchangeable.
EXTENDS TaskResourceGroup, TLC

Symmetry == Permutations(Parties)
=============================================================================
