---------------------------- MODULE WindowSyncMC ----------------------------
EXTENDS WindowSync, TLC

WindowSymmetry == Permutations(Windows)
IdSymmetry == Permutations(Ids)
Symmetry == WindowSymmetry \cup IdSymmetry
=============================================================================
