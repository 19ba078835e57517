----------------------------- MODULE DataFileMC -----------------------------
EXTENDS DataFile, TLC

ChangeSymmetry == Permutations(Changes)
Symmetry == Permutations(Procs) \cup ChangeSymmetry
=============================================================================
