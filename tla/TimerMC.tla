------------------------------ MODULE TimerMC ------------------------------
EXTENDS Timer, TLC
WindowSymmetry == Permutations(Windows)
=============================================================================
