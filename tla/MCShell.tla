------------------------------ MODULE MCShell -------------------------------
EXTENDS Shell, TLC

PidSymmetry == Permutations(PIDs)
=============================================================================
