---------------------------- MODULE MCThreadStacks ----------------------------
EXTENDS ThreadStacks, TLC

ThreadSymmetry == Permutations(Threads)
=============================================================================
