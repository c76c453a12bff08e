----------------------------- MODULE MC_FatChain -----------------------------
EXTENDS FatChain, TLC

CONSTANTS t1, t2

MCThreads == {t1, t2}
ThreadSymmetry == Permutations(MCThreads)

=============================================================================
