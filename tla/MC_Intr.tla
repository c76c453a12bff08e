------------------------------- MODULE MC_Intr -------------------------------
EXTENDS Intr, TLC

CONSTANTS h1, h2

MCHarts == {h1, h2}
HartSymmetry == Permutations(MCHarts)
=============================================================================
