------------------------------- MODULE MC_Proc -------------------------------
(* Model-checking instance of Proc: two harts, model values for the        *)
(* sentinels, and the hart symmetry used by the safety-only runs.          *)
EXTENDS Proc, TLC

CONSTANTS h1, h2

MCHarts == {h1, h2}

(* Harts are interchangeable: the scheduler loop is the same code on each. *)
HartSymmetry == Permutations(MCHarts)
==============================================================================
