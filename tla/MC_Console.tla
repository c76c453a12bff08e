------------------------------ MODULE MC_Console ------------------------------
(* Model-checking instance of Console: two harts and model values for the  *)
(* sentinels.                                                              *)
EXTENDS Console, TLC

CONSTANTS h1, h2

MCHarts == {h1, h2}
==============================================================================
