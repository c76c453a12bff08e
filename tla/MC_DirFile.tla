----------------------------- MODULE MC_DirFile -----------------------------
(* Names: a and d need one LFN slot, b two; c is a short name only, whose *)
(* first character is 'A' (0x41, order 1 once the LAST bit is masked).   *)
EXTENDS DirFile, TLC

CONSTANTS p1, p2, a, b, c, d

MCProcs == {p1, p2}
MCNames == {a, b, d}
MCLfns == (a :> 1) @@ (b :> 2) @@ (c :> 0) @@ (d :> 1)
MCShortOrd == (a :> 1) @@ (b :> 1) @@ (c :> 1) @@ (d :> 1)
MCInit == <<a, b>>

(* D holding a alone. *)
MCInitA == <<a>>

(* A volume written by another system: c, then a. *)
MCNamesShort == {a, c, d}
MCInitShort == <<c, a>>
=============================================================================
