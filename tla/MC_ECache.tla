------------------------------ MODULE MC_ECache ------------------------------
(* A volume: directory d and file g in the root, directory e in d, file f  *)
(* in e.                                                                   *)
EXTENDS ECache, TLC

CONSTANTS t1, t2, d, e, f, g

MCThreads1 == {t1}
MCThreads2 == {t1, t2}
MCFiles == {d, e, f, g}
MCDirs == {d, e}
MCDirOf == (d :> RootF) @@ (e :> d) @@ (f :> e) @@ (g :> RootF)
MCPaths == {<<d, e, f>>, <<d, e>>, <<g>>, <<d, DotDot, g>>}

(* Two levels for the races: directory d in the root, file f in d. *)
MCFiles2 == {d, f}
MCDirs2 == {d}
MCDirOf2 == (d :> RootF) @@ (f :> d)
MCPaths2 == {<<d, f>>}

(* One level for two threads sharing the root's entries: d (an empty     *)
(* directory) and g, also reached as d/../g.                              *)
MCFiles1 == {d, g}
MCDirOf1 == (d :> RootF) @@ (g :> RootF)
MCPaths1 == {<<d>>, <<g>>, <<d, g>>, <<d, DotDot, g>>}

=============================================================================
