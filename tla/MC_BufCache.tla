----------------------------- MODULE MC_BufCache -----------------------------
(* Model-checking instance of BufCache: threads and sectors are model     *)
(* values.                                                                 *)
EXTENDS BufCache, TLC

CONSTANTS t1, t2, t3, s1, s2, s3

MCThreads2 == {t1, t2}
MCThreads3 == {t1, t2, t3}
MCSecs == {s1, s2, s3}

==============================================================================
