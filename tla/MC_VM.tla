------------------------------- MODULE MC_VM --------------------------------
(* Model-checking instance of VM: two slots (init and one child), user   *)
(* sizes up to two pages, and every memory size from the 13 pages boot   *)
(* needs up to enough for init and a full-size child.                    *)
EXTENDS VM, TLC

(* 13 + k - 1 pages make the k-th kalloc of a fork from init fail, and   *)
(* one page fewer when init has grown first: the odd sizes reach every   *)
(* failure point; 28 pages let a two-page child be forked from a          *)
(* two-page init.                                                         *)
MCMemSizes == {13, 15, 17, 19, 21, 23, 25, 27, 28}

(* Five pages left after boot: fork's allocproc takes the trapframe, the *)
(* upt root and its two tables and the kpt root, and the kernel stack's  *)
(* kalloc fails.                                                          *)
MCMemKstack == {18}

==============================================================================
