--------------------------------- MODULE VM ---------------------------------
(***************************************************************************)
(* The physical page allocator (kalloc.c) and the address spaces built on *)
(* it (vm.c, and the callers in proc.c: allocproc, freeproc, userinit,    *)
(* growproc, fork, wait).                                                  *)
(*                                                                         *)
(* Pages are 1..ram; kmem.freelist is a sequence whose head is the next   *)
(* page kalloc returns.  kalloc and kfree are the only shared steps (under *)
(* kmem.lock); a process's page tables are private to the process that    *)
(* builds or changes them, so each kalloc is one step and the private     *)
(* work up to the next kalloc is folded into it.  A run of kfree calls    *)
(* with no kalloc between them is one step.                                *)
(*                                                                         *)
(* An address space is abstracted to the pages it owns and the leaves     *)
(* that matter.  A user page table (upt) has a root, the two intermediate *)
(* tables walk() allocates for the TRAMPOLINE/TRAPFRAME region (uhi), the *)
(* two for the user range (utab), and a leaf per user page (umap).  A     *)
(* kernel page table (kpt) has a root (a copy of kernel_pagetable), the   *)
(* two tables under VKSTACK (khi), the kernel stack page, the two tables  *)
(* for the user range (ktab) and leaves aliasing the user pages (kmap).   *)
(* The user range and VKSTACK are taken to lie under top-level entries    *)
(* that kernel_pagetable leaves invalid, as kvmfree and kvmfreeusr        *)
(* assume when they free the tables found there.                          *)
(***************************************************************************)
EXTENDS Integers, Sequences, SequencesExt, Functions

CONSTANTS
    MemSizes,   \* possible numbers of pages kinit puts on the free list
    MaxPg,      \* bound of the model on a process's size, in pages
    NPROC,      \* process slots; slot 1 is init
    MaxCalls    \* bound of the model on fork and growproc calls

(* Boot's allocproc and uvminit take 13 pages and check few results. *)
ASSUME MemSizes \subseteq 13..100 /\ NPROC >= 2 /\ MaxPg >= 1 /\ MaxCalls \in Nat

NoPage == 0
Slots == 1..NPROC
VPages == 0..MaxPg - 1
WordPages == 2^20   \* uint byte arithmetic on sizes, counted in 4096-byte pages

VARIABLES
    ram,            \* the pages kinit freed: 1..ram
    free, npage,    \* kmem.freelist and kmem.npage
    st,             \* proc state, abstracted: "UNUSED", "USED" or "ZOMBIE"
    tf,             \* p->trapframe
    uroot, uhi, utab, umap, tramp,     \* p->pagetable
    kroot, khi, kstk, kmapped, ktab, kmap,  \* p->kpagetable
    sz,             \* p->sz in pages
    pc,             \* what the process's kernel thread is doing
    tgt,            \* fork: the slot allocproc found
    a, ki,          \* uvmalloc's a / uvmcopy's i, and uvmcopy's ki
    oldsz, newsz,   \* uvmalloc's arguments
    mem,            \* the page kalloc just returned, not yet mapped
    parent,         \* p->parent
    panicked,
    calls           \* fork and growproc calls made so far (model bound)

vars == <<calls, ram, free, npage, st, tf, uroot, uhi, utab, umap, tramp, kroot, khi,
          kstk, kmapped, ktab, kmap, sz, pc, tgt, a, ki, oldsz, newsz, mem,
          parent, panicked>>

NoMap == [v \in VPages |-> NoPage]

(* kinit: freerange() kfrees pages in ascending order, so the highest is  *)
(* the head.  Boot then runs userinit in slot 1; the other slots are free. *)
Init ==
    /\ ram \in MemSizes
    /\ free = [i \in 1..ram |-> ram + 1 - i]
    /\ npage = ram
    /\ st = [q \in Slots |-> "UNUSED"]
    /\ tf = [q \in Slots |-> NoPage]
    /\ uroot = [q \in Slots |-> NoPage]
    /\ uhi = [q \in Slots |-> <<>>]
    /\ utab = [q \in Slots |-> <<>>]
    /\ umap = [q \in Slots |-> NoMap]
    /\ tramp = [q \in Slots |-> FALSE]
    /\ kroot = [q \in Slots |-> NoPage]
    /\ khi = [q \in Slots |-> <<>>]
    /\ kstk = [q \in Slots |-> NoPage]
    /\ kmapped = [q \in Slots |-> FALSE]
    /\ ktab = [q \in Slots |-> <<>>]
    /\ kmap = [q \in Slots |-> NoMap]
    /\ sz = [q \in Slots |-> 0]
    /\ pc = [q \in Slots |-> IF q = 1 THEN "ap_tf" ELSE "none"]
    /\ tgt = [q \in Slots |-> 1]
    /\ a = [q \in Slots |-> 0]
    /\ ki = [q \in Slots |-> 0]
    /\ oldsz = [q \in Slots |-> 0]
    /\ newsz = [q \in Slots |-> 0]
    /\ mem = [q \in Slots |-> NoPage]
    /\ parent = [q \in Slots |-> 1]
    /\ panicked = "no"
    /\ calls = 0

Running == panicked = "no"

-----------------------------------------------------------------------------
(* kalloc.c *)

(* kalloc(): the head of the free list, or NULL when it is empty. *)
KallocOk == free # <<>>
Kalloced == Head(free)
Kalloc == free' = Tail(free) /\ npage' = npage - 1

(* kfree() of each page of s, in order: each is pushed on the head. *)
Kfree(s) == free' = Reverse(s) \o free /\ npage' = npage + Len(s)

(* The user pages mapped at lo..hi-1, in ascending order. *)
Leaves(m, lo, hi) == [j \in 1..(IF hi > lo THEN hi - lo ELSE 0) |-> m[lo + j - 1]]

(* m with the leaves lo..hi-1 cleared. *)
Unmap(m, lo, hi) == [v \in VPages |-> IF lo <= v /\ v < hi THEN NoPage ELSE m[v]]

-----------------------------------------------------------------------------
(* freeproc(q) frees, in this order: the trapframe; through kvmfree(kpt, 1) *)
(* the kernel stack, the tables under VKSTACK (kfreewalk), the tables of  *)
(* the user range (kvmfreeusr) and the kpt root; through                  *)
(* proc_freepagetable(upt, sz) the user pages below sz (vmunmap), then    *)
(* every table (freewalk, user range first, deepest first) and the root.  *)
KvmfreeSeq(q) == <<kstk[q]>> \o Reverse(khi[q]) \o Reverse(ktab[q]) \o <<kroot[q]>>
UvmfreeSeq(q, n) == Leaves(umap[q], 0, n) \o Reverse(utab[q]) \o Reverse(uhi[q]) \o <<uroot[q]>>
FreeSeq(q) ==
    (IF tf[q] # NoPage THEN <<tf[q]>> ELSE <<>>)
    \o (IF kroot[q] # NoPage THEN KvmfreeSeq(q) ELSE <<>>)
    \o (IF uroot[q] # NoPage THEN UvmfreeSeq(q, sz[q]) ELSE <<>>)

(* The checks on the way that panic: vmunmap of VKSTACK, TRAMPOLINE and   *)
(* TRAPFRAME and of the user pages needs them mapped, and freewalk finds  *)
(* no leaf left above sz.                                                 *)
FreeprocPanics(q) ==
    \/ kroot[q] # NoPage /\ ~(kmapped[q] /\ Len(khi[q]) = 2)
    \/ uroot[q] # NoPage /\ ~tramp[q]
    \/ uroot[q] # NoPage /\ \E v \in VPages : (v < sz[q]) # (umap[q][v] # NoPage)

(* The slot's fields after freeproc: pointers 0, sz 0, state UNUSED. *)
ClearSlot(q) ==
    /\ st' = [st EXCEPT ![q] = "UNUSED"]
    /\ tf' = [tf EXCEPT ![q] = NoPage]
    /\ uroot' = [uroot EXCEPT ![q] = NoPage]
    /\ uhi' = [uhi EXCEPT ![q] = <<>>]
    /\ utab' = [utab EXCEPT ![q] = <<>>]
    /\ umap' = [umap EXCEPT ![q] = NoMap]
    /\ tramp' = [tramp EXCEPT ![q] = FALSE]
    /\ kroot' = [kroot EXCEPT ![q] = NoPage]
    /\ khi' = [khi EXCEPT ![q] = <<>>]
    /\ kstk' = [kstk EXCEPT ![q] = NoPage]
    /\ kmapped' = [kmapped EXCEPT ![q] = FALSE]
    /\ ktab' = [ktab EXCEPT ![q] = <<>>]
    /\ kmap' = [kmap EXCEPT ![q] = NoMap]
    /\ sz' = [sz EXCEPT ![q] = 0]

(* freeproc(q), or its panic. *)
Freeproc(q) ==
    IF FreeprocPanics(q)
    THEN /\ panicked' = "vmunmap"
         /\ UNCHANGED <<free, npage, st, tf, uroot, uhi, utab, umap, tramp, kroot,
                        khi, kstk, kmapped, ktab, kmap, sz>>
    ELSE /\ Kfree(FreeSeq(q))
         /\ ClearSlot(q)
         /\ UNCHANGED panicked

slotVars == <<st, tf, uroot, uhi, utab, umap, tramp, kroot, khi, kstk, kmapped,
              ktab, kmap, sz>>

Goto(p, l) == pc' = [pc EXCEPT ![p] = l]

-----------------------------------------------------------------------------
(* allocproc() for slot q = tgt[p], run by p's kernel thread: by init's   *)
(* userinit (q = p) or by fork.  Every kalloc is a step.                   *)

(* p->trapframe = kalloc(); on NULL allocproc returns NULL. *)
ApTf(p) ==
    LET q == tgt[p] IN
    /\ Running /\ pc[p] = "ap_tf"
    /\ IF KallocOk
          THEN /\ tf' = [tf EXCEPT ![q] = Kalloced] /\ Kalloc
               /\ Goto(p, "ap_root")
          ELSE /\ Goto(p, "idle") /\ UNCHANGED <<free, npage, tf>>
    /\ UNCHANGED <<ram, st, uroot, uhi, utab, umap, tramp, kroot, khi, kstk,
                   kmapped, ktab, kmap, sz, tgt, a, ki, oldsz, newsz, mem, panicked>>
    /\ UNCHANGED parent

(* Mutant: a failed proc_pagetable returns NULL without freeproc. *)
ApRootNoFreeproc(p) ==
    LET q == tgt[p] IN
    /\ Running /\ pc[p] = "ap_root"
    /\ IF KallocOk
          THEN /\ uroot' = [uroot EXCEPT ![q] = Kalloced] /\ Kalloc
               /\ Goto(p, "ap_hi")
          ELSE /\ Goto(p, "idle") /\ UNCHANGED <<free, npage, uroot>>
    /\ UNCHANGED <<st, tf, uhi, utab, umap, tramp, kroot, khi, kstk,
                   kmapped, ktab, kmap, sz, panicked>>
    /\ UNCHANGED <<ram, tgt, a, ki, oldsz, newsz, mem>>
    /\ UNCHANGED parent

(* proc_pagetable: uvmcreate()'s kalloc of the root; on NULL, freeproc. *)
ApRoot(p) ==
    LET q == tgt[p] IN
    /\ Running /\ pc[p] = "ap_root"
    /\ IF KallocOk
          THEN /\ uroot' = [uroot EXCEPT ![q] = Kalloced] /\ Kalloc
               /\ Goto(p, "ap_hi")
               /\ UNCHANGED <<st, tf, uhi, utab, umap, tramp, kroot, khi, kstk,
                              kmapped, ktab, kmap, sz, panicked>>
          ELSE /\ Freeproc(q) /\ Goto(p, "idle")
    /\ UNCHANGED <<ram, tgt, a, ki, oldsz, newsz, mem>>
    /\ UNCHANGED parent

(* mappages(upt, TRAMPOLINE): walk() allocates the two tables; the        *)
(* TRAMPOLINE and TRAPFRAME leaves then go in the same last-level table.  *)
(* On NULL: uvmfree(upt, 0), p->pagetable = NULL, then freeproc.          *)
ApHi(p) ==
    LET q == tgt[p] IN
    /\ Running /\ pc[p] = "ap_hi"
    /\ IF KallocOk
          THEN /\ uhi' = [uhi EXCEPT ![q] = Append(@, Kalloced)] /\ Kalloc
               /\ IF Len(uhi[q]) = 1
                     THEN tramp' = [tramp EXCEPT ![q] = TRUE] /\ Goto(p, "ap_kroot")
                     ELSE UNCHANGED <<tramp, pc>>
               /\ UNCHANGED <<st, tf, uroot, utab, umap, kroot, khi, kstk,
                              kmapped, ktab, kmap, sz>>
          ELSE /\ Kfree(UvmfreeSeq(q, 0) \o <<tf[q]>>)
               /\ ClearSlot(q) /\ Goto(p, "idle")
    /\ UNCHANGED <<ram, tgt, a, ki, oldsz, newsz, mem, panicked>>
    /\ UNCHANGED parent

(* proc_kpagetable: kalloc of the kpt root; on NULL, freeproc. *)
ApKroot(p) ==
    LET q == tgt[p] IN
    /\ Running /\ pc[p] = "ap_kroot"
    /\ IF KallocOk
          THEN /\ kroot' = [kroot EXCEPT ![q] = Kalloced] /\ Kalloc
               /\ Goto(p, "ap_kstack")
               /\ UNCHANGED <<st, tf, uroot, uhi, utab, umap, tramp, khi, kstk,
                              kmapped, ktab, kmap, sz, panicked>>
          ELSE /\ Freeproc(q) /\ Goto(p, "idle")
    /\ UNCHANGED <<ram, tgt, a, ki, oldsz, newsz, mem>>
    /\ UNCHANGED parent

(* pstack = kalloc(); on NULL, goto fail: kvmfree(kpt, 1), whose          *)
(* vmunmap(kpt, VKSTACK) finds no table there: panic("vmunmap: walk").    *)
ApKstack(p) ==
    LET q == tgt[p] IN
    /\ Running /\ pc[p] = "ap_kstack"
    /\ IF KallocOk
          THEN /\ kstk' = [kstk EXCEPT ![q] = Kalloced] /\ Kalloc
               /\ Goto(p, "ap_khi")
               /\ UNCHANGED panicked
          ELSE /\ panicked' = "vmunmap: walk"
               /\ UNCHANGED <<free, npage, kstk, pc>>
    /\ UNCHANGED <<ram, st, tf, uroot, uhi, utab, umap, tramp, kroot, khi,
                   kmapped, ktab, kmap, sz, tgt, a, ki, oldsz, newsz, mem>>
    /\ UNCHANGED parent

(* mappages(kpt, VKSTACK, pstack): walk() allocates the two tables, then  *)
(* the leaf; allocproc returns.  On NULL, goto fail: kvmfree(kpt, 1)      *)
(* walks to VKSTACK without alloc and finds a table missing: panic.       *)
ApKhi(p) ==
    LET q == tgt[p] IN
    /\ Running /\ pc[p] = "ap_khi"
    /\ IF KallocOk
          THEN /\ khi' = [khi EXCEPT ![q] = Append(@, Kalloced)] /\ Kalloc
               /\ IF Len(khi[q]) = 1
                     THEN /\ kmapped' = [kmapped EXCEPT ![q] = TRUE]
                          /\ Goto(p, IF q = p THEN "ui" ELSE "uc")
                     ELSE UNCHANGED <<kmapped, pc>>
               /\ UNCHANGED panicked
          ELSE /\ panicked' = "vmunmap: walk"
               /\ UNCHANGED <<free, npage, khi, kmapped, pc>>
    /\ UNCHANGED <<ram, st, tf, uroot, uhi, utab, umap, tramp, kroot, kstk,
                   ktab, kmap, sz, tgt, a, ki, oldsz, newsz, mem>>
    /\ UNCHANGED parent

(* userinit: uvminit's kalloc and its two mappages (four more kallocs for *)
(* the user-range tables of upt and kpt); sz = PGSIZE; RUNNABLE.  Boot    *)
(* has the pages (ASSUME below): uvminit checks none of these results.    *)
UserInit(p) ==
    /\ Running /\ pc[p] = "ui"
    /\ free' = SubSeq(free, 6, Len(free)) /\ npage' = npage - 5
    /\ umap' = [umap EXCEPT ![p][0] = free[1]]
    /\ kmap' = [kmap EXCEPT ![p][0] = free[1]]
    /\ utab' = [utab EXCEPT ![p] = <<free[2], free[3]>>]
    /\ ktab' = [ktab EXCEPT ![p] = <<free[4], free[5]>>]
    /\ sz' = [sz EXCEPT ![p] = 1]
    /\ st' = [st EXCEPT ![p] = "USED"]
    /\ Goto(p, "idle")
    /\ UNCHANGED <<ram, tf, uroot, uhi, tramp, kroot, khi, kstk, kmapped, tgt,
                   a, ki, oldsz, newsz, mem, panicked>>
    /\ UNCHANGED parent

-----------------------------------------------------------------------------
(* fork: allocproc, then uvmcopy(p->pagetable, np->pagetable,             *)
(* np->kpagetable, p->sz), one kalloc per step.  a is uvmcopy's i.        *)

(* allocproc, uvminit and uvmcopy: where a thread is building slot tgt. *)
BuildLabels == {"ap_tf", "ap_root", "ap_hi", "ap_kroot", "ap_kstack", "ap_khi",
                "ui", "uc", "uc_mem", "uc_u", "uc_k"}
Building(q) == \E p \in Slots : tgt[p] = q /\ pc[p] \in BuildLabels

(* allocproc takes the first UNUSED slot; its lock is held until fork    *)
(* ends, so no other allocproc takes it meanwhile.                        *)
Fork(p) ==
    LET cand == {q \in Slots : st[q] = "UNUSED" /\ ~Building(q)} IN
    /\ Running /\ st[p] = "USED" /\ pc[p] = "idle" /\ cand # {}
    /\ tgt' = [tgt EXCEPT ![p] = CHOOSE q \in cand : \A r \in cand : q <= r]
    /\ a' = [a EXCEPT ![p] = 0]
    /\ ki' = [ki EXCEPT ![p] = 0]
    /\ Goto(p, "ap_tf")
    /\ UNCHANGED <<ram, free, npage, slotVars, oldsz, newsz, mem, parent, panicked>>

(* err: vmunmap(knew, 0, ki, 0); vmunmap(new, 0, i, 1); fork then calls  *)
(* freeproc(np) (np->sz is still 0).  pre is what is kfreed before.       *)
UcErr(p, pre) ==
    LET q == tgt[p] IN
    /\ Kfree(pre \o Leaves(umap[q], 0, a[p]) \o FreeSeq(q))
    /\ ClearSlot(q)
    /\ mem' = [mem EXCEPT ![p] = NoPage]
    /\ Goto(p, "idle")

(* The loop test; on leaving, np->sz = p->sz, np->parent = p, RUNNABLE. *)
UcTest(p) ==
    LET q == tgt[p] IN
    /\ Running /\ pc[p] = "uc"
    /\ IF a[p] < sz[p]
          THEN /\ Goto(p, "uc_mem") /\ UNCHANGED <<st, sz, parent>>
          ELSE /\ sz' = [sz EXCEPT ![q] = sz[p]]
               /\ st' = [st EXCEPT ![q] = "USED"]
               /\ parent' = [parent EXCEPT ![q] = p]
               /\ pc' = [pc EXCEPT ![p] = "idle", ![q] = "idle"]
    /\ UNCHANGED <<ram, free, npage, tf, uroot, uhi, utab, umap, tramp, kroot,
                   khi, kstk, kmapped, ktab, kmap, tgt, a, ki, oldsz, newsz, mem,
                   panicked>>

(* mem = kalloc(); on NULL, goto err. *)
UcMem(p) ==
    /\ Running /\ pc[p] = "uc_mem"
    /\ IF KallocOk
          THEN /\ mem' = [mem EXCEPT ![p] = Kalloced] /\ Kalloc
               /\ Goto(p, "uc_u") /\ UNCHANGED slotVars
          ELSE UcErr(p, <<>>)
    /\ UNCHANGED <<ram, tgt, a, ki, oldsz, newsz, parent, panicked>>

(* mappages(new, i, mem): walk() allocates a table, or the leaf is set   *)
(* and i += PGSIZE.  On NULL: kfree(mem), goto err.                       *)
UcU(p) ==
    LET q == tgt[p] IN
    /\ Running /\ pc[p] = "uc_u"
    /\ IF Len(utab[q]) < 2
          THEN IF KallocOk
                 THEN /\ utab' = [utab EXCEPT ![q] = Append(@, Kalloced)] /\ Kalloc
                      /\ UNCHANGED <<st, tf, uroot, uhi, umap, tramp, kroot, khi,
                                     kstk, kmapped, ktab, kmap, sz, pc, mem, a>>
                 ELSE UcErr(p, <<mem[p]>>) /\ UNCHANGED a
          ELSE /\ umap' = [umap EXCEPT ![q][a[p]] = mem[p]]
               /\ a' = [a EXCEPT ![p] = @ + 1]
               /\ Goto(p, "uc_k")
               /\ UNCHANGED <<free, npage, st, tf, uroot, uhi, utab, tramp, kroot,
                              khi, kstk, kmapped, ktab, kmap, sz, mem>>
    /\ UNCHANGED <<ram, tgt, ki, oldsz, newsz, parent, panicked>>

(* mappages(knew, ki, mem): a table, or the leaf and ki += PGSIZE.  On   *)
(* NULL, goto err (the page is already mapped in new at i - 1).           *)
UcK(p) ==
    LET q == tgt[p] IN
    /\ Running /\ pc[p] = "uc_k"
    /\ IF Len(ktab[q]) < 2
          THEN IF KallocOk
                 THEN /\ ktab' = [ktab EXCEPT ![q] = Append(@, Kalloced)] /\ Kalloc
                      /\ UNCHANGED <<st, tf, uroot, uhi, utab, umap, tramp, kroot,
                                     khi, kstk, kmapped, kmap, sz, pc, mem, ki>>
                 ELSE UcErr(p, <<>>) /\ UNCHANGED ki
          ELSE /\ kmap' = [kmap EXCEPT ![q][ki[p]] = mem[p]]
               /\ ki' = [ki EXCEPT ![p] = @ + 1]
               /\ mem' = [mem EXCEPT ![p] = NoPage]
               /\ Goto(p, "uc")
               /\ UNCHANGED <<free, npage, st, tf, uroot, uhi, utab, umap, tramp,
                              kroot, khi, kstk, kmapped, ktab, sz>>
    /\ UNCHANGED <<ram, tgt, a, oldsz, newsz, parent, panicked>>

-----------------------------------------------------------------------------
(* growproc(n), n > 0: uvmalloc(upt, kpt, sz, sz + n), one kalloc a step. *)

Grow(p, n) ==
    /\ Running /\ st[p] = "USED" /\ pc[p] = "idle"
    /\ sz[p] + n <= MaxPg
    /\ oldsz' = [oldsz EXCEPT ![p] = sz[p]]
    /\ newsz' = [newsz EXCEPT ![p] = sz[p] + n]
    /\ a' = [a EXCEPT ![p] = sz[p]]
    /\ Goto(p, "ua_mem")
    /\ UNCHANGED <<ram, free, npage, slotVars, tgt, ki, mem, parent, panicked>>

(* uvmdealloc(upt, kpt, a, oldsz) after a failure: the pages oldsz..a-1  *)
(* are unmapped from kpt and unmapped and freed from upt; uvmalloc       *)
(* returns 0 and growproc -1, leaving p->sz.  pre is kfreed before.      *)
UaFail(p, pre) ==
    /\ Kfree(pre \o Leaves(umap[p], oldsz[p], a[p]))
    /\ umap' = [umap EXCEPT ![p] = Unmap(@, oldsz[p], a[p])]
    /\ kmap' = [kmap EXCEPT ![p] = Unmap(@, oldsz[p], a[p])]
    /\ mem' = [mem EXCEPT ![p] = NoPage]
    /\ Goto(p, "idle")

(* mem = kalloc(); on NULL, uvmdealloc and return 0. *)
UaMem(p) ==
    /\ Running /\ pc[p] = "ua_mem"
    /\ IF KallocOk
          THEN /\ mem' = [mem EXCEPT ![p] = Kalloced] /\ Kalloc
               /\ Goto(p, "ua_u") /\ UNCHANGED <<umap, kmap>>
          ELSE UaFail(p, <<>>)
    /\ UNCHANGED <<ram, st, tf, uroot, uhi, utab, tramp, kroot, khi, kstk,
                   kmapped, ktab, sz, tgt, a, ki, oldsz, newsz, parent, panicked>>

(* Mutant: the failed mappages path of uvmalloc does not kfree(mem). *)
UaUNoFreeMem(p) ==
    /\ Running /\ pc[p] = "ua_u"
    /\ IF Len(utab[p]) < 2
          THEN IF KallocOk
                 THEN /\ utab' = [utab EXCEPT ![p] = Append(@, Kalloced)] /\ Kalloc
                      /\ UNCHANGED <<umap, kmap, mem, pc>>
                 ELSE UaFail(p, <<>>) /\ UNCHANGED utab
          ELSE /\ umap' = [umap EXCEPT ![p][a[p]] = mem[p]]
               /\ Goto(p, "ua_k")
               /\ UNCHANGED <<free, npage, utab, kmap, mem>>
    /\ UNCHANGED <<ram, st, tf, uroot, uhi, tramp, kroot, khi, kstk, kmapped,
                   ktab, sz, tgt, a, ki, oldsz, newsz, parent, panicked>>

(* mappages(upt, a, mem): a table, or the leaf.  On NULL: kfree(mem),    *)
(* uvmdealloc, return 0.                                                  *)
UaU(p) ==
    /\ Running /\ pc[p] = "ua_u"
    /\ IF Len(utab[p]) < 2
          THEN IF KallocOk
                 THEN /\ utab' = [utab EXCEPT ![p] = Append(@, Kalloced)] /\ Kalloc
                      /\ UNCHANGED <<umap, kmap, mem, pc>>
                 ELSE UaFail(p, <<mem[p]>>) /\ UNCHANGED utab
          ELSE /\ umap' = [umap EXCEPT ![p][a[p]] = mem[p]]
               /\ Goto(p, "ua_k")
               /\ UNCHANGED <<free, npage, utab, kmap, mem>>
    /\ UNCHANGED <<ram, st, tf, uroot, uhi, tramp, kroot, khi, kstk, kmapped,
                   ktab, sz, tgt, a, ki, oldsz, newsz, parent, panicked>>

(* Mutant: the kpt mappages failure unmaps npages pages of the upt, not *)
(* npages + 1, so the page just mapped at a stays.                        *)
UaKShort(p) ==
    LET lo == oldsz[p]
        np == a[p] - oldsz[p] IN
    /\ Running /\ pc[p] = "ua_k"
    /\ IF Len(ktab[p]) < 2
          THEN IF KallocOk
                 THEN /\ ktab' = [ktab EXCEPT ![p] = Append(@, Kalloced)] /\ Kalloc
                      /\ UNCHANGED <<umap, kmap, mem, pc, a, sz>>
                 ELSE /\ Kfree(Leaves(umap[p], lo, lo + np))
                      /\ umap' = [umap EXCEPT ![p] = Unmap(@, lo, lo + np)]
                      /\ kmap' = [kmap EXCEPT ![p] = Unmap(@, lo, lo + np)]
                      /\ mem' = [mem EXCEPT ![p] = NoPage]
                      /\ Goto(p, "idle")
                      /\ UNCHANGED <<ktab, a, sz>>
          ELSE /\ kmap' = [kmap EXCEPT ![p][a[p]] = mem[p]]
               /\ mem' = [mem EXCEPT ![p] = NoPage]
               /\ a' = [a EXCEPT ![p] = @ + 1]
               /\ IF a[p] + 1 < newsz[p]
                     THEN Goto(p, "ua_mem") /\ UNCHANGED sz
                     ELSE Goto(p, "idle") /\ sz' = [sz EXCEPT ![p] = newsz[p]]
               /\ UNCHANGED <<free, npage, ktab, umap>>
    /\ UNCHANGED <<ram, st, tf, uroot, uhi, utab, tramp, kroot, khi, kstk,
                   kmapped, tgt, ki, oldsz, newsz, parent, panicked>>

(* mappages(kpt, a, mem): a table, or the leaf and the loop goes on; at  *)
(* newsz growproc sets p->sz.  On NULL: vmunmap(upt, oldsz, npages + 1,  *)
(* 1) and vmunmap(kpt, oldsz, npages, 0), npages = (a - oldsz) / PGSIZE.  *)
UaK(p) ==
    LET lo == oldsz[p]
        np == a[p] - oldsz[p] IN
    /\ Running /\ pc[p] = "ua_k"
    /\ IF Len(ktab[p]) < 2
          THEN IF KallocOk
                 THEN /\ ktab' = [ktab EXCEPT ![p] = Append(@, Kalloced)] /\ Kalloc
                      /\ UNCHANGED <<umap, kmap, mem, pc, a, sz>>
                 ELSE /\ Kfree(Leaves(umap[p], lo, lo + np + 1))
                      /\ umap' = [umap EXCEPT ![p] = Unmap(@, lo, lo + np + 1)]
                      /\ kmap' = [kmap EXCEPT ![p] = Unmap(@, lo, lo + np)]
                      /\ mem' = [mem EXCEPT ![p] = NoPage]
                      /\ Goto(p, "idle")
                      /\ UNCHANGED <<ktab, a, sz>>
          ELSE /\ kmap' = [kmap EXCEPT ![p][a[p]] = mem[p]]
               /\ mem' = [mem EXCEPT ![p] = NoPage]
               /\ a' = [a EXCEPT ![p] = @ + 1]
               /\ IF a[p] + 1 < newsz[p]
                     THEN Goto(p, "ua_mem") /\ UNCHANGED sz
                     ELSE Goto(p, "idle") /\ sz' = [sz EXCEPT ![p] = newsz[p]]
               /\ UNCHANGED <<free, npage, ktab, umap>>
    /\ UNCHANGED <<ram, st, tf, uroot, uhi, utab, tramp, kroot, khi, kstk,
                   kmapped, tgt, ki, oldsz, newsz, parent, panicked>>

(* Mutant: growproc's sz + n in signed arithmetic, so a shrink by more *)
(* than sz frees from 0 and leaves p->sz negative.                       *)
ShrinkNoWrap(p, n) ==
    LET nsz == sz[p] - n IN
    /\ Running /\ st[p] = "USED" /\ pc[p] = "idle"
    /\ nsz < sz[p]
    /\ Kfree(Leaves(umap[p], IF nsz < 0 THEN 0 ELSE nsz, sz[p]))
    /\ umap' = [umap EXCEPT ![p] = Unmap(@, nsz, sz[p])]
    /\ kmap' = [kmap EXCEPT ![p] = Unmap(@, nsz, sz[p])]
    /\ sz' = [sz EXCEPT ![p] = nsz]
    /\ UNCHANGED <<ram, st, tf, uroot, uhi, utab, tramp, kroot, khi, kstk,
                   kmapped, ktab, pc, tgt, a, ki, oldsz, newsz, mem, parent,
                   panicked>>

(* growproc(n), n < 0: uvmdealloc(upt, kpt, sz, sz + n) in uint          *)
(* arithmetic: when -n > sz the sum wraps, is >= sz, and nothing changes. *)
(* Otherwise vmunmap(kpt) without free, vmunmap(upt) with free.           *)
Shrink(p, n) ==
    LET nsz == (sz[p] - n) % WordPages IN
    /\ Running /\ st[p] = "USED" /\ pc[p] = "idle"
    /\ nsz < sz[p]
    /\ Kfree(Leaves(umap[p], nsz, sz[p]))
    /\ umap' = [umap EXCEPT ![p] = Unmap(@, nsz, sz[p])]
    /\ kmap' = [kmap EXCEPT ![p] = Unmap(@, nsz, sz[p])]
    /\ sz' = [sz EXCEPT ![p] = nsz]
    /\ UNCHANGED <<ram, st, tf, uroot, uhi, utab, tramp, kroot, khi, kstk,
                   kmapped, ktab, pc, tgt, a, ki, oldsz, newsz, mem, parent,
                   panicked>>

-----------------------------------------------------------------------------
(* exit and wait *)

(* exit(): children go to init; the process is a ZOMBIE and keeps its    *)
(* memory.                                                                *)
Exit(p) ==
    /\ Running /\ st[p] = "USED" /\ pc[p] = "idle" /\ p # 1
    /\ st' = [st EXCEPT ![p] = "ZOMBIE"]
    /\ parent' = [c \in Slots |-> IF parent[c] = p THEN 1 ELSE parent[c]]
    /\ Goto(p, "zombie")
    /\ UNCHANGED <<ram, free, npage, tf, uroot, uhi, utab, umap, tramp, kroot,
                   khi, kstk, kmapped, ktab, kmap, sz, tgt, a, ki, oldsz, newsz,
                   mem, panicked>>

(* wait(): a ZOMBIE child is reaped with freeproc. *)
Wait(p) ==
    /\ Running /\ st[p] = "USED" /\ pc[p] = "idle"
    /\ \E c \in Slots :
          /\ st[c] = "ZOMBIE" /\ parent[c] = p
          /\ Freeproc(c)
          /\ pc' = [pc EXCEPT ![c] = "none"]
    /\ UNCHANGED <<ram, tgt, a, ki, oldsz, newsz, mem, parent>>

(* A panic stops the kernel. *)
Halted == ~Running /\ UNCHANGED vars

(* The system calls that start an operation, counted against MaxCalls. *)
SysCall(p) ==
    \/ Fork(p)
    \/ \E n \in 1..MaxPg : Grow(p, n) \/ Shrink(p, n)

(* The steps of an operation under way, and exit and wait. *)
Step(p) ==
    \/ ApTf(p) \/ ApRoot(p) \/ ApHi(p) \/ ApKroot(p) \/ ApKstack(p)
    \/ ApKhi(p) \/ UserInit(p)
    \/ UcTest(p) \/ UcMem(p) \/ UcU(p) \/ UcK(p)
    \/ UaMem(p) \/ UaU(p) \/ UaK(p)
    \/ Exit(p) \/ Wait(p)

(* Once MaxCalls calls are made the model may stop. *)
CallsDone == calls >= MaxCalls /\ UNCHANGED vars

Next ==
    \/ \E p \in Slots :
        \/ calls < MaxCalls /\ SysCall(p) /\ calls' = calls + 1
        \/ Step(p) /\ UNCHANGED calls
    \/ Halted
    \/ CallsDone

Spec == Init /\ [][Next]_vars

-----------------------------------------------------------------------------
(* Properties *)

PCs == {"none", "idle", "zombie", "ui", "uc", "uc_mem", "uc_u", "uc_k",
        "ua_mem", "ua_u", "ua_k", "ap_tf", "ap_root", "ap_hi", "ap_kroot",
        "ap_kstack", "ap_khi"}
Pages == 1..ram
PageOrNone == {NoPage} \cup Pages

(* Every variable has its type; sizes stay within the user range.        *)
TypeOK ==
    /\ ram \in MemSizes
    /\ free \in Seq(Pages) /\ npage \in Nat
    /\ st \in [Slots -> {"UNUSED", "USED", "ZOMBIE"}]
    /\ tf \in [Slots -> PageOrNone] /\ uroot \in [Slots -> PageOrNone]
    /\ kroot \in [Slots -> PageOrNone] /\ kstk \in [Slots -> PageOrNone]
    /\ \A q \in Slots : /\ uhi[q] \in SeqOf(Pages, 2) /\ utab[q] \in SeqOf(Pages, 2)
                        /\ khi[q] \in SeqOf(Pages, 2) /\ ktab[q] \in SeqOf(Pages, 2)
    /\ umap \in [Slots -> [VPages -> PageOrNone]]
    /\ kmap \in [Slots -> [VPages -> PageOrNone]]
    /\ tramp \in [Slots -> BOOLEAN] /\ kmapped \in [Slots -> BOOLEAN]
    /\ sz \in [Slots -> 0..MaxPg] /\ pc \in [Slots -> PCs]
    /\ tgt \in [Slots -> Slots] /\ parent \in [Slots -> Slots]
    /\ a \in [Slots -> 0..MaxPg] /\ ki \in [Slots -> 0..MaxPg]
    /\ oldsz \in [Slots -> 0..MaxPg] /\ newsz \in [Slots -> 0..MaxPg]
    /\ mem \in [Slots -> PageOrNone]

Present(s) == SelectSeq(s, LAMBDA x : x # NoPage)

(* Every page slot q's structures own: its trapframe, the two roots, the  *)
(* kernel stack, the tables, and the user pages its upt maps.             *)
Held(q) ==
    Present(<<tf[q], uroot[q], kroot[q], kstk[q]>>)
    \o uhi[q] \o utab[q] \o khi[q] \o ktab[q]
    \o Present([j \in 1..MaxPg |-> umap[q][j - 1]])

(* The page a uvmalloc or uvmcopy loop holds that no upt maps yet. *)
InHand(p) == IF pc[p] \in {"uc_u", "ua_u"} THEN <<mem[p]>> ELSE <<>>

AllPages ==
    free \o FlattenSeq([q \in Slots |-> Held(q)])
         \o FlattenSeq([p \in Slots |-> InHand(p)])

(* No page is lost or owned twice: the free list, the address spaces and *)
(* the pages uvmalloc/uvmcopy hold are together exactly the pages kinit   *)
(* freed, each once, and kmem.npage counts the free list.  The rollback   *)
(* paths of allocproc, uvmcopy and uvmalloc must each free exactly what   *)
(* they took.                                                             *)
PagesConserved ==
    /\ Len(AllPages) = ram
    /\ IsInjective(AllPages)
    /\ npage = Len(free)

(* The kpt aliases only user pages the upt maps at the same address (no   *)
(* kernel access to a freed page), and outside uvmalloc the kpt and the   *)
(* upt map exactly the pages below p->sz: the uvmalloc failure paths and  *)
(* uvmdealloc must unmap the same ranges from both.                       *)
KptMirrorsUpt ==
    \A q \in Slots :
        /\ \A v \in VPages : kmap[q][v] # NoPage => kmap[q][v] = umap[q][v]
        /\ st[q] # "UNUSED" /\ pc[q] \notin {"ua_mem", "ua_u", "ua_k"} =>
              /\ kmap[q] = umap[q]
              /\ \A v \in VPages : (umap[q][v] # NoPage) <=> v < sz[q]

(* A slot that is UNUSED and that no allocproc is filling owns no page:   *)
(* every failure of allocproc and fork, and wait, hand the slot back      *)
(* empty, so the next allocproc does not overwrite live pointers.         *)
UnusedOwnsNothing ==
    \A q \in Slots : st[q] = "UNUSED" /\ ~Building(q) => Held(q) = <<>>

(* The kernel never panics: allocproc and its callers survive running   *)
(* out of memory at any kalloc (spec: "On any failure free all partial  *)
(* state and return null").                                             *)
NoPanic == panicked = "no"

====
