------------------------------ MODULE DirFile ------------------------------
(***************************************************************************)
(* The open-file table of file.c over one FAT32 directory of fat32.c.      *)
(*                                                                         *)
(* The directory D is a sequence of 32-byte slots: end-of-directory,       *)
(* deleted (EMPTY_ENTRY), long-name entries (LFN: order, LAST bit, the     *)
(* chunk of the name it carries) and short-name entries (SNE).  A name is  *)
(* a model value; Lfns[n] is the number of LFN slots it needs (0 for a     *)
(* short name written by another system, whose first character is         *)
(* ShortOrd[n] once the LAST bit is masked off).  Offsets count slots.     *)
(*                                                                         *)
(* enext and dirlookup are operators over the slots.  ealloc, eremove and  *)
(* the locked half of dirnext run under D's sleep lock, which their        *)
(* callers take, so each is one step.  Processes open files on D or on a   *)
(* regular file E, share them through fork (filedup) and close them        *)
(* (fileclose, then eput of the entry the file held).  The entry cache is  *)
(* left to ECache: a lookup here is a cache miss that scans the disk, and  *)
(* eref counts only the references open files hold.                        *)
(***************************************************************************)
EXTENDS Integers, Sequences, FiniteSets, Bags, BagsExt

CONSTANTS
    Procs,      \* processes
    Readers,    \* processes that list D with dirnext
    Files,      \* ftable.file[NFILE]
    Names,      \* names of entries in D
    Lfns,       \* Lfns[n]: LFN slots of n (0: short name only)
    ShortOrd,   \* ShortOrd[n]: first byte of n's short name, LAST bit off
    InitNames,  \* the entries of D on the volume, in slot order
    DirCap,     \* slots in D's cluster chain
    D, E,       \* the directory and a regular file
    CopyOk,     \* outcomes of dirnext's copyout2 to the caller's buffer
    None, Nul

MaxLfn == 2
Offs == 0..DirCap - 1

ASSUME /\ Readers \subseteq Procs
       /\ \A n \in Names : Lfns[n] \in 0..MaxLfn /\ ShortOrd[n] \in 1..MaxLfn
       /\ CopyOk \subseteq BOOLEAN /\ CopyOk # {}

(* Slots of a directory. *)
End == [k |-> "end"]
Empty == [k |-> "empty"]
Lfn(n, i, last) == [k |-> "lfn", nm |-> n, ord |-> i, last |-> last]
Sne(n) == [k |-> "sne", nm |-> n]
SlotVals == {End, Empty} \cup {Sne(n) : n \in Names}
            \cup {Lfn(n, i, l) : n \in Names, i \in 1..MaxLfn, l \in BOOLEAN}

(* ep->filename: one part per 13-character chunk; a short name is read    *)
(* over the first part and ends the string.                               *)
Short(n) == [sn |-> n]
Parts == Names \cup {Short(n) : n \in Names} \cup {Nul}
NoName == [i \in 1..MaxLfn |-> Nul]
RECURSIVE Upto(_, _)
Upto(f, i) == IF i > MaxLfn \/ f[i] = Nul THEN <<>> ELSE <<f[i]>> \o Upto(f, i + 1)
StrOf(f) == IF f[1] \in {Short(n) : n \in Names} THEN <<f[1]>> ELSE Upto(f, 1)
NameStr(n) == IF Lfns[n] = 0 THEN <<Short(n)>> ELSE [i \in 1..Lfns[n] |-> n]

VARIABLES
    dir,        \* D's slots on disk
    ref, fep, foff,   \* ftable: f->ref, f->ep, f->off
    ofile,      \* the file each process has open
    eref,       \* references to D and E held by open files
    pc,         \* "idle", "fc_put", "dn_load", "dn_store"
    cf, ffe,    \* fileclose: f, and ff.ep copied under ftable.lock
    dcnt, dname, tmp,  \* dirnext: count, the name found, f->off loaded
    panicked,   \* "no", or "wild": eremove wrote past D's chain
    live, created,     \* names of D's entries, and every name D has had
    stable, listed, done,  \* per file: names live since it was opened,
                           \* names dirnext returned, dirnext returned 0
    failed      \* per file: names dirnext passed over when copyout2 failed

ghost == <<live, created, stable, listed, done, failed>>
vars == <<dir, ref, fep, foff, ofile, eref, pc, cf, ffe, dcnt, dname, tmp,
          panicked, ghost>>

(* emake(dp, ep, off) for a name: its LFN slots from order Lfns[n], with  *)
(* the LAST bit, down to 1, then its SNE.                                 *)
LfnOrderOffByOne(k, i) == k - i + 1
(* The i-th LFN slot emake writes (from 0) has order entcnt - i. *)
LfnOrder(k, i) == k - i
EmakeNoLast(d, n, off) ==
    [o \in Offs |-> CASE o \in off..off + Lfns[n] - 1
                           -> Lfn(n, LfnOrder(Lfns[n], o - off), FALSE)
                      [] o = off + Lfns[n] -> Sne(n)
                      [] OTHER -> d[o]]
Emake(d, n, off) ==
    [o \in Offs |-> CASE o \in off..off + Lfns[n] - 1
                           -> Lfn(n, LfnOrder(Lfns[n], o - off), o = off)
                      [] o = off + Lfns[n] -> Sne(n)
                      [] OTHER -> d[o]]

(* The volume: InitNames one after the other from offset 0, then zeros.   *)
RECURSIVE LayOut(_, _, _)
LayOut(d, ns, off) ==
    IF ns = <<>> THEN d
    ELSE LayOut(Emake(d, Head(ns), off), Tail(ns), off + Lfns[Head(ns)] + 1)
InitDir == LayOut([o \in Offs |-> End], InitNames, 0)

(* enext(dp, ep, off, count) from slot o: cnt deleted slots seen so far;  *)
(* cptr is FALSE once the LFN branch has set the pointer count to 0;       *)
(* count is the caller's variable.  A store through the null pointer      *)
(* lands on user address 0, which the kernel page table maps to the       *)
(* process's first page (uvminit, uvmalloc): the caller's count keeps its *)
(* value and the scan goes on.                                            *)
Res(r, c, f) == [ret |-> r, count |-> c, fname |-> f]
RECURSIVE EnextLoop(_, _, _, _, _, _)
EnextLoop(d, o, cnt, cptr, count, fname) ==
    IF o >= DirCap THEN Res(-1, count, fname)
    ELSE LET s == d[o] IN
         CASE s.k = "end" -> Res(-1, count, fname)
           [] s.k = "empty" -> EnextLoop(d, o + 1, cnt + 1, cptr, count, fname)
           [] cnt > 0 -> Res(0, IF cptr THEN cnt ELSE count, fname)
           [] s.k = "lfn" ->
                EnextLoop(d, o + 1, cnt, cptr /\ ~s.last,
                          IF s.last /\ cptr THEN s.ord + 1 ELSE count,
                          [fname EXCEPT ![s.ord] = s.nm])
           [] s.k = "sne" ->
                IF cptr THEN Res(1, 1, [fname EXCEPT ![1] = Short(s.nm)])
                ELSE Res(1, count, fname)
Enext(d, o, count) == EnextLoop(d, o, 0, TRUE, count, NoName)

(* dirlookup(dp, n, poff) on a cache miss.  `type = enext(...) != -1`     *)
(* makes type 1 for every entry, so the free-run branch never runs and    *)
(* poff is the offset where the scan ended.                               *)
RECURSIVE DlScan(_, _, _, _)
DlScan(d, n, off, count) ==
    LET r == Enext(d, off, count) IN
    CASE r.ret = -1 -> [ret |-> "miss", off |-> off]
      [] StrOf(r.fname) = NameStr(n) -> [ret |-> "found", off |-> off]
      [] OTHER -> DlScan(d, n, off + r.count, r.count)
Dirlookup(d, n) == DlScan(d, n, 0, 0)

(* eremove(entry): the order byte at entry->off, LAST bit masked, is the  *)
(* number of slots after the first; each is marked EMPTY_ENTRY.  Past the *)
(* chain reloc_clus returns -1 and rw_clus writes at that offset.          *)
EntCnt(s) == IF s.k = "lfn" THEN s.ord ELSE ShortOrd[s.nm]
EremoveNoSne(d, off) ==
    [d |-> [o \in Offs |-> IF o \in off..off + EntCnt(d[off]) - 1
                           THEN Empty ELSE d[o]],
     wild |-> off + EntCnt(d[off]) - 1 >= DirCap]
Eremove(d, off) ==
    [d |-> [o \in Offs |-> IF o \in off..off + EntCnt(d[off])
                           THEN Empty ELSE d[o]],
     wild |-> off + EntCnt(d[off]) >= DirCap]

(* dirnext's locked loop: while enext returns 0, f->off += count * 32.    *)
DnSkipIf(d, off, count) ==
    LET r == Enext(d, off, count) IN
    IF r.ret = 0 THEN [off |-> off + r.count, r |-> [r EXCEPT !.ret = 1]]
    ELSE [off |-> off, r |-> r]
RECURSIVE DnSkip(_, _, _)
DnSkip(d, off, count) ==
    LET r == Enext(d, off, count) IN
    IF r.ret = 0 THEN DnSkip(d, off + r.count, r.count)
    ELSE [off |-> off, r |-> r]

Init ==
    /\ dir = InitDir
    /\ ref = [f \in Files |-> 0]
    /\ fep = [f \in Files |-> D]
    /\ foff = [f \in Files |-> 0]
    /\ ofile = [p \in Procs |-> None]
    /\ eref = [e \in {D, E} |-> 0]
    /\ pc = [p \in Procs |-> "idle"]
    /\ cf = [p \in Procs |-> None]
    /\ ffe = [p \in Procs |-> D]
    /\ dcnt = [p \in Procs |-> 0]
    /\ dname = [p \in Procs |-> <<>>]
    /\ tmp = [p \in Procs |-> 0]
    /\ panicked = "no"
    /\ live = {InitNames[i] : i \in 1..Len(InitNames)}
    /\ created = live
    /\ stable = [f \in Files |-> {}]
    /\ listed = [f \in Files |-> EmptyBag]
    /\ failed = [f \in Files |-> {}]
    /\ done = [f \in Files |-> FALSE]

Running == panicked = "no"
Idle(p) == Running /\ pc[p] = "idle"

(* Open of e: filealloc takes the first slot with ref 0 under ftable.lock *)
(* and the opener fills it in; the file holds a reference to e.  When no  *)
(* slot is free filealloc returns NULL and nothing changes.               *)
Filealloc(p, e) ==
    /\ Idle(p) /\ ofile[p] = None
    /\ \E f \in Files :
         /\ ref[f] = 0 /\ \A g \in Files : g < f => ref[g] # 0
         /\ ref' = [ref EXCEPT ![f] = 1]
         /\ fep' = [fep EXCEPT ![f] = e]
         /\ foff' = [foff EXCEPT ![f] = 0]
         /\ ofile' = [ofile EXCEPT ![p] = f]
         /\ eref' = [eref EXCEPT ![e] = @ + 1]
         /\ stable' = [stable EXCEPT ![f] = IF e = D THEN live ELSE {}]
         /\ listed' = [listed EXCEPT ![f] = EmptyBag]
         /\ failed' = [failed EXCEPT ![f] = {}]
         /\ done' = [done EXCEPT ![f] = FALSE]
    /\ UNCHANGED <<dir, pc, cf, ffe, dcnt, dname, tmp, panicked, live, created>>

(* fork: the child q gets filedup(f) of the parent's open file.           *)
Filedup(p, q) ==
    /\ Idle(p) /\ ofile[p] # None
    /\ q # p /\ Idle(q) /\ ofile[q] = None
    /\ ref' = [ref EXCEPT ![ofile[p]] = @ + 1]
    /\ ofile' = [ofile EXCEPT ![q] = ofile[p]]
    /\ UNCHANGED <<dir, fep, foff, eref, pc, cf, ffe, dcnt, dname, tmp,
                   panicked, ghost>>

(* exit: fileclose(f) under ftable.lock.  The last reference copies *f to *)
(* ff, frees the slot and releases the lock; eput(ff.ep) comes after.     *)
Fileclose(p) ==
    LET f == ofile[p] IN
    /\ Idle(p) /\ f # None
    /\ ofile' = [ofile EXCEPT ![p] = None]
    /\ IF ref[f] > 1
       THEN /\ ref' = [ref EXCEPT ![f] = @ - 1]
            /\ UNCHANGED <<pc, cf, ffe>>
       ELSE /\ ref' = [ref EXCEPT ![f] = 0]
            /\ pc' = [pc EXCEPT ![p] = "fc_put"]
            /\ cf' = [cf EXCEPT ![p] = f]
            /\ ffe' = [ffe EXCEPT ![p] = fep[f]]
    /\ UNCHANGED <<dir, fep, foff, eref, dcnt, dname, tmp, panicked, ghost>>

FcPutStale(p) ==
    /\ Running /\ pc[p] = "fc_put"
    /\ eref' = [eref EXCEPT ![fep[cf[p]]] = @ - 1]
    /\ pc' = [pc EXCEPT ![p] = "idle"]
    /\ UNCHANGED <<dir, ref, fep, foff, ofile, cf, ffe, dcnt, dname, tmp,
                   panicked, ghost>>
FcPut(p) ==
    /\ Running /\ pc[p] = "fc_put"
    /\ eref' = [eref EXCEPT ![ffe[p]] = @ - 1]
    /\ pc' = [pc EXCEPT ![p] = "idle"]
    /\ UNCHANGED <<dir, ref, fep, foff, ofile, cf, ffe, dcnt, dname, tmp,
                   panicked, ghost>>

(* ealloc(D, n, attr) under D's lock: dirlookup first (an entry found is  *)
(* returned as it is), else emake at the offset dirlookup left in poff.   *)
(* The kernel only writes names with an LFN chain.  The chain of D is     *)
(* DirCap slots, a bound of the model (reloc_clus would extend it).       *)
Ealloc(p, n) ==
    LET r == Dirlookup(dir, n) IN
    /\ Idle(p) /\ n \notin created /\ Lfns[n] > 0
    /\ r.ret = "miss" => r.off + Lfns[n] < DirCap
    /\ CASE r.ret = "miss" ->
              /\ dir' = Emake(dir, n, r.off)
              /\ live' = live \cup {n}
              /\ created' = created \cup {n}
              /\ UNCHANGED panicked
         [] r.ret = "found" -> UNCHANGED <<dir, live, created, panicked>>
    /\ UNCHANGED <<ref, fep, foff, ofile, eref, pc, cf, ffe, dcnt, dname, tmp,
                   stable, listed, done, failed>>

(* unlink of n under D's lock: dirlookup, then eremove at the entry's     *)
(* offset.  A lookup that misses fails the unlink.                        *)
Unlink(p, n) ==
    LET r == Dirlookup(dir, n)
        er == Eremove(dir, r.off) IN
    /\ Idle(p) /\ n \in live
    /\ CASE r.ret = "found" ->
              /\ dir' = er.d
              /\ panicked' = IF er.wild THEN "wild" ELSE "no"
              /\ live' = live \ {n}
              /\ stable' = [f \in Files |-> stable[f] \ {n}]
         [] r.ret = "miss" -> UNCHANGED <<dir, panicked, live, stable>>
    /\ UNCHANGED <<ref, fep, foff, ofile, eref, pc, cf, ffe, dcnt, dname, tmp,
                   created, listed, done, failed>>

(* dirnext(f) on D, under elock(f->ep): skip runs of deleted slots,       *)
(* advancing f->off; at the end return 0; else keep the entry's count and *)
(* name and eunlock.                                                      *)
DnScan(p) ==
    LET f == ofile[p]
        s == DnSkip(dir, foff[f], 0) IN
    /\ Idle(p) /\ p \in Readers /\ f # None /\ fep[f] = D
    /\ foff' = [foff EXCEPT ![f] = s.off]
    /\ CASE s.r.ret = -1 ->
              /\ done' = [done EXCEPT ![f] = TRUE]
              /\ UNCHANGED <<pc, dcnt, dname, panicked>>
         [] s.r.ret = 1 ->
              /\ dcnt' = [dcnt EXCEPT ![p] = s.r.count]
              /\ dname' = [dname EXCEPT ![p] = StrOf(s.r.fname)]
              /\ pc' = [pc EXCEPT ![p] = "dn_load"]
              /\ UNCHANGED <<done, panicked>>
    /\ UNCHANGED <<dir, ref, fep, ofile, eref, cf, ffe, tmp, live, created,
                   stable, listed, failed>>

(* After eunlock: f->off += count * 32, a load and a store.              *)
DnLoad(p) ==
    /\ Running /\ pc[p] = "dn_load"
    /\ tmp' = [tmp EXCEPT ![p] = foff[ofile[p]]]
    /\ pc' = [pc EXCEPT ![p] = "dn_store"]
    /\ UNCHANGED <<dir, ref, fep, foff, ofile, eref, cf, ffe, dcnt, dname,
                   panicked, ghost>>

(* The store, then estat and copyout2 of the entry to the caller; when   *)
(* the copy fails dirnext returns -1 with f->off already past the entry. *)
DnStore(p) ==
    LET f == ofile[p] IN
    /\ Running /\ pc[p] = "dn_store"
    /\ foff' = [foff EXCEPT ![f] = tmp[p] + dcnt[p]]
    /\ \E ok \in CopyOk :
          IF ok THEN /\ listed' = [listed EXCEPT ![f] = BagAdd(@, dname[p])]
                     /\ UNCHANGED failed
                ELSE /\ failed' = [failed EXCEPT ![f] = @ \cup {dname[p]}]
                     /\ UNCHANGED listed
    /\ pc' = [pc EXCEPT ![p] = "idle"]
    /\ dcnt' = [dcnt EXCEPT ![p] = 0]
    /\ dname' = [dname EXCEPT ![p] = <<>>]
    /\ tmp' = [tmp EXCEPT ![p] = 0]
    /\ UNCHANGED <<dir, ref, fep, ofile, eref, cf, ffe, panicked, live,
                   created, stable, done>>

Next ==
    \E p \in Procs :
       \/ \E e \in {D, E} : Filealloc(p, e)
       \/ \E q \in Procs : Filedup(p, q)
       \/ Fileclose(p) \/ FcPut(p)
       \/ \E n \in Names : Ealloc(p, n) \/ Unlink(p, n)
       \/ DnScan(p) \/ DnLoad(p) \/ DnStore(p)

Spec == Init /\ [][Next]_vars

-----------------------------------------------------------------------------
(* Every variable has its type. *)
TypeOK ==
    /\ dir \in [Offs -> SlotVals]
    /\ ref \in [Files -> 0..Cardinality(Procs)]
    /\ fep \in [Files -> {D, E}]
    /\ foff \in [Files -> Nat]
    /\ ofile \in [Procs -> Files \cup {None}]
    /\ eref \in [{D, E} -> Nat]
    /\ pc \in [Procs -> {"idle", "fc_put", "dn_load", "dn_store"}]
    /\ cf \in [Procs -> Files \cup {None}]
    /\ panicked \in {"no", "wild"}
    /\ live \subseteq created /\ created \subseteq Names

(* fileclose copies *f under ftable.lock and puts ff.ep after releasing   *)
(* it, when filealloc may already have handed the slot to another open:   *)
(* each file's ref is the number of processes holding it, and each entry  *)
(* is referenced once per open file on it and once per close that has     *)
(* not yet put it.                                                        *)
FileRefsExact ==
    /\ \A f \in Files : ref[f] = Cardinality({p \in Procs : ofile[p] = f})
    /\ \A e \in {D, E} :
         eref[e] = Cardinality({f \in Files : ref[f] > 0 /\ fep[f] = e})
                   + Cardinality({p \in Procs : pc[p] = "fc_put" /\ ffe[p] = e})

(* After any sequence of ealloc and unlink, a dirlookup that scans D with *)
(* enext finds exactly the names that are live, and eremove never writes  *)
(* past D's clusters.                                                     *)
LookupExact ==
    /\ panicked = "no"
    /\ \A n \in Names : (Dirlookup(dir, n).ret = "found") <=> (n \in live)

(* Repeated dirnext calls on an open file, while other processes create   *)
(* and unlink entries, return no name twice and, once they return 0,      *)
(* every name that has been live since the open, but for the entries a   *)
(* failed copyout2 passed over.                                            *)
DirListing ==
    \A f \in Files : ref[f] > 0 /\ fep[f] = D =>
       /\ \A n \in created : CopiesIn(NameStr(n), listed[f]) <= 1
       /\ done[f] => \A n \in stable[f] :
                       NameStr(n) \in BagToSet(listed[f]) \cup failed[f]

(* A dirnext that fails to copy an entry out has no side effect on the   *)
(* open file (spec: argument-validation errors return -1 without side    *)
(* effect): a later dirnext still returns that entry, so once dirnext    *)
(* returns 0 every name live since the open has been returned.           *)
ErrorNoSideEffect ==
    \A f \in Files : ref[f] > 0 /\ fep[f] = D /\ done[f] =>
       \A n \in stable[f] : NameStr(n) \in BagToSet(listed[f])

(* dirnext returns only names D has had: never the short name of an       *)
(* entry read without its LFN chain.                                      *)
DirNamesReal ==
    \A f \in Files : ref[f] > 0 /\ fep[f] = D =>
       \A s \in BagToSet(listed[f]) : \E n \in created : s = NameStr(n)
=============================================================================
