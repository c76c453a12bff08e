------------------------------ MODULE FatChain ------------------------------
(***************************************************************************)
(* FAT32 cluster chains in fat32.c: read_fat, write_fat, alloc_clus,       *)
(* free_clus, reloc_clus, and the loops of ewrite, eread and etrunc that   *)
(* drive them.                                                             *)
(*                                                                         *)
(* Each thread owns one regular file (its directory entry, under elock)    *)
(* and writes, reads or unlinks-and-recreates it.  All threads share the  *)
(* FAT.  Every FAT access goes through the FAT sector's buffer, whose     *)
(* sleep lock makes it atomic: read_fat, write_fat and alloc_clus's scan  *)
(* of one FAT sector are one step each.  Data transfer (rw_clus,           *)
(* zero_clus) is abstracted to the cluster it touches.  Byte offsets and   *)
(* sizes are real; a cluster holds B bytes.                               *)
(***************************************************************************)
EXTENDS Integers, Sequences, FiniteSets

CONSTANTS
    Threads,      \* threads, each with its own file
    EntPerSec,    \* FAT entries per FAT sector (byts_per_sec / 4)
    FatSz,        \* fat.bpb.fat_sz: sectors of one FAT
    DataClus,     \* fat.data_clus_cnt: data clusters are 2..DataClus+1
    RootClus,     \* fat.bpb.root_clus
    B,            \* fat.byts_per_clus
    MaxSize,      \* bound of the model on a file's size
    NoThread

EOC == 268435448                 \* FAT32_EOC, 0x0FFFFFF8
NEnt == FatSz * EntPerSec        \* FAT entries 0..NEnt-1
Clus == 0..NEnt - 1
DataRange == 2..DataClus + 1
FatVal == Clus \cup {0, EOC + 7}

VARIABLES
    fat,                     \* the FAT on disk (through the buffer cache)
    first, cur, cnt, size,   \* entry->first_clus, cur_clus, clus_cnt, file_size
    pc,                      \* where each thread is
    op,                      \* "write", "read" or "trunc"
    off, n, tot,             \* ewrite/eread: offset, length, bytes done
    sec,                     \* alloc_clus: the FAT sector being scanned
    newc,                    \* alloc_clus's result
    ret,                     \* where alloc_clus returns to
    tc,                      \* etrunc: the next cluster to free
    panicked                 \* "no", "no clusters" or "reloc_clus"

vars == <<fat, first, cur, cnt, size, pc, op, off, n, tot, sec, newc, ret, tc,
          panicked>>

(* A formatted volume: FAT[0] and FAT[1] are reserved, the root directory *)
(* has one cluster, every other entry is free; each file is empty.        *)
Init ==
    /\ fat = [c \in Clus |-> IF c \in {0, 1, RootClus} THEN EOC + 7 ELSE 0]
    /\ first = [t \in Threads |-> 0]
    /\ cur = [t \in Threads |-> 0]
    /\ cnt = [t \in Threads |-> 0]
    /\ size = [t \in Threads |-> 0]
    /\ pc = [t \in Threads |-> "idle"]
    /\ op = [t \in Threads |-> "read"]
    /\ off = [t \in Threads |-> 0]
    /\ n = [t \in Threads |-> 0]
    /\ tot = [t \in Threads |-> 0]
    /\ sec = [t \in Threads |-> 0]
    /\ newc = [t \in Threads |-> 0]
    /\ ret = [t \in Threads |-> "w_first"]
    /\ tc = [t \in Threads |-> 0]
    /\ panicked = "no"

Running == panicked = "no"

(* read_fat(cluster) *)
ReadFat(c) ==
    IF c >= EOC THEN c
    ELSE IF c > DataClus + 1 THEN 0
    ELSE fat[c]

(* write_fat(cluster, content): nothing is written past the data range. *)
WriteFat(c, v) ==
    fat' = IF c > DataClus + 1 THEN fat ELSE [fat EXCEPT ![c] = v]

(* The clusters of the chain from c, as etrunc walks it; Fuel bounds it. *)
RECURSIVE Walk(_, _)
Walk(c, fuel) ==
    IF fuel = 0 \/ c < 2 \/ c >= EOC THEN <<>>
    ELSE <<c>> \o Walk(ReadFat(c), fuel - 1)

Fuel == NEnt + 1
Chain(t) == Walk(first[t], Fuel)

(* The cluster reached from c after k links, as reloc_clus walks it. *)
RECURSIVE Follow(_, _)
Follow(c, k) == IF k = 0 THEN c ELSE Follow(ReadFat(c), k - 1)

(* The bytes one pass of the ewrite/eread loop moves. *)
Chunk(t) == LET m == B - (off[t] % B) IN IF n[t] - tot[t] < m THEN n[t] - tot[t] ELSE m

-----------------------------------------------------------------------------
(* ewrite, eread and unlink, started on the thread's file *)

(* ewrite(entry, off, n) with off <= file_size, n >= 0; the first       *)
(* cluster of an empty file comes from alloc_clus, even when n = 0.      *)
StartWrite(t, o, len) ==
    /\ Running /\ pc[t] = "idle"
    /\ o <= size[t] /\ o + len <= MaxSize
    /\ op' = [op EXCEPT ![t] = "write"]
    /\ off' = [off EXCEPT ![t] = o]
    /\ n' = [n EXCEPT ![t] = len]
    /\ tot' = [tot EXCEPT ![t] = 0]
    /\ IF first[t] = 0
          THEN /\ pc' = [pc EXCEPT ![t] = "alloc"]
               /\ sec' = [sec EXCEPT ![t] = 0]
               /\ ret' = [ret EXCEPT ![t] = "w_first"]
          ELSE /\ pc' = [pc EXCEPT ![t] = "loop"]
               /\ UNCHANGED <<sec, ret>>
    /\ UNCHANGED <<fat, first, cur, cnt, size, newc, tc, panicked>>

(* eread(entry, off, n) with off <= file_size; n is cut to the size. *)
StartRead(t, o, len) ==
    /\ Running /\ pc[t] = "idle"
    /\ o <= size[t]
    /\ op' = [op EXCEPT ![t] = "read"]
    /\ off' = [off EXCEPT ![t] = o]
    /\ n' = [n EXCEPT ![t] = IF o + len > size[t] THEN size[t] - o ELSE len]
    /\ tot' = [tot EXCEPT ![t] = 0]
    /\ pc' = [pc EXCEPT ![t] = "loop"]
    /\ UNCHANGED <<fat, first, cur, cnt, size, sec, newc, ret, tc, panicked>>

(* Unlink: eremove marks the entry, and the last eput calls etrunc. *)
StartTrunc(t) ==
    /\ Running /\ pc[t] = "idle"
    /\ op' = [op EXCEPT ![t] = "trunc"]
    /\ tc' = [tc EXCEPT ![t] = first[t]]
    /\ pc' = [pc EXCEPT ![t] = "trunc"]
    /\ UNCHANGED <<fat, first, cur, cnt, size, off, n, tot, sec, newc, ret,
                   panicked>>

(* alloc_clus returns to ewrite: cur_clus = first_clus = clus. *)
WriteFirst(t) ==
    /\ Running /\ pc[t] = "w_first"
    /\ first' = [first EXCEPT ![t] = newc[t]]
    /\ cur' = [cur EXCEPT ![t] = newc[t]]
    /\ cnt' = [cnt EXCEPT ![t] = 0]
    /\ pc' = [pc EXCEPT ![t] = "loop"]
    /\ newc' = [newc EXCEPT ![t] = 0]
    /\ UNCHANGED <<fat, size, op, off, n, tot, sec, ret, tc, panicked>>

EndCall(t) ==
    /\ pc' = [pc EXCEPT ![t] = "idle"]
    /\ off' = [off EXCEPT ![t] = 0]
    /\ n' = [n EXCEPT ![t] = 0]
    /\ tot' = [tot EXCEPT ![t] = 0]
    /\ size' = IF op[t] = "write" /\ n[t] > 0 /\ off[t] > size[t]
                  THEN [size EXCEPT ![t] = off[t]] ELSE size

(* The loop test.  ewrite: tot < n; eread: cur_clus < EOC && tot < n.    *)
LoopTest(t) ==
    /\ Running /\ pc[t] = "loop"
    /\ IF tot[t] < n[t] /\ (op[t] = "read" => cur[t] < EOC)
          THEN /\ pc' = [pc EXCEPT ![t] = "reloc"]
               /\ UNCHANGED <<size, off, n, tot>>
          ELSE EndCall(t)
    /\ UNCHANGED <<fat, first, cur, cnt, op, sec, newc, ret, tc, panicked>>

(* rw_clus(entry->cur_clus, ..., off % B, m) moved all m bytes: the loop *)
(* increments tot and off.                                               *)
RwDone(t) ==
    /\ tot' = [tot EXCEPT ![t] = @ + Chunk(t)]
    /\ off' = [off EXCEPT ![t] = @ + Chunk(t)]
    /\ pc' = [pc EXCEPT ![t] = "loop"]
    /\ UNCHANGED <<size, n>>

(* A user copy failed and rw_clus returned less than m: the loop breaks *)
(* with tot and off where they were, after reloc_clus has already       *)
(* linked the cluster in.                                               *)
RwShort(t) == EndCall(t)

RwClus(t) ==
    /\ Running /\ pc[t] = "rw"
    /\ RwDone(t) \/ RwShort(t)
    /\ UNCHANGED <<fat, first, cur, cnt, op, sec, newc, ret, tc, panicked>>

-----------------------------------------------------------------------------
(* reloc_clus(entry, off, alloc), alloc = 1 for ewrite *)

ClusNum(t) == off[t] \div B

(* One pass of the forward loop: read_fat(cur_clus); at the end of the    *)
(* chain, alloc_clus (ewrite) or reset and return -1 (eread, whose loop   *)
(* ignores it).                                                            *)
RelocFwd(t) ==
    LET v == ReadFat(cur[t]) IN
    /\ Running /\ pc[t] = "reloc" /\ ClusNum(t) > cnt[t]
    /\ \/ /\ v < EOC
          /\ cur' = [cur EXCEPT ![t] = v]
          /\ cnt' = [cnt EXCEPT ![t] = @ + 1]
          /\ UNCHANGED <<pc, sec, ret>>
       \/ /\ v >= EOC
          /\ IF op[t] = "write"
                THEN /\ pc' = [pc EXCEPT ![t] = "alloc"]
                     /\ sec' = [sec EXCEPT ![t] = 0]
                     /\ ret' = [ret EXCEPT ![t] = "link"]
                     /\ UNCHANGED <<cur, cnt>>
                ELSE /\ cur' = [cur EXCEPT ![t] = first[t]]
                     /\ cnt' = [cnt EXCEPT ![t] = 0]
                     /\ pc' = [pc EXCEPT ![t] = "rw"]
                     /\ UNCHANGED <<sec, ret>>
    /\ UNCHANGED <<fat, first, size, op, off, n, tot, newc, tc, panicked>>

(* write_fat(entry->cur_clus, clus); cur_clus = clus; clus_cnt++. *)
RelocLink(t) ==
    /\ Running /\ pc[t] = "link"
    /\ WriteFat(cur[t], newc[t])
    /\ cur' = [cur EXCEPT ![t] = newc[t]]
    /\ cnt' = [cnt EXCEPT ![t] = @ + 1]
    /\ pc' = [pc EXCEPT ![t] = "reloc"]
    /\ newc' = [newc EXCEPT ![t] = 0]
    /\ UNCHANGED <<first, size, op, off, n, tot, sec, ret, tc, panicked>>

(* Mutant: the backward walk starts at cur_clus, not at first_clus. *)
RelocBackNoReset(t) ==
    LET k == ClusNum(t) IN
    /\ Running /\ pc[t] = "reloc" /\ ClusNum(t) < cnt[t]
    /\ cur' = [cur EXCEPT ![t] = Follow(cur[t], k)]
    /\ cnt' = [cnt EXCEPT ![t] = k]
    /\ pc' = [pc EXCEPT ![t] = "rw"]
    /\ UNCHANGED <<fat, first, size, op, off, n, tot, sec, newc, ret, tc, panicked>>

(* Target behind clus_cnt: restart at first_clus and walk; the walk reads *)
(* only links of this file's own chain, which no other thread writes.    *)
RelocBack(t) ==
    LET k == ClusNum(t)
        hitsEnd == \E i \in 1..k : Follow(first[t], i) >= EOC IN
    /\ Running /\ pc[t] = "reloc" /\ ClusNum(t) < cnt[t]
    /\ IF hitsEnd
          THEN /\ panicked' = "reloc_clus"
               /\ UNCHANGED <<cur, cnt, pc>>
          ELSE /\ cur' = [cur EXCEPT ![t] = Follow(first[t], k)]
               /\ cnt' = [cnt EXCEPT ![t] = k]
               /\ pc' = [pc EXCEPT ![t] = "rw"]
               /\ UNCHANGED panicked
    /\ UNCHANGED <<fat, first, size, op, off, n, tot, sec, newc, ret, tc>>

RelocHere(t) ==
    /\ Running /\ pc[t] = "reloc" /\ ClusNum(t) = cnt[t]
    /\ pc' = [pc EXCEPT ![t] = "rw"]
    /\ UNCHANGED <<fat, first, cur, cnt, size, op, off, n, tot, sec, newc, ret,
                   tc, panicked>>

-----------------------------------------------------------------------------
(* alloc_clus: one FAT sector per step *)

SecEnts(s) == s * EntPerSec .. s * EntPerSec + EntPerSec - 1
FreeIn(s) == {c \in SecEnts(s) : fat[c] = 0}
FirstFree(s) == CHOOSE c \in FreeIn(s) : \A c2 \in FreeIn(s) : c <= c2

(* Mutant: the free entry is returned without being marked in the FAT. *)
AllocFoundNoMark(t) ==
    /\ Running /\ pc[t] = "alloc" /\ FreeIn(sec[t]) # {}
    /\ newc' = [newc EXCEPT ![t] = FirstFree(sec[t])]
    /\ pc' = [pc EXCEPT ![t] = ret[t]]
    /\ sec' = [sec EXCEPT ![t] = 0]
    /\ UNCHANGED <<fat, first, cur, cnt, size, op, off, n, tot, ret, tc, panicked>>

(* The first zero entry of the sector is claimed (FAT32_EOC + 7); the     *)
(* cluster is zeroed and returned.                                        *)
AllocFound(t) ==
    LET c == FirstFree(sec[t]) IN
    /\ Running /\ pc[t] = "alloc" /\ FreeIn(sec[t]) # {}
    /\ fat' = [fat EXCEPT ![c] = EOC + 7]
    /\ newc' = [newc EXCEPT ![t] = c]
    /\ pc' = [pc EXCEPT ![t] = ret[t]]
    /\ sec' = [sec EXCEPT ![t] = 0]
    /\ UNCHANGED <<first, cur, cnt, size, op, off, n, tot, ret, tc, panicked>>

(* Mutant: the sector loop runs one sector past the FAT. *)
AllocNextPastEnd(t) ==
    /\ Running /\ pc[t] = "alloc" /\ FreeIn(sec[t]) = {}
    /\ IF sec[t] < FatSz
          THEN /\ sec' = [sec EXCEPT ![t] = @ + 1]
               /\ UNCHANGED panicked
          ELSE /\ panicked' = "no clusters"
               /\ UNCHANGED sec
    /\ UNCHANGED <<fat, first, cur, cnt, size, pc, op, off, n, tot, newc, ret, tc>>

(* No zero entry in this sector: the next one, or panic("no clusters"). *)
AllocNext(t) ==
    /\ Running /\ pc[t] = "alloc" /\ FreeIn(sec[t]) = {}
    /\ IF sec[t] + 1 < FatSz
          THEN /\ sec' = [sec EXCEPT ![t] = @ + 1]
               /\ UNCHANGED panicked
          ELSE /\ panicked' = "no clusters"
               /\ UNCHANGED sec
    /\ UNCHANGED <<fat, first, cur, cnt, size, pc, op, off, n, tot, newc, ret, tc>>

-----------------------------------------------------------------------------
(* etrunc, then ealloc of a new empty file in the same place *)

(* Mutant: etrunc follows the chain without freeing it. *)
TruncStepNoFree(t) ==
    /\ Running /\ pc[t] = "trunc" /\ tc[t] >= 2 /\ tc[t] < EOC
    /\ tc' = [tc EXCEPT ![t] = ReadFat(tc[t])]
    /\ UNCHANGED <<fat, first, cur, cnt, size, pc, op, off, n, tot, sec, newc, ret,
                   panicked>>

(* next = read_fat(clus); free_clus(clus); clus = next. *)
TruncStep(t) ==
    /\ Running /\ pc[t] = "trunc" /\ tc[t] >= 2 /\ tc[t] < EOC
    /\ tc' = [tc EXCEPT ![t] = ReadFat(tc[t])]
    /\ WriteFat(tc[t], 0)
    /\ UNCHANGED <<first, cur, cnt, size, pc, op, off, n, tot, sec, newc, ret,
                   panicked>>

(* The chain is freed: file_size = first_clus = 0.  ealloc then makes a  *)
(* new entry: first_clus = clus_cnt = cur_clus = file_size = 0.           *)
TruncDone(t) ==
    /\ Running /\ pc[t] = "trunc" /\ ~(tc[t] >= 2 /\ tc[t] < EOC)
    /\ first' = [first EXCEPT ![t] = 0]
    /\ cur' = [cur EXCEPT ![t] = 0]
    /\ cnt' = [cnt EXCEPT ![t] = 0]
    /\ size' = [size EXCEPT ![t] = 0]
    /\ pc' = [pc EXCEPT ![t] = "idle"]
    /\ UNCHANGED <<fat, op, off, n, tot, sec, newc, ret, tc, panicked>>

(* A panic halts the kernel. *)
Halted == ~Running /\ UNCHANGED vars

Next ==
    \/ \E t \in Threads :
        \/ \E o \in 0..MaxSize, len \in 0..B + 1 : StartWrite(t, o, len) \/ StartRead(t, o, len)
        \/ StartTrunc(t) \/ WriteFirst(t) \/ LoopTest(t) \/ RwClus(t)
        \/ RelocFwd(t) \/ RelocLink(t) \/ RelocBack(t) \/ RelocHere(t)
        \/ AllocFound(t) \/ AllocNext(t) \/ TruncStep(t) \/ TruncDone(t)
    \/ Halted

Spec == Init /\ [][Next]_vars

-----------------------------------------------------------------------------
(* Properties *)

TypeOK ==
    /\ fat \in [Clus -> FatVal]
    /\ first \in [Threads -> Clus]
    /\ cur \in [Threads -> Clus \cup {EOC + 7}]
    /\ cnt \in [Threads -> 0..NEnt]
    /\ size \in [Threads -> 0..MaxSize]
    /\ pc \in [Threads -> {"idle", "loop", "reloc", "link", "rw", "alloc",
                            "w_first", "trunc"}]
    /\ op \in [Threads -> {"write", "read", "trunc"}]
    /\ sec \in [Threads -> 0..FatSz - 1]
    /\ panicked \in {"no", "no clusters", "reloc_clus"}

(* The clusters a thread's file owns: while etrunc runs, the part of the *)
(* chain it has not freed yet.                                            *)
Owned(t) == IF pc[t] = "trunc" THEN Walk(tc[t], Fuel) ELSE Chain(t)

(* A cluster alloc_clus has claimed and ewrite has not linked in yet. *)
InFlight(t) == IF pc[t] \in {"w_first", "link"} THEN {newc[t]} ELSE {}

(* Every chain ends within the FAT (no cycle), no two files share a       *)
(* cluster, and none holds the root directory's or a reserved cluster.    *)
ChainsDisjoint ==
    /\ \A t \in Threads : Len(Walk(first[t], Fuel)) < Fuel
    /\ \A t \in Threads : \A i \in 1..Len(Owned(t)) : Owned(t)[i] \notin {0, 1, RootClus}
    /\ \A t1, t2 \in Threads : t1 # t2 =>
          {Owned(t1)[i] : i \in 1..Len(Owned(t1))} \cap {Owned(t2)[i] : i \in 1..Len(Owned(t2))} = {}

(* No cluster leaks: a data cluster marked in use in the FAT belongs to   *)
(* the root directory, to some file, or to an allocation in flight.       *)
NoLostCluster ==
    \A c \in DataRange : fat[c] # 0 =>
        \/ c = RootClus
        \/ \E t \in Threads : c \in {Owned(t)[i] : i \in 1..Len(Owned(t))} \cup InFlight(t)

IOOnOwnCluster ==
    \A t \in Threads : pc[t] = "rw" =>
        /\ cur[t] \in DataRange
        /\ off[t] \div B < Len(Chain(t))
        /\ cur[t] = Chain(t)[off[t] \div B + 1]

=============================================================================
