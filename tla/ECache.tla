------------------------------- MODULE ECache -------------------------------
(***************************************************************************)
(* The FAT32 directory-entry cache of fat32.c: eget, edup, eput, elock,    *)
(* eunlock, eremove and etrunc, driven by lookup_path and dirlookup.       *)
(*                                                                         *)
(* Entry Root is the sentinel `root`; entries 1..K are ecache.entries.     *)
(* `lru` is the ring root.next ... root.prev, head first.  A thread runs   *)
(* lookup_path on a path drawn from Paths, then closes the entry it got    *)
(* (eput) or unlinks it (eremove, then eput).  Steps under ecache.lock are *)
(* folded into one action each; an entry's sleep lock is its `owner`.      *)
(* The directory tree on disk is the function DirOf from a file to the     *)
(* directory holding it; `exists` records which files are still on disk.   *)
(*                                                                         *)
(* `held` and `childHold` are ghost state: the references each thread      *)
(* holds, and whether a cached child holds its reference on its parent.    *)
(***************************************************************************)
EXTENDS Integers, Sequences, SequencesExt, FiniteSets

CONSTANTS
    Threads,      \* kernel threads doing path lookups
    K,            \* ENTRY_CACHE_NUM
    Files,        \* files and directories on the volume, root excluded
    Dirs,         \* the directories among Files
    RootF,        \* the root directory's name
    DirOf,        \* DirOf[f]: the directory holding f (RootF or a member of Dirs)
    DotDot,       \* the path component ".."
    Paths,        \* paths threads look up: sequences over Files \cup {DotDot}
    MaxRef,       \* bound of the model on the size of any entry's ref
    NoEnt, NoFile, NoThread

Root == 0
Ents == 0..K
Slots == 1..K

VARIABLES
    ref, valid, parent, name, owner,  \* struct dirent fields and its sleep lock
    lru,                              \* the LRU ring of ecache, head first
    exists,                           \* which files the directory slots on disk hold
    pc, entry, nxt, path,             \* lookup_path locals: entry, next, path
    pe, eparent, k,                   \* eput's argument, its saved parent, return point
    panicked,                         \* "no", or which panic the kernel took
    held, childHold, pend             \* ghost reference accounting

vars == <<ref, valid, parent, name, owner, lru, exists, pc, entry, nxt, path,
          pe, eparent, k, panicked, held, childHold, pend>>

Labels == {"idle", "lp_lock", "dl_start", "dl_scan", "lp_unlock", "lp_fail",
           "use", "rm", "ep_start", "ep_sync", "ep_update", "ep_rel", "ep_dec",
           "ep_check"}

(* fat32_init: root is valid and alone; every slot is pushed at the head. *)
Init ==
    /\ ref = [e \in Ents |-> 0]
    /\ valid = [e \in Ents |-> IF e = Root THEN 1 ELSE 0]
    /\ parent = [e \in Ents |-> NoEnt]
    /\ name = [e \in Ents |-> IF e = Root THEN RootF ELSE NoFile]
    /\ owner = [e \in Ents |-> NoThread]
    /\ lru = [i \in 1..K |-> K + 1 - i]
    /\ exists = [f \in Files |-> TRUE]
    /\ pc = [t \in Threads |-> "idle"]
    /\ entry = [t \in Threads |-> NoEnt]
    /\ nxt = [t \in Threads |-> NoEnt]
    /\ path = [t \in Threads |-> <<>>]
    /\ pe = [t \in Threads |-> NoEnt]
    /\ eparent = [t \in Threads |-> NoEnt]
    /\ k = [t \in Threads |-> "done"]
    /\ panicked = "no"
    /\ held = [t \in Threads |-> [e \in Ents |-> 0]]
    /\ childHold = [e \in Ents |-> FALSE]
    /\ pend = [t \in Threads |-> FALSE]

Running == panicked = "no"

(* Ghost: thread t gains (d = 1) or drops (d = -1) a reference on e. *)
Hold(t, e, d) == held' = [held EXCEPT ![t][e] = @ + d]

(* Control leaves eput and returns to its caller, named by k[t]. *)
Return(t) ==
    /\ pe' = [pe EXCEPT ![t] = NoEnt]
    /\ eparent' = [eparent EXCEPT ![t] = NoEnt]
    /\ \/ /\ k[t] = "lp_next"            \* lookup_path: entry = next
          /\ entry' = [entry EXCEPT ![t] = nxt[t]]
          /\ nxt' = [nxt EXCEPT ![t] = NoEnt]
          /\ path' = [path EXCEPT ![t] = Tail(@)]
          /\ pc' = [pc EXCEPT ![t] = IF Tail(path[t]) = <<>> THEN "use" ELSE "lp_lock"]
       \/ /\ k[t] = "dl_null"            \* dirlookup returns NULL
          /\ nxt' = [nxt EXCEPT ![t] = NoEnt]
          /\ pc' = [pc EXCEPT ![t] = "lp_fail"]
          /\ UNCHANGED <<entry, path>>
       \/ /\ k[t] = "done"               \* back in the system call
          /\ entry' = [entry EXCEPT ![t] = NoEnt]
          /\ pc' = [pc EXCEPT ![t] = "idle"]
          /\ UNCHANGED <<nxt, path>>

(* A call of eput(e) that returns to r. *)
CallEput(t, e, r) ==
    /\ pe' = [pe EXCEPT ![t] = e]
    /\ k' = [k EXCEPT ![t] = r]
    /\ pc' = [pc EXCEPT ![t] = "ep_start"]

-----------------------------------------------------------------------------
(* lookup_path *)

(* lookup_path of an absolute path: entry = edup(&root). *)
Start(t, p) ==
    /\ Running /\ pc[t] = "idle"
    /\ \A e \in Ents : -MaxRef < ref[e] /\ ref[e] < MaxRef
    /\ ref' = [ref EXCEPT ![Root] = @ + 1]
    /\ Hold(t, Root, 1)
    /\ entry' = [entry EXCEPT ![t] = Root]
    /\ path' = [path EXCEPT ![t] = p]
    /\ pc' = [pc EXCEPT ![t] = "lp_lock"]
    /\ UNCHANGED <<valid, parent, name, owner, lru, exists, nxt, pe, eparent,
                   k, panicked, childHold, pend>>

(* elock(e): panic("elock") unless the caller holds a reference, else    *)
(* acquiresleep(&e->lock), and go on at next.                              *)
ELockThen(t, e, next) ==
    IF ref[e] < 1
       THEN /\ panicked' = "elock"
            /\ UNCHANGED <<owner, pc>>
       ELSE /\ owner[e] = NoThread
            /\ owner' = [owner EXCEPT ![e] = t]
            /\ pc' = [pc EXCEPT ![t] = next]
            /\ UNCHANGED panicked

(* elock(entry), then the ATTR_DIRECTORY test. *)
LpLock(t) ==
    LET e == entry[t] IN
    /\ Running /\ pc[t] = "lp_lock"
    /\ ELockThen(t, e, IF name[e] \in Dirs \cup {RootF} THEN "dl_start" ELSE "lp_fail")
    /\ UNCHANGED <<ref, valid, parent, name, lru, exists, entry, nxt, path,
                   pe, eparent, k, held, childHold, pend>>

(* eunlock(entry); eput(entry); then entry = next. *)
LpUnlock(t) ==
    /\ Running /\ pc[t] = "lp_unlock"
    /\ owner' = [owner EXCEPT ![entry[t]] = NoThread]
    /\ CallEput(t, entry[t], "lp_next")
    /\ UNCHANGED <<ref, valid, parent, name, lru, exists, entry, nxt, path,
                   eparent, panicked, held, childHold, pend>>

(* Not a directory, or dirlookup found nothing: eunlock; eput; return NULL. *)
LpFail(t) ==
    /\ Running /\ pc[t] = "lp_fail"
    /\ owner' = [owner EXCEPT ![entry[t]] = NoThread]
    /\ CallEput(t, entry[t], "done")
    /\ UNCHANGED <<ref, valid, parent, name, lru, exists, entry, nxt, path,
                   eparent, panicked, held, childHold, pend>>

-----------------------------------------------------------------------------
(* dirlookup(dp = entry, Head(path)) *)

(* "..": edup(dp->parent), or edup(&root) at the root. *)
DlDotDot(t) ==
    LET dp == entry[t]
        up == IF dp = Root THEN Root ELSE parent[dp] IN
    /\ Running /\ pc[t] = "dl_start" /\ Head(path[t]) = DotDot
    /\ ref' = [ref EXCEPT ![up] = @ + 1]
    /\ Hold(t, up, 1)
    /\ nxt' = [nxt EXCEPT ![t] = up]
    /\ pc' = [pc EXCEPT ![t] = "lp_unlock"]
    /\ UNCHANGED <<valid, parent, name, owner, lru, exists, entry, path, pe,
                   eparent, k, panicked, childHold, pend>>

(* dp->valid != 1: return NULL. *)
DlInvalid(t) ==
    /\ Running /\ pc[t] = "dl_start" /\ Head(path[t]) # DotDot
    /\ valid[entry[t]] # 1
    /\ nxt' = [nxt EXCEPT ![t] = NoEnt]
    /\ pc' = [pc EXCEPT ![t] = "lp_fail"]
    /\ UNCHANGED <<ref, valid, parent, name, owner, lru, exists, entry, path,
                   pe, eparent, k, panicked, held, childHold, pend>>

(* Mutant: eget called without a name skips the first loop. *)
CachedEntNone(dp, n) == 0

(* eget's first loop: the first entry from the head that is valid and     *)
(* has this parent and name.                                              *)
CachedEnt(dp, n) == SelectInSeq(lru, LAMBDA e : valid[e] = 1 /\ parent[e] = dp
                                                /\ name[e] = n)

(* Mutant: the second loop runs from the head (most recently used). *)
FreeEntMRU == SelectInSeq(lru, LAMBDA e : ref[e] = 0)

(* eget's second loop: the first entry from the tail with ref 0. *)
FreeEnt == SelectLastInSeq(lru, LAMBDA e : ref[e] = 0)

DlReady(t) ==
    /\ Running /\ pc[t] = "dl_start" /\ Head(path[t]) # DotDot
    /\ valid[entry[t]] = 1

(* eget hit: ref++, and the parent's ref++ on the first reference; the    *)
(* entry is valid, so dirlookup returns it.                               *)
EGetHit(t) ==
    LET dp == entry[t]
        i == CachedEnt(dp, Head(path[t]))
        e == lru[i] IN
    /\ DlReady(t) /\ i > 0
    /\ ref' = IF ref[e] = 0 THEN [ref EXCEPT ![e] = 1, ![dp] = @ + 1]
                            ELSE [ref EXCEPT ![e] = @ + 1]
    /\ childHold' = IF ref[e] = 0 THEN [childHold EXCEPT ![e] = TRUE] ELSE childHold
    /\ Hold(t, e, 1)
    /\ nxt' = [nxt EXCEPT ![t] = e]
    /\ pc' = [pc EXCEPT ![t] = "lp_unlock"]
    /\ UNCHANGED <<valid, parent, name, owner, lru, exists, entry, path, pe,
                   eparent, k, panicked, pend>>

(* Mutant: the claimed slot is not given ref = 1. *)
EGetMissNoRef(t) ==
    LET i == FreeEnt
        e == lru[i] IN
    /\ DlReady(t) /\ CachedEnt(entry[t], Head(path[t])) = 0 /\ i > 0
    /\ valid' = [valid EXCEPT ![e] = 0]
    /\ Hold(t, e, 1)
    /\ nxt' = [nxt EXCEPT ![t] = e]
    /\ pc' = [pc EXCEPT ![t] = "dl_scan"]
    /\ UNCHANGED <<ref, parent, name, owner, lru, exists, entry, path, pe, eparent,
                   k, panicked, childHold, pend>>

(* eget miss: claim the least recently used free slot (ref = 1, valid = 0); *)
(* dirlookup then scans dp on disk.                                        *)
EGetMiss(t) ==
    LET i == FreeEnt
        e == lru[i] IN
    /\ DlReady(t) /\ CachedEnt(entry[t], Head(path[t])) = 0 /\ i > 0
    /\ ref' = [ref EXCEPT ![e] = 1]
    /\ valid' = [valid EXCEPT ![e] = 0]
    /\ Hold(t, e, 1)
    /\ nxt' = [nxt EXCEPT ![t] = e]
    /\ pc' = [pc EXCEPT ![t] = "dl_scan"]
    /\ UNCHANGED <<parent, name, owner, lru, exists, entry, path, pe, eparent,
                   k, panicked, childHold, pend>>

(* panic("eget: insufficient ecache") *)
EGetPanic(t) ==
    /\ DlReady(t) /\ CachedEnt(entry[t], Head(path[t])) = 0 /\ FreeEnt = 0
    /\ panicked' = "ecache"
    /\ UNCHANGED <<ref, valid, parent, name, owner, lru, exists, pc, entry,
                   nxt, path, pe, eparent, k, held, childHold, pend>>

(* The enext scan finds the name: ep->parent = edup(dp); ep->valid = 1. *)
DlFound(t) ==
    LET dp == entry[t]
        ep == nxt[t]
        n == Head(path[t]) IN
    /\ Running /\ pc[t] = "dl_scan"
    /\ n \in Files /\ exists[n] /\ DirOf[n] = name[dp]
    /\ ref' = [ref EXCEPT ![dp] = @ + 1]
    /\ childHold' = [childHold EXCEPT ![ep] = TRUE]
    /\ parent' = [parent EXCEPT ![ep] = dp]
    /\ name' = [name EXCEPT ![ep] = n]
    /\ valid' = [valid EXCEPT ![ep] = 1]
    /\ pc' = [pc EXCEPT ![t] = "lp_unlock"]
    /\ UNCHANGED <<owner, lru, exists, entry, nxt, path, pe, eparent, k,
                   panicked, held, pend>>

(* The scan ends without the name: eput(ep); return NULL. *)
DlMiss(t) ==
    LET n == Head(path[t]) IN
    /\ Running /\ pc[t] = "dl_scan"
    /\ ~(n \in Files /\ exists[n] /\ DirOf[n] = name[entry[t]])
    /\ CallEput(t, nxt[t], "dl_null")
    /\ UNCHANGED <<ref, valid, parent, name, owner, lru, exists, entry, nxt,
                   path, eparent, panicked, held, childHold, pend>>

-----------------------------------------------------------------------------
(* The caller of lookup_path: close the entry, or unlink it. *)

Close(t) ==
    /\ Running /\ pc[t] = "use"
    /\ CallEput(t, entry[t], "done")
    /\ UNCHANGED <<ref, valid, parent, name, owner, lru, exists, entry, nxt,
                   path, eparent, panicked, held, childHold, pend>>

(* Unlink takes the entry's sleep lock; a directory must be empty on disk. *)
RmLock(t) ==
    LET e == entry[t] IN
    /\ Running /\ pc[t] = "use"
    /\ e # Root /\ ~\E f \in Files : exists[f] /\ DirOf[f] = name[e]
    /\ owner[e] = NoThread
    /\ owner' = [owner EXCEPT ![e] = t]
    /\ pc' = [pc EXCEPT ![t] = "rm"]
    /\ UNCHANGED <<ref, valid, parent, name, lru, exists, entry, nxt, path,
                   pe, eparent, k, panicked, held, childHold, pend>>

(* Mutant: eput(ep) without the eunlock before it. *)
RemoveEntryNoUnlock(t) ==
    LET e == entry[t] IN
    /\ Running /\ pc[t] = "rm"
    /\ valid' = IF valid[e] = 1 THEN [valid EXCEPT ![e] = -1] ELSE valid
    /\ exists' = IF valid[e] = 1 THEN [exists EXCEPT ![name[e]] = FALSE] ELSE exists
    /\ CallEput(t, e, "done")
    /\ UNCHANGED <<ref, parent, name, owner, lru, entry, nxt, path, eparent,
                   panicked, held, childHold, pend>>

(* eremove (a no-op unless valid == 1: the slots get EMPTY_ENTRY and      *)
(* valid = -1), eunlock, eput.                                            *)
RemoveEntry(t) ==
    LET e == entry[t] IN
    /\ Running /\ pc[t] = "rm"
    /\ valid' = IF valid[e] = 1 THEN [valid EXCEPT ![e] = -1] ELSE valid
    /\ exists' = IF valid[e] = 1 THEN [exists EXCEPT ![name[e]] = FALSE] ELSE exists
    /\ owner' = [owner EXCEPT ![e] = NoThread]
    /\ CallEput(t, e, "done")
    /\ UNCHANGED <<ref, parent, name, lru, entry, nxt, path, eparent,
                   panicked, held, childHold, pend>>

-----------------------------------------------------------------------------
(* eput(e) *)

EvictCond(e) == e # Root /\ valid[e] # 0 /\ ref[e] = 1

(* Mutant: e is pushed at the head without being unlinked first. *)
EputSlowNoUnlink(t) ==
    LET e == pe[t] IN
    /\ Running /\ pc[t] = "ep_start" /\ EvictCond(e)
    /\ IF owner[e] = NoThread
          THEN /\ owner' = [owner EXCEPT ![e] = t]
               /\ lru' = <<e>> \o lru
               /\ pc' = [pc EXCEPT ![t] = "ep_sync"]
               /\ UNCHANGED panicked
          ELSE /\ panicked' = "sched"
               /\ UNCHANGED <<owner, lru, pc>>
    /\ UNCHANGED <<ref, valid, parent, name, exists, entry, nxt, path, pe,
                   eparent, k, held, childHold, pend>>

(* Last reference to a live entry: acquiresleep(&e->lock) with            *)
(* ecache.lock held, move e to the head, release ecache.lock.  Should the *)
(* sleep lock be taken, acquiresleep sleeps with ecache.lock held and     *)
(* sched() panics ("sched locks").                                        *)
EputSlow(t) ==
    LET e == pe[t] IN
    /\ Running /\ pc[t] = "ep_start" /\ EvictCond(e)
    /\ IF owner[e] = NoThread
          THEN /\ owner' = [owner EXCEPT ![e] = t]
               /\ lru' = <<e>> \o Remove(lru, e)
               /\ pc' = [pc EXCEPT ![t] = "ep_sync"]
               /\ UNCHANGED panicked
          ELSE /\ panicked' = "sched"
               /\ UNCHANGED <<owner, lru, pc>>
    /\ UNCHANGED <<ref, valid, parent, name, exists, entry, nxt, path, pe,
                   eparent, k, held, childHold, pend>>

(* Mutant: the fast path forgets entry->ref--. *)
EputFastNoDec(t) ==
    LET e == pe[t] IN
    /\ Running /\ pc[t] = "ep_start" /\ ~EvictCond(e)
    /\ Hold(t, e, -1)
    /\ Return(t)
    /\ UNCHANGED <<ref, valid, parent, name, owner, lru, exists, k, panicked,
                   childHold, pend>>

(* Otherwise: ref-- under ecache.lock, and return. *)
EputFast(t) ==
    LET e == pe[t] IN
    /\ Running /\ pc[t] = "ep_start" /\ ~EvictCond(e)
    /\ ref' = [ref EXCEPT ![e] = @ - 1]
    /\ Hold(t, e, -1)
    /\ Return(t)
    /\ UNCHANGED <<valid, parent, name, owner, lru, exists, k, panicked,
                   childHold, pend>>

(* valid == -1: etrunc frees the clusters, and no lock is taken. *)
EputTrunc(t) ==
    /\ Running /\ pc[t] = "ep_sync" /\ valid[pe[t]] = -1
    /\ pc' = [pc EXCEPT ![t] = "ep_rel"]
    /\ UNCHANGED <<ref, valid, parent, name, owner, lru, exists, entry, nxt,
                   path, pe, eparent, k, panicked, held, childHold, pend>>

(* Otherwise elock(e->parent) before eupdate. *)
EputLockParent(t) ==
    /\ Running /\ pc[t] = "ep_sync" /\ valid[pe[t]] # -1
    /\ ELockThen(t, parent[pe[t]], "ep_update")
    /\ UNCHANGED <<ref, valid, parent, name, lru, exists, entry, nxt, path,
                   pe, eparent, k, held, childHold, pend>>

(* eupdate writes the entry back through the parent; eunlock(e->parent). *)
EputUpdate(t) ==
    /\ Running /\ pc[t] = "ep_update"
    /\ owner' = [owner EXCEPT ![parent[pe[t]]] = NoThread]
    /\ pc' = [pc EXCEPT ![t] = "ep_rel"]
    /\ UNCHANGED <<ref, valid, parent, name, lru, exists, entry, nxt, path,
                   pe, eparent, k, panicked, held, childHold, pend>>

(* releasesleep(&e->lock); eparent = e->parent. *)
EputRelease(t) ==
    /\ Running /\ pc[t] = "ep_rel"
    /\ owner' = [owner EXCEPT ![pe[t]] = NoThread]
    /\ eparent' = [eparent EXCEPT ![t] = parent[pe[t]]]
    /\ pc' = [pc EXCEPT ![t] = "ep_dec"]
    /\ UNCHANGED <<ref, valid, parent, name, lru, exists, entry, nxt, path,
                   pe, k, panicked, held, childHold, pend>>

(* ref-- under ecache.lock.  When it reaches 0 the child's reference on   *)
(* its parent passes, in the ghost, to this thread.                       *)
EputDec(t) ==
    LET e == pe[t] IN
    /\ Running /\ pc[t] = "ep_dec"
    /\ ref' = [ref EXCEPT ![e] = @ - 1]
    /\ LET last == ref[e] = 1 /\ childHold[e] IN
       /\ held' = [held EXCEPT ![t][e] = @ - 1,
                               ![t][eparent[t]] = @ + (IF last THEN 1 ELSE 0)]
       /\ childHold' = IF last THEN [childHold EXCEPT ![e] = FALSE] ELSE childHold
       /\ pend' = [pend EXCEPT ![t] = last]
    /\ pc' = [pc EXCEPT ![t] = "ep_check"]
    /\ UNCHANGED <<valid, parent, name, owner, lru, exists, entry, nxt, path,
                   pe, eparent, k, panicked>>

(* if (entry->ref == 0) eput(eparent), read after release(&ecache.lock). *)
(* A thread that did not take over the child's reference now puts one    *)
(* it never held: the ghost charges it to this thread.                   *)
EputRecurse(t) ==
    /\ Running /\ pc[t] = "ep_check" /\ ref[pe[t]] = 0
    /\ held' = IF pend[t] THEN held ELSE [held EXCEPT ![t][eparent[t]] = @ + 1]
    /\ pe' = [pe EXCEPT ![t] = eparent[t]]
    /\ pend' = [pend EXCEPT ![t] = FALSE]
    /\ pc' = [pc EXCEPT ![t] = "ep_start"]
    /\ UNCHANGED <<ref, valid, parent, name, owner, lru, exists, entry, nxt,
                   path, eparent, k, panicked, childHold>>

(* The read sees ref != 0 and eput returns; a reference this thread took  *)
(* over from the child is dropped from the ghost without a put.           *)
EputDone(t) ==
    /\ Running /\ pc[t] = "ep_check" /\ ref[pe[t]] # 0
    /\ held' = IF pend[t] THEN [held EXCEPT ![t][eparent[t]] = @ - 1] ELSE held
    /\ pend' = [pend EXCEPT ![t] = FALSE]
    /\ Return(t)
    /\ UNCHANGED <<ref, valid, parent, name, owner, lru, exists, k, panicked,
                   childHold>>

-----------------------------------------------------------------------------

(* Every thread idle with some entry at the model's bound on ref, or the  *)
(* kernel halted: the behaviour ends here.                                *)
Finished ==
    /\ \/ ~Running
       \/ /\ \A t \in Threads : pc[t] = "idle"
          /\ \E e \in Ents : ref[e] <= -MaxRef \/ ref[e] >= MaxRef
    /\ UNCHANGED vars

Thread(t) ==
    \/ \E p \in Paths : Start(t, p)
    \/ LpLock(t) \/ LpUnlock(t) \/ LpFail(t)
    \/ DlDotDot(t) \/ DlInvalid(t) \/ EGetHit(t) \/ EGetMiss(t) \/ EGetPanic(t)
    \/ DlFound(t) \/ DlMiss(t)
    \/ Close(t) \/ RmLock(t) \/ RemoveEntry(t)
    \/ EputSlow(t) \/ EputFast(t) \/ EputTrunc(t)
    \/ EputLockParent(t) \/ EputUpdate(t) \/ EputRelease(t) \/ EputDec(t)
    \/ EputRecurse(t) \/ EputDone(t)

Next == (\E t \in Threads : Thread(t)) \/ Finished

Spec == Init /\ [][Next]_vars

-----------------------------------------------------------------------------
(* Properties *)

TypeOK ==
    /\ ref \in [Ents -> Int]
    /\ valid \in [Ents -> {-1, 0, 1}]
    /\ parent \in [Ents -> Ents \cup {NoEnt}]
    /\ name \in [Ents -> Files \cup {RootF, NoFile}]
    /\ owner \in [Ents -> Threads \cup {NoThread}]
    /\ lru \in Seq(Slots) /\ Len(lru) = K /\ ToSet(lru) = Slots
    /\ exists \in [Files -> BOOLEAN]
    /\ pc \in [Threads -> Labels]
    /\ entry \in [Threads -> Ents \cup {NoEnt}]
    /\ nxt \in [Threads -> Ents \cup {NoEnt}]
    /\ pe \in [Threads -> Ents \cup {NoEnt}]
    /\ k \in [Threads -> {"lp_next", "dl_null", "done"}]
    /\ panicked \in {"no", "ecache", "sched", "elock"}
    /\ held \in [Threads -> [Ents -> Int]]

(* References to e the ghost accounts for: those threads hold, and those  *)
(* cached children hold on their parent.                                  *)
ThreadRefs(e) == SumFunction([t \in Threads |-> held[t][e]])
ChildRefs(e) == Cardinality({c \in Slots : childHold[c] /\ parent[c] = e})

(* Every reference a thread or a cached child holds on an entry is        *)
(* counted in its ref (eget's parent->ref++, edup, and eput's recursive   *)
(* put of the parent).  Otherwise eget can hand out a slot still in use.  *)
(* Root's ref is not checked: root is never evicted.                      *)
RefCovers == \A e \in Slots : ref[e] >= ThreadRefs(e) + ChildRefs(e)

(* ref counts nothing else: every reference taken is put back, so an      *)
(* entry nobody holds can be recycled (no slot leaks until eget panics).   *)
RefNoLeak == \A e \in Slots : ref[e] <= ThreadRefs(e) + ChildRefs(e)

(* Both together: ref is exactly the number of references held, by threads *)
(* and by cached children.  eput's unlocked re-read of ref breaks it both *)
(* ways, so one run checks the two as one.                                *)
RefExact == RefCovers /\ RefNoLeak

(* A valid cached entry's parent pointer still names the directory that   *)
(* holds it (the spec: if valid = 1 then parent is a live entry): the LRU  *)
(* choice in eget never recycles the slot of a directory while a valid    *)
(* child entry, even one with ref 0, points to it.                        *)
ParentIntact ==
    \A c \in Slots : valid[c] = 1 =>
        /\ parent[c] \in Ents
        /\ valid[parent[c]] # 0
        /\ name[parent[c]] = DirOf[name[c]]

(* eput's acquiresleep, made with ecache.lock held, never has to sleep. *)
NoSleepUnderSpinlock == panicked # "sched"

(* Two valid entries never cache the same file under the same parent. *)
CachedUnique ==
    \A c1, c2 \in Slots :
        c1 # c2 /\ valid[c1] = 1 /\ valid[c2] = 1
            => ~(parent[c1] = parent[c2] /\ name[c1] = name[c2])

=============================================================================
