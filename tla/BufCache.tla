------------------------------ MODULE BufCache ------------------------------
(***************************************************************************)
(* The buffer cache of src/kernel/bio.c: NBUF buffers on a circular LRU    *)
(* list, each with a sector tag, valid flag, reference count, payload and  *)
(* sleep lock, shared by threads that bread(), write and bwrite(), then    *)
(* brelse() one sector at a time, as the callers in fat32.c do.            *)
(*                                                                         *)
(* The list is the sequence lru (lru[1] is bcache.head.next, the most      *)
(* recently released buffer; lru[Len(lru)] is head.prev).  Everything bget *)
(* and brelse do under bcache.lock is one step.  A buffer's sleep lock is  *)
(* modelled by its owner: Proc checks acquiresleep/releasesleep against    *)
(* the process table and shows they are a mutex, which is all used here.   *)
(* Only device 0 exists (every caller passes dev 0), so a tag is a sector. *)
(***************************************************************************)
EXTENDS Integers, Sequences, SequencesExt, FiniteSets

CONSTANTS
  Threads,     \* processes using the cache
  NBUF,        \* number of buffers
  Secs,        \* sectors of device 0
  Values,      \* sector payloads
  InitValue,   \* the payload of every sector on the disk at boot
  MaxPins,     \* bound on bpin() per buffer
  NoSec, NoBuf, NoThread   \* model values

Bufs == 1..NBUF

VARIABLES
  sec,      \* b->sectorno (NoSec is the ~0 binit stores)
  valid,    \* b->valid
  refcnt,   \* b->refcnt
  data,     \* b->data
  lru,      \* the list order
  owner,    \* holder of b->lock
  disk,     \* the sectors on the SD card
  pc,       \* where each thread is
  buf,      \* the buffer bget returned to each thread
  pins,     \* bpin() calls not yet undone by bunpin(), per buffer
  halted    \* panic("bget: no buffers")

vars == <<sec, valid, refcnt, data, lru, owner, disk, pc, buf, pins, halted>>

(* binit(): every buffer is inserted at the head in turn, so head.next is  *)
(* the last one.  valid is 0 in the zeroed bcache.                         *)
Init ==
  /\ sec = [b \in Bufs |-> NoSec]
  /\ valid = [b \in Bufs |-> FALSE]
  /\ refcnt = [b \in Bufs |-> 0]
  /\ data = [b \in Bufs |-> InitValue]
  /\ lru = [i \in 1..NBUF |-> NBUF + 1 - i]
  /\ owner = [b \in Bufs |-> NoThread]
  /\ disk = [s \in Secs |-> InitValue]
  /\ pc = [t \in Threads |-> "idle"]
  /\ buf = [t \in Threads |-> NoBuf]
  /\ pins = [b \in Bufs |-> 0]
  /\ halted = FALSE

(* bget's two scans: the first buffer from the head tagged s, and the      *)
(* first buffer from the tail with refcnt = 0 (0 when there is none).      *)
Cached(s) == SelectInSeq(lru, LAMBDA b : sec[b] = s)
Reclaimable == SelectLastInSeq(lru, LAMBDA b : refcnt[b] = 0)

Start(t) == pc[t] = "idle" /\ ~halted

(* bget(): s is cached: refcnt++, release the cache lock.                  *)
BGetHit(t, s) ==
  /\ Start(t)
  /\ Cached(s) # 0
  /\ refcnt' = [refcnt EXCEPT ![lru[Cached(s)]] = @ + 1]
  /\ buf' = [buf EXCEPT ![t] = lru[Cached(s)]]
  /\ pc' = [pc EXCEPT ![t] = "acq"]
  /\ UNCHANGED <<sec, valid, data, lru, owner, disk, pins, halted>>

(* Mutations of the recycling scan below: it runs although s is cached;   *)
(* it keeps the old payload valid; it tests refcnt <= 1 and increments.   *)
BGetRecycleNoLookup(t, s) ==
  LET b == lru[Reclaimable] IN
  /\ Start(t)
  /\ Reclaimable # 0
  /\ sec' = [sec EXCEPT ![b] = s]
  /\ valid' = [valid EXCEPT ![b] = FALSE]
  /\ refcnt' = [refcnt EXCEPT ![b] = 1]
  /\ buf' = [buf EXCEPT ![t] = b]
  /\ pc' = [pc EXCEPT ![t] = "acq"]
  /\ UNCHANGED <<data, lru, owner, disk, pins, halted>>

BGetRecycleKeepValid(t, s) ==
  LET b == lru[Reclaimable] IN
  /\ Start(t)
  /\ Cached(s) = 0
  /\ Reclaimable # 0
  /\ sec' = [sec EXCEPT ![b] = s]
  /\ refcnt' = [refcnt EXCEPT ![b] = 1]
  /\ buf' = [buf EXCEPT ![t] = b]
  /\ pc' = [pc EXCEPT ![t] = "acq"]
  /\ UNCHANGED <<valid, data, lru, owner, disk, pins, halted>>

BGetRecycleInUse(t, s) ==
  LET i == SelectLastInSeq(lru, LAMBDA x : refcnt[x] <= 1)
      b == lru[i] IN
  /\ Start(t)
  /\ Cached(s) = 0
  /\ i # 0
  /\ sec' = [sec EXCEPT ![b] = s]
  /\ valid' = [valid EXCEPT ![b] = FALSE]
  /\ refcnt' = [refcnt EXCEPT ![b] = @ + 1]
  /\ buf' = [buf EXCEPT ![t] = b]
  /\ pc' = [pc EXCEPT ![t] = "acq"]
  /\ UNCHANGED <<data, lru, owner, disk, pins, halted>>

(* bget(): s is not cached: the least recently used buffer with refcnt 0  *)
(* gets tag s, valid = 0, refcnt = 1; release the cache lock.              *)
BGetRecycle(t, s) ==
  LET b == lru[Reclaimable] IN
  /\ Start(t)
  /\ Cached(s) = 0
  /\ Reclaimable # 0
  /\ sec' = [sec EXCEPT ![b] = s]
  /\ valid' = [valid EXCEPT ![b] = FALSE]
  /\ refcnt' = [refcnt EXCEPT ![b] = 1]
  /\ buf' = [buf EXCEPT ![t] = b]
  /\ pc' = [pc EXCEPT ![t] = "acq"]
  /\ UNCHANGED <<data, lru, owner, disk, pins, halted>>

(* bget(): neither scan finds a buffer: panic, which stops the kernel.     *)
BGetPanic(t, s) ==
  /\ Start(t)
  /\ Cached(s) = 0
  /\ Reclaimable = 0
  /\ halted' = TRUE
  /\ UNCHANGED <<sec, valid, refcnt, data, lru, owner, disk, pc, buf, pins>>

(* bget(): acquiresleep(&b->lock), then return to bread().                 *)
AcquireBuf(t) ==
  /\ pc[t] = "acq" /\ ~halted
  /\ owner[buf[t]] = NoThread
  /\ owner' = [owner EXCEPT ![buf[t]] = t]
  /\ pc' = [pc EXCEPT ![t] = "read"]
  /\ UNCHANGED <<sec, valid, refcnt, data, lru, disk, buf, pins, halted>>

(* bread(): if (!b->valid) { disk_read(b); b->valid = 1; }                 *)
BRead(t) ==
  LET b == buf[t] IN
  /\ pc[t] = "read" /\ ~halted
  /\ \/ /\ ~valid[b]
        /\ data' = [data EXCEPT ![b] = disk[sec[b]]]
        /\ valid' = [valid EXCEPT ![b] = TRUE]
     \/ /\ valid[b]
        /\ UNCHANGED <<data, valid>>
  /\ pc' = [pc EXCEPT ![t] = "hold"]
  /\ UNCHANGED <<sec, refcnt, lru, owner, disk, buf, pins, halted>>

(* The caller stores v into b->data (write_fat, zero_clus, rw_clus),       *)
(* always followed by bwrite().                                            *)
Modify(t, v) ==
  /\ pc[t] = "hold" /\ ~halted
  /\ data' = [data EXCEPT ![buf[t]] = v]
  /\ pc' = [pc EXCEPT ![t] = "dirty"]
  /\ UNCHANGED <<sec, valid, refcnt, lru, owner, disk, buf, pins, halted>>

(* bwrite(): holdingsleep checked; disk_write(b).                          *)
BWrite(t) ==
  /\ pc[t] = "dirty" /\ ~halted
  /\ owner[buf[t]] = t
  /\ disk' = [disk EXCEPT ![sec[buf[t]]] = data[buf[t]]]
  /\ pc' = [pc EXCEPT ![t] = "hold"]
  /\ UNCHANGED <<sec, valid, refcnt, data, lru, owner, buf, pins, halted>>

(* brelse(): holdingsleep checked; releasesleep(&b->lock).                 *)
BRelseUnlock(t) ==
  /\ pc[t] = "hold" /\ ~halted
  /\ owner[buf[t]] = t
  /\ owner' = [owner EXCEPT ![buf[t]] = NoThread]
  /\ pc' = [pc EXCEPT ![t] = "rel"]
  /\ UNCHANGED <<sec, valid, refcnt, data, lru, disk, buf, pins, halted>>

(* A mutation: brelse() that moves the buffer but never decrements.        *)
BRelseNoDec(t) ==
  LET b == buf[t] IN
  /\ pc[t] = "rel" /\ ~halted
  /\ lru' = IF refcnt[b] = 1 THEN <<b>> \o Remove(lru, b) ELSE lru
  /\ buf' = [buf EXCEPT ![t] = NoBuf]
  /\ pc' = [pc EXCEPT ![t] = "idle"]
  /\ UNCHANGED <<sec, valid, refcnt, data, owner, disk, pins, halted>>

(* brelse(), under the cache lock: refcnt--; at 0 the buffer moves to the *)
(* head of the list (most recently used).                                  *)
BRelse(t) ==
  LET b == buf[t] IN
  /\ pc[t] = "rel" /\ ~halted
  /\ refcnt' = [refcnt EXCEPT ![b] = @ - 1]
  /\ lru' = IF refcnt[b] - 1 = 0 THEN <<b>> \o Remove(lru, b) ELSE lru
  /\ buf' = [buf EXCEPT ![t] = NoBuf]
  /\ pc' = [pc EXCEPT ![t] = "idle"]
  /\ UNCHANGED <<sec, valid, data, owner, disk, pins, halted>>

(* bpin(b): refcnt++ under the cache lock, by a thread holding b.          *)
BPin(t) ==
  /\ pc[t] = "hold" /\ ~halted
  /\ pins[buf[t]] < MaxPins
  /\ refcnt' = [refcnt EXCEPT ![buf[t]] = @ + 1]
  /\ pins' = [pins EXCEPT ![buf[t]] = @ + 1]
  /\ UNCHANGED <<sec, valid, data, lru, owner, disk, pc, buf, halted>>

(* A mutation: bunpin() of a buffer nobody pinned.                         *)
BUnpinUnchecked(t) ==
  /\ pc[t] = "hold" /\ ~halted
  /\ refcnt' = [refcnt EXCEPT ![buf[t]] = @ - 1]
  /\ pins' = [pins EXCEPT ![buf[t]] = @ - 1]
  /\ UNCHANGED <<sec, valid, data, lru, owner, disk, pc, buf, halted>>

(* bunpin(b): refcnt-- under the cache lock, undoing an earlier bpin.      *)
BUnpin(t) ==
  /\ pc[t] = "hold" /\ ~halted
  /\ pins[buf[t]] > 0
  /\ refcnt' = [refcnt EXCEPT ![buf[t]] = @ - 1]
  /\ pins' = [pins EXCEPT ![buf[t]] = @ - 1]
  /\ UNCHANGED <<sec, valid, data, lru, owner, disk, pc, buf, halted>>

(* After the panic the kernel stops: the end of a behaviour, not a deadlock. *)
Halted == halted /\ UNCHANGED vars

Next ==
  \/ Halted
  \/ \E t \in Threads :
      \/ \E s \in Secs : BGetHit(t, s) \/ BGetRecycle(t, s) \/ BGetPanic(t, s)
      \/ AcquireBuf(t) \/ BRead(t) \/ BWrite(t)
      \/ \E v \in Values : Modify(t, v)
      \/ BRelseUnlock(t) \/ BRelse(t) \/ BPin(t) \/ BUnpin(t)

Spec == Init /\ [][Next]_vars
-----------------------------------------------------------------------------
TypeOK ==
  /\ sec \in [Bufs -> Secs \cup {NoSec}]
  /\ valid \in [Bufs -> BOOLEAN]
  /\ refcnt \in [Bufs -> Nat]
  /\ data \in [Bufs -> Values]
  /\ lru \in Seq(Bufs) /\ Len(lru) = NBUF /\ ToSet(lru) = Bufs
  /\ owner \in [Bufs -> Threads \cup {NoThread}]
  /\ disk \in [Secs -> Values]
  /\ pc \in [Threads -> {"idle", "acq", "read", "hold", "dirty", "rel"}]
  /\ buf \in [Threads -> Bufs \cup {NoBuf}]
  /\ pins \in [Bufs -> 0..MaxPins]
  /\ halted \in BOOLEAN

(* bget(): no two buffers ever carry the same sector, so concurrent        *)
(* bread()s of one sector share one buffer and one payload.  This implies  *)
(* the spec's "at most one buffer per (dev, sector) with valid or refcnt". *)
UniqueSector ==
  \A b1, b2 \in Bufs : b1 # b2 /\ sec[b1] = sec[b2] => sec[b1] = NoSec

(* bget()/brelse()/bpin()/bunpin(): refcnt counts exactly the threads      *)
(* between bget and the end of brelse on the buffer, plus its pins.        *)
RefcntCounts ==
  \A b \in Bufs :
    refcnt[b] = Cardinality({t \in Threads : buf[t] = b}) + pins[b]

(* bget(): a buffer is given a new sector only when nobody references it.  *)
RecycleOnlyFree ==
  [][\A b \in Bufs : sec'[b] # sec[b] => refcnt[b] = 0]_vars

(* The refinement mapping: a thread holds a sector while it owns the       *)
(* sleep lock of the buffer bget gave it; a sector's content is the        *)
(* payload of the valid buffer that caches it, or else the disk's.         *)
absHolder ==
  [t \in Threads |-> IF buf[t] # NoBuf /\ owner[buf[t]] = t
                     THEN sec[buf[t]] ELSE NoSec]
absContent ==
  [s \in Secs |-> LET C == {b \in Bufs : sec[b] = s /\ valid[b]} IN
                  IF C = {} THEN disk[s] ELSE data[CHOOSE b \in C : TRUE]]

Abs == INSTANCE BufCacheSpec WITH holder <- absHolder, content <- absContent

(* bread/bwrite/brelse implement BufCacheSpec: exclusive use of a sector   *)
(* between bread and brelse, and every bread returns what the last holder  *)
(* of the sector wrote, across recycling of buffers.                       *)
BufCacheRefines == Abs!Spec
=============================================================================
