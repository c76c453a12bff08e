---------------------------- MODULE BufCacheSpec ----------------------------
(***************************************************************************)
(* What the buffer cache of src/kernel/bio.c promises its callers, stated  *)
(* without buffers: each sector has one current content; bread() gives    *)
(* the caller exclusive use of a sector until brelse(); what the caller    *)
(* writes into it is the sector's content from then on (bwrite is          *)
(* write-through, so nothing is lost when the buffer is recycled).         *)
(***************************************************************************)
CONSTANTS Threads, Secs, Values, NoSec, InitValue

VARIABLES
  holder,   \* holder[t]: the sector thread t has bread() and not released
  content   \* content[s]: what a bread() of s now returns

vars == <<holder, content>>

Init ==
  /\ holder = [t \in Threads |-> NoSec]
  /\ content = [s \in Secs |-> InitValue]

(* bread(s) returns: no other thread holds s.                              *)
Acquire(t, s) ==
  /\ holder[t] = NoSec
  /\ \A u \in Threads : holder[u] # s
  /\ holder' = [holder EXCEPT ![t] = s]
  /\ UNCHANGED content

(* The holder stores v into the sector's payload.                          *)
Write(t, v) ==
  /\ holder[t] # NoSec
  /\ content' = [content EXCEPT ![holder[t]] = v]
  /\ UNCHANGED holder

(* brelse().                                                               *)
Release(t) ==
  /\ holder[t] # NoSec
  /\ holder' = [holder EXCEPT ![t] = NoSec]
  /\ UNCHANGED content

Next ==
  \E t \in Threads :
    \/ \E s \in Secs : Acquire(t, s)
    \/ \E v \in Values : Write(t, v)
    \/ Release(t)

Spec == Init /\ [][Next]_vars
=============================================================================
